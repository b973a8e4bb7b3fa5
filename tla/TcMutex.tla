------------------------------ MODULE TcMutex ------------------------------
(***************************************************************************)
(* tc_mutex: a compare-and-swap on m_owner, and lock passing.  The unlocker *)
(* makes the first waiter the owner while it moves its event, so a signal  *)
(* that interrupts this waiter races with the mutex it is being handed.    *)
(***************************************************************************)
EXTENDS TcWaitq

ASSUME MutexAssumption == "wq" \in Queues /\ NULL \notin Threads

VARIABLES
    m_owner,  \* m->m_owner
    pc        \* where a thread is in tc_mutex_lock() ("idle", "locked": outside)

vars == <<wqVars, m_owner, pc>>

Goto(t, l) == pc' = [pc EXCEPT ![t] = l]

\* __sync_bool_compare_and_swap(&m->m_owner, 0, me)
cas_owner_blind(t, then, else) == \* stores without comparing
    m_owner' = t /\ Goto(t, then)
cas_owner(t, then, else) ==
    \/ m_owner = NULL /\ m_owner' = t /\ Goto(t, then)
    \/ m_owner # NULL /\ UNCHANGED m_owner /\ Goto(t, else)

\* "Given by last owner, or got free": the condition tc_mutex_lock() waits for.
free_only(t, then, else) == cas_owner(t, then, else)
given_or_free(t, then, else) ==
    \/ m_owner = t /\ UNCHANGED m_owner /\ Goto(t, then)
    \/ m_owner # t /\ cas_owner(t, then, else)

tc_mutex_lock(t) ==
    /\ pc[t] = "idle"
    /\ cas_owner(t, "locked", "test")
    /\ UNCHANGED wqVars

test(t) ==
    /\ pc[t] = "test"
    /\ given_or_free(t, "locked", "prepare")
    /\ UNCHANGED wqVars

prepare_blind(t) == \* does not look at the mutex again
    /\ pc[t] = "prepare"
    /\ prepare_to_wait(t, "wq")
    /\ Goto(t, "scheduler")
    /\ UNCHANGED m_owner
prepare(t) ==
    /\ pc[t] = "prepare"
    /\ prepare_to_wait(t, "wq")
    /\ Goto(t, "cond")
    /\ UNCHANGED m_owner

cond(t) ==
    /\ pc[t] = "cond"
    /\ given_or_free(t, "finish_true", "scheduler")
    /\ UNCHANGED wqVars

scheduler(t) ==
    /\ pc[t] = "scheduler"
    /\ tc_scheduler(t)
    /\ Goto(t, "finish")
    /\ UNCHANGED m_owner

finish(t) ==
    /\ \/ pc[t] = "finish" /\ finish_wait(t, "wq") /\ Goto(t, "prepare")
       \/ pc[t] = "finish" /\ finish_intr(t, "wq") /\ Goto(t, "idle")
       \/ pc[t] = "finish_true" /\ finish_wait(t, "wq") /\ Goto(t, "locked")
    /\ UNCHANGED m_owner

\* tc_waitq_wakeup_one_owner(&m->wq, &m->m_owner), under the lock of the queue.
pass_owner == m_owner' = IF waiters["wq"] = <<>> THEN NULL ELSE Head(waiters["wq"])

mutex_unlock(t) ==
    /\ pass_owner
    /\ tc_waitq_wakeup_one("wq")

tc_mutex_unlock(t) ==
    /\ pc[t] = "locked"
    /\ mutex_unlock(t)
    /\ Goto(t, "idle")

tc_mutex_trylock(t) ==
    /\ pc[t] = "idle"
    /\ cas_owner(t, "locked", "idle")
    /\ UNCHANGED wqVars

\* The owner leaves it to u, which is not about to lock the mutex, to unlock it.
tc_mutex_change_owner(t, u) ==
    /\ pc[t] = "locked" /\ pc[u] = "idle"
    /\ m_owner' = u
    /\ pc' = [pc EXCEPT ![t] = "idle", ![u] = "locked"]
    /\ UNCHANGED wqVars

signal(t) == tc_signal_fire(t) /\ UNCHANGED <<m_owner, pc>>

MutexInit == WaitqInit /\ m_owner = NULL /\ pc = [t \in Threads |-> "idle"]

\* The wait inside tc_mutex_lock().
waiting(t) == test(t) \/ prepare(t) \/ cond(t) \/ scheduler(t) \/ finish(t)

Next == \E t \in Threads :
    \/ tc_mutex_lock(t) \/ waiting(t) \/ tc_mutex_unlock(t) \/ tc_mutex_trylock(t)
    \/ signal(t)
    \/ \E u \in Threads : tc_mutex_change_owner(t, u)

Spec == MutexInit /\ [][Next]_vars

\* A thread inside the library goes on; who holds the mutex unlocks it in the end.
FairSpec == Spec /\ \A t \in Threads : WF_vars(waiting(t)) /\ SF_vars(tc_mutex_unlock(t))

-----------------------------------------------------------------------------
WaitPCs  == {"test", "prepare", "cond", "scheduler", "finish", "finish_true"}
MutexPCs == WaitPCs \cup {"idle", "locked"}

\* Type invariant of the mutex; a thread is queued once.
MutexTypeOK ==
    /\ WaitqType
    /\ m_owner \in Threads \cup {NULL}
    /\ pc \in [Threads -> MutexPCs]

\* Mutual exclusion, as man-pages/tc_mutex_lock.xml has it: a thread whose
\* tc_mutex_lock() or tc_mutex_trylock() succeeded is the one owner.
MutualExclusion == \A t \in Threads : pc[t] \in {"locked", "finish_true"} => m_owner = t

\* The mutex is never handed to a thread that does not notice: an owner that does
\* not hold the mutex yet is awake, or is being woken by its event, and finds out
\* even if a signal came first; so no tc_mutex_lock() returns RV_INTR to the owner.
GrantNoticed ==
    \A t \in Threads : m_owner = t =>
        \/ pc[t] \in {"locked", "finish_true", "prepare", "cond"}
        \/ pc[t] = "scheduler" /\ t \in active
        \/ pc[t] = "finish" /\ (t \in active \/ woken[t] = "event")

\* Nobody sleeps on a free mutex.
NoSleepOnFree == m_owner = NULL => \A t \in Threads : pc[t] # "scheduler"

\* tc_mutex_lock(), tc_mutex_trylock(), tc_mutex_unlock() and tc_mutex_change_owner()
\* are the operations of a lock: whatever signals do, a call succeeds exactly if the
\* thread owns the mutex, and the mutex is only passed on to a thread that waits for it.
MutexLock == INSTANCE Lock WITH
    owner   <- m_owner,
    asking  <- {t \in Threads : pc[t] \in WaitPCs},
    holding <- {t \in Threads : pc[t] \in {"locked"}}
MutexIsLock == MutexLock!LockSpec

\* tc_mutex_lock() returns: with the mutex, or interrupted.
LockReturns == \A t \in Threads : pc[t] \in WaitPCs ~> pc[t] \in {"locked", "idle"}
=============================================================================
