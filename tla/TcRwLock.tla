----------------------------- MODULE TcRwLock ------------------------------
(***************************************************************************)
(* tc_rw_lock: readers pass through the mutex and count themselves; a      *)
(* writer keeps the mutex and waits on wr_wq until the count is zero.      *)
(***************************************************************************)
EXTENDS TcMutex, FiniteSets

ASSUME RwAssumption == "wr_wq" \in Queues /\ IsFiniteSet(Threads)

VARIABLES
    readers,  \* l->readers
    op        \* op[t]: the call for which t takes the mutex, until it has it

rwVars == <<vars, readers, op>>

\* tc_mutex_lock(&l->mutex), the first step of both kinds of lock.
tc_rw_lock(t, o) ==
    /\ tc_mutex_lock(t)
    /\ op' = [op EXCEPT ![t] = o]
    /\ UNCHANGED readers

mutex_waiting(t) == waiting(t) /\ UNCHANGED <<readers, op>>

\* tc_rw_r_lock() has the mutex; or tc_rw_w2r_lock().
r_count(t) ==
    /\ \/ pc[t] = "locked" /\ op[t] = "r"
       \/ pc[t] = "writing"
    /\ readers' = readers + 1
    /\ Goto(t, "release")
    /\ op' = [op EXCEPT ![t] = NULL]
    /\ UNCHANGED <<wqVars, m_owner>>

\* tc_mutex_unlock(&l->mutex), wherever it is called.
unlock_from == [release |-> "reading", w_failed |-> "idle", writing |-> "idle"]
unlock(t) ==
    /\ pc[t] \in DOMAIN unlock_from
    /\ mutex_unlock(t)
    /\ Goto(t, unlock_from[pc[t]])
    /\ UNCHANGED <<readers, op>>

\* tc_waitq_wait_event(&l->wr_wq, atomic_read(&l->readers) == 0)
no_readers(t, then, else) == Goto(t, IF readers = 0 THEN then ELSE else)

w_test(t) ==
    /\ pc[t] = "locked" /\ op[t] = "w"
    /\ no_readers(t, "writing", "w_prepare")
    /\ op' = [op EXCEPT ![t] = NULL]
    /\ UNCHANGED <<wqVars, m_owner, readers>>

w_prepare_blind(t) == \* does not look at the readers again
    /\ pc[t] = "w_prepare"
    /\ prepare_to_wait(t, "wr_wq")
    /\ Goto(t, "w_scheduler")
    /\ UNCHANGED <<m_owner, readers, op>>
w_prepare(t) ==
    /\ pc[t] = "w_prepare"
    /\ prepare_to_wait(t, "wr_wq")
    /\ Goto(t, "w_cond")
    /\ UNCHANGED <<m_owner, readers, op>>

w_cond(t) ==
    /\ pc[t] = "w_cond"
    /\ no_readers(t, "w_finish_true", "w_scheduler")
    /\ UNCHANGED <<wqVars, m_owner, readers, op>>

w_scheduler(t) ==
    /\ pc[t] = "w_scheduler"
    /\ tc_scheduler(t)
    /\ Goto(t, "w_finish")
    /\ UNCHANGED <<m_owner, readers, op>>

\* "In case the waiting was interrupted, we have to release the mutex."
interrupted_keeps(t) == Goto(t, "idle")
interrupted(t) == Goto(t, "w_failed")

w_finish(t) ==
    /\ \/ pc[t] = "w_finish" /\ finish_wait(t, "wr_wq") /\ Goto(t, "w_prepare")
       \/ pc[t] = "w_finish" /\ finish_intr(t, "wr_wq") /\ interrupted(t)
       \/ pc[t] = "w_finish_true" /\ finish_wait(t, "wr_wq") /\ Goto(t, "writing")
    /\ UNCHANGED <<m_owner, readers, op>>

tc_rw_w_trylock(t) ==
    /\ pc[t] = "idle"
    /\ cas_owner(t, "try", "idle")
    /\ UNCHANGED <<wqVars, readers, op>>

try_readers_blind(t) == \* does not look at the readers
    /\ pc[t] = "try"
    /\ Goto(t, "writing")
    /\ UNCHANGED <<wqVars, m_owner, readers, op>>
try_readers(t) ==
    /\ pc[t] = "try"
    /\ no_readers(t, "writing", "w_failed")
    /\ UNCHANGED <<wqVars, m_owner, readers, op>>

tc_rw_r_unlock(t) ==
    /\ pc[t] = "reading"
    /\ readers' = readers - 1
    /\ Goto(t, IF readers = 1 THEN "wakeup" ELSE "idle")
    /\ UNCHANGED <<wqVars, m_owner, op>>

wakeup_writer(t) ==
    /\ pc[t] = "wakeup"
    /\ tc_waitq_wakeup_one("wr_wq")
    /\ Goto(t, "idle")
    /\ UNCHANGED <<m_owner, readers, op>>

rw_signal(t) == signal(t) /\ UNCHANGED <<readers, op>>

RwInit == MutexInit /\ readers = 0 /\ op = [t \in Threads |-> NULL]

\* What a thread does inside the library.
rw_inside(t) ==
    \/ mutex_waiting(t) \/ w_test(t) \/ w_prepare(t) \/ w_cond(t) \/ w_scheduler(t)
    \/ w_finish(t) \/ try_readers(t) \/ wakeup_writer(t)
    \/ pc[t] # "writing" /\ (r_count(t) \/ unlock(t))

\* What the client does with a lock it has.
rw_client(t) == tc_rw_r_unlock(t) \/ (pc[t] = "writing" /\ (r_count(t) \/ unlock(t)))

RwNext == \E t \in Threads :
    \/ rw_inside(t) \/ rw_client(t) \/ rw_signal(t)
    \/ tc_rw_lock(t, "r") \/ tc_rw_lock(t, "w") \/ tc_rw_w_trylock(t)

RwSpec == RwInit /\ [][RwNext]_rwVars

\* Locks are released in the end.
RwFairSpec == RwSpec /\ \A t \in Threads : WF_rwVars(rw_inside(t)) /\ WF_rwVars(rw_client(t))

-----------------------------------------------------------------------------
WritePCs == {"w_prepare", "w_cond", "w_scheduler", "w_finish", "w_finish_true"}
RwPCs    == MutexPCs \cup WritePCs \cup
            {"try", "w_failed", "release", "reading", "writing", "wakeup"}

\* Type invariant of the rwlock; a thread is queued once.
RwTypeOK ==
    /\ WaitqType
    /\ m_owner \in Threads \cup {NULL}
    /\ pc \in [Threads -> RwPCs]
    /\ op \in [Threads -> {"r", "w", NULL}]
    /\ readers \in Int

\* "No other reader or writer can be active" while a writer is
\* (man-pages/tc_rwlock.xml), however locks, trylocks, interrupted locks and
\* downgrades interleave.
WriterAlone ==
    \A t, u \in Threads : pc[t] = "writing" /\ t # u => pc[u] \notin {"reading", "writing"}

\* Where a thread holds the mutex.
HoldPCs == WritePCs \cup {"locked", "try", "w_failed", "release", "writing"}

\* A call that fails has given the mutex back, and one that holds it is its owner:
\* an interrupted tc_rw_w_lock() does not leave the lock locked for ever.
MutexGivenBack ==
    \A t \in Threads :
        /\ pc[t] \in {"idle", "reading", "wakeup"} => m_owner # t
        /\ pc[t] \in HoldPCs => m_owner = t

\* A writer does not sleep when the last reader has gone, unless the reader is
\* about to wake it.
WriterWoken ==
    readers = 0 => \A t \in Threads : pc[t] = "w_scheduler" =>
        t \in active \/ \E u \in Threads : pc[u] = "wakeup"

\* The mutex inside is used as a lock by everyone, and is held by whoever is past
\* tc_mutex_lock() and before tc_mutex_unlock().
InnerLock == INSTANCE Lock WITH
    owner   <- m_owner,
    asking  <- {t \in Threads : pc[t] \in WaitPCs},
    holding <- {t \in Threads : pc[t] \in HoldPCs}
InnerIsLock == InnerLock!LockSpec

\* The whole is a reader/writer lock; tc_rw_w2r_lock() lets nobody write in between.
RwAccess == INSTANCE ReadersWriters WITH
    readings <- {t \in Threads : pc[t] \in {"release", "reading"}},
    writings <- {t \in Threads : pc[t] = "writing"}
RwImplements == RwAccess!AccessSpec

\* "Readers and writers are guaranteed to be served" (man-pages/tc_rwlock.xml): every
\* tc_rw_r_lock() and tc_rw_w_lock() returns, with the lock or interrupted.
RwLockReturns ==
    \A t \in Threads :
        pc[t] \in WaitPCs \cup WritePCs \cup {"locked"} ~> pc[t] \in {"reading", "writing", "idle"}
=============================================================================
