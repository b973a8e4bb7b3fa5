------------------------------ MODULE TcWaitq ------------------------------
(***************************************************************************)
(* What tc_waitq promises to the code built on it: the wait protocol of    *)
(* tc_waitq_wait_event() and tc_signals, without workers and event lists   *)
(* (TcSched has those).  A thread waits on one queue at a time; its event  *)
(* is on wq->waiters, or active (on common.immediate or tc->pending), or   *)
(* on no list.                                                             *)
(***************************************************************************)
EXTENDS EventLists

CONSTANTS
    Threads,      \* the tc_threads that use the queues
    Queues,       \* the wait queues
    Subscribers,  \* the threads that have subscribed to a signal
    NULL

VARIABLES
    waiters,  \* waiters[q]: whose events are on q's list, the first to be woken first
    active,   \* whose events a wakeup has moved away from a wait queue
    sig,      \* the threads that have a fired signal waiting for them
    woken     \* woken[t]: what worker->woken_by_event is as t runs

wqVars == <<waiters, active, sig, woken>>

WaitqInit ==
    /\ waiters = [q \in Queues |-> <<>>]
    /\ active = {} /\ sig = {}
    /\ woken = [t \in Threads |-> NULL]

\* The types, and that an event is on one list and there once.
WaitqType ==
    /\ waiters \in [Queues -> Seq(Threads)]
    /\ active \subseteq Threads /\ sig \subseteq Threads
    /\ woken \in [Threads -> {NULL, "event", "signal"}]
    /\ \A q \in Queues : IsInjective(waiters[q])
    /\ \A q \in Queues, t \in Threads : Contains(waiters[q], t) =>
          t \notin active /\ \A r \in Queues \ {q} : ~Contains(waiters[r], t)

prepare_to_wait(t, q) ==
    /\ waiters' = [waiters EXCEPT ![q] = Append(@, t)]
    /\ woken' = [woken EXCEPT ![t] = NULL]
    /\ UNCHANGED <<active, sig>>

\* tc_scheduler() returns when the thread's event or a signal is active; with both
\* it is either that is found first.
tc_scheduler(t) ==
    /\ \/ t \in active /\ active' = active \ {t} /\ UNCHANGED sig
          /\ woken' = [woken EXCEPT ![t] = "event"]
       \/ t \in sig /\ sig' = sig \ {t} /\ UNCHANGED active
          /\ woken' = [woken EXCEPT ![t] = "signal"]
    /\ UNCHANGED waiters

leave_active(t, q) == \* forgets an event that is still on the wait queue
    /\ active' = active \ {t}
    /\ UNCHANGED waiters
leave(t, q) ==
    /\ waiters' = [waiters EXCEPT ![q] = RemoveFirst(@, t)]
    /\ active' = active \ {t}

\* tc_waitq_finish_wait() returns 0: the event got active, or "we got a signal, but
\* the expected event got active, too".
finish_wait(t, q) ==
    /\ woken[t] = "signal" => t \in active
    /\ leave(t, q)
    /\ sig' = IF woken[t] = "signal" THEN sig \cup {t} ELSE sig
    /\ woken' = [woken EXCEPT ![t] = NULL]

\* tc_waitq_finish_wait() returns 1, for RV_INTR.
finish_intr_eager(t, q) == \* whatever became of the event
    /\ woken[t] = "signal"
    /\ leave(t, q)
    /\ UNCHANGED <<sig, woken>>
finish_intr(t, q) ==
    /\ woken[t] = "signal" /\ t \notin active
    /\ leave(t, q)
    /\ UNCHANGED <<sig, woken>>

tc_waitq_wakeup_one(q) ==
    /\ waiters' = [waiters EXCEPT ![q] = IF @ = <<>> THEN @ ELSE Tail(@)]
    /\ active' = active \cup {t \in Threads : waiters[q] # <<>> /\ t = Head(waiters[q])}
    /\ UNCHANGED <<sig, woken>>

\* tc_waitq_wakeup_all() of each queue in Q, all under one lock of the caller.
tc_waitq_wakeup_all(Q) ==
    /\ waiters' = [q \in Queues |-> IF q \in Q THEN <<>> ELSE waiters[q]]
    /\ active' = active \cup UNION {Range(waiters[q]) : q \in Q}
    /\ UNCHANGED <<sig, woken>>

\* tc_signal_fire() of a signal that t has subscribed to.
tc_signal_fire(t) ==
    /\ t \in Subscribers \ sig
    /\ sig' = sig \cup {t}
    /\ UNCHANGED <<waiters, active, woken>>
=============================================================================
