----------------------------- MODULE MCTcSched -----------------------------
(* Small client programs for TcSched: Calls[t][i] is the set of calls that t  *)
(* may make as its i-th, so that one program stands for all their choices.   *)
EXTENDS TcSched, TLC

CONSTANTS w1, w2, main, t1, t2, q, q2, sg

One(op, a) == {<<op, a>>}
Yield      == One("yield", NULL)

Floating == [t \in Threads |-> NULL]
Pinned   == [t \in Threads |-> IF t = t1 THEN w2 ELSE NULL]

\* A thread is interrupted by a signal in every kind of sleep, while another one waits
\* too and a third wakes one or both; all come to their end, whatever the schedule.
SchedCalls ==
       main :> <<One("subscribe", sg), One("new", t1), One("new", t2),
                 {<<"wait_event", q>>, <<"wait", q>>} \cup One("join", t1) \cup Yield,
                 One("unsubscribe", sg), One("wakeup_all", q)>>
    @@ t1   :> <<One("fire", sg), {<<"wakeup_all", q>>, <<"wakeup_one", q>>}>>
    @@ t2   :> <<One("wait_event", q)>>

\* One wakeup for each waiter, and the other threads run between the two.
WakeupOneYieldCalls ==
       main :> <<One("new", t1), One("new", t2), One("wait_event", q)>>
    @@ t1   :> <<One("wait_event", q)>>
    @@ t2   :> <<One("wakeup_one", q), Yield, One("wakeup_one", q)>>

\* A sleep inside a wait condition is interrupted by a signal.
NestedSignalCalls ==
       main :> <<One("subscribe", sg), One("new", t1), One("wait_event", q),
                 Yield \cup One("wait_event", q2), One("unsubscribe", sg)>>
    @@ t1   :> <<One("fire", sg), One("wakeup_all", q)>>
=============================================================================
