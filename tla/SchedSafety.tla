---------------------------- MODULE SchedSafety -----------------------------
(***************************************************************************)
(* Over and above the inductive invariant: a thread goes to sleep only     *)
(* when nothing in tc->pending concerns it; the immediate list is always   *)
(* watched; refcnt counts the events of a thread that are on a list, so    *)
(* none is left behind in freed memory; and, for client programs that do   *)
(* not sleep inside a wait condition, no assert() fails and no wakeup is   *)
(* lost.                                                                   *)
(***************************************************************************)
EXTENDS SchedLife

-----------------------------------------------------------------------------
(* First and last elements. *)

\* What the proofs use of natural numbers and of finite sets; SetFactsHold takes it from
\* the library, at the end.
LeastElement ==
    \A T : T \subseteq Nat /\ T # {} => \E x \in T : \A y \in T : x <= y

CardEmpty ==
    /\ IsFiniteSet({}) /\ Cardinality({}) = 0
    /\ \A S : IsFiniteSet(S) /\ Cardinality(S) = 0 => S = {}

CardSingle ==
    \A x : IsFiniteSet({x}) /\ Cardinality({x}) = 1

CardAdd ==
    \A S, x : IsFiniteSet(S) /\ x \notin S =>
        IsFiniteSet(S \cup {x}) /\ Cardinality(S \cup {x}) = Cardinality(S) + 1

CardDel ==
    \A S, x : IsFiniteSet(S) /\ x \in S =>
        IsFiniteSet(S \ {x}) /\ Cardinality(S \ {x}) = Cardinality(S) - 1

SetFacts == LeastElement /\ CardEmpty /\ CardSingle /\ CardAdd /\ CardDel

-----------------------------------------------------------------------------
(* tc->pending. *)

\* Then tc_scheduler() picks nothing ...
LEMMA QuietIsEmpty == ASSUME LInv, NEW t \in Threads, Quiet(t) PROVE pending_event(t) = {}
  <1> SUFFICES ASSUME NEW e \in pending_event(t) PROVE FALSE
    BY Zenon
  <1> DEFINE P == list[Pending(t)]
             sigs == {i \in DOMAIN P : IsSignal(P[i])}
  <1>1. ~IsSignal(e) /\ event_stack[t] \notin {NULL, e}
    BY PendingEvent, Zenon DEF Quiet
  <1>2. e \in {P[i] : i \in {j \in sigs : \A k \in sigs : k <= j}}
    BY <1>1, Zenon DEF pending_event
  <1>3. PICK i \in sigs : e = P[i]
    BY <1>2, Zenon
  <1> QED BY <1>1, <1>3, Zenon

\* A thread that sleeps starts that way.
LEMMA InitSleepers == ASSUME Init PROVE Sleepers
  <1>1. el = [e \in Events |-> IF e = <<Main, 0>> THEN IMMEDIATE ELSE NULL]
    BY Zenon DEF Init
  <1>2. \A t \in Threads : Pending(t) \notin {IMMEDIATE, NULL}
    BY SchedAssumption, Zenon DEF Lists
  <1> QED BY <1>1, <1>2, Zenon DEF Sleepers, Quiet

\* Every step keeps it.
LEMMA StepSleepers == ASSUME SetFacts, IInv, Sleepers, [Next]_vars PROVE Sleepers'
  \* A set of indices that is not empty has a greatest element.
  <1>GreatestIndex. ASSUME SetFacts, NEW n \in Nat, NEW T, T \subseteq 1..n, T # {}
                    PROVE  \E x \in T : \A y \in T : y <= x
    <2> USE <1>GreatestIndex
    <2> DEFINE U == {n - i : i \in T}
    <2>1. U \subseteq Nat /\ U # {}
      <3>1. ASSUME NEW i \in T PROVE n - i \in Nat
        <4>1. i \in 1..n
          BY Zenon
        <4> QED BY <4>1
      <3> QED BY <3>1, Zenon
    <2> HIDE DEF U
    <2>2. PICK u \in U : \A v \in U : u <= v
      BY <2>1, Zenon DEF SetFacts, LeastElement
    <2>3. PICK x \in T : u = n - x
      BY <2>2 DEF U
    <2>4. \A y \in T : n - x <= n - y
      BY <2>2, <2>3, Zenon DEF U
    <2>5. \A y \in T : y <= x
      BY <2>4
    <2> QED BY <2>5, Zenon
  \* run_or_queue() leaves to a sleeping thread only what does not concern it.
  <1>WorkerSleepers. ASSUME IInv, Sleepers, NEW w \in Workers, worker(w) PROVE Sleepers'
    <2> USE <1>WorkerSleepers
    <2> USE LInvFromIInv DEF IInv
    <2>0. /\ el \in [Events -> Lists \cup {NULL}] /\ TF_RUNNING \in [Threads -> BOOLEAN]
          /\ \A t \in Threads : Pending(t) # NULL /\ Pending(t) \notin Signals
      BY SchedAssumption, Zenon DEF TypeOK, Lists, Queues
    <2>1. UNCHANGED event_stack
      BY Zenon DEF worker, run_immediate, search_none, search_queue, search_run, search_exiting,
         switch_to, switch_in, tc_thread_free, epoll_immediate, epoll_timeout, rearm_read,
         arm_immediate, parked, client, stkVars
    <2>2. \A t \in Threads : TF_RUNNING[t] => TF_RUNNING'[t]
      <3>1. CASE search_run(w)
        BY <2>0, <3>1, Zenon DEF search_run
      <3>2. CASE UNCHANGED TF_RUNNING
        BY <3>2, Zenon
      <3> QED BY <3>1, <3>2, Zenon DEF worker, run_immediate, search_none, search_queue, search_exiting,
              switch_to, switch_in, tc_thread_free, epoll_immediate, epoll_timeout, rearm_read,
              arm_immediate, parked, runVars
    <2>3. ASSUME NEW t \in Threads, NEW e \in Events, el'[e] = Pending(t), el[e] # Pending(t)
          PROVE  Tc(e) = t /\ must_queue(e)
      <3>1. CASE search_queue(w)
        <4>1. PICK x \in first_wanted(w) : must_queue(x) /\ move_event(x, Pending(Tc(x)))
          BY <3>1, Zenon DEF search_queue
        <4>2. x = e /\ Pending(Tc(x)) = Pending(t)
          BY <2>0, <2>3, <4>1, FirstWanted, Zenon DEF move_event
        <4> QED BY <4>1, <4>2, EventTc, PendingIs, Zenon
      <3>2. CASE search_run(w)
        <4>1. PICK x \in first_wanted(w) : consume_event(x)
          BY <3>2, Zenon DEF search_run
        <4>2. x \in Events
          BY <4>1, FirstWanted, Zenon
        <4> QED BY <2>0, <2>3, <4>1, <4>2, ConsumeEventLists, ZenonT(30) DEF IsSignal
      <3>3. CASE search_exiting(w)
        BY <2>0, <2>3, <3>3, Zenon DEF search_exiting, remove_event
      <3>4. CASE UNCHANGED el
        BY <2>3, <3>4, Zenon
      <3> QED BY <3>1, <3>2, <3>3, <3>4, Zenon DEF worker, run_immediate, search_none, switch_to, switch_in,
              tc_thread_free, epoll_immediate, epoll_timeout, rearm_read, arm_immediate, parked, listVars
    <2> SUFFICES ASSUME NEW t \in Threads, ~TF_RUNNING'[t], NEW e \in Events, el'[e] = Pending(t)
                 PROVE  ~IsSignal(e) /\ event_stack[t] \notin {NULL, e}
      BY <2>1, Zenon DEF Sleepers, Quiet
    <2>4. ~TF_RUNNING[t]
      BY <2>2, Zenon
    <2> QED BY <2>3, <2>4, Zenon DEF Sleepers, Quiet, must_queue
  \* ... and otherwise it picks something.
  <1>EmptyIsQuiet. ASSUME SetFacts, LInv, NEW t \in Threads, pending_event(t) = {} PROVE Quiet(t)
    <2> USE <1>EmptyIsQuiet
    <2> SUFFICES ASSUME NEW e \in Events, el[e] = Pending(t)
                 PROVE  ~IsSignal(e) /\ event_stack[t] \notin {NULL, e}
      BY Zenon DEF Quiet
    <2> DEFINE P == list[Pending(t)]
               sigs == {i \in DOMAIN P : IsSignal(P[i])}
               last == {j \in sigs : \A k \in sigs : k <= j}
    <2>1. Pending(t) \in Lists /\ P \in Seq(Events) /\ Contains(P, e)
      BY LInvTypes, Zenon DEF Lists, LInv, LC
    <2>2. pending_event(t) = IF event_stack[t] = NULL THEN {P[i] : i \in DOMAIN P \cap {1}}
                             ELSE IF Contains(P, event_stack[t]) THEN {event_stack[t]}
                             ELSE {P[i] : i \in last}
      BY Zenon DEF pending_event
    <2> HIDE DEF P
    <2>3. PICK i \in 1..Len(P) : P[i] = e
      BY <2>1, Zenon DEF Contains
    <2>4. DOMAIN P = 1..Len(P) /\ Len(P) \in Nat /\ 1 \in 1..Len(P)
      BY <2>1, <2>3
    <2>5. event_stack[t] # NULL
      BY <2>2, <2>4, Zenon
    <2>6. event_stack[t] # e
      BY <2>1, <2>2, <2>5, Zenon
    <2>7. ASSUME IsSignal(e) PROVE FALSE
      <3>1. sigs # {} /\ sigs \subseteq 1..Len(P)
        BY <2>3, <2>4, <2>7, Zenon
      <3> HIDE DEF sigs
      <3>2. \E j \in sigs : \A k \in sigs : k <= j
        BY <2>4, <3>1, <1>GreatestIndex, Zenon
      <3>3. last # {}
        BY <3>2, Zenon
      <3> HIDE DEF last
      <3>4. {P[j] : j \in last} # {}
        BY <3>3, Zenon
      <3> QED BY <2>2, <2>5, <3>4, Zenon
    <2> QED BY <2>5, <2>6, <2>7, Zenon
  \* tc_scheduler() marks a thread as sleeping after it looked through tc->pending.
  <1>CoroutineSleepers. ASSUME SetFacts, IInv, Sleepers, NEW w \in Workers, NEW t \in Threads, coroutine(w, t) PROVE Sleepers'
    <2> USE <1>CoroutineSleepers
    <2> USE LInvFromIInv DEF IInv
    <2> SUFFICES ASSUME NEW u \in Threads, ~TF_RUNNING'[u] PROVE Quiet(u)'
      BY Zenon DEF Sleepers
    <2>1. CASE u # t
      <3>1. TF_RUNNING'[u] = TF_RUNNING[u]
        BY <2>1, QuietFrame, Zenon DEF tc_scheduler, switch_out, runVars, TypeOK
      <3> QED BY <2>1, <3>1, OthersPending, Zenon DEF Sleepers, Quiet
    <2>2. CASE u = t /\ TF_RUNNING[t]
      <3>1. tc_scheduler(w, t)
        BY <2>2, QuietFrame, Zenon DEF switch_out, runVars
      <3>2. pending_event(t) = {} /\ UNCHANGED <<listVars, event_stack>>
        BY <2>2, <3>1, Zenon DEF tc_scheduler, client, stkVars
      <3>3. Quiet(t)
        BY <3>2, <1>EmptyIsQuiet, Zenon
      <3> QED BY <2>2, <3>2, <3>3, Zenon DEF Quiet, listVars
    <2>3. CASE u = t /\ ~TF_RUNNING[t]
      <3>1. switch_out(w, t)
        <4>1. ctx[w] = t
          BY CoroutineFrame, Zenon
        <4>2. pc[t] = "switch"
          BY <2>3, <4>1, RunningMarked, Zenon
        <4>3. ~tc_scheduler(w, t)
          BY <4>2, Zenon DEF tc_scheduler, At
        <4> QED BY <4>2, <4>3, QuietFrame, Zenon
      <3>2. UNCHANGED <<listVars, event_stack>>
        BY <3>1, Zenon DEF switch_out, client, stkVars
      <3> QED BY <2>3, <3>2, Zenon DEF Sleepers, Quiet, listVars
    <2> QED BY <2>1, <2>2, <2>3, Zenon
  <1>1. CASE UNCHANGED vars
    BY <1>1, Zenon DEF Sleepers, Quiet, vars, parked, listVars, runVars, client, stkVars
  <1> QED BY <1>1, <1>WorkerSleepers, <1>CoroutineSleepers, Zenon DEF Next

-----------------------------------------------------------------------------
(* The immediate list. *)

\* A thread is about to write to the domain's eventfd.
Ringing(t) == pc[t] \in {"iwi", "die_wakeup_iwi", "die_iwi"}

\* The event of a tc_sched_yield() whose thread is going to enter the scheduler.
Yielding(e) ==
    LET t == Tc(e) IN
    /\ e = Event(t) /\ Op(t) = "yield"
    /\ pc[t] \in {"yield_stack", "scheduler", "switch", "yield_done"}

Noticed == (armed /\ efd) \/ \E w \in Workers : WillSearch(w)
Watched(e) == Noticed \/ (\E t \in Threads : Ringing(t)) \/ Yielding(e)

\* Every event on the immediate list is watched; a yield watches its own event only.
Watch == \A e \in Events : el[e] = IMMEDIATE => Watched(e)

\* tc_run() sets the counter before the workers start.
LEMMA InitWatch == Init => Watch
  BY Zenon DEF Init, Watch, Watched, Noticed

\* A watched list is a watched event.
LEMMA WatchIsWatched == ASSUME IInv, Watch PROVE ImmediateWatched
  <1> SUFFICES ASSUME list[IMMEDIATE] # <<>>
               PROVE  (armed /\ efd) \/ (\E w \in Workers : WillSearch(w))
                      \/ \E t \in Threads : WillInterrupt(t)
    BY Zenon DEF ImmediateWatched
  <1>1. IMMEDIATE \in Lists /\ list[IMMEDIATE] \in Seq(Events)
    BY Zenon DEF IInv, TypeOK, Lists
  <1>2. PICK e \in Events : Contains(list[IMMEDIATE], e)
    BY <1>1 DEF Contains
  <1>3. Watched(e)
    BY <1>1, <1>2, Zenon DEF IInv, ListsConsistent, Watch
  <1>4. Yielding(e) => WillInterrupt(Tc(e))
    BY Zenon DEF Yielding, WillInterrupt
  <1>5. \A t \in Threads : Ringing(t) => WillInterrupt(t)
    BY Zenon DEF Ringing, WillInterrupt
  <1> QED BY <1>3, <1>4, <1>5, EventTc, Zenon DEF Watched, Noticed

\* Every step keeps the immediate list watched.
LEMMA StepWatch == ASSUME SetFacts, IInv, RearmExclusive, Watch, [Next]_vars PROVE Watch'
  \* The eventfd's counter is set, or some worker is about to arm it and to search.
  <1>Rung. ASSUME RearmExclusive, efd' = TRUE, UNCHANGED <<armed, wpc>> PROVE Noticed'
    BY <1>Rung, Zenon DEF Noticed, RearmExclusive, WillSearch
  \* A thread that puts an event on the immediate list is going to ring, or it yields.
  <1>NewImmediate. ASSUME IInv, NEW w \in Workers, NEW t \in Threads, coroutine(w, t),
                          NEW e \in Events, el[e] # IMMEDIATE, el'[e] = IMMEDIATE
                   PROVE  Ringing(t)' \/ Yielding(e)'
    <2> USE <1>NewImmediate
    <2> USE LInvFromIInv DEF IInv, At
    <2>0. /\ el \in [Events -> Lists \cup {NULL}] /\ pc \in [Threads -> ThreadPCs]
          /\ IMMEDIATE \notin Waitqs \cup Threads \cup Signals \cup {NULL}
          /\ \A u \in Threads : Pending(u) # IMMEDIATE
      BY SchedAssumption, Zenon DEF TypeOK, Lists, Queues
    <2>1. CASE UNCHANGED el
      BY <2>1, Zenon
    <2>2. ASSUME NEW x \in Events, NEW l, el' = [el EXCEPT ![x] = l], l # IMMEDIATE PROVE FALSE
      BY <2>0, <2>2, Zenon
    <2>3. CASE tc_waitq_prepare_to_wait(w, t) \/ tc_thread_wait(w, t)
      <3>1. Depth(t) # 0 /\ Op(t) \in {"wait_event", "wait", "join"}
        BY <2>3, InCall, Zenon DEF tc_waitq_prepare_to_wait, tc_thread_wait, CallsOK, CallOK
      <3>2. Event(t) \in Events /\ Arg(t) \in Waitqs \cup Threads
        BY <3>1, CallFacts, Zenon
      <3>3. CASE add_event(Event(t), Arg(t))
        BY <2>0, <2>2, <3>2, <3>3, Zenon DEF add_event
      <3> QED BY <2>1, <2>3, <3>3, Zenon DEF tc_waitq_prepare_to_wait, tc_thread_wait, prepare_to_wait,
              listVars
    <2>4. CASE tc_scheduler(w, t)
      <3>1. ASSUME NEW x \in pending_event(t), consume_event(x) PROVE FALSE
        <4>1. x \in Events
          BY PendingEvent, Zenon
        <4> QED BY <2>0, <2>2, <3>1, <4>1, ConsumeEventLists, Zenon DEF IsSignal
      <3> QED BY <2>1, <2>4, <3>1, Zenon DEF tc_scheduler, listVars
    <2>5. CASE tc_waitq_finish_wait(w, t)
      <3>1. Depth(t) # 0
        BY <2>5, InCall, Zenon DEF tc_waitq_finish_wait
      <3>2. Event(t) \in Events /\ Tc(Event(t)) = t
        BY <3>1, CallFacts, Zenon
      <3>3. CASE leave(Event(t))
        BY <2>0, <2>1, <2>2, <3>2, <3>3, Zenon DEF leave, remove_event, listVars
      <3>4. CASE requeue_signal(Event(t), woken_by_event[w])
        BY <2>0, <3>2, <3>4, Zenon DEF requeue_signal
      <3> QED BY <2>5, <3>3, <3>4, Zenon DEF tc_waitq_finish_wait
    <2>6. CASE tc_sched_yield(w, t)
      <3>1. Depth(t) # 0 /\ Op(t) = "yield"
        BY <2>6, InCall, Zenon DEF tc_sched_yield, CallsOK, CallOK
      <3>2. Event(t) \in Events /\ Tc(Event(t)) = t
        BY <3>1, CallFacts, Zenon
      <3>3. el' = [el EXCEPT ![Event(t)] = IMMEDIATE] /\ UNCHANGED calls /\ pc'[t] = "yield_stack"
        BY <2>0, <2>6, Zenon DEF tc_sched_yield, add_event_cr, Goto, client
      <3>4. e = Event(t)
        BY <2>0, <3>2, <3>3, Zenon
      <3>5. Event(t)' = Event(t) /\ Op(t)' = Op(t)
        BY <3>3, Zenon DEF Event, Op, Depth
      <3> QED BY <3>1, <3>2, <3>3, <3>4, <3>5, Zenon DEF Yielding
    <2>7. CASE tc_thread_new(w, t) \/ die_post(w, t)
      BY <2>0, <2>7, Zenon DEF tc_thread_new, die_post, Goto, Ringing
    <2>8. CASE yield_done(w, t)
      <3>1. Depth(t) # 0
        BY <2>8, InCall, Zenon DEF yield_done
      <3>2. Event(t) \in Events
        BY <3>1, CallFacts, Zenon
      <3> QED BY <2>0, <2>1, <2>2, <2>8, <3>2, Zenon DEF yield_done, remove_event, listVars
    <2>9. CASE tc_waitq_wakeup(w, t)
      <3>1. CASE Len(list[Arg(t)]) = 0
        <4>1. to_immediate(Arg(t), 0)
          BY <2>9, <3>1 DEF tc_waitq_wakeup
        <4>2. el' = [x \in Events |-> IF x \in {list[Arg(t)][i] : i \in 1..0} THEN IMMEDIATE ELSE el[x]]
          BY <4>1, Zenon DEF to_immediate
        <4>3. 1..0 = {}
          OBVIOUS
        <4> QED BY <4>2, <4>3, Zenon
      <3>2. CASE Len(list[Arg(t)]) # 0
        BY <2>0, <2>9, <3>2, Zenon DEF tc_waitq_wakeup, Goto, Ringing
      <3> QED BY <3>1, <3>2, Zenon
    <2>10. CASE die_wakeup(w, t)
      <3>1. CASE list[t] = <<>>
        <4>1. to_immediate(t, 0)
          BY <2>10, <3>1 DEF die_wakeup
        <4>2. el' = [x \in Events |-> IF x \in {list[t][i] : i \in 1..0} THEN IMMEDIATE ELSE el[x]]
          BY <4>1, Zenon DEF to_immediate
        <4>3. 1..0 = {}
          OBVIOUS
        <4> QED BY <4>2, <4>3, Zenon
      <3>2. CASE list[t] # <<>>
        BY <2>0, <2>10, <3>2, Zenon DEF die_wakeup, Goto, Ringing
      <3> QED BY <3>1, <3>2, Zenon
    <2>11. CASE tc_signal_subscribe(w, t)
      <3>1. Depth(t) # 0 /\ Op(t) = "subscribe"
        BY <2>11, InCall, Zenon DEF tc_signal_subscribe, CallsOK, CallOK
      <3>2. Arg(t) \in Signals
        BY <3>1, CallFacts, Zenon
      <3> QED BY <2>0, <2>11, <3>2, Zenon DEF tc_signal_subscribe, add_event
    <2>12. CASE tc_signal_unsubscribe(w, t)
      BY <2>0, <2>12, Zenon DEF tc_signal_unsubscribe, remove_event
    <2> QED BY <2>1, <2>3, <2>4, <2>5, <2>6, <2>7, <2>8, <2>9, <2>10, <2>11, <2>12, Zenon
            DEF coroutine, call, test, cond, switch_out, yield_stack, iwi_immediate, tc_thread_insert,
                tc_die, client, listVars
  \* A thread that rings does nothing else first.
  <1>RingingRings. ASSUME NEW w \in Workers, NEW t \in Threads, coroutine(w, t), Ringing(t)
                   PROVE  iwi_immediate(w, t)
    BY <1>RingingRings, Zenon DEF Ringing, At, coroutine, call, test, tc_waitq_prepare_to_wait, cond, tc_scheduler,
       switch_out, tc_waitq_finish_wait, tc_sched_yield, yield_stack, yield_done, tc_waitq_wakeup,
       tc_signal_subscribe, tc_signal_unsubscribe, tc_thread_insert, tc_thread_new, tc_thread_wait,
       tc_die, die_wakeup, die_post
  \* A thread that yields watches its event until it is consumed or its worker searches.
  <1>YieldWatches. ASSUME IInv, NEW w \in Workers, NEW t \in Threads, coroutine(w, t), ~switch_out(w, t),
                          NEW e \in Events, Tc(e) = t, Yielding(e), el[e] = IMMEDIATE, el'[e] = IMMEDIATE
                   PROVE  Yielding(e)'
    <2> USE <1>YieldWatches
    <2> USE DEF IInv, At
    <2>0. /\ pc \in [Threads -> ThreadPCs] /\ el \in [Events -> Lists \cup {NULL}]
          /\ IMMEDIATE # NULL /\ t # NULL
      BY SchedAssumption, Zenon DEF TypeOK, Lists
    <2>1. yield_stack(w, t) \/ tc_scheduler(w, t) \/ yield_done(w, t)
      BY Zenon DEF Yielding, coroutine, call, test, tc_waitq_prepare_to_wait, cond,
         tc_waitq_finish_wait, tc_sched_yield, tc_waitq_wakeup, iwi_immediate,
         tc_signal_subscribe, tc_signal_unsubscribe, tc_thread_insert, tc_thread_new, tc_thread_wait,
         tc_die, die_wakeup, die_post
    <2>2. CASE yield_done(w, t)
      <3>1. e = Event(t) /\ ctx[w] = t /\ pc[t] = "yield_done"
        BY <2>2, Zenon DEF yield_done, Yielding
      <3>2. CASE woken_by_event[w] # e
        BY <2>0, <2>2, <3>1, <3>2, Zenon DEF yield_done, remove_event
      <3>3. CASE woken_by_event[w] = e
        <4>1. Depth(t) # 0
          BY <3>1, InCall, Zenon
        <4>2. ~IsSignal(e) /\ e # NULL
          BY <3>1, <4>1, CallFacts, SchedAssumption, ZenonT(30)
        <4>3. el[e] = NULL
          BY <2>0, <3>1, <3>3, <4>2, Zenon DEF WokenOK, Woken
        <4> QED BY <2>0, <4>3, Zenon
      <3> QED BY <3>2, <3>3, Zenon
    <2>3. CASE yield_stack(w, t) \/ tc_scheduler(w, t)
      <3>1. UNCHANGED calls
        BY <2>3, Zenon DEF yield_stack, tc_scheduler, client
      <3>2. pc'[t] \in {"yield_stack", "scheduler", "switch", "yield_done"}
        BY <2>0, <2>3, ZenonT(30) DEF yield_stack, tc_scheduler, Goto, resume_pc, Yielding
      <3> QED BY <3>1, <3>2, Zenon DEF Yielding, Event, Op, Depth
    <2> QED BY <2>1, <2>2, <2>3, Zenon
  \* A thread does not touch its worker's search, and nobody but a worker reads the eventfd.
  <1>BellFrame. ASSUME IInv, NEW w \in Workers, NEW t \in Threads, coroutine(w, t), ~switch_out(w, t)
                PROVE  UNCHANGED <<armed, wpc, did>> /\ (efd => efd')
    <2> USE <1>BellFrame
    <2>1. CASE iwi_immediate(w, t)
      BY <2>1, Zenon DEF iwi_immediate, host, loopVars
    <2>2. CASE tc_scheduler(w, t)
      BY <2>2, Zenon DEF tc_scheduler, fdVars, loopVars
    <2>3. CASE UNCHANGED <<efd, host>>
      BY <2>3, Zenon DEF host, loopVars
    <2> QED BY <2>1, <2>2, <2>3, ZenonT(30) DEF coroutine, call, test, tc_waitq_prepare_to_wait, cond,
            tc_waitq_finish_wait, tc_sched_yield, yield_stack, yield_done, tc_waitq_wakeup,
            tc_signal_subscribe, tc_signal_unsubscribe, tc_thread_insert, tc_thread_new,
            tc_thread_wait, tc_die, die_wakeup, die_post
  \* A thread that leaves its worker sends it searching; one that stays rings or yields.
  <1>CoroutineWatch. ASSUME IInv, RearmExclusive, Watch, NEW w \in Workers, NEW t \in Threads, coroutine(w, t)
                     PROVE  Watch'
    <2> USE <1>CoroutineWatch
    <2> USE DEF IInv
    <2> SUFFICES ASSUME NEW e \in Events, el'[e] = IMMEDIATE PROVE Watched(e)'
      BY Zenon DEF Watch
    <2>1. CASE switch_out(w, t)
      <3>1. \/ wpc'[w] = "search"
            \/ wpc'[w] = "round" /\ did'[w]
        BY <2>1, Zenon DEF switch_out, pass_done, TypeOK
      <3> QED BY <3>1, Zenon DEF Watched, Noticed, WillSearch
    <2>2. CASE ~switch_out(w, t)
      <3>1. UNCHANGED <<armed, wpc, did>> /\ (efd => efd')
        BY <2>2, <1>BellFrame, Zenon
      <3>2. Noticed => Noticed'
        BY <3>1, Zenon DEF Noticed, WillSearch, TypeOK
      <3>3. CASE el[e] # IMMEDIATE
        BY <3>3, <1>NewImmediate, Zenon DEF Watched
      <3>4. CASE el[e] = IMMEDIATE
        <4>1. Watched(e)
          BY <3>4, Zenon DEF Watch
        <4>2. \A u \in Threads \ {t} : /\ calls'[u] = calls[u]
                                       /\ pc'[u] = pc[u] \/ (pc[u] = "none" /\ pc'[u] = "start")
          BY CoroutineFrame, Zenon
        <4>3. ASSUME NEW u \in Threads, Ringing(u) PROVE Noticed' \/ Ringing(u)'
          <5>1. CASE u = t
            <6>1. efd' = TRUE
              BY <4>3, <5>1, <1>RingingRings, Zenon DEF iwi_immediate
            <6> QED BY <3>1, <6>1, <1>Rung, Zenon
          <5>2. CASE u # t
            BY <4>2, <4>3, <5>2 DEF Ringing
          <5> QED BY <5>1, <5>2, Zenon
        <4>4. ASSUME Yielding(e) PROVE Yielding(e)'
          <5>1. CASE Tc(e) = t
            BY <2>2, <3>4, <4>4, <5>1, <1>YieldWatches, Zenon
          <5>2. CASE Tc(e) # t
            <6>1. calls'[Tc(e)] = calls[Tc(e)] /\ pc'[Tc(e)] = pc[Tc(e)]
              BY <4>2, <4>4, <5>2, EventTc DEF Yielding
            <6> QED BY <4>4, <6>1, Zenon DEF Yielding, Event, Op, Depth
          <5> QED BY <5>1, <5>2, Zenon
        <4> QED BY <3>2, <4>1, <4>3, <4>4, Zenon DEF Watched
      <3> QED BY <3>3, <3>4, Zenon
    <2> QED BY <2>1, <2>2, Zenon
  \* A step of scheduler_part2() puts nothing on the immediate list.
  <1>WorkerImmediate. ASSUME IInv, NEW w \in Workers, worker(w), NEW e \in Events, el'[e] = IMMEDIATE
                      PROVE  el[e] = IMMEDIATE
    <2> USE <1>WorkerImmediate
    <2> USE LInvFromIInv DEF IInv
    <2>0. /\ el \in [Events -> Lists \cup {NULL}] /\ IMMEDIATE # NULL /\ IMMEDIATE \notin Signals
          /\ \A t \in Threads : Pending(t) # IMMEDIATE
      BY SchedAssumption, Zenon DEF TypeOK, Lists, Queues
    <2>1. CASE UNCHANGED el
      BY <2>1, Zenon
    <2>2. CASE search_queue(w)
      <3>1. PICK x \in first_wanted(w) : move_event(x, Pending(Tc(x)))
        BY <2>2, Zenon DEF search_queue
      <3>2. x \in Events /\ Tc(x) \in Threads
        BY <3>1, FirstWanted, EventTc, Zenon
      <3> QED BY <2>0, <3>1, <3>2, Zenon DEF move_event
    <2>3. CASE search_run(w)
      <3>1. PICK x \in first_wanted(w) : consume_event(x)
        BY <2>3, Zenon DEF search_run
      <3>2. x \in Events
        BY <3>1, FirstWanted, Zenon
      <3> QED BY <2>0, <3>1, <3>2, ConsumeEventLists, Zenon DEF IsSignal
    <2>4. CASE search_exiting(w)
      BY <2>0, <2>4, Zenon DEF search_exiting, remove_event
    <2> QED BY <2>1, <2>2, <2>3, <2>4, ZenonT(30) DEF worker, run_immediate, search_none, switch_to, switch_in,
               tc_thread_free, epoll_immediate, epoll_timeout, rearm_read, arm_immediate, parked, listVars
  \* A worker that looked through the whole immediate list found it empty.
  <1>NoneWanted. ASSUME SetFacts, IInv, NEW w \in Workers, pass[w] = "any", first_wanted(w) = {}, NEW e \in Events
                 PROVE  el[e] # IMMEDIATE
    <2> USE <1>NoneWanted
    <2> SUFFICES ASSUME el[e] = IMMEDIATE PROVE FALSE
      BY Zenon
    <2> DEFINE Q == list[IMMEDIATE]
               I == {i \in DOMAIN Q : wanted(w, Q[i])}
    <2>1. IMMEDIATE \in Lists /\ Q \in Seq(Events) /\ Contains(Q, e)
      BY LInvFromIInv, LInvTypes, Zenon DEF IInv, Lists, LInv, LC
    <2>2. PICK k \in 1..Len(Q) : Q[k] = e
      BY <2>1, Zenon DEF Contains
    <2>3. first_wanted(w) = {Q[i] : i \in {j \in I : \A l \in I : j <= l}}
      BY Zenon DEF first_wanted
    <2> HIDE DEF Q
    <2>4. DOMAIN Q = 1..Len(Q) /\ Len(Q) \in Nat
      BY <2>1
    <2>5. I # {} /\ I \subseteq Nat
      BY <2>2, <2>4 DEF wanted
    <2> HIDE DEF I
    <2>6. \E j \in I : \A l \in I : j <= l
      BY <2>5, Zenon DEF SetFacts, LeastElement
    <2> QED BY <2>3, <2>6, Zenon
  \* scheduler_part2() sleeps only when it has seen the whole list or left it to others.
  <1>WorkerWatch. ASSUME SetFacts, IInv, RearmExclusive, Watch, NEW w \in Workers, worker(w) PROVE Watch'
    <2> USE <1>WorkerWatch
    <2> USE LInvFromIInv DEF IInv
    <2> SUFFICES ASSUME NEW e \in Events, el'[e] = IMMEDIATE PROVE Watched(e)'
      BY Zenon DEF Watch
    <2>0. /\ wpc \in [Workers -> WorkerPCs] /\ did \in [Workers -> BOOLEAN]
          /\ pc \in [Threads -> ThreadPCs]
      BY Zenon DEF TypeOK
    <2>1. el[e] = IMMEDIATE /\ Watched(e)
      BY <1>WorkerImmediate, Zenon DEF Watch
    <2>2. CASE search_queue(w) \/ search_exiting(w) \/ tc_thread_free(w) \/ epoll_immediate(w)
               \/ epoll_timeout(w) \/ rearm_read(w) \/ arm_immediate(w)
      <3>1. \/ wpc'[w] \in {"search", "thread_free", "rearm", "arm"}
            \/ wpc'[w] = "round" /\ did'[w]
        BY <2>0, <2>2, Zenon DEF search_queue, searching, search_exiting, tc_thread_free, epoll_immediate,
           epoll_timeout, rearm_read, arm_immediate, restart
      <3> QED BY <3>1, Zenon DEF Watched, Noticed, WillSearch
    <2>3. CASE search_none(w) /\ pass[w] # "any"
      BY <2>0, <2>3, Zenon DEF search_none, pass_done, Watched, Noticed, WillSearch
    <2>4. CASE search_none(w) /\ pass[w] = "any"
      BY <2>1, <2>4, <1>NoneWanted, Zenon DEF search_none
    <2>5. CASE search_run(w)
      <3>1. IMMEDIATE \in Lists /\ Contains(list'[IMMEDIATE], e)
        BY WorkerLists, Zenon DEF LInv, LC, Lists
      <3>2. list'[IMMEDIATE] # <<>>
        BY <3>1 DEF Contains
      <3>3. efd' = TRUE /\ UNCHANGED armed /\ wpc' = [wpc EXCEPT ![w] = "switch_to"] /\ wpc[w] = "search"
        BY <2>5, <3>2, Zenon DEF search_run, searching, iwi_more_work, TypeOK
      <3> QED BY <2>0, <3>3, Zenon DEF Watched, Noticed, RearmExclusive, WillSearch
    <2>6. CASE run_immediate(w) \/ switch_to(w)
      <3>1. /\ UNCHANGED <<armed, efd, pc, calls>>
            /\ WillSearch(w) => WillSearch(w)'
            /\ \A v \in Workers \ {w} : wpc'[v] = wpc[v] /\ did'[v] = did[v]
        BY <2>0, <2>6, Zenon DEF run_immediate, switch_to, fdVars, loopVars, parked, client, WillSearch
      <3> QED BY <2>1, <3>1, Zenon DEF Watched, Noticed, WillSearch, Ringing, Yielding, Event, Op, Depth
    <2>7. CASE switch_in(w)
      <3>1. target[w] \in Threads /\ pc[target[w]] \in {"start", "parked"} /\ wpc[w] = "spin"
        BY <2>7, EnterFacts, Zenon DEF switch_in, may_enter
      <3>2. /\ UNCHANGED <<armed, efd, calls, did>>
            /\ wpc' = [wpc EXCEPT ![w] = "coroutine"]
            /\ \A t \in Threads \ {target[w]} : pc'[t] = pc[t]
        BY <2>0, <2>7, Zenon DEF switch_in, Goto, fdVars, loopVars, client
      <3>3. Noticed => Noticed'
        BY <2>0, <3>1, <3>2, Zenon DEF Noticed, WillSearch
      <3>4. \A t \in Threads : Ringing(t) => Ringing(t)'
        BY <3>1, <3>2, Zenon DEF Ringing
      <3>5. Yielding(e) => Yielding(e)'
        BY <3>1, <3>2, EventTc, ZenonT(30) DEF Yielding, Event, Op, Depth
      <3> QED BY <2>1, <3>3, <3>4, <3>5, Zenon DEF Watched
    <2> QED BY <2>2, <2>3, <2>4, <2>5, <2>6, <2>7, Zenon DEF worker
  <1>1. CASE UNCHANGED vars
    BY <1>1, Zenon DEF Watch, Watched, Noticed, WillSearch, Ringing, Yielding, Event, Op, Depth,
       vars, parked, listVars, fdVars, loopVars, client
  <1> QED BY <1>1, <1>WorkerWatch, <1>CoroutineWatch, Zenon DEF Next

-----------------------------------------------------------------------------
(* Programs that wake all waiters of a wait queue. *)

\* Nobody calls tc_waitq_wakeup_one().
Broadcasts == \A t \in Threads : \A i \in DOMAIN Calls[t] : \A c \in Calls[t][i] : c[1] # "wakeup_one"

WakesAll == \A t \in Threads : pc[t] = "wakeup" => Op(t) # "wakeup_one"

\* A thread that sleeps although its condition is true is about to be woken.
Heard ==
    \A t \in Threads :
        /\ pc[t] \in {"scheduler", "switch", "parked"} /\ Op(t) = "wait_event"
        /\ el[Event(t)] = Arg(t) /\ avail[Arg(t)] # 0
        => \E u \in Threads : pc[u] = "wakeup" /\ Arg(u) = Arg(t)

\* When all workers sleep no thread runs or is about to, and nothing is queued for one.
LEMMA IdleFacts ==
    ASSUME IInv, Sleepers, ImmediateWatched, Idle
    PROVE  /\ \A t \in Threads : pc[t] \in OffPCs
           /\ \A t \in Threads, w \in Workers : ctx[w] # t /\ ~Serving(w, t) /\ ~Freeing(w, t)
           /\ \A e \in Events : el[e] # IMMEDIATE
           /\ \A t \in Threads : pc[t] = "parked" => Quiet(t)
  <1> USE DEF IInv
  <1>1. \A w \in Workers : wpc[w] = "epoll_wait" /\ ~did[w] /\ ~(armed /\ efd)
    BY Zenon DEF Idle
  <1>2. \A w \in Workers : ctx[w] = NULL
    BY <1>1 DEF WorkersOK
  <1>3. \A t \in Threads : pc[t] \in OffPCs
    <2>1. \A t \in Threads : pc[t] \notin OffPCs => running[t] \in Workers /\ ctx[running[t]] = t
      BY DEF WorkersOK
    <2> QED BY <1>2, <2>1, SchedAssumption, ZenonT(30)
  <1>4. \A t \in Threads, w \in Workers : ctx[w] # t /\ ~Serving(w, t) /\ ~Freeing(w, t)
    BY <1>1, <1>2, SchedAssumption, Zenon DEF Serving, Freeing
  <1>5. list[IMMEDIATE] = <<>>
    <2>1. \A w \in Workers : ~WillSearch(w)
      BY <1>1, Zenon DEF WillSearch
    <2>2. \A t \in Threads : ~WillInterrupt(t)
      BY <1>3, Zenon DEF WillInterrupt, OffPCs
    <2>3. ~(armed /\ efd)
      BY Zenon DEF Idle
    <2> QED BY <2>1, <2>2, <2>3, Zenon DEF ImmediateWatched
  <1>6. \A e \in Events : el[e] # IMMEDIATE
    <2>1. \A e \in Events : ~Contains(list[IMMEDIATE], e)
      BY <1>5 DEF Contains
    <2>2. IMMEDIATE \in Lists
      BY Zenon DEF Lists
    <2> QED BY <2>1, <2>2, Zenon DEF ListsConsistent
  <1>7. ASSUME NEW t \in Threads, pc[t] = "parked" PROVE Quiet(t)
    <2>1. \A w \in Workers : ~Claims(w, t)
      BY <1>4, Zenon DEF Claims, Serving
    <2>2. ~TF_RUNNING[t]
      BY <1>7, <2>1, Zenon DEF ClaimsOK, RunningFlagExact
    <2> QED BY <2>2, Zenon DEF Sleepers
  <1> QED BY <1>3, <1>4, <1>6, <1>7, Zenon

\* Then every thread that sleeps waits for what has not happened.
LEMMA IdleWaits ==
    ASSUME IInv, Sleepers, ImmediateWatched, LifeAll, SingleInv, Heard PROVE NoLostWakeup
  <1> SUFFICES ASSUME Idle, NEW t \in Threads, pc[t] \notin {"none", "freed"}
               PROVE  /\ pc[t] = "parked"
                      /\ el[Event(t)] \in Queues
                      /\ Op(t) = "wait_event" => avail[Arg(t)] = 0
                      /\ Op(t) = "join" => Arg(t) \in threads
                      /\ \A s \in Signals : <<t, s>> \notin due
    BY Zenon DEF NoLostWakeup
  <1> USE DEF IInv, LifeAll, SingleInv
  <1>0. /\ \A u \in Threads : pc[u] \in OffPCs
        /\ \A u \in Threads, w \in Workers : ctx[w] # u /\ ~Serving(w, u) /\ ~Freeing(w, u)
        /\ \A e \in Events : el[e] # IMMEDIATE
        /\ \A u \in Threads : pc[u] = "parked" => Quiet(u)
    BY IdleFacts, Zenon
  <1>1. pc[t] = "parked"
    <2>1. el[<<t, 0>>] = NULL
      <3>1. <<t, 0>> \in Events /\ <<t, 0>>[2] = 0
        BY SchedAssumption DEF Events
      <3> QED BY <1>0, <3>1, Zenon DEF LifeInv, Places, Place
    <2>2. pc[t] # "start"
      <3>1. \A u \in Threads : pc[u] # "new_post"
        BY <1>0, Zenon DEF OffPCs
      <3> QED BY <1>0, <2>1, <3>1, Zenon DEF Posted
    <2>3. pc[t] # "dead"
      BY <1>0, <2>1, Zenon DEF Posted
    <2> QED BY <1>0, <2>2, <2>3, Zenon DEF OffPCs
  <1>2. Depth(t) # 0 /\ Op(t) \in Blocking
    BY <1>1, InCall, Zenon DEF CallsOK, CallOK
  <1>3. /\ Event(t) \in Events /\ Tc(Event(t)) = t /\ ~IsSignal(Event(t)) /\ Event(t)[2] = Depth(t)
        /\ Op(t) \in {"wait_event", "wait"} => Arg(t) \in Waitqs
        /\ Op(t) = "join" => Arg(t) \in Threads
    <2>1. Event(t) = <<t, Depth(t)>>
      BY <1>2, CallFacts, Zenon
    <2> QED BY <1>2, <2>1, CallFacts
  <1>4. el[Event(t)] \in Queues
    <2>1. el[Event(t)] # NULL /\ el[Event(t)] # IMMEDIATE
      BY <1>0, <1>1, <1>3, Zenon DEF Awaited, AwaitPCs
    <2>2. event_stack[t] = Event(t)
      BY <1>1, Zenon DEF Top, WaitPCs
    <2>3. ASSUME NEW u \in Threads, el[Event(t)] = Pending(u) PROVE FALSE
      <3>1. u = t
        BY <1>3, <2>3, Zenon DEF EventsOK
      <3> QED BY <1>0, <1>1, <1>3, <2>2, <2>3, <3>1, Zenon DEF Quiet
    <2>4. el[Event(t)] \in Lists
      BY <1>3, <2>1, Zenon DEF TypeOK
    <2> QED BY <2>1, <2>3, <2>4, Zenon DEF Lists
  <1>5. el[Event(t)] = Arg(t)
    <2>1. el[Event(t)] = calls[t][Depth(t)][2]
      BY <1>2, <1>3, <1>4, Zenon DEF LifeInv, Places, Place
    <2> QED BY <2>1, Zenon DEF Arg
  <1>6. ASSUME Op(t) = "wait_event" PROVE avail[Arg(t)] = 0
    <2>1. \A u \in Threads : pc[u] # "wakeup"
      BY <1>0, Zenon DEF OffPCs
    <2> QED BY <1>1, <1>5, <1>6, <2>1, Zenon DEF Heard
  <1>7. ASSUME Op(t) = "join" PROVE Arg(t) \in threads
    <2>1. Arg(t) \in Threads /\ pc[Arg(t)] \notin DyingPCs
      BY <1>3, <1>5, <1>7, Zenon DEF LifeInv, Life
    <2>2. pc[Arg(t)] # "none"
      BY <1>2, <1>7, Zenon DEF LifeInv, Life
    <2>3. pc[Arg(t)] # "die"
      BY <1>0, <2>1, Zenon DEF OffPCs
    <2>4. pc[Arg(t)] \notin DiePCs \cup {"none"}
      BY <2>1, <2>2, <2>3, Zenon DEF DyingPCs
    <2> QED BY <2>1, <2>4, Zenon DEF LifeInv, Life
  <1>8. ASSUME NEW s \in Signals PROVE <<t, s>> \notin due
    <2>1. <<t, s>> \in Events /\ IsSignal(<<t, s>>)
      BY DEF Events, IsSignal
    <2>2. el[<<t, s>>] \notin {IMMEDIATE, Pending(t)}
      BY <1>0, <1>1, <2>1, Zenon DEF Quiet
    <2>3. \A w \in Workers : ~Interrupting(w, t, s)
      BY <1>0, Zenon DEF Interrupting, Serving
    <2> QED BY <2>2, <2>3, Zenon DEF SignalsExact
  <1> QED BY <1>1, <1>4, <1>6, <1>7, <1>8, Zenon

\* Every step of such a program keeps it that way.
LEMMA StepHeard ==
    ASSUME MaxDepth = 1, Broadcasts, IInv, WakesAll, Heard, [Next]_vars PROVE WakesAll' /\ Heard'
  \* What a client's next call is.
  <1>NewCall. ASSUME IInv, Broadcasts, NEW w \in Workers, NEW t \in Threads, call(w, t)
              PROVE  /\ Op(t)' # "wakeup_one"
                     /\ \/ UNCHANGED avail
                        \/ /\ pc'[t] = "wakeup"
                           /\ \A q \in Waitqs : q # Arg(t)' => avail'[q] = avail[q]
    <2> USE <1>NewCall
    <2> USE DEF IInv
    <2>0. Calls[t][made[t] + 1] \subseteq Call /\ made[t] + 1 \in DOMAIN Calls[t]
      <3>1. Calls[t] \in Seq(SUBSET Call) /\ made[t] \in Nat /\ made[t] < Len(Calls[t])
        BY SchedAssumption, Zenon DEF call, TypeOK
      <3>2. made[t] + 1 \in DOMAIN Calls[t]
        BY <3>1
      <3> QED BY <3>2, NextCalls, Zenon
    <2>1. PICK c \in Calls[t][made[t] + 1] :
             /\ calls' = [calls EXCEPT ![t] = Append(@, c)]
             /\ Goto(t, first_pc[c[1]])
             /\ avail' = IF c[1] \in {"wakeup_one", "wakeup_all"}
                         THEN [avail EXCEPT ![c[2]] = @ + 1] ELSE avail
      BY Zenon DEF call
    <2>2. calls[t] \in Seq(Call) /\ calls'[t] = Append(calls[t], c) /\ c \in Call
      BY <2>0, <2>1, Zenon DEF TypeOK
    <2>3. Op(t)' = c[1] /\ Arg(t)' = c[2]
      BY <2>2 DEF Op, Arg, Depth
    <2>4. c[1] # "wakeup_one"
      BY <2>0, Zenon DEF Broadcasts
    <2>5. CASE c[1] = "wakeup_all"
      <3>1. pc'[t] = "wakeup"
        BY <2>1, <2>5 DEF first_pc, Goto, TypeOK
      <3>2. avail' = [avail EXCEPT ![c[2]] = @ + 1] /\ avail \in [Waitqs -> Nat]
        BY <2>1, <2>5, Zenon DEF TypeOK
      <3>3. \A q \in Waitqs : q # c[2] => avail'[q] = avail[q]
        BY <3>2, Zenon
      <3> QED BY <2>3, <2>4, <3>1, <3>3, ZenonT(30)
    <2> QED BY <2>1, <2>3, <2>4, <2>5, Zenon
  \* A wakeup that is not of one waiter moves them all.
  <1>AllMoved. ASSUME IInv, WakesAll, NEW w \in Workers, NEW t \in Threads, tc_waitq_wakeup(w, t),
                      NEW e \in Events, el[e] = Arg(t)
               PROVE  el'[e] = IMMEDIATE
    <2> USE <1>AllMoved
    <2> USE LInvFromIInv DEF IInv, At
    <2>1. Depth(t) # 0 /\ Op(t) \in {"wakeup_all", "fire"}
      BY InCall, Zenon DEF tc_waitq_wakeup, CallsOK, CallOK, WakesAll
    <2>2. Arg(t) \in Lists
      BY <2>1, CallFacts, Zenon DEF Queues, Lists
    <2>3. list[Arg(t)] \in Seq(Events) /\ Contains(list[Arg(t)], e)
      BY <2>2, Zenon DEF TypeOK, ListsConsistent
    <2>4. e \in {list[Arg(t)][i] : i \in 1..Len(list[Arg(t)])}
      BY <2>3 DEF Contains
    <2>5. to_immediate(Arg(t), Len(list[Arg(t)]))
      BY <2>1, Zenon DEF tc_waitq_wakeup
    <2> QED BY <2>4, <2>5, Zenon DEF to_immediate
  \* scheduler_part2() makes no condition true and puts nothing on a wait queue.
  <1>WorkerHeard. ASSUME IInv, WakesAll, Heard, NEW w \in Workers, worker(w) PROVE WakesAll' /\ Heard'
    <2> USE <1>WorkerHeard
    <2> USE DEF IInv
    <2>0. /\ \A u \in Threads : pc'[u] = pc[u] \/ pc'[u] \in {"user", "yield_done", "finish", "freed"}
          /\ \A u \in Threads : pc'[u] = pc[u] \/ pc[u] \in {"start", "parked", "dead"}
          /\ UNCHANGED <<calls, avail>>
      BY WorkerFrame, Zenon DEF client, resume_pc
    <2>1. \A u \in Threads : Op(u)' = Op(u) /\ Arg(u)' = Arg(u) /\ Event(u)' = Event(u)
      BY <2>0, Zenon DEF Op, Arg, Event, Depth
    <2>2. WakesAll'
      BY <2>0, <2>1, Zenon DEF WakesAll
    <2>3. ASSUME NEW t \in Threads, pc'[t] \in {"scheduler", "switch", "parked"}, Op(t)' = "wait_event",
                 el'[Event(t)'] = Arg(t)', avail'[Arg(t)'] # 0
          PROVE  \E u \in Threads : pc'[u] = "wakeup" /\ Arg(u)' = Arg(t)'
      <3>1. pc[t] \in {"scheduler", "switch", "parked"} /\ Op(t) = "wait_event" /\ avail[Arg(t)] # 0
        BY <2>0, <2>1, <2>3, Zenon
      <3>0. Depth(t) # 0
        BY <3>1, InCall, Zenon
      <3>2. Event(t) \in Events /\ Tc(Event(t)) = t /\ ~IsSignal(Event(t)) /\ Arg(t) \in Waitqs
        BY <3>0, <3>1, CallFacts, Zenon
      <3>3. Arg(t) # NULL /\ Arg(t) # Pending(t)
        BY <3>2, SchedAssumption, Zenon DEF Lists, Queues
      <3>4. el[Event(t)] = Arg(t)
        <4>1. el'[Event(t)] # el[Event(t)] => el'[Event(t)] \in {NULL, Pending(t)}
          BY <3>2, WorkerMoves, Zenon
        <4>2. el'[Event(t)] = Arg(t)
          BY <2>1, <2>3, Zenon
        <4> QED BY <3>3, <4>1, <4>2, Zenon
      <3>5. PICK u \in Threads : pc[u] = "wakeup" /\ Arg(u) = Arg(t)
        BY <3>1, <3>4, Zenon DEF Heard
      <3> QED BY <2>0, <2>1, <3>5, Zenon
    <2> QED BY <2>2, <2>3, Zenon DEF Heard
  \* tc_waitq_wait_event() goes to sleep on a false condition, and who makes it true wakes
  \* all that wait.
  <1>CoroutineHeard. ASSUME MaxDepth = 1, Broadcasts, IInv, WakesAll, Heard,
                            NEW w \in Workers, NEW t \in Threads, coroutine(w, t)
                     PROVE  WakesAll' /\ Heard'
    <2> USE <1>CoroutineHeard
    <2> USE DEF IInv, At
    <2>0. /\ \A x \in Threads \ {t} : /\ calls'[x] = calls[x]
                                      /\ pc'[x] = pc[x] \/ (pc[x] = "none" /\ pc'[x] = "start")
          /\ Flow(w, t) /\ avail \in [Waitqs -> Nat] /\ pc \in [Threads -> ThreadPCs]
          /\ IMMEDIATE \notin Queues
      BY CoroutineFrame, ControlFlow, SchedAssumption, Zenon DEF TypeOK
    <2>1. \A x \in Threads \ {t} : Op(x)' = Op(x) /\ Arg(x)' = Arg(x) /\ Event(x)' = Event(x)
      BY <2>0, Zenon DEF Op, Arg, Event, Depth
    <2>2. pc'[t] = "wakeup" => call(w, t)
      BY <2>0, Zenon DEF Flow
    <2>3. WakesAll'
      BY <2>0, <2>1, <2>2, <1>NewCall, Zenon DEF WakesAll
    <2>4. ASSUME NEW q \in Waitqs, avail'[q] # 0 PROVE avail[q] # 0 \/ (pc'[t] = "wakeup" /\ Arg(t)' = q)
      <3>1. CASE UNCHANGED avail
        BY <2>4, <3>1, Zenon
      <3>2. CASE call(w, t)
        BY <2>4, <3>2, <1>NewCall, Zenon
      <3>3. CASE avail[Arg(t)] > 0 /\ avail' = [avail EXCEPT ![Arg(t)] = @ - 1]
        BY <2>0, <2>4, <3>3
      <3> QED BY <3>1, <3>2, <3>3, Zenon DEF coroutine, test, cond, tc_waitq_prepare_to_wait, tc_scheduler,
              switch_out, tc_waitq_finish_wait, tc_sched_yield, yield_stack, yield_done, tc_waitq_wakeup,
              iwi_immediate, tc_signal_subscribe, tc_signal_unsubscribe, tc_thread_insert, tc_thread_new,
              tc_thread_wait, tc_die, die_wakeup, die_post, client
    <2>5. ASSUME NEW x \in Threads, pc'[x] \in {"scheduler", "switch", "parked"}, Op(x)' = "wait_event",
                 el'[Event(x)'] = Arg(x)', avail'[Arg(x)'] # 0
          PROVE  \E u \in Threads : pc'[u] = "wakeup" /\ Arg(u)' = Arg(x)'
      <3>1. CASE x # t
        <4>1. pc[x] = pc'[x] /\ Op(x) = "wait_event" /\ Arg(x)' = Arg(x) /\ Event(x)' = Event(x)
          BY <2>0, <2>1, <2>5, <3>1, Zenon
        <4>2. Depth(x) # 0
          BY <2>5, <4>1, InCall, Zenon
        <4>3. Event(x) \in Events /\ Tc(Event(x)) = x /\ Arg(x) \in Waitqs
          BY <4>1, <4>2, CallFacts, Zenon
        <4>4. Arg(x) # IMMEDIATE
          BY <2>0, <4>3, Zenon DEF Queues
        <4>5. el[Event(x)] = Arg(x)
          <5>1. el'[Event(x)] # el[Event(x)] => el'[Event(x)] = IMMEDIATE
            BY <3>1, <4>3, OthersMoved, Zenon
          <5> QED BY <2>5, <4>1, <4>4, <5>1, Zenon
        <4>6. CASE pc'[t] = "wakeup" /\ Arg(t)' = Arg(x)
          BY <4>1, <4>6, Zenon
        <4>7. CASE avail[Arg(x)] # 0
          <5>1. PICK u \in Threads : pc[u] = "wakeup" /\ Arg(u) = Arg(x)
            BY <2>5, <4>1, <4>5, <4>7, Zenon DEF Heard
          <5>2. u # t
            <6>1. ASSUME u = t PROVE FALSE
              <7>1. tc_waitq_wakeup(w, t) /\ el[Event(x)] = Arg(t)
                BY <2>0, <4>5, <5>1, <6>1, Zenon DEF Flow
              <7>2. el'[Event(x)] = IMMEDIATE
                BY <4>3, <7>1, <1>AllMoved, Zenon
              <7> QED BY <2>5, <4>1, <4>4, <7>2, Zenon
            <6> QED BY <6>1, Zenon
          <5> QED BY <2>0, <2>1, <4>1, <5>1, <5>2, Zenon
        <4> QED BY <2>4, <2>5, <4>1, <4>3, <4>6, <4>7, Zenon
      <3>2. CASE x = t
        <4>1. \/ tc_scheduler(w, t) /\ pc[t] = "scheduler" /\ pc'[t] = "switch"
              \/ switch_out(w, t) /\ pc[t] = "switch"
              \/ cond(w, t) /\ pc[t] = "cond" /\ pc'[t] = "scheduler"
          <5>1. \/ tc_scheduler(w, t) /\ pc[t] = "scheduler" /\ pc'[t] = "switch"
                \/ switch_out(w, t) /\ pc[t] = "switch"
                \/ cond(w, t) /\ pc[t] = "cond" /\ pc'[t] = "scheduler"
                \/ tc_waitq_prepare_to_wait(w, t) /\ pc'[t] = "scheduler"
                \/ yield_stack(w, t) \/ (tc_thread_wait(w, t) /\ pc'[t] = "scheduler")
            BY <2>0, <2>5, <3>2, Zenon DEF Flow
          <5>2. ~(tc_waitq_prepare_to_wait(w, t) /\ pc'[t] = "scheduler")
            <6>1. ASSUME tc_waitq_prepare_to_wait(w, t), pc'[t] = "scheduler" PROVE FALSE
              <7>1. calls' = calls /\ Op(t) # "wait_event"
                BY <2>0, <6>1, Zenon DEF tc_waitq_prepare_to_wait, Goto, prepared
              <7> QED BY <2>5, <3>2, <7>1, Zenon DEF Op, Depth
            <6> QED BY <6>1, Zenon
          <5>3. ~yield_stack(w, t)
            <6>1. ASSUME yield_stack(w, t) PROVE FALSE
              <7>1. calls' = calls /\ Op(t) = "yield"
                BY <6>1, Zenon DEF yield_stack, CallsOK, CallOK
              <7> QED BY <2>5, <3>2, <7>1, Zenon DEF Op, Depth
            <6> QED BY <6>1, Zenon
          <5>4. ~(tc_thread_wait(w, t) /\ pc'[t] = "scheduler")
            <6>1. ASSUME tc_thread_wait(w, t), pc'[t] = "scheduler" PROVE FALSE
              <7>1. ~Return(t)
                BY <2>0, <6>1, Zenon DEF Return, Goto
              <7>2. calls' = calls /\ Op(t) = "join"
                BY <6>1, <7>1, Zenon DEF tc_thread_wait, CallsOK, CallOK
              <7> QED BY <2>5, <3>2, <7>2, Zenon DEF Op, Depth
            <6> QED BY <6>1, Zenon
          <5> QED BY <5>1, <5>2, <5>3, <5>4, Zenon
        <4>2. UNCHANGED <<el, calls>>
          <5>1. CASE tc_scheduler(w, t) /\ pc[t] = "scheduler" /\ pc'[t] = "switch"
            <6>1. ~Goto(t, resume_pc(t))
              BY <2>0, <5>1, Zenon DEF Goto, resume_pc
            <6> QED BY <5>1, <6>1, Zenon DEF tc_scheduler, client, listVars
          <5>2. CASE switch_out(w, t) \/ cond(w, t)
            BY <5>2, Zenon DEF switch_out, cond, client, listVars
          <5> QED BY <4>1, <5>1, <5>2, Zenon
        <4>3. Op(t)' = Op(t) /\ Arg(t)' = Arg(t) /\ Event(t)' = Event(t)
          BY <4>2, Zenon DEF Op, Arg, Event, Depth
        <4>4. Depth(t) # 0
          BY <4>1, InCall, Zenon
        <4>5. Arg(t) \in Waitqs
          BY <2>5, <3>2, <4>3, <4>4, CallFacts, Zenon
        <4>6. CASE cond(w, t) /\ pc[t] = "cond" /\ pc'[t] = "scheduler"
          <5>1. ~Goto(t, "finish_true")
            BY <2>0, <4>6, Zenon DEF Goto
          <5>2. ~(avail[Arg(t)] > 0) /\ avail' = avail
            BY <4>6, <5>1, Zenon DEF cond
          <5>3. avail[Arg(t)] = 0
            BY <2>0, <4>5, <5>2
          <5> QED BY <2>5, <3>2, <4>3, <5>2, <5>3, Zenon
        <4>7. CASE pc[t] \in {"scheduler", "switch"} /\ (tc_scheduler(w, t) \/ switch_out(w, t))
          <5>1. avail' = avail /\ pc[t] \in {"scheduler", "switch", "parked"}
            BY <4>7, Zenon DEF tc_scheduler, switch_out, client
          <5>2. PICK u \in Threads : pc[u] = "wakeup" /\ Arg(u) = Arg(t)
            BY <2>5, <3>2, <4>2, <4>3, <5>1, ZenonT(30) DEF Heard
          <5>3. u # t
            BY <5>1, <5>2, Zenon
          <5> QED BY <2>0, <2>1, <3>2, <4>3, <5>2, <5>3, Zenon
        <4> QED BY <4>1, <4>6, <4>7, Zenon
      <3> QED BY <3>1, <3>2, Zenon
    <2> QED BY <2>3, <2>5, Zenon DEF Heard
  <1>1. CASE UNCHANGED vars
    <2>1. UNCHANGED <<pc, calls, el, avail>>
      BY <1>1, Zenon DEF vars, parked, client, listVars
    <2> QED BY <2>1, Zenon DEF WakesAll, Heard, Op, Arg, Event, Depth
  <1> QED BY <1>1, <1>WorkerHeard, <1>CoroutineHeard, Zenon DEF Next

-----------------------------------------------------------------------------
(* References: refcnt, subscriptions, and threads that exit. *)

\* The events of t that are on a list, if E is e->el.
On(E, t) == {e \in Events : Tc(e) = t /\ E[e] # NULL}

\* R counts them.
Counts(E, R) ==
    /\ E \in [Events -> Lists \cup {NULL}] /\ R \in [Threads -> Int]
    /\ \A t \in Threads : IsFiniteSet(On(E, t)) /\ R[t] = Cardinality(On(E, t))

RefsOK == Counts(el, refcnt)

\* A thread that is about to unsubscribe has a subscription to give back.
Subscribed == \A t \in Threads : pc[t] = "unsubscribe" => el[<<t, Arg(t)>>] # NULL

-----------------------------------------------------------------------------
(* Where a step takes a thread. *)

\* A thread behind the check of refcnt has no subscription left.
NoneLeft == \A t \in Threads, s \in Signals : pc[t] \in DyingPCs => el[<<t, s>>] = NULL

RefInv == RefsOK /\ Subscribed /\ NoneLeft

\* tc_run() queues the main tc_thread and holds one reference for it.
LEMMA InitRefInv == ASSUME SetFacts, Init PROVE RefInv
  <1>0. /\ Main \in Threads /\ <<Main, 0>> \in Events /\ IMMEDIATE # NULL
        /\ 0 \notin Signals
    BY SchedAssumption DEF Events, Lists
  <1>1. el = [e \in Events |-> IF e = <<Main, 0>> THEN IMMEDIATE ELSE NULL]
    BY Zenon DEF Init
  <1>2. Tc(<<Main, 0>>) = Main
    BY DEF Tc
  <1>3. On(el, Main) = {<<Main, 0>>} /\ \A t \in Threads \ {Main} : On(el, t) = {}
    BY <1>0, <1>1, <1>2, Zenon DEF On
  <1>4. \A t \in Threads : /\ IsFiniteSet(On(el, t))
                          /\ Cardinality(On(el, t)) = IF t = Main THEN 1 ELSE 0
    <2>1. IsFiniteSet(On(el, Main)) /\ Cardinality(On(el, Main)) = 1
      BY <1>3, Zenon DEF SetFacts, CardSingle
    <2>2. \A t \in Threads \ {Main} : IsFiniteSet(On(el, t)) /\ Cardinality(On(el, t)) = 0
      BY <1>3, Zenon DEF SetFacts, CardEmpty
    <2> QED BY <2>1, <2>2
  <1>5. el \in [Events -> Lists \cup {NULL}] /\ refcnt \in [Threads -> Int]
    BY InitIInv, Zenon DEF IInv, TypeOK
  <1>6. refcnt = [t \in Threads |-> IF t = Main THEN 1 ELSE 0]
    BY Zenon DEF Init
  <1>7. RefsOK
    BY <1>4, <1>5, <1>6, ZenonT(30) DEF RefsOK, Counts
  <1>8. Subscribed /\ NoneLeft
    BY Zenon DEF Init, Subscribed, NoneLeft, DyingPCs, DiePCs
  <1> QED BY <1>7, <1>8, Zenon DEF RefInv

\* Every step keeps it.
LEMMA StepRefInv == ASSUME SetFacts, IInv, RefInv, [Next]_vars PROVE RefInv'
  \* An event that is put on a list takes a reference.
  <1>CountsAdd. ASSUME SetFacts, NEW E, NEW R, Counts(E, R), NEW e \in Events, E[e] = NULL, NEW l \in Lists
                PROVE  Counts([E EXCEPT ![e] = l], [R EXCEPT ![Tc(e)] = @ + 1])
    <2> USE <1>CountsAdd
    <2> DEFINE F == [E EXCEPT ![e] = l]
               S == [R EXCEPT ![Tc(e)] = @ + 1]
    <2>1. /\ E \in [Events -> Lists \cup {NULL}] /\ R \in [Threads -> Int] /\ Tc(e) \in Threads
          /\ l # NULL
      BY EventTc, SchedAssumption, Zenon DEF Counts
    <2>2. F \in [Events -> Lists \cup {NULL}]
      BY <2>1, Zenon
    <2>3. S \in [Threads -> Int]
      BY <2>1
    <2>4. ASSUME NEW t \in Threads PROVE IsFiniteSet(On(F, t)) /\ S[t] = Cardinality(On(F, t))
      <3>1. IsFiniteSet(On(E, t)) /\ R[t] = Cardinality(On(E, t))
        BY Zenon DEF Counts
      <3>2. CASE t = Tc(e)
        <4>1. On(F, t) = On(E, t) \cup {e} /\ e \notin On(E, t)
          BY <2>1, <3>2, Zenon DEF On
        <4>2. /\ IsFiniteSet(On(E, t) \cup {e})
              /\ Cardinality(On(E, t) \cup {e}) = Cardinality(On(E, t)) + 1
          BY <3>1, <4>1, Zenon DEF SetFacts, CardAdd
        <4>3. S[t] = R[t] + 1
          BY <2>1, <3>2, Zenon
        <4> QED BY <3>1, <4>1, <4>2, <4>3, Zenon
      <3>3. CASE t # Tc(e)
        <4>1. On(F, t) = On(E, t)
          BY <2>1, <3>3, Zenon DEF On
        <4> QED BY <2>1, <3>1, <3>3, <4>1, Zenon
      <3> QED BY <3>2, <3>3, Zenon
    <2> QED BY <2>2, <2>3, <2>4, Zenon DEF Counts
  \* An event that is taken off its list gives its reference back.
  <1>CountsDel. ASSUME SetFacts, NEW E, NEW R, Counts(E, R), NEW e \in Events, E[e] # NULL
                PROVE  Counts([E EXCEPT ![e] = NULL], [R EXCEPT ![Tc(e)] = @ - 1])
    <2> USE <1>CountsDel
    <2> DEFINE F == [E EXCEPT ![e] = NULL]
               S == [R EXCEPT ![Tc(e)] = @ - 1]
    <2>1. E \in [Events -> Lists \cup {NULL}] /\ R \in [Threads -> Int] /\ Tc(e) \in Threads
      BY EventTc, Zenon DEF Counts
    <2>2. F \in [Events -> Lists \cup {NULL}]
      BY <2>1, Zenon
    <2>3. S \in [Threads -> Int]
      BY <2>1
    <2>4. ASSUME NEW t \in Threads PROVE IsFiniteSet(On(F, t)) /\ S[t] = Cardinality(On(F, t))
      <3>1. IsFiniteSet(On(E, t)) /\ R[t] = Cardinality(On(E, t))
        BY Zenon DEF Counts
      <3>2. CASE t = Tc(e)
        <4>1. On(F, t) = On(E, t) \ {e} /\ e \in On(E, t)
          BY <2>1, <3>2, Zenon DEF On
        <4>2. /\ IsFiniteSet(On(E, t) \ {e})
              /\ Cardinality(On(E, t) \ {e}) = Cardinality(On(E, t)) - 1
          BY <3>1, <4>1, Zenon DEF SetFacts, CardDel
        <4>3. S[t] = R[t] - 1
          BY <2>1, <3>2, Zenon
        <4> QED BY <3>1, <4>1, <4>2, <4>3, Zenon
      <3>3. CASE t # Tc(e)
        <4>1. On(F, t) = On(E, t)
          BY <2>1, <3>3, Zenon DEF On
        <4> QED BY <2>1, <3>1, <3>3, <4>1, Zenon
      <3> QED BY <3>2, <3>3, Zenon
    <2> QED BY <2>2, <2>3, <2>4, Zenon DEF Counts
  \* Moving events from list to list leaves the references alone.
  <1>CountsMove. ASSUME NEW E, NEW R, Counts(E, R), NEW F \in [Events -> Lists \cup {NULL}],
                        \A e \in Events : F[e] = NULL <=> E[e] = NULL
                 PROVE  Counts(F, R)
    <2> USE <1>CountsMove
    <2>1. \A t \in Threads : On(F, t) = On(E, t)
      BY Zenon DEF On
    <2> QED BY <2>1, Zenon DEF Counts
  \* What becomes of a reference when an event gets its thread going.
  <1>ConsumeRefs. ASSUME SetFacts, IInv, RefsOK, NEW e \in Events, el[e] # NULL, consume_event(e)
                  PROVE  RefsOK'
    <2> USE <1>ConsumeRefs
    <2>1. CASE IsSignal(e)
      <3>1. el' = [el EXCEPT ![e] = e[2]] /\ refcnt' = refcnt
        BY <2>1, Zenon DEF consume_event, move_event
      <3>2. e[2] \in Lists /\ e[2] # NULL /\ el \in [Events -> Lists \cup {NULL}]
        BY <2>1, SchedAssumption, Zenon DEF IsSignal, Lists, Queues, IInv, TypeOK
      <3>3. el' \in [Events -> Lists \cup {NULL}] /\ \A x \in Events : el'[x] = NULL <=> el[x] = NULL
        BY <3>1, <3>2, Zenon
      <3> QED BY <3>1, <3>3, <1>CountsMove, Zenon DEF RefsOK
    <2>2. CASE ~IsSignal(e)
      <3>1. el' = [el EXCEPT ![e] = NULL] /\ refcnt' = [refcnt EXCEPT ![Tc(e)] = @ - 1]
        BY <2>2, Zenon DEF consume_event, remove_event
      <3> QED BY <3>1, <1>CountsDel, Zenon DEF RefsOK
    <2> QED BY <2>1, <2>2, Zenon
  \* A step that leaves the lists alone.
  <1>SameRefs. ASSUME RefsOK, UNCHANGED listVars PROVE RefsOK'
    BY <1>SameRefs, Zenon DEF RefsOK, Counts, On, listVars
  \* The worker's search of the immediate list keeps the references.
  <1>WorkerRefs. ASSUME SetFacts, IInv, RefsOK, NEW w \in Workers, worker(w) PROVE RefsOK'
    <2> USE <1>WorkerRefs
    <2> USE LInvFromIInv DEF IInv
    <2>0. IMMEDIATE # NULL /\ el \in [Events -> Lists \cup {NULL}]
      BY SchedAssumption, Zenon DEF TypeOK, Lists
    <2>1. CASE UNCHANGED listVars
      BY <2>1, <1>SameRefs, Zenon
    <2>2. CASE search_queue(w)
      <3>1. PICK e \in first_wanted(w) : move_event(e, Pending(Tc(e)))
        BY <2>2, Zenon DEF search_queue
      <3>2. e \in Events /\ el[e] = IMMEDIATE
        BY <3>1, FirstWanted, Zenon
      <3>3. Pending(Tc(e)) \in Lists /\ Pending(Tc(e)) # NULL
        BY <3>2, EventTc, SchedAssumption, Zenon DEF Lists
      <3>4. el' = [el EXCEPT ![e] = Pending(Tc(e))] /\ refcnt' = refcnt
        BY <3>1, Zenon DEF move_event
      <3>5. el' \in [Events -> Lists \cup {NULL}] /\ \A x \in Events : el'[x] = NULL <=> el[x] = NULL
        BY <2>0, <3>2, <3>3, <3>4, Zenon
      <3> QED BY <3>4, <3>5, <1>CountsMove, Zenon DEF RefsOK
    <2>3. CASE search_run(w)
      BY <2>0, <2>3, FirstWanted, <1>ConsumeRefs, Zenon DEF search_run
    <2>4. CASE search_exiting(w)
      <3>1. PICK e \in first_wanted(w) : remove_event(e)
        BY <2>4, Zenon DEF search_exiting
      <3>2. e \in Events /\ el[e] # NULL
        BY <2>0, <3>1, FirstWanted, Zenon
      <3>3. el' = [el EXCEPT ![e] = NULL] /\ refcnt' = [refcnt EXCEPT ![Tc(e)] = @ - 1]
        BY <3>1, Zenon DEF remove_event
      <3> QED BY <3>2, <3>3, <1>CountsDel, Zenon DEF RefsOK
    <2> QED BY <2>1, <2>2, <2>3, <2>4, ZenonT(30) DEF worker, run_immediate, search_none, switch_to, switch_in,
               tc_thread_free, epoll_immediate, epoll_timeout, rearm_read, arm_immediate, parked
  \* Calls of a tc_thread keep the references.
  <1>CoroutineRefs. ASSUME SetFacts, IInv, RefsOK, Subscribed, NEW w \in Workers, NEW t \in Threads, coroutine(w, t)
                    PROVE  RefsOK'
    <2> USE <1>CoroutineRefs
    <2> USE LInvFromIInv DEF IInv, At
    <2>0. /\ Waitqs \cup Threads \cup Signals \subseteq Lists /\ IMMEDIATE \in Lists
          /\ el \in [Events -> Lists \cup {NULL}] /\ \A l \in Lists : l # NULL
          /\ CallOK(t)
      BY SchedAssumption, Zenon DEF TypeOK, Lists, Queues, CallsOK
    <2>1. CASE UNCHANGED listVars
      BY <2>1, <1>SameRefs, Zenon
    <2>a. ASSUME NEW e \in Events, el[e] = NULL, NEW l \in Lists, add_event(e, l) PROVE RefsOK'
      BY <2>a, <1>CountsAdd, Zenon DEF add_event, RefsOK
    <2>b. ASSUME NEW e \in Events, el[e] = NULL, add_event_cr(e) PROVE RefsOK'
      BY <2>0, <2>b, <1>CountsAdd, Zenon DEF add_event_cr, RefsOK
    <2>c. ASSUME NEW e \in Events, el[e] # NULL, remove_event(e) PROVE RefsOK'
      BY <2>c, <1>CountsDel, Zenon DEF remove_event, RefsOK
    <2>2. CASE tc_waitq_prepare_to_wait(w, t)
      <3>1. Depth(t) # 0 /\ Op(t) \in {"wait_event", "wait"}
        BY <2>0, <2>2, InCall, Zenon DEF tc_waitq_prepare_to_wait, CallOK
      <3>2. Event(t) \in Events /\ Arg(t) \in Waitqs
        BY <3>1, CallFacts, Zenon
      <3>3. el[Event(t)] = NULL /\ add_event(Event(t), Arg(t))
        BY <2>2, FreshEvents, Zenon DEF tc_waitq_prepare_to_wait, prepare_to_wait
      <3> QED BY <2>0, <2>a, <3>2, <3>3, Zenon
    <2>3. CASE tc_scheduler(w, t)
      <3>1. ASSUME NEW e \in pending_event(t), consume_event(e) PROVE RefsOK'
        <4>1. e \in Events /\ el[e] # NULL
          BY <2>0, PendingEvent, Zenon DEF Lists
        <4> QED BY <3>1, <4>1, <1>ConsumeRefs, Zenon
      <3> QED BY <2>1, <2>3, <3>1, Zenon DEF tc_scheduler
    <2>4. CASE tc_waitq_finish_wait(w, t)
      <3>1. Depth(t) # 0 /\ ctx[w] = t
        BY <2>4, InCall, Zenon DEF tc_waitq_finish_wait
      <3>2. Event(t) \in Events /\ ~IsSignal(Event(t)) /\ Tc(Event(t)) = t
        BY <3>1, CallFacts, Zenon
      <3>3. CASE leave(Event(t))
        BY <2>1, <2>c, <3>2, <3>3, Zenon DEF leave
      <3>4. CASE interrupted(w, t) /\ was_active(Event(t)) /\ requeue_signal(Event(t), woken_by_event[w])
        <4> DEFINE e == Event(t)
                   s == woken_by_event[w]
                   F == [el EXCEPT ![e] = NULL]
                   R == [refcnt EXCEPT ![t] = @ - 1]
        <4>1. s \in Events /\ IsSignal(s) /\ Tc(s) = t /\ s # e
          <5>1. s # NULL /\ IsSignal(s)
            BY <3>4, Zenon DEF interrupted
          <5> QED BY <3>1, <3>2, <5>1, SchedAssumption, Zenon DEF TypeOK, WokenOK, Woken
        <4>2. Pending(t) \in Lists /\ el[e] # NULL
          BY <2>0, <3>2, <3>4, Zenon DEF was_active, Lists
        <4>3. Counts(F, R)
          BY <3>2, <4>2, <1>CountsDel, Zenon DEF RefsOK
        <4>4. F[s] = el[s] /\ el' = [F EXCEPT ![s] = Pending(t)]
          BY <2>0, <3>2, <3>4, <4>1, Zenon DEF requeue_signal
        <4>5. refcnt \in [Threads -> Int] /\ R \in [Threads -> Int]
          BY <4>3, Zenon DEF TypeOK, Counts
        <4>6. CASE el[s] = NULL
          <5>1. Counts(el', [R EXCEPT ![t] = @ + 1])
            BY <4>1, <4>2, <4>3, <4>4, <4>6, <1>CountsAdd, Zenon
          <5>2. refcnt' = [refcnt EXCEPT ![t] = @ - 0]
            BY <3>2, <3>4, <4>6, Zenon DEF requeue_signal
          <5>3. refcnt' = [R EXCEPT ![t] = @ + 1]
            <6>1. refcnt[t] - 0 = (refcnt[t] - 1) + 1
              BY <4>5
            <6>2. R[t] = refcnt[t] - 1 /\ [R EXCEPT ![t] = R[t] + 1] = [refcnt EXCEPT ![t] = R[t] + 1]
              BY <4>5, Zenon
            <6> QED BY <5>2, <6>1, <6>2, Zenon
          <5> QED BY <5>1, <5>3, Zenon DEF RefsOK
        <4>7. CASE el[s] # NULL
          <5>1. refcnt' = R
            BY <3>2, <3>4, <4>7, Zenon DEF requeue_signal
          <5>2. F \in [Events -> Lists \cup {NULL}]
            BY <4>3, Zenon DEF Counts
          <5>3. el' \in [Events -> Lists \cup {NULL}] /\ \A x \in Events : el'[x] = NULL <=> F[x] = NULL
            BY <2>0, <4>1, <4>2, <4>4, <4>7, <5>2, Zenon
          <5> QED BY <4>3, <5>1, <5>3, <1>CountsMove, Zenon DEF RefsOK
        <4> QED BY <4>6, <4>7, Zenon
      <3> QED BY <2>4, <3>3, <3>4, Zenon DEF tc_waitq_finish_wait

    <2>5. CASE tc_sched_yield(w, t)
      <3>1. Depth(t) # 0 /\ el[Event(t)] = NULL
        BY <2>5, InCall, FreshEvents, Zenon DEF tc_sched_yield
      <3>2. Event(t) \in Events
        BY <3>1, CallFacts, Zenon
      <3> QED BY <2>5, <2>b, <3>1, <3>2, Zenon DEF tc_sched_yield
    <2>6. CASE yield_done(w, t)
      <3>1. Depth(t) # 0
        BY <2>6, InCall, Zenon DEF yield_done
      <3>2. Event(t) \in Events
        BY <3>1, CallFacts, Zenon
      <3> QED BY <2>1, <2>6, <2>c, <3>2, Zenon DEF yield_done
    <2>7. CASE tc_waitq_wakeup(w, t) \/ die_wakeup(w, t)
      <3>1. refcnt' = refcnt
        BY <2>7, Zenon DEF tc_waitq_wakeup, die_wakeup, to_immediate
      <3>2. /\ el' \in [Events -> Lists \cup {NULL}]
            /\ \A e \in Events : \/ el'[e] = el[e]
                                 \/ el[e] \in Lists /\ el'[e] = IMMEDIATE
        BY <2>7, WakeupLists, ListTypes, Zenon
      <3>3. \A e \in Events : el'[e] = NULL <=> el[e] = NULL
        BY <2>0, <3>2, Zenon
      <3> QED BY <3>1, <3>2, <3>3, <1>CountsMove, Zenon DEF RefsOK
    <2>8. CASE tc_signal_subscribe(w, t)
      <3>1. Depth(t) # 0 /\ Op(t) = "subscribe" /\ el[<<t, Arg(t)>>] = NULL
        BY <2>0, <2>8, InCall, FreshEvents, Zenon DEF tc_signal_subscribe, CallOK
      <3>2. Arg(t) \in Signals
        BY <3>1, CallFacts, Zenon
      <3>3. <<t, Arg(t)>> \in Events
        BY <3>2, Zenon DEF Events
      <3> QED BY <2>0, <2>8, <2>a, <3>1, <3>2, <3>3, Zenon DEF tc_signal_subscribe
    <2>9. CASE tc_signal_unsubscribe(w, t)
      <3>1. Depth(t) # 0 /\ Op(t) = "unsubscribe" /\ el[<<t, Arg(t)>>] # NULL
        BY <2>0, <2>9, InCall, Zenon DEF tc_signal_unsubscribe, CallOK, Subscribed
      <3>2. Arg(t) \in Signals
        BY <3>1, CallFacts, Zenon
      <3>3. <<t, Arg(t)>> \in Events
        BY <3>2, Zenon DEF Events
      <3> QED BY <2>9, <2>c, <3>1, <3>3, Zenon DEF tc_signal_unsubscribe
    <2>10. CASE tc_thread_new(w, t)
      <3>1. Depth(t) # 0 /\ Op(t) = "new" /\ el[<<Arg(t), 0>>] = NULL
        BY <2>0, <2>10, InCall, FreshEvents, Zenon DEF tc_thread_new, CallOK
      <3>2. Arg(t) \in Threads
        BY <3>1, CallFacts, Zenon
      <3>3. <<Arg(t), 0>> \in Events
        BY <3>2, SchedAssumption DEF Events
      <3> QED BY <2>10, <2>b, <3>1, <3>3, Zenon DEF tc_thread_new
    <2>11. CASE tc_thread_wait(w, t)
      <3>1. Depth(t) # 0 /\ Op(t) = "join" /\ el[Event(t)] = NULL
        BY <2>0, <2>11, InCall, FreshEvents, Zenon DEF tc_thread_wait, CallOK
      <3>2. Event(t) \in Events /\ Arg(t) \in Threads
        BY <3>1, CallFacts, Zenon
      <3> QED BY <2>0, <2>1, <2>11, <2>a, <3>1, <3>2, Zenon DEF tc_thread_wait, prepare_to_wait
    <2>12. CASE die_post(w, t)
      <3>1. el[<<t, 0>>] = NULL
        BY <2>12, FreshEvents, Zenon DEF die_post
      <3>2. <<t, 0>> \in Events
        BY SchedAssumption DEF Events
      <3> QED BY <2>12, <2>b, <3>1, <3>2, Zenon DEF die_post
    <2> QED BY <2>1, <2>2, <2>3, <2>4, <2>5, <2>6, <2>7, <2>8, <2>9, <2>10, <2>11, <2>12, Zenon
            DEF coroutine, call, test, cond, switch_out, yield_stack, iwi_immediate,
                tc_thread_insert, tc_die, client
  \* A subscription stays on some list until its thread unsubscribes.
  <1>WorkerKeepsSignals. ASSUME IInv, NEW w \in Workers, worker(w), NEW e \in Events, IsSignal(e), el[e] # NULL
                         PROVE  el'[e] # NULL
    <2> USE <1>WorkerKeepsSignals
    <2> USE LInvFromIInv DEF IInv
    <2>0. /\ el \in [Events -> Lists \cup {NULL}] /\ \A l \in Lists : l # NULL
          /\ Signals \subseteq Lists
      BY SchedAssumption, Zenon DEF TypeOK, Lists, Queues
    <2>1. CASE UNCHANGED el
      BY <2>1, Zenon
    <2>2. CASE search_queue(w)
      <3>1. PICK x \in first_wanted(w) : move_event(x, Pending(Tc(x)))
        BY <2>2, Zenon DEF search_queue
      <3>2. x \in Events
        BY <3>1, FirstWanted, Zenon
      <3>3. Pending(Tc(x)) # NULL
        BY <2>0, <3>2, EventTc, Zenon DEF Lists
      <3> QED BY <2>0, <3>1, <3>3, Zenon DEF move_event
    <2>3. CASE search_run(w)
      <3>1. PICK x \in first_wanted(w) : consume_event(x)
        BY <2>3, Zenon DEF search_run
      <3>2. x \in Events
        BY <3>1, FirstWanted, Zenon
      <3>3. CASE x = e
        BY <2>0, <3>1, <3>2, <3>3, ConsumeEventLists, Zenon DEF IsSignal
      <3>4. CASE x # e
        BY <2>0, <3>1, <3>2, <3>4, ConsumeEventLists, Zenon
      <3> QED BY <3>3, <3>4, Zenon
    <2>4. CASE search_exiting(w)
      <3>1. PICK x \in first_wanted(w) : x[2] = 0 /\ remove_event(x)
        BY <2>4, Zenon DEF search_exiting, IsExiting
      <3>2. 0 \notin Signals
        BY SchedAssumption, SMTT(30)
      <3>3. x # e
        BY <3>1, <3>2, Zenon DEF IsSignal
      <3> QED BY <2>0, <3>1, <3>3, Zenon DEF remove_event
    <2> QED BY <2>1, <2>2, <2>3, <2>4, ZenonT(30) DEF worker, run_immediate, search_none, switch_to, switch_in,
               tc_thread_free, epoll_immediate, epoll_timeout, rearm_read, arm_immediate, parked, listVars
  \* The same for the steps of a tc_thread.
  <1>CoroutineKeepsSignals. ASSUME IInv, NEW w \in Workers, NEW t \in Threads, coroutine(w, t),
                                   NEW e \in Events, IsSignal(e), el[e] # NULL, el'[e] = NULL
                            PROVE  tc_signal_unsubscribe(w, t) /\ e = <<t, Arg(t)>>
    <2> USE <1>CoroutineKeepsSignals
    <2> USE LInvFromIInv DEF IInv, At
    <2>0. /\ el \in [Events -> Lists \cup {NULL}] /\ \A l \in Lists : l # NULL
          /\ Waitqs \cup Threads \cup Signals \subseteq Lists /\ IMMEDIATE \in Lists
      BY SchedAssumption, Zenon DEF TypeOK, Lists, Queues
    <2>1. CASE UNCHANGED el
      BY <2>1, Zenon
    <2>2. ASSUME NEW x \in Events, NEW l \in Lists, add_event(x, l) \/ add_event_cr(x) PROVE FALSE
      BY <2>0, <2>2, Zenon DEF add_event, add_event_cr
    <2>3. ASSUME NEW x \in Events, ~IsSignal(x), remove_event(x) PROVE FALSE
      BY <2>0, <2>3, Zenon DEF remove_event
    <2>4. CASE tc_waitq_prepare_to_wait(w, t) \/ tc_thread_wait(w, t)
      <3>1. CASE UNCHANGED listVars
        BY <2>1, <3>1, Zenon DEF listVars
      <3>2. CASE add_event(Event(t), Arg(t))
        <4>1. Depth(t) # 0 /\ Op(t) \in {"wait_event", "wait", "join"}
          BY <2>4, InCall, Zenon DEF tc_waitq_prepare_to_wait, tc_thread_wait, CallsOK, CallOK
        <4>2. Arg(t) # NULL
          BY <2>0, <4>1, CallFacts, Zenon
        <4> QED BY <2>0, <3>2, <4>2, Zenon DEF add_event
      <3> QED BY <2>4, <3>1, <3>2, Zenon DEF tc_waitq_prepare_to_wait, tc_thread_wait, prepare_to_wait
    <2>5. CASE tc_scheduler(w, t)
      <3>1. ASSUME NEW x \in pending_event(t), consume_event(x) PROVE FALSE
        <4>1. x \in Events
          BY PendingEvent, Zenon
        <4>2. CASE x = e
          BY <2>0, <3>1, <4>1, <4>2, ConsumeEventLists, Zenon DEF IsSignal
        <4>3. CASE x # e
          BY <2>0, <3>1, <4>1, <4>3, ConsumeEventLists, ZenonT(30)
        <4> QED BY <4>2, <4>3, Zenon
      <3> QED BY <2>1, <2>5, <3>1, Zenon DEF tc_scheduler, listVars
    <2>6. CASE tc_waitq_finish_wait(w, t)
      <3>1. Depth(t) # 0
        BY <2>6, InCall, Zenon DEF tc_waitq_finish_wait
      <3>2. Event(t) \in Events /\ ~IsSignal(Event(t)) /\ Tc(Event(t)) = t
        BY <3>1, CallFacts, Zenon
      <3>3. CASE leave(Event(t))
        BY <2>1, <2>3, <3>2, <3>3, Zenon DEF leave, listVars
      <3>4. CASE requeue_signal(Event(t), woken_by_event[w])
        <4>1. Pending(t) # NULL
          BY <2>0, Zenon DEF Lists
        <4> QED BY <2>0, <3>2, <3>4, <4>1, Zenon DEF requeue_signal
      <3> QED BY <2>6, <3>3, <3>4, Zenon DEF tc_waitq_finish_wait
    <2>7. CASE yield_done(w, t)
      <3>1. Depth(t) # 0
        BY <2>7, InCall, Zenon DEF yield_done
      <3>2. Event(t) \in Events /\ ~IsSignal(Event(t))
        BY <3>1, CallFacts, Zenon
      <3> QED BY <2>1, <2>3, <2>7, <3>2, Zenon DEF yield_done, listVars
    <2>8. CASE tc_waitq_wakeup(w, t) \/ die_wakeup(w, t)
      BY <2>0, <2>8, WakeupLists, Zenon
    <2>9. CASE tc_signal_subscribe(w, t)
      <3>1. Depth(t) # 0 /\ Op(t) = "subscribe"
        BY <2>9, InCall, Zenon DEF tc_signal_subscribe, CallsOK, CallOK
      <3>2. Arg(t) \in Signals
        BY <3>1, CallFacts, Zenon
      <3> QED BY <2>0, <2>9, <3>2, Zenon DEF tc_signal_subscribe, add_event
    <2>10. CASE tc_signal_unsubscribe(w, t)
      BY <2>0, <2>10, Zenon DEF tc_signal_unsubscribe, remove_event
    <2>11. CASE tc_sched_yield(w, t) \/ tc_thread_new(w, t) \/ die_post(w, t)
      BY <2>0, <2>11, Zenon DEF tc_sched_yield, tc_thread_new, die_post, add_event_cr
    <2> QED BY <2>1, <2>4, <2>5, <2>6, <2>7, <2>8, <2>9, <2>10, <2>11, Zenon
            DEF coroutine, call, test, cond, switch_out, yield_stack, iwi_immediate,
                tc_thread_insert, tc_die, client, listVars
  \* Only call() brings a thread to tc_signal_unsubscribe(), and only the check of refcnt
  \* brings it behind this check.
  <1>Steps. ASSUME IInv, NEW w \in Workers, NEW t \in Threads, coroutine(w, t)
            PROVE  /\ pc'[t] = "unsubscribe" => call(w, t)
                   /\ pc'[t] \in DyingPCs => pc[t] \in DyingPCs \/ die_wakeup(w, t)
                   /\ die_wakeup(w, t) => pc[t] = "die"
    <2> USE <1>Steps
    <2> USE DEF IInv, At, DyingPCs, DiePCs
    <2>0. pc \in [Threads -> ThreadPCs]
      BY Zenon DEF TypeOK
    <2> DEFINE Elsewhere == pc'[t] \notin DyingPCs \cup {"unsubscribe"}
    <2>1. ASSUME NEW l, Goto(t, l) PROVE pc'[t] = l
      BY <2>0, <2>1, Zenon DEF Goto
    <2>2. ASSUME Return(t) PROVE Elsewhere
      BY <2>1, <2>2, Zenon DEF Return
    <2>3. CASE call(w, t)
      <3>1. PICK c \in Call : pc' = [pc EXCEPT ![t] = first_pc[c[1]]]
        BY <2>3, CallMade, Zenon
      <3>2. pc'[t] \notin DyingPCs
        BY <2>0, <3>1, FirstPC, Zenon
      <3> QED BY <2>3, <3>2, Zenon DEF die_wakeup, call
    <2>4. CASE tc_thread_insert(w, t)
      <3>1. pc'[t] \in {"new_post", "start"}
        BY <2>0, <2>4, Zenon DEF tc_thread_insert
      <3> QED BY <2>4, <3>1, Zenon DEF die_wakeup
    <2>5. CASE test(w, t) \/ tc_waitq_prepare_to_wait(w, t) \/ cond(w, t) \/ tc_waitq_finish_wait(w, t)
               \/ tc_scheduler(w, t)
      <3>1. Elsewhere
        BY <2>1, <2>2, <2>5, Zenon DEF test, tc_waitq_prepare_to_wait, prepared, cond,
           tc_waitq_finish_wait, tc_scheduler, resume_pc
      <3> QED BY <3>1, Zenon DEF die_wakeup
    <2>6. CASE tc_sched_yield(w, t) \/ yield_stack(w, t) \/ yield_done(w, t) \/ tc_waitq_wakeup(w, t)
               \/ tc_signal_subscribe(w, t) \/ tc_signal_unsubscribe(w, t) \/ tc_thread_new(w, t)
               \/ tc_thread_wait(w, t) \/ tc_die(w, t)
      <3>1. Elsewhere
        BY <2>1, <2>2, <2>6, ZenonT(30) DEF tc_sched_yield, yield_stack, yield_done, tc_waitq_wakeup,
           tc_signal_subscribe, tc_signal_unsubscribe, tc_thread_new, tc_thread_wait, tc_die
      <3> QED BY <3>1, Zenon DEF die_wakeup
    <2>7. CASE switch_out(w, t) \/ die_post(w, t) \/ die_wakeup(w, t)
      BY <2>1, <2>7, Zenon DEF switch_out, die_post, die_wakeup
    <2>8. CASE iwi_immediate(w, t)
      BY <2>1, <2>2, <2>8, Zenon DEF iwi_immediate, die_wakeup
    <2> QED BY <2>3, <2>4, <2>5, <2>6, <2>7, <2>8, ZenonT(30) DEF coroutine
  \* Nothing but the thread itself ends its subscription.
  <1>SubscribedStep. ASSUME IInv, Subscribed, NEW w \in Workers,
                            worker(w) \/ \E t \in Threads : coroutine(w, t)
                     PROVE  Subscribed'
    <2> USE <1>SubscribedStep
    <2> USE DEF IInv
    <2>0. /\ \A u \in Threads, s \in Signals : <<u, s>> \in Events /\ IsSignal(<<u, s>>)
          /\ pc \in [Threads -> ThreadPCs]
      BY Zenon DEF Events, IsSignal, TypeOK
    <2>1. ASSUME NEW u \in Threads, pc[u] = "unsubscribe"
          PROVE  Arg(u) \in Signals /\ el[<<u, Arg(u)>>] # NULL
      <3>1. Depth(u) # 0 /\ Op(u) = "unsubscribe"
        BY <2>1, InCall, Zenon DEF CallsOK, CallOK
      <3> QED BY <2>1, <3>1, CallFacts, Zenon DEF Subscribed
    <2>2. CASE worker(w)
      <3>1. ASSUME NEW u \in Threads, pc'[u] = "unsubscribe" PROVE pc[u] = "unsubscribe"
        <4>1. CASE switch_in(w)
          BY <2>0, <3>1, <4>1, Zenon DEF switch_in, Goto, resume_pc
        <4>2. CASE tc_thread_free(w)
          BY <2>0, <3>1, <4>2, Zenon DEF tc_thread_free, Goto
        <4> QED BY <2>2, <3>1, <4>1, <4>2, ZenonT(30) DEF worker, run_immediate, search_none, search_queue,
                search_run, search_exiting, switch_to, epoll_immediate, epoll_timeout, rearm_read,
                arm_immediate, parked
      <3>2. UNCHANGED calls
        BY <2>2, Zenon DEF worker, run_immediate, search_none, search_queue, search_run, search_exiting,
           switch_to, switch_in, tc_thread_free, epoll_immediate, epoll_timeout, rearm_read,
           arm_immediate, parked, client
      <3>3. \A u \in Threads : Arg(u)' = Arg(u)
        BY <3>2, Zenon DEF Arg, Depth
      <3> QED BY <2>0, <2>1, <2>2, <3>1, <3>3, <1>WorkerKeepsSignals, Zenon DEF Subscribed
    <2>3. ASSUME NEW t \in Threads, coroutine(w, t) PROVE Subscribed'
      <3> SUFFICES ASSUME NEW u \in Threads, pc'[u] = "unsubscribe" PROVE el'[<<u, Arg(u)'>>] # NULL
        BY Zenon DEF Subscribed
      <3>1. CASE u # t
        <4>a. \A v \in Threads \ {t} : /\ calls'[v] = calls[v]
                                       /\ pc'[v] = pc[v] \/ (pc[v] = "none" /\ pc'[v] = "start")
          BY <2>3, CoroutineFrame, Zenon
        <4>1. pc[u] = "unsubscribe" /\ calls'[u] = calls[u]
          BY <3>1, <4>a
        <4>2. Arg(u)' = Arg(u)
          BY <4>1, Zenon DEF Arg, Depth
        <4>3. <<u, Arg(u)>> # <<t, Arg(t)>>
          BY <3>1, Zenon
        <4> QED BY <2>0, <2>1, <2>3, <4>1, <4>2, <4>3, <1>CoroutineKeepsSignals, ZenonT(30)
      <3>2. CASE u = t
        <4>1. call(w, t)
          BY <2>3, <3>2, <1>Steps, Zenon
        <4>2. PICK c \in Calls[t][made[t] + 1] :
                 /\ c[1] = "unsubscribe" => el[<<t, c[2]>>] # NULL
                 /\ calls' = [calls EXCEPT ![t] = Append(@, c)]
                 /\ pc' = [pc EXCEPT ![t] = first_pc[c[1]]]
          BY <4>1, Zenon DEF call, Goto
        <4>3. c \in Call /\ calls \in [Threads -> Seq(Call)] /\ UNCHANGED el
          BY <4>1, <4>2, NextCalls, Zenon DEF TypeOK, call, listVars
        <4>4. calls'[t] = Append(calls[t], c)
          BY <4>2, <4>3, Zenon
        <4>5. Arg(t)' = c[2]
          BY <4>3, <4>4 DEF Arg, Depth
        <4>6. first_pc[c[1]] = "unsubscribe"
          BY <2>0, <3>2, <4>2, Zenon
        <4>7. c[1] = "unsubscribe"
          BY <4>3, <4>6, CallShape DEF first_pc, Blocking
        <4> QED BY <3>2, <4>2, <4>3, <4>5, <4>7, Zenon
      <3> QED BY <3>1, <3>2, Zenon
    <2> QED BY <2>2, <2>3, Zenon
  \* The check of refcnt keeps a thread with a subscription from dying, and a dying one
  \* does not subscribe.
  <1>NoneLeftStep. ASSUME SetFacts, IInv, RefsOK, NoneLeft, NEW w \in Workers,
                          worker(w) \/ \E t \in Threads : coroutine(w, t)
                   PROVE  NoneLeft'
    <2> USE <1>NoneLeftStep
    <2> USE DEF IInv
    <2>0. pc \in [Threads -> ThreadPCs]
      BY Zenon DEF TypeOK
    <2> SUFFICES ASSUME NEW u \in Threads, NEW s \in Signals, pc'[u] \in DyingPCs
                 PROVE  el'[<<u, s>>] = NULL
      BY Zenon DEF NoneLeft
    <2>e. <<u, s>> \in Events /\ Tc(<<u, s>>) = u
      BY Zenon DEF Events, Tc
    <2>1. CASE worker(w)
      <3>1. pc[u] \in DyingPCs
        <4>1. CASE switch_in(w)
          BY <2>0, <4>1, Zenon DEF switch_in, Goto, resume_pc, DyingPCs, DiePCs
        <4>2. CASE tc_thread_free(w)
          <5>1. pc[target[w]] \in {"die_iwi", "die_switch", "dead"}
            BY <4>2, EnterFacts, Zenon DEF tc_thread_free
          <5> QED BY <2>0, <4>2, <5>1, Zenon DEF tc_thread_free, Goto, DyingPCs, DiePCs
        <4> QED BY <2>1, <4>1, <4>2, ZenonT(30) DEF worker, run_immediate, search_none, search_queue,
                search_run, search_exiting, switch_to, epoll_immediate, epoll_timeout, rearm_read,
                arm_immediate, parked
      <3> QED BY <2>1, <2>e, <3>1, WorkerAdded, Zenon DEF NoneLeft
    <2>2. ASSUME NEW t \in Threads, coroutine(w, t) PROVE el'[<<u, s>>] = NULL
      <3>1. el[<<u, s>>] = NULL
        <4>1. CASE pc[u] \in DyingPCs
          BY <4>1, Zenon DEF NoneLeft
        <4>2. CASE pc[u] \notin DyingPCs
          <5>a. \A v \in Threads \ {t} : pc'[v] = pc[v] \/ pc'[v] = "start"
            BY <2>2, CoroutineFrame, Zenon
          <5>1. u = t
            BY <4>2, <5>a DEF DyingPCs, DiePCs
          <5>2. die_wakeup(w, t)
            BY <2>2, <4>2, <5>1, <1>Steps, Zenon
          <5>3. IsFiniteSet(On(el, u)) /\ Cardinality(On(el, u)) = 0
            BY <5>1, <5>2, Zenon DEF die_wakeup, RefsOK, Counts
          <5>4. On(el, u) = {}
            BY <5>3, Zenon DEF SetFacts, CardEmpty
          <5> QED BY <2>e, <5>4, Zenon DEF On
        <4> QED BY <4>1, <4>2, Zenon
      <3>2. ASSUME el'[<<u, s>>] # NULL PROVE FALSE
        <4>1. <<u, s>> \in Adds(t)
          BY <2>2, <2>e, <3>1, <3>2, CoroutineAdded, Zenon
        <4>2. s \notin 0..MaxDepth
          BY SchedAssumption, Zenon
        <4>3. \/ pc[t] = "subscribe" /\ u = t
              \/ pc[t] \in {"finish", "finish_true"} /\ u = t
          <5>1. CASE pc[t] \in {"prepare", "join", "yield"}
            <6>1. Depth(t) # 0
              BY <5>1, InCall, Zenon
            <6>2. Event(t) = <<t, Depth(t)>> /\ Depth(t) \in 1..MaxDepth
              BY <6>1, CallFacts, Zenon
            <6>3. s # Depth(t)
              BY <4>2, <6>2, SchedAssumption
            <6>4. <<u, s>> = Event(t)
              BY <4>1, <5>1 DEF Adds
            <6> QED BY <6>2, <6>3, <6>4
          <5>2. CASE pc[t] \in {"new_post", "die_post"}
            <6>1. s # 0
              BY <4>2, SchedAssumption
            <6> QED BY <4>1, <5>2, <6>1, ZenonT(30) DEF Adds
          <5> QED BY <2>e, <4>1, <5>1, <5>2, Zenon DEF Adds
        <4> QED BY <2>2, <4>3, <1>Steps, Zenon DEF DyingPCs, DiePCs
      <3> QED BY <3>2, Zenon
    <2> QED BY <2>1, <2>2, Zenon
  <1>1. ASSUME NEW w \in Workers, worker(w) \/ \E t \in Threads : coroutine(w, t) PROVE RefInv'
    BY <1>1, <1>WorkerRefs, <1>CoroutineRefs, <1>SubscribedStep, <1>NoneLeftStep, Zenon DEF RefInv
  <1>2. CASE UNCHANGED vars
    BY <1>2, Zenon DEF RefInv, RefsOK, Counts, On, Subscribed, NoneLeft, Arg, Depth, vars, parked,
       listVars, client
  <1> QED BY <1>1, <1>2, Zenon DEF Next

\* The references that are counted are those of RefcntExact.
LEMMA RefInvCounts == ASSUME RefInv PROVE RefcntExact
  <1>1. ASSUME NEW t \in Threads PROVE refcnt[t] = Cardinality(On(el, t))
    BY <1>1, Zenon DEF RefInv, RefsOK, Counts
  <1>2. ASSUME NEW t \in Threads PROVE On(el, t) = {e \in Events : Tc(e) = t /\ el[e] # NULL}
    BY Zenon DEF On
  <1> QED BY <1>1, <1>2, Zenon DEF RefcntExact

\* An event on a list belongs to a thread and to a call that are still there.
LEMMA NoneDangles == ASSUME IInv, RefInv PROVE NoDanglingEvent
  <1> SUFFICES ASSUME NEW e \in Events, el[e] # NULL
               PROVE  LET t == Tc(e) IN
                      CASE IsSignal(e) -> pc[t] \notin DyingPCs \cup {"none", "start"}
                        [] e[2] = 0    -> pc[t] \in {"start", "die_iwi", "die_switch", "dead"}
                        [] OTHER       -> e[2] <= Depth(t) /\ calls[t][e[2]][1] \in Blocking
                                          /\ (e[2] = Depth(t) => pc[t] \notin {"test", "prepare", "yield"})
    BY Zenon DEF NoDanglingEvent
  <1> USE DEF IInv, RefInv
  <1>1. Tc(e) \in Threads /\ e = <<Tc(e), e[2]>> /\ e[2] \in 0..MaxDepth \cup Signals
    BY DEF Events, Tc
  <1>2. CASE IsSignal(e)
    <2>1. pc[Tc(e)] \notin DyingPCs
      BY <1>1, <1>2, Zenon DEF NoneLeft, IsSignal
    <2>2. pc[Tc(e)] \notin {"none", "start"}
      BY <1>1, <1>2, Zenon DEF EventsOK, IsSignal
    <2> QED BY <1>2, <2>1, <2>2, SchedAssumption DEF IsSignal
  <1>3. CASE e[2] = 0
    <2>1. ~IsSignal(e)
      BY <1>3, SchedAssumption DEF IsSignal
    <2>2. pc[Tc(e)] \in {"start", "die_iwi", "die_switch", "dead"}
      BY <1>1, <1>3, ZenonT(30) DEF EventsOK
    <2> QED BY <1>3, <2>1, <2>2, ZenonT(30)
  <1>4. CASE e[2] \in 1..MaxDepth
    <2>1. ~IsSignal(e) /\ e[2] # 0
      BY <1>4, SchedAssumption DEF IsSignal
    <2>2. /\ e[2] <= Depth(Tc(e)) /\ calls[Tc(e)][e[2]][1] \in Blocking
          /\ e[2] = Depth(Tc(e)) => pc[Tc(e)] \notin {"test", "prepare", "yield", "join"}
      BY <1>1, <1>4, ZenonT(30) DEF EventsOK
    <2> QED BY <2>1, <2>2, Zenon
  <1>5. IsSignal(e) \/ e[2] = 0 \/ e[2] \in 1..MaxDepth
    BY <1>1, SchedAssumption DEF IsSignal
  <1> QED BY <1>2, <1>3, <1>4, <1>5, Zenon

-----------------------------------------------------------------------------
(* No assertion fails. *)

\* A thread that exits has unsubscribed from its signals, as tc_die() demands.
AllUnsubscribed ==
    \A t \in Threads, s \in Signals : pc[t] = "die" => el[<<t, s>>] = NULL

\* tc_die() finds no reference left.
LEMMA NoReference ==
    ASSUME SetFacts, IInv, RefcntExact, AllUnsubscribed, NEW t \in Threads, pc[t] = "die"
    PROVE  refcnt[t] = 0
  <1> USE DEF IInv
  <1>1. ASSUME NEW e \in Events, Tc(e) = t PROVE el[e] = NULL
    <2>1. e = <<t, e[2]>> /\ e[2] \in 0..MaxDepth \cup Signals
      BY <1>1 DEF Events, Tc
    <2>2. CASE e[2] = 0
      BY <2>1, <2>2, Zenon DEF EventsOK
    <2>3. CASE e[2] \in Signals
      BY <2>1, <2>3, Zenon DEF AllUnsubscribed
    <2>4. CASE e[2] \in 1..MaxDepth
      <3>1. Depth(t) = 0
        BY Zenon DEF CallsOK, CallOK, NoCallPCs, DiePCs
      <3>2. ~(e[2] <= Depth(t))
        BY <2>4, <3>1, SchedAssumption
      <3> QED BY <2>1, <2>4, <3>2, Zenon DEF EventsOK
    <2>5. e[2] = 0 \/ e[2] \in Signals \/ e[2] \in 1..MaxDepth
      BY <2>1, SchedAssumption
    <2> QED BY <2>2, <2>3, <2>4, <2>5, Zenon
  <1>2. {e \in Events : Tc(e) = t /\ el[e] # NULL} = {}
    BY <1>1, Zenon
  <1>3. Cardinality({}) = 0
    BY Zenon DEF SetFacts, CardEmpty
  <1> QED BY <1>2, <1>3, Zenon DEF RefcntExact

\* What the assertions are about follows from where events are and what woke a thread.
LEMMA SingleAsserts ==
    ASSUME SetFacts, IInv, RefcntExact, LifeInv, SingleInv, AllUnsubscribed PROVE AssertionsHold
  <1> USE DEF IInv, SingleInv
  <1>1. ASSUME NEW w \in Workers, NEW t \in Threads, ctx[w] = t
        PROVE  /\ pc[t] \in {"finish", "finish_true"} =>
                     \/ optimal(w, t)
                     \/ /\ woken_by_event[w] # NULL /\ IsSignal(woken_by_event[w])
                        /\ Tc(woken_by_event[w]) = t
               /\ pc[t] = "yield_done" /\ woken_by_event[w] # Event(t) =>
                     /\ woken_by_event[w] # NULL /\ IsSignal(woken_by_event[w])
                     /\ Tc(woken_by_event[w]) = t /\ el[Event(t)] # NULL
               /\ pc[t] \in {"prepare", "join", "yield"} => el[Event(t)] = NULL
               /\ pc[t] = "die" => refcnt[t] = 0
    <2>1. woken_by_event[w] # NULL => Tc(woken_by_event[w]) = t
      BY <1>1, SchedAssumption, Zenon DEF WokenOK, Woken
    <2>2. /\ pc[t] = "finish_true" => woken_by_event[w] = NULL
          /\ pc[t] \in {"finish", "yield_done"} => WokenFor(w, t)
      BY <1>1, Zenon DEF Wakes
    <2>3. pc[t] \in {"finish", "finish_true"} => event_stack[t] = Event(t)
      BY Zenon DEF Top, WaitPCs
    <2>4. ASSUME pc[t] = "yield_done", woken_by_event[w] # Event(t) PROVE el[Event(t)] # NULL
      <3>1. \A v \in Workers : ctx[v] = t => v = w
        BY <1>1 DEF WorkersOK
      <3> QED BY <2>4, <3>1, Zenon DEF Awaited
    <2>5. pc[t] \in {"prepare", "join", "yield"} => el[Event(t)] = NULL
      BY FreshEvents, Zenon
    <2>6. pc[t] = "die" => refcnt[t] = 0
      BY NoReference, Zenon
    <2> QED BY <2>1, <2>2, <2>3, <2>4, <2>5, <2>6, Zenon DEF optimal, WokenFor
  <1>2. ASSUME NEW w \in Workers, wpc[w] = "thread_free" PROVE list[target[w]] = <<>>
    <2>1. target[w] \in Threads
      BY <1>2 DEF WorkersOK, TypeOK
    <2>2. pc[target[w]] \in DyingPCs /\ target[w] \in Lists
      BY <1>2, <2>1, Zenon DEF ClaimsOK, DyingPCs, DiePCs, Lists, Queues
    <2>3. \A e \in Events : el[e] # target[w]
      BY <2>1, <2>2, Zenon DEF LifeInv, Life
    <2>4. \A e \in Events : ~Contains(list[target[w]], e)
      BY <2>2, <2>3, Zenon DEF ListsConsistent
    <2>5. list[target[w]] \in Seq(Events)
      BY <2>2, Zenon DEF TypeOK
    <2> QED BY <2>4, <2>5 DEF Contains
  <1> QED BY <1>1, <1>2, Zenon DEF AssertionsHold

-----------------------------------------------------------------------------
(* The theorems. *)

LOCAL INSTANCE WellFoundedInduction
FS == INSTANCE FiniteSetTheorems

\* A set of natural numbers that is not empty has a least element.
LEMMA LeastNat ==
    ASSUME NEW T, T \subseteq Nat, T # {}
    PROVE  \E x \in T : \A y \in T : x <= y
  <1> DEFINE R == {ss \in Nat \X Nat : ss[1] < ss[2]}
  <1>1. IsWellFoundedOn(R, Nat)
    BY NatLessThanWellFounded, Zenon DEF OpToRel
  <1> HIDE DEF R
  <1>2. PICK x \in T : \A y \in T : ~(<<y, x>> \in R)
    BY <1>1, WFMin, Zenon
  <1>3. ASSUME NEW y \in T PROVE x <= y
    <2>1. x \in Nat /\ y \in Nat /\ ~(<<y, x>> \in R)
      BY <1>2, Zenon
    <2>2. ~(y < x)
      BY <2>1 DEF R
    <2> QED BY <2>1, <2>2
  <1> QED BY <1>3, Zenon

\* The library proves them.
LEMMA SetFactsHold == SetFacts
  <1>a. \A S : FS!IsFiniteSet(S) <=> IsFiniteSet(S)
    BY ZenonT(30) DEF FS!IsFiniteSet, IsFiniteSet
  <1>b. \A S : FS!Cardinality(S) = Cardinality(S)
    BY ZenonT(30) DEF FS!Cardinality, Cardinality
  <1>1. LeastElement
    BY LeastNat, Zenon DEF LeastElement
  <1>2. CardEmpty
    BY <1>a, <1>b, FS!FS_EmptySet, ZenonT(30) DEF CardEmpty
  <1>3. CardSingle
    BY <1>a, <1>b, FS!FS_Singleton, ZenonT(30) DEF CardSingle
  <1>4. CardAdd
    BY <1>a, <1>b, FS!FS_AddElement, ZenonT(30) DEF CardAdd
  <1>5. CardDel
    BY <1>a, <1>b, FS!FS_RemoveElement, ZenonT(30) DEF CardDel
  <1> QED BY <1>1, <1>2, <1>3, <1>4, <1>5, ZenonT(30) DEF SetFacts

\* run_or_queue() keeps events from the pending list of a thread that sleeps.
THEOREM SleepersCorrect == Spec => []Sleepers
  <1>1. (Init => Sleepers) /\ (IInv /\ Sleepers /\ [Next]_vars => Sleepers')
    BY InitSleepers, StepSleepers, SetFactsHold, Zenon
  <1> QED BY <1>1, Inductive, PTL DEF Spec

\* A thread sleeps only when tc->pending holds nothing that concerns it: tc_scheduler()
\* and run_or_queue() agree through TF_RUNNING.
THEOREM PendingCorrect == Spec => []NothingLeftPending
  <1>1. IInv /\ Sleepers => NothingLeftPending
    BY LInvFromIInv, QuietIsEmpty, Zenon DEF IInv, Sleepers, NothingLeftPending
  <1> QED BY <1>1, Inductive, SleepersCorrect, PTL

\* An event on the immediate list is noticed without the help of client code: the eventfd
\* is ready and armed, or a worker is going to search, or a thread is about to ring.
THEOREM WatchedCorrect == Spec => []ImmediateWatched
  <1>1. IInv /\ RearmExclusive /\ Watch /\ [Next]_vars => Watch'
    BY StepWatch, SetFactsHold, Zenon
  <1>2. IInv /\ Watch => ImmediateWatched
    BY WatchIsWatched, ZenonT(30)
  <1> QED BY <1>1, <1>2, InitWatch, Inductive, RearmCorrect, PTL DEF Spec

\* If no wait condition sleeps and nobody uses tc_waitq_wakeup_one(), no wakeup is lost:
\* the program never sleeps while one of its threads could go on.
THEOREM NoWakeupLost ==
    ASSUME MaxDepth = 1, Broadcasts PROVE Spec => []NoLostWakeup
  <1>1. Init => SingleInv /\ LifeAll /\ WakesAll /\ Heard
    <2>1. Init => WakesAll /\ Heard
      BY Zenon DEF Init, WakesAll, Heard
    <2> QED BY <2>1, InitSingle, InitLife, Zenon DEF SingleInv, LifeAll
  <1>2. IInv /\ SingleInv /\ [Next]_vars => SingleInv'
    BY StepSingle, Zenon
  <1>3. IInv /\ WakesAll /\ Heard /\ [Next]_vars => WakesAll' /\ Heard'
    BY StepHeard, Zenon
  <1>4. IInv /\ Sleepers /\ ImmediateWatched /\ LifeAll /\ SingleInv /\ Heard => NoLostWakeup
    BY IdleWaits, Zenon
  <1> QED BY <1>1, <1>2, <1>3, <1>4, StepLife, Inductive, SleepersCorrect, WatchedCorrect, PTL DEF Spec

\* The references of every tc_thread stay counted.
THEOREM RefInductive == Spec => []RefInv
  <1>1. (Init => RefInv) /\ (IInv /\ RefInv /\ [Next]_vars => RefInv')
    BY InitRefInv, StepRefInv, SetFactsHold, Zenon
  <1> QED BY <1>1, Inductive, PTL DEF Spec

\* add_event(), remove_event(), move_event() and requeue_signal() keep refcnt equal to
\* the number of events that tc_die() asks about, for every client program.
THEOREM RefcntCorrect == Spec => []RefcntExact
  <1>1. RefInv => RefcntExact
    BY RefInvCounts, ZenonT(30)
  <1> QED BY <1>1, RefInductive, PTL

\* No event list leads into a stack frame that was left or into a tc_thread that
\* tc_thread_free() released: finish_wait() takes its event off every list, and tc_die()
\* goes on only without references.
THEOREM NoDanglingCorrect == Spec => []NoDanglingEvent
  <1>1. IInv /\ RefInv => NoDanglingEvent
    BY NoneDangles, Zenon
  <1> QED BY <1>1, Inductive, RefInductive, PTL

\* If no wait condition sleeps and threads unsubscribe before they exit, no assert() of
\* the scheduler fails and no msg_exit() is reached.
THEOREM AssertionsCorrect ==
    ASSUME MaxDepth = 1 PROVE Spec => [](AllUnsubscribed => AssertionsHold)
  <1>1. Init => SingleInv /\ LifeAll
    BY InitSingle, InitLife, Zenon DEF SingleInv, LifeAll
  <1>2. IInv /\ SingleInv /\ [Next]_vars => SingleInv'
    BY StepSingle, Zenon
  <1>3. IInv /\ RefcntExact /\ LifeAll /\ SingleInv => (AllUnsubscribed => AssertionsHold)
    BY SingleAsserts, SetFactsHold, Zenon DEF LifeAll
  <1> QED BY <1>1, <1>2, <1>3, StepLife, Inductive, RefcntCorrect, PTL DEF Spec
=============================================================================
