----------------------------- MODULE SchedLife ------------------------------
(***************************************************************************)
(* Where events are, and who starts and who frees a tc_thread, for every   *)
(* client program; and for client programs that do not sleep inside a wait *)
(* condition (MaxDepth = 1) what keeps signals and wakeups from getting    *)
(* lost, and that signals are delivered once.                              *)
(***************************************************************************)
EXTENDS TcSchedProofs

-----------------------------------------------------------------------------
(* Other threads. *)

\* What is pending for t neither is the event t waits for last nor a signal.
Quiet(t) ==
    \A e \in Events : el[e] = Pending(t) => ~IsSignal(e) /\ event_stack[t] \notin {NULL, e}

Sleepers == \A t \in Threads : ~TF_RUNNING[t] => Quiet(t)

\* A thread on a worker is marked as running, until it goes to sleep.
LEMMA RunningMarked ==
    ASSUME IInv, NEW w \in Workers, NEW t \in Threads, ctx[w] = t, pc[t] # "switch"
    PROVE  TF_RUNNING[t]
  <1>1. pc[t] \notin {"dead", "freed"} /\ Claims(w, t)
    BY Zenon DEF IInv, WorkersOK, OffPCs, Claims
  <1> QED BY <1>1, Zenon DEF IInv, ClaimsOK, RunningFlagExact

\* A thread changes its own event stack only, and queues signals to itself only.
LEMMA OthersPending ==
    ASSUME IInv, NEW w \in Workers, NEW t \in Threads, coroutine(w, t), NEW u \in Threads, u # t
    PROVE  /\ event_stack'[u] = event_stack[u]
           /\ \A e \in Events : el'[e] = Pending(u) => el[e] = Pending(u)
  <1> USE LInvFromIInv DEF IInv, At
  <1>0. /\ el \in [Events -> Lists \cup {NULL}] /\ event_stack \in [Threads -> Events \cup {NULL}]
        /\ Pending(u) \notin Waitqs \cup Threads \cup Signals \cup {IMMEDIATE, NULL}
        /\ Pending(u) # Pending(t)
    BY SchedAssumption, PendingIs, Zenon DEF TypeOK, Lists, Queues
  <1>1. CASE UNCHANGED <<listVars, event_stack>>
    BY <1>1, Zenon DEF listVars
  <1>2. ASSUME NEW x \in Events, NEW l, el' = [el EXCEPT ![x] = l], l # Pending(u)
        PROVE  \A e \in Events : el'[e] = Pending(u) => el[e] = Pending(u)
    BY <1>0, <1>2, Zenon
  <1>3. CASE tc_waitq_prepare_to_wait(w, t) \/ tc_thread_wait(w, t)
    <2>1. Depth(t) # 0 /\ Op(t) \in {"wait_event", "wait", "join"}
      BY <1>3, InCall, Zenon DEF tc_waitq_prepare_to_wait, tc_thread_wait, CallsOK, CallOK
    <2>2. /\ Event(t) \in Events /\ Tc(Event(t)) = t
          /\ Arg(t) \in Waitqs \cup Threads
      BY <2>1, CallFacts, Zenon
    <2>3. CASE prepare_to_wait(w, t)
      <3>1. /\ el' = [el EXCEPT ![Event(t)] = Arg(t)] /\ Arg(t) # Pending(u)
            /\ event_stack' = [event_stack EXCEPT ![t] = Event(t)]
        BY <1>0, <2>2, <2>3, Zenon DEF prepare_to_wait, add_event, event_on_tc_stack
      <3> QED BY <1>0, <1>2, <2>2, <3>1, Zenon
    <2> QED BY <1>1, <1>3, <2>3, Zenon DEF tc_waitq_prepare_to_wait, tc_thread_wait, stkVars
  <1>4. CASE tc_scheduler(w, t)
    <2>1. UNCHANGED event_stack
      BY <1>4, Zenon DEF tc_scheduler, client, stkVars
    <2>2. ASSUME NEW x \in pending_event(t), consume_event(x)
          PROVE  \A e \in Events : el'[e] = Pending(u) => el[e] = Pending(u)
      <3>1. x \in Events
        BY PendingEvent, Zenon
      <3> QED BY <1>0, <1>2, <2>2, <3>1, ConsumeEventLists, Zenon DEF IsSignal
    <2> QED BY <1>4, <2>1, <2>2, Zenon DEF tc_scheduler, listVars
  <1>5. CASE tc_waitq_finish_wait(w, t)
    <2>1. Depth(t) # 0
      BY <1>5, InCall, Zenon DEF tc_waitq_finish_wait
    <2>2. Event(t) \in Events /\ Tc(Event(t)) = t
      BY <2>1, CallFacts, Zenon
    <2>3. event_stack'[u] = event_stack[u]
      BY <1>0, <1>5, <2>2, Zenon DEF tc_waitq_finish_wait, pop_event_stack, stkVars
    <2>4. CASE leave(Event(t))
      BY <1>0, <1>2, <2>2, <2>3, <2>4, Zenon DEF leave, remove_event, listVars
    <2>5. CASE requeue_signal(Event(t), woken_by_event[w])
      BY <1>0, <2>2, <2>3, <2>5, Zenon DEF requeue_signal
    <2> QED BY <1>5, <2>4, <2>5, Zenon DEF tc_waitq_finish_wait
  <1>6. CASE tc_sched_yield(w, t) \/ tc_thread_new(w, t) \/ die_post(w, t)
    <2>1. UNCHANGED event_stack
      BY <1>6, Zenon DEF tc_sched_yield, tc_thread_new, die_post, client, stkVars
    <2> QED BY <1>0, <1>6, <2>1, Zenon DEF tc_sched_yield, tc_thread_new, die_post, add_event_cr
  <1>7. CASE yield_stack(w, t) \/ yield_done(w, t)
    <2>1. Depth(t) # 0
      BY <1>7, InCall, Zenon DEF yield_stack, yield_done
    <2>2. Event(t) \in Events /\ Tc(Event(t)) = t
      BY <2>1, CallFacts, Zenon
    <2>3. event_stack'[u] = event_stack[u]
      BY <1>0, <1>7, <2>2, Zenon DEF yield_stack, yield_done, event_on_tc_stack, pop_event_stack
    <2> QED BY <1>0, <1>2, <1>7, <2>2, <2>3, Zenon DEF yield_stack, yield_done, remove_event, listVars
  <1>8. CASE tc_waitq_wakeup(w, t) \/ die_wakeup(w, t)
    <2>1. UNCHANGED event_stack
      BY <1>8, Zenon DEF tc_waitq_wakeup, die_wakeup, stkVars
    <2> QED BY <1>0, <1>8, <2>1, WakeupLists, Zenon
  <1>9. CASE tc_signal_subscribe(w, t)
    <2>1. Depth(t) # 0 /\ Op(t) = "subscribe"
      BY <1>9, InCall, Zenon DEF tc_signal_subscribe, CallsOK, CallOK
    <2>2. Arg(t) \in Signals
      BY <2>1, CallFacts, Zenon
    <2> QED BY <1>0, <1>9, <2>2, Zenon DEF tc_signal_subscribe, add_event, stkVars
  <1>10. CASE tc_signal_unsubscribe(w, t)
    BY <1>0, <1>10, Zenon DEF tc_signal_unsubscribe, remove_event, stkVars
  <1> QED BY <1>1, <1>3, <1>4, <1>5, <1>6, <1>7, <1>8, <1>9, <1>10, Zenon
          DEF coroutine, call, test, cond, switch_out, iwi_immediate, tc_thread_insert, tc_die,
              client, stkVars

-----------------------------------------------------------------------------
(* What a step leaves alone. *)

\* scheduler_part2() moves a thread only into its function, behind its tc_scheduler()
\* call, or out of memory, and changes nothing but its own worker's state.
LEMMA WorkerFrame ==
    ASSUME IInv, NEW w \in Workers, worker(w)
    PROVE  /\ UNCHANGED client
           /\ \A u \in Threads : \/ pc'[u] = pc[u]
                                 \/ /\ u = target[w] /\ wpc[w] = "spin" /\ wpc'[w] = "coroutine"
                                    /\ ctx'[w] = u
                                    /\ \/ pc[u] = "start" /\ pc'[u] = "user"
                                       \/ pc[u] = "parked" /\ pc'[u] = resume_pc(u)
                                 \/ pc[u] = "dead" /\ pc'[u] = "freed"
           /\ \A v \in Workers \ {w} : /\ wpc'[v] = wpc[v] /\ ctx'[v] = ctx[v]
                                       /\ target'[v] = target[v]
                                       /\ woken_by_event'[v] = woken_by_event[v]
  <1> USE DEF IInv
  <1>t. /\ wpc \in [Workers -> WorkerPCs] /\ target \in [Workers -> Threads \cup {NULL}]
        /\ ctx \in [Workers -> Threads \cup {NULL}] /\ pc \in [Threads -> ThreadPCs]
        /\ woken_by_event \in [Workers -> Events \cup {NULL}]
    BY Zenon DEF TypeOK
  <1>1. UNCHANGED client
    BY Zenon DEF worker, run_immediate, search_none, search_queue, search_run, search_exiting,
       switch_to, switch_in, tc_thread_free, epoll_immediate, epoll_timeout, rearm_read,
       arm_immediate, parked
  <1>2. ASSUME NEW u \in Threads
        PROVE  \/ pc'[u] = pc[u]
               \/ /\ u = target[w] /\ wpc[w] = "spin" /\ wpc'[w] = "coroutine"
                  /\ ctx'[w] = u
                  /\ \/ pc[u] = "start" /\ pc'[u] = "user"
                     \/ pc[u] = "parked" /\ pc'[u] = resume_pc(u)
               \/ pc[u] = "dead" /\ pc'[u] = "freed"
    <2>1. CASE switch_in(w)
      <3>1. /\ target[w] \in Threads /\ wpc[w] = "spin" /\ pc[target[w]] \in {"start", "parked"}
        BY <2>1, EnterFacts, Zenon DEF switch_in, may_enter
      <3>2. /\ wpc'[w] = "coroutine" /\ ctx'[w] = target[w]
            /\ pc' = [pc EXCEPT ![target[w]] = IF pc[target[w]] = "start" THEN "user"
                                               ELSE resume_pc(target[w])]
        BY <1>t, <2>1, Zenon DEF switch_in, Goto
      <3> QED BY <1>t, <3>1, <3>2
    <2>2. CASE tc_thread_free(w)
      <3>1. target[w] \in Threads /\ pc[target[w]] = "dead"
        BY <2>2, EnterFacts, Zenon DEF tc_thread_free, may_enter
      <3> QED BY <1>t, <2>2, <3>1, Zenon DEF tc_thread_free, Goto
    <2>3. CASE UNCHANGED pc
      BY <2>3, Zenon
    <2> QED BY <2>1, <2>2, <2>3, Zenon DEF worker, run_immediate, search_none, search_queue, search_run,
            search_exiting, switch_to, epoll_immediate, epoll_timeout, rearm_read, arm_immediate, parked
  <1>3. ASSUME NEW v \in Workers \ {w}
        PROVE  /\ wpc'[v] = wpc[v] /\ ctx'[v] = ctx[v] /\ target'[v] = target[v]
               /\ woken_by_event'[v] = woken_by_event[v]
    <2>1. wpc'[v] = wpc[v]
      BY <1>t, Zenon DEF worker, run_immediate, search_none, search_queue, search_run,
         search_exiting, switch_to, switch_in, tc_thread_free, epoll_immediate, epoll_timeout,
         rearm_read, arm_immediate, pass_done, restart
    <2>2. ctx'[v] = ctx[v]
      BY <1>t, Zenon DEF worker, run_immediate, search_none, search_queue, search_run,
         search_exiting, switch_to, switch_in, tc_thread_free, epoll_immediate, epoll_timeout,
         rearm_read, arm_immediate, parked
    <2>3. target'[v] = target[v]
      BY <1>t, Zenon DEF worker, run_immediate, search_none, search_queue, search_run,
         search_exiting, switch_to, switch_in, tc_thread_free, epoll_immediate, epoll_timeout,
         rearm_read, arm_immediate, restart
    <2>4. woken_by_event'[v] = woken_by_event[v]
      BY <1>t, Zenon DEF worker, run_immediate, search_none, search_queue, search_run,
         search_exiting, switch_to, switch_in, tc_thread_free, epoll_immediate, epoll_timeout,
         rearm_read, arm_immediate, parked
    <2> QED BY <2>1, <2>2, <2>3, <2>4, Zenon
  <1> QED BY <1>1, <1>2, <1>3, Zenon

\* A step of a thread leaves every other worker alone, and its own until it goes.
LEMMA ThreadFrame ==
    ASSUME IInv, NEW w \in Workers, NEW t \in Threads, coroutine(w, t)
    PROVE  /\ \A v \in Workers \ {w} : woken_by_event'[v] = woken_by_event[v] /\ ctx'[v] = ctx[v]
           /\ \A v \in Workers : target'[v] = target[v]
           /\ \A v \in Workers \ {w} : wpc'[v] = wpc[v]
           /\ wpc[w] = "coroutine" /\ ctx[w] = t
           /\ wpc'[w] \in {"coroutine", "search", "round"}
           /\ ~switch_out(w, t) => ctx'[w] = t
           /\ wpc'[w] = "coroutine" <=> ~switch_out(w, t)
  <1> USE DEF IInv, At
  <1>t. /\ wpc \in [Workers -> WorkerPCs] /\ ctx \in [Workers -> Threads \cup {NULL}]
        /\ woken_by_event \in [Workers -> Events \cup {NULL}] /\ t # NULL
    BY SchedAssumption, Zenon DEF TypeOK
  <1>1. ctx[w] = t /\ wpc[w] = "coroutine"
    <2>1. ctx[w] = t
      BY CoroutineFrame, Zenon
    <2> QED BY <1>t, <2>1, Zenon DEF WorkersOK
  <1>2. \A v \in Workers \ {w} : woken_by_event'[v] = woken_by_event[v]
    <2>1. ASSUME NEW e, woken_by_event' = [woken_by_event EXCEPT ![w] = e]
          PROVE  \A v \in Workers \ {w} : woken_by_event'[v] = woken_by_event[v]
      BY <1>t, <2>1, Zenon
    <2>2. CASE UNCHANGED woken_by_event
      BY <2>2, Zenon
    <2>3. CASE tc_waitq_prepare_to_wait(w, t) \/ tc_thread_wait(w, t) \/ tc_signal_subscribe(w, t)
      BY <2>1, <2>2, <2>3, Zenon DEF tc_waitq_prepare_to_wait, tc_thread_wait, tc_signal_subscribe,
         prepare_to_wait
    <2>4. CASE tc_scheduler(w, t)
      BY <2>1, <2>2, <2>4, Zenon DEF tc_scheduler
    <2>5. CASE tc_waitq_finish_wait(w, t) \/ yield_done(w, t)
      BY <2>1, <2>2, <2>5, Zenon DEF tc_waitq_finish_wait, yield_done
    <2> QED BY <2>2, <2>3, <2>4, <2>5, Zenon DEF coroutine, call, test, cond, switch_out,
            tc_sched_yield, yield_stack, tc_waitq_wakeup, iwi_immediate, tc_signal_unsubscribe,
            tc_thread_insert, tc_thread_new, tc_die, die_wakeup, die_post
  <1>3. CASE switch_out(w, t)
    BY <1>t, <1>1, <1>2, <1>3, Zenon DEF switch_out, pass_done
  <1>4. CASE tc_scheduler(w, t)
    <2>1. ~switch_out(w, t)
      BY <1>4, Zenon DEF tc_scheduler, switch_out
    <2> QED BY <1>1, <1>2, <1>4, <2>1, Zenon DEF tc_scheduler
  <1>5. CASE ~switch_out(w, t) /\ ~tc_scheduler(w, t)
    BY <1>1, <1>2, <1>5, QuietFrame, Zenon
  <1> QED BY <1>3, <1>4, <1>5, Zenon

\* What a step of t may do with an event: which call moves it, and where to.
Moved(w, t, e) ==
    \/ /\ tc_waitq_prepare_to_wait(w, t) \/ (tc_thread_wait(w, t) /\ Arg(t) \in threads)
       /\ e = Event(t) /\ el'[e] = Arg(t)
    \/ /\ tc_scheduler(w, t) /\ e \in pending_event(t) /\ woken_by_event'[w] = e
       /\ el'[e] = IF IsSignal(e) THEN e[2] ELSE NULL
    \/ /\ tc_waitq_finish_wait(w, t)
       /\ \/ e = Event(t) /\ el'[e] = NULL
          \/ /\ interrupted(w, t) /\ was_active(Event(t))
             /\ e = woken_by_event[w] /\ el'[e] = Pending(t)
    \/ tc_sched_yield(w, t) /\ e = Event(t) /\ el'[e] = IMMEDIATE
    \/ yield_done(w, t) /\ e = Event(t) /\ el'[e] = NULL
    \/ tc_waitq_wakeup(w, t) /\ el[e] = Arg(t) /\ el'[e] = IMMEDIATE
    \/ die_wakeup(w, t) /\ el[e] = t /\ el'[e] = IMMEDIATE
    \/ tc_signal_subscribe(w, t) /\ e = <<t, Arg(t)>> /\ el'[e] = Arg(t)
    \/ tc_signal_unsubscribe(w, t) /\ e = <<t, Arg(t)>> /\ el'[e] = NULL
    \/ tc_thread_new(w, t) /\ e = <<Arg(t), 0>> /\ el'[e] = IMMEDIATE
    \/ die_post(w, t) /\ e = <<t, 0>> /\ el'[e] = IMMEDIATE

\* It does nothing else.
LEMMA ThreadMoves ==
    ASSUME IInv, NEW w \in Workers, NEW t \in Threads, coroutine(w, t),
           NEW e \in Events, el'[e] # el[e]
    PROVE  Moved(w, t, e)
  <1> USE LInvFromIInv DEF IInv, At
  <1>0. el \in [Events -> Lists \cup {NULL}] /\ woken_by_event \in [Workers -> Events \cup {NULL}]
    BY Zenon DEF TypeOK
  <1>1. ~UNCHANGED el
    BY Zenon
  <1>2. ASSUME NEW x, NEW l, el' = [el EXCEPT ![x] = l] PROVE e = x /\ el'[e] = l
    BY <1>0, <1>2, Zenon
  <1>3. CASE tc_waitq_prepare_to_wait(w, t) \/ tc_thread_wait(w, t)
    <2>1. CASE UNCHANGED listVars
      BY <1>1, <2>1, Zenon DEF listVars
    <2>2. CASE add_event(Event(t), Arg(t))
      BY <1>2, <1>3, <1>1, <2>2, Zenon DEF add_event, tc_thread_wait, listVars, Moved
    <2> QED BY <1>3, <2>1, <2>2, Zenon DEF tc_waitq_prepare_to_wait, tc_thread_wait, prepare_to_wait
  <1>4. CASE tc_scheduler(w, t)
    <2>1. PICK x \in pending_event(t) :
             consume_event(x) /\ woken_by_event' = [woken_by_event EXCEPT ![w] = x]
      BY <1>1, <1>4, Zenon DEF tc_scheduler, listVars
    <2>2. x \in Events
      BY <2>1, PendingEvent, Zenon
    <2>3. el' = [el EXCEPT ![x] = IF IsSignal(x) THEN x[2] ELSE NULL]
      BY <2>1, <2>2, ConsumeEventLists, Zenon
    <2>4. e = x /\ el'[e] = (IF IsSignal(e) THEN e[2] ELSE NULL) /\ woken_by_event'[w] = e
      BY <1>0, <1>2, <2>1, <2>3, Zenon
    <2> QED BY <1>4, <2>1, <2>4, Zenon DEF Moved
  <1>5. CASE tc_waitq_finish_wait(w, t)
    <2>1. Depth(t) # 0
      BY <1>5, InCall, Zenon DEF tc_waitq_finish_wait
    <2>2. Event(t) \in Events /\ Tc(Event(t)) = t
      BY <2>1, CallFacts, Zenon
    <2>3. CASE leave(Event(t))
      <3>1. e = Event(t) /\ el'[e] = NULL
        BY <1>1, <1>2, <2>3, Zenon DEF leave, remove_event, listVars
      <3> QED BY <1>5, <3>1, Zenon DEF Moved
    <2>4. CASE interrupted(w, t) /\ was_active(Event(t))
               /\ requeue_signal(Event(t), woken_by_event[w])
      <3>1. el' = [el EXCEPT ![Event(t)] = NULL, ![woken_by_event[w]] = Pending(t)]
        BY <2>2, <2>4, Zenon DEF requeue_signal
      <3>2. \/ e = woken_by_event[w] /\ el'[e] = Pending(t)
            \/ e = Event(t) /\ el'[e] = NULL
        BY <1>0, <3>1, Zenon
      <3> QED BY <1>5, <2>4, <3>2, Zenon DEF Moved
    <2> QED BY <1>5, <2>3, <2>4, Zenon DEF tc_waitq_finish_wait
  <1>6. CASE tc_sched_yield(w, t) \/ tc_thread_new(w, t) \/ die_post(w, t)
    <2>1. ASSUME NEW x, add_event_cr(x) PROVE e = x /\ el'[e] = IMMEDIATE
      BY <1>2, <2>1, Zenon DEF add_event_cr
    <2>2. \/ tc_sched_yield(w, t) /\ add_event_cr(Event(t))
          \/ tc_thread_new(w, t) /\ add_event_cr(<<Arg(t), 0>>)
          \/ die_post(w, t) /\ add_event_cr(<<t, 0>>)
      BY <1>6, Zenon DEF tc_sched_yield, tc_thread_new, die_post
    <2> QED BY <2>1, <2>2, Zenon DEF Moved
  <1>7. CASE yield_done(w, t) \/ tc_signal_unsubscribe(w, t)
    <2>1. CASE yield_done(w, t)
      <3>1. remove_event(Event(t)) \/ UNCHANGED el
        BY <2>1, Zenon DEF yield_done, listVars
      <3>2. e = Event(t) /\ el'[e] = NULL
        BY <1>1, <1>2, <3>1, Zenon DEF remove_event
      <3> QED BY <2>1, <3>2, Zenon DEF Moved
    <2>2. CASE tc_signal_unsubscribe(w, t)
      <3>1. remove_event(<<t, Arg(t)>>) \/ UNCHANGED el
        BY <2>2, Zenon DEF tc_signal_unsubscribe, listVars
      <3>2. e = <<t, Arg(t)>> /\ el'[e] = NULL
        BY <1>1, <1>2, <3>1, Zenon DEF remove_event
      <3> QED BY <2>2, <3>2, Zenon DEF Moved
    <2> QED BY <1>7, <2>1, <2>2, Zenon
  <1>8. ASSUME NEW q \in Queues, NEW n \in 0..Len(list[q]), to_immediate(q, n)
        PROVE  el[e] = q /\ el'[e] = IMMEDIATE
    <2>1. q \in Lists /\ q # IMMEDIATE
      BY SchedAssumption, Zenon DEF Lists
    <2> QED BY <1>8, <2>1, ToImmediateLists, Zenon
  <1>9. CASE tc_waitq_wakeup(w, t)
    <2>1. Depth(t) # 0 /\ Op(t) \in {"wakeup_one", "wakeup_all", "fire"}
      BY <1>9, InCall, Zenon DEF tc_waitq_wakeup, CallsOK, CallOK
    <2>2. Arg(t) \in Queues /\ Arg(t) \in Lists
      BY <2>1, CallFacts, Zenon DEF Queues, Lists
    <2>3. Len(list[Arg(t)]) \in Nat
      BY <2>2, LInvTypes
    <2>4. (IF Op(t) = "wakeup_one" /\ Len(list[Arg(t)]) > 0 THEN 1 ELSE Len(list[Arg(t)]))
             \in 0..Len(list[Arg(t)])
      BY <2>3
    <2> QED BY <1>8, <1>9, <2>2, <2>4, Zenon DEF tc_waitq_wakeup, Moved
  <1>10. CASE die_wakeup(w, t)
    <2>1. t \in Queues /\ t \in Lists
      BY Zenon DEF Queues, Lists
    <2>2. Len(list[t]) \in Nat
      BY <2>1, LInvTypes
    <2>3. Len(list[t]) \in 0..Len(list[t])
      BY <2>2
    <2> QED BY <1>8, <1>10, <2>1, <2>3, Zenon DEF die_wakeup, Moved
  <1>11. CASE tc_signal_subscribe(w, t)
    BY <1>2, <1>11, Zenon DEF tc_signal_subscribe, add_event, Moved
  <1> QED BY <1>1, <1>3, <1>4, <1>5, <1>6, <1>7, <1>9, <1>10, <1>11, Zenon
          DEF coroutine, call, test, cond, switch_out, yield_stack, iwi_immediate, tc_thread_insert,
              tc_die, client, listVars

\* The worker puts events only on tc->pending lists, and signals back on their queue.
LEMMA WorkerMoves ==
    ASSUME IInv, NEW w \in Workers, worker(w), NEW e \in Events, el'[e] # el[e]
    PROVE  /\ el[e] = IMMEDIATE /\ e \in first_wanted(w)
           /\ \/ search_queue(w) /\ ~IsExiting(e) /\ must_queue(e) /\ el'[e] = Pending(Tc(e))
              \/ /\ search_run(w) /\ ~IsExiting(e) /\ ~must_queue(e)
                 /\ el'[e] = IF IsSignal(e) THEN e[2] ELSE NULL
                 /\ woken_by_event'[w] = e /\ target'[w] = Tc(e) /\ wpc'[w] = "switch_to"
              \/ /\ search_exiting(w) /\ IsExiting(e) /\ el'[e] = NULL
                 /\ target'[w] = Tc(e) /\ wpc'[w] = "thread_free"
  <1> USE LInvFromIInv DEF IInv
  <1>t. /\ wpc \in [Workers -> WorkerPCs] /\ target \in [Workers -> Threads \cup {NULL}]
        /\ woken_by_event \in [Workers -> Events \cup {NULL}] /\ el \in [Events -> Lists \cup {NULL}]
    BY Zenon DEF TypeOK
  <1>1. CASE UNCHANGED el
    BY <1>1, Zenon
  <1>2. CASE search_queue(w)
    <2>1. PICK x \in first_wanted(w) : ~IsExiting(x) /\ must_queue(x) /\ move_event(x, Pending(Tc(x)))
      BY <1>2, Zenon DEF search_queue
    <2>2. x \in Events /\ el[x] = IMMEDIATE
      BY <2>1, FirstWanted, Zenon
    <2>3. x = e /\ el'[e] = Pending(Tc(e))
      BY <1>t, <2>1, <2>2, Zenon DEF move_event
    <2> QED BY <1>2, <2>1, <2>2, <2>3, Zenon
  <1>3. CASE search_run(w)
    <2>1. PICK x \in first_wanted(w) :
             /\ ~IsExiting(x) /\ ~must_queue(x) /\ consume_event(x)
             /\ woken_by_event' = [woken_by_event EXCEPT ![w] = x]
             /\ target' = [target EXCEPT ![w] = Tc(x)]
      BY <1>3, Zenon DEF search_run
    <2>2. x \in Events /\ el[x] = IMMEDIATE
      BY <2>1, FirstWanted, Zenon
    <2>3. x = e /\ el'[e] = IF IsSignal(e) THEN e[2] ELSE NULL
      BY <1>t, <2>1, <2>2, ConsumeEventLists, Zenon
    <2>4. woken_by_event'[w] = e /\ target'[w] = Tc(e) /\ wpc'[w] = "switch_to"
      BY <1>t, <1>3, <2>1, <2>3, Zenon DEF search_run
    <2> QED BY <1>3, <2>1, <2>2, <2>3, <2>4, Zenon
  <1>4. CASE search_exiting(w)
    <2>1. PICK x \in first_wanted(w) :
             IsExiting(x) /\ remove_event(x) /\ target' = [target EXCEPT ![w] = Tc(x)]
      BY <1>4, Zenon DEF search_exiting
    <2>2. x \in Events /\ el[x] = IMMEDIATE
      BY <2>1, FirstWanted, Zenon
    <2>3. x = e /\ el'[e] = NULL
      BY <1>t, <2>1, <2>2, Zenon DEF remove_event
    <2>4. target'[w] = Tc(e) /\ wpc'[w] = "thread_free"
      BY <1>t, <1>4, <2>1, <2>3, Zenon DEF search_exiting
    <2> QED BY <1>4, <2>1, <2>2, <2>3, <2>4, Zenon
  <1> QED BY <1>1, <1>2, <1>3, <1>4, Zenon DEF worker, run_immediate, search_none, switch_to, switch_in,
             tc_thread_free, epoll_immediate, epoll_timeout, rearm_read, arm_immediate, parked, listVars

-----------------------------------------------------------------------------
(* Where events are, and the life of a tc_thread. *)

\* A signal is on the signal's own queue or on its way; the event in a tc_thread never
\* waits; that of a call waits for what the call names.
Place(e) ==
    /\ IsSignal(e) => el[e] \in {NULL, e[2], IMMEDIATE, Pending(Tc(e))}
    /\ e[2] = 0 => el[e] \in {NULL, IMMEDIATE}
    /\ ~IsSignal(e) /\ e[2] # 0 /\ el[e] \in Queues => el[e] = calls[Tc(e)][e[2]][2]

Places == \A e \in Events : Place(e)
Unstarted == \A t \in Threads : pc[t] \in {"none", "start"} => event_stack[t] = NULL

\* domain->threads.list holds the threads that were created and do not exit; nobody
\* waits for one that is behind tc_waitq_wakeup_all(&tc->exit_waiters).
Life ==
    /\ \A t \in Threads : t \in threads <=> pc[t] \notin DiePCs \cup {"none"}
    /\ \A t \in Threads, e \in Events : pc[t] \in DyingPCs => el[e] # t
    /\ \A t \in Threads : Depth(t) # 0 /\ Op(t) = "join" => pc[Arg(t)] # "none"

LifeInv == Places /\ Unstarted /\ Life

\* Which step a thread takes where, and where the step leads.
Flow(w, t) ==
    LET From(P, Q) == pc[t] \in P /\ pc'[t] \in Q IN
    \/ call(w, t) /\ From({"user", "cond"}, {"test", "prepare", "join", "yield", "wakeup", "subscribe",
                                             "unsubscribe", "new"})
    \/ test(w, t) /\ From({"test"}, {"user", "cond", "prepare"})
    \/ tc_waitq_prepare_to_wait(w, t) /\ From({"prepare"}, {"cond", "scheduler"})
    \/ cond(w, t) /\ From({"cond"}, {"finish_true", "scheduler"})
    \/ tc_scheduler(w, t) /\ From({"scheduler"}, {"finish", "yield_done", "switch"})
    \/ switch_out(w, t) /\ From({"switch"}, {"parked"})
    \/ switch_out(w, t) /\ From({"die_switch"}, {"dead"})
    \/ tc_waitq_finish_wait(w, t) /\ From({"finish"}, {"prepare", "user", "cond"})
    \/ tc_waitq_finish_wait(w, t) /\ From({"finish_true"}, {"user", "cond"})
    \/ tc_sched_yield(w, t) /\ From({"yield"}, {"yield_stack"})
    \/ yield_stack(w, t) /\ From({"yield_stack"}, {"scheduler"})
    \/ yield_done(w, t) /\ From({"yield_done"}, {"user", "cond"})
    \/ tc_waitq_wakeup(w, t) /\ From({"wakeup"}, {"iwi", "user", "cond"})
    \/ iwi_immediate(w, t) /\ From({"iwi"}, {"user", "cond"})
    \/ iwi_immediate(w, t) /\ From({"die_wakeup_iwi"}, {"die_post"})
    \/ iwi_immediate(w, t) /\ From({"die_iwi"}, {"die_switch"})
    \/ tc_signal_subscribe(w, t) /\ From({"subscribe"}, {"user", "cond"})
    \/ tc_signal_unsubscribe(w, t) /\ From({"unsubscribe"}, {"user", "cond"})
    \/ tc_thread_insert(w, t) /\ From({"new"}, {"new_post"})
    \/ tc_thread_new(w, t) /\ From({"new_post"}, {"iwi"})
    \/ tc_thread_wait(w, t) /\ From({"join"}, {"scheduler", "user", "cond"})
    \/ tc_die(w, t) /\ From({"user"}, {"die"})
    \/ die_wakeup(w, t) /\ From({"die"}, {"die_post", "die_wakeup_iwi"})
    \/ die_post(w, t) /\ From({"die_post"}, {"die_iwi"})

\* There is no other step.
LEMMA ControlFlow ==
    ASSUME TypeOK, NEW w \in Workers, NEW t \in Threads, coroutine(w, t) PROVE Flow(w, t)
  <1> USE DEF At, Flow
  <1>0. pc \in [Threads -> ThreadPCs]
    BY Zenon DEF TypeOK
  <1>1. ASSUME NEW l, Goto(t, l) PROVE pc'[t] = l
    BY <1>0, <1>1, Zenon DEF Goto
  <1>2. ASSUME Return(t) PROVE pc'[t] \in {"user", "cond"}
    BY <1>1, <1>2, Zenon DEF Return
  <1>3. CASE call(w, t)
    <2>1. PICK c \in Call : pc' = [pc EXCEPT ![t] = first_pc[c[1]]]
      BY <1>3, CallMade, Zenon
    <2>2. pc'[t] \in {"test", "prepare", "join", "yield", "wakeup", "subscribe", "unsubscribe", "new"}
      BY <1>0, <2>1, FirstPC, Zenon
    <2> QED BY <1>3, <2>2, Zenon DEF call
  <1>4. CASE test(w, t) \/ tc_waitq_prepare_to_wait(w, t) \/ cond(w, t)
    BY <1>1, <1>2, <1>4, Zenon DEF test, tc_waitq_prepare_to_wait, prepared, cond
  <1>5. CASE tc_scheduler(w, t)
    BY <1>1, <1>5, Zenon DEF tc_scheduler, resume_pc
  <1>6. CASE switch_out(w, t)
    BY <1>1, <1>6, Zenon DEF switch_out
  <1>7. CASE tc_waitq_finish_wait(w, t)
    BY <1>1, <1>2, <1>7, Zenon DEF tc_waitq_finish_wait
  <1>8. CASE tc_sched_yield(w, t) \/ yield_stack(w, t) \/ yield_done(w, t)
    BY <1>1, <1>2, <1>8, Zenon DEF tc_sched_yield, yield_stack, yield_done
  <1>9. CASE tc_waitq_wakeup(w, t)
    BY <1>1, <1>2, <1>9, Zenon DEF tc_waitq_wakeup
  <1>10. CASE iwi_immediate(w, t)
    BY <1>1, <1>2, <1>10, Zenon DEF iwi_immediate
  <1>11. CASE tc_signal_subscribe(w, t) \/ tc_signal_unsubscribe(w, t)
    BY <1>2, <1>11, Zenon DEF tc_signal_subscribe, tc_signal_unsubscribe
  <1>12. CASE tc_thread_insert(w, t)
    <2>1. pc'[t] = "new_post" /\ pc[t] = "new"
      <3>1. pc[t] = "new" /\ pc[Arg(t)] = "none"
        BY <1>12, Zenon DEF tc_thread_insert
      <3>2. Arg(t) # t
        BY <3>1, Zenon
      <3> QED BY <1>0, <1>12, <3>1, <3>2, Zenon DEF tc_thread_insert
    <2> QED BY <1>12, <2>1, Zenon
  <1>13. CASE tc_thread_new(w, t) \/ tc_thread_wait(w, t) \/ tc_die(w, t)
    BY <1>1, <1>2, <1>13, Zenon DEF tc_thread_new, tc_thread_wait, tc_die
  <1>14. CASE die_wakeup(w, t) \/ die_post(w, t)
    BY <1>1, <1>14, Zenon DEF die_wakeup, die_post
  <1> QED BY <1>3, <1>4, <1>5, <1>6, <1>7, <1>8, <1>9, <1>10, <1>11, <1>12, <1>13, <1>14, Zenon DEF coroutine

\* tc_run() lists and queues the main thread.
LEMMA InitLife == Init => LifeInv
  <1> SUFFICES ASSUME Init PROVE LifeInv
    BY Zenon
  <1>0. /\ NULL \notin Queues /\ IMMEDIATE \notin Queues /\ 0 \notin Signals /\ Main \in Threads
    <2>1. 0 \in 0..MaxDepth
      BY SchedAssumption
    <2> QED BY <2>1, SchedAssumption, Zenon DEF Lists
  <1>1. /\ el = [e \in Events |-> IF e = <<Main, 0>> THEN IMMEDIATE ELSE NULL]
        /\ event_stack = [t \in Threads |-> NULL] /\ threads = {Main}
        /\ pc = [t \in Threads |-> IF t = Main THEN "start" ELSE "none"]
        /\ calls = [t \in Threads |-> <<>>]
    BY Zenon DEF Init
  <1>2. \A e \in Events : el[e] \in {NULL, IMMEDIATE} /\ (IsSignal(e) => el[e] = NULL)
    BY <1>0, <1>1 DEF IsSignal
  <1>3. Places
    BY <1>0, <1>2, Zenon DEF Places, Place
  <1>4. \A t \in Threads : Depth(t) = 0
    BY <1>1 DEF Depth
  <1>5. \A t \in Threads, e \in Events : el[e] # t
    BY <1>0, <1>2, Zenon DEF Queues
  <1>6. \A t \in Threads : t \in threads <=> pc[t] \notin DiePCs \cup {"none"}
    BY <1>1, Zenon DEF DiePCs
  <1> QED BY <1>1, <1>3, <1>4, <1>5, <1>6, Zenon DEF LifeInv, Life, Unstarted

-----------------------------------------------------------------------------
(* Starting and freeing a tc_thread. *)

\* run_or_queue() has told worker w to go to t's stack.
Serving(w, t) == target[w] = t /\ wpc[w] \in {"switch_to", "spin"}

Freeing(w, t) == target[w] = t /\ wpc[w] = "thread_free"

\* The event in a tc_thread is there, or its worker is, when the thread is to be started
\* or freed.
Posted ==
    \A t \in Threads :
        /\ pc[t] = "start" => \/ el[<<t, 0>>] # NULL
                              \/ \E u \in Threads : pc[u] = "new_post" /\ Arg(u) = t
                              \/ \E w \in Workers : Serving(w, t)
        /\ pc[t] \in {"die_iwi", "die_switch", "dead"} =>
              el[<<t, 0>>] # NULL \/ \E w \in Workers : Freeing(w, t)

\* A worker goes where run_or_queue() sent it.
LEMMA ServingKept ==
    ASSUME IInv, NEW w \in Workers, worker(w), NEW v \in Workers, NEW t \in Threads
    PROVE  /\ Serving(v, t) => Serving(v, t)' \/ (v = w /\ switch_in(w))
           /\ Freeing(v, t) => Freeing(v, t)' \/ (v = w /\ tc_thread_free(w))
           /\ woken_by_event'[v] = woken_by_event[v] \/ (v = w /\ (switch_in(w) \/ search_run(w)))
  <1>0. wpc \in [Workers -> WorkerPCs] /\ target \in [Workers -> Threads \cup {NULL}]
    BY Zenon DEF IInv, TypeOK
  <1>1. CASE v # w
    <2>1. /\ wpc'[v] = wpc[v] /\ target'[v] = target[v] /\ woken_by_event'[v] = woken_by_event[v]
      BY <1>1, WorkerFrame, Zenon
    <2> QED BY <2>1, Zenon DEF Serving, Freeing
  <1>2. CASE v = w
    <2>1. woken_by_event'[w] = woken_by_event[w] \/ switch_in(w) \/ search_run(w)
      BY Zenon DEF worker, run_immediate, search_none, search_queue, search_exiting, switch_to,
         tc_thread_free, epoll_immediate, epoll_timeout, rearm_read, arm_immediate, parked
    <2>2. ASSUME Serving(w, t) PROVE Serving(w, t)' \/ switch_in(w)
      <3>1. switch_to(w) \/ switch_in(w)
        BY <2>2, Zenon DEF Serving, worker, run_immediate, search_none, search_queue, search_run,
           search_exiting, searching, tc_thread_free, epoll_immediate, epoll_timeout, rearm_read,
           arm_immediate
      <3>2. switch_to(w) => target'[w] = target[w] /\ wpc'[w] = "spin"
        BY <1>0, Zenon DEF switch_to
      <3> QED BY <2>2, <3>1, <3>2, Zenon DEF Serving
    <2>3. ASSUME Freeing(w, t) PROVE tc_thread_free(w)
      BY <2>3, Zenon DEF Freeing, worker, run_immediate, search_none, search_queue, search_run,
         search_exiting, searching, switch_to, switch_in, epoll_immediate, epoll_timeout, rearm_read,
         arm_immediate
    <2> QED BY <1>2, <2>1, <2>2, <2>3, Zenon
  <1> QED BY <1>1, <1>2, Zenon

\* Threads are created, started, ended and freed in that order, whatever calls they make.
LifeAll == LifeInv /\ Posted

LEMMA StepLife == IInv /\ LifeAll /\ [Next]_vars => LifeAll'
  \* run_or_queue() starts a thread whose embedded event it finds, if it has not run yet.
  <1>StartNotQueued. ASSUME IInv, Unstarted, NEW t \in Threads, el[<<t, 0>>] # NULL, pc[t] = "start"
                     PROVE  ~must_queue(<<t, 0>>)
    <2> USE <1>StartNotQueued
    <2>1. Tc(<<t, 0>>) = t /\ event_stack[t] = NULL
      BY Zenon DEF Unstarted, Tc
    <2>2. ASSUME NEW v \in Workers, Claims(v, t) PROVE FALSE
      <3>0. WorkersOK
        BY Zenon DEF IInv
      <3>1. ctx[v] # t
        BY <3>0 DEF WorkersOK, OffPCs
      <3>2. target[v] = t /\ wpc[v] \in {"switch_to", "spin"}
        BY <2>2, <3>1, Zenon DEF Claims
      <3> QED BY <3>2, Zenon DEF IInv, EventsOK
    <2>3. ~TF_RUNNING[t]
      BY <2>2, Zenon DEF IInv, ClaimsOK, RunningFlagExact
    <2> QED BY <2>1, <2>3, Zenon DEF must_queue
  \* scheduler_part2() keeps events in their places.
  <1>WorkerPlaces. ASSUME IInv, LifeInv, NEW w \in Workers, worker(w) PROVE Places'
    <2> USE <1>WorkerPlaces
    <2> USE DEF IInv
    <2>0. /\ NULL \notin Queues /\ 0 \notin Signals /\ \A t \in Threads : Pending(t) \notin Queues
      <3>1. 0 \in 0..MaxDepth
        BY SchedAssumption
      <3> QED BY <3>1, SchedAssumption, Zenon DEF Lists
    <2> SUFFICES ASSUME NEW e \in Events PROVE Place(e)'
      BY Zenon DEF Places
    <2>1. Place(e) /\ UNCHANGED calls /\ Tc(e) \in Threads
      BY WorkerFrame, EventTc, Zenon DEF LifeInv, Places, client
    <2>2. CASE el'[e] = el[e]
      BY <2>1, <2>2, Zenon DEF Place
    <2>3. CASE el'[e] # el[e]
      <3>1. \/ ~IsExiting(e) /\ must_queue(e) /\ el[e] = IMMEDIATE /\ el'[e] = Pending(Tc(e))
            \/ el'[e] = IF IsSignal(e) THEN e[2] ELSE NULL
            \/ IsExiting(e) /\ el'[e] = NULL
        BY <2>3, WorkerMoves, Zenon
      <3>2. e[2] = 0 => ~IsSignal(e)
        BY <2>0, Zenon DEF IsSignal
      <3>3. CASE ~IsExiting(e) /\ must_queue(e) /\ el[e] = IMMEDIATE /\ el'[e] = Pending(Tc(e))
        <4>1. ASSUME e[2] = 0 PROVE FALSE
          <5>1. e = <<Tc(e), 0>>
            BY <4>1 DEF Events, Tc
          <5>2. pc[Tc(e)] = "start" /\ el[e] # NULL
            BY <3>3, <4>1, SchedAssumption, Zenon DEF IsExiting, Lists
          <5>3. ~must_queue(<<Tc(e), 0>>)
            BY <2>1, <5>1, <5>2, <1>StartNotQueued, Zenon DEF LifeInv
          <5> QED BY <3>3, <5>1, <5>3, Zenon
        <4> QED BY <2>0, <2>1, <3>3, <4>1, Zenon DEF Place
      <3>4. CASE el'[e] = IF IsSignal(e) THEN e[2] ELSE NULL
        BY <2>0, <3>2, <3>4, Zenon DEF Place
      <3>5. CASE el'[e] = NULL
        BY <2>0, <3>5, Zenon DEF Place
      <3> QED BY <3>1, <3>3, <3>4, <3>5, Zenon
    <2> QED BY <2>2, <2>3, Zenon
  \* It starts, resumes and frees threads.
  <1>WorkerLife. ASSUME IInv, LifeInv, NEW w \in Workers, worker(w) PROVE LifeInv'
    <2> USE <1>WorkerLife
    <2>0. NULL \notin Queues /\ \A t \in Threads : Pending(t) \notin Queues /\ t \notin Signals
      BY SchedAssumption, Zenon DEF Lists
    <2>1. UNCHANGED <<event_stack, threads, calls>>
      BY WorkerFrame, Zenon DEF client, stkVars
    <2>2. ASSUME NEW t \in Threads
          PROVE  /\ pc'[t] \in {"none", "start"} => pc[t] = pc'[t]
                 /\ pc'[t] \in DiePCs <=> pc[t] \in DiePCs
                 /\ pc'[t] \in DyingPCs <=> pc[t] \in DyingPCs
                 /\ pc[t] # "none" <=> pc'[t] # "none"
      <3>1. resume_pc(t) \in {"yield_done", "finish"}
        BY DEF resume_pc
      <3>2. \/ pc'[t] = pc[t]
            \/ pc[t] = "start" /\ pc'[t] = "user"
            \/ pc[t] = "parked" /\ pc'[t] \in {"yield_done", "finish"}
            \/ pc[t] = "dead" /\ pc'[t] = "freed"
        BY <3>1, WorkerFrame, Zenon
      <3> QED BY <3>2, Zenon DEF DiePCs, DyingPCs
    <2>3. ASSUME NEW t \in Threads, NEW e \in Events, pc'[t] \in DyingPCs PROVE el'[e] # t
      <3>1. el[e] # t
        BY <2>2, <2>3, Zenon DEF LifeInv, Life
      <3>2. Tc(e) \in Threads
        BY EventTc, Zenon
      <3>3. \/ el'[e] \in {el[e], Pending(Tc(e)), NULL}
            \/ IsSignal(e) /\ el'[e] = e[2]
        BY WorkerMoves, Zenon
      <3> QED BY <2>0, <3>1, <3>2, <3>3, Zenon DEF IsSignal, Queues
    <2>4. Unstarted'
      BY <2>1, <2>2, Zenon DEF LifeInv, Unstarted
    <2>5. ASSUME NEW t \in Threads, Depth(t) # 0 /\ Op(t) = "join" PROVE pc'[Arg(t)] # "none"
      <3>1. Arg(t) \in Threads
        BY <2>5, CallFacts, Zenon DEF IInv
      <3> QED BY <2>2, <2>5, <3>1, Zenon DEF LifeInv, Life
    <2>6. Life'
      <3>1. \A t \in Threads : t \in threads' <=> pc'[t] \notin DiePCs \cup {"none"}
        BY <2>1, <2>2, Zenon DEF LifeInv, Life
      <3>2. \A t \in Threads : Depth(t)' # 0 /\ Op(t)' = "join" => pc'[Arg(t)'] # "none"
        BY <2>1, <2>5, Zenon DEF Depth, Op, Arg
      <3> QED BY <2>3, <3>1, <3>2, Zenon DEF Life
    <2> QED BY <2>4, <2>6, <1>WorkerPlaces, Zenon DEF LifeInv
  \* How a call of a tc_thread can create a thread or begin to exit.
  <1>LifeStep. ASSUME IInv, NEW w \in Workers, NEW t \in Threads, coroutine(w, t)
               PROVE  /\ pc'[t] \in DiePCs <=> pc[t] \in DiePCs \/ tc_die(w, t)
                      /\ pc'[t] \in DyingPCs => pc[t] \in DyingPCs \/ die_wakeup(w, t)
                      /\ tc_die(w, t) => threads' = threads \ {t}
                      /\ tc_thread_insert(w, t) =>
                            /\ Arg(t) \in Threads \ {t} /\ threads' = threads \cup {Arg(t)}
                            /\ pc'[Arg(t)] = "start" /\ ~tc_die(w, t)
                      /\ threads' = threads \/ tc_die(w, t) \/ tc_thread_insert(w, t)
                      /\ \A u \in Threads \ {t} : pc'[u] = pc[u] \/ (tc_thread_insert(w, t) /\ u = Arg(t))
    <2> USE <1>LifeStep
    <2> USE DEF IInv, At
    <2>0. pc \in [Threads -> ThreadPCs]
      BY Zenon DEF TypeOK
    <2>1. CASE tc_thread_insert(w, t)
      <3>1. Depth(t) # 0 /\ Op(t) = "new"
        BY <2>1, InCall, Zenon DEF tc_thread_insert, CallsOK, CallOK
      <3>2. Arg(t) \in Threads
        BY <3>1, CallFacts, Zenon
      <3>3. Arg(t) # t /\ pc[t] = "new" /\ threads' = threads \cup {Arg(t)}
            /\ pc' = [pc EXCEPT ![t] = "new_post", ![Arg(t)] = "start"]
        BY <2>1, Zenon DEF tc_thread_insert
      <3>4. pc'[t] = "new_post" /\ pc'[Arg(t)] = "start" /\ \A u \in Threads \ {t, Arg(t)} : pc'[u] = pc[u]
        BY <2>0, <3>2, <3>3, Zenon
      <3>5. ~tc_die(w, t)
        BY <3>3, Zenon DEF tc_die
      <3>6. pc[t] \notin DiePCs /\ pc'[t] \notin DiePCs /\ pc'[t] \notin DyingPCs
        BY <3>3, <3>4, Zenon DEF DiePCs, DyingPCs
      <3> QED BY <2>1, <3>2, <3>3, <3>4, <3>5, <3>6, Zenon
    <2>2. ASSUME ~tc_thread_insert(w, t)
          PROVE  \A u \in Threads \ {t} : pc'[u] = pc[u]
      <3>1. ASSUME NEW l, Goto(t, l) PROVE \A u \in Threads \ {t} : pc'[u] = pc[u]
        BY <2>0, <3>1, Zenon DEF Goto
      <3>2. \E l : Goto(t, l)
        BY <2>2, ZenonT(30) DEF coroutine, call, test, tc_waitq_prepare_to_wait, cond, tc_scheduler, switch_out,
           tc_waitq_finish_wait, tc_sched_yield, yield_stack, yield_done, tc_waitq_wakeup, iwi_immediate,
           tc_signal_subscribe, tc_signal_unsubscribe, tc_thread_new, tc_thread_wait, tc_die, die_wakeup,
           die_post, Return
      <3> QED BY <3>1, <3>2, Zenon
    <2>3. ASSUME ~tc_thread_insert(w, t), ~tc_die(w, t) PROVE threads' = threads
      BY <2>3, Zenon DEF coroutine, call, test, tc_waitq_prepare_to_wait, cond, tc_scheduler, switch_out,
         tc_waitq_finish_wait, tc_sched_yield, yield_stack, yield_done, tc_waitq_wakeup, iwi_immediate,
         tc_signal_subscribe, tc_signal_unsubscribe, tc_thread_new, tc_thread_wait, die_wakeup, die_post,
         client
    <2>4. tc_die(w, t) => threads' = threads \ {t} /\ pc'[t] = "die"
      BY <2>0, Zenon DEF tc_die, Goto
    <2>5. /\ pc'[t] \in DiePCs <=> pc[t] \in DiePCs \/ tc_die(w, t)
          /\ pc'[t] \in DyingPCs => pc[t] \in DyingPCs \/ die_wakeup(w, t)
      <3>1. Flow(w, t)
        BY ControlFlow, Zenon
      <3>2. tc_die(w, t) => pc'[t] = "die"
        BY <2>4, Zenon
      <3> QED BY <3>1, <3>2, Zenon DEF Flow, DyingPCs, DiePCs
    <2> QED BY <2>1, <2>2, <2>3, <2>4, <2>5, Zenon
  \* A step begins a call, returns from one, or leaves the calls in progress alone.
  <1>CallsStep. ASSUME IInv, NEW w \in Workers, NEW t \in Threads, coroutine(w, t)
                PROVE  UNCHANGED calls \/ call(w, t) \/ (Return(t) /\ Depth(t) # 0)
    <2> USE <1>CallsStep
    <2>1. UNCHANGED calls \/ call(w, t) \/ Return(t)
      BY Zenon DEF coroutine, test, tc_waitq_prepare_to_wait, cond, tc_scheduler, switch_out,
         tc_waitq_finish_wait, tc_sched_yield, yield_stack, yield_done, tc_waitq_wakeup, iwi_immediate,
         tc_signal_subscribe, tc_signal_unsubscribe, tc_thread_insert, tc_thread_new, tc_thread_wait,
         tc_die, die_wakeup, die_post, client
    <2>2. CASE pc[t] \in {"user", "die", "die_wakeup_iwi", "die_post", "die_iwi", "die_switch"}
      <3>1. call(w, t) \/ switch_out(w, t) \/ iwi_immediate(w, t) \/ tc_die(w, t) \/ die_wakeup(w, t)
            \/ die_post(w, t)
        BY <2>2, ControlFlow, Zenon DEF Flow, IInv
      <3> QED BY <2>2, <3>1, Zenon DEF switch_out, iwi_immediate, tc_die, die_wakeup, die_post, client
    <2>3. CASE pc[t] \notin {"user", "die", "die_wakeup_iwi", "die_post", "die_iwi", "die_switch"}
      <3>1. pc[t] \notin OffPCs
        BY CoroutineFrame, Zenon
      <3> QED BY <2>1, <2>3, <3>1, InCall, Zenon DEF OffPCs
    <2> QED BY <2>2, <2>3, Zenon
  \* The calls that stay in progress keep their arguments.
  <1>CallsKept. ASSUME IInv, NEW w \in Workers, NEW t \in Threads, coroutine(w, t), NEW i \in 1..MaxDepth,
                       i <= Depth(t), i <= Depth(t)'
                PROVE  calls'[t][i] = calls[t][i]
    <2> USE <1>CallsKept
    <2>0. calls \in [Threads -> Seq(Call)] /\ Depth(t) \in Nat /\ MaxDepth \in Nat
      BY SchedAssumption DEF IInv, TypeOK, Depth
    <2>1. CASE UNCHANGED calls
      BY <2>1, Zenon
    <2>2. CASE call(w, t)
      <3>1. PICK c \in Call : calls' = [calls EXCEPT ![t] = Append(@, c)]
        BY <2>2, CallMade, Zenon DEF IInv
      <3>2. calls'[t] = Append(calls[t], c) /\ calls[t] \in Seq(Call)
        BY <2>0, <3>1, Zenon
      <3>3. i \in 1..Len(calls[t])
        BY <2>0 DEF Depth
      <3> QED BY <3>2, <3>3
    <2>3. CASE Return(t) /\ Depth(t) # 0
      <3>1. TypeOK
        BY Zenon DEF IInv
      <3>2. /\ Depth(t)' = Depth(t) - 1
            /\ \A j \in 1..(Depth(t) - 1) : calls'[t][j] = calls[t][j]
        BY <2>3, <3>1, ReturnFacts, Zenon
      <3>3. i \in 1..(Depth(t) - 1)
        BY <2>0, <3>2
      <3> QED BY <3>2, <3>3, Zenon
    <2> QED BY <2>1, <2>2, <2>3, <1>CallsStep, Zenon
  \* Steps of tc_threads keep events in their places.
  <1>CoroutinePlaces. ASSUME IInv, LifeInv, NEW w \in Workers, NEW t \in Threads, coroutine(w, t) PROVE Places'
    <2> USE <1>CoroutinePlaces
    <2> USE LInvFromIInv DEF IInv, At
    <2>0. /\ NULL \notin Queues /\ IMMEDIATE \notin Queues /\ 0 \notin Signals /\ 0 \notin 1..MaxDepth
          /\ \A u \in Threads : Pending(u) \notin Queues
          /\ \A u \in Threads, d \in 1..MaxDepth : d \notin Signals
      <3>1. 0 \in 0..MaxDepth /\ 0 \notin 1..MaxDepth /\ 1..MaxDepth \subseteq 0..MaxDepth
        BY SchedAssumption
      <3> QED BY <3>1, SchedAssumption, Zenon DEF Lists
    <2> SUFFICES ASSUME NEW e \in Events PROVE Place(e)'
      BY Zenon DEF Places
    <2>1. Place(e) /\ Tc(e) \in Threads
      BY EventTc, Zenon DEF LifeInv, Places
    <2>2. Depth(t) # 0 =>
            /\ Event(t)[2] = Depth(t) /\ Tc(Event(t)) = t /\ ~IsSignal(Event(t)) /\ Event(t)[2] # 0
            /\ Event(t) = <<t, Depth(t)>>
            /\ calls[t][Depth(t)][2] = Arg(t)
      BY CallFacts DEF Event, Arg
    <2>3. ASSUME el'[e] \notin Queues, e[2] = 0 => el'[e] \in {NULL, IMMEDIATE},
                 IsSignal(e) => el'[e] \in {NULL, IMMEDIATE, Pending(Tc(e))}
          PROVE  Place(e)'
      BY <2>3, Zenon DEF Place
    <2>4. CASE el'[e] = el[e]
      <3>1. CASE ~IsSignal(e) /\ e[2] # 0 /\ el[e] \in Queues
        <4>1. e = <<Tc(e), e[2]>> /\ e[2] \in 1..MaxDepth
          BY <3>1, SchedAssumption DEF Events, Tc, IsSignal
        <4>2. el[<<Tc(e), e[2]>>] # NULL /\ el'[<<Tc(e), e[2]>>] # NULL
          BY <2>0, <2>4, <3>1, <4>1, Zenon
        <4>3. e[2] <= Depth(Tc(e))
          BY <2>1, <4>1, <4>2, Zenon DEF EventsOK
        <4>4. EventsOK'
          BY CoroutineEvents, Zenon
        <4>5. e[2] <= Depth(Tc(e))'
          BY <2>1, <4>1, <4>2, <4>4, Zenon DEF EventsOK
        <4>6. calls'[Tc(e)][e[2]] = calls[Tc(e)][e[2]]
          <5>1. \A u \in Threads \ {t} : calls'[u] = calls[u]
            BY CoroutineFrame, Zenon
          <5> QED BY <2>1, <4>1, <4>3, <4>5, <5>1, <1>CallsKept, Zenon
        <4> QED BY <2>1, <2>4, <3>1, <4>6, Zenon DEF Place
      <3>2. CASE ~(~IsSignal(e) /\ e[2] # 0 /\ el[e] \in Queues)
        BY <2>1, <2>4, <3>2, Zenon DEF Place
      <3> QED BY <3>1, <3>2, Zenon
    <2>5. CASE el'[e] # el[e] /\ (tc_waitq_prepare_to_wait(w, t) \/ tc_thread_wait(w, t)) /\ e = Event(t)
               /\ el'[e] = Arg(t)
      <3>1. UNCHANGED calls
        BY <2>5, Zenon DEF tc_waitq_prepare_to_wait, tc_thread_wait, listVars
      <3>2. Depth(t) # 0
        BY <2>5, InCall, Zenon DEF tc_waitq_prepare_to_wait, tc_thread_wait
      <3> QED BY <2>2, <2>5, <3>1, <3>2, Zenon DEF Place
    <2>6. CASE IsSignal(e) /\ el'[e] = e[2]
      BY <2>0, <2>6, Zenon DEF Place, IsSignal
    <2>7. CASE el'[e] \in {NULL, IMMEDIATE}
      BY <2>0, <2>3, <2>7, Zenon
    <2>8. CASE IsSignal(e) /\ el'[e] = Pending(Tc(e))
      BY <2>0, <2>1, <2>3, <2>8, Zenon DEF IsSignal
    <2>9. ASSUME el'[e] # el[e]
          PROVE  \/ (tc_waitq_prepare_to_wait(w, t) \/ tc_thread_wait(w, t)) /\ e = Event(t)
                    /\ el'[e] = Arg(t)
                 \/ IsSignal(e) /\ el'[e] = e[2]
                 \/ el'[e] \in {NULL, IMMEDIATE}
                 \/ IsSignal(e) /\ el'[e] = Pending(Tc(e))
      <3>1. Moved(w, t, e)
        BY <2>9, ThreadMoves, Zenon
      <3>2. interrupted(w, t) /\ ctx[w] = t => IsSignal(woken_by_event[w]) /\ Tc(woken_by_event[w]) = t
        BY SchedAssumption, Zenon DEF interrupted, WokenOK, Woken
      <3>3. tc_waitq_finish_wait(w, t) => ctx[w] = t
        BY Zenon DEF tc_waitq_finish_wait
      <3>4. tc_signal_subscribe(w, t) => IsSignal(<<t, Arg(t)>>) /\ <<t, Arg(t)>>[2] = Arg(t)
        <4>1. ASSUME tc_signal_subscribe(w, t) PROVE Depth(t) # 0 /\ Op(t) = "subscribe"
          BY <4>1, InCall, Zenon DEF tc_signal_subscribe, CallsOK, CallOK
        <4> QED BY <4>1, CallFacts DEF IsSignal
      <3> QED BY <3>1, <3>2, <3>3, <3>4, Zenon DEF Moved
    <2> QED BY <2>4, <2>5, <2>6, <2>7, <2>8, <2>9, Zenon
  \* tc_thread_wait() waits for listed threads only; tc_die() unlists a thread, then wakes
  \* all that wait for it.
  <1>CoroutineLife. ASSUME IInv, LifeInv, NEW w \in Workers, NEW t \in Threads, coroutine(w, t) PROVE LifeInv'
    <2> USE <1>CoroutineLife
    <2> USE LInvFromIInv DEF IInv, At
    <2>0. /\ pc \in [Threads -> ThreadPCs] /\ threads \subseteq Threads
          /\ NULL \notin Queues /\ IMMEDIATE \notin Queues
          /\ \A u \in Threads : Pending(u) \notin Queues /\ u \notin Signals /\ u \notin Waitqs
      BY SchedAssumption, Zenon DEF TypeOK, Lists
    <2>1. /\ pc'[t] \in DiePCs <=> pc[t] \in DiePCs \/ tc_die(w, t)
          /\ pc'[t] \in DyingPCs => pc[t] \in DyingPCs \/ die_wakeup(w, t)
          /\ tc_die(w, t) => threads' = threads \ {t}
          /\ threads' = threads \/ tc_die(w, t) \/ tc_thread_insert(w, t)
      BY <1>LifeStep, Zenon
    <2>2. tc_thread_insert(w, t) => /\ Arg(t) \in Threads \ {t} /\ threads' = threads \cup {Arg(t)}
                                    /\ pc'[Arg(t)] = "start" /\ ~tc_die(w, t)
      BY <1>LifeStep, Zenon
    <2>3. \A u \in Threads \ {t} : pc'[u] = pc[u] \/ (tc_thread_insert(w, t) /\ u = Arg(t))
      BY <1>LifeStep, Zenon
    <2>4. ctx[w] = t /\ pc[t] \notin OffPCs /\ pc'[t] \notin {"none", "start"}
      BY CoroutineFrame, Zenon
    <2>5. Unstarted'
      <3> SUFFICES ASSUME NEW u \in Threads, pc'[u] \in {"none", "start"} PROVE event_stack'[u] = NULL
        BY Zenon DEF Unstarted
      <3>1. u # t
        BY <2>4, Zenon
      <3>2. event_stack'[u] = event_stack[u]
        BY <3>1, OthersPending, Zenon
      <3>3. pc[u] \in {"none", "start"}
        BY <2>3, <3>1, Zenon DEF tc_thread_insert
      <3> QED BY <3>2, <3>3, Zenon DEF LifeInv, Unstarted
    <2>6. ASSUME NEW u \in Threads PROVE u \in threads' <=> pc'[u] \notin DiePCs \cup {"none"}
      <3>0. u \in threads <=> pc[u] \notin DiePCs \cup {"none"}
        BY Zenon DEF LifeInv, Life
      <3>1. CASE u = t
        <4>1. pc[t] # "none"
          BY <2>4, Zenon DEF OffPCs
        <4>2. tc_thread_insert(w, t) => (t \in threads' <=> t \in threads)
          BY <2>2, Zenon
        <4>3. ~tc_die(w, t) => (t \in threads' <=> t \in threads)
          BY <2>1, <4>2, Zenon
        <4> QED BY <2>1, <2>4, <3>0, <3>1, <4>1, <4>3, Zenon
      <3>2. CASE u # t /\ tc_thread_insert(w, t) /\ u = Arg(t)
        BY <2>2, <3>2, Zenon DEF DiePCs
      <3>3. CASE u # t /\ ~(tc_thread_insert(w, t) /\ u = Arg(t))
        <4>1. u \in threads' <=> u \in threads
          BY <2>1, <2>2, <3>3, Zenon
        <4>2. pc'[u] = pc[u]
          BY <2>3, <3>3, Zenon
        <4> QED BY <3>0, <4>1, <4>2, Zenon
      <3> QED BY <3>1, <3>2, <3>3, Zenon
    <2>7. ASSUME NEW u \in Threads, NEW e \in Events, pc'[u] \in DyingPCs PROVE el'[e] # u
      <3>1. CASE el[e] = u
        <4>1. pc[u] \notin DyingPCs
          BY <3>1, Zenon DEF LifeInv, Life
        <4>2. u = t
          <5>1. CASE pc'[u] = "start"
            BY <2>7, <5>1, Zenon DEF DyingPCs, DiePCs
          <5>2. CASE pc'[u] # "start" /\ u # t
            <6>1. pc'[u] = pc[u]
              BY <2>2, <2>3, <5>2, Zenon
            <6> QED BY <2>7, <4>1, <6>1, Zenon
          <5> QED BY <5>1, <5>2, Zenon
        <4>3. die_wakeup(w, t)
          BY <2>1, <2>7, <4>1, <4>2, Zenon
        <4>4. t \in Lists /\ Contains(list[t], e)
          BY <3>1, <4>2, Zenon DEF ListsConsistent, Lists, Queues
        <4>5. list[t] \in Seq(Events)
          BY <4>4, LInvTypes, Zenon
        <4>6. e \in {list[t][i] : i \in 1..Len(list[t])}
          BY <4>4, <4>5 DEF Contains
        <4>7. el'[e] = IMMEDIATE
          BY <4>3, <4>6, Zenon DEF die_wakeup, to_immediate
        <4> QED BY <2>0, <4>7, Zenon DEF Queues
      <3>2. CASE el[e] # u
        <4> SUFFICES ASSUME el'[e] = u PROVE FALSE
          BY Zenon
        <4>1. Moved(w, t, e)
          BY <3>2, ThreadMoves, Zenon
        <4>2. u \in Queues
          BY Zenon DEF Queues
        <4>3. tc_signal_subscribe(w, t) => Arg(t) \in Signals
          <5>1. ASSUME tc_signal_subscribe(w, t) PROVE Depth(t) # 0 /\ Op(t) = "subscribe"
            BY <5>1, InCall, Zenon DEF tc_signal_subscribe, CallsOK, CallOK
          <5> QED BY <5>1, CallFacts, Zenon
        <4>4. tc_waitq_prepare_to_wait(w, t) => Arg(t) \in Waitqs
          <5>1. ASSUME tc_waitq_prepare_to_wait(w, t) PROVE Depth(t) # 0 /\ Op(t) \in {"wait_event", "wait"}
            BY <5>1, InCall, Zenon DEF tc_waitq_prepare_to_wait, CallsOK, CallOK
          <5> QED BY <5>1, CallFacts, Zenon
        <4>5. tc_thread_wait(w, t) /\ Arg(t) \in threads /\ el'[e] = Arg(t)
          BY <2>0, <4>1, <4>2, <4>3, <4>4, Zenon DEF Moved, IsSignal
        <4>6. pc[u] \notin DiePCs /\ pc[t] = "join"
          BY <4>5, Zenon DEF LifeInv, Life, tc_thread_wait
        <4>7. pc'[t] \notin DyingPCs
          BY <2>1, <4>6, Zenon DEF DyingPCs, DiePCs, die_wakeup
        <4>8. ~tc_thread_insert(w, t) /\ u # t
          BY <2>7, <4>6, <4>7, Zenon DEF tc_thread_insert
        <4> QED BY <2>3, <2>7, <4>6, <4>8, Zenon DEF DyingPCs
      <3> QED BY <3>1, <3>2, Zenon
    <2>8. ASSUME NEW u \in Threads, Depth(u)' # 0, Op(u)' = "join" PROVE pc'[Arg(u)'] # "none"
      <3>0. \A v \in Threads : pc'[v] = "none" => pc[v] = "none"
        BY <2>2, <2>3, <2>4, Zenon
      <3>1. ASSUME calls'[u] = calls[u] PROVE pc'[Arg(u)'] # "none"
        <4>1. Depth(u) # 0 /\ Op(u) = "join" /\ Arg(u)' = Arg(u)
          BY <2>8, <3>1, Zenon DEF Depth, Op, Arg
        <4>2. Arg(u) \in Threads
          BY <4>1, CallFacts, Zenon
        <4> QED BY <3>0, <4>1, <4>2, Zenon DEF LifeInv, Life
      <3>2. CASE u # t
        <4>1. \A v \in Threads \ {t} : calls'[v] = calls[v]
          BY CoroutineFrame, Zenon
        <4> QED BY <3>1, <3>2, <4>1, Zenon
      <3>3. CASE u = t /\ call(w, t)
        <4>0. Calls[t][made[t] + 1] \subseteq Call
          BY <3>3, NextCalls, Zenon
        <4>1. PICK c \in Calls[t][made[t] + 1] :
                 /\ c[1] = "join" => pc[c[2]] # "none" /\ c[2] # t
                 /\ calls' = [calls EXCEPT ![t] = Append(@, c)]
          BY <3>3, Zenon DEF call
        <4>2. calls[t] \in Seq(Call) /\ calls'[t] = Append(calls[t], c) /\ c \in Call
          BY <4>0, <4>1, Zenon DEF TypeOK
        <4>3. Op(t)' = c[1] /\ Arg(t)' = c[2]
          BY <4>2 DEF Op, Arg, Depth
        <4>4. c[2] \in Threads /\ pc[c[2]] # "none"
          BY <2>8, <3>3, <4>1, <4>2, <4>3, CallShape, Zenon
        <4> QED BY <3>0, <3>3, <4>3, <4>4, Zenon
      <3>4. CASE u = t /\ Return(t) /\ Depth(t) # 0
        <4>1. CallsOK' /\ Depth(t)' = Depth(t) - 1
              /\ \A i \in 1..(Depth(t) - 1) : calls'[t][i] = calls[t][i]
          BY <3>4, ReturnCalls, ReturnFacts, Zenon
        <4>2. Depth(t) - 1 \in 1..(Depth(t) - 1)
          <5>1. Depth(t) \in Nat /\ Depth(t)' # 0
            BY <2>8, <3>4 DEF TypeOK, Depth
          <5> QED BY <3>4, <4>1, <5>1
        <4>3. Op(t)' = calls[t][Depth(t) - 1][1]
          BY <4>1, <4>2, Zenon DEF Op
        <4>4. calls[t][Depth(t) - 1][1] = "wait_event"
          BY <4>2, Zenon DEF CallsOK, CallOK
        <4> QED BY <2>8, <3>4, <4>3, <4>4, Zenon
      <3> QED BY <3>1, <3>2, <3>3, <3>4, <1>CallsStep, Zenon
    <2>9. Life'
      BY <2>6, <2>7, <2>8, Zenon DEF Life
    <2> QED BY <2>5, <2>9, <1>CoroutinePlaces, Zenon DEF LifeInv
  \* scheduler_part2() takes the embedded event to start or to free its thread.
  <1>WorkerPosted. ASSUME IInv, Places, Posted, NEW w \in Workers, worker(w) PROVE Posted'
    <2> USE <1>WorkerPosted
    <2> USE DEF IInv
    <2>0. /\ pc \in [Threads -> ThreadPCs] /\ \A t \in Threads : <<t, 0>> \in Events /\ Tc(<<t, 0>>) = t
          /\ NULL # IMMEDIATE /\ \A t \in Threads : Pending(t) # NULL /\ ~IsSignal(<<t, 0>>)
      <3>1. 0 \in 0..MaxDepth
        BY SchedAssumption
      <3> QED BY <3>1, SchedAssumption DEF TypeOK, Events, Tc, Lists, IsSignal
    <2>1. UNCHANGED calls
      BY WorkerFrame, Zenon DEF client
    <2> SUFFICES ASSUME NEW t \in Threads
                 PROVE  /\ pc'[t] = "start" =>
                              \/ el'[<<t, 0>>] # NULL
                              \/ \E u \in Threads : pc'[u] = "new_post" /\ Arg(u)' = t
                              \/ \E v \in Workers : Serving(v, t)'
                        /\ pc'[t] \in {"die_iwi", "die_switch", "dead"} =>
                              el'[<<t, 0>>] # NULL \/ \E v \in Workers : Freeing(v, t)'
      BY Zenon DEF Posted
    <2>2. \A u \in Threads : \/ pc'[u] = pc[u]
                             \/ pc[u] = "start" /\ pc'[u] = "user"
                             \/ pc[u] = "parked" /\ pc'[u] \in {"yield_done", "finish"}
                             \/ pc[u] = "dead" /\ pc'[u] = "freed"
      BY WorkerFrame, Zenon DEF resume_pc
    <2>3. ASSUME el[<<t, 0>>] # NULL, el'[<<t, 0>>] = NULL
          PROVE  \/ search_run(w) /\ Serving(w, t)' /\ ~IsExiting(<<t, 0>>)
                 \/ Freeing(w, t)' /\ IsExiting(<<t, 0>>)
      BY <2>0, <2>3, WorkerMoves, Zenon DEF Serving, Freeing
    <2>4. ASSUME pc'[t] = "start" PROVE \/ el'[<<t, 0>>] # NULL
                                        \/ \E u \in Threads : pc'[u] = "new_post" /\ Arg(u)' = t
                                        \/ \E v \in Workers : Serving(v, t)'
      <3>1. pc[t] = "start"
        BY <2>2, <2>4, Zenon
      <3>2. CASE el[<<t, 0>>] # NULL
        <4>1. ~IsExiting(<<t, 0>>)
          BY <2>0, <3>1, Zenon DEF IsExiting
        <4> QED BY <2>3, <3>2, <4>1, Zenon
      <3>3. CASE \E u \in Threads : pc[u] = "new_post" /\ Arg(u) = t
        BY <2>1, <2>2, <3>3, Zenon DEF Arg, Depth
      <3>4. ASSUME NEW v \in Workers, Serving(v, t) PROVE Serving(v, t)'
        <4>1. ~(v = w /\ switch_in(w))
          <5>1. ASSUME v = w, switch_in(w) PROVE FALSE
            <6>1. pc'[target[w]] # "start"
              BY <2>0, <3>1, <3>4, <5>1, Zenon DEF Serving, switch_in, Goto, resume_pc
            <6> QED BY <2>4, <3>4, <5>1, <6>1, Zenon DEF Serving
          <5> QED BY <5>1, Zenon
        <4> QED BY <3>4, <4>1, ServingKept, Zenon
      <3> QED BY <3>1, <3>2, <3>3, <3>4, Zenon DEF Posted
    <2>5. ASSUME pc'[t] \in {"die_iwi", "die_switch", "dead"}
          PROVE  el'[<<t, 0>>] # NULL \/ \E v \in Workers : Freeing(v, t)'
      <3>1. pc[t] \in {"die_iwi", "die_switch", "dead"}
        BY <2>2, <2>5, Zenon
      <3>2. CASE el[<<t, 0>>] # NULL
        <4>1. IsExiting(<<t, 0>>)
          BY <2>0, <3>1 DEF IsExiting
        <4> QED BY <2>3, <3>2, <4>1, Zenon
      <3>3. ASSUME NEW v \in Workers, Freeing(v, t) PROVE Freeing(v, t)'
        <4>1. ASSUME v = w, tc_thread_free(w) PROVE FALSE
          <5>1. pc'[t] = "freed"
            BY <2>0, <3>3, <4>1, Zenon DEF Freeing, tc_thread_free, Goto
          <5> QED BY <2>5, <5>1, Zenon
        <4> QED BY <3>3, <4>1, ServingKept, Zenon
      <3> QED BY <3>1, <3>2, <3>3, Zenon DEF Posted
    <2> QED BY <2>4, <2>5, Zenon
  \* tc_thread_new() and tc_die() post the embedded event; no call takes it back.
  <1>CoroutinePosted. ASSUME IInv, Places, Posted, NEW w \in Workers, NEW t \in Threads, coroutine(w, t) PROVE Posted'
    <2> USE <1>CoroutinePosted
    <2> USE LInvFromIInv DEF IInv, At
    <2>0. /\ pc \in [Threads -> ThreadPCs] /\ el \in [Events -> Lists \cup {NULL}]
          /\ \A u \in Threads : <<u, 0>> \in Events /\ <<u, 0>>[2] = 0
          /\ NULL # IMMEDIATE /\ 0 \notin Signals
          /\ \A u \in Threads : Pending(u) \notin {NULL, IMMEDIATE}
      <3>1. 0 \in 0..MaxDepth
        BY SchedAssumption
      <3> QED BY <3>1, SchedAssumption, Zenon DEF TypeOK, Events, Lists
    <2>1. ASSUME NEW u \in Threads, el[<<u, 0>>] # NULL PROVE el'[<<u, 0>>] # NULL
      <3> SUFFICES ASSUME el'[<<u, 0>>] = NULL PROVE FALSE
        BY Zenon
      <3>1. Moved(w, t, <<u, 0>>)
        BY <2>0, <2>1, ThreadMoves, Zenon
      <3>2. el[<<u, 0>>] = IMMEDIATE
        BY <2>0, <2>1, Zenon DEF Places, Place
      <3>3. <<u, 0>> \notin pending_event(t)
        BY <2>0, <3>2, PendingEvent, Zenon
      <3>4. Depth(t) # 0 => Event(t) # <<u, 0>>
        BY DEF Event
      <3>5. tc_waitq_finish_wait(w, t) \/ yield_done(w, t) => Depth(t) # 0
        BY InCall, Zenon DEF tc_waitq_finish_wait, yield_done
      <3>6. tc_signal_unsubscribe(w, t) => <<t, Arg(t)>> # <<u, 0>>
        <4>1. ASSUME tc_signal_unsubscribe(w, t) PROVE Depth(t) # 0 /\ Op(t) = "unsubscribe"
          BY <4>1, InCall, Zenon DEF tc_signal_unsubscribe, CallsOK, CallOK
        <4>2. tc_signal_unsubscribe(w, t) => Arg(t) \in Signals
          BY <4>1, CallFacts, Zenon
        <4> QED BY <2>0, <4>2
      <3>7. tc_waitq_prepare_to_wait(w, t) \/ (tc_thread_wait(w, t) /\ Arg(t) \in threads) =>
               <<u, 0>> # Event(t)
        BY <3>4, InCall, Zenon DEF tc_waitq_prepare_to_wait, tc_thread_wait
      <3>8. tc_signal_subscribe(w, t) => <<t, Arg(t)>> # <<u, 0>>
        <4>1. ASSUME tc_signal_subscribe(w, t) PROVE Depth(t) # 0 /\ Op(t) = "subscribe"
          BY <4>1, InCall, Zenon DEF tc_signal_subscribe, CallsOK, CallOK
        <4>2. tc_signal_subscribe(w, t) => Arg(t) \in Signals
          BY <4>1, CallFacts, Zenon
        <4> QED BY <2>0, <4>2
      <3> QED BY <2>0, <3>1, <3>3, <3>4, <3>5, <3>6, <3>7, <3>8, Zenon DEF Moved
    <2>2. ASSUME NEW v \in Workers, NEW u \in Threads
          PROVE  (Serving(v, u) => Serving(v, u)') /\ (Freeing(v, u) => Freeing(v, u)')
      <3>1. /\ target'[v] = target[v] /\ (v # w => wpc'[v] = wpc[v]) /\ wpc[w] = "coroutine"
        BY ThreadFrame, ZenonT(30)
      <3> QED BY <3>1, Zenon DEF Serving, Freeing
    <2>3. /\ \A u \in Threads \ {t} : pc'[u] = pc[u] \/ (tc_thread_insert(w, t) /\ u = Arg(t))
          /\ tc_thread_insert(w, t) => Arg(t) \in Threads
      BY <1>LifeStep, Zenon
    <2>4. /\ \A u \in Threads \ {t} : calls'[u] = calls[u]
          /\ pc[t] \notin OffPCs /\ pc'[t] \notin {"none", "start"}
      BY CoroutineFrame, Zenon
    <2>5. Flow(w, t)
      BY ControlFlow, Zenon
    <2> SUFFICES ASSUME NEW u \in Threads
                 PROVE  /\ pc'[u] = "start" =>
                              \/ el'[<<u, 0>>] # NULL
                              \/ \E x \in Threads : pc'[x] = "new_post" /\ Arg(x)' = u
                              \/ \E v \in Workers : Serving(v, u)'
                        /\ pc'[u] \in {"die_iwi", "die_switch", "dead"} =>
                              el'[<<u, 0>>] # NULL \/ \E v \in Workers : Freeing(v, u)'
      BY Zenon DEF Posted
    <2>6. ASSUME pc'[u] = "start" PROVE \/ el'[<<u, 0>>] # NULL
                                        \/ \E x \in Threads : pc'[x] = "new_post" /\ Arg(x)' = u
                                        \/ \E v \in Workers : Serving(v, u)'
      <3>1. CASE tc_thread_insert(w, t) /\ u = Arg(t)
        <4>1. pc'[t] = "new_post" /\ UNCHANGED calls
          BY <2>5, <3>1, Zenon DEF Flow, tc_thread_insert
        <4> QED BY <3>1, <4>1, Zenon DEF Arg, Depth
      <3>2. CASE ~(tc_thread_insert(w, t) /\ u = Arg(t))
        <4>1. pc[u] = "start"
          BY <2>3, <2>4, <2>6, <3>2, Zenon
        <4>2. ASSUME NEW x \in Threads, pc[x] = "new_post", Arg(x) = u
              PROVE  el'[<<u, 0>>] # NULL \/ (pc'[x] = "new_post" /\ Arg(x)' = u)
          <5>1. CASE x = t
            <6>1. tc_thread_new(w, t)
              BY <2>5, <4>2, <5>1, Zenon DEF Flow
            <6> QED BY <2>0, <4>2, <5>1, <6>1, Zenon DEF tc_thread_new, add_event_cr
          <5>2. CASE x # t
            BY <2>3, <2>4, <4>2, <5>2, Zenon DEF Arg, Depth, tc_thread_insert
          <5> QED BY <5>1, <5>2, Zenon
        <4> QED BY <2>1, <2>2, <4>1, <4>2, Zenon DEF Posted
      <3> QED BY <3>1, <3>2, Zenon
    <2>7. ASSUME pc'[u] \in {"die_iwi", "die_switch", "dead"}
          PROVE  el'[<<u, 0>>] # NULL \/ \E v \in Workers : Freeing(v, u)'
      <3>1. CASE u = t /\ die_post(w, t)
        BY <2>0, <3>1, Zenon DEF die_post, add_event_cr
      <3>2. CASE ~(u = t /\ die_post(w, t))
        <4>1. pc[u] \in {"die_iwi", "die_switch", "dead"}
          <5>1. CASE u = t
            BY <2>5, <2>7, <3>2, <5>1, Zenon DEF Flow
          <5>2. CASE u # t /\ tc_thread_insert(w, t) /\ u = Arg(t)
            <6>1. pc'[u] = "start"
              BY <5>2, <1>LifeStep, Zenon
            <6> QED BY <2>7, <6>1, Zenon
          <5> QED BY <2>3, <2>7, <5>1, <5>2, Zenon
        <4> QED BY <2>1, <2>2, <4>1, Zenon DEF Posted
      <3> QED BY <3>1, <3>2, Zenon
    <2> QED BY <2>6, <2>7, Zenon
  <1> SUFFICES ASSUME IInv, LifeAll, [Next]_vars PROVE LifeAll'
    BY Zenon
  <1>1. ASSUME NEW w \in Workers, worker(w) PROVE LifeAll'
    BY <1>1, <1>WorkerLife, <1>WorkerPosted, Zenon DEF LifeAll, LifeInv
  <1>2. ASSUME NEW w \in Workers, NEW t \in Threads, coroutine(w, t) PROVE LifeAll'
    BY <1>2, <1>CoroutineLife, <1>CoroutinePosted, Zenon DEF LifeAll, LifeInv
  <1>3. CASE UNCHANGED vars
    <2>1. UNCHANGED <<el, calls, pc, event_stack, threads, target, wpc>>
      BY <1>3, Zenon DEF vars, parked, client, listVars, stkVars
    <2>2. LifeInv'
      BY <2>1, Zenon DEF LifeAll, LifeInv, Places, Place, IsSignal, Tc, Unstarted, Life, Depth, Op, Arg
    <2>3. Posted'
      BY <2>1, Zenon DEF LifeAll, Posted, Serving, Freeing, Arg, Depth
    <2> QED BY <2>2, <2>3, Zenon DEF LifeAll
  <1> QED BY <1>1, <1>2, <1>3, Zenon DEF Next

-----------------------------------------------------------------------------
(* Programs whose wait conditions do not sleep. *)

\* A thread that waits has its call's event on top of its event stack.
WaitPCs == {"cond", "scheduler", "switch", "parked", "finish", "finish_true", "yield_done"}

Top == \A t \in Threads : pc[t] \in WaitPCs => event_stack[t] = Event(t)

\* A thread goes on because of its call's event or of a signal.
WokenFor(w, t) ==
    woken_by_event[w] # NULL /\ (IsSignal(woken_by_event[w]) \/ woken_by_event[w] = Event(t))

Wakes ==
    \A w \in Workers, t \in Threads :
        /\ ctx[w] = t /\ pc[t] \in {"cond", "finish_true"} => woken_by_event[w] = NULL
        /\ ctx[w] = t /\ pc[t] \in {"finish", "yield_done"} => WokenFor(w, t)
        /\ Serving(w, t) => IF pc[t] = "start" THEN woken_by_event[w] = <<t, 0>> ELSE WokenFor(w, t)

\* A step of t takes nobody else's event off a list; it wakes, or it posts a new thread.
LEMMA OthersMoved ==
    ASSUME IInv, NEW w \in Workers, NEW t \in Threads, coroutine(w, t),
           NEW e \in Events, Tc(e) # t, el'[e] # el[e]
    PROVE  /\ el'[e] = IMMEDIATE
           /\ \/ tc_waitq_wakeup(w, t) /\ el[e] = Arg(t)
              \/ die_wakeup(w, t) /\ el[e] = t
              \/ tc_thread_new(w, t) /\ e = <<Arg(t), 0>>
  <1> USE LInvFromIInv DEF IInv, At
  <1>1. Moved(w, t, e)
    BY ThreadMoves, Zenon
  <1>2. Tc(Event(t)) = t /\ Tc(<<t, Arg(t)>>) = t /\ Tc(<<t, 0>>) = t
    BY DEF Tc, Event
  <1>3. e \notin pending_event(t)
    <2>1. e \in pending_event(t) => el[e] = Pending(t)
      BY PendingEvent, Zenon
    <2> QED BY <2>1, Zenon DEF EventsOK
  <1>4. tc_waitq_finish_wait(w, t) /\ interrupted(w, t) => e # woken_by_event[w]
    <2>1. ASSUME ctx[w] = t, woken_by_event[w] # NULL PROVE Tc(woken_by_event[w]) = t
      BY <2>1, SchedAssumption, Zenon DEF WokenOK, Woken
    <2> QED BY <2>1, Zenon DEF tc_waitq_finish_wait, interrupted
  <1> QED BY <1>1, <1>2, <1>3, <1>4, Zenon DEF Moved

\* The event a thread waits for is on a list, or has got its thread going.
AwaitPCs == {"yield_stack", "cond", "scheduler", "switch", "parked"}

Awaited ==
    \A t \in Threads :
        /\ pc[t] \in AwaitPCs => \/ el[Event(t)] # NULL
                                 \/ \E w \in Workers : Serving(w, t) /\ woken_by_event[w] = Event(t)
        /\ pc[t] = "yield_done" => \/ el[Event(t)] # NULL
                                   \/ \E w \in Workers : ctx[w] = t /\ woken_by_event[w] = Event(t)

\* With one call in progress: what a waiting thread waits for, and which signals are due.
SingleInv == Top /\ Wakes /\ Awaited /\ SignalsExact

\* tc_run() queues the main thread; nothing waits and no signal is due.
LEMMA InitSingle == Init => Posted /\ Top /\ Wakes /\ Awaited /\ SignalsExact
  <1> SUFFICES ASSUME Init PROVE Posted /\ Top /\ Wakes /\ Awaited /\ SignalsExact
    BY Zenon
  <1>0. /\ NULL \notin Threads /\ NULL # IMMEDIATE /\ 0 \notin Signals /\ Main \in Threads
        /\ <<Main, 0>> \in Events /\ \A t \in Threads : NULL # Pending(t)
    <2>1. 0 \in 0..MaxDepth
      BY SchedAssumption
    <2> QED BY <2>1, SchedAssumption, Zenon DEF Lists, Events
  <1>1. /\ el = [e \in Events |-> IF e = <<Main, 0>> THEN IMMEDIATE ELSE NULL]
        /\ pc = [t \in Threads |-> IF t = Main THEN "start" ELSE "none"]
        /\ ctx = [w \in Workers |-> NULL] /\ target = [w \in Workers |-> NULL] /\ due = {}
    BY Zenon DEF Init
  <1>2. \A t \in Threads : pc[t] \in {"start", "none"} /\ (pc[t] = "start" => t = Main)
    BY <1>1, Zenon
  <1>3. \A w \in Workers, t \in Threads : ctx[w] # t /\ ~Serving(w, t)
    BY <1>0, <1>1, Zenon DEF Serving
  <1>4. Posted
    <2>1. el[<<Main, 0>>] # NULL
      BY <1>0, <1>1, Zenon
    <2> QED BY <1>2, <2>1, Zenon DEF Posted
  <1>5. Top /\ Awaited
    BY <1>2, Zenon DEF Top, Awaited, WaitPCs, AwaitPCs
  <1>6. Wakes
    BY <1>3, Zenon DEF Wakes
  <1>7. SignalsExact
    <2>1. ASSUME NEW t \in Threads, NEW s \in Signals PROVE el[<<t, s>>] = NULL
      <3>1. <<t, s>> \in Events /\ <<t, s>> # <<Main, 0>>
        BY <1>0, Zenon DEF Events
      <3> QED BY <1>1, <3>1, Zenon
    <2>2. ASSUME NEW t \in Threads, NEW s \in Signals, NEW w \in Workers PROVE ~Interrupting(w, t, s)
      BY <1>3, Zenon DEF Interrupting, Serving
    <2> QED BY <1>0, <1>1, <2>1, <2>2, Zenon DEF SignalsExact
  <1> QED BY <1>4, <1>5, <1>6, <1>7, Zenon

LEMMA StepSingle == ASSUME MaxDepth = 1 PROVE IInv /\ SingleInv /\ [Next]_vars => SingleInv'
  \* With one call in progress at most, tc_waitq_prepare_to_wait() is the way to a wait
  \* condition, and the condition makes no calls.
  <1>SingleFlow. ASSUME MaxDepth = 1, IInv, NEW w \in Workers, NEW t \in Threads, coroutine(w, t)
                 PROVE  /\ pc'[t] = "cond" => tc_waitq_prepare_to_wait(w, t)
                        /\ pc[t] = "cond" => cond(w, t)
                        /\ Return(t) => pc'[t] = "user"
    <2> USE <1>SingleFlow
    <2> USE DEF IInv, At
    <2>0. pc \in [Threads -> ThreadPCs] /\ Flow(w, t) /\ pc[t] \notin OffPCs
      BY ControlFlow, CoroutineFrame, Zenon DEF TypeOK
    <2>1. Depth(t) = 0 \/ Depth(t) = 1
      BY CallFacts, 1..1 = {1}
    <2>2. ASSUME Return(t) PROVE pc'[t] = "user"
      <3>1. Depth(t) # 0 => pc'[t] = "user"
        BY <2>1, <2>2, ReturnFacts, Zenon
      <3>2. CASE Depth(t) = 0
        <4>1. pc[t] \in NoCallPCs
          BY <3>2, Zenon DEF CallsOK, CallOK
        <4>2. call(w, t) \/ switch_out(w, t) \/ iwi_immediate(w, t) \/ tc_die(w, t) \/ die_wakeup(w, t)
              \/ die_post(w, t)
          BY <2>0, <4>1, Zenon DEF Flow, NoCallPCs, DiePCs, OffPCs
        <4>3. pc'[t] # "cond"
          <5>1. pc[t] # "iwi"
            BY <4>1, Zenon DEF NoCallPCs, DiePCs
          <5> QED BY <2>0, <4>1, <5>1, Zenon DEF Flow, NoCallPCs, DiePCs, OffPCs
        <4> QED BY <2>0, <2>2, <4>3, Zenon DEF Return, Goto
      <3> QED BY <3>1, <3>2, Zenon
    <2>3. ASSUME pc[t] = "cond" PROVE cond(w, t)
      <3>1. Depth(t) # 0
        BY <2>3, InCall, Zenon
      <3>2. ~call(w, t)
        <4>1. ~(Depth(t) < 1)
          BY <2>1, <3>1
        <4> QED BY <2>3, <4>1, Zenon DEF call
      <3> QED BY <2>0, <2>3, <3>2, Zenon DEF Flow
    <2>4. ASSUME pc'[t] = "cond" PROVE tc_waitq_prepare_to_wait(w, t)
      <3>0. ~Return(t) /\ \A l : Goto(t, l) => l = "cond"
        BY <2>0, <2>2, <2>4, Zenon DEF Goto
      <3>1. ~test(w, t) /\ ~iwi_immediate(w, t) /\ ~tc_waitq_finish_wait(w, t)
        BY <3>0, Zenon DEF test, iwi_immediate, tc_waitq_finish_wait
      <3>2. ~yield_done(w, t) /\ ~tc_waitq_wakeup(w, t) /\ ~tc_signal_subscribe(w, t)
            /\ ~tc_signal_unsubscribe(w, t) /\ ~tc_thread_wait(w, t)
        BY <3>0, Zenon DEF yield_done, tc_waitq_wakeup, tc_signal_subscribe, tc_signal_unsubscribe,
           tc_thread_wait
      <3> QED BY <2>0, <2>4, <3>1, <3>2, Zenon DEF Flow
    <2> QED BY <2>2, <2>3, <2>4, Zenon
  \* Where a step of t leads to a wait, and what it does to the event stack.
  <1>TopSteps. ASSUME MaxDepth = 1, IInv, NEW w \in Workers, NEW t \in Threads, coroutine(w, t), pc'[t] \in WaitPCs
               PROVE  /\ UNCHANGED calls
                      /\ \/ event_stack'[t] = Event(t)
                         \/ pc[t] \in WaitPCs /\ UNCHANGED event_stack
    <2> USE <1>TopSteps
    <2> USE DEF IInv, At
    <2>0. pc \in [Threads -> ThreadPCs] /\ event_stack \in [Threads -> Events \cup {NULL}] /\ Flow(w, t)
      BY ControlFlow, Zenon DEF TypeOK
    <2>1. CASE pc'[t] = "cond"
      <3>1. tc_waitq_prepare_to_wait(w, t)
        BY <2>1, <1>SingleFlow, Zenon
      <3> QED BY <2>0, <3>1, Zenon DEF tc_waitq_prepare_to_wait, prepare_to_wait, event_on_tc_stack, Event, Tc
    <2>2. CASE pc'[t] # "cond"
      <3>1. \/ tc_waitq_prepare_to_wait(w, t) \/ yield_stack(w, t) \/ (tc_thread_wait(w, t) /\ pc'[t] = "scheduler")
            \/ (cond(w, t) /\ pc[t] = "cond") \/ (tc_scheduler(w, t) /\ pc[t] = "scheduler")
            \/ (switch_out(w, t) /\ pc[t] = "switch")
        BY <2>0, <2>2, Zenon DEF Flow, WaitPCs
      <3>2. CASE tc_waitq_prepare_to_wait(w, t)
        BY <2>0, <3>2, Zenon DEF tc_waitq_prepare_to_wait, prepare_to_wait, event_on_tc_stack, Event, Tc
      <3>3. CASE yield_stack(w, t)
        BY <2>0, <3>3, Zenon DEF yield_stack, event_on_tc_stack, Event, Tc
      <3>4. CASE tc_thread_wait(w, t) /\ pc'[t] = "scheduler"
        <4>1. ~Return(t)
          BY <2>0, <3>4, Zenon DEF Return, Goto
        <4> QED BY <2>0, <3>4, <4>1, Zenon DEF tc_thread_wait, prepare_to_wait, event_on_tc_stack, Event, Tc
      <3>5. CASE cond(w, t) /\ pc[t] = "cond"
        BY <3>5, Zenon DEF cond, stkVars, WaitPCs
      <3>6. CASE (tc_scheduler(w, t) /\ pc[t] = "scheduler") \/ (switch_out(w, t) /\ pc[t] = "switch")
        BY <3>6, Zenon DEF tc_scheduler, switch_out, client, stkVars, WaitPCs
      <3> QED BY <3>1, <3>2, <3>3, <3>4, <3>5, <3>6, Zenon
    <2> QED BY <2>1, <2>2, Zenon
  \* A wait ends before the thread waits again.
  <1>CoroutineTop. ASSUME MaxDepth = 1, IInv, Top, NEW w \in Workers, NEW t \in Threads, coroutine(w, t) PROVE Top'
    <2> USE <1>CoroutineTop
    <2> SUFFICES ASSUME NEW u \in Threads, pc'[u] \in WaitPCs PROVE event_stack'[u] = Event(u)'
      BY Zenon DEF Top
    <2>1. CASE u = t
      <3>1. Event(t)' = Event(t)
        BY <2>1, <1>TopSteps, Zenon DEF Event, Depth
      <3> QED BY <2>1, <3>1, <1>TopSteps, Zenon DEF Top
    <2>2. CASE u # t
      <3>0. \A x \in Threads \ {t} : /\ calls'[x] = calls[x]
                                     /\ pc'[x] = pc[x] \/ (pc[x] = "none" /\ pc'[x] = "start")
        BY CoroutineFrame, Zenon
      <3>1. calls'[u] = calls[u] /\ (pc'[u] = pc[u] \/ pc'[u] = "start")
        BY <2>2, <3>0, Zenon
      <3>2. event_stack'[u] = event_stack[u]
        BY <2>2, OthersPending, Zenon
      <3>3. pc[u] \in WaitPCs
        BY <3>1, Zenon DEF WaitPCs
      <3> QED BY <3>1, <3>2, <3>3, Zenon DEF Top, Event, Depth
    <2> QED BY <2>1, <2>2, Zenon
  \* scheduler_part2() leaves event stacks alone.
  <1>WorkerTop. ASSUME IInv, Top, NEW w \in Workers, worker(w) PROVE Top'
    <2> USE <1>WorkerTop
    <2> SUFFICES ASSUME NEW u \in Threads, pc'[u] \in WaitPCs PROVE event_stack'[u] = Event(u)'
      BY Zenon DEF Top
    <2>1. UNCHANGED <<event_stack, calls>>
      BY WorkerFrame, Zenon DEF client, stkVars
    <2>2. pc'[u] = pc[u] \/ pc[u] = "parked" \/ pc'[u] \in {"user", "freed"}
      BY WorkerFrame, Zenon
    <2>3. pc[u] \in WaitPCs
      BY <2>2, Zenon DEF WaitPCs
    <2> QED BY <2>1, <2>3, Zenon DEF Top, Event, Depth
  \* Only the worker that finds an event or enters a stack changes what it serves.
  <1>WorkerStill. ASSUME IInv, NEW w \in Workers, worker(w), NEW v \in Workers, NEW t \in Threads,
                         ~(v = w /\ (search_run(w) \/ switch_in(w)))
                  PROVE  /\ woken_by_event'[v] = woken_by_event[v] /\ ctx'[v] = ctx[v]
                         /\ Serving(v, t)' <=> Serving(v, t)
                         /\ ctx[v] = t => pc'[t] = pc[t]
    <2> USE <1>WorkerStill
    <2> USE DEF IInv
    <2>1. woken_by_event'[v] = woken_by_event[v] /\ (Serving(v, t) => Serving(v, t)')
      BY ServingKept, Zenon
    <2>2. ctx'[v] = ctx[v]
      <3>1. v # w => ctx'[v] = ctx[v]
        BY WorkerFrame, Zenon
      <3>2. v = w => ctx'[v] = ctx[v]
        BY Zenon DEF worker, run_immediate, search_none, search_queue, search_exiting, switch_to,
           tc_thread_free, epoll_immediate, epoll_timeout, rearm_read, arm_immediate, parked
      <3> QED BY <3>1, <3>2, Zenon
    <2>3. Serving(v, t)' => Serving(v, t)
      <3>1. v # w => wpc'[v] = wpc[v] /\ target'[v] = target[v]
        BY WorkerFrame, Zenon
      <3>2. ASSUME v = w, Serving(w, t)' PROVE Serving(w, t)
        <4>1. wpc'[w] \in {"switch_to", "spin"} /\ target'[w] = t
          BY <3>2, Zenon DEF Serving
        <4>2. wpc \in [Workers -> WorkerPCs]
          BY Zenon DEF TypeOK
        <4>3. switch_to(w)
          <5>1. ~run_immediate(w) /\ ~search_none(w) /\ ~tc_thread_free(w) /\ ~search_exiting(w)
            BY <4>1, <4>2, Zenon DEF run_immediate, search_none, pass_done, tc_thread_free, search_exiting
          <5>2. ~epoll_immediate(w) /\ ~epoll_timeout(w) /\ ~rearm_read(w) /\ ~arm_immediate(w)
            BY <4>1, <4>2, Zenon DEF epoll_immediate, epoll_timeout, rearm_read, arm_immediate, restart
          <5>3. ~search_queue(w)
            BY <4>1, Zenon DEF search_queue, searching
          <5> QED BY <3>2, <5>1, <5>2, <5>3, Zenon DEF worker
        <4> QED BY <4>1, <4>3, Zenon DEF Serving, switch_to
      <3> QED BY <3>1, <3>2, Zenon DEF Serving
    <2>4. ASSUME ctx[v] = t PROVE pc'[t] = pc[t]
      <3>1. pc[t] \notin OffPCs
        BY <2>4 DEF WorkersOK
      <3>2. pc'[t] = pc[t] \/ pc[t] \in {"start", "parked", "dead"}
        BY WorkerFrame, Zenon
      <3> QED BY <3>1, <3>2, Zenon DEF OffPCs
    <2> QED BY <2>1, <2>2, <2>3, <2>4, Zenon
  \* run_or_queue() wakes a thread for what it waits for, or for a signal.
  <1>WorkerWakes. ASSUME IInv, Top, Wakes, NEW w \in Workers, worker(w) PROVE Wakes'
    <2> USE <1>WorkerWakes
    <2> USE LInvFromIInv DEF IInv
    <2>0. /\ pc \in [Threads -> ThreadPCs] /\ woken_by_event \in [Workers -> Events \cup {NULL}]
          /\ ctx \in [Workers -> Threads \cup {NULL}] /\ NULL \notin Events /\ NULL \notin Threads
      BY SchedAssumption, Zenon DEF TypeOK
    <2>1. UNCHANGED calls
      BY WorkerFrame, Zenon DEF client
    <2>2. \A u \in Threads : Event(u)' = Event(u)
      BY <2>1, Zenon DEF Event, Depth
    <2> SUFFICES ASSUME NEW v \in Workers, NEW t \in Threads
                 PROVE  /\ ctx'[v] = t /\ pc'[t] \in {"cond", "finish_true"} => woken_by_event'[v] = NULL
                        /\ ctx'[v] = t /\ pc'[t] \in {"finish", "yield_done"} => WokenFor(v, t)'
                        /\ Serving(v, t)' => IF pc'[t] = "start" THEN woken_by_event'[v] = <<t, 0>>
                                             ELSE WokenFor(v, t)'
      BY Zenon DEF Wakes
    <2>3. ASSUME woken_by_event'[v] = woken_by_event[v] PROVE WokenFor(v, t)' <=> WokenFor(v, t)
      BY <2>2, <2>3, Zenon DEF WokenFor
    <2>4. CASE v = w /\ search_run(w)
      <3>1. PICK e \in first_wanted(w) : /\ ~IsExiting(e) /\ ~must_queue(e)
                                         /\ woken_by_event' = [woken_by_event EXCEPT ![w] = e]
                                         /\ target' = [target EXCEPT ![w] = Tc(e)]
        BY <2>4, Zenon DEF search_run
      <3>2. e \in Events /\ el[e] = IMMEDIATE /\ el[e] # NULL
        BY <3>1, FirstWanted, SchedAssumption, Zenon DEF Lists
      <3>3. Tc(e) \in Threads /\ pc[Tc(e)] \in {"start", "parked", "switch"}
        BY <3>1, <3>2, WakeableFacts, Zenon DEF must_queue
      <3>4. woken_by_event'[w] = e /\ target'[w] = Tc(e) /\ UNCHANGED <<pc, ctx>> /\ wpc[w] = "search"
        BY <2>0, <2>4, <3>1, Zenon DEF search_run, searching, TypeOK
      <3>5. ctx'[w] # t
        <4>1. ctx[w] = NULL
          BY <3>4 DEF WorkersOK
        <4> QED BY <2>0, <3>4, <4>1, Zenon
      <3>6. ASSUME t = Tc(e), pc[t] = "start" PROVE e = <<t, 0>>
        BY <3>2, <3>6, StartEvents, Zenon
      <3>7. ASSUME t = Tc(e), pc[t] # "start" PROVE e # NULL /\ (IsSignal(e) \/ e = Event(t))
        <4>1. event_stack[t] = Event(t)
          BY <3>3, <3>7, Zenon DEF Top, WaitPCs
        <4>2. Depth(t) # 0
          BY <3>3, <3>7, InCall, Zenon
        <4>3. Event(t) # NULL
          BY <2>0, <4>2, CallFacts, Zenon
        <4> QED BY <2>0, <3>1, <3>2, <3>7, <4>1, <4>3, Zenon DEF must_queue
      <3> QED BY <2>2, <2>4, <3>4, <3>5, <3>6, <3>7, Zenon DEF Serving, WokenFor
    <2>5. CASE v = w /\ switch_in(w)
      <3>1. target[w] \in Threads /\ wpc[w] = "spin" /\ pc[target[w]] \in {"start", "parked"}
        BY <2>5, EnterFacts, Zenon DEF switch_in, may_enter
      <3>2. /\ ctx'[w] = target[w] /\ wpc'[w] = "coroutine"
            /\ woken_by_event'[w] = IF pc[target[w]] = "start" THEN NULL ELSE woken_by_event[w]
            /\ pc'[target[w]] = IF pc[target[w]] = "start" THEN "user" ELSE resume_pc(target[w])
        BY <2>0, <2>5, <3>1, Zenon DEF switch_in, Goto, TypeOK
      <3>3. ~Serving(w, t)'
        BY <3>2, Zenon DEF Serving
      <3>4. resume_pc(t) \in {"yield_done", "finish"}
        BY Zenon DEF resume_pc
      <3>5. ASSUME t = target[w], pc[t] # "start" PROVE WokenFor(w, t)
        BY <3>1, <3>5, Zenon DEF Wakes, Serving
      <3> QED BY <2>3, <2>5, <3>2, <3>3, <3>4, <3>5, Zenon
    <2>6. CASE ~(v = w /\ (search_run(w) \/ switch_in(w)))
      <3>1. /\ woken_by_event'[v] = woken_by_event[v] /\ ctx'[v] = ctx[v]
            /\ Serving(v, t)' <=> Serving(v, t)
            /\ ctx[v] = t => pc'[t] = pc[t]
        BY <2>6, <1>WorkerStill, Zenon
      <3>2. pc'[t] = pc[t] \/ (pc[t] # "start" /\ pc'[t] # "start") \/ ~Serving(v, t)
        <4>1. \/ pc'[t] = pc[t]
              \/ t = target[w] /\ wpc[w] = "spin" /\ wpc'[w] = "coroutine" /\ ctx'[w] = t /\ pc'[t] # "switch"
              \/ pc[t] = "dead" /\ pc'[t] = "freed"
          BY WorkerFrame, Zenon DEF resume_pc
        <4>2. ASSUME t = target[w], wpc[w] = "spin", wpc'[w] = "coroutine", ctx'[w] = t, pc'[t] # "switch"
              PROVE  ~Serving(v, t)
          <5>1. Claims(w, t)' /\ ClaimsOK'
            BY <4>2, WorkerClaims, Zenon DEF Claims
          <5>2. Serving(v, t)' => v = w
            BY <5>1, ZenonT(30) DEF ClaimsOK, Claims, Serving
          <5>3. ~Serving(w, t)'
            BY <4>2, Zenon DEF Serving
          <5> QED BY <3>1, <5>2, <5>3, Zenon
        <4> QED BY <4>1, <4>2, Zenon
      <3> QED BY <2>3, <3>1, <3>2, Zenon DEF Wakes
    <2> QED BY <2>4, <2>5, <2>6, Zenon
  \* tc_scheduler() goes on with the event on top of the event stack, or with a signal.
  <1>PendingWakes. ASSUME NEW t \in Threads, event_stack[t] # NULL, NEW e \in pending_event(t)
                   PROVE  e = event_stack[t] \/ IsSignal(e)
    <2> USE <1>PendingWakes
    <2> DEFINE P == list[Pending(t)]
               sigs == {i \in DOMAIN P : IsSignal(P[i])}
    <2>1. CASE Contains(P, event_stack[t])
      BY <2>1, Zenon DEF pending_event
    <2>2. CASE ~Contains(P, event_stack[t])
      <3>1. e \in {P[i] : i \in {j \in sigs : \A k \in sigs : k <= j}}
        BY <2>2, Zenon DEF pending_event
      <3> QED BY <3>1, Zenon
    <2> QED BY <2>1, <2>2, Zenon
  \* Which workers have to do with t while it runs: its own, and one that waits for it to
  \* leave its stack.
  <1>Alone. ASSUME IInv, NEW w \in Workers, NEW t \in Threads, coroutine(w, t), NEW v \in Workers
            PROVE  /\ v # w => ctx[v] # t /\ ctx'[v] # t
                   /\ ctx'[v] # NULL => ctx'[v] = ctx[v]
                   /\ ~Serving(w, t) /\ \A u \in Threads : Serving(v, u)' <=> Serving(v, u)
                   /\ Serving(v, t) => switch_out(w, t) /\ pc[t] = "switch" /\ pc'[t] = "parked"
                   /\ v # w => woken_by_event'[v] = woken_by_event[v]
    <2> USE <1>Alone
    <2> USE DEF IInv
    <2>0. ctx \in [Workers -> Threads \cup {NULL}] /\ NULL \notin Threads
      BY SchedAssumption, Zenon DEF TypeOK
    <2>1. /\ (v # w => woken_by_event'[v] = woken_by_event[v] /\ ctx'[v] = ctx[v] /\ wpc'[v] = wpc[v])
          /\ target'[v] = target[v] /\ target'[w] = target[w]
          /\ wpc[w] = "coroutine" /\ ctx[w] = t /\ wpc'[w] \in {"coroutine", "search", "round"}
          /\ (~switch_out(w, t) => ctx'[w] = t)
      BY ThreadFrame, ZenonT(30)
    <2>2. v # w => ctx[v] # t
      <3>1. \A x \in Workers : ctx[x] = t => running[t] = x
        BY DEF WorkersOK
      <3> QED BY <2>1, <3>1, Zenon
    <2>3. switch_out(w, t) => ctx'[w] = NULL
      BY <2>0, Zenon DEF switch_out
    <2>4. ASSUME NEW u \in Threads PROVE Serving(v, u)' <=> Serving(v, u)
      BY <2>1, Zenon DEF Serving
    <2>5. ~Serving(w, t)
      BY <2>1, Zenon DEF Serving
    <2>6. ASSUME Serving(v, t) PROVE switch_out(w, t) /\ pc[t] = "switch" /\ pc'[t] = "parked"
      <3>1. v # w /\ Claims(v, t)
        BY <2>5, <2>6, Zenon DEF Claims, Serving
      <3>2. pc[t] = "switch"
        BY <2>1, <3>1, Zenon DEF ClaimsOK, Claims
      <3> QED BY <3>2, ControlFlow, Zenon DEF Flow
    <2> QED BY <2>1, <2>2, <2>3, <2>4, <2>5, <2>6, Zenon
  \* prepare_to_wait() forgets what woke the thread before.
  <1>CoroutineWakes. ASSUME MaxDepth = 1, IInv, Top, Wakes, NEW w \in Workers, NEW t \in Threads, coroutine(w, t)
                     PROVE  Wakes'
    <2> USE <1>CoroutineWakes
    <2> USE DEF IInv, At
    <2>0. /\ woken_by_event \in [Workers -> Events \cup {NULL}] /\ NULL \notin Events /\ NULL \notin Threads
      BY SchedAssumption, Zenon DEF TypeOK
    <2> SUFFICES ASSUME NEW v \in Workers, NEW u \in Threads
                 PROVE  /\ ctx'[v] = u /\ pc'[u] \in {"cond", "finish_true"} => woken_by_event'[v] = NULL
                        /\ ctx'[v] = u /\ pc'[u] \in {"finish", "yield_done"} => WokenFor(v, u)'
                        /\ Serving(v, u)' => IF pc'[u] = "start" THEN woken_by_event'[v] = <<u, 0>>
                                             ELSE WokenFor(v, u)'
      BY Zenon DEF Wakes
    <2>1. /\ v # w => ctx[v] # t /\ ctx'[v] # t
          /\ ctx'[v] # NULL => ctx'[v] = ctx[v]
          /\ ~Serving(w, t) /\ (Serving(v, u)' <=> Serving(v, u))
          /\ Serving(v, t) => switch_out(w, t) /\ pc[t] = "switch" /\ pc'[t] = "parked"
          /\ v # w => woken_by_event'[v] = woken_by_event[v]
      BY <1>Alone, Zenon
    <2>2. ctx[w] = t /\ \A x \in Threads \ {t} : /\ calls'[x] = calls[x]
                                                 /\ pc'[x] = pc[x] \/ (pc[x] = "none" /\ pc'[x] = "start")
      BY CoroutineFrame, Zenon
    <2>3. Serving(v, u) => pc[u] # "none" /\ v # w
      <3>1. Serving(v, u) => pc[u] \in {"start", "parked", "switch"}
        BY DEF ClaimsOK, Serving
      <3>2. wpc[w] = "coroutine"
        BY ThreadFrame, ZenonT(30)
      <3> QED BY <3>1, <3>2, Zenon DEF Serving
    <2>4. CASE u # t
      <3>1. Event(u)' = Event(u)
        BY <2>2, <2>4, Zenon DEF Event, Depth
      <3>2. ctx'[v] = u => ctx[v] = u /\ v # w
        BY <2>0, <2>1, <2>2, <2>4, Zenon
      <3>3. v # w => (WokenFor(v, u)' <=> WokenFor(v, u))
        BY <2>1, <3>1, Zenon DEF WokenFor
      <3>4. pc'[u] = pc[u] \/ (pc[u] = "none" /\ pc'[u] = "start")
        BY <2>2, <2>4, Zenon
      <3> QED BY <2>1, <2>3, <3>2, <3>3, <3>4, Zenon DEF Wakes
    <2>5. CASE u = t
      <3>0. Flow(w, t)
        BY ControlFlow, Zenon
      <3>1. ASSUME ctx'[v] = t, pc'[t] \in {"cond", "finish_true"} PROVE woken_by_event'[v] = NULL
        <4>1. v = w
          BY <2>1, <3>1, Zenon
        <4>2. CASE pc'[t] = "cond"
          <5>1. tc_waitq_prepare_to_wait(w, t)
            BY <4>2, <1>SingleFlow, Zenon
          <5> QED BY <2>0, <4>1, <5>1, Zenon DEF tc_waitq_prepare_to_wait, prepare_to_wait
        <4>3. CASE pc'[t] = "finish_true"
          <5>1. cond(w, t) /\ pc[t] = "cond"
            BY <3>0, <4>3, Zenon DEF Flow
          <5>2. woken_by_event'[w] = woken_by_event[w]
            BY <5>1, Zenon DEF cond
          <5> QED BY <2>2, <4>1, <5>1, <5>2, Zenon DEF Wakes
        <4> QED BY <3>1, <4>2, <4>3, Zenon
      <3>2. ASSUME ctx'[v] = t, pc'[t] \in {"finish", "yield_done"} PROVE WokenFor(v, t)'
        <4>1. v = w
          BY <2>1, <3>2, Zenon
        <4>2. tc_scheduler(w, t) /\ pc[t] = "scheduler"
          BY <3>0, <3>2, Zenon DEF Flow
        <4>3. UNCHANGED calls /\ Event(t)' = Event(t)
          BY <4>2, Zenon DEF tc_scheduler, client, Event, Depth
        <4>4. PICK e \in pending_event(t) : woken_by_event' = [woken_by_event EXCEPT ![w] = e]
          <5>1. ~Goto(t, "switch")
            BY <3>2, Zenon DEF Goto, TypeOK
          <5> QED BY <4>2, <5>1, Zenon DEF tc_scheduler
        <4>5. e \in Events
          BY LInvFromIInv, PendingEvent, Zenon
        <4>6. event_stack[t] = Event(t)
          BY <4>2, Zenon DEF Top, WaitPCs
        <4>7. Event(t) # NULL
          BY <2>0, <4>2, InCall, CallFacts, Zenon
        <4>8. e = Event(t) \/ IsSignal(e)
          BY <4>6, <4>7, <1>PendingWakes, Zenon
        <4> QED BY <2>0, <4>1, <4>3, <4>4, <4>5, <4>8, Zenon DEF WokenFor
      <3>3. ASSUME Serving(v, t)' PROVE pc'[t] # "start" /\ WokenFor(v, t)'
        <4>1. Serving(v, t) /\ v # w /\ switch_out(w, t) /\ pc[t] = "switch" /\ pc'[t] = "parked"
          BY <2>1, <2>3, <2>5, <3>3, Zenon
        <4>2. UNCHANGED calls /\ woken_by_event'[v] = woken_by_event[v]
          BY <4>1, Zenon DEF switch_out, client
        <4>3. WokenFor(v, t)
          BY <4>1, Zenon DEF Wakes
        <4> QED BY <4>1, <4>2, <4>3, Zenon DEF WokenFor, Event, Depth
      <3> QED BY <2>5, <3>1, <3>2, <3>3, Zenon
    <2> QED BY <2>4, <2>5, Zenon
  \* run_or_queue() takes the event of a sleeping thread only to wake it.
  <1>WorkerAwaited. ASSUME IInv, Top, Wakes, Awaited, NEW w \in Workers, worker(w) PROVE Awaited'
    <2> USE <1>WorkerAwaited
    <2> USE LInvFromIInv DEF IInv
    <2>0. /\ pc \in [Threads -> ThreadPCs] /\ NULL # IMMEDIATE
          /\ \A u \in Threads : Pending(u) # NULL
      BY SchedAssumption, Zenon DEF TypeOK, Lists
    <2>1. UNCHANGED calls
      BY WorkerFrame, Zenon DEF client
    <2> SUFFICES ASSUME NEW t \in Threads
                 PROVE  /\ pc'[t] \in AwaitPCs =>
                              \/ el'[Event(t)'] # NULL
                              \/ \E v \in Workers : Serving(v, t)' /\ woken_by_event'[v] = Event(t)'
                        /\ pc'[t] = "yield_done" =>
                              \/ el'[Event(t)'] # NULL
                              \/ \E v \in Workers : ctx'[v] = t /\ woken_by_event'[v] = Event(t)'
      BY Zenon DEF Awaited
    <2>2. \/ pc'[t] = pc[t]
          \/ /\ t = target[w] /\ wpc[w] = "spin" /\ wpc'[w] = "coroutine" /\ ctx'[w] = t
             /\ \/ pc[t] = "start" /\ pc'[t] = "user"
                \/ pc[t] = "parked" /\ pc'[t] = resume_pc(t)
          \/ pc[t] = "dead" /\ pc'[t] = "freed"
      BY WorkerFrame, Zenon
    <2>3. ASSUME pc[t] \in AwaitPCs \cup {"yield_done"}, el[Event(t)] # NULL, el'[Event(t)] = NULL
          PROVE  Serving(w, t)' /\ woken_by_event'[w] = Event(t) /\ ~TF_RUNNING[t]
      <3>1. Depth(t) # 0
        BY <2>3, InCall, Zenon DEF AwaitPCs
      <3>2. Event(t) \in Events /\ Tc(Event(t)) = t /\ ~IsSignal(Event(t)) /\ Event(t) = <<t, Depth(t)>>
        BY <3>1, CallFacts, Zenon
      <3>3. ~IsExiting(Event(t))
        BY <3>1, <3>2 DEF IsExiting
      <3>4. \/ el'[Event(t)] = Pending(Tc(Event(t)))
            \/ /\ ~must_queue(Event(t)) /\ woken_by_event'[w] = Event(t)
               /\ target'[w] = Tc(Event(t)) /\ wpc'[w] = "switch_to"
        BY <2>3, <3>2, <3>3, WorkerMoves, Zenon
      <3>5. ~must_queue(Event(t)) /\ woken_by_event'[w] = Event(t) /\ target'[w] = t /\ wpc'[w] = "switch_to"
        BY <2>0, <2>3, <3>2, <3>4, Zenon
      <3> QED BY <3>2, <3>5, Zenon DEF Serving, must_queue
    <2>4. ASSUME pc'[t] \in AwaitPCs
          PROVE  \/ el'[Event(t)] # NULL
                 \/ \E v \in Workers : Serving(v, t)' /\ woken_by_event'[v] = Event(t)
      <3>1. pc'[t] = pc[t]
        BY <2>2, <2>4, Zenon DEF AwaitPCs, resume_pc
      <3>2. ASSUME NEW v \in Workers, Serving(v, t), woken_by_event[v] = Event(t)
            PROVE  Serving(v, t)' /\ woken_by_event'[v] = Event(t)
        <4>1. ~(v = w /\ switch_in(w))
          <5>1. ASSUME v = w, switch_in(w) PROVE pc'[t] \in {"user", "finish", "yield_done"}
            BY <2>0, <3>2, <5>1, Zenon DEF switch_in, Goto, resume_pc, Serving
          <5> QED BY <2>4, <5>1, Zenon DEF AwaitPCs
        <4>2. ~(v = w /\ search_run(w))
          BY <3>2, Zenon DEF search_run, searching, Serving
        <4> QED BY <3>2, <4>1, <4>2, ServingKept, Zenon
      <3>3. \/ el[Event(t)] # NULL
            \/ \E v \in Workers : Serving(v, t) /\ woken_by_event[v] = Event(t)
        BY <2>4, <3>1, Zenon DEF Awaited
      <3>4. CASE el[Event(t)] # NULL
        BY <2>3, <2>4, <3>1, <3>4, Zenon
      <3> QED BY <3>2, <3>3, <3>4, Zenon
    <2>5. ASSUME pc'[t] = "yield_done"
          PROVE  \/ el'[Event(t)] # NULL
                 \/ \E v \in Workers : ctx'[v] = t /\ woken_by_event'[v] = Event(t)
      <3>1. CASE pc'[t] = pc[t]
        <4>1. \A v \in Workers : ctx[v] = t => running[t] = v
          BY DEF WorkersOK
        <4>2. running[t] \in Workers /\ ctx[running[t]] = t
          BY <2>5, <3>1 DEF WorkersOK, OffPCs
        <4>3. TF_RUNNING[t]
          BY <2>5, <3>1, <4>2, RunningMarked, Zenon
        <4>4. ASSUME NEW v \in Workers, ctx[v] = t, woken_by_event[v] = Event(t)
              PROVE  ctx'[v] = t /\ woken_by_event'[v] = Event(t)
          <5>1. v # w
            <6>1. wpc[v] = "coroutine"
              BY <4>4, SchedAssumption DEF WorkersOK
            <6> QED BY <6>1, Zenon DEF worker, run_immediate, search_none, search_queue, search_run,
                   search_exiting, searching, switch_to, switch_in, tc_thread_free, epoll_immediate,
                   epoll_timeout, rearm_read, arm_immediate
          <5> QED BY <4>4, <5>1, WorkerFrame, Zenon
        <4> QED BY <2>3, <2>5, <3>1, <4>3, <4>4, ZenonT(30) DEF Awaited
      <3>2. CASE /\ t = target[w] /\ wpc[w] = "spin" /\ wpc'[w] = "coroutine" /\ ctx'[w] = t
                 /\ pc[t] = "parked"
        <4>1. switch_in(w)
          BY <3>2, Zenon DEF worker, run_immediate, search_none, search_queue, search_run,
             search_exiting, searching, switch_to, tc_thread_free, epoll_immediate, epoll_timeout,
             rearm_read, arm_immediate
        <4>2. el' = el /\ woken_by_event'[w] = woken_by_event[w]
          BY <3>2, <4>1, Zenon DEF switch_in, listVars, TypeOK
        <4>3. \A v \in Workers : Serving(v, t) => v = w
          BY <3>2, Zenon DEF Serving, ClaimsOK, Claims
        <4> QED BY <3>2, <4>2, <4>3, ZenonT(30) DEF Awaited, AwaitPCs
      <3> QED BY <2>2, <2>5, <3>1, <3>2, ZenonT(30)
    <2>6. Event(t)' = Event(t)
      BY <2>1, Zenon DEF Event, Depth
    <2> QED BY <2>4, <2>5, <2>6, Zenon
  \* A thread that goes to sleep has put its event on a list, and leaves it there.
  <1>CoroutineAwaited. ASSUME MaxDepth = 1, IInv, Top, Wakes, Awaited,
                              NEW w \in Workers, NEW t \in Threads, coroutine(w, t)
                       PROVE  Awaited'
    <2> USE <1>CoroutineAwaited
    <2> USE LInvFromIInv DEF IInv, At
    <2>0. /\ NULL \notin Events /\ NULL \notin Queues /\ NULL # IMMEDIATE
          /\ woken_by_event \in [Workers -> Events \cup {NULL}] /\ el \in [Events -> Lists \cup {NULL}]
          /\ pc \in [Threads -> ThreadPCs]
      BY SchedAssumption, Zenon DEF TypeOK, Lists
    <2>1. ctx[w] = t /\ \A x \in Threads \ {t} : /\ calls'[x] = calls[x]
                                                 /\ pc'[x] = pc[x] \/ (pc[x] = "none" /\ pc'[x] = "start")
      BY CoroutineFrame, Zenon
    <2>2. \A v \in Workers : v # w => /\ woken_by_event'[v] = woken_by_event[v]
                                      /\ ctx'[v] = ctx[v] /\ ctx[v] # t
      <3>1. ASSUME NEW v \in Workers, v # w
            PROVE  /\ woken_by_event'[v] = woken_by_event[v] /\ ctx'[v] = ctx[v]
        BY <3>1, ThreadFrame, Zenon
      <3>2. ASSUME NEW v \in Workers, v # w PROVE ctx[v] # t
        BY <3>2, <1>Alone, Zenon
      <3> QED BY <3>1, <3>2, Zenon
    <2>3. \A v \in Workers : Serving(v, t) => /\ switch_out(w, t) /\ pc[t] = "switch"
                                              /\ pc'[t] = "parked" /\ Serving(v, t)' /\ v # w
      <3>1. ASSUME NEW v \in Workers, Serving(v, t)
            PROVE  /\ switch_out(w, t) /\ pc[t] = "switch" /\ pc'[t] = "parked" /\ ~Serving(w, t)
                   /\ Serving(v, t)' <=> Serving(v, t)
        <4>1. /\ ~Serving(w, t) /\ \A u \in Threads : Serving(v, u)' <=> Serving(v, u)
              /\ Serving(v, t) => switch_out(w, t) /\ pc[t] = "switch" /\ pc'[t] = "parked"
          BY <1>Alone, Zenon
        <4> QED BY <3>1, <4>1, Zenon
      <3> QED BY <3>1, Zenon
    <2> SUFFICES ASSUME NEW u \in Threads
                 PROVE  /\ pc'[u] \in AwaitPCs =>
                              \/ el'[Event(u)'] # NULL
                              \/ \E v \in Workers : Serving(v, u)' /\ woken_by_event'[v] = Event(u)'
                        /\ pc'[u] = "yield_done" =>
                              \/ el'[Event(u)'] # NULL
                              \/ \E v \in Workers : ctx'[v] = u /\ woken_by_event'[v] = Event(u)'
      BY Zenon DEF Awaited
    <2>4. CASE u # t
      <3>1. Event(u)' = Event(u) /\ (pc'[u] = pc[u] \/ pc'[u] = "start")
        BY <2>1, <2>4, Zenon DEF Event, Depth
      <3>2. ASSUME pc[u] \in AwaitPCs \cup {"yield_done"}, el[Event(u)] # NULL PROVE el'[Event(u)] # NULL
        <4>1. Event(u) \in Events /\ Tc(Event(u)) = u
          BY <3>2, InCall, CallFacts, Zenon DEF AwaitPCs
        <4> QED BY <2>0, <2>4, <3>2, <4>1, OthersMoved, Zenon
      <3>3. ASSUME NEW v \in Workers, Serving(v, u), woken_by_event[v] = Event(u)
            PROVE  Serving(v, u)' /\ woken_by_event'[v] = Event(u)
        <4>1. Serving(v, u)' /\ v # w
          <5>1. wpc[w] = "coroutine"
            BY ThreadFrame, ZenonT(30)
          <5>2. Serving(v, u)' <=> Serving(v, u)
            BY <1>Alone, Zenon
          <5> QED BY <3>3, <5>1, <5>2, Zenon DEF Serving
        <4> QED BY <2>2, <3>3, <4>1, Zenon
      <3>4. ASSUME NEW v \in Workers, ctx[v] = u, woken_by_event[v] = Event(u)
            PROVE  ctx'[v] = u /\ woken_by_event'[v] = Event(u)
        BY <2>1, <2>2, <2>4, <3>4, Zenon
      <3>5. CASE pc'[u] \in AwaitPCs
        <4>1. pc[u] \in AwaitPCs
          BY <3>1, <3>5, Zenon DEF AwaitPCs
        <4>2. pc'[u] # "yield_done"
          BY <3>5, Zenon DEF AwaitPCs
        <4> QED BY <3>1, <3>2, <3>3, <4>1, <4>2, Zenon DEF Awaited
      <3>6. CASE pc'[u] = "yield_done"
        <4>1. pc[u] = "yield_done" /\ pc'[u] \notin AwaitPCs
          BY <3>1, <3>6, Zenon DEF AwaitPCs
        <4>2. \/ el[Event(u)] # NULL
              \/ \E v \in Workers : ctx[v] = u /\ woken_by_event[v] = Event(u)
          BY <4>1, Zenon DEF Awaited
        <4> QED BY <3>1, <3>2, <3>4, <4>1, <4>2, Zenon
      <3> QED BY <3>5, <3>6, Zenon
    <2>5. CASE u = t
      <3>0. Flow(w, t)
        BY ControlFlow, Zenon
      <3>1. ASSUME pc[t] \in AwaitPCs, pc[t] # "switch" PROVE el[Event(t)] # NULL
        BY <2>3, <3>1, Zenon DEF Awaited
      <3>2. CASE pc[t] = "yield_stack" \/ pc[t] = "cond"
        <4>1. (yield_stack(w, t) \/ cond(w, t)) /\ pc'[t] \in {"scheduler", "finish_true"}
          <5>1. pc[t] = "cond" => cond(w, t)
            BY <1>SingleFlow, Zenon
          <5>2. pc[t] = "yield_stack" => yield_stack(w, t)
            BY <3>0, Zenon DEF Flow
          <5> QED BY <2>0, <3>2, <5>1, <5>2, Zenon DEF yield_stack, cond, Goto
        <4>2. UNCHANGED <<el, calls>>
          BY <4>1, Zenon DEF yield_stack, cond, listVars
        <4> QED BY <2>5, <3>1, <3>2, <4>1, <4>2, Zenon DEF AwaitPCs, Event, Depth
      <3>3. CASE pc[t] = "switch"
        <4>1. switch_out(w, t) /\ pc'[t] = "parked"
          BY <3>0, <3>3, Zenon DEF Flow
        <4>2. UNCHANGED <<el, calls, woken_by_event>>
          BY <4>1, Zenon DEF switch_out, client, listVars
        <4>3. Event(t)' = Event(t)
          BY <4>2, Zenon DEF Event, Depth
        <4>4. \/ el[Event(t)] # NULL
              \/ \E v \in Workers : Serving(v, t) /\ woken_by_event[v] = Event(t)
          BY <3>3, Zenon DEF Awaited, AwaitPCs
        <4> QED BY <2>3, <2>5, <4>1, <4>2, <4>3, <4>4, Zenon
      <3>4. CASE pc[t] = "scheduler"
        <4>1. tc_scheduler(w, t) /\ pc'[t] \in {"finish", "yield_done", "switch"}
          BY <3>0, <3>4, Zenon DEF Flow
        <4>2. UNCHANGED calls /\ Event(t)' = Event(t)
          BY <4>1, Zenon DEF tc_scheduler, client, Event, Depth
        <4>3. el[Event(t)] # NULL /\ Event(t) \in Events /\ ~IsSignal(Event(t))
          BY <3>1, <3>4, InCall, CallFacts, Zenon DEF AwaitPCs
        <4>4. CASE el'[Event(t)] = el[Event(t)]
          BY <2>5, <4>2, <4>3, <4>4, Zenon
        <4>5. CASE el'[Event(t)] # el[Event(t)]
          <5>1. Moved(w, t, Event(t))
            BY <4>3, <4>5, ThreadMoves, Zenon
          <5>2. woken_by_event'[w] = Event(t)
            BY <3>4, <5>1, Zenon DEF Moved, tc_waitq_prepare_to_wait, tc_thread_wait, tc_waitq_finish_wait,
               tc_sched_yield, yield_done, tc_waitq_wakeup, die_wakeup, tc_signal_subscribe,
               tc_signal_unsubscribe, tc_thread_new, die_post
          <5>3. ctx'[w] = t
            BY <2>1, <4>1, Zenon DEF tc_scheduler
          <5>4. pc'[t] # "switch"
            <6>1. ~UNCHANGED listVars
              BY <4>5, Zenon DEF listVars
            <6>2. Goto(t, resume_pc(t))
              BY <4>1, <6>1, Zenon DEF tc_scheduler
            <6> QED BY <2>0, <6>2, Zenon DEF Goto, resume_pc
          <5> QED BY <2>5, <4>1, <4>2, <5>2, <5>3, <5>4, Zenon DEF AwaitPCs
        <4> QED BY <4>4, <4>5, Zenon
      <3>5. CASE pc[t] \notin {"yield_stack", "cond", "scheduler", "switch"}
                 /\ pc'[t] \in AwaitPCs \cup {"yield_done"}
        <4>1. \/ tc_waitq_prepare_to_wait(w, t) /\ Op(t) \in {"wait_event", "wait"}
              \/ tc_thread_wait(w, t) /\ pc'[t] = "scheduler" /\ Op(t) = "join"
              \/ tc_sched_yield(w, t)
          <5>1. tc_waitq_prepare_to_wait(w, t) \/ (tc_thread_wait(w, t) /\ pc'[t] = "scheduler") \/ tc_sched_yield(w, t)
            BY <3>0, <3>5, <1>SingleFlow, Zenon DEF Flow, AwaitPCs
          <5> QED BY <5>1, Zenon DEF tc_waitq_prepare_to_wait, tc_thread_wait, CallsOK, CallOK
        <4>2. Depth(t) # 0
          BY <4>1, InCall, Zenon DEF tc_waitq_prepare_to_wait, tc_thread_wait, tc_sched_yield
        <4>3. /\ Event(t) \in Events
              /\ Op(t) \in {"wait_event", "wait", "join"} => Arg(t) # NULL
          BY <2>0, <4>2, CallFacts, ZenonT(30) DEF Queues
        <4>4. UNCHANGED calls /\ el'[Event(t)] # NULL
          <5>1. CASE tc_waitq_prepare_to_wait(w, t) /\ Op(t) \in {"wait_event", "wait"}
            BY <2>0, <4>3, <5>1, Zenon DEF tc_waitq_prepare_to_wait, prepare_to_wait, add_event
          <5>2. CASE tc_thread_wait(w, t) /\ pc'[t] = "scheduler" /\ Op(t) = "join"
            <6>1. ~Return(t)
              BY <2>0, <5>2, Zenon DEF Return, Goto
            <6> QED BY <2>0, <4>3, <5>2, <6>1, Zenon DEF tc_thread_wait, prepare_to_wait, add_event
          <5>3. CASE tc_sched_yield(w, t)
            BY <2>0, <4>3, <5>3, Zenon DEF tc_sched_yield, add_event_cr, client
          <5> QED BY <4>1, <5>1, <5>2, <5>3, Zenon
        <4>5. Event(t)' = Event(t)
          BY <4>4, Zenon DEF Event, Depth
        <4> QED BY <2>5, <4>4, <4>5, Zenon
      <3> QED BY <2>5, <3>2, <3>3, <3>4, <3>5, Zenon
    <2> QED BY <2>4, <2>5, Zenon
  \* scheduler_part2() neither loses a signal nor makes one up.
  <1>WorkerSignals. ASSUME IInv, Wakes, SignalsExact, NEW w \in Workers, worker(w) PROVE SignalsExact'
    <2> USE <1>WorkerSignals
    <2> USE LInvFromIInv DEF IInv
    <2>1. UNCHANGED due
      BY WorkerFrame, Zenon DEF client
    <2>t. /\ wpc \in [Workers -> WorkerPCs] /\ pc \in [Threads -> ThreadPCs] /\ ctx \in [Workers -> Threads \cup {NULL}]
          /\ woken_by_event \in [Workers -> Events \cup {NULL}] /\ target \in [Workers -> Threads \cup {NULL}]
      BY Zenon DEF TypeOK
    <2> SUFFICES ASSUME NEW t \in Threads, NEW s \in Signals
                 PROVE  <<t, s>> \in due' <=> \/ el'[<<t, s>>] \in {IMMEDIATE, Pending(t)}
                                              \/ \E v \in Workers : Interrupting(v, t, s)'
      BY Zenon DEF SignalsExact
    <2> DEFINE e == <<t, s>>
               Got(v) == ctx[v] = t /\ pc[t] \in {"finish", "yield_done"}
    <2>2. /\ e \in Events /\ Tc(e) = t /\ IsSignal(e) /\ e # <<t, 0>> /\ ~IsExiting(e)
      <3>1. 0 \in 0..MaxDepth
        BY SchedAssumption
      <3>2. s # 0
        BY <3>1, SchedAssumption, Zenon
      <3> QED BY <3>2 DEF Events, Tc, IsSignal, IsExiting
    <2>3. \A v \in Workers : /\ Interrupting(v, t, s) <=> woken_by_event[v] = e /\ (Serving(v, t) \/ Got(v))
                             /\ Interrupting(v, t, s)' <=> woken_by_event'[v] = e /\ (Serving(v, t)' \/ Got(v)')
      BY Zenon DEF Interrupting, Serving
    <2> HIDE DEF e
    <2>4. ASSUME NEW v \in Workers, ~(v = w /\ search_run(w))
          PROVE  Interrupting(v, t, s)' <=> Interrupting(v, t, s)
      <3>1. CASE v = w /\ switch_in(w)
        <4>1. target[w] \in Threads /\ wpc[w] = "spin" /\ pc[target[w]] \in {"start", "parked"}
          BY <3>1, EnterFacts, Zenon DEF switch_in, may_enter
        <4>2. /\ ctx'[w] = target[w] /\ wpc'[w] = "coroutine"
              /\ woken_by_event'[w] = IF pc[target[w]] = "start" THEN NULL ELSE woken_by_event[w]
              /\ pc'[target[w]] = IF pc[target[w]] = "start" THEN "user" ELSE resume_pc(target[w])
          BY <2>t, <3>1, <4>1, Zenon DEF switch_in, Goto
        <4>3. ~Serving(w, t)' /\ resume_pc(t) \in {"yield_done", "finish"} /\ ctx[w] = NULL
          <5>1. ctx[w] = NULL
            BY <4>1 DEF WorkersOK
          <5> QED BY <4>2, <5>1, Zenon DEF Serving, resume_pc
        <4>4. Serving(w, t) /\ pc[t] = "start" => woken_by_event[w] # e
          BY <2>2, Zenon DEF Wakes
        <4>5. ~Got(w) /\ (Serving(w, t) <=> target[w] = t)
          BY <4>1, <4>3, SchedAssumption, Zenon DEF Serving
        <4>6. CASE target[w] # t
          <5>1. ~Got(w)' /\ ~Serving(w, t)
            BY <4>2, <4>5, <4>6, Zenon
          <5> QED BY <2>3, <3>1, <4>3, <4>5, <5>1, Zenon
        <4>7. CASE target[w] = t /\ pc[t] = "start"
          <5>1. ~Got(w)' /\ woken_by_event[w] # e
            BY <4>2, <4>4, <4>5, <4>7, Zenon
          <5> QED BY <2>3, <3>1, <4>3, <5>1, Zenon
        <4>8. CASE target[w] = t /\ pc[t] # "start"
          <5>1. Got(w)' /\ Serving(w, t) /\ woken_by_event'[w] = woken_by_event[w]
            BY <4>2, <4>3, <4>5, <4>8, Zenon
          <5> QED BY <2>3, <3>1, <5>1, Zenon
        <4> QED BY <4>6, <4>7, <4>8, Zenon
      <3>2. CASE ~(v = w /\ switch_in(w))
        <4>1. /\ woken_by_event'[v] = woken_by_event[v] /\ ctx'[v] = ctx[v]
              /\ Serving(v, t)' <=> Serving(v, t)
              /\ ctx[v] = t => pc'[t] = pc[t]
          BY <2>4, <3>2, <1>WorkerStill, Zenon
        <4> QED BY <2>3, <4>1, Zenon
      <3> QED BY <3>1, <3>2, Zenon
    <2>5. ASSUME search_run(w) PROVE ~Interrupting(w, t, s)
      <3>1. wpc[w] = "search"
        BY <2>5, Zenon DEF search_run, searching
      <3>2. ctx[w] = NULL
        BY <3>1 DEF WorkersOK
      <3> QED BY <2>3, <3>1, <3>2, SchedAssumption, Zenon DEF Serving
    <2>6. CASE el'[e] = el[e]
      <3>1. ASSUME search_run(w) PROVE ~Interrupting(w, t, s)'
        <4>1. PICK x \in first_wanted(w) : /\ consume_event(x)
                                           /\ woken_by_event' = [woken_by_event EXCEPT ![w] = x]
          BY <3>1, Zenon DEF search_run
        <4>2. x \in Events /\ el[x] = IMMEDIATE
          BY <4>1, FirstWanted, Zenon
        <4>3. el' = [el EXCEPT ![x] = IF IsSignal(x) THEN x[2] ELSE NULL] /\ el \in [Events -> Lists \cup {NULL}]
          BY <4>1, <4>2, ConsumeEventLists, Zenon DEF TypeOK
        <4>4. x # e
          <5>1. s # IMMEDIATE
            BY SchedAssumption, Zenon DEF Queues
          <5>2. e[2] = s
            BY DEF e
          <5>3. x = e => el'[e] = s
            BY <2>2, <4>3, <5>2, Zenon
          <5> QED BY <2>6, <4>2, <5>1, <5>3, Zenon
        <4> QED BY <2>3, <2>t, <4>1, <4>4, Zenon
      <3>2. \A v \in Workers : Interrupting(v, t, s)' <=> Interrupting(v, t, s)
        BY <2>4, <2>5, <3>1, Zenon
      <3> QED BY <2>1, <2>6, <3>2, Zenon DEF SignalsExact, e
    <2>7. CASE el'[e] # el[e]
      <3>1. /\ el[e] = IMMEDIATE
            /\ \/ el'[e] = Pending(t)
               \/ woken_by_event'[w] = e /\ target'[w] = t /\ wpc'[w] = "switch_to"
        BY <2>2, <2>7, WorkerMoves, Zenon
      <3>2. e \in due'
        BY <2>1, <3>1, Zenon DEF SignalsExact, e
      <3>3. \/ el'[e] = Pending(t)
            \/ Interrupting(w, t, s)'
        BY <2>3, <3>1, Zenon DEF Serving
      <3> QED BY <3>2, <3>3, Zenon DEF e
    <2> QED BY <2>6, <2>7, Zenon
  \* tc_signal_fire() fires the signals it moves, and no other.
  <1>FiredSignals. ASSUME IInv, NEW w \in Workers, NEW t \in Threads, tc_waitq_wakeup(w, t) \/ die_wakeup(w, t),
                          NEW e \in Events, IsSignal(e)
                   PROVE  /\ e \in due' <=> e \in due \/ el'[e] # el[e]
                          /\ el'[e] # el[e] => el'[e] = IMMEDIATE
    <2> USE <1>FiredSignals
    <2> USE LInvFromIInv DEF IInv, At
    <2>1. ASSUME NEW q \in Queues, NEW n \in 0..Len(list[q]), to_immediate(q, n)
          PROVE  /\ e \in due' <=> e \in due \/ el'[e] # el[e]
                 /\ el'[e] # el[e] => el'[e] = IMMEDIATE
      <3> DEFINE moved == {list[q][i] : i \in 1..n}
      <3>1. q \in Lists /\ q # IMMEDIATE
        BY SchedAssumption, Zenon DEF Lists
      <3>2. el'[e] = el[e] \/ (el[e] = q /\ el'[e] = IMMEDIATE)
        BY <2>1, <3>1, ToImmediateLists, Zenon
      <3>3. /\ el'[e] = IF e \in moved THEN IMMEDIATE ELSE el[e]
            /\ e \in due' <=> e \in due \/ e \in moved
        BY <2>1, Zenon DEF to_immediate
      <3>4. ASSUME e \in moved PROVE el[e] = q
        <4>1. list[q] \in Seq(Events)
          BY <3>1, LInvTypes, Zenon
        <4>2. Contains(list[q], e)
          BY <3>4, <4>1 DEF Contains
        <4> QED BY <3>1, <4>2, Zenon DEF ListsConsistent
      <3> QED BY <3>1, <3>2, <3>3, <3>4, Zenon
    <2>2. CASE tc_waitq_wakeup(w, t)
      <3>1. Depth(t) # 0 /\ Op(t) \in {"wakeup_one", "wakeup_all", "fire"}
        BY <2>2, InCall, Zenon DEF tc_waitq_wakeup, CallsOK, CallOK
      <3>2. Arg(t) \in Queues /\ Arg(t) \in Lists
        BY <3>1, CallFacts, Zenon DEF Queues, Lists
      <3>3. Len(list[Arg(t)]) \in Nat
        BY <3>2, LInvTypes
      <3>4. (IF Op(t) = "wakeup_one" /\ Len(list[Arg(t)]) > 0 THEN 1 ELSE Len(list[Arg(t)]))
               \in 0..Len(list[Arg(t)])
        BY <3>3
      <3> QED BY <2>1, <2>2, <3>2, <3>4, Zenon DEF tc_waitq_wakeup
    <2>3. CASE die_wakeup(w, t)
      <3>1. t \in Queues /\ t \in Lists
        BY Zenon DEF Queues, Lists
      <3>2. Len(list[t]) \in Nat
        BY <3>1, LInvTypes
      <3>3. Len(list[t]) \in 0..Len(list[t])
        BY <3>2
      <3> QED BY <2>1, <2>3, <3>1, <3>3, Zenon DEF die_wakeup
    <2> QED BY <2>2, <2>3, Zenon
  \* Which interruptions a step of t leaves as they are: all but those of its own waits.
  <1>StillInterrupting. ASSUME IInv, NEW w \in Workers, NEW t \in Threads, coroutine(w, t),
                               NEW v \in Workers, NEW u \in Threads, NEW s \in Signals,
                               u # t \/ v # w \/ (pc[t] \notin {"finish", "yield_done"} /\ pc'[t] \notin {"finish", "yield_done"})
                        PROVE  Interrupting(v, u, s)' <=> Interrupting(v, u, s)
    <2> USE <1>StillInterrupting
    <2> USE DEF IInv
    <2>1. /\ v # w => ctx[v] # t /\ ctx'[v] # t
          /\ ctx'[v] # NULL => ctx'[v] = ctx[v]
          /\ Serving(v, u)' <=> Serving(v, u)
          /\ v # w => woken_by_event'[v] = woken_by_event[v]
      BY <1>Alone, Zenon
    <2>2. /\ v # w => ctx'[v] = ctx[v]
          /\ ctx[w] = t /\ wpc[w] = "coroutine"
      BY ThreadFrame, ZenonT(30)
    <2>3. /\ Interrupting(v, u, s) <=> /\ woken_by_event[v] = <<u, s>>
                                       /\ Serving(v, u) \/ (ctx[v] = u /\ pc[u] \in {"finish", "yield_done"})
          /\ Interrupting(v, u, s)' <=> /\ woken_by_event'[v] = <<u, s>>
                                        /\ Serving(v, u)' \/ (ctx'[v] = u /\ pc'[u] \in {"finish", "yield_done"})
      BY Zenon DEF Interrupting, Serving
    <2>4. v = w => ~Serving(v, u)
      BY <2>2, Zenon DEF Serving
    <2>5. u # t => (pc'[u] \in {"finish", "yield_done"} <=> pc[u] \in {"finish", "yield_done"})
      <3>1. \A x \in Threads \ {t} : pc'[x] = pc[x] \/ (pc[x] = "none" /\ pc'[x] = "start")
        BY CoroutineFrame, Zenon
      <3> QED BY <3>1, Zenon
    <2>6. CASE v = w /\ u # t
      <3>1. ctx[v] # u /\ ctx'[v] # u
        BY <2>1, <2>2, <2>6, SchedAssumption, Zenon
      <3> QED BY <2>1, <2>3, <2>4, <2>6, <3>1, Zenon
    <2>7. CASE v = w /\ u = t
      BY <2>1, <2>3, <2>4, <2>7, Zenon
    <2>8. CASE v # w /\ u # t
      BY <2>1, <2>2, <2>3, <2>5, <2>8, Zenon
    <2>9. CASE v # w /\ u = t
      BY <2>1, <2>3, <2>9, Zenon
    <2> QED BY <2>6, <2>7, <2>8, <2>9, Zenon
  \* Only the calls that fire, deliver and unsubscribe change what is due.
  <1>DueFrame. ASSUME NEW w \in Workers, NEW t \in Threads, coroutine(w, t),
                      ~tc_waitq_wakeup(w, t), ~die_wakeup(w, t), ~tc_signal_unsubscribe(w, t),
                      ~tc_waitq_finish_wait(w, t), ~yield_done(w, t)
               PROVE  UNCHANGED due
    BY <1>DueFrame, Zenon DEF coroutine, call, test, tc_waitq_prepare_to_wait, cond, tc_scheduler, switch_out,
       tc_sched_yield, yield_stack, iwi_immediate, tc_signal_subscribe, tc_thread_insert,
       tc_thread_new, tc_thread_wait, tc_die, die_post, client
  \* What was due at one thread is not changed by a step of another, unless that fires.
  <1>OthersSignals. ASSUME IInv, SignalsExact, NEW w \in Workers, NEW t \in Threads, coroutine(w, t),
                           NEW u \in Threads \ {t}, NEW s \in Signals
                    PROVE  <<u, s>> \in due' <=> \/ el'[<<u, s>>] \in {IMMEDIATE, Pending(u)}
                                                 \/ \E v \in Workers : Interrupting(v, u, s)'
    <2> USE <1>OthersSignals
    <2> USE DEF IInv, At
    <2> DEFINE e == <<u, s>>
    <2>1. e \in Events /\ Tc(e) = u /\ IsSignal(e) /\ e[2] = s
      BY DEF Events, Tc, IsSignal
    <2>2. /\ \A v \in Workers : Interrupting(v, u, s)' <=> Interrupting(v, u, s)
          /\ e \in due <=> el[e] \in {IMMEDIATE, Pending(u)} \/ \E v \in Workers : Interrupting(v, u, s)
      <3>1. ASSUME NEW v \in Workers PROVE Interrupting(v, u, s)' <=> Interrupting(v, u, s)
        BY <1>StillInterrupting, Zenon
      <3> QED BY <3>1, Zenon DEF SignalsExact
    <2>s. 0 \notin Signals
      <3>1. 0 \in 0..MaxDepth
        BY SchedAssumption
      <3> QED BY <3>1, SchedAssumption, Zenon
    <2> HIDE DEF e
    <2>3. CASE tc_waitq_wakeup(w, t) \/ die_wakeup(w, t)
      <3>1. /\ e \in due' <=> e \in due \/ el'[e] # el[e]
            /\ el'[e] # el[e] => el'[e] = IMMEDIATE
        BY <2>1, <2>3, <1>FiredSignals, Zenon
      <3> QED BY <2>2, <3>1, Zenon DEF e
    <2>4. CASE ~tc_waitq_wakeup(w, t) /\ ~die_wakeup(w, t)
      <3>1. el'[e] = el[e]
        <4>1. ASSUME el'[e] # el[e] PROVE e = <<Arg(t), 0>>
          BY <2>1, <2>4, <4>1, OthersMoved, Zenon
        <4>2. e = <<Arg(t), 0>> => e[2] = 0
          BY SMT
        <4> QED BY <2>1, <2>s, <4>1, <4>2, Zenon
      <3>2. e \in due' <=> e \in due
        <4>1. ASSUME deliver(w), ctx[w] = t, woken_by_event[w] # NULL PROVE e \in due' <=> e \in due
          <5>1. Tc(woken_by_event[w]) = t
            BY <4>1, SchedAssumption, Zenon DEF WokenOK, Woken
          <5> QED BY <2>1, <4>1, <5>1, Zenon DEF deliver
        <4>2. CASE tc_waitq_finish_wait(w, t)
          BY <4>1, <4>2, Zenon DEF tc_waitq_finish_wait, interrupted
        <4>3. CASE yield_done(w, t)
          <5>1. CASE woken_by_event[w] # NULL \/ UNCHANGED due
            BY <4>1, <4>3, <5>1, Zenon DEF yield_done
          <5>2. CASE woken_by_event[w] = NULL /\ deliver(w)
            <6>1. e # NULL
              BY <2>1, SchedAssumption, Zenon
            <6> QED BY <5>2, <6>1, Zenon DEF deliver
          <5> QED BY <4>3, <5>1, <5>2, Zenon DEF yield_done
        <4>4. CASE tc_signal_unsubscribe(w, t)
          <5>1. Tc(<<t, Arg(t)>>) = t
            BY DEF Tc
          <5>2. due' = due \ {<<t, Arg(t)>>}
            BY <4>4, Zenon DEF tc_signal_unsubscribe
          <5> QED BY <2>1, <5>1, <5>2, Zenon
        <4> QED BY <2>4, <4>2, <4>3, <4>4, <1>DueFrame, Zenon
      <3> QED BY <2>2, <3>1, <3>2, Zenon DEF e
    <2> QED BY <2>3, <2>4, Zenon
  \* A call takes the signal it was interrupted by as delivered, or puts it back.
  <1>OwnSignals. ASSUME MaxDepth = 1, IInv, Top, Wakes, SignalsExact,
                        NEW w \in Workers, NEW t \in Threads, coroutine(w, t), NEW s \in Signals
                 PROVE  <<t, s>> \in due' <=> \/ el'[<<t, s>>] \in {IMMEDIATE, Pending(t)}
                                              \/ \E v \in Workers : Interrupting(v, t, s)'
    <2> USE <1>OwnSignals
    <2> USE LInvFromIInv DEF IInv, At
    <2> DEFINE e == <<t, s>>
               Wait == {"finish", "yield_done"}
    <2>0. /\ pc \in [Threads -> ThreadPCs] /\ woken_by_event \in [Workers -> Events \cup {NULL}]
          /\ el \in [Events -> Lists \cup {NULL}] /\ NULL \notin Events /\ NULL \notin Lists
          /\ s \in Queues /\ IMMEDIATE \notin Queues /\ Pending(t) \notin Queues /\ NULL # IMMEDIATE /\ NULL # Pending(t)
      BY SchedAssumption, Zenon DEF TypeOK, Queues, Lists
    <2>1. e \in Events /\ Tc(e) = t /\ IsSignal(e) /\ e[2] = s
      BY DEF Events, Tc, IsSignal
    <2>2. e \in due <=> el[e] \in {IMMEDIATE, Pending(t)} \/ \E v \in Workers : Interrupting(v, t, s)
      BY Zenon DEF SignalsExact
    <2>3. ASSUME NEW v \in Workers, v # w \/ (pc[t] \notin Wait /\ pc'[t] \notin Wait)
          PROVE  Interrupting(v, t, s)' <=> Interrupting(v, t, s)
      BY <2>3, <1>StillInterrupting, Zenon
    <2>4. /\ ctx[w] = t /\ ~Serving(w, t) /\ Flow(w, t)
          /\ ~switch_out(w, t) => ctx'[w] = t
      BY ThreadFrame, <1>Alone, ControlFlow, ZenonT(30)
    <2>5. ~Serving(w, t)'
      BY <2>4, <1>Alone, Zenon
    <2>6. /\ Interrupting(w, t, s) <=> woken_by_event[w] = e /\ pc[t] \in Wait
          /\ Interrupting(w, t, s)' <=> woken_by_event'[w] = e /\ ctx'[w] = t /\ pc'[t] \in Wait
      BY <2>4, <2>5, Zenon DEF Interrupting, Serving
    <2>7. ASSUME NEW v \in Workers, Interrupting(v, t, s), ~switch_out(w, t) PROVE v = w
      <3>1. v # w => ctx[v] # t
        BY <1>Alone, Zenon
      <3>2. ~Serving(v, t)
        BY <2>7, <1>Alone, Zenon
      <3> QED BY <2>7, <3>1, <3>2, Zenon DEF Interrupting, Serving
    <2>8. Depth(t) # 0 => ~IsSignal(Event(t)) /\ Event(t) # e
      BY <2>1, CallFacts, Zenon
    <2> HIDE DEF e
    <2>9. CASE tc_waitq_wakeup(w, t) \/ die_wakeup(w, t)
      <3>1. /\ e \in due' <=> e \in due \/ el'[e] # el[e]
            /\ el'[e] # el[e] => el'[e] = IMMEDIATE
        BY <2>1, <2>9, <1>FiredSignals, Zenon
      <3>2. pc[t] \notin Wait /\ pc'[t] \notin Wait
        BY <2>4, <2>9, Zenon DEF tc_waitq_wakeup, die_wakeup, Flow
      <3> QED BY <2>2, <2>3, <3>1, <3>2, Zenon DEF e
    <2>10. CASE tc_signal_unsubscribe(w, t) \/ tc_signal_subscribe(w, t)
      <3>0. Depth(t) # 0 /\ Arg(t) \in Signals
        <4>1. Depth(t) # 0 /\ Op(t) \in {"subscribe", "unsubscribe"}
          BY <2>10, InCall, Zenon DEF tc_signal_subscribe, tc_signal_unsubscribe, CallsOK, CallOK
        <4> QED BY <4>1, CallFacts, Zenon
      <3>1. pc[t] \notin Wait /\ pc'[t] \notin Wait /\ ~switch_out(w, t)
        BY <2>10, <1>SingleFlow, Zenon DEF tc_signal_subscribe, tc_signal_unsubscribe, switch_out
      <3>2. \A v \in Workers : ~Interrupting(v, t, s) /\ ~Interrupting(v, t, s)'
        BY <2>3, <2>6, <2>7, <3>1, ZenonT(30)
      <3>3. CASE tc_signal_unsubscribe(w, t)
        <4>1. /\ el' = [el EXCEPT ![<<t, Arg(t)>>] = NULL] /\ due' = due \ {<<t, Arg(t)>>}
          BY <3>3, Zenon DEF tc_signal_unsubscribe, remove_event
        <4> QED BY <2>0, <2>1, <2>2, <3>2, <4>1, Zenon DEF e
      <3>4. CASE tc_signal_subscribe(w, t)
        <4>1. el' = [el EXCEPT ![<<t, Arg(t)>>] = Arg(t)] /\ due' = due /\ el[<<t, Arg(t)>>] = NULL
          BY <3>4, Zenon DEF tc_signal_subscribe, add_event, EventsOK
        <4>2. CASE e = <<t, Arg(t)>>
          <5>1. el'[e] = s
            BY <2>0, <2>1, <4>1, <4>2 DEF e
          <5> QED BY <2>0, <2>2, <3>2, <4>1, <4>2, <5>1, Zenon DEF e
        <4>3. CASE e # <<t, Arg(t)>>
          <5>1. el'[e] = el[e]
            BY <2>0, <2>1, <4>1, <4>3, Zenon
          <5> QED BY <2>2, <3>2, <4>1, <5>1, Zenon DEF e
        <4> QED BY <4>2, <4>3, Zenon
      <3> QED BY <2>10, <3>3, <3>4, Zenon

    <2>11. CASE tc_scheduler(w, t)
      <3>1. due' = due /\ pc[t] \notin Wait /\ ~switch_out(w, t)
        BY <2>11, Zenon DEF tc_scheduler, client, switch_out
      <3>2. \A v \in Workers : ~Interrupting(v, t, s)
        BY <2>6, <2>7, <3>1, Zenon
      <3>3. CASE UNCHANGED listVars /\ pending_event(t) = {}
        <4>1. Goto(t, "switch")
          BY <2>11, <3>3, Zenon DEF tc_scheduler
        <4>2. pc'[t] \notin Wait
          BY <2>0, <4>1, Zenon DEF Goto
        <4> QED BY <2>2, <2>3, <3>1, <3>3, <4>2, Zenon DEF listVars, e
      <3>4. CASE \E x \in pending_event(t) : /\ consume_event(x)
                                             /\ woken_by_event' = [woken_by_event EXCEPT ![w] = x]
        <4>1. PICK x \in pending_event(t) : /\ consume_event(x)
                                            /\ woken_by_event' = [woken_by_event EXCEPT ![w] = x]
          BY <3>4, Zenon
        <4>2. x \in Events /\ el[x] = Pending(t)
          BY <4>1, PendingEvent, Zenon
        <4>3. el' = [el EXCEPT ![x] = IF IsSignal(x) THEN x[2] ELSE NULL] /\ woken_by_event'[w] = x
          BY <2>0, <4>1, <4>2, ConsumeEventLists, Zenon
        <4>4. pc'[t] \in Wait
          <5>1. ~(pending_event(t) = {})
            BY <4>1, Zenon
          <5>2. Goto(t, resume_pc(t))
            BY <2>11, <5>1, Zenon DEF tc_scheduler
          <5> QED BY <2>0, <5>2, Zenon DEF Goto, resume_pc
        <4>5. CASE x = e
          <5>1. Interrupting(w, t, s)'
            BY <2>4, <2>6, <3>1, <4>3, <4>4, <4>5, Zenon
          <5> QED BY <2>2, <3>1, <4>2, <4>5, <5>1, Zenon DEF e
        <4>6. CASE x # e
          <5>1. el'[e] = el[e] /\ ~Interrupting(w, t, s)'
            BY <2>0, <2>1, <2>6, <4>3, <4>6, Zenon
          <5> QED BY <2>2, <2>3, <3>1, <3>2, <5>1, Zenon DEF e
        <4> QED BY <4>5, <4>6, Zenon
      <3> QED BY <2>11, <3>3, <3>4, ZenonT(30) DEF tc_scheduler
    <2>12. CASE tc_waitq_finish_wait(w, t) \/ yield_done(w, t)
      <3>1. Depth(t) # 0 /\ ~switch_out(w, t) /\ pc'[t] \notin Wait /\ pc[t] \in Wait \cup {"finish_true"}
        BY <2>4, <2>12, InCall, ZenonT(30) DEF tc_waitq_finish_wait, yield_done, switch_out, Flow
      <3>2. \A v \in Workers : ~Interrupting(v, t, s)' /\ (Interrupting(v, t, s) => v = w)
        BY <2>3, <2>6, <2>7, <3>1, ZenonT(30)
      <3>3. e \in due <=> el[e] \in {IMMEDIATE, Pending(t)} \/ Interrupting(w, t, s)
        BY <2>2, <3>2, Zenon
      <3>4. ASSUME el'[e] = el[e], deliver(w), pc[t] \in Wait
            PROVE  e \in due' <=> el'[e] \in {IMMEDIATE, Pending(t)}
        <4>1. CASE woken_by_event[w] = e
          <5>1. due' = IF el[e] \in {IMMEDIATE, Pending(t)} THEN due ELSE due \ {e}
            BY <2>1, <3>4, <4>1, Zenon DEF deliver
          <5> QED BY <3>3, <3>4, <5>1, Zenon
        <4>2. CASE woken_by_event[w] # e
          <5>1. e \in due' <=> e \in due
            BY <3>4, <4>2, Zenon DEF deliver
          <5> QED BY <2>6, <3>3, <3>4, <4>2, <5>1, ZenonT(30)
        <4> QED BY <4>1, <4>2, Zenon
      <3>5. ASSUME el'[e] = el[e], due' = due, woken_by_event[w] # e
            PROVE  e \in due' <=> el'[e] \in {IMMEDIATE, Pending(t)}
        BY <2>6, <3>3, <3>5, ZenonT(30)
      <3>6. pc[t] = "finish_true" => woken_by_event[w] = NULL
        BY <2>4, Zenon DEF Wakes
      <3>7. ASSUME leave(Event(t)) \/ remove_event(Event(t)) \/ UNCHANGED listVars PROVE el'[e] = el[e]
        <4>1. el' = el \/ el' = [el EXCEPT ![Event(t)] = NULL]
          BY <3>7, Zenon DEF leave, remove_event, listVars
        <4> QED BY <2>0, <2>1, <2>8, <3>1, <4>1, Zenon
      <3>8. CASE tc_waitq_finish_wait(w, t)
        <4>1. CASE optimal(w, t) /\ leave(Event(t)) /\ due' = due
          <5>1. woken_by_event[w] # e
            BY <2>0, <2>1, <2>8, <3>1, <4>1, Zenon DEF optimal
          <5> QED BY <3>2, <3>5, <3>7, <4>1, <5>1, Zenon DEF e
        <4>2. CASE /\ interrupted(w, t) /\ requeue_signal(Event(t), woken_by_event[w]) /\ due' = due
          <5>1. Tc(Event(t)) = t /\ Event(t) \in Events /\ Event(t) # e
            BY <2>8, <3>1, CallFacts, Zenon
          <5>2. el' = [el EXCEPT ![Event(t)] = NULL, ![woken_by_event[w]] = Pending(t)]
            BY <4>2, <5>1, Zenon DEF requeue_signal
          <5>3. pc[t] \in Wait
            BY <3>1, <3>6, <4>2, Zenon DEF interrupted
          <5>4. CASE woken_by_event[w] = e
            <6>1. el'[e] = Pending(t)
              BY <2>0, <2>1, <5>2, <5>4, Zenon
            <6>2. e \in due'
              BY <2>6, <3>3, <4>2, <5>3, <5>4, Zenon
            <6> QED BY <6>1, <6>2, Zenon DEF e
          <5>5. CASE woken_by_event[w] # e
            <6>1. el'[e] = el[e]
              BY <2>0, <2>1, <5>1, <5>2, <5>5, Zenon
            <6> QED BY <3>2, <3>5, <4>2, <5>5, <6>1, Zenon DEF e
          <5> QED BY <5>4, <5>5, Zenon
        <4>3. CASE interrupted(w, t) /\ leave(Event(t)) /\ (IF pc[t] = "finish" THEN deliver(w) ELSE UNCHANGED due)
          <5>1. pc[t] = "finish" /\ deliver(w)
            <6>1. pc[t] = "finish"
              BY <3>6, <3>8, <4>3, ZenonT(30) DEF interrupted, tc_waitq_finish_wait
            <6> QED BY <4>3, <6>1, Zenon
          <5> QED BY <3>2, <3>4, <3>7, <4>3, <5>1, Zenon DEF e
        <4> QED BY <3>8, <4>1, <4>2, <4>3, ZenonT(30) DEF tc_waitq_finish_wait
      <3>9. CASE yield_done(w, t)
        <4>1. CASE remove_event(Event(t)) /\ deliver(w)
          <5>1. pc[t] \in Wait
            BY <3>9, Zenon DEF yield_done
          <5> QED BY <3>2, <3>4, <3>7, <4>1, <5>1, Zenon DEF e
        <4>2. CASE woken_by_event[w] = Event(t) /\ UNCHANGED <<listVars, due>>
          <5>1. woken_by_event[w] # e
            BY <2>8, <3>1, <4>2, Zenon
          <5> QED BY <3>2, <3>5, <3>7, <4>2, <5>1, Zenon DEF e
        <4> QED BY <3>9, <4>1, <4>2, Zenon DEF yield_done
      <3> QED BY <2>12, <3>8, <3>9, Zenon
    <2>13. CASE /\ ~tc_waitq_wakeup(w, t) /\ ~die_wakeup(w, t) /\ ~tc_signal_unsubscribe(w, t)
                /\ ~tc_waitq_finish_wait(w, t) /\ ~yield_done(w, t) /\ ~tc_scheduler(w, t)
                /\ ~tc_signal_subscribe(w, t)
      <3>1. due' = due
        BY <2>13, <1>DueFrame, Zenon
      <3>2. pc[t] \notin Wait /\ pc'[t] \notin Wait
        BY <2>4, <2>13, Zenon DEF Flow
      <3>3. el'[e] = el[e]
        <4>1. ASSUME el'[e] # el[e] PROVE e = Event(t) /\ Depth(t) # 0
          <5>1. Moved(w, t, e)
            BY <2>1, <4>1, ThreadMoves, Zenon
          <5>2. e # <<Arg(t), 0>> /\ e # <<t, 0>>
            <6>1. s # 0
              <7>1. 0 \in 0..MaxDepth
                BY SchedAssumption
              <7> QED BY <7>1, SchedAssumption, Zenon
            <6> QED BY <6>1, Zenon DEF e
          <5>3. /\ tc_waitq_prepare_to_wait(w, t) \/ tc_thread_wait(w, t) \/ tc_sched_yield(w, t)
                /\ e = Event(t)
            BY <2>13, <5>1, <5>2, Zenon DEF Moved
          <5> QED BY <5>3, InCall, Zenon DEF tc_waitq_prepare_to_wait, tc_thread_wait, tc_sched_yield
        <4> QED BY <2>8, <4>1, Zenon
      <3> QED BY <2>2, <2>3, <3>1, <3>2, <3>3, Zenon DEF e
    <2> QED BY <2>9, <2>10, <2>11, <2>12, <2>13, Zenon
  \* tc_signal_fire(), tc_scheduler() and the interrupted calls keep the account.
  <1>CoroutineSignals. ASSUME MaxDepth = 1, IInv, Top, Wakes, SignalsExact,
                              NEW w \in Workers, NEW t \in Threads, coroutine(w, t)
                       PROVE  SignalsExact'
    <2> USE <1>CoroutineSignals
    <2> SUFFICES ASSUME NEW u \in Threads, NEW s \in Signals
                 PROVE  <<u, s>> \in due' <=> \/ el'[<<u, s>>] \in {IMMEDIATE, Pending(u)}
                                              \/ \E v \in Workers : Interrupting(v, u, s)'
      BY Zenon DEF SignalsExact
    <2>1. CASE u = t
      BY <2>1, <1>OwnSignals, Zenon
    <2>2. CASE u # t
      BY <2>2, <1>OthersSignals, Zenon
    <2> QED BY <2>1, <2>2, Zenon
  <1> SUFFICES ASSUME IInv, SingleInv, [Next]_vars PROVE SingleInv'
    BY Zenon
  <1> USE DEF SingleInv
  <1>1. ASSUME NEW w \in Workers, worker(w) PROVE SingleInv'
    BY <1>1, <1>WorkerTop, <1>WorkerWakes, <1>WorkerAwaited, <1>WorkerSignals, Zenon
  <1>2. ASSUME NEW w \in Workers, NEW t \in Threads, coroutine(w, t) PROVE SingleInv'
    BY <1>2, <1>CoroutineTop, <1>CoroutineWakes, <1>CoroutineAwaited, <1>CoroutineSignals, Zenon
  <1>3. CASE UNCHANGED vars
    <2>1. UNCHANGED <<el, calls, pc, event_stack, ctx, target, wpc, woken_by_event, due>>
      BY <1>3, Zenon DEF vars, parked, client, listVars, stkVars
    <2>2. Top' /\ Wakes'
      BY <2>1, ZenonT(30) DEF Top, Wakes, WokenFor, IsSignal, Serving, Event, Depth
    <2>3. Awaited'
      BY <2>1, Zenon DEF Awaited, Serving, Event, Depth
    <2>4. SignalsExact'
      BY <2>1, ZenonT(30) DEF SignalsExact, Interrupting
    <2> QED BY <2>2, <2>3, <2>4, ZenonT(30)
  <1> QED BY <1>1, <1>2, <1>3, Zenon DEF Next

\* "Signals are guaranteed to get delivered once": if no wait condition sleeps, a signal is
\* due exactly while it is queued or interrupts a call.
THEOREM SignalsCorrect == ASSUME MaxDepth = 1 PROVE Spec => []SignalsExact
  <1>1. Init => SingleInv
    BY InitSingle, Zenon DEF SingleInv
  <1>2. IInv /\ SingleInv /\ [Next]_vars => SingleInv'
    BY StepSingle, Zenon
  <1>3. SingleInv => SignalsExact
    BY Zenon DEF SingleInv
  <1> QED BY <1>1, <1>2, <1>3, Inductive, PTL DEF Spec
=============================================================================
