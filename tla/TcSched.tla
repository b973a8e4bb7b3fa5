------------------------------ MODULE TcSched ------------------------------
(***************************************************************************)
(* The scheduler core of libtcr (tcr/threaded_cr.c): worker pthreads that  *)
(* multiplex tc_threads (coroutines), the event lists they are woken       *)
(* through, wait queues, signals, tc_sched_yield, and the life of a        *)
(* tc_thread from tc_thread_new to tc_thread_free.                         *)
(*                                                                         *)
(* One action is one critical section (or one system call) of the code.    *)
(* A section that takes several spinlocks holds them to its end, so only   *)
(* common.immediate.lock is a variable: _run_immediate keeps it over       *)
(* several run_or_queue calls.  One scheduler domain; file descriptors,    *)
(* timers and AIO, the other sources of events, are not part of it.        *)
(***************************************************************************)
EXTENDS EventLists, FiniteSets

CONSTANTS
    Workers,    \* the worker pthreads of the domain
    Threads,    \* the tc_threads that may be created
    Main,       \* the tc_thread tc_run() starts
    Waitqs,     \* the client's wait queues, each with a counted condition
    Signals,    \* the client's tc_signals
    Home,       \* Home[t]: the worker t was pinned to (TF_AFFINE), or NULL
    Calls,      \* Calls[t][i]: the calls t may make as its i-th; then it exits
    MaxDepth,   \* how deep calls nest (a call made inside a wait condition)
    Rounds,     \* rounds of run_immediate() before it polls (4 in the code)
    PerWorker,  \* queued events per worker it takes for few (2 in the code)
    IMMEDIATE,  \* the name of the list common.immediate
    NULL

\* The event embedded in a tc_thread has number 0, the one its d-th nested
\* call keeps on the C stack number d, its subscription to s "number" s.
Events == Threads \X (0..MaxDepth \cup Signals)

Blocking == {"wait_event", "wait", "join", "yield"}
Call == ({"wait_event", "wait", "wakeup_one", "wakeup_all"} \X Waitqs)
   \cup ({"subscribe", "unsubscribe", "fire"} \X Signals)
   \cup ({"new", "join"} \X Threads)
   \cup {<<"yield", NULL>>}

Queues     == Waitqs \cup Signals \cup Threads  \* thread t names t->exit_waiters
Pending(t) == <<"pending", t>>
Lists      == {IMMEDIATE} \cup Queues \cup {Pending(t) : t \in Threads}

ASSUME SchedAssumption ==
    /\ Main \in Threads
    /\ MaxDepth \in Nat \ {0} /\ Rounds \in Nat \ {0} /\ PerWorker \in Nat
    /\ NULL \notin Workers \cup Threads \cup Events \cup Lists
    /\ Signals \cap (0..MaxDepth) = {}
    /\ Waitqs \cap Signals = {} /\ (Waitqs \cup Signals) \cap Threads = {}
    /\ \A t \in Threads : Pending(t) \notin Queues \cup {IMMEDIATE}
    /\ IMMEDIATE \notin Queues
    /\ Home \in [Threads -> Workers \cup {NULL}]
    /\ Calls \in [Threads -> Seq(SUBSET Call)]
    /\ IsFiniteSet(Workers)

VARIABLES
    list,             \* the event lists: immediate, pending, wq->waiters
    el,               \* e->el
    immediate_count,  \* common.immediate_count
    refcnt,           \* tc->refcnt
    immLock,          \* the worker inside _run_immediate's locked search
    TF_RUNNING,       \* tc->flags & TF_RUNNING
    running,          \* tc->running: the worker that holds this spinlock
    worker_nr,        \* tc->worker_nr (NULL: FREE_WORKER)
    event_stack,      \* tc->event_stack
    next_in_stack,    \* e->next_in_stack
    threads,          \* domain->threads.list
    ctx,              \* the coroutine whose stack a worker is on (NULL: sched_p2)
    wpc,              \* where a worker is in scheduler_part2()
    pass,             \* the nr argument of the current _run_immediate()
    did,              \* run_immediate()'s did, then have_work
    round,            \* run_immediate()'s i
    target,           \* the tc_thread run_or_queue() returned
    woken_by_event,   \* worker->woken_by_event
    efd,              \* immediate_fd's counter is not zero
    armed,            \* immediate_fd is enabled in epoll (EPOLLONESHOT)
    pc,               \* where a tc_thread is
    calls,            \* its calls in progress, the innermost last
    made,             \* how many calls of Calls[t] it has made
    avail,            \* the client's condition on q is avail[q] > 0
    due               \* history: signals fired at t and not yet delivered

listVars == <<list, el, immediate_count, refcnt>>
stkVars  == <<event_stack, next_in_stack>>
runVars  == <<TF_RUNNING, running, worker_nr>>
loopVars == <<pass, did, round>>
fdVars   == <<efd, armed>>
client   == <<stkVars, threads, calls, made, avail, due>>  \* not a worker's
parked   == <<listVars, immLock, runVars, ctx, woken_by_event, pc, client>>
host     == <<immLock, runVars, ctx, wpc, loopVars, target, armed>>  \* not a thread's
vars     == <<parked, wpc, loopVars, target, fdVars>>

-----------------------------------------------------------------------------
(* Events and event lists. *)

Tc(e)        == e[1]
IsSignal(e)  == e[2] \in Signals
IsExiting(e) == e[2] = 0 /\ pc[Tc(e)] # "start"

CIRCLEQ_REMOVE(s, e) == RemoveAt(s, CHOOSE i \in DOMAIN s : s[i] = e)

Del(L, e)    == IF el[e] = NULL THEN L ELSE [L EXCEPT ![el[e]] = CIRCLEQ_REMOVE(@, e)]
Ins(L, e, l) == [L EXCEPT ![l] = Append(@, e)]

OnImmediateMissed(e) == 0
OnImmediate(e) == IF el[e] = IMMEDIATE THEN 1 ELSE 0

remove_event(e) ==
    /\ list' = Del(list, e)
    /\ el' = [el EXCEPT ![e] = NULL]
    /\ refcnt' = [refcnt EXCEPT ![Tc(e)] = @ - 1]
    /\ immediate_count' = immediate_count - OnImmediate(e)

add_event(e, l) ==
    /\ list' = Ins(list, e, l)
    /\ el' = [el EXCEPT ![e] = l]
    /\ refcnt' = [refcnt EXCEPT ![Tc(e)] = @ + 1]
    /\ UNCHANGED immediate_count

add_event_cr(e) ==
    /\ immLock = NULL
    /\ list' = Ins(list, e, IMMEDIATE)
    /\ el' = [el EXCEPT ![e] = IMMEDIATE]
    /\ refcnt' = [refcnt EXCEPT ![Tc(e)] = @ + 1]
    /\ immediate_count' = immediate_count + 1

move_event_put(e, l) == \* drops a reference, as remove_event() does
    /\ list' = Ins(Del(list, e), e, l)
    /\ el' = [el EXCEPT ![e] = l]
    /\ immediate_count' = immediate_count - OnImmediate(e)
    /\ refcnt' = [refcnt EXCEPT ![Tc(e)] = @ - 1]
move_event(e, l) ==
    /\ list' = Ins(Del(list, e), e, l)
    /\ el' = [el EXCEPT ![e] = l]
    /\ immediate_count' = immediate_count - OnImmediate(e)
    /\ UNCHANGED refcnt

\* An event that gets its thread going: a signal goes back to its wait queue.
consume_event(e) == IF IsSignal(e) THEN move_event(e, e[2]) ELSE remove_event(e)

event_on_tc_stack(e) ==
    /\ next_in_stack' = [next_in_stack EXCEPT ![e] = event_stack[Tc(e)]]
    /\ event_stack' = [event_stack EXCEPT ![Tc(e)] = e]

pop_event_stack(e) ==
    /\ event_stack' = [event_stack EXCEPT ![Tc(e)] = next_in_stack[e]]
    /\ next_in_stack' = [next_in_stack EXCEPT ![e] = NULL]

-----------------------------------------------------------------------------
(* The worker: scheduler_part2() and what it calls. *)

wanted(w, e) ==
    \/ pass[w] = "any"
    \/ pass[w] = "own" /\ worker_nr[Tc(e)] = w
    \/ pass[w] = "free" /\ Home[Tc(e)] = NULL

\* One _run_immediate() is over; on to the next pass of the round.
pass_done(w, ran) ==
    /\ did' = [did EXCEPT ![w] = @ \/ ran]
    /\ pass' = [pass EXCEPT ![w] = IF @ = "own" THEN "free" ELSE "any"]
    /\ wpc' = [wpc EXCEPT ![w] = IF pass[w] = "any" THEN "round" ELSE "search"]

\* `continue' in scheduler_part2(): run_immediate() from its beginning.
restart(w) ==
    /\ did' = [did EXCEPT ![w] = TRUE]
    /\ round' = [round EXCEPT ![w] = Rounds]
    /\ wpc' = [wpc EXCEPT ![w] = "round"]
    /\ UNCHANGED <<pass, target>>

more_rounds(w) == did[w] /\ round[w] > 0

\* The head of run_immediate()'s loop, or its end and the way into epoll_wait().
run_immediate(w) ==
    /\ wpc[w] = "round"
    /\ IF more_rounds(w)
       THEN LET few == immediate_count < Cardinality(Workers) * PerWorker IN
            /\ round' = [round EXCEPT ![w] = @ - 1]
            /\ did' = [did EXCEPT ![w] = ~few]
            /\ pass' = [pass EXCEPT ![w] = IF few THEN "own" ELSE "any"]
            /\ wpc' = [wpc EXCEPT ![w] = "search"]
       ELSE /\ wpc' = [wpc EXCEPT ![w] = "epoll_wait"]
            /\ UNCHANGED loopVars
    /\ UNCHANGED <<parked, target, fdVars>>

\* TF_RUNNING, or some event that is not the one its thread waits for last.
must_queue_idle(e) == \* forgets that the thread may be running
    ~IsSignal(e) /\ event_stack[Tc(e)] \notin {NULL, e}
must_queue_signals(e) == \* forgets that a signal interrupts any wait
    TF_RUNNING[Tc(e)] \/ event_stack[Tc(e)] \notin {NULL, e}
must_queue(e) ==
    \/ TF_RUNNING[Tc(e)]
    \/ ~IsSignal(e) /\ event_stack[Tc(e)] \notin {NULL, e}

\* The first event on the immediate list that this pass wants, if any.
first_wanted(w) ==
    LET I == {i \in DOMAIN list[IMMEDIATE] : wanted(w, list[IMMEDIATE][i])}
    IN  {list[IMMEDIATE][i] : i \in {j \in I : \A k \in I : j <= k}}

\* _run_immediate() looks for work; it may already hold the list's lock.
searching(w) == wpc[w] = "search" /\ immLock \in {NULL, w}

search_none(w) ==
    /\ searching(w)
    /\ first_wanted(w) = {}
    /\ immLock' = NULL
    /\ pass_done(w, FALSE)
    /\ UNCHANGED <<listVars, runVars, ctx, round, target, woken_by_event, fdVars, pc, client>>

search_queue(w) ==
    /\ searching(w)
    /\ \E e \in first_wanted(w) :
          /\ ~IsExiting(e) /\ must_queue(e)
          /\ move_event(e, Pending(Tc(e)))
    /\ immLock' = w
    /\ UNCHANGED <<runVars, ctx, wpc, loopVars, target, woken_by_event, fdVars, pc, client>>

\* "More work available, wakeup an worker".
iwi_forgotten == UNCHANGED efd
iwi_more_work == efd' = (efd \/ list'[IMMEDIATE] # <<>>)

search_run(w) ==
    /\ searching(w)
    /\ \E e \in first_wanted(w) :
          /\ ~IsExiting(e) /\ ~must_queue(e)
          /\ consume_event(e)
          /\ TF_RUNNING' = [TF_RUNNING EXCEPT ![Tc(e)] = TRUE]
          /\ woken_by_event' = [woken_by_event EXCEPT ![w] = e]
          /\ target' = [target EXCEPT ![w] = Tc(e)]
    /\ iwi_more_work
    /\ immLock' = NULL
    /\ wpc' = [wpc EXCEPT ![w] = "switch_to"]
    /\ UNCHANGED <<running, worker_nr, ctx, loopVars, armed, pc, client>>

search_exiting(w) ==
    /\ searching(w)
    /\ \E e \in first_wanted(w) :
          /\ IsExiting(e)
          /\ remove_event(e)
          /\ target' = [target EXCEPT ![w] = Tc(e)]
    /\ immLock' = NULL
    /\ wpc' = [wpc EXCEPT ![w] = "thread_free"]
    /\ UNCHANGED <<runVars, ctx, loopVars, woken_by_event, fdVars, pc, client>>

\* The innermost call in progress, and where control goes.
Depth(t) == Len(calls[t])
Op(t)    == calls[t][Depth(t)][1]
Arg(t)   == calls[t][Depth(t)][2]
Event(t) == <<t, Depth(t)>>
Goto(t, l) == pc' = [pc EXCEPT ![t] = l]
Return(t) ==
    /\ calls' = [calls EXCEPT ![t] = SubSeq(@, 1, Depth(t) - 1)]
    /\ Goto(t, IF Depth(t) = 1 THEN "user" ELSE "cond")

\* Behind the tc_scheduler() call that left the thread's stack.
resume_pc(t) == IF Op(t) = "yield" THEN "yield_done" ELSE "finish"

switch_to(w) ==
    /\ wpc[w] = "switch_to"
    /\ worker_nr' = [worker_nr EXCEPT ![target[w]] =
                        IF Home[target[w]] = NULL THEN w ELSE @]
    /\ wpc' = [wpc EXCEPT ![w] = "spin"]
    /\ UNCHANGED <<listVars, immLock, TF_RUNNING, running, ctx, loopVars, target,
                   woken_by_event, fdVars, pc, client>>

\* spin_lock(&new->running), then the worker is on the thread's stack, at its
\* beginning (tc_setup) or where it was left.
may_enter(t) == running[t] = NULL

switch_in(w) ==
    LET t == target[w] IN
    /\ wpc[w] = "spin"
    /\ may_enter(t)
    /\ running' = [running EXCEPT ![t] = w]
    /\ ctx' = [ctx EXCEPT ![w] = t]
    /\ wpc' = [wpc EXCEPT ![w] = "coroutine"]
    /\ target' = [target EXCEPT ![w] = NULL]
    /\ woken_by_event' = [woken_by_event EXCEPT ![w] = IF pc[t] = "start" THEN NULL ELSE @]
    /\ Goto(t, IF pc[t] = "start" THEN "user" ELSE resume_pc(t))
    /\ UNCHANGED <<listVars, immLock, TF_RUNNING, worker_nr, loopVars, fdVars, client>>

tc_thread_free(w) ==
    LET t == target[w] IN
    /\ wpc[w] = "thread_free"
    /\ may_enter(t)
    /\ running' = [running EXCEPT ![t] = w]
    /\ Goto(t, "freed")
    /\ efd' = TRUE
    /\ wpc' = [wpc EXCEPT ![w] = "search"]
    /\ target' = [target EXCEPT ![w] = NULL]
    /\ UNCHANGED <<listVars, immLock, TF_RUNNING, worker_nr, ctx, loopVars,
                   woken_by_event, armed, client>>

\* epoll_wait() returns IWI_IMMEDIATE; EPOLLONESHOT disables the descriptor.
stays_enabled == UNCHANGED armed
EPOLLONESHOT  == armed' = FALSE

epoll_immediate(w) ==
    /\ wpc[w] = "epoll_wait"
    /\ armed /\ efd
    /\ EPOLLONESHOT
    /\ wpc' = [wpc EXCEPT ![w] = "rearm"]
    /\ UNCHANGED <<parked, loopVars, target, efd>>

\* epoll_wait() with timeout 0 finds nothing.
epoll_timeout(w) ==
    /\ wpc[w] = "epoll_wait"
    /\ did[w] /\ ~(armed /\ efd)
    /\ restart(w)
    /\ UNCHANGED <<parked, fdVars>>

\* rearm_immediate(): read() blocks while the counter is zero.
rearm_read(w) ==
    /\ wpc[w] = "rearm"
    /\ efd
    /\ efd' = FALSE
    /\ wpc' = [wpc EXCEPT ![w] = "arm"]
    /\ UNCHANGED <<parked, loopVars, target, armed>>

arm_immediate(w) ==
    /\ wpc[w] = "arm"
    /\ armed' = TRUE
    /\ restart(w)
    /\ UNCHANGED <<parked, efd>>

-----------------------------------------------------------------------------
(* A tc_thread t on worker w: calls, and what they do. *)

At(w, t, l) == ctx[w] = t /\ pc[t] = l

first_pc ==
    [wait_event |-> "test", wait |-> "prepare", join |-> "join", yield |-> "yield",
     wakeup_one |-> "wakeup", wakeup_all |-> "wakeup", fire |-> "wakeup",
     subscribe |-> "subscribe", unsubscribe |-> "unsubscribe", new |-> "new"]

\* Client code: the next call, from the thread's function or, if it blocks, from
\* the condition of a tc_waitq_wait_event().  A caller of wakeup has just made the
\* condition true once more; a thread is waited for after it was created.
call(w, t) ==
    /\ ctx[w] = t
    /\ made[t] < Len(Calls[t])
    /\ \E c \in Calls[t][made[t] + 1] :
          /\ \/ pc[t] = "user"
             \/ pc[t] = "cond" /\ Depth(t) < MaxDepth /\ c[1] \in Blocking
          /\ c[1] = "join" => pc[c[2]] # "none" /\ c[2] # t
          /\ c[1] = "subscribe" => el[<<t, c[2]>>] = NULL
          /\ c[1] = "unsubscribe" => el[<<t, c[2]>>] # NULL
          /\ calls' = [calls EXCEPT ![t] = Append(@, c)]
          /\ Goto(t, first_pc[c[1]])
          /\ avail' = IF c[1] \in {"wakeup_one", "wakeup_all"}
                      THEN [avail EXCEPT ![c[2]] = @ + 1] ELSE avail
    /\ made' = [made EXCEPT ![t] = @ + 1]
    /\ UNCHANGED <<host, listVars, stkVars, threads, woken_by_event, efd, due>>

\* tc_waitq_wait_event() evaluates the condition before it prepares to wait.
test(w, t) ==
    /\ At(w, t, "test")
    /\ IF avail[Arg(t)] > 0
       THEN avail' = [avail EXCEPT ![Arg(t)] = @ - 1] /\ Return(t)
       ELSE Goto(t, "prepare") /\ UNCHANGED <<calls, avail>>
    /\ UNCHANGED <<host, listVars, stkVars, threads, woken_by_event, efd, made, due>>

prepare_to_wait(w, t) ==
    /\ woken_by_event' = [woken_by_event EXCEPT ![w] = NULL]
    /\ add_event(Event(t), Arg(t))
    /\ event_on_tc_stack(Event(t))

prepared_blind(t) == "scheduler" \* does not evaluate the condition again
prepared(t) == IF Op(t) = "wait_event" THEN "cond" ELSE "scheduler"

tc_waitq_prepare_to_wait(w, t) ==
    /\ At(w, t, "prepare")
    /\ prepare_to_wait(w, t)
    /\ Goto(t, prepared(t))
    /\ UNCHANGED <<host, threads, efd, calls, made, avail, due>>

cond(w, t) ==
    /\ At(w, t, "cond")
    /\ IF avail[Arg(t)] > 0
       THEN avail' = [avail EXCEPT ![Arg(t)] = @ - 1] /\ Goto(t, "finish_true")
       ELSE Goto(t, "scheduler") /\ UNCHANGED avail
    /\ UNCHANGED <<host, listVars, stkVars, threads, woken_by_event, efd, calls, made, due>>

\* The pending event tc_scheduler() goes on with: the one on top of the event
\* stack, else the last signal.
pending_event(t) ==
    LET P    == list[Pending(t)]
        sigs == {i \in DOMAIN P : IsSignal(P[i])}
    IN  IF event_stack[t] = NULL THEN {P[i] : i \in DOMAIN P \cap {1}}
        ELSE IF Contains(P, event_stack[t]) THEN {event_stack[t]}
        ELSE {P[i] : i \in {j \in sigs : \A k \in sigs : k <= j}}

tc_scheduler(w, t) ==
    /\ At(w, t, "scheduler")
    /\ \/ /\ \E e \in pending_event(t) :
                /\ consume_event(e)
                /\ woken_by_event' = [woken_by_event EXCEPT ![w] = e]
          /\ Goto(t, resume_pc(t))
          /\ UNCHANGED TF_RUNNING
       \/ /\ pending_event(t) = {}
          /\ TF_RUNNING' = [TF_RUNNING EXCEPT ![t] = FALSE]
          /\ Goto(t, "switch")
          /\ UNCHANGED <<listVars, woken_by_event>>
    /\ UNCHANGED <<immLock, running, worker_nr, ctx, wpc, loopVars, target, fdVars, client>>

\* _switch_to(&worker->sched_p2): off the stack, then running is released and
\* the worker goes on behind the switch_to() that brought it here.
switch_out_locked(w, t) == \* keeps running locked
    /\ ctx[w] = t /\ pc[t] \in {"switch", "die_switch"}
    /\ ctx' = [ctx EXCEPT ![w] = NULL]
    /\ Goto(t, IF pc[t] = "switch" THEN "parked" ELSE "dead")
    /\ pass_done(w, TRUE)
    /\ UNCHANGED <<listVars, immLock, TF_RUNNING, running, worker_nr, round, target,
                   woken_by_event, fdVars, client>>
switch_out(w, t) ==
    /\ ctx[w] = t /\ pc[t] \in {"switch", "die_switch"}
    /\ running' = [running EXCEPT ![t] = NULL]
    /\ ctx' = [ctx EXCEPT ![w] = NULL]
    /\ Goto(t, IF pc[t] = "switch" THEN "parked" ELSE "dead")
    /\ pass_done(w, TRUE)
    /\ UNCHANGED <<listVars, immLock, TF_RUNNING, worker_nr, round, target,
                   woken_by_event, fdVars, client>>

\* A call that returns RV_INTR delivers the signal (unless fired once more).
deliver(w) ==
    LET s == woken_by_event[w] IN
    due' = IF el[s] \in {IMMEDIATE, Pending(Tc(s))} THEN due ELSE due \ {s}

\* tc_waitq_finish_wait(): the event that got active was the expected one, or
\* it is assert()ed to have been a signal.
optimal(w, t) == event_stack[t] = Event(t) /\ woken_by_event[w] \in {NULL, Event(t)}
interrupted(w, t) ==
    /\ ~optimal(w, t)
    /\ woken_by_event[w] # NULL /\ IsSignal(woken_by_event[w])

was_active(e) == el[e] \in {Pending(Tc(e)), IMMEDIATE}

leave_waiters(e) == \* forgets that the event may have been moved meanwhile
    IF el[e] \in Queues THEN remove_event(e) ELSE UNCHANGED listVars
leave(e) == IF el[e] = NULL THEN UNCHANGED listVars ELSE remove_event(e)

\* "We got a signal, but the expected event got active, too.  Requeue the
\* signal and return OK."
requeue_forgotten(e, s) == leave(e)
requeue_signal(e, s) ==
    /\ list' = Ins(Del(Del(list, e), s), s, Pending(Tc(e)))
    /\ el' = [el EXCEPT ![e] = NULL, ![s] = Pending(Tc(e))]
    /\ refcnt' = [refcnt EXCEPT ![Tc(e)] = @ - (IF el[s] = NULL THEN 0 ELSE 1)]
    /\ immediate_count' = immediate_count - OnImmediate(e) - OnImmediate(s)

tc_waitq_finish_wait(w, t) ==
    LET e == Event(t) IN
    /\ ctx[w] = t /\ pc[t] \in {"finish", "finish_true"}
    /\ immLock = NULL
    /\ \/ /\ \/ optimal(w, t) /\ leave(e)
             \/ interrupted(w, t) /\ was_active(e) /\ requeue_signal(e, woken_by_event[w])
          /\ pop_event_stack(e)
          /\ woken_by_event' = [woken_by_event EXCEPT ![w] = NULL]
          /\ IF pc[t] = "finish" /\ Op(t) = "wait_event"
             THEN Goto(t, "prepare") /\ UNCHANGED calls
             ELSE Return(t)
          /\ UNCHANGED due
       \/ /\ interrupted(w, t) /\ ~was_active(e)
          /\ leave(e)
          /\ Return(t)
          /\ IF pc[t] = "finish" THEN deliver(w) ELSE UNCHANGED due
          /\ UNCHANGED <<stkVars, woken_by_event>>
    /\ UNCHANGED <<host, threads, efd, made, avail>>

tc_sched_yield(w, t) ==
    /\ At(w, t, "yield")
    /\ add_event_cr(Event(t))
    /\ Goto(t, "yield_stack")
    /\ UNCHANGED <<host, woken_by_event, efd, client>>

yield_stack(w, t) ==
    /\ At(w, t, "yield_stack")
    /\ event_on_tc_stack(Event(t))
    /\ Goto(t, "scheduler")
    /\ UNCHANGED <<host, listVars, threads, woken_by_event, efd, calls, made, avail, due>>

\* Behind tc_scheduler() in tc_sched_yield(); remove_event() spins while the
\* event is on no list.
yield_done(w, t) ==
    LET e == Event(t) IN
    /\ At(w, t, "yield_done")
    /\ IF woken_by_event[w] # e
       THEN /\ el[e] # NULL /\ (el[e] = IMMEDIATE => immLock = NULL)
            /\ remove_event(e)
            /\ deliver(w)
            /\ UNCHANGED woken_by_event
       ELSE /\ woken_by_event' = [woken_by_event EXCEPT ![w] = NULL]
            /\ UNCHANGED <<listVars, due>>
    /\ pop_event_stack(e)
    /\ Return(t)
    /\ UNCHANGED <<host, threads, efd, made, avail>>

-----------------------------------------------------------------------------
(* Waking others. *)

\* The first n waiters of q go to the head of the immediate list, one by one.
to_immediate(q, n) ==
    LET moved == {list[q][i] : i \in 1..n} IN
    /\ immLock = NULL
    /\ list' = [list EXCEPT ![IMMEDIATE] = Reverse(SubSeq(list[q], 1, n)) \o @,
                            ![q] = SubSeq(@, n + 1, Len(@))]
    /\ el' = [e \in Events |-> IF e \in moved THEN IMMEDIATE ELSE el[e]]
    /\ immediate_count' = immediate_count + n
    /\ due' = due \cup {e \in moved : IsSignal(e)}
    /\ UNCHANGED refcnt

\* tc_waitq_wakeup_one(), tc_waitq_wakeup_all() and tc_signal_fire().
tc_waitq_wakeup(w, t) ==
    LET n == Len(list[Arg(t)]) IN
    /\ At(w, t, "wakeup")
    /\ to_immediate(Arg(t), IF Op(t) = "wakeup_one" /\ n > 0 THEN 1 ELSE n)
    /\ IF n = 0 THEN Return(t) ELSE Goto(t, "iwi") /\ UNCHANGED calls
    /\ UNCHANGED <<host, stkVars, threads, woken_by_event, efd, made, avail>>

\* _iwi_immediate(): write() to the domain's eventfd, then on.
iwi_immediate(w, t) ==
    /\ ctx[w] = t /\ pc[t] \in {"iwi", "die_wakeup_iwi", "die_iwi"}
    /\ efd' = TRUE
    /\ CASE pc[t] = "iwi" -> Return(t)
         [] pc[t] = "die_wakeup_iwi" -> Goto(t, "die_post") /\ UNCHANGED calls
         [] pc[t] = "die_iwi" -> Goto(t, "die_switch") /\ UNCHANGED calls
    /\ UNCHANGED <<host, listVars, stkVars, threads, woken_by_event, made, avail, due>>

tc_signal_subscribe(w, t) ==
    /\ At(w, t, "subscribe")
    /\ woken_by_event' = [woken_by_event EXCEPT ![w] = NULL]
    /\ add_event(<<t, Arg(t)>>, Arg(t))
    /\ Return(t)
    /\ UNCHANGED <<host, stkVars, threads, efd, made, avail, due>>

tc_signal_unsubscribe(w, t) ==
    /\ At(w, t, "unsubscribe")
    /\ immLock = NULL
    /\ remove_event(<<t, Arg(t)>>)
    /\ due' = due \ {<<t, Arg(t)>>}
    /\ Return(t)
    /\ UNCHANGED <<host, stkVars, threads, woken_by_event, efd, made, avail>>

-----------------------------------------------------------------------------
(* The life of a tc_thread. *)

\* malloc() returns a tc_thread that is not in use.
tc_thread_insert(w, t) ==
    /\ At(w, t, "new")
    /\ pc[Arg(t)] = "none"
    /\ threads' = threads \cup {Arg(t)}
    /\ pc' = [pc EXCEPT ![t] = "new_post", ![Arg(t)] = "start"]
    /\ UNCHANGED <<host, listVars, stkVars, woken_by_event, efd, calls, made, avail, due>>

tc_thread_new(w, t) ==
    /\ At(w, t, "new_post")
    /\ add_event_cr(<<Arg(t), 0>>)
    /\ Goto(t, "iwi")
    /\ UNCHANGED <<host, woken_by_event, efd, client>>

\* tc_thread_wait_ref(): under the domain's lock, wait only for a listed thread.
tc_thread_wait(w, t) ==
    /\ At(w, t, "join")
    /\ IF Arg(t) \in threads
       THEN /\ prepare_to_wait(w, t)
            /\ Goto(t, "scheduler")
            /\ UNCHANGED calls
       ELSE /\ Return(t)
            /\ UNCHANGED <<listVars, stkVars, woken_by_event>>
    /\ UNCHANGED <<host, threads, efd, made, avail, due>>

\* The thread's function returns, all its calls made: tc_die().
tc_die(w, t) ==
    /\ At(w, t, "user")
    /\ made[t] = Len(Calls[t])
    /\ threads' = threads \ {t}
    /\ Goto(t, "die")
    /\ UNCHANGED <<host, listVars, stkVars, woken_by_event, efd, calls, made, avail, due>>

\* A reference that is left stops the program (msg_exit).
die_wakeup(w, t) ==
    /\ At(w, t, "die")
    /\ refcnt[t] = 0
    /\ to_immediate(t, Len(list[t]))
    /\ Goto(t, IF list[t] = <<>> THEN "die_post" ELSE "die_wakeup_iwi")
    /\ UNCHANGED <<host, stkVars, threads, woken_by_event, efd, calls, made, avail>>

die_post(w, t) ==
    /\ At(w, t, "die_post")
    /\ add_event_cr(<<t, 0>>)
    /\ Goto(t, "die_iwi")
    /\ UNCHANGED <<host, woken_by_event, efd, client>>

-----------------------------------------------------------------------------
\* tc_run(): the main tc_thread is queued, then the workers enter the scheduler.
Init ==
    /\ list = [l \in Lists |-> IF l = IMMEDIATE THEN <<<<Main, 0>>>> ELSE <<>>]
    /\ el = [e \in Events |-> IF e = <<Main, 0>> THEN IMMEDIATE ELSE NULL]
    /\ immediate_count = 1
    /\ immLock = NULL
    /\ refcnt = [t \in Threads |-> IF t = Main THEN 1 ELSE 0]
    /\ TF_RUNNING = [t \in Threads |-> FALSE]
    /\ running = [t \in Threads |-> NULL]
    /\ event_stack = [t \in Threads |-> NULL]
    /\ next_in_stack = [e \in Events |-> NULL]
    /\ worker_nr = Home
    /\ threads = {Main}
    /\ ctx = [w \in Workers |-> NULL]
    /\ wpc = [w \in Workers |-> "round"]
    /\ pass = [w \in Workers |-> "own"]
    /\ did = [w \in Workers |-> TRUE]
    /\ round = [w \in Workers |-> Rounds]
    /\ target = [w \in Workers |-> NULL]
    /\ woken_by_event = [w \in Workers |-> NULL]
    /\ efd = TRUE
    /\ armed = TRUE
    /\ pc = [t \in Threads |-> IF t = Main THEN "start" ELSE "none"]
    /\ calls = [t \in Threads |-> <<>>]
    /\ made = [t \in Threads |-> 0]
    /\ avail = [q \in Waitqs |-> 0]
    /\ due = {}

worker(w) ==
    \/ run_immediate(w) \/ search_none(w) \/ search_queue(w) \/ search_run(w)
    \/ search_exiting(w) \/ switch_to(w) \/ switch_in(w) \/ tc_thread_free(w)
    \/ epoll_immediate(w) \/ epoll_timeout(w) \/ rearm_read(w) \/ arm_immediate(w)

coroutine(w, t) ==
    \/ call(w, t) \/ test(w, t) \/ tc_waitq_prepare_to_wait(w, t) \/ cond(w, t)
    \/ tc_scheduler(w, t) \/ switch_out(w, t) \/ tc_waitq_finish_wait(w, t)
    \/ tc_sched_yield(w, t) \/ yield_stack(w, t) \/ yield_done(w, t)
    \/ tc_waitq_wakeup(w, t) \/ iwi_immediate(w, t)
    \/ tc_signal_subscribe(w, t) \/ tc_signal_unsubscribe(w, t)
    \/ tc_thread_insert(w, t) \/ tc_thread_new(w, t) \/ tc_thread_wait(w, t)
    \/ tc_die(w, t) \/ die_wakeup(w, t) \/ die_post(w, t)

Next == \E w \in Workers : worker(w) \/ \E t \in Threads : coroutine(w, t)

Spec == Init /\ [][Next]_vars

\* The kernel keeps every worker pthread running, whatever code it executes.
FairSpec == Spec /\ \A w \in Workers :
                       WF_vars(worker(w) \/ \E t \in Threads : coroutine(w, t))

-----------------------------------------------------------------------------
(* Properties. *)

WorkerPCs == {"round", "search", "switch_to", "spin", "thread_free", "coroutine",
              "epoll_wait", "rearm", "arm"}
OffPCs    == {"none", "start", "parked", "dead", "freed"}
ThreadPCs == OffPCs \cup
             {"user", "test", "prepare", "cond", "scheduler", "switch", "finish",
              "finish_true", "yield", "yield_stack", "yield_done", "wakeup", "iwi",
              "subscribe", "unsubscribe", "new", "new_post", "join", "die",
              "die_wakeup_iwi", "die_post", "die_iwi", "die_switch"}

\* Type invariant: every variable of the scheduler has its type.
TypeOK ==
    /\ list \in [Lists -> Seq(Events)]
    /\ el \in [Events -> Lists \cup {NULL}]
    /\ immediate_count \in Int
    /\ immLock \in Workers \cup {NULL}
    /\ refcnt \in [Threads -> Int]
    /\ TF_RUNNING \in [Threads -> BOOLEAN]
    /\ running \in [Threads -> Workers \cup {NULL}]
    /\ event_stack \in [Threads -> Events \cup {NULL}]
    /\ next_in_stack \in [Events -> Events \cup {NULL}]
    /\ worker_nr \in [Threads -> Workers \cup {NULL}]
    /\ threads \subseteq Threads
    /\ ctx \in [Workers -> Threads \cup {NULL}]
    /\ wpc \in [Workers -> WorkerPCs]
    /\ pass \in [Workers -> {"own", "free", "any"}]
    /\ did \in [Workers -> BOOLEAN]
    /\ round \in [Workers -> 0..Rounds]
    /\ target \in [Workers -> Threads \cup {NULL}]
    /\ woken_by_event \in [Workers -> Events \cup {NULL}]
    /\ efd \in BOOLEAN /\ armed \in BOOLEAN
    /\ pc \in [Threads -> ThreadPCs]
    /\ calls \in [Threads -> Seq(Call)]
    /\ made \in [Threads -> Nat]
    /\ avail \in [Waitqs -> Nat]
    /\ due \subseteq Events

\* A worker that is on t's stack, or has been told by run_or_queue() to go there.
Claims(w, t) ==
    \/ ctx[w] = t /\ pc[t] # "switch"
    \/ target[w] = t /\ wpc[w] \in {"switch_to", "spin"}

\* No stack is active twice, and none is freed under a worker ("bad stack
\* corruption", _switch_to): the worker on a thread's stack holds its running
\* lock, the scheduler claims a thread for one worker at a time, and a thread
\* that is on its way to be freed is claimed by no other worker.
StackExclusive ==
    /\ \A w \in Workers, t \in Threads :
          ctx[w] = t => running[t] = w /\ pc[t] \notin OffPCs
    /\ \A w, v \in Workers, t \in Threads : Claims(w, t) /\ Claims(v, t) => w = v
    /\ \A w, v \in Workers : wpc[w] = "thread_free" =>
          /\ pc[target[w]] \in {"die_iwi", "die_switch", "dead"}
          /\ target[v] = target[w] => v = w

\* TF_RUNNING says exactly that some worker claims the thread; run_or_queue()
\* relies on it to hand an event to the thread instead of waking it again.
RunningFlagExact ==
    \A t \in Threads : pc[t] \notin {"dead", "freed"} =>
        (TF_RUNNING[t] <=> \E w \in Workers : Claims(w, t))

\* e->el names the one list an event is on, and on it once (remove_event() locks
\* e->el only); immediate_count is the length of the immediate list.
ListsConsistent ==
    /\ \A l \in Lists : IsInjective(list[l])
    /\ \A l \in Lists, e \in Events : Contains(list[l], e) <=> el[e] = l
    /\ immediate_count = Len(list[IMMEDIATE])

\* tc_die() trusts refcnt to say whether an event of the thread is on any list.
RefcntExact ==
    \A t \in Threads : refcnt[t] = Cardinality({e \in Events : Tc(e) = t /\ el[e] # NULL})

\* A thread that exits, and one that is behind tc_die()'s check of refcnt.
DiePCs   == {"die", "die_wakeup_iwi", "die_post", "die_iwi", "die_switch", "dead", "freed"}
DyingPCs == DiePCs \ {"die"}

\* Events live on C stacks and in tc_threads: an event that is on a list belongs
\* to a call still in progress, to a live subscription or to a thread that is
\* starting or not yet freed, so no list leads into a dead frame or freed memory.
\* (At "die" a forgotten subscription is still there; tc_die() stops the program.)
NoDanglingEvent ==
    \A e \in Events : el[e] # NULL =>
        LET t == Tc(e) IN
        CASE IsSignal(e) -> pc[t] \notin DyingPCs \cup {"none", "start"}
          [] e[2] = 0    -> pc[t] \in {"start", "die_iwi", "die_switch", "dead"}
          [] OTHER       -> e[2] <= Depth(t) /\ calls[t][e[2]][1] \in Blocking
                            /\ (e[2] = Depth(t) => pc[t] \notin {"test", "prepare", "yield"})

\* A thread that went to sleep has left no event behind in tc->pending that
\* would have kept it awake (the hand-shake of tc_scheduler() and run_or_queue()
\* through TF_RUNNING and pending.lock).
NothingLeftPending ==
    \A t \in Threads : ~TF_RUNNING[t] => pending_event(t) = {}

\* A worker that looks through the whole immediate list before it sleeps.
WillSearch(w) ==
    \/ wpc[w] \in {"search", "thread_free", "rearm", "arm"}
    \/ wpc[w] \in {"round", "epoll_wait"} /\ did[w]

\* A thread inside a library call that is about to write the eventfd, or to
\* enter the scheduler itself.
WillInterrupt(t) ==
    \/ pc[t] \in {"iwi", "die_wakeup_iwi", "die_iwi"}
    \/ pc[t] = "yield_done"
    \/ pc[t] \in {"yield_stack", "scheduler", "switch"} /\ Op(t) = "yield"

\* While an event is on the immediate list the eventfd is ready and armed, or
\* some worker is going to search the list, or some thread is about to ring:
\* client code that never calls the library again cannot delay the event.
ImmediateWatched ==
    list[IMMEDIATE] # <<>> =>
        \/ armed /\ efd
        \/ \E w \in Workers : WillSearch(w)
        \/ \E t \in Threads : WillInterrupt(t)

\* rearm_immediate()'s read() never blocks and never takes another worker's
\* notification: between EPOLLONESHOT firing and the re-arm one worker is there.
RearmExclusive ==
    /\ \A w \in Workers : wpc[w] = "rearm" => efd
    /\ \A w, v \in Workers : wpc[w] \in {"rearm", "arm"} /\ wpc[v] \in {"rearm", "arm"} => w = v
    /\ armed <=> \A w \in Workers : wpc[w] \notin {"rearm", "arm"}

\* No assert() fails and no msg_exit() is reached: finish_wait()'s assertion on
\* woken_by_event, add_event()'s "still on a list", remove_event()'s endless
\* spin, tc_die()'s refcnt and tc_waitq_unregister()'s empty exit_waiters.
AssertionsHold ==
    /\ \A w \in Workers, t \in Threads : ctx[w] = t =>
        LET s == woken_by_event[w] IN
        /\ pc[t] \in {"finish", "finish_true"} =>
              optimal(w, t) \/ (s # NULL /\ IsSignal(s) /\ Tc(s) = t)
        /\ pc[t] = "yield_done" /\ s # Event(t) =>
              s # NULL /\ IsSignal(s) /\ Tc(s) = t /\ el[Event(t)] # NULL
        /\ pc[t] \in {"prepare", "join", "yield"} => el[Event(t)] = NULL
        /\ pc[t] = "die" => refcnt[t] = 0
    /\ \A w \in Workers : wpc[w] = "thread_free" => list[target[w]] = <<>>

\* The subscription s of t has been taken off its list to interrupt t's call.
Interrupting(w, t, s) ==
    /\ woken_by_event[w] = <<t, s>>
    /\ \/ target[w] = t /\ wpc[w] \in {"switch_to", "spin"}
       \/ ctx[w] = t /\ pc[t] \in {"finish", "yield_done"}

\* Signals "are guaranteed to get delivered once": a fired signal stays queued
\* or is on its way to the thread until a call returns RV_INTR for it, and a
\* signal that is queued or on its way has been fired and not been delivered.
SignalsExact ==
    \A t \in Threads, s \in Signals :
        <<t, s>> \in due <=> \/ el[<<t, s>>] \in {IMMEDIATE, Pending(t)}
                             \/ \E w \in Workers : Interrupting(w, t, s)

\* All workers sleep in epoll_wait() and nothing will wake them.
Idle ==
    /\ \A w \in Workers : wpc[w] = "epoll_wait" /\ ~did[w]
    /\ ~(armed /\ efd)

\* No lost wakeup: when all workers sleep every thread has exited or waits for
\* what has not happened yet, and no signal is undelivered to it.
NoLostWakeup ==
    Idle => \A t \in Threads :
        \/ pc[t] \in {"none", "freed"}
        \/ /\ pc[t] = "parked"
           /\ el[Event(t)] \in Queues
           /\ Op(t) = "wait_event" => avail[Arg(t)] = 0
           /\ Op(t) = "join" => Arg(t) \in threads
           /\ \A s \in Signals : <<t, s>> \notin due

\* All tc_threads that tc_thread_new() has created run, exit and are freed, if all
\* they wait for happens: nobody is forgotten by run_immediate() or by a wakeup.
ThreadsExit == []<>(\A t \in Threads : pc[t] \in {"none", "freed"})
=============================================================================
