------------------------------- MODULE TcAio -------------------------------
(***************************************************************************)
(* Asynchronous I/O: a tc_thread has a few tc_aio_data of its own (slots), *)
(* takes a free one for a request, and collects the results of all in      *)
(* tc_aio_wait().  The kernel reports completions in a ring and counts     *)
(* them in an eventfd; the worker that epoll_wait() tells of it            *)
(* (EPOLLONESHOT: one at a time) marks the slots done and wakes who is to  *)
(* be notified.  Here t names the queue aio_wq of thread t.                *)
(***************************************************************************)
EXTENDS TcWaitq, FiniteSetsExt

CONSTANTS
    Slots,     \* TC_AIO_REQUESTS_PER_TC_THREAD slots (1..8 in the code)
    AtOnce,    \* AIOs_AT_ONCE (8 in the code)
    Ops,       \* the calls that threads make
    MaxCalls   \* how many calls the threads make

ASSUME AioAssumption ==
    /\ Slots \subseteq Nat /\ IsFiniteSet(Slots) /\ Slots # {}
    /\ AtOnce \in Nat \ {0} /\ MaxCalls \in Nat
    /\ Ops \subseteq {"submit", "notify", "wait", "write", "read"}
    /\ Queues = Threads \cup {"wq"} /\ "wq" \notin Threads
    /\ Queues \cap {NULL, "armed", "get", "done", "notify"} = {} \* told apart in hpc
    /\ NULL # "signal"

VARIABLES
    flag,    \* flag[t][i]: the TC_AIO_DONE_FIELD of slot i
    notify,  \* notify[t][i]: ad->notify, a queue or NULL
    res,     \* res[t][i]: ad->res, "0" at first
    inIo,    \* the requests in the kernel, each the <<t, i>> of its slot
    ring,    \* completions that io_getevents() can return, <<<<t, i>>, result>>
    efd,     \* the counter of aio_eventfd
    hpc,     \* where the worker in handle_aio_event() is; "armed": none is
    count,   \* what it has read from the eventfd and not yet used
    ioe,     \* the completions it has got and not yet handled
    ad,      \* the slot it handles
    pc, op,  \* pc[t]: where t is; op[t]: in which call
    cur,     \* cur[t]: the slot that t looks at
    own,     \* own[t]: the slot of the request this call has submitted, or NULL
    rv,      \* rv[t]: what tc_aio_wait() or the call returns
    made     \* how many calls were made

callVars   == <<op, cur, own, rv, made>>
kernelVars == <<inIo, ring, efd>>
workerVars == <<hpc, count, ioe, ad>>
threadVars == <<pc, callVars>>
aioVars    == <<wqVars, flag, notify, res, kernelVars, workerVars, threadVars>>

Goto(t, l)   == pc' = [pc EXCEPT ![t] = l]
Set(f, a, v) == [f EXCEPT ![a[1]][a[2]] = v]

-----------------------------------------------------------------------------
\* handle_aio_event()
epoll_wait ==
    /\ hpc = "armed" /\ efd > 0
    /\ hpc' = "get" /\ count' = efd /\ efd' = 0
    /\ UNCHANGED <<wqVars, flag, notify, res, inIo, ring, ioe, ad, threadVars>>

e2read_all == count \* takes one call of io_getevents() for enough
e2read == Min({AtOnce, count})

\* As many as there are, at most AIOs_AT_ONCE; they need not be those counted.
io_getevents ==
    LET n == Min({AtOnce, Len(ring)}) IN
    /\ hpc = "get" /\ count > 0
    /\ ioe' = SubSeq(ring, 1, n)
    /\ ring' = SubSeq(ring, n + 1, Len(ring))
    /\ count' = count - e2read
    /\ hpc' = "done"
    /\ UNCHANGED <<wqVars, flag, notify, res, inIo, efd, ad, threadVars>>

set_data_done ==
    LET n == Len(ioe) IN
    /\ hpc = "done" /\ ioe # <<>>
    /\ ad' = ioe[n][1]
    /\ res' = Set(res, ioe[n][1], ioe[n][2])
    /\ flag' = Set(flag, ioe[n][1], "done")
    /\ ioe' = SubSeq(ioe, 1, n - 1)
    /\ hpc' = "notify"
    /\ UNCHANGED <<wqVars, notify, kernelVars, count, threadVars>>

batch_done ==
    /\ hpc = "done" /\ ioe = <<>>
    /\ hpc' = "get"
    /\ UNCHANGED <<wqVars, flag, notify, res, kernelVars, count, ioe, ad, threadVars>>

\* wq = ACCESS_ONCE(ad->notify), after a barrier; the wakeup is a step of its own.
read_notify ==
    /\ hpc = "notify"
    /\ LET wq == notify[ad[1]][ad[2]] IN
       hpc' = IF wq = NULL THEN "done" ELSE wq
    /\ ad' = NULL
    /\ UNCHANGED <<wqVars, flag, notify, res, kernelVars, count, ioe, threadVars>>

wakeup_notified ==
    /\ hpc \in Queues
    /\ tc_waitq_wakeup_all({hpc})
    /\ hpc' = "done"
    /\ UNCHANGED <<flag, notify, res, kernelVars, count, ioe, ad, threadVars>>

arm_aio_efd ==
    /\ hpc = "get" /\ count = 0
    /\ hpc' = "armed"
    /\ UNCHANGED <<wqVars, flag, notify, res, kernelVars, count, ioe, ad, threadVars>>

-----------------------------------------------------------------------------
\* tc_aio_wait(): one slot after the other, from slot cur on.
wait_from(t) ==
    /\ cur' = [cur EXCEPT ![t] = Min(Slots)]
    /\ rv' = [rv EXCEPT ![t] = "0"]
    /\ Goto(t, "slot")

next_slot_first(t) == \* stops after a slot whose request failed
    LET more == {i \in Slots : i > cur[t] /\ res[t][cur[t]] # "error"} IN
    IF more = {} THEN Goto(t, "waited") /\ UNCHANGED cur
                 ELSE Goto(t, "slot") /\ cur' = [cur EXCEPT ![t] = Min(more)]
next_slot(t) ==
    LET more == {i \in Slots : i > cur[t]} IN
    IF more = {} THEN Goto(t, "waited") /\ UNCHANGED cur
                 ELSE Goto(t, "slot") /\ cur' = [cur EXCEPT ![t] = Min(more)]

\* "If the caller wanted to be notified, he will get notified ..."
set_notify(t) ==
    /\ pc[t] = "slot"
    /\ \/ notify[t][cur[t]] # NULL /\ next_slot(t) /\ UNCHANGED notify
       \/ notify[t][cur[t]] = NULL /\ notify' = Set(notify, <<t, cur[t]>>, t)
          /\ Goto(t, "test") /\ UNCHANGED cur
    /\ UNCHANGED <<wqVars, flag, res, kernelVars, workerVars, op, own, rv, made>>

\* tc_waitq_wait_event(&tc->aio_wq, tc_aio_data_done(ad))
slot_done(t, then, else) == Goto(t, IF flag[t][cur[t]] # "pending" THEN then ELSE else)

test(t) ==
    /\ pc[t] = "test"
    /\ slot_done(t, "collect", "prepare")
    /\ UNCHANGED <<wqVars, flag, notify, res, kernelVars, workerVars, callVars>>

prepare_blind(t) == \* does not look at the slot again
    /\ pc[t] = "prepare"
    /\ prepare_to_wait(t, t)
    /\ Goto(t, "scheduler")
    /\ UNCHANGED <<flag, notify, res, kernelVars, workerVars, callVars>>
prepare(t) ==
    /\ pc[t] = "prepare"
    /\ prepare_to_wait(t, t)
    /\ Goto(t, "cond")
    /\ UNCHANGED <<flag, notify, res, kernelVars, workerVars, callVars>>

cond(t) ==
    /\ pc[t] = "cond"
    /\ slot_done(t, "finish_true", "scheduler")
    /\ UNCHANGED <<wqVars, flag, notify, res, kernelVars, workerVars, callVars>>

scheduler(t) ==
    /\ pc[t] = "scheduler"
    /\ tc_scheduler(t)
    /\ Goto(t, "finish")
    /\ UNCHANGED <<flag, notify, res, kernelVars, workerVars, callVars>>

finish_once(t) == \* takes any wakeup for the one of this slot
    /\ pc[t] \in {"finish", "finish_true"}
    /\ finish_wait(t, t)
    /\ Goto(t, "collect")
    /\ UNCHANGED <<flag, notify, res, kernelVars, workerVars, callVars>>
finish(t) ==
    /\ pc[t] \in {"finish", "finish_true"}
    /\ finish_wait(t, t)
    /\ Goto(t, IF pc[t] = "finish" THEN "prepare" ELSE "collect")
    /\ UNCHANGED <<flag, notify, res, kernelVars, workerVars, callVars>>

\* A signal ends the wait for this slot.
finish_interrupted(t) ==
    /\ pc[t] = "finish"
    /\ finish_intr(t, t)
    /\ Goto(t, "collect")
    /\ rv' = [rv EXCEPT ![t] = "failed"]
    /\ UNCHANGED <<flag, notify, res, kernelVars, workerVars, op, cur, own, made>>

\* "Result returned, don't return again", whatever ended the wait.
collect(t) ==
    LET i == cur[t] IN
    /\ pc[t] = "collect"
    /\ notify' = Set(notify, <<t, i>>, NULL)
    /\ flag' = Set(flag, <<t, i>>, "free")
    /\ rv' = [rv EXCEPT ![t] = IF flag[t][i] # "free" /\ res[t][i] = "error" THEN "failed" ELSE @]
    /\ next_slot(t)
    /\ UNCHANGED <<wqVars, res, kernelVars, workerVars, op, own, made>>

-----------------------------------------------------------------------------
call(t, o) ==
    /\ pc[t] = "idle" /\ made < MaxCalls
    /\ op' = [op EXCEPT ![t] = o]
    /\ made' = made + 1
    /\ IF o = "wait" THEN wait_from(t) ELSE Goto(t, "get") /\ UNCHANGED <<cur, rv>>
    /\ UNCHANGED <<wqVars, flag, notify, res, kernelVars, workerVars, own>>

\* _tc_aio_get_aio_data(): the first free slot, after a tc_aio_wait() if there is none.
get_aio_data(t) ==
    LET free == {i \in Slots : flag[t][i] = "free"} IN
    /\ pc[t] = "get"
    /\ IF free = {} THEN wait_from(t)
       ELSE cur' = [cur EXCEPT ![t] = Min(free)] /\ Goto(t, "prep") /\ UNCHANGED rv
    /\ UNCHANGED <<wqVars, flag, notify, res, kernelVars, workerVars, op, own, made>>

\* io_prep_*() clears the flag; io_submit() accepts the request.
io_submit(t) ==
    LET a == <<t, cur[t]>> IN
    /\ pc[t] = "prep"
    /\ notify' = Set(notify, a, IF op[t] = "notify" THEN "wq" ELSE NULL)
    /\ res' = Set(res, a, "0")
    /\ flag' = Set(flag, a, "pending")
    /\ inIo' = inIo \cup {a}
    /\ own' = [own EXCEPT ![t] = cur[t]]
    /\ IF op[t] \in {"write", "read"} THEN wait_from(t)
       ELSE Goto(t, "return") /\ rv' = [rv EXCEPT ![t] = "0"] /\ UNCHANGED cur
    /\ UNCHANGED <<wqVars, ring, efd, workerVars, op, made>>

\* io_submit() fails, for want of room or because of its arguments: the slot counts as
\* done.
io_submit_fails(t) ==
    LET a == <<t, cur[t]>> IN
    /\ pc[t] = "prep"
    /\ notify' = Set(notify, a, IF op[t] = "notify" THEN "wq" ELSE NULL)
    /\ res' = Set(res, a, "0")
    /\ flag' = Set(flag, a, "done")
    /\ rv' = [rv EXCEPT ![t] = "failed"]
    /\ Goto(t, "return")
    /\ tc_waitq_wakeup_all(IF op[t] = "notify" THEN {"wq"} ELSE {})
    /\ UNCHANGED <<kernelVars, workerVars, op, cur, own, made>>

\* tc_aio_wait() returns to _tc_aio_get_aio_data() or to the caller; tc_aio_read()
\* then looks at the result of its own request.
waited(t) ==
    /\ pc[t] = "waited"
    /\ Goto(t, IF op[t] # "wait" /\ own[t] = NULL /\ rv[t] = "0" THEN "get" ELSE "return")
    /\ rv' = [rv EXCEPT ![t] = IF op[t] = "read" /\ own[t] # NULL /\ res[t][own[t]] # "all"
                               THEN "failed" ELSE @]
    /\ UNCHANGED <<wqVars, flag, notify, res, kernelVars, workerVars, op, cur, own, made>>

\* The call's variables are gone.
return(t) ==
    /\ pc[t] = "return"
    /\ Goto(t, "idle")
    /\ own' = [own EXCEPT ![t] = NULL]
    /\ op' = [op EXCEPT ![t] = NULL]
    /\ cur' = [cur EXCEPT ![t] = NULL]
    /\ rv' = [rv EXCEPT ![t] = "0"]
    /\ UNCHANGED <<wqVars, flag, notify, res, kernelVars, workerVars, made>>

-----------------------------------------------------------------------------
\* The kernel completes a request, with all bytes, some or an error.
completes(a, r) ==
    /\ a \in inIo
    /\ inIo' = inIo \ {a}
    /\ ring' = Append(ring, <<a, r>>)
    /\ efd' = efd + 1
    /\ UNCHANGED <<wqVars, flag, notify, res, workerVars, threadVars>>

aio_signal(t) ==
    /\ tc_signal_fire(t)
    /\ UNCHANGED <<flag, notify, res, kernelVars, workerVars, threadVars>>

Results == {"all", "some", "error"}

AioInit ==
    /\ WaitqInit
    /\ flag = [t \in Threads |-> [i \in Slots |-> "done"]] \* tc_aio_data_init()
    /\ notify = [t \in Threads |-> [i \in Slots |-> NULL]]
    /\ res = [t \in Threads |-> [i \in Slots |-> "0"]]
    /\ inIo = {} /\ ring = <<>> /\ efd = 0
    /\ hpc = "armed" /\ count = 0 /\ ioe = <<>> /\ ad = NULL
    /\ pc = [t \in Threads |-> "idle"] /\ op = [t \in Threads |-> NULL]
    /\ cur = [t \in Threads |-> NULL] /\ own = [t \in Threads |-> NULL]
    /\ rv = [t \in Threads |-> "0"]
    /\ made = 0

handle_aio_event ==
    \/ epoll_wait \/ io_getevents \/ set_data_done \/ batch_done \/ read_notify
    \/ wakeup_notified \/ arm_aio_efd

inside(t) ==
    \/ set_notify(t) \/ test(t) \/ prepare(t) \/ cond(t) \/ scheduler(t) \/ finish(t)
    \/ collect(t) \/ get_aio_data(t) \/ io_submit(t) \/ io_submit_fails(t) \/ waited(t)
    \/ return(t)

AioNext ==
    \/ handle_aio_event
    \/ \E t \in Threads : inside(t) \/ \E o \in Ops : call(t, o)
    \/ \E a \in Threads \X Slots, r \in Results : completes(a, r)

AioSpec == AioInit /\ [][AioNext]_aioVars

\* The same with signals, which no thread has subscribed to in AioSpec.
AioSignalSpec ==
    AioInit /\ [][AioNext \/ \E t \in Threads : aio_signal(t) \/ finish_interrupted(t)]_aioVars

\* Threads and the worker go on, and the kernel completes every request.
AioFairSpec ==
    /\ AioSpec
    /\ WF_aioVars(handle_aio_event)
    /\ \A t \in Threads : WF_aioVars(inside(t))
    /\ \A a \in Threads \X Slots : WF_aioVars(\E r \in Results : completes(a, r))

-----------------------------------------------------------------------------
AioPCs == {"idle", "slot", "test", "prepare", "cond", "scheduler", "finish", "finish_true",
           "collect", "waited", "get", "prep", "return"}

\* Type invariant of slots, kernel, worker and threads.
AioTypeOK ==
    /\ WaitqType
    /\ flag \in [Threads -> [Slots -> {"done", "free", "pending"}]]
    /\ notify \in [Threads -> [Slots -> Queues \cup {NULL}]]
    /\ res \in [Threads -> [Slots -> Results \cup {"0"}]]
    /\ inIo \subseteq Threads \X Slots
    /\ ring \in Seq((Threads \X Slots) \X Results) /\ ioe \in Seq((Threads \X Slots) \X Results)
    /\ efd \in Nat /\ count \in Nat
    /\ hpc \in {"armed", "get", "done", "notify"} \cup Queues
    /\ ad \in (Threads \X Slots) \cup {NULL}
    /\ pc \in [Threads -> AioPCs] /\ op \in [Threads -> Ops \cup {NULL}]
    /\ cur \in [Threads -> Slots \cup {NULL}] /\ own \in [Threads -> Slots \cup {NULL}]
    /\ rv \in [Threads -> {"0", "failed"}] /\ made \in 0..MaxCalls

\* The requests that the kernel works on, or whose completion is not handled yet.
Outstanding(a) ==
    \/ a \in inIo
    \/ \E i \in DOMAIN ring : ring[i][1] = a
    \/ \E i \in DOMAIN ioe : ioe[i][1] = a

\* A slot is neither given to another request nor called done or free as long as its
\* request is outstanding, and a completed one stays done until its result is collected:
\* the kernel writes through the pointer it was given.
SlotExclusive ==
    /\ AioTypeOK
    /\ \A t \in Threads, i \in Slots : Outstanding(<<t, i>>) <=> flag[t][i] = "pending"
    /\ \A j, k \in DOMAIN (ring \o ioe) :
          (ring \o ioe)[j][1] = (ring \o ioe)[k][1] => j = k

\* tc_aio_wait() "does wait for outstanding (simple) IO requests of this tc_thread.
\* Returns 0 for ok": then no request of this thread is outstanding any more, except
\* those for which the caller wanted to be notified.
AioWaited ==
    \A t \in Threads, i \in Slots :
        pc[t] = "waited" /\ rv[t] = "0" /\ notify[t][i] = NULL => ~Outstanding(<<t, i>>)

\* No lost wakeup: a thread does not sleep on a slot that is done, unless the worker
\* that marked it is about to read notify or to wake the thread.
CompletionNoticed ==
    \A t \in Threads :
        pc[t] = "scheduler" /\ flag[t][cur[t]] # "pending" =>
            t \in active \/ (hpc = "notify" /\ ad = <<t, cur[t]>>) \/ hpc = t

\* The eventfd and what handle_aio_event() has read from it never count fewer
\* completions than wait in the ring, although io_getevents() may return completions
\* that are counted only afterwards.
CompletionsCounted == Len(ring) <= efd + count

\* Every call returns when the kernel completes all requests: "when they are exhausted
\* a tc_aio_wait() is done implicitly, to free space for the new request".
AioReturns == \A t \in Threads : pc[t] # "idle" ~> pc[t] = "idle"

\* Every call returns when the kernel completes all requests, unless the caller has a
\* notify queue on all of the thread's slots, none of which tc_aio_wait() ever frees.
AllNotify(t) == \A i \in Slots : notify[t][i] = "wq"
AioReturnsWithRoom == \A t \in Threads : pc[t] # "idle" ~> pc[t] = "idle" \/ AllNotify(t)
=============================================================================
