-------------------------------- MODULE TcFd --------------------------------
(***************************************************************************)
(* Waiting for a file descriptor: tc_wait_fd(), the mask of the one-shot   *)
(* epoll entry with its cached copy in tcfd->ep_events, and what a worker  *)
(* does with an event that epoll_wait() reports.  The kernel disables the  *)
(* entry when it reports; the worker takes tcfd->events.lock only later,   *)
(* so threads wait, return, get interrupted and rearm in between.  One     *)
(* step is one critical section of that lock.  What becomes of an event on *)
(* common.immediate or tc->pending in detail is in TcSched; here it        *)
(* matters which worker looks for it, as none is told.                     *)
(***************************************************************************)
EXTENDS Domain, EventLists, FiniteSetsExt

CONSTANTS
    Threads,
    Requests,    \* Requests[t]: the [mask, prio] that t may wait with
    MaxWaits,    \* how often a thread calls tc_wait_fd()
    Kinds,       \* what may happen to the descriptor
    Subscribers  \* the threads that have subscribed to a signal

\* Nobody waits for EPOLLIN and EPOLLOUT at once.
OneWay == {m \in SUBSET {"IN", "OUT", "PRI"} : ~({"IN", "OUT"} \subseteq m)}

ASSUME FdAssumption ==
    /\ MaxWaits \in Nat /\ NULL \notin Threads
    /\ Kinds \subseteq {"IN", "OUT", "PRI", "HUP"}
    /\ \A t \in Threads : Requests[t] \subseteq [mask : OneWay, prio : BOOLEAN]

VARIABLES
    events,      \* tcfd->events, as the threads whose event is on it
    immediate,   \* the threads whose event is on common.immediate
    pending,     \* the threads whose event is on their tc->pending
    e,           \* e[t]: the mask and the priority of t's event
    worker_nr,   \* tc->worker_nr
    ep_events,   \* tcfd->ep_events, the mask the library believes in
    err_hup,     \* tcfd->err_hup
    ready,       \* the state of the descriptor
    kernel,      \* the mask of the epoll entry; {} once it has fired
    registered,  \* the epoll entry exists
    stale,       \* the last EPOLL_CTL_MOD has failed
    epe,         \* epe[w]: the events reported to w and not handled yet
    loop,        \* loop[w]: how far w is in the loop of scheduler_part2()
    sig,         \* the threads that have a fired signal waiting for them
    pc, waits

lists == <<events, immediate, pending>>
masks == <<ep_events, kernel, registered, stale>>
vars  == <<lists, masks, e, worker_nr, err_hup, ready, epe, loop, sig, pc, waits>>

Goto(t, l) == pc' = [pc EXCEPT ![t] = l]

\* A worker runs a thread, or has no event in its hands.
OnWorker == {"scheduler", "event", "intr", "remove", "io"}
Free(w)  == epe[w] = {} /\ \A t \in Threads : pc[t] \in OnWorker => worker_nr[t] # w
Loop(w, l) == loop' = [loop EXCEPT ![w] = l]

\* The mask that the events on the list es need; tc_wait_fd() adds EPOLLONESHOT.
calc_epoll_event_mask(es, ev) == UNION {ev[t].mask \cup {"ONESHOT"} : t \in Range(es)}

\* epoll_ctl(EPOLL_CTL_MOD): the kernel adds EPOLLHUP, and EPOLLERR, by itself.  It may
\* fail, and does if the entry has been removed.
epoll_ctl_mod(mask, ok) ==
    \/ ok /\ registered /\ kernel' = mask \cup {"HUP"} /\ stale' = FALSE
    \/ ~ok /\ stale' = TRUE /\ UNCHANGED kernel

\* arm(), when the cached mask is cached: ok unless the call for the new mask, which is
\* cached before, has failed.
arm(cached, es, ev, ok) ==
    LET mask == calc_epoll_event_mask(es, ev) IN
    /\ ep_events' = mask
    /\ IF mask = cached THEN ok /\ UNCHANGED <<kernel, stale>> ELSE epoll_ctl_mod(mask, ok)
    /\ UNCHANGED registered

-----------------------------------------------------------------------------
\* The positions of the list that matching_event() looks at for the direction d:
\* up to the first event with priority, which clears d from the mask.
Looked(d, em) ==
    {i \in DOMAIN events :
        /\ d \in em \cap e[events[i]].mask
        /\ \A j \in 1..(i - 1) : d \in e[events[j]].mask => ~e[events[j]].prio}

Here(w, S) == {i \in S : worker_nr[events[i]] = w}

\* "in" and "out" of matching_event(): the event with priority, else the last one of
\* this worker, else the first one.
Chosen(d, em, w) ==
    LET S == Looked(d, em)
    IN  CASE S = {} -> NULL
          [] \E i \in S : e[events[i]].prio -> events[Max(S)]
          [] Here(w, S) # {} -> events[Max(Here(w, S))]
          [] OTHER -> events[Min(S)]

\* matching_event(): the event to run, and the one it moves to common.immediate.
matching_event(w, em) ==
    LET in   == Chosen("IN", em, w)
        out  == Chosen("OUT", em, w)
        mine == Here(w, Looked("IN", em) \cup Looked("OUT", em))
        ew   == events[Max(mine)]
    IN  CASE mine # {} -> [run |-> ew, moved |-> IF ew = in THEN out ELSE in]
          [] mine = {} /\ in # NULL /\ out # NULL -> [run |-> out, moved |-> in]
          [] OTHER -> [run |-> IF in # NULL THEN in ELSE out, moved |-> NULL]

\* wakeup_all_events(): the one that does not move, of this worker if there is any.
wakeup_all_events(w) ==
    LET mine == Here(w, DOMAIN events)
    IN  CASE events = <<>> -> NULL
          [] mine # {} -> events[Min(mine)]
          [] OTHER -> Head(events)

\* run_or_queue() for the event of t: t runs on w, or the event gets pending while
\* t has not yet reached its sleep (TF_RUNNING).
run_or_queue(w, t) ==
    IF pc[t] = "asleep"
    THEN /\ Goto(t, "event")
         /\ worker_nr' = [worker_nr EXCEPT ![t] = w]
         /\ UNCHANGED pending
    ELSE pending' = pending \cup {t} /\ UNCHANGED <<pc, worker_nr>>

\* The event of run is run or queued, those of moved have gone to common.immediate, and
\* no other worker is told (move_to_immediate).
dispatch(w, run, moved) ==
    /\ immediate' = immediate \cup moved
    /\ IF run = NULL THEN UNCHANGED <<pending, pc, worker_nr>> ELSE run_or_queue(w, run)

-----------------------------------------------------------------------------
\* _tc_wait_fd(), up to its call of tc_scheduler().
add_event_fd_dead(t, r) == \* does not look at err_hup
    \E es \in {Append(events, t)}, ev \in {[e EXCEPT ![t] = r]} :
       \/ arm(ep_events, es, ev, TRUE) /\ events' = es /\ e' = ev /\ Goto(t, "scheduler")
       \/ arm(ep_events, es, ev, FALSE) /\ UNCHANGED <<events, e, pc>>
add_event_fd(t, r) ==
    \/ err_hup /\ UNCHANGED <<events, e, masks, pc>> \* RV_FAILED
    \/ /\ ~err_hup
       /\ \E es \in {Append(events, t)}, ev \in {[e EXCEPT ![t] = r]} :
             \/ arm(ep_events, es, ev, TRUE) /\ events' = es /\ e' = ev /\ Goto(t, "scheduler")
             \/ arm(ep_events, es, ev, FALSE) /\ UNCHANGED <<events, e, pc>> \* removed again

tc_wait_fd(t, w) ==
    /\ pc[t] = "idle" /\ waits[t] < MaxWaits
    /\ Free(w)
    /\ waits' = [waits EXCEPT ![t] = @ + 1]
    /\ worker_nr' = [worker_nr EXCEPT ![t] = w]
    /\ Loop(w, "look")
    /\ \E r \in Requests[t] : add_event_fd(t, r)
    /\ UNCHANGED <<immediate, pending, err_hup, ready, epe, sig>>

\* tc_scheduler(): returns with the pending event, or the thread sleeps.
tc_scheduler(t) ==
    /\ pc[t] = "scheduler"
    /\ pending' = pending \ {t}
    /\ Goto(t, IF t \in pending THEN "event" ELSE "asleep")
    /\ UNCHANGED <<events, immediate, masks, e, worker_nr, err_hup, ready, epe, loop, sig, waits>>

\* A signal ends the wait, before or in the sleep; tc_signal_fire() tells the workers.
interrupt(t, w) ==
    /\ t \in sig
    /\ \/ pc[t] = "scheduler" /\ w = worker_nr[t] /\ UNCHANGED <<worker_nr, loop>>
       \/ /\ pc[t] = "asleep" /\ Free(w)
          /\ worker_nr' = [worker_nr EXCEPT ![t] = w] /\ Loop(w, "look")
    /\ sig' = sig \ {t}
    /\ Goto(t, "intr")
    /\ UNCHANGED <<lists, masks, e, err_hup, ready, epe, waits>>

\* The rest of _tc_wait_fd(): "Have to reprogram either way", without the lock.
returned(t) ==
    /\ \/ pc[t] = "event" /\ Goto(t, IF err_hup THEN "idle" ELSE "io")
       \/ pc[t] = "intr" /\ Goto(t, "remove")
    /\ ep_events' = {}
    /\ UNCHANGED <<lists, kernel, registered, stale, e, worker_nr, err_hup, ready, epe, loop,
                   sig, waits>>

\* remove_event_fd(): from whichever list the event is on by now.
remove_event_fd_stale(t) == \* from the list it was put on
    /\ events' = RemoveFirst(events, t)
    /\ UNCHANGED <<immediate, pending>>
remove_event_fd(t) ==
    /\ events' = RemoveFirst(events, t)
    /\ immediate' = immediate \ {t}
    /\ pending' = pending \ {t}

interrupted(t) ==
    /\ pc[t] = "remove"
    /\ remove_event_fd(t)
    /\ Goto(t, "idle")
    /\ UNCHANGED <<masks, e, worker_nr, err_hup, ready, epe, loop, sig, waits>>

tc_rearm(t) ==
    /\ pc[t] = "idle"
    /\ \E ok \in BOOLEAN : arm(ep_events, events, e, ok)
    /\ UNCHANGED <<lists, e, worker_nr, err_hup, ready, epe, loop, sig, pc, waits>>

-----------------------------------------------------------------------------
\* run_immediate(): one event after the other; what it finds last decides whether
\* epoll_wait() may sleep.
run_immediate(w, t) ==
    /\ Free(w) /\ loop[w] = "look"
    /\ t \in immediate
    /\ immediate' = immediate \ {t}
    /\ run_or_queue(w, t)
    /\ \E l \in {"look", "poll"} : Loop(w, l)
    /\ UNCHANGED <<events, masks, e, err_hup, ready, epe, sig, waits>>

nothing_found_blind(w) == loop[w] = "look" \* goes to sleep without a look at the list
nothing_found(w) == loop[w] = "look" /\ immediate = {}

sleep(w) ==
    /\ Free(w) /\ nothing_found(w)
    /\ Loop(w, "sleep")
    /\ UNCHANGED <<lists, masks, e, worker_nr, err_hup, ready, epe, sig, pc, waits>>

Reported == ready \cap kernel

\* epoll_wait() returns the descriptor to w; EPOLLONESHOT disables the entry.
epoll_wait(w) ==
    /\ Free(w) /\ loop[w] # "look"
    /\ Reported # {}
    /\ epe' = [epe EXCEPT ![w] = Reported]
    /\ kernel' = IF "ONESHOT" \in kernel THEN {} ELSE kernel
    /\ Loop(w, "look")
    /\ UNCHANGED <<lists, ep_events, registered, stale, e, worker_nr, err_hup, ready, sig, pc, waits>>

\* It returns nothing, with timeout 0; or something else, IWI_IMMEDIATE for example.
epoll_nothing(w) ==
    /\ Free(w) /\ loop[w] = "poll" /\ Reported = {}
    /\ Loop(w, "look")
    /\ UNCHANGED <<lists, masks, e, worker_nr, err_hup, ready, epe, sig, pc, waits>>

epoll_else(w) ==
    /\ Free(w) /\ loop[w] = "sleep"
    /\ Loop(w, "look")
    /\ UNCHANGED <<lists, masks, e, worker_nr, err_hup, ready, epe, sig, pc, waits>>

\* There are events left besides the one that is being alerted.
others_left_first(es, t) == es # <<>> /\ Head(es) # t \* looks at one end of the list only
others_left(es, t) == es # <<>> /\ (Head(es) # t \/ es[Len(es)] # t)

\* scheduler_part2() with an error condition: everybody wakes, nothing is armed, and
\* the entry is removed if there was nobody.
handle_error(w) ==
    LET run == wakeup_all_events(w) IN
    /\ err_hup \/ "HUP" \in epe[w]
    /\ err_hup' = TRUE
    /\ events' = <<>>
    /\ dispatch(w, run, Range(events) \ {run})
    /\ LET del == run = NULL /\ "HUP" \in epe[w] IN
       /\ registered' = (registered /\ ~del)
       /\ kernel' = IF del THEN {} ELSE kernel
    /\ UNCHANGED <<ep_events, stale>>

\* scheduler_part2() with data: wake what matches, and arm for whoever is left.
handle_data(w) ==
    /\ ~err_hup /\ "HUP" \notin epe[w]
    /\ \E r \in {matching_event(w, epe[w])} : LET left == RemoveFirst(events, r.moved) IN
        /\ events' = RemoveFirst(left, r.run)
        /\ dispatch(w, r.run, {r.moved} \ {NULL})
        /\ IF others_left(left, r.run)
           THEN \E ok \in BOOLEAN : arm({}, left, e, ok) \* "cannot re-arm"
           ELSE ep_events' = {} /\ UNCHANGED <<kernel, registered, stale>>
    /\ UNCHANGED err_hup

scheduler_part2(w) ==
    /\ epe[w] # {}
    /\ epe' = [epe EXCEPT ![w] = {}]
    /\ handle_error(w) \/ handle_data(w)
    /\ UNCHANGED <<e, ready, loop, sig, waits>>

-----------------------------------------------------------------------------
\* The program and its peer: I/O may use up what is ready; data, room and errors come.
io(t) ==
    /\ pc[t] = "io"
    /\ ready' \in {ready, ready \ (e[t].mask)}
    /\ Goto(t, "idle")
    /\ UNCHANGED <<lists, masks, e, worker_nr, err_hup, epe, loop, sig, waits>>

arrives(x) ==
    /\ x \in Kinds \ ready
    /\ ready' = ready \cup {x}
    /\ UNCHANGED <<lists, masks, e, worker_nr, err_hup, epe, loop, sig, pc, waits>>

tc_signal_fire(t) ==
    /\ t \in Subscribers \ sig
    /\ sig' = sig \cup {t}
    /\ UNCHANGED <<lists, masks, e, worker_nr, err_hup, ready, epe, loop, pc, waits>>

Init ==
    /\ events = <<>> /\ immediate = {} /\ pending = {}
    /\ e = [t \in Threads |-> [mask |-> {}, prio |-> FALSE]]
    /\ worker_nr \in [Threads -> Workers]
    /\ ep_events = {} /\ kernel = {"HUP"} /\ registered = TRUE /\ stale = FALSE
    /\ err_hup = FALSE /\ ready = {}
    /\ epe = [w \in Workers |-> {}] /\ loop = [w \in Workers |-> "look"]
    /\ sig = {}
    /\ pc = [t \in Threads |-> "idle"]
    /\ waits = [t \in Threads |-> 0]

\* What a thread does on its own, and what a worker does.
coroutine(t) == tc_scheduler(t) \/ returned(t) \/ interrupted(t) \/ io(t)
worker(w) ==
    \/ sleep(w) \/ epoll_wait(w) \/ epoll_nothing(w) \/ scheduler_part2(w)
    \/ \E t \in Threads : run_immediate(w, t)

Next ==
    \/ \E t \in Threads : coroutine(t) \/ tc_rearm(t) \/ tc_signal_fire(t)
    \/ \E t \in Threads, w \in Workers : tc_wait_fd(t, w) \/ interrupt(t, w)
    \/ \E w \in Workers : worker(w) \/ epoll_else(w)
    \/ \E x \in Kinds : arrives(x)

Spec == Init /\ [][Next]_vars

\* Every worker goes on, and so does the thread it runs, in client code too; epoll_wait()
\* does not report other things for ever while the descriptor is ready.  Nothing wakes
\* a worker for an event on common.immediate.
FairSpec ==
    /\ Spec
    /\ \A t \in Threads : WF_vars(coroutine(t))
    /\ \A w \in Workers : WF_vars(worker(w))
    /\ SF_vars(\E w \in Workers : epoll_wait(w))

-----------------------------------------------------------------------------
Waiting == {"scheduler", "asleep"}
Masks   == SUBSET {"IN", "OUT", "PRI", "HUP", "ONESHOT"}

\* Type invariant; and an event is on one list, once, as long as its thread waits.
FdTypeOK ==
    /\ events \in Seq(Threads) /\ IsInjective(events)
    /\ immediate \subseteq Threads \ Range(events)
    /\ pending \subseteq Threads \ (immediate \cup Range(events))
    /\ e \in [Threads -> [mask : OneWay, prio : BOOLEAN]]
    /\ worker_nr \in [Threads -> Workers]
    /\ ep_events \in Masks /\ kernel \in Masks /\ ready \in Masks
    /\ err_hup \in BOOLEAN /\ registered \in BOOLEAN /\ stale \in BOOLEAN
    /\ epe \in [Workers -> Masks] /\ loop \in [Workers -> {"look", "poll", "sleep"}]
    /\ sig \subseteq Threads
    /\ pc \in [Threads -> Waiting \cup {"idle", "event", "intr", "remove", "io"}]
    /\ waits \in [Threads -> 0..MaxWaits]
    /\ {t \in Threads : pc[t] \in Waiting \cup {"intr", "remove"}}
         = Range(events) \cup immediate \cup pending

\* Whoever waits on the descriptor is watched, unless the last EPOLL_CTL_MOD failed: the
\* kernel's mask has what the event needs, or a report is under way whose worker is going
\* to arm it.  This has to survive the comparison of arm() with the cached mask, which the
\* kernel resets behind the library's back, the unlocked store at the end of tc_wait_fd(),
\* and failures before: one call that succeeds makes up for them.  And a thread that
\* waits has its event on one list, once.
FdWatched ==
    /\ FdTypeOK
    /\ \A t \in Range(events) :
          stale \/ e[t].mask \subseteq kernel \/ \E w \in Workers : epe[w] # {}

\* move_to_immediate() tells nobody of the event; but never do all workers sleep in
\* epoll_wait() while there is one.
MovedNotForgotten == immediate # {} => \E w \in Workers : loop[w] # "sleep"

\* A descriptor with an error keeps nobody waiting: all events of the list are
\* alerted, and no thread that comes later is added.
ErrorToldToAll == err_hup => events = <<>>

\* tc_wait_fd() returns if what it waits for, or an error, stays, unless EPOLL_CTL_MOD
\* fails.
Awaited(t) == pc[t] \in Waiting /\ ready \cap (e[t].mask \cup {"HUP"}) # {}
WaitFdReturns == \A t \in Threads : Awaited(t) ~> ~Awaited(t) \/ stale
=============================================================================
