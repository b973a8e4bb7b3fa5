---------------------------- MODULE WorkerSync -----------------------------
(***************************************************************************)
(* The end of a tc_fd.  epoll_wait() gives a worker a pointer to a tc_fd,  *)
(* which another worker may be unregistering.  Its memory is freed when    *)
(* every worker that was in its sleep at that time has come out of it: the *)
(* sleeping list, must_sync, sync_barrier and free_list of the domain, all *)
(* under sync_lock.                                                        *)
(***************************************************************************)
EXTENDS Domain, Integers, FiniteSets

CONSTANT
    Fds  \* the tc_fds, each registered once

ASSUME SyncAssumption == IsFiniteSet(Workers) /\ NULL \notin Fds

VARIABLES
    wpc,                  \* where a worker is
    sleeping_workers,     \* the list of that name
    is_on_sleeping_list,  \* the workers with this flag
    must_sync,            \* the workers with this flag
    sync_barrier,
    free_list,
    tcfd,                 \* the tc_fd a worker got from epoll_wait(), or unregisters
    cur,                  \* what a worker has taken off free_list
    tgkilled,             \* the workers with a SIGNAL_FOR_WAKEUP on its way
    mem,                  \* mem[f]: what is in the memory of f
    in_epoll              \* the tc_fds that epoll_wait() can return

lockedVars == <<sleeping_workers, is_on_sleeping_list, must_sync, sync_barrier, free_list>>
fdMem      == <<mem, in_epoll>>
syncVars   == <<wpc, lockedVars, tcfd, cur, tgkilled, fdMem>>

WorkerGoto(w, l) == wpc' = [wpc EXCEPT ![w] = l]

-----------------------------------------------------------------------------
(* scheduler_part2() around epoll_wait(). *)

worker_prepare_sleep(w) ==
    /\ wpc[w] = "busy"
    /\ sleeping_workers' = IF w \in is_on_sleeping_list THEN sleeping_workers
                           ELSE sleeping_workers \cup {w}
    /\ is_on_sleeping_list' = is_on_sleeping_list \cup {w}
    /\ WorkerGoto(w, "prepared")
    /\ UNCHANGED <<must_sync, sync_barrier, free_list, tcfd, cur, tgkilled, fdMem>>

enter_epoll_wait(w) ==
    /\ wpc[w] = "prepared"
    /\ WorkerGoto(w, "epoll_wait")
    /\ UNCHANGED <<lockedVars, tcfd, cur, tgkilled, fdMem>>

epoll_tcfd(w) ==
    /\ wpc[w] = "epoll_wait"
    /\ \E f \in in_epoll : tcfd' = [tcfd EXCEPT ![w] = f]
    /\ WorkerGoto(w, "tcfd")
    /\ UNCHANGED <<lockedVars, cur, tgkilled, fdMem>>

\* Nothing to do yet (have_work), IWI_IMMEDIATE or IWI_ASYNC_IO.
epoll_other(w) ==
    /\ wpc[w] = "epoll_wait"
    /\ WorkerGoto(w, "after_sleep")
    /\ UNCHANGED <<lockedVars, tcfd, cur, tgkilled, fdMem>>

\* EINTR: back to epoll_wait() unless a sync is necessary.
epoll_eintr(w) ==
    /\ wpc[w] = "epoll_wait"
    /\ w \in tgkilled
    /\ tgkilled' = tgkilled \ {w}
    /\ WorkerGoto(w, IF w \in must_sync THEN "after_sleep" ELSE "prepared")
    /\ UNCHANGED <<lockedVars, tcfd, cur, fdMem>>

\* ignore_signal() runs outside epoll_wait(): "Just needed to get out of epoll_wait()".
ignore_signal(w) ==
    /\ wpc[w] # "epoll_wait"
    /\ w \in tgkilled
    /\ tgkilled' = tgkilled \ {w}
    /\ UNCHANGED <<wpc, lockedVars, tcfd, cur, fdMem>>

\* The events of the tc_fd are looked at under its lock; with EPOLLERR or EPOLLHUP
\* and nobody waiting it is taken out of epoll.
handle_tcfd(w) ==
    /\ wpc[w] = "tcfd"
    /\ \/ UNCHANGED in_epoll
       \/ in_epoll' = in_epoll \ {tcfd[w]}
    /\ tcfd' = [tcfd EXCEPT ![w] = NULL]
    /\ WorkerGoto(w, "after_sleep")
    /\ UNCHANGED <<lockedVars, cur, tgkilled, mem>>

\* _process_free_list(): takes the list, and frees when sync_lock is released.
process_free_list(w, L) ==
    /\ cur' = [cur EXCEPT ![w] = L]
    /\ free_list' = {}
    /\ WorkerGoto(w, "free")

last_one_any(n) == TRUE       \* does not wait for the others
last_one_old(n) == n + 1 = 0  \* looks at the value before atomic_dec()
last_one(n) == n = 0

worker_after_sleep(w) ==
    LET new == sync_barrier - 1 IN
    /\ wpc[w] = "after_sleep"
    /\ sleeping_workers' = IF w \in is_on_sleeping_list THEN sleeping_workers \ {w}
                           ELSE sleeping_workers
    /\ is_on_sleeping_list' = is_on_sleeping_list \ {w}
    /\ must_sync' = must_sync \ {w}
    /\ sync_barrier' = IF w \in must_sync THEN new ELSE sync_barrier
    /\ IF w \in must_sync /\ last_one(new)
       THEN process_free_list(w, free_list)
       ELSE WorkerGoto(w, "busy") /\ UNCHANGED <<cur, free_list>>
    /\ UNCHANGED <<tcfd, tgkilled, fdMem>>

-----------------------------------------------------------------------------
(* Client code on a worker. *)

\* epoll_ctl() may fail; the tc_fd is "dead" then.
tc_register_fd(w) ==
    /\ wpc[w] = "busy"
    /\ \E f \in Fds :
          /\ mem[f] = "none"
          /\ mem' = [mem EXCEPT ![f] = "registered"]
          /\ in_epoll' \in {in_epoll, in_epoll \cup {f}}
    /\ UNCHANGED <<wpc, lockedVars, tcfd, cur, tgkilled>>

\* EPOLL_CTL_DEL, then err_hup.
tc_unregister_fd(w) ==
    /\ wpc[w] = "busy"
    /\ \E f \in Fds :
          /\ mem[f] = "registered"
          /\ mem' = [mem EXCEPT ![f] = "unregistered"]
          /\ in_epoll' = in_epoll \ {f}
          /\ tcfd' = [tcfd EXCEPT ![w] = f]
    /\ WorkerGoto(w, "store")
    /\ UNCHANGED <<lockedVars, cur, tgkilled>>

to_sync == sleeping_workers \ must_sync

barrier_of_once(W) == sync_barrier + 1  \* one increment for all
barrier_of_none(W) == sync_barrier      \* no increment
barrier_of(W) == sync_barrier + Cardinality(W)

flags_kept(W) == is_on_sleeping_list    \* leaves is_on_sleeping_list alone
flags_without(W) == is_on_sleeping_list \ W

store_for_later_free(w) ==
    LET told == to_sync IN
    /\ wpc[w] = "store"
    /\ must_sync' = must_sync \cup told
    /\ sync_barrier' = barrier_of(told)
    /\ is_on_sleeping_list' = flags_without(told)
    /\ tgkilled' = tgkilled \cup told
    /\ sleeping_workers' = {}
    /\ IF sync_barrier' = 0
       THEN process_free_list(w, free_list \cup {tcfd[w]})
       ELSE /\ free_list' = free_list \cup {tcfd[w]}
            /\ WorkerGoto(w, "busy")
            /\ UNCHANGED cur
    /\ tcfd' = [tcfd EXCEPT ![w] = NULL]
    /\ UNCHANGED fdMem

\* One turn of the loop in _process_free_list(), or its end.
tc_fd_free(w) ==
    /\ wpc[w] = "free"
    /\ IF cur[w] = {} THEN WorkerGoto(w, "busy") /\ UNCHANGED <<cur, mem>>
       ELSE \E f \in cur[w] :
               /\ mem' = [mem EXCEPT ![f] = "freed"]
               /\ cur' = [cur EXCEPT ![w] = @ \ {f}]
               /\ UNCHANGED wpc
    /\ UNCHANGED <<lockedVars, tcfd, tgkilled, in_epoll>>

SyncInit ==
    /\ wpc = [w \in Workers |-> "busy"]
    /\ sleeping_workers = {} /\ is_on_sleeping_list = {} /\ must_sync = {}
    /\ sync_barrier = 0
    /\ free_list = {}
    /\ tcfd = [w \in Workers |-> NULL]
    /\ cur = [w \in Workers |-> {}]
    /\ tgkilled = {}
    /\ mem = [f \in Fds |-> "none"]
    /\ in_epoll = {}

\* What a worker does of itself; whether epoll_wait() finds something, and what
\* client code does, is up to others.
step(w) ==
    \/ worker_prepare_sleep(w) \/ enter_epoll_wait(w) \/ epoll_eintr(w) \/ handle_tcfd(w)
    \/ worker_after_sleep(w) \/ store_for_later_free(w) \/ tc_fd_free(w)

SyncNext == \E w \in Workers :
    \/ step(w) \/ ignore_signal(w) \/ epoll_tcfd(w) \/ epoll_other(w)
    \/ tc_register_fd(w) \/ tc_unregister_fd(w)

SyncSpec == SyncInit /\ [][SyncNext]_syncVars

\* The kernel runs every worker and delivers its signals.
SyncFairSpec == SyncSpec /\ \A w \in Workers : WF_syncVars(step(w)) /\ WF_syncVars(ignore_signal(w))

-----------------------------------------------------------------------------
(* Properties. *)

\* Type invariant.
SyncTypeOK ==
    /\ wpc \in [Workers -> {"busy", "prepared", "epoll_wait", "tcfd", "after_sleep",
                            "store", "free"}]
    /\ sleeping_workers \subseteq Workers /\ is_on_sleeping_list \subseteq Workers
    /\ must_sync \subseteq Workers /\ tgkilled \subseteq Workers
    /\ sync_barrier \in Nat
    /\ free_list \subseteq Fds /\ in_epoll \subseteq Fds
    /\ tcfd \in [Workers -> Fds \cup {NULL}]
    /\ cur \in [Workers -> SUBSET Fds]
    /\ mem \in [Fds -> {"none", "registered", "unregistered", "freed"}]

\* "It is essential to make sure that we do not get any events of that FD in, after
\* this point" (store_for_later_free): the tc_fd that epoll_wait() gave a worker is
\* not freed before the worker is through with it, although it may be unregistered
\* meanwhile; nor is it freed twice.
NoUseAfterFree ==
    /\ \A w \in Workers : tcfd[w] # NULL => mem[tcfd[w]] # "freed"
    /\ \A f \in free_list : mem[f] = "unregistered"
    /\ \A w \in Workers : \A f \in cur[w] :
          /\ mem[f] = "unregistered" /\ f \notin free_list
          /\ \A v \in Workers \ {w} : f \notin cur[v]

\* sync_barrier counts the workers that must sync, and a tc_fd waits on free_list
\* only while one of them will find the count at zero: none is forgotten.
BarrierExact ==
    /\ sync_barrier = Cardinality(must_sync)
    /\ free_list # {} => must_sync # {}

\* CLIST_REMOVE() is only called on a worker that is on the list, and a worker on
\* its way through epoll_wait() is on the list or must sync.
SleepersKnown ==
    /\ is_on_sleeping_list = sleeping_workers
    /\ \A w \in Workers :
          wpc[w] \in {"prepared", "epoll_wait", "tcfd", "after_sleep"}
             <=> w \in sleeping_workers \cup must_sync

\* An unregistered tc_fd is freed in the end: "We try to wake up all of them at once
\* (via an IWI_SYNC event), and the last one free()s the memory" (store_for_later_free).
FreedInTheEnd == \A f \in Fds : mem[f] = "unregistered" ~> mem[f] = "freed"

\* An unregistered tc_fd is freed in the end, unless a worker that must sync has gone to
\* sleep with its SIGNAL_FOR_WAKEUP taken before: nothing else holds up the barrier,
\* neither workers that go back to sleep nor a second tc_unregister_fd().
SleptOver(w) == wpc[w] = "epoll_wait" /\ w \in must_sync \ tgkilled
FreedUnlessLost ==
    \A f \in Fds : mem[f] = "unregistered" ~> mem[f] = "freed" \/ \E w \in Workers : SleptOver(w)
=============================================================================
