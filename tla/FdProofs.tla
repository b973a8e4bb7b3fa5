------------------------------ MODULE FdProofs ------------------------------
(***************************************************************************)
(* Two views of a tc_fd, for any number of threads, workers and tc_fds,    *)
(* and any masks and priorities that threads wait with.  No tc_fd is freed *)
(* while a worker may still use it; no wakeup of a descriptor is lost      *)
(* between the kernel's one-shot entry and its cached copy, and an error   *)
(* is told to everybody.                                                   *)
(***************************************************************************)
EXTENDS TcFd, WorkerSync, TLAPS

-----------------------------------------------------------------------------
(* Finite sets. *)

\* What the proofs use of natural numbers and of finite sets; SetFactsHold takes it from
\* the library, at the end.
LeastElement ==
    \A T : T \subseteq Nat /\ T # {} => \E x \in T : \A y \in T : x <= y

CardEmpty ==
    /\ IsFiniteSet({}) /\ Cardinality({}) = 0
    /\ \A S : IsFiniteSet(S) /\ Cardinality(S) = 0 => S = {}

CardNat ==
    \A S : IsFiniteSet(S) => Cardinality(S) \in Nat

CardSubset ==
    \A S, T : IsFiniteSet(S) /\ T \subseteq S => IsFiniteSet(T)

CardDel ==
    \A S, x : IsFiniteSet(S) /\ x \in S =>
        IsFiniteSet(S \ {x}) /\ Cardinality(S \ {x}) = Cardinality(S) - 1

CardUnion ==
    \A S, T : IsFiniteSet(S) /\ IsFiniteSet(T) =>
        /\ IsFiniteSet(S \cup T)
        /\ Cardinality(S \cup T) = Cardinality(S) + Cardinality(T) - Cardinality(S \cap T)

SetFacts == LeastElement /\ CardEmpty /\ CardNat /\ CardSubset /\ CardDel /\ CardUnion

-----------------------------------------------------------------------------
(* The end of a tc_fd. *)

InSleep == {"prepared", "epoll_wait", "tcfd", "after_sleep"}

\* The lists of the domain.
ListsKnown ==
    /\ SyncTypeOK /\ BarrierExact /\ SleepersKnown
    /\ sleeping_workers \cap must_sync = {}

\* A worker that has no tc_fd in its hands, or nothing to free.
HandsOK(w) ==
    /\ tcfd[w] # NULL <=> wpc[w] \in {"tcfd", "store"}
    /\ wpc[w] = "tcfd" => mem[tcfd[w]] \in {"registered", "unregistered"}
    /\ cur[w] # {} => wpc[w] = "free"

\* A tc_fd that waits for the workers: who got it from epoll_wait() must sync.
WaitsOK(f) ==
    /\ mem[f] = "unregistered"
    /\ \A w \in Workers : tcfd[w] = f => wpc[w] = "tcfd" /\ w \in must_sync
    /\ \A w \in Workers : f \notin cur[w]

\* A tc_fd that w is about to free: nobody has it.
GoneOK(w, f) ==
    /\ mem[f] = "unregistered" /\ f \notin free_list
    /\ \A v \in Workers : tcfd[v] # f /\ (v # w => f \notin cur[v])

\* A tc_fd that w has unregistered.
StoreOK(w, f) ==
    /\ mem[f] = "unregistered" /\ f \notin free_list
    /\ \A v \in Workers : f \notin cur[v] /\ (v # w /\ tcfd[v] = f => wpc[v] = "tcfd")

FdsKnown ==
    /\ \A f \in in_epoll : mem[f] = "registered"
    /\ \A w \in Workers : HandsOK(w)
    /\ \A f \in free_list : WaitsOK(f)
    /\ \A w \in Workers : \A f \in cur[w] : GoneOK(w, f)
    /\ \A w \in Workers : wpc[w] = "store" => StoreOK(w, tcfd[w])

SyncInv == ListsKnown /\ FdsKnown

\* The domain starts with nobody asleep and nothing to free.
LEMMA SyncStart == ASSUME SetFacts, SyncInit PROVE SyncInv
  <1>1. SyncTypeOK
    BY DEF SyncInit, SyncTypeOK
  <1>2. BarrierExact
    BY Zenon DEF SyncInit, BarrierExact, SetFacts, CardEmpty
  <1>3. SleepersKnown /\ sleeping_workers \cap must_sync = {}
    BY DEF SyncInit, SleepersKnown
  <1>4. FdsKnown
    BY DEF SyncInit, FdsKnown, HandsOK
  <1> QED BY <1>1, <1>2, <1>3, <1>4 DEF SyncInv, ListsKnown

\* Every step keeps the invariant.
LEMMA SyncStep == ASSUME SetFacts PROVE SyncInv /\ [SyncNext]_syncVars => SyncInv'
  \* Goto() moves w only.
  <1>WorkerMoved. ASSUME SyncTypeOK, NEW w \in Workers, NEW l, WorkerGoto(w, l)
                  PROVE  wpc'[w] = l /\ \A v \in Workers : v # w => wpc'[v] = wpc[v]
    BY <1>WorkerMoved DEF SyncTypeOK, WorkerGoto
  \* A step that leaves the lists alone, and in which no worker goes to sleep or leaves it.
  <1>SameSleepers. ASSUME ListsKnown, SyncTypeOK', UNCHANGED lockedVars, NEW w \in Workers,
                          \A v \in Workers : v # w => wpc'[v] = wpc[v],
                          wpc'[w] \in InSleep <=> wpc[w] \in InSleep
                   PROVE  ListsKnown'
    <2> USE <1>SameSleepers
    <2>1. BarrierExact' /\ (sleeping_workers \cap must_sync = {})'
      BY Zenon DEF ListsKnown, BarrierExact, lockedVars
    <2>2. SleepersKnown'
      <3>1. \A v \in Workers : wpc'[v] \in InSleep <=> wpc[v] \in InSleep
        BY Zenon
      <3> QED BY <3>1, Zenon DEF ListsKnown, SleepersKnown, lockedVars, InSleep
    <2> QED BY <2>1, <2>2, Zenon DEF ListsKnown
  \* worker_prepare_sleep() puts the worker on the sleeping list.
  <1>PrepareLists. ASSUME ListsKnown, NEW w \in Workers, worker_prepare_sleep(w)
                   PROVE  ListsKnown'
    <2> USE <1>PrepareLists
    <2>1. /\ wpc[w] = "busy" /\ WorkerGoto(w, "prepared")
          /\ sleeping_workers' = sleeping_workers \cup {w} /\ is_on_sleeping_list' = is_on_sleeping_list \cup {w}
          /\ UNCHANGED <<must_sync, sync_barrier, free_list, tcfd, cur, tgkilled, mem, in_epoll>>
      BY DEF worker_prepare_sleep, ListsKnown, SleepersKnown, fdMem
    <2>2. wpc'[w] = "prepared" /\ \A v \in Workers : v # w => wpc'[v] = wpc[v]
      BY <2>1, <1>WorkerMoved DEF ListsKnown
    <2>3. SyncTypeOK'
      BY <2>1 DEF ListsKnown, SyncTypeOK, WorkerGoto
    <2>4. w \notin must_sync
      BY <2>1 DEF ListsKnown, SleepersKnown
    <2> QED BY <2>1, <2>2, <2>3, <2>4 DEF ListsKnown, BarrierExact, SleepersKnown
  \* worker_after_sleep() takes it off, and counts it out of the barrier.
  <1>AfterSleepLists. ASSUME ListsKnown, NEW w \in Workers, worker_after_sleep(w)
                      PROVE  /\ ListsKnown' /\ wpc'[w] \in {"busy", "free"}
                             /\ wpc'[w] = "free" => must_sync' = {}
    <2> USE <1>AfterSleepLists
    <2>1. /\ wpc[w] = "after_sleep" /\ must_sync' = must_sync \ {w}
          /\ sleeping_workers' = sleeping_workers \ {w} /\ is_on_sleeping_list' = is_on_sleeping_list \ {w}
          /\ UNCHANGED <<tcfd, tgkilled, mem, in_epoll>>
      BY DEF worker_after_sleep, ListsKnown, SleepersKnown, fdMem
    <2>2. IsFiniteSet(must_sync)
      <3>1. IsFiniteSet(Workers) /\ must_sync \subseteq Workers
        BY SyncAssumption, Zenon DEF ListsKnown, SyncTypeOK
      <3> QED BY <3>1, Zenon DEF SetFacts, CardSubset
    <2>3. /\ sync_barrier' = Cardinality(must_sync') /\ sync_barrier' \in Nat
          /\ sync_barrier' = 0 <=> must_sync' = {}
      <3>1. CASE w \in must_sync
        <4>1. sync_barrier' = sync_barrier - 1
          BY <3>1 DEF worker_after_sleep
        <4>2. /\ IsFiniteSet(must_sync \ {w}) /\ Cardinality(must_sync \ {w}) = Cardinality(must_sync) - 1
          BY <2>2, <3>1, Zenon DEF SetFacts, CardDel
        <4>3. sync_barrier = Cardinality(must_sync)
          BY Zenon DEF ListsKnown, BarrierExact
        <4>4. Cardinality(must_sync \ {w}) \in Nat /\ (Cardinality(must_sync \ {w}) = 0 <=> must_sync \ {w} = {})
          BY <4>2, Zenon DEF SetFacts, CardNat, CardEmpty
        <4> QED BY <2>1, <4>1, <4>2, <4>3, <4>4, Zenon
      <3>2. CASE w \notin must_sync
        <4>1. sync_barrier' = sync_barrier /\ must_sync' = must_sync
          BY <2>1, <3>2 DEF worker_after_sleep
        <4>2. sync_barrier = Cardinality(must_sync)
          BY Zenon DEF ListsKnown, BarrierExact
        <4>3. Cardinality(must_sync) \in Nat /\ (Cardinality(must_sync) = 0 <=> must_sync = {})
          BY <2>2, Zenon DEF SetFacts, CardNat, CardEmpty
        <4> QED BY <4>1, <4>2, <4>3, Zenon
      <3> QED BY <3>1, <3>2
    <2>4. \/ /\ w \in must_sync /\ sync_barrier' = 0 /\ WorkerGoto(w, "free")
             /\ cur' = [cur EXCEPT ![w] = free_list] /\ free_list' = {}
          \/ /\ WorkerGoto(w, "busy") /\ UNCHANGED <<cur, free_list>>
             /\ ~(w \in must_sync /\ sync_barrier' = 0)
      BY DEF worker_after_sleep, process_free_list, last_one
    <2>5. PICK l \in {"busy", "free"} : WorkerGoto(w, l) /\ (l = "free" => sync_barrier' = 0)
      BY <2>4
    <2>6. wpc'[w] = l /\ \A v \in Workers : v # w => wpc'[v] = wpc[v]
      BY <2>5, <1>WorkerMoved DEF ListsKnown
    <2>7. SyncTypeOK'
      BY <2>1, <2>3, <2>4, <2>5 DEF ListsKnown, SyncTypeOK, WorkerGoto
    <2>8. BarrierExact'
      BY <2>1, <2>3, <2>4 DEF ListsKnown, BarrierExact
    <2>9. SleepersKnown' /\ (sleeping_workers \cap must_sync = {})'
      BY <2>1, <2>5, <2>6 DEF ListsKnown, SleepersKnown
    <2> QED BY <2>3, <2>5, <2>6, <2>7, <2>8, <2>9 DEF ListsKnown
  \* store_for_later_free() makes all that sleep sync.
  <1>StoreLists. ASSUME ListsKnown, FdsKnown, NEW w \in Workers, store_for_later_free(w)
                 PROVE  /\ ListsKnown' /\ must_sync' = must_sync \cup sleeping_workers
                        /\ wpc'[w] \in {"busy", "free"} /\ (wpc'[w] = "free" => must_sync' = {})
                        /\ tcfd[w] \in Fds
    <2> USE <1>StoreLists
    <2>1. /\ wpc[w] = "store" /\ must_sync' = must_sync \cup sleeping_workers
          /\ sync_barrier' = sync_barrier + Cardinality(sleeping_workers)
          /\ is_on_sleeping_list' = is_on_sleeping_list \ sleeping_workers
          /\ sleeping_workers' = {} /\ tgkilled' = tgkilled \cup sleeping_workers
          /\ tcfd' = [tcfd EXCEPT ![w] = NULL] /\ UNCHANGED <<mem, in_epoll>>
      <3>1. to_sync = sleeping_workers
        BY DEF to_sync, ListsKnown
      <3> QED BY <3>1 DEF store_for_later_free, barrier_of, flags_without, fdMem
    <2>2. tcfd[w] \in Fds
      BY <2>1, SyncAssumption DEF FdsKnown, HandsOK, ListsKnown, SyncTypeOK
    <2>3. IsFiniteSet(must_sync) /\ IsFiniteSet(sleeping_workers)
      <3>1. IsFiniteSet(Workers) /\ must_sync \subseteq Workers /\ sleeping_workers \subseteq Workers
        BY SyncAssumption, Zenon DEF ListsKnown, SyncTypeOK
      <3> QED BY <3>1, Zenon DEF SetFacts, CardSubset
    <2>4. /\ sync_barrier' = Cardinality(must_sync') /\ sync_barrier' \in Nat
          /\ sync_barrier' = 0 <=> must_sync' = {}
      <3>1. /\ IsFiniteSet(must_sync \cup sleeping_workers)
            /\ Cardinality(must_sync \cup sleeping_workers) =
                  Cardinality(must_sync) + Cardinality(sleeping_workers)
                     - Cardinality(must_sync \cap sleeping_workers)
        BY <2>3, Zenon DEF SetFacts, CardUnion
      <3>2. Cardinality(must_sync \cap sleeping_workers) = 0
        <4>1. must_sync \cap sleeping_workers = {}
          BY DEF ListsKnown
        <4> QED BY <4>1, Zenon DEF SetFacts, CardEmpty
      <3>3. Cardinality(must_sync) \in Nat /\ Cardinality(sleeping_workers) \in Nat
        BY <2>3, Zenon DEF SetFacts, CardNat
      <3>4. sync_barrier = Cardinality(must_sync)
        BY Zenon DEF ListsKnown, BarrierExact
      <3>5. sync_barrier' = Cardinality(must_sync \cup sleeping_workers) /\ sync_barrier' \in Nat
        BY <2>1, <3>1, <3>2, <3>3, <3>4
      <3>6. Cardinality(must_sync \cup sleeping_workers) = 0 <=> must_sync \cup sleeping_workers = {}
        BY <3>1, Zenon DEF SetFacts, CardEmpty
      <3> QED BY <2>1, <3>5, <3>6, Zenon
    <2>5. \/ /\ sync_barrier' = 0 /\ WorkerGoto(w, "free")
             /\ cur' = [cur EXCEPT ![w] = free_list \cup {tcfd[w]}] /\ free_list' = {}
          \/ /\ sync_barrier' # 0 /\ WorkerGoto(w, "busy")
             /\ free_list' = free_list \cup {tcfd[w]} /\ UNCHANGED cur
      BY DEF store_for_later_free, process_free_list
    <2>6. PICK l \in {"busy", "free"} : WorkerGoto(w, l) /\ (l = "free" => sync_barrier' = 0)
      BY <2>5
    <2>7. wpc'[w] = l /\ \A v \in Workers : v # w => wpc'[v] = wpc[v]
      BY <2>6, <1>WorkerMoved DEF ListsKnown
    <2>8. SyncTypeOK'
      BY <2>1, <2>2, <2>4, <2>5, <2>6 DEF ListsKnown, SyncTypeOK, WorkerGoto
    <2>9. BarrierExact'
      BY <2>4, <2>5 DEF BarrierExact
    <2>10. SleepersKnown' /\ (sleeping_workers \cap must_sync = {})'
      BY <2>1, <2>6, <2>7 DEF ListsKnown, SleepersKnown
    <2> QED BY <2>1, <2>2, <2>4, <2>6, <2>7, <2>8, <2>9, <2>10 DEF ListsKnown
  \* A step of a worker without a tc_fd, that leaves the tc_fds and the lists of them
  \* alone; who must sync still must.
  <1>SameFds. ASSUME ListsKnown, FdsKnown, NEW w \in Workers,
                     \A v \in Workers : v # w => wpc'[v] = wpc[v],
                     wpc[w] \notin {"tcfd", "store"}, wpc'[w] \notin {"tcfd", "store"},
                     cur'[w] # {} => wpc'[w] = "free", \A v \in must_sync : v # w => v \in must_sync',
                     UNCHANGED <<tcfd, mem, in_epoll, free_list, cur>>
              PROVE  FdsKnown'
    <2> USE <1>SameFds
    <2>1. \A v \in Workers : HandsOK(v)'
      BY DEF FdsKnown, HandsOK
    <2>2. tcfd[w] = NULL
      BY DEF FdsKnown, HandsOK
    <2>3. \A f \in free_list' : WaitsOK(f)'
      <3> SUFFICES ASSUME NEW f \in free_list PROVE WaitsOK(f)'
        BY Zenon
      <3>1. WaitsOK(f) /\ f # NULL
        BY SyncAssumption DEF FdsKnown, ListsKnown, SyncTypeOK
      <3>2. \A v \in Workers : tcfd[v] = f => v # w
        BY <2>2, <3>1, Zenon
      <3> QED BY <3>1, <3>2, Zenon DEF WaitsOK
    <2>4. \A v \in Workers : \A f \in cur'[v] : GoneOK(v, f)'
      BY Zenon DEF FdsKnown, GoneOK
    <2>5. \A v \in Workers : wpc'[v] = "store" => StoreOK(v, tcfd[v])'
      BY <2>2 DEF FdsKnown, StoreOK, HandsOK
    <2> QED BY <2>1, <2>3, <2>4, <2>5, Zenon DEF FdsKnown
  \* A step that leaves workers and tc_fds alone.
  <1>StillFds. ASSUME FdsKnown, UNCHANGED <<wpc, must_sync, tcfd, mem, in_epoll, free_list, cur>>
               PROVE  FdsKnown'
    <2> USE <1>StillFds
    <2>1. \A w \in Workers : HandsOK(w)'
      BY Zenon DEF FdsKnown, HandsOK
    <2>2. \A f \in free_list : WaitsOK(f)'
      BY Zenon DEF FdsKnown, WaitsOK
    <2>3. \A w \in Workers : \A f \in cur[w] : GoneOK(w, f)'
      BY Zenon DEF FdsKnown, GoneOK
    <2>4. \A w \in Workers : wpc[w] = "store" => StoreOK(w, tcfd[w])'
      BY Zenon DEF FdsKnown, StoreOK
    <2> QED BY <2>1, <2>2, <2>3, <2>4, Zenon DEF FdsKnown
  \* epoll_wait() gives out registered tc_fds only.
  <1>TcfdFds. ASSUME ListsKnown, FdsKnown, NEW w \in Workers, epoll_tcfd(w)
              PROVE  FdsKnown'
    <2> USE <1>TcfdFds
    <2>1. PICK f \in in_epoll : tcfd' = [tcfd EXCEPT ![w] = f]
      BY Zenon DEF epoll_tcfd
    <2>2. /\ wpc[w] = "epoll_wait" /\ WorkerGoto(w, "tcfd")
          /\ UNCHANGED <<must_sync, free_list, cur, mem, in_epoll>>
      BY Zenon DEF epoll_tcfd, lockedVars, fdMem
    <2>3. wpc'[w] = "tcfd" /\ \A v \in Workers : v # w => wpc'[v] = wpc[v]
      BY <2>2, <1>WorkerMoved, Zenon DEF ListsKnown
    <2>4. /\ f \in Fds /\ f # NULL /\ mem[f] = "registered"
          /\ tcfd'[w] = f /\ \A v \in Workers : v # w => tcfd'[v] = tcfd[v]
      BY <2>1, SyncAssumption DEF FdsKnown, ListsKnown, SyncTypeOK
    <2>5. \A v \in Workers : HandsOK(v)'
      BY <2>2, <2>3, <2>4 DEF FdsKnown, HandsOK
    <2>6. \A g \in free_list : WaitsOK(g)'
      <3> SUFFICES ASSUME NEW g \in free_list PROVE WaitsOK(g)'
        OBVIOUS
      <3>1. WaitsOK(g) /\ g # f
        BY <2>4 DEF FdsKnown, WaitsOK
      <3> QED BY <2>2, <2>3, <2>4, <3>1 DEF WaitsOK
    <2>7. \A v \in Workers : \A g \in cur[v] : GoneOK(v, g)'
      <3> SUFFICES ASSUME NEW v \in Workers, NEW g \in cur[v] PROVE GoneOK(v, g)'
        OBVIOUS
      <3>1. GoneOK(v, g) /\ g # f
        BY <2>4 DEF FdsKnown, GoneOK
      <3> QED BY <2>2, <2>4, <3>1 DEF GoneOK
    <2>8. \A v \in Workers : wpc'[v] = "store" => StoreOK(v, tcfd[v])'
      <3> SUFFICES ASSUME NEW v \in Workers, wpc'[v] = "store" PROVE StoreOK(v, tcfd[v])'
        OBVIOUS
      <3>1. v # w /\ StoreOK(v, tcfd[v]) /\ tcfd'[v] = tcfd[v] /\ tcfd[v] # f
        BY <2>3, <2>4 DEF FdsKnown, StoreOK
      <3> QED BY <2>2, <2>3, <2>4, <3>1 DEF StoreOK
    <2> QED BY <2>2, <2>5, <2>6, <2>7, <2>8, Zenon DEF FdsKnown
  \* The worker is through with its tc_fd.
  <1>HandleFds. ASSUME ListsKnown, FdsKnown, NEW w \in Workers, handle_tcfd(w)
                PROVE  FdsKnown'
    <2> USE <1>HandleFds
    <2>1. /\ wpc[w] = "tcfd" /\ WorkerGoto(w, "after_sleep") /\ tcfd' = [tcfd EXCEPT ![w] = NULL]
          /\ in_epoll' \subseteq in_epoll /\ UNCHANGED <<must_sync, free_list, cur, mem>>
      BY DEF handle_tcfd, lockedVars
    <2>2. wpc'[w] = "after_sleep" /\ \A v \in Workers : v # w => wpc'[v] = wpc[v]
      BY <2>1, <1>WorkerMoved, Zenon DEF ListsKnown
    <2>3. tcfd'[w] = NULL /\ \A v \in Workers : v # w => tcfd'[v] = tcfd[v]
      BY <2>1 DEF ListsKnown, SyncTypeOK
    <2>4. \A v \in Workers : HandsOK(v)'
      BY <2>1, <2>2, <2>3 DEF FdsKnown, HandsOK
    <2>5. \A g \in free_list : g # NULL /\ WaitsOK(g)'
      <3> SUFFICES ASSUME NEW g \in free_list PROVE g # NULL /\ WaitsOK(g)'
        OBVIOUS
      <3>1. WaitsOK(g) /\ g # NULL
        BY SyncAssumption DEF FdsKnown, ListsKnown, SyncTypeOK
      <3> QED BY <2>1, <2>2, <2>3, <3>1 DEF WaitsOK
    <2>6. \A v \in Workers : \A g \in cur[v] : GoneOK(v, g)'
      <3> SUFFICES ASSUME NEW v \in Workers, NEW g \in cur[v] PROVE GoneOK(v, g)'
        OBVIOUS
      <3>1. GoneOK(v, g) /\ g # NULL
        BY SyncAssumption DEF FdsKnown, ListsKnown, SyncTypeOK
      <3> QED BY <2>1, <2>3, <3>1 DEF GoneOK
    <2>7. \A v \in Workers : wpc'[v] = "store" => StoreOK(v, tcfd[v])'
      <3> SUFFICES ASSUME NEW v \in Workers, wpc'[v] = "store" PROVE StoreOK(v, tcfd[v])'
        OBVIOUS
      <3>1. v # w /\ StoreOK(v, tcfd[v]) /\ tcfd'[v] = tcfd[v] /\ tcfd[v] # NULL
        BY <2>2, <2>3 DEF FdsKnown, HandsOK
      <3> QED BY <2>1, <2>2, <2>3, <3>1 DEF StoreOK
    <2> QED BY <2>1, <2>4, <2>5, <2>6, <2>7 DEF FdsKnown
  \* tc_register_fd() makes a new tc_fd.
  <1>RegisterFds. ASSUME ListsKnown, FdsKnown, NEW w \in Workers, tc_register_fd(w)
                  PROVE  SyncTypeOK' /\ FdsKnown'
    <2> USE <1>RegisterFds
    <2>1. PICK f \in Fds : /\ mem[f] = "none" /\ mem' = [mem EXCEPT ![f] = "registered"]
                           /\ in_epoll' \in {in_epoll, in_epoll \cup {f}}
      BY Zenon DEF tc_register_fd
    <2>2. UNCHANGED <<wpc, sleeping_workers, is_on_sleeping_list, must_sync, sync_barrier,
                      free_list, tcfd, cur, tgkilled>>
      BY Zenon DEF tc_register_fd, lockedVars
    <2>3. mem'[f] = "registered" /\ \A g \in Fds : g # f => mem'[g] = mem[g]
      BY <2>1 DEF ListsKnown, SyncTypeOK
    <2>4. \A g \in Fds : mem[g] = "unregistered" => mem'[g] = "unregistered"
      BY <2>1, <2>3
    <2>5. SyncTypeOK'
      BY <2>1, <2>2 DEF ListsKnown, SyncTypeOK
    <2>6. \A g \in in_epoll' : mem'[g] = "registered"
      BY <2>1, <2>3 DEF FdsKnown, ListsKnown, SyncTypeOK
    <2>7. \A v \in Workers : HandsOK(v)'
      <3> SUFFICES ASSUME NEW v \in Workers PROVE HandsOK(v)'
        OBVIOUS
      <3>1. HandsOK(v) /\ tcfd[v] \in Fds \cup {NULL}
        BY DEF FdsKnown, ListsKnown, SyncTypeOK
      <3> QED BY <2>2, <2>3, <2>4, <3>1, SyncAssumption DEF HandsOK
    <2>8. \A g \in free_list : WaitsOK(g)'
      BY <2>2, <2>4 DEF FdsKnown, WaitsOK, ListsKnown, SyncTypeOK
    <2>9. \A v \in Workers : \A g \in cur[v] : GoneOK(v, g)'
      BY <2>2, <2>4 DEF FdsKnown, GoneOK, ListsKnown, SyncTypeOK
    <2>10. \A v \in Workers : wpc[v] = "store" => StoreOK(v, tcfd[v])'
      <3> SUFFICES ASSUME NEW v \in Workers, wpc[v] = "store" PROVE StoreOK(v, tcfd[v])'
        OBVIOUS
      <3>1. StoreOK(v, tcfd[v]) /\ tcfd[v] \in Fds
        BY DEF FdsKnown, HandsOK, ListsKnown, SyncTypeOK
      <3> QED BY <2>2, <2>4, <3>1 DEF StoreOK
    <2> QED BY <2>2, <2>5, <2>6, <2>7, <2>8, <2>9, <2>10, Zenon DEF FdsKnown
  \* Only a registered tc_fd is unregistered, so it is on no list of the dead, and one
  \* worker unregisters it.
  <1>UnregisterFds. ASSUME ListsKnown, FdsKnown, NEW w \in Workers, tc_unregister_fd(w)
                    PROVE  SyncTypeOK' /\ FdsKnown'
    <2> USE <1>UnregisterFds
    <2>1. PICK f \in Fds : /\ mem[f] = "registered" /\ mem' = [mem EXCEPT ![f] = "unregistered"]
                           /\ in_epoll' = in_epoll \ {f} /\ tcfd' = [tcfd EXCEPT ![w] = f]
      BY Zenon DEF tc_unregister_fd
    <2>2. /\ wpc[w] = "busy" /\ WorkerGoto(w, "store")
          /\ UNCHANGED <<sleeping_workers, is_on_sleeping_list, must_sync, sync_barrier,
                         free_list, cur, tgkilled>>
      BY Zenon DEF tc_unregister_fd, lockedVars
    <2>3. wpc'[w] = "store" /\ \A v \in Workers : v # w => wpc'[v] = wpc[v]
      BY <2>2, <1>WorkerMoved, Zenon DEF ListsKnown
    <2>4. /\ mem'[f] = "unregistered" /\ \A g \in Fds : g # f => mem'[g] = mem[g]
          /\ tcfd'[w] = f /\ \A v \in Workers : v # w => tcfd'[v] = tcfd[v]
      BY <2>1 DEF ListsKnown, SyncTypeOK
    <2>5. \A g \in Fds : mem[g] = "unregistered" => mem'[g] = "unregistered" /\ g # f
      BY <2>1, <2>4
    <2>6. SyncTypeOK'
      BY <2>1, <2>2 DEF ListsKnown, SyncTypeOK, WorkerGoto
    <2>7. \A g \in in_epoll' : mem'[g] = "registered"
      BY <2>1, <2>4 DEF FdsKnown, ListsKnown, SyncTypeOK
    <2>8. \A v \in Workers : HandsOK(v)'
      <3> SUFFICES ASSUME NEW v \in Workers PROVE HandsOK(v)'
        OBVIOUS
      <3>1. HandsOK(v) /\ HandsOK(w) /\ tcfd[v] \in Fds \cup {NULL}
        BY DEF FdsKnown, ListsKnown, SyncTypeOK
      <3>2. CASE v = w
        BY <2>2, <2>3, <2>4, <3>1, <3>2, SyncAssumption DEF HandsOK
      <3>3. CASE v # w
        <4>1. wpc'[v] = wpc[v] /\ tcfd'[v] = tcfd[v] /\ cur'[v] = cur[v]
          BY <2>2, <2>3, <2>4, <3>3
        <4>2. wpc[v] = "tcfd" => mem'[tcfd[v]] \in {"registered", "unregistered"}
          BY <2>4, <3>1, SyncAssumption DEF HandsOK
        <4> QED BY <3>1, <4>1, <4>2, Zenon DEF HandsOK
      <3> QED BY <3>2, <3>3
    <2>9. \A g \in free_list : WaitsOK(g)'
      <3> SUFFICES ASSUME NEW g \in free_list PROVE WaitsOK(g)'
        OBVIOUS
      <3>1. WaitsOK(g) /\ g \in Fds /\ g # f /\ mem'[g] = "unregistered"
        BY <2>5 DEF FdsKnown, ListsKnown, SyncTypeOK, WaitsOK
      <3> QED BY <2>2, <2>3, <2>4, <3>1 DEF WaitsOK
    <2>10. \A v \in Workers : \A g \in cur[v] : GoneOK(v, g)'
      <3> SUFFICES ASSUME NEW v \in Workers, NEW g \in cur[v] PROVE GoneOK(v, g)'
        OBVIOUS
      <3>1. GoneOK(v, g) /\ g \in Fds
        BY DEF FdsKnown, ListsKnown, SyncTypeOK
      <3>2. g # f /\ mem'[g] = "unregistered"
        BY <2>5, <3>1 DEF GoneOK
      <3> QED BY <2>2, <2>4, <3>1, <3>2 DEF GoneOK
    <2>11. \A v \in Workers : wpc'[v] = "store" => StoreOK(v, tcfd[v])'
      <3> SUFFICES ASSUME NEW v \in Workers, wpc'[v] = "store" PROVE StoreOK(v, tcfd[v])'
        OBVIOUS
      <3>1. CASE v = w
        <4>1. f \notin free_list /\ \A u \in Workers : f \notin cur[u]
          BY <2>1 DEF FdsKnown, WaitsOK, GoneOK
        <4>2. \A u \in Workers : u # w /\ tcfd[u] = f => wpc[u] = "tcfd"
          BY <2>1, SyncAssumption DEF FdsKnown, HandsOK, StoreOK
        <4> QED BY <2>2, <2>3, <2>4, <3>1, <4>1, <4>2 DEF StoreOK
      <3>2. CASE v # w
        <4>1. StoreOK(v, tcfd[v]) /\ tcfd[v] \in Fds /\ tcfd'[v] = tcfd[v]
          BY <2>3, <2>4, <3>2 DEF FdsKnown, HandsOK, ListsKnown, SyncTypeOK
        <4>2. tcfd[v] # f /\ mem'[tcfd[v]] = "unregistered"
          BY <2>5, <4>1 DEF StoreOK
        <4> QED BY <2>2, <2>3, <2>4, <4>1, <4>2 DEF StoreOK
      <3> QED BY <3>1, <3>2
    <2> QED BY <2>2, <2>6, <2>7, <2>8, <2>9, <2>10, <2>11 DEF FdsKnown
  \* The last worker that had to sync frees what is on free_list: nobody has it any more.
  <1>AfterSleepFds. ASSUME ListsKnown, FdsKnown, NEW w \in Workers, worker_after_sleep(w)
                    PROVE  FdsKnown'
    <2> USE <1>AfterSleepFds
    <2>1. /\ wpc[w] = "after_sleep" /\ must_sync' = must_sync \ {w}
          /\ UNCHANGED <<tcfd, mem, in_epoll>>
      BY Zenon DEF worker_after_sleep, fdMem
    <2>2. tcfd[w] = NULL /\ cur[w] = {}
      BY <2>1 DEF FdsKnown, HandsOK
    <2>3. CASE WorkerGoto(w, "busy") /\ UNCHANGED <<cur, free_list>>
      <3>1. wpc'[w] = "busy" /\ \A v \in Workers : v # w => wpc'[v] = wpc[v]
        BY <2>3, <1>WorkerMoved, Zenon DEF ListsKnown
      <3> QED BY <2>1, <2>2, <2>3, <3>1, <1>SameFds
    <2>4. CASE WorkerGoto(w, "free") /\ cur' = [cur EXCEPT ![w] = free_list] /\ free_list' = {}
      <3>1. wpc'[w] = "free" /\ \A v \in Workers : v # w => wpc'[v] = wpc[v]
        BY <2>4, <1>WorkerMoved, Zenon DEF ListsKnown
      <3>2. must_sync \subseteq {w}
        BY <2>1, <3>1, <1>AfterSleepLists
      <3>3. cur'[w] = free_list /\ \A v \in Workers : v # w => cur'[v] = cur[v]
        BY <2>4 DEF ListsKnown, SyncTypeOK
      <3>4. \A v \in Workers : HandsOK(v)'
        BY <2>1, <3>1, <3>3 DEF FdsKnown, HandsOK
      <3>5. ASSUME NEW f \in free_list PROVE GoneOK(w, f)'
        <4>1. WaitsOK(f)
          BY DEF FdsKnown
        <4>2. \A v \in Workers : tcfd[v] # f
          BY <2>1, <3>2, <4>1 DEF WaitsOK
        <4> QED BY <2>1, <2>4, <3>3, <4>1, <4>2 DEF GoneOK, WaitsOK
      <3>6. ASSUME NEW v \in Workers, v # w, NEW f \in cur[v] PROVE GoneOK(v, f)'
        <4>1. GoneOK(v, f)
          BY DEF FdsKnown
        <4> QED BY <2>1, <2>4, <3>3, <4>1 DEF GoneOK
      <3>7. ASSUME NEW v \in Workers, wpc'[v] = "store" PROVE StoreOK(v, tcfd[v])'
        <4>1. v # w /\ StoreOK(v, tcfd[v])
          BY <3>1, <3>7 DEF FdsKnown
        <4> QED BY <2>1, <2>2, <2>4, <3>1, <3>3, <4>1 DEF StoreOK
      <3>8. \A v \in Workers : \A f \in cur'[v] : GoneOK(v, f)'
        BY <3>3, <3>5, <3>6
      <3> QED BY <2>1, <2>4, <3>4, <3>7, <3>8 DEF FdsKnown
    <2> QED BY <2>3, <2>4, Zenon DEF worker_after_sleep, process_free_list
  \* A tc_fd goes to free_list with every worker that may have it told to sync; if there
  \* is none, it is freed at once.
  <1>StoreFds. ASSUME ListsKnown, FdsKnown, NEW w \in Workers, store_for_later_free(w)
               PROVE  FdsKnown'
    <2> USE <1>StoreFds
    <2>1. PICK f \in Fds : f = tcfd[w]
      BY <1>StoreLists, Zenon
    <2>2. /\ wpc[w] = "store" /\ tcfd' = [tcfd EXCEPT ![w] = NULL] /\ UNCHANGED <<mem, in_epoll>>
      BY Zenon DEF store_for_later_free, fdMem
    <2>3. must_sync' = must_sync \cup sleeping_workers /\ StoreOK(w, f)
      BY <2>1, <2>2, <1>StoreLists, Zenon DEF FdsKnown
    <2>4. tcfd'[w] = NULL /\ \A v \in Workers : v # w => tcfd'[v] = tcfd[v]
      BY <2>2 DEF ListsKnown, SyncTypeOK
    <2>5. \A v \in Workers : wpc[v] = "tcfd" => v \in must_sync'
      BY <2>3 DEF ListsKnown, SleepersKnown
    <2>6. \A v \in Workers : v # w /\ wpc[v] = "store" => tcfd[v] # f
      BY <2>3 DEF StoreOK
    <2>7. f # NULL /\ \A g \in free_list : g # NULL
      BY SyncAssumption DEF ListsKnown, SyncTypeOK
    <2>8. CASE WorkerGoto(w, "busy") /\ free_list' = free_list \cup {f} /\ UNCHANGED cur
      <3>1. wpc'[w] = "busy" /\ \A v \in Workers : v # w => wpc'[v] = wpc[v]
        BY <2>8, <1>WorkerMoved, Zenon DEF ListsKnown
      <3>2. \A v \in Workers : HandsOK(v)'
        BY <2>2, <2>4, <2>8, <3>1 DEF FdsKnown, HandsOK
      <3>3. WaitsOK(f)'
        BY <2>2, <2>3, <2>4, <2>5, <2>7, <2>8, <3>1 DEF StoreOK, WaitsOK
      <3>4. ASSUME NEW g \in free_list PROVE WaitsOK(g)'
        <4>1. WaitsOK(g)
          BY DEF FdsKnown
        <4> QED BY <2>2, <2>3, <2>4, <2>7, <2>8, <3>1, <4>1 DEF WaitsOK
      <3>5. ASSUME NEW v \in Workers, NEW g \in cur[v] PROVE GoneOK(v, g)'
        <4>1. GoneOK(v, g) /\ g # NULL
          BY SyncAssumption DEF FdsKnown, ListsKnown, SyncTypeOK
        <4> QED BY <2>1, <2>2, <2>4, <2>8, <4>1 DEF GoneOK
      <3>6. ASSUME NEW v \in Workers, wpc'[v] = "store" PROVE StoreOK(v, tcfd[v])'
        <4>1. v # w /\ StoreOK(v, tcfd[v]) /\ tcfd[v] # f /\ tcfd'[v] = tcfd[v] /\ tcfd[v] # NULL
          BY <2>4, <2>6, <3>1, <3>6 DEF FdsKnown, HandsOK
        <4> QED BY <2>2, <2>4, <2>8, <3>1, <4>1 DEF StoreOK
      <3> QED BY <2>2, <2>8, <3>2, <3>3, <3>4, <3>5, <3>6 DEF FdsKnown
    <2>9. CASE WorkerGoto(w, "free") /\ cur' = [cur EXCEPT ![w] = free_list \cup {f}] /\ free_list' = {}
      <3>1. wpc'[w] = "free" /\ \A v \in Workers : v # w => wpc'[v] = wpc[v]
        BY <2>9, <1>WorkerMoved, Zenon DEF ListsKnown
      <3>2. \A v \in Workers : wpc[v] # "tcfd"
        BY <2>5, <3>1, <1>StoreLists
      <3>3. cur'[w] = free_list \cup {f} /\ \A v \in Workers : v # w => cur'[v] = cur[v]
        BY <2>9 DEF ListsKnown, SyncTypeOK
      <3>4. \A v \in Workers : HandsOK(v)'
        BY <2>2, <2>4, <3>1, <3>3 DEF FdsKnown, HandsOK
      <3>5. ASSUME NEW g \in free_list \cup {f} PROVE GoneOK(w, g)'
        <4>1. /\ mem[g] = "unregistered" /\ g # NULL
              /\ \A v \in Workers : g \notin cur[v] /\ (v # w => tcfd[v] # g)
          BY <2>3, <2>7, <3>2, <3>5 DEF FdsKnown, WaitsOK, StoreOK
        <4> QED BY <2>2, <2>4, <2>9, <3>3, <4>1 DEF GoneOK
      <3>6. ASSUME NEW v \in Workers, v # w, NEW g \in cur[v] PROVE GoneOK(v, g)'
        <4>1. GoneOK(v, g) /\ g # NULL
          BY SyncAssumption DEF FdsKnown, ListsKnown, SyncTypeOK
        <4> QED BY <2>1, <2>2, <2>4, <2>9, <3>3, <4>1 DEF GoneOK
      <3>7. ASSUME NEW v \in Workers, wpc'[v] = "store" PROVE StoreOK(v, tcfd[v])'
        <4>1. v # w /\ StoreOK(v, tcfd[v]) /\ tcfd[v] # f /\ tcfd'[v] = tcfd[v] /\ tcfd[v] # NULL
          BY <2>4, <2>6, <3>1, <3>7 DEF FdsKnown, HandsOK
        <4> QED BY <2>2, <2>4, <2>9, <3>1, <3>3, <4>1 DEF StoreOK
      <3>8. \A v \in Workers : \A g \in cur'[v] : GoneOK(v, g)'
        BY <3>3, <3>5, <3>6
      <3> QED BY <2>2, <2>9, <3>4, <3>7, <3>8 DEF FdsKnown
    <2> QED BY <2>1, <2>8, <2>9, Zenon DEF store_for_later_free, process_free_list
  \* What is freed is in nobody's hands.
  <1>FreeFds. ASSUME ListsKnown, FdsKnown, NEW w \in Workers, tc_fd_free(w)
              PROVE  ListsKnown' /\ FdsKnown'
    <2> USE <1>FreeFds
    <2>1. wpc[w] = "free" /\ UNCHANGED <<lockedVars, must_sync, free_list, tcfd, tgkilled, in_epoll>>
      BY Zenon DEF tc_fd_free, lockedVars
    <2>2. CASE cur[w] = {} /\ WorkerGoto(w, "busy") /\ UNCHANGED <<cur, mem>>
      <3>1. wpc'[w] = "busy" /\ \A v \in Workers : v # w => wpc'[v] = wpc[v]
        BY <2>2, <1>WorkerMoved, Zenon DEF ListsKnown
      <3>2. SyncTypeOK'
        BY <2>1, <2>2 DEF ListsKnown, SyncTypeOK, WorkerGoto, lockedVars
      <3>3. ListsKnown'
        BY <2>1, <3>1, <3>2, <1>SameSleepers DEF InSleep
      <3>4. FdsKnown'
        BY <2>1, <2>2, <3>1, <1>SameFds
      <3> QED BY <3>3, <3>4
    <2>3. ASSUME NEW f \in cur[w], mem' = [mem EXCEPT ![f] = "freed"],
                 cur' = [cur EXCEPT ![w] = cur[w] \ {f}], wpc' = wpc
          PROVE  ListsKnown' /\ FdsKnown'
      <3>1. SyncTypeOK'
        BY <2>1, <2>3 DEF ListsKnown, SyncTypeOK, lockedVars
      <3>2. ListsKnown'
        BY <2>1, <2>3, <3>1, <1>SameSleepers, Zenon
      <3>3. /\ f \in Fds /\ GoneOK(w, f) /\ \A g \in Fds : g # f => mem'[g] = mem[g]
            /\ cur'[w] = cur[w] \ {f} /\ \A v \in Workers : v # w => cur'[v] = cur[v]
        BY <2>3 DEF FdsKnown, ListsKnown, SyncTypeOK
      <3>4. \A g \in in_epoll' : mem'[g] = "registered"
        BY <2>1, <3>3 DEF FdsKnown, GoneOK, ListsKnown, SyncTypeOK
      <3>5. ASSUME NEW v \in Workers PROVE HandsOK(v)'
        <4>1. HandsOK(v) /\ tcfd[v] \in Fds \cup {NULL} /\ tcfd[v] # f
          BY <3>3 DEF FdsKnown, ListsKnown, SyncTypeOK, GoneOK
        <4> QED BY <2>1, <2>3, <3>3, <4>1, SyncAssumption DEF HandsOK
      <3>6. ASSUME NEW g \in free_list PROVE WaitsOK(g)'
        <4>1. WaitsOK(g) /\ g \in Fds /\ g # f
          BY <3>3 DEF FdsKnown, ListsKnown, SyncTypeOK, GoneOK
        <4> QED BY <2>1, <2>3, <3>3, <4>1 DEF WaitsOK
      <3>7. ASSUME NEW v \in Workers, NEW g \in cur'[v] PROVE GoneOK(v, g)'
        <4>1. g \in cur[v] /\ g # f
          BY <3>3, <3>7 DEF GoneOK
        <4>2. GoneOK(v, g) /\ g \in Fds
          BY <4>1 DEF FdsKnown, ListsKnown, SyncTypeOK
        <4> QED BY <2>1, <2>3, <3>3, <4>1, <4>2 DEF GoneOK
      <3>8. ASSUME NEW v \in Workers, wpc'[v] = "store" PROVE StoreOK(v, tcfd[v])'
        <4>1. StoreOK(v, tcfd[v]) /\ tcfd[v] \in Fds /\ tcfd[v] # f
          BY <2>3, <3>3, <3>8 DEF FdsKnown, HandsOK, ListsKnown, SyncTypeOK, GoneOK
        <4> QED BY <2>1, <2>3, <3>3, <4>1 DEF StoreOK
      <3>9. FdsKnown'
        BY <2>1, <3>4, <3>5, <3>6, <3>7, <3>8, Zenon DEF FdsKnown
      <3> QED BY <3>2, <3>9
    <2> QED BY <2>2, <2>3, Zenon DEF tc_fd_free
  \* The steps around epoll_wait() of a worker without a tc_fd.
  <1>EpollStep. ASSUME SyncInv, NEW w \in Workers,
                       enter_epoll_wait(w) \/ epoll_other(w) \/ epoll_eintr(w) \/ ignore_signal(w)
                PROVE  SyncInv'
    <2> USE <1>EpollStep
    <2>1. /\ UNCHANGED <<lockedVars, tcfd, cur, mem, in_epoll>> /\ tgkilled' \subseteq tgkilled
          /\ UNCHANGED <<must_sync, free_list>>
      BY DEF enter_epoll_wait, epoll_other, epoll_eintr, ignore_signal, lockedVars, fdMem
    <2>2. CASE ignore_signal(w)
      <3>1. wpc' = wpc
        BY <2>2, Zenon DEF ignore_signal
      <3>2. SyncTypeOK'
        BY <2>1, <3>1 DEF SyncInv, ListsKnown, SyncTypeOK, lockedVars
      <3>3. ListsKnown'
        BY <2>1, <3>1, <3>2, <1>SameSleepers, Zenon DEF SyncInv
      <3>4. FdsKnown'
        BY <2>1, <3>1, <1>StillFds, Zenon DEF SyncInv
      <3> QED BY <3>3, <3>4 DEF SyncInv
    <2>3. CASE enter_epoll_wait(w) \/ epoll_other(w) \/ epoll_eintr(w)
      <3>1. PICK l \in {"prepared", "epoll_wait", "after_sleep"} :
               WorkerGoto(w, l) /\ wpc[w] \in {"prepared", "epoll_wait"}
        BY <2>3 DEF enter_epoll_wait, epoll_other, epoll_eintr
      <3>2. wpc'[w] = l /\ \A v \in Workers : v # w => wpc'[v] = wpc[v]
        BY <3>1, <1>WorkerMoved DEF SyncInv, ListsKnown
      <3>3. SyncTypeOK'
        BY <2>1, <3>1 DEF SyncInv, ListsKnown, SyncTypeOK, WorkerGoto, lockedVars
      <3>4. ListsKnown'
        <4>1. wpc'[w] \in InSleep /\ wpc[w] \in InSleep
          BY <3>1, <3>2 DEF InSleep
        <4> QED BY <2>1, <3>2, <3>3, <4>1, <1>SameSleepers, Zenon DEF SyncInv
      <3>5. cur[w] = {}
        BY <3>1 DEF SyncInv, FdsKnown, HandsOK
      <3>6. FdsKnown'
        <4>1. wpc[w] \notin {"tcfd", "store"} /\ wpc'[w] \notin {"tcfd", "store"} /\ cur'[w] = {}
          BY <2>1, <3>1, <3>2, <3>5
        <4> QED BY <2>1, <3>2, <4>1, <1>SameFds, Zenon DEF SyncInv
      <3> QED BY <3>4, <3>6 DEF SyncInv
    <2> QED BY <2>2, <2>3
  <1> SUFFICES ASSUME SyncInv, [SyncNext]_syncVars PROVE SyncInv'
    OBVIOUS
  <1> USE DEF SyncInv
  <1>1. CASE UNCHANGED syncVars
    <2> USE <1>1 DEF syncVars, lockedVars, fdMem
    <2>1. FdsKnown'
      BY <1>StillFds, Zenon
    <2>2. ListsKnown'
      BY Zenon DEF ListsKnown, SyncTypeOK, BarrierExact, SleepersKnown
    <2> QED BY <2>1, <2>2
  <1>2. ASSUME NEW w \in Workers,
               enter_epoll_wait(w) \/ epoll_other(w) \/ epoll_eintr(w) \/ ignore_signal(w)
        PROVE  SyncInv'
    BY <1>2, <1>EpollStep
  <1>3. ASSUME NEW w \in Workers, worker_prepare_sleep(w) PROVE SyncInv'
    <2>1. /\ wpc[w] = "busy" /\ WorkerGoto(w, "prepared")
          /\ UNCHANGED <<must_sync, free_list, tcfd, cur, mem, in_epoll>>
      BY <1>3, Zenon DEF worker_prepare_sleep, fdMem
    <2>2. wpc'[w] = "prepared" /\ \A v \in Workers : v # w => wpc'[v] = wpc[v]
      BY <2>1, <1>WorkerMoved, Zenon DEF ListsKnown
    <2>3. cur[w] = {}
      BY <2>1 DEF FdsKnown, HandsOK
    <2>4. FdsKnown'
      BY <2>1, <2>2, <2>3, <1>SameFds
    <2> QED BY <1>3, <2>4, <1>PrepareLists
  <1>4. ASSUME NEW w \in Workers, epoll_tcfd(w) \/ handle_tcfd(w) PROVE SyncInv'
    <2>1. PICK l \in {"tcfd", "after_sleep"} : WorkerGoto(w, l) /\ wpc[w] \in {"tcfd", "epoll_wait"}
      BY <1>4 DEF epoll_tcfd, handle_tcfd
    <2>2. wpc'[w] = l /\ \A v \in Workers : v # w => wpc'[v] = wpc[v]
      BY <2>1, <1>WorkerMoved DEF ListsKnown
    <2>3. UNCHANGED lockedVars
      BY <1>4, Zenon DEF epoll_tcfd, handle_tcfd
    <2>4. SyncTypeOK'
      BY <1>4, <2>1 DEF epoll_tcfd, handle_tcfd, ListsKnown, SyncTypeOK, WorkerGoto, lockedVars, fdMem
    <2>5. ListsKnown'
      <3>1. wpc'[w] \in InSleep /\ wpc[w] \in InSleep
        BY <2>1, <2>2 DEF InSleep
      <3> QED BY <2>2, <2>3, <2>4, <3>1, <1>SameSleepers, Zenon
    <2> QED BY <1>4, <2>5, <1>TcfdFds, <1>HandleFds, Zenon
  <1>5. ASSUME NEW w \in Workers, worker_after_sleep(w) \/ store_for_later_free(w) PROVE SyncInv'
    BY <1>5, <1>AfterSleepLists, <1>AfterSleepFds, <1>StoreLists, <1>StoreFds, Zenon
  <1>6. ASSUME NEW w \in Workers, tc_fd_free(w) PROVE SyncInv'
    BY <1>6, <1>FreeFds, Zenon
  <1>7. ASSUME NEW w \in Workers, tc_register_fd(w) PROVE SyncInv'
    <2>1. wpc' = wpc /\ UNCHANGED lockedVars
      BY <1>7, Zenon DEF tc_register_fd
    <2> QED BY <1>7, <2>1, <1>RegisterFds, <1>SameSleepers, Zenon
  <1>8. ASSUME NEW w \in Workers, tc_unregister_fd(w) PROVE SyncInv'
    <2>1. wpc[w] = "busy" /\ WorkerGoto(w, "store") /\ UNCHANGED lockedVars
      BY <1>8, Zenon DEF tc_unregister_fd
    <2>2. wpc'[w] = "store" /\ \A v \in Workers : v # w => wpc'[v] = wpc[v]
      BY <2>1, <1>WorkerMoved, Zenon DEF ListsKnown
    <2>3. wpc'[w] \notin InSleep /\ wpc[w] \notin InSleep
      BY <2>1, <2>2 DEF InSleep
    <2> QED BY <1>8, <2>1, <2>2, <2>3, <1>UnregisterFds, <1>SameSleepers, Zenon
  <1> QED BY <1>1, <1>2, <1>3, <1>4, <1>5, <1>6, <1>7, <1>8, Zenon DEF SyncNext, step

-----------------------------------------------------------------------------
(* Lists of events. *)

\* The elements of a concatenation.
LEMMA Concat ==
    ASSUME NEW S, NEW a \in Seq(S), NEW b \in Seq(S)
    PROVE  /\ a \o b \in Seq(S) /\ Len(a \o b) = Len(a) + Len(b)
           /\ \A j \in 1..(Len(a) + Len(b)) :
                 (a \o b)[j] = IF j <= Len(a) THEN a[j] ELSE b[j - Len(a)]
  OBVIOUS

\* Taking the i-th element out of a list leaves all the others, each once.
LEMMA RemoveFromList ==
    ASSUME NEW S, NEW s \in Seq(S), IsInjective(s), NEW i \in 1..Len(s)
    PROVE  LET r == RemoveAt(s, i) IN
           /\ r \in Seq(S) /\ Len(r) = Len(s) - 1 /\ IsInjective(r)
           /\ \A x : Contains(r, x) <=> Contains(s, x) /\ x # s[i]
  <1> DEFINE a == SubSeq(s, 1, i - 1)
             b == SubSeq(s, i + 1, Len(s))
             r == RemoveAt(s, i)
  <1>1. a \in Seq(S) /\ Len(a) = i - 1 /\ \A j \in 1..(i - 1) : a[j] = s[j]
    OBVIOUS
  <1>2. b \in Seq(S) /\ Len(b) = Len(s) - i /\ \A j \in 1..(Len(s) - i) : b[j] = s[i + j]
    OBVIOUS
  <1>3. /\ r \in Seq(S) /\ Len(r) = Len(s) - 1
        /\ \A j \in 1..(Len(s) - 1) : r[j] = IF j < i THEN s[j] ELSE s[j + 1]
    <2>1. r = a \o b
      BY Zenon DEF RemoveAt
    <2>2. /\ a \o b \in Seq(S) /\ Len(a \o b) = Len(a) + Len(b)
          /\ \A j \in 1..(Len(a) + Len(b)) :
                (a \o b)[j] = IF j <= Len(a) THEN a[j] ELSE b[j - Len(a)]
      BY <1>1, <1>2, Concat, Zenon
    <2> HIDE DEF a, b, r
    <2>3. ASSUME NEW j \in 1..(Len(s) - 1)
          PROVE  r[j] = IF j < i THEN s[j] ELSE s[j + 1]
      <3>0. j \in 1..(Len(a) + Len(b)) /\ (j <= Len(a) <=> j < i)
        BY <1>1, <1>2
      <3>1. CASE j < i
        <4>1. r[j] = a[j] /\ j \in 1..(i - 1)
          BY <2>1, <2>2, <3>0, <3>1
        <4> QED BY <1>1, <3>1, <4>1, Zenon
      <3>2. CASE ~(j < i)
        <4>1. r[j] = b[j - Len(a)]
          BY <2>1, <2>2, <3>0, <3>2, Zenon
        <4>2. Len(a) = i - 1 /\ j - (i - 1) \in 1..(Len(s) - i) /\ i + (j - (i - 1)) = j + 1
          BY <1>1, <3>2
        <4>3. b[j - (i - 1)] = s[j + 1]
          BY <1>2, <4>2, Zenon
        <4> QED BY <3>2, <4>1, <4>2, <4>3, Zenon
      <3> QED BY <3>1, <3>2, Zenon
    <2> QED BY <1>1, <1>2, <2>1, <2>2, <2>3
  <1> HIDE DEF r
  <1>4. IsInjective(r)
    <2>1. DOMAIN r = 1..(Len(s) - 1) /\ DOMAIN s = 1..Len(s)
      BY <1>3
    <2>2. ASSUME NEW j \in 1..(Len(s) - 1), NEW k \in 1..(Len(s) - 1), r[j] = r[k]
          PROVE  j = k
      <3> DEFINE at(m) == IF m < i THEN m ELSE m + 1
      <3>1. at(j) \in DOMAIN s /\ at(k) \in DOMAIN s /\ s[at(j)] = s[at(k)]
        BY <1>3, <2>1, <2>2
      <3>2. at(j) = at(k)
        BY <3>1, Zenon DEF IsInjective
      <3> QED BY <3>2
    <2> QED BY <2>1, <2>2, Zenon DEF IsInjective
  <1>5. ASSUME NEW x PROVE Contains(r, x) <=> Contains(s, x) /\ x # s[i]
    <2>1. ASSUME Contains(r, x) PROVE Contains(s, x) /\ x # s[i]
      <3>1. PICK j \in 1..(Len(s) - 1) : r[j] = x
        BY <1>3, <2>1 DEF Contains
      <3>2. PICK k \in 1..Len(s) : k # i /\ s[k] = x
        BY <1>3, <3>1
      <3>3. DOMAIN s = 1..Len(s)
        BY <1>3
      <3> QED BY <3>2, <3>3, Zenon DEF Contains, IsInjective
    <2>2. ASSUME Contains(s, x), x # s[i] PROVE Contains(r, x)
      <3>1. PICK j \in 1..Len(s) : s[j] = x
        BY <2>2, Zenon DEF Contains
      <3>2. CASE j < i
        BY <1>3, <3>1, <3>2 DEF Contains
      <3>3. CASE j > i
        <4>1. j - 1 \in 1..(Len(s) - 1) /\ r[j - 1] = x
          BY <1>3, <3>1, <3>3
        <4> QED BY <1>3, <4>1, Zenon DEF Contains
      <3> QED BY <2>2, <3>1, <3>2, <3>3
    <2> QED BY <2>1, <2>2, Zenon
  <1> QED BY <1>3, <1>4, <1>5, Zenon DEF r

\* An element that is new to a list is on it once after it was appended.
LEMMA AppendNew ==
    ASSUME NEW S, NEW s \in Seq(S), IsInjective(s), NEW c \in S, ~Contains(s, c)
    PROVE  LET r == Append(s, c) IN
           /\ r \in Seq(S) /\ Len(r) = Len(s) + 1 /\ IsInjective(r)
           /\ \A x : Contains(r, x) <=> Contains(s, x) \/ x = c
  <1>1. PICK r : r = Append(s, c)
    BY Zenon
  <1>2. /\ r \in Seq(S) /\ Len(r) = Len(s) + 1 /\ r[Len(s) + 1] = c
        /\ \A j \in 1..Len(s) : r[j] = s[j]
    BY <1>1
  <1>3. IsInjective(r)
    BY <1>2 DEF IsInjective, Contains
  <1>4. \A x : Contains(r, x) <=> Contains(s, x) \/ x = c
    BY <1>2 DEF Contains
  <1> QED BY <1>1, <1>2, <1>3, <1>4, Zenon

\* The empty list.
LEMMA NoEvents == <<>> \in Seq(Threads) /\ IsInjective(<<>>) /\ Range(<<>>) = {}
  BY DEF IsInjective, Range

\* The range of a list is what it contains.
LEMMA RangeIs ==
    ASSUME NEW s \in Seq(Threads), NEW x
    PROVE  x \in Range(s) <=> Contains(s, x)
  BY DEF Range, Contains

\* RemoveFirst() of an event that is on the list, or on no list, takes just that off.
LEMMA RemoveOf ==
    ASSUME NEW s \in Seq(Threads), IsInjective(s), NEW t
    PROVE  LET r == RemoveFirst(s, t) IN
           r \in Seq(Threads) /\ IsInjective(r) /\ Range(r) = Range(s) \ {t}
  <1> DEFINE r == RemoveFirst(s, t)
  <1>1. r \in Seq(Threads) /\ IsInjective(r)
        /\ \A x : Contains(r, x) <=> Contains(s, x) /\ x # t
    <2>1. CASE Contains(s, t)
      <3> DEFINE i == CHOOSE i \in 1..Len(s) : s[i] = t
      <3>1. i \in 1..Len(s) /\ s[i] = t
        BY <2>1, Zenon DEF Contains
      <3>2. r = RemoveAt(s, i)
        BY <2>1, Zenon DEF RemoveFirst
      <3> HIDE DEF i, r
      <3>3. /\ RemoveAt(s, i) \in Seq(Threads) /\ IsInjective(RemoveAt(s, i))
            /\ \A x : Contains(RemoveAt(s, i), x) <=> Contains(s, x) /\ x # s[i]
        BY <3>1, RemoveFromList
      <3> QED BY <3>1, <3>2, <3>3, Zenon
    <2>2. CASE ~Contains(s, t)
      BY <2>2, Zenon DEF RemoveFirst
    <2> QED BY <2>1, <2>2, Zenon
  <1> HIDE DEF r
  <1>2. \A x : x \in Range(r) <=> x \in Range(s) /\ x # t
    BY <1>1, RangeIs, Zenon
  <1>3. Range(r) = Range(s) \ {t}
    BY <1>2, Zenon
  <1> QED BY <1>1, <1>3, Zenon DEF r

\* A thread put at the end of a list.
LEMMA AppendOf ==
    ASSUME NEW s \in Seq(Threads), IsInjective(s), NEW t \in Threads, t \notin Range(s)
    PROVE  LET r == Append(s, t) IN
           r \in Seq(Threads) /\ IsInjective(r) /\ Range(r) = Range(s) \cup {t}
  <1> DEFINE r == Append(s, t)
  <1>1. ~Contains(s, t)
    BY RangeIs, Zenon
  <1>2. /\ r \in Seq(Threads) /\ IsInjective(r)
        /\ \A x : Contains(r, x) <=> Contains(s, x) \/ x = t
    BY <1>1, AppendNew, Zenon
  <1> HIDE DEF r
  <1>3. \A x : x \in Range(r) <=> x \in Range(s) \/ x = t
    BY <1>2, RangeIs, Zenon
  <1>4. Range(r) = Range(s) \cup {t}
    BY <1>3, Zenon
  <1> QED BY <1>2, <1>4, Zenon DEF r

-----------------------------------------------------------------------------
(* The inductive invariant. *)

\* The threads that have an event on a list.
Held == {t \in Threads : pc[t] \in Waiting \cup {"intr", "remove"}}

\* The part of FdTypeOK about the lists, and the types of the rest.
Lists ==
    /\ events \in Seq(Threads) /\ IsInjective(events)
    /\ immediate \subseteq Threads \ Range(events)
    /\ pending \subseteq Threads \ (immediate \cup Range(events))
    /\ pc \in [Threads -> Waiting \cup {"idle", "event", "intr", "remove", "io"}]
    /\ worker_nr \in [Threads -> Workers]
    /\ Held = Range(events) \cup immediate \cup pending

MaskTypes ==
    /\ ep_events \in Masks /\ kernel \in Masks
    /\ registered \in BOOLEAN /\ stale \in BOOLEAN

Rest ==
    /\ e \in [Threads -> [mask : OneWay, prio : BOOLEAN]]
    /\ ready \in Masks /\ err_hup \in BOOLEAN
    /\ epe \in [Workers -> Masks]
    /\ sig \subseteq Threads
    /\ waits \in [Threads -> 0..MaxWaits]

\* No worker has a report to handle.
NoReport == \A w \in Workers : epe[w] = {}

Watched == stale \/ ~NoReport \/ \A t \in Range(events) : e[t].mask \subseteq kernel

\* The cached mask is right when no report is under way and the last EPOLL_CTL_MOD has
\* succeeded: arm() may trust it.
CacheRight == NoReport /\ ~err_hup /\ ~stale => ep_events \subseteq kernel

\* Only a descriptor with an error gets unregistered.
Entry == registered \/ err_hup

FdInv == Lists /\ MaskTypes /\ Rest /\ Watched /\ ErrorToldToAll /\ CacheRight /\ Entry

\* A worker with a report is going to look at common.immediate before it sleeps.
Loops ==
    /\ loop \in [Workers -> {"look", "poll", "sleep"}]
    /\ \A w \in Workers : epe[w] # {} => loop[w] = "look"
    /\ MovedNotForgotten

\* The two are stronger than the properties.
LEMMA FdInvWatched == FdInv /\ Loops => FdWatched /\ ErrorToldToAll /\ MovedNotForgotten
  <1> SUFFICES ASSUME FdInv, Loops PROVE FdWatched /\ ErrorToldToAll /\ MovedNotForgotten
    OBVIOUS
  <1>1. FdTypeOK
    BY Zenon DEF FdInv, Lists, MaskTypes, Rest, Loops, FdTypeOK, Held
  <1>2. \A t \in Range(events) :
           stale \/ e[t].mask \subseteq kernel \/ \E w \in Workers : epe[w] # {}
    BY Zenon DEF FdInv, Watched, NoReport
  <1> QED BY <1>1, <1>2, Zenon DEF FdInv, Loops, FdWatched

\* Nobody waits at the start.
LEMMA FdInit == Init => FdInv /\ Loops
  <1> SUFFICES ASSUME Init PROVE FdInv /\ Loops
    OBVIOUS
  <1>1. <<>> \in Seq(Threads) /\ IsInjective(<<>>) /\ Range(<<>>) = {}
    BY NoEvents, Zenon
  <1>2. Held = {}
    BY DEF Init, Held, Waiting
  <1>3. Lists
    BY <1>1, <1>2 DEF Init, Lists
  <1>4. MaskTypes
    BY Zenon DEF Init, MaskTypes, Masks
  <1>5. Rest
    <2>1. 0 \in 0..MaxWaits
      BY FdAssumption
    <2>2. e \in [Threads -> [mask : OneWay, prio : BOOLEAN]]
      BY DEF Init, OneWay
    <2>3. ready \in Masks /\ err_hup \in BOOLEAN /\ sig \subseteq Threads
      BY Zenon DEF Init, Masks
    <2>4. epe \in [Workers -> Masks] /\ waits \in [Threads -> 0..MaxWaits]
      BY <2>1, Zenon DEF Init, Masks
    <2> QED BY <2>2, <2>3, <2>4, Zenon DEF Rest
  <1>6. Watched
    BY <1>1, Zenon DEF Init, Watched
  <1>7. ErrorToldToAll /\ CacheRight /\ Entry
    BY DEF Init, ErrorToldToAll, CacheRight, Entry
  <1>8. Loops
    BY DEF Init, Loops, MovedNotForgotten
  <1> QED BY <1>3, <1>4, <1>5, <1>6, <1>7, <1>8, Zenon DEF FdInv

-----------------------------------------------------------------------------
(* The operators of the model. *)

PCs == Waiting \cup {"idle", "event", "intr", "remove", "io"}

-----------------------------------------------------------------------------
(* Each step keeps the invariant. *)

\* Every step keeps the invariant.
LEMMA FdNext == ASSUME SetFacts PROVE FdInv /\ [Next]_vars => FdInv'
  \* A set of indices that is not empty has a greatest element.
  <1>GreatestIndex. ASSUME NEW n \in Nat, NEW T, T \subseteq 1..n, T # {}
                    PROVE  \E x \in T : \A y \in T : y <= x
    <2> USE <1>GreatestIndex
    <2> DEFINE U == {n - i : i \in T}
    <2>1. U \subseteq Nat /\ U # {}
      <3>1. ASSUME NEW i \in T PROVE n - i \in Nat
        <4>1. i \in 1..n
          BY Zenon
        <4> QED BY <4>1
      <3> QED BY <3>1, Zenon
    <2> HIDE DEF U
    <2>2. PICK u \in U : \A v \in U : u <= v
      BY <2>1, Zenon DEF SetFacts, LeastElement
    <2>3. PICK x \in T : u = n - x
      BY <2>2 DEF U
    <2>4. \A y \in T : n - x <= n - y
      BY <2>2, <2>3, Zenon DEF U
    <2>5. \A y \in T : y <= x
      BY <2>4
    <2> QED BY <2>5, Zenon
  \* Max() and Min() of some positions of a list are among them.
  <1>EndOf. ASSUME NEW s \in Seq(Threads), NEW T, T \subseteq DOMAIN s, T # {}
            PROVE  Max(T) \in T /\ Min(T) \in T
    <2> USE <1>EndOf
    <2>1. DOMAIN s = 1..Len(s) /\ Len(s) \in Nat
      OBVIOUS
    <2>2. \E x \in T : \A y \in T : x <= y
      <3>1. T \subseteq Nat
        BY <2>1
      <3> QED BY <3>1, Zenon DEF SetFacts, LeastElement
    <2>3. \E x \in T : \A y \in T : x >= y
      <3>1. \E x \in T : \A y \in T : y <= x
        BY <2>1, <1>GreatestIndex, Zenon
      <3>2. \A x \in T, y \in T : y <= x => x >= y
        BY <2>1
      <3> QED BY <3>1, <3>2, Zenon
    <2>4. Min(T) \in T
      BY <2>2, Zenon DEF Min
    <2>5. Max(T) \in T
      BY <2>3, Zenon DEF Max
    <2> QED BY <2>4, <2>5
  \* others_left() tells whether the list is empty once the event of t is off it.
  <1>OthersLeft. ASSUME NEW s \in Seq(Threads), IsInjective(s), NEW t
                 PROVE  ~others_left(s, t) => Range(s) \ {t} = {}
    <2> USE <1>OthersLeft
    <2> SUFFICES ASSUME ~others_left(s, t), NEW x \in Range(s) PROVE x = t
      BY Zenon
    <2>1. PICK i \in 1..Len(s) : s[i] = x
      BY DEF Range
    <2>2. s # <<>> /\ Len(s) \in Nat /\ 1 \in DOMAIN s /\ Len(s) \in DOMAIN s /\ Head(s) = s[1]
      BY <2>1
    <2>3. s[1] = t /\ s[Len(s)] = t
      BY <2>2, Zenon DEF others_left
    <2>4. Len(s) = 1
      BY <2>2, <2>3, Zenon DEF IsInjective
    <2> QED BY <2>1, <2>3, <2>4
  \* arm() makes the kernel watch what the events of es need, unless it believes the
  \* cached mask, and then that one has it.
  <1>Arm. ASSUME MaskTypes, NEW es \in Seq(Threads), NEW ev \in [Threads -> [mask : OneWay, prio : BOOLEAN]],
                 NEW cached \in Masks, NEW ok \in BOOLEAN, arm(cached, es, ev, ok)
          PROVE  /\ MaskTypes' /\ registered' = registered /\ (~ok => stale')
                 /\ ~stale' /\ (~stale => cached \subseteq kernel) =>
                       /\ ep_events' \subseteq kernel'
                       /\ \A t \in Range(es) : ev[t].mask \subseteq kernel'
    <2> USE <1>Arm
    <2> DEFINE mask == calc_epoll_event_mask(es, ev)
    <2>1. /\ ep_events' = mask /\ registered' = registered
          /\ mask = cached => ok /\ kernel' = kernel /\ stale' = stale
          /\ mask # cached => \/ ok /\ kernel' = mask \cup {"HUP"} /\ stale' = FALSE
                              \/ ~ok /\ kernel' = kernel /\ stale' = TRUE
      BY Zenon DEF arm, epoll_ctl_mod
    <2>2. \A t \in Range(es) : t \in Threads
      BY DEF Range
    <2>3. \A t \in Range(es) : ev[t].mask \subseteq mask /\ "ONESHOT" \in mask
      <3> SUFFICES ASSUME NEW t \in Range(es) PROVE ev[t].mask \cup {"ONESHOT"} \subseteq mask
        BY Zenon
      <3> QED BY Zenon DEF calc_epoll_event_mask
    <2>4. mask \in Masks
      <3> SUFFICES ASSUME NEW t \in Range(es) PROVE ev[t].mask \cup {"ONESHOT"} \in Masks
        BY DEF calc_epoll_event_mask, Masks
      <3> QED BY <2>2 DEF Masks, OneWay
    <2> HIDE DEF mask
    <2>5. MaskTypes' /\ (~ok => stale')
      BY <2>1, <2>4, Zenon DEF MaskTypes, Masks
    <2>6. ASSUME ~stale', ~stale => cached \subseteq kernel
          PROVE  mask \subseteq kernel'
      <3>1. CASE mask = cached
        BY <2>1, <2>3, <2>6, <3>1, Zenon
      <3>2. CASE mask # cached
        BY <2>1, <2>6, <3>2, Zenon
      <3> QED BY <3>1, <3>2
    <2> QED BY <2>1, <2>3, <2>5, <2>6, Zenon
  \* What matching_event() picks for a direction is on the list.
  <1>ChosenOnList. ASSUME Lists, NEW d, NEW em, NEW w
                   PROVE  Chosen(d, em, w) \in {u \in Range(events) : d \in e[u].mask} \cup {NULL}
    <2> USE <1>ChosenOnList
    <2> DEFINE S == Looked(d, em)
    <2>1. S \subseteq DOMAIN events /\ Here(w, S) \subseteq S
      BY Zenon DEF Looked, Here
    <2>2. events \in Seq(Threads)
      BY Zenon DEF Lists
    <2>3. \A i \in S : events[i] \in {u \in Range(events) : d \in e[u].mask}
      <3>1. \A i \in DOMAIN events : events[i] \in Range(events)
        BY <2>2 DEF Range
      <3> QED BY <3>1, Zenon DEF Looked
    <2>4. S # {} => Max(S) \in S /\ Min(S) \in S
      BY <2>1, <2>2, <1>EndOf, Zenon
    <2>5. Here(w, S) # {} => Max(Here(w, S)) \in S
      BY <2>1, <2>2, <1>EndOf, Zenon
    <2> HIDE DEF S
    <2>6. Chosen(d, em, w) = CASE S = {} -> NULL
                               [] \E i \in S : e[events[i]].prio -> events[Max(S)]
                               [] Here(w, S) # {} -> events[Max(Here(w, S))]
                               [] OTHER -> events[Min(S)]
      BY Zenon DEF Chosen, S
    <2> QED BY <2>3, <2>4, <2>5, <2>6, Zenon
  \* matching_event() picks threads that are on the list, and two different ones: the
  \* event of none is for both directions.
  <1>MatchingOnList. ASSUME Lists, Rest, NEW w, NEW em
                     PROVE  LET r == matching_event(w, em)
                            IN  /\ r.run \in Range(events) \cup {NULL}
                                /\ r.moved \in Range(events) \cup {NULL}
                                /\ r.moved = NULL \/ r.moved # r.run
    <2> USE <1>MatchingOnList
    <2> DEFINE in   == Chosen("IN", em, w)
               out  == Chosen("OUT", em, w)
               mine == Here(w, Looked("IN", em) \cup Looked("OUT", em))
               ew   == events[Max(mine)]
               r    == matching_event(w, em)
    <2>0. /\ in \in {u \in Range(events) : "IN" \in e[u].mask} \cup {NULL}
          /\ out \in {u \in Range(events) : "OUT" \in e[u].mask} \cup {NULL}
      BY <1>ChosenOnList, Zenon
    <2>1. /\ in \in Range(events) \cup {NULL} /\ out \in Range(events) \cup {NULL}
          /\ in # out \/ in = NULL
      <3>1. ASSUME NEW u \in Range(events) PROVE ~("IN" \in e[u].mask /\ "OUT" \in e[u].mask)
        <4>1. u \in Threads
          BY <3>1 DEF Lists, Range
        <4> QED BY <4>1 DEF Rest, OneWay
      <3> HIDE DEF in, out
      <3> QED BY <2>0, <3>1, Zenon
    <2>2. mine \subseteq DOMAIN events
      BY Zenon DEF Looked, Here
    <2>3. events \in Seq(Threads)
      BY Zenon DEF Lists
    <2>4. mine # {} => ew \in Range(events)
      <3>1. mine # {} => Max(mine) \in DOMAIN events
        BY <2>2, <2>3, <1>EndOf, Zenon
      <3> QED BY <3>1, Zenon DEF Range
    <2>5. r = CASE mine # {} -> [run |-> ew, moved |-> IF ew = in THEN out ELSE in]
                [] mine = {} /\ in # NULL /\ out # NULL -> [run |-> out, moved |-> in]
                [] OTHER -> [run |-> IF in # NULL THEN in ELSE out, moved |-> NULL]
      BY Zenon DEF matching_event
    <2> HIDE DEF in, out, mine, ew, r
    <2>6. CASE mine # {}
      BY <2>1, <2>4, <2>5, <2>6 DEF r
    <2>7. CASE mine = {} /\ in # NULL /\ out # NULL
      BY <2>1, <2>5, <2>7 DEF r
    <2>8. CASE mine = {} /\ ~(in # NULL /\ out # NULL)
      BY <2>1, <2>5, <2>8 DEF r
    <2> QED BY <2>6, <2>7, <2>8, Zenon
  \* wakeup_all_events() picks one if there is one.
  <1>WakeupAllOnList. ASSUME Lists, NEW w
                      PROVE  LET run == wakeup_all_events(w)
                             IN  run \in Range(events) \/ (run = NULL /\ Range(events) = {})
    <2> USE <1>WakeupAllOnList
    <2> DEFINE mine == Here(w, DOMAIN events)
    <2>1. events \in Seq(Threads)
      BY Zenon DEF Lists
    <2>2. events = <<>> => Range(events) = {}
      BY DEF Range
    <2>3. events # <<>> => Head(events) \in Range(events)
      BY <2>1 DEF Range
    <2>4. mine # {} => events[Min(mine)] \in Range(events)
      <3>1. mine \subseteq DOMAIN events
        BY Zenon DEF Here
      <3>2. mine # {} => Min(mine) \in DOMAIN events
        BY <2>1, <3>1, <1>EndOf, Zenon
      <3> QED BY <3>2, Zenon DEF Range
    <2> QED BY <2>2, <2>3, <2>4, Zenon DEF wakeup_all_events
  \* run_or_queue() takes t off the lists, or its event onto tc->pending; on are the
  \* threads with an event on the other two lists afterwards.
  <1>RunOrQueue. ASSUME pc \in [Threads -> PCs], worker_nr \in [Threads -> Workers],
                        NEW w \in Workers, NEW t \in Threads, run_or_queue(w, t),
                        NEW on, t \notin on, t \notin pending,
                        pending \subseteq Threads \ on, Held = on \cup {t} \cup pending
                 PROVE  /\ pc' \in [Threads -> PCs] /\ worker_nr' \in [Threads -> Workers]
                        /\ pending' \subseteq Threads \ on /\ Held' = on \cup pending'
    <2> USE <1>RunOrQueue
    <2>1. CASE pc[t] = "asleep"
      <3>1. /\ pc' = [pc EXCEPT ![t] = "event"] /\ pending' = pending
            /\ worker_nr' = [worker_nr EXCEPT ![t] = w]
        BY <2>1, Zenon DEF run_or_queue, Goto
      <3>2. pc' \in [Threads -> PCs] /\ worker_nr' \in [Threads -> Workers]
        BY <3>1 DEF PCs
      <3>3. \A u \in Threads : u \in Held' <=> u \in Held /\ u # t
        BY <3>1 DEF Held, Waiting
      <3>4. Held' \subseteq Threads /\ Held \subseteq Threads
        BY DEF Held
      <3>5. Held' = on \cup pending'
        BY <3>1, <3>3, <3>4, Zenon
      <3> QED BY <3>1, <3>2, <3>5, Zenon
    <2>2. CASE pc[t] # "asleep"
      <3>1. pc' = pc /\ pending' = pending \cup {t} /\ worker_nr' = worker_nr
        BY <2>2, Zenon DEF run_or_queue
      <3>2. Held' = Held
        BY <3>1, Zenon DEF Held
      <3> QED BY <3>1, <3>2, Zenon
    <2> QED BY <2>1, <2>2, Zenon
  \* dispatch() leaves each event on one list, when events' has those that stay.
  <1>Dispatch. ASSUME Lists, NEW w \in Workers, NEW run \in Range(events) \cup {NULL},
                      NEW moved, moved \subseteq Range(events), run \notin moved, dispatch(w, run, moved),
                      events' \in Seq(Threads), IsInjective(events'),
                      Range(events') = Range(events) \ (moved \cup {run})
               PROVE  Lists'
    <2> USE <1>Dispatch
    <2> DEFINE on == Range(events') \cup immediate'
    <2>1. Range(events) \subseteq Threads /\ NULL \notin Threads
      BY FdAssumption DEF Lists, Range
    <2>2. immediate' = immediate \cup moved
      BY Zenon DEF dispatch
    <2>3. immediate' \subseteq Threads \ Range(events')
      BY <2>1, <2>2, Zenon DEF Lists
    <2>4. pc \in [Threads -> PCs] /\ worker_nr \in [Threads -> Workers]
      BY Zenon DEF Lists, PCs
    <2>5. pending \subseteq Threads \ on
      BY <2>1, <2>2, Zenon DEF Lists
    <2>6. CASE run = NULL
      <3>1. pending' = pending /\ pc' = pc /\ worker_nr' = worker_nr
        BY <2>6, Zenon DEF dispatch
      <3>2. Held' = Held
        BY <3>1, Zenon DEF Held
      <3>3. Held = on \cup pending
        BY <2>1, <2>2, <2>6, Zenon DEF Lists
      <3> QED BY <2>3, <2>4, <2>5, <3>1, <3>2, <3>3, Zenon DEF Lists, PCs
    <2>7. CASE run # NULL
      <3>1. run \in Threads /\ run \in Range(events) /\ run_or_queue(w, run)
        BY <2>1, <2>7, Zenon DEF dispatch
      <3>2. run \notin on /\ run \notin pending
        BY <2>2, <3>1, Zenon DEF Lists
      <3>3. Held = on \cup {run} \cup pending
        BY <2>1, <2>2, <3>1, Zenon DEF Lists
      <3> HIDE DEF on
      <3>4. /\ pc' \in [Threads -> PCs] /\ worker_nr' \in [Threads -> Workers]
            /\ pending' \subseteq Threads \ on /\ Held' = on \cup pending'
        BY <2>4, <2>5, <3>1, <3>2, <3>3, <1>RunOrQueue, Zenon
      <3>5. pending' \subseteq Threads \ (immediate' \cup Range(events'))
        BY <3>4, Zenon DEF on
      <3>6. Held' = Range(events') \cup immediate' \cup pending'
        BY <3>4, Zenon DEF on
      <3> QED BY <2>3, <3>4, <3>5, <3>6, Zenon DEF Lists, PCs
    <2> QED BY <2>6, <2>7, Zenon
  \* A step of t that changes neither the lists nor whether t has an event there.
  <1>SameLists. ASSUME Lists, UNCHANGED <<lists, worker_nr>>, NEW t \in Threads, NEW l \in PCs,
                       pc' = [pc EXCEPT ![t] = l],
                       pc[t] \in Waiting \cup {"intr", "remove"} <=> l \in Waiting \cup {"intr", "remove"}
                PROVE  Lists'
    <2> USE <1>SameLists
    <2>1. events' = events /\ immediate' = immediate /\ pending' = pending /\ worker_nr' = worker_nr
      BY Zenon DEF lists
    <2>2. pc' \in [Threads -> PCs] /\ \A u \in Threads : pc'[u] = IF u = t THEN l ELSE pc[u]
      BY DEF Lists, PCs
    <2>3. Held' = Held
      BY <2>2, Zenon DEF Held
    <2> QED BY <2>1, <2>2, <2>3, Zenon DEF Lists, PCs
  \* Steps that touch neither the lists nor pc.
  <1>NoLists. ASSUME Lists, UNCHANGED <<lists, pc>>, worker_nr' \in [Threads -> Workers]
              PROVE  Lists'
    BY <1>NoLists, Zenon DEF Lists, Held, lists
  \* tc_wait_fd().
  <1>WaitFdKeeps. ASSUME FdInv, NEW t \in Threads, NEW w \in Workers, tc_wait_fd(t, w)
                  PROVE  FdInv'
    <2> USE <1>WaitFdKeeps
    <2>1. PICK r \in Requests[t] : add_event_fd(t, r)
      BY Zenon DEF tc_wait_fd
    <2>2. r \in [mask : OneWay, prio : BOOLEAN]
      BY <2>1, FdAssumption, Zenon
    <2>3. /\ pc[t] = "idle" /\ waits[t] < MaxWaits
          /\ waits' = [waits EXCEPT ![t] = @ + 1]
          /\ immediate' = immediate /\ pending' = pending
          /\ worker_nr' = [worker_nr EXCEPT ![t] = w]
          /\ err_hup' = err_hup /\ ready' = ready /\ epe' = epe /\ sig' = sig
      BY Zenon DEF tc_wait_fd
    <2>4. waits' \in [Threads -> 0..MaxWaits] /\ worker_nr' \in [Threads -> Workers]
      BY <2>3, FdAssumption DEF FdInv, Rest, Lists
    <2>5. CASE err_hup
      <3>1. /\ events' = events /\ e' = e /\ pc' = pc /\ ep_events' = ep_events
            /\ kernel' = kernel /\ registered' = registered /\ stale' = stale
        BY <2>1, <2>5, Zenon DEF add_event_fd, masks
      <3>2. Lists'
        BY <2>3, <2>4, <3>1, <1>NoLists, Zenon DEF FdInv, lists
      <3>3. MaskTypes' /\ Rest'
        BY <2>3, <2>4, <3>1, Zenon DEF FdInv, MaskTypes, Rest
      <3>4. Watched' /\ ErrorToldToAll' /\ CacheRight' /\ Entry'
        BY <2>3, <3>1, Zenon DEF FdInv, Watched, NoReport, ErrorToldToAll, CacheRight, Entry
      <3> QED BY <3>2, <3>3, <3>4, Zenon DEF FdInv
    <2>6. CASE ~err_hup
      <3> DEFINE es == Append(events, t)
                 ev == [e EXCEPT ![t] = r]
      <3>1. \/ /\ arm(ep_events, es, ev, TRUE) /\ events' = es /\ e' = ev
               /\ pc' = [pc EXCEPT ![t] = "scheduler"]
            \/ arm(ep_events, es, ev, FALSE) /\ events' = events /\ e' = e /\ pc' = pc
        BY <2>1, <2>6, Zenon DEF add_event_fd, Goto
      <3>2. t \notin Held
        BY <2>3 DEF Held, Waiting
      <3>3. /\ events \in Seq(Threads) /\ IsInjective(events) /\ t \notin Range(events)
            /\ t \notin immediate /\ t \notin pending
        BY <3>2, Zenon DEF FdInv, Lists
      <3>4. es \in Seq(Threads) /\ IsInjective(es) /\ Range(es) = Range(events) \cup {t}
        BY <3>3, AppendOf, Zenon
      <3>5. ev \in [Threads -> [mask : OneWay, prio : BOOLEAN]]
        BY <2>2 DEF FdInv, Rest
      <3>6. MaskTypes /\ ep_events \in Masks
        BY Zenon DEF FdInv, MaskTypes
      <3>7. registered /\ (NoReport => (~stale => ep_events \subseteq kernel))
        BY <2>6, Zenon DEF FdInv, Entry, CacheRight
      <3>8. NoReport' = NoReport
        BY <2>3, Zenon DEF NoReport
      <3> HIDE DEF es, ev
      <3>9. CASE /\ arm(ep_events, es, ev, TRUE) /\ events' = es /\ e' = ev
                 /\ pc' = [pc EXCEPT ![t] = "scheduler"]
        <4>1. /\ pc' \in [Threads -> PCs]
              /\ \A u \in Threads : u \in Held' <=> u \in Held \/ u = t
          BY <3>9 DEF FdInv, Lists, PCs, Held, Waiting
        <4>2. Held' = Held \cup {t}
          <5>1. Held' \subseteq Threads /\ Held \subseteq Threads
            BY DEF Held
          <5> QED BY <4>1, <5>1, Zenon
        <4>3. Lists'
          BY <2>3, <2>4, <3>3, <3>4, <3>9, <4>1, <4>2, Zenon DEF FdInv, Lists, PCs
        <4>4. Rest'
          BY <2>3, <2>4, <3>5, <3>9, Zenon DEF FdInv, Rest
        <4>5. /\ MaskTypes' /\ registered' = registered
              /\ ~stale' /\ (~stale => ep_events \subseteq kernel) =>
                    /\ ep_events' \subseteq kernel'
                    /\ \A u \in Range(es) : ev[u].mask \subseteq kernel'
          BY <3>4, <3>5, <3>6, <3>9, <1>Arm, Zenon
        <4>6. Watched' /\ CacheRight'
          BY <3>7, <3>8, <3>9, <4>5, Zenon DEF Watched, CacheRight
        <4>7. ErrorToldToAll' /\ Entry'
          BY <2>3, <2>6, <3>7, <4>5, Zenon DEF ErrorToldToAll, Entry
        <4> QED BY <4>3, <4>4, <4>5, <4>6, <4>7, Zenon DEF FdInv
      <3>10. CASE arm(ep_events, es, ev, FALSE) /\ events' = events /\ e' = e /\ pc' = pc
        <4>1. MaskTypes' /\ registered' = registered /\ stale'
          BY <3>4, <3>5, <3>6, <3>10, <1>Arm, Zenon
        <4>2. Lists'
          BY <2>3, <2>4, <3>10, <1>NoLists, Zenon DEF FdInv, lists
        <4>3. Rest'
          BY <2>3, <2>4, <3>10, Zenon DEF FdInv, Rest
        <4>4. Watched' /\ CacheRight' /\ ErrorToldToAll' /\ Entry'
          BY <2>3, <2>6, <3>7, <4>1, Zenon DEF Watched, CacheRight, ErrorToldToAll, Entry
        <4> QED BY <4>1, <4>2, <4>3, <4>4, Zenon DEF FdInv
      <3> QED BY <3>1, <3>9, <3>10, Zenon
    <2> QED BY <2>5, <2>6, Zenon
  \* Steps that touch none of the masks and no report, and put no event on the list.
  <1>SameMasks. ASSUME FdInv, UNCHANGED <<masks, err_hup, epe, e>>, Range(events') \subseteq Range(events),
                       events = <<>> => events' = <<>>
                PROVE  MaskTypes' /\ Watched' /\ ErrorToldToAll' /\ CacheRight' /\ Entry'
    <2> USE <1>SameMasks
    <2>1. /\ ep_events' = ep_events /\ kernel' = kernel /\ registered' = registered
          /\ stale' = stale /\ err_hup' = err_hup /\ epe' = epe /\ e' = e
      BY Zenon DEF masks
    <2>2. MaskTypes' /\ ErrorToldToAll' /\ Entry'
      BY <2>1 DEF FdInv, MaskTypes, ErrorToldToAll, Entry
    <2>3. NoReport' = NoReport
      BY <2>1, Zenon DEF NoReport
    <2>4. Watched' /\ CacheRight'
      BY <2>1, <2>3 DEF FdInv, Watched, CacheRight
    <2> QED BY <2>2, <2>4, Zenon
  \* A thread that waits goes to sleep.
  <1>SchedulerKeeps. ASSUME FdInv, NEW t \in Threads, tc_scheduler(t)
                     PROVE  FdInv'
    <2> USE <1>SchedulerKeeps
    <2>1. /\ pc[t] = "scheduler" /\ pending' = pending \ {t}
          /\ pc' = [pc EXCEPT ![t] = IF t \in pending THEN "event" ELSE "asleep"]
          /\ events' = events /\ immediate' = immediate /\ worker_nr' = worker_nr
          /\ e' = e /\ ready' = ready /\ err_hup' = err_hup /\ epe' = epe /\ sig' = sig
          /\ waits' = waits /\ UNCHANGED masks
      BY Zenon DEF tc_scheduler, Goto
    <2>2. pc' \in [Threads -> PCs]
      BY <2>1 DEF FdInv, Lists, PCs, Waiting
    <2>3. \A u \in Threads : u \in Held' <=> u \in Held /\ ~(u = t /\ t \in pending)
      BY <2>1 DEF FdInv, Lists, Held, Waiting
    <2>4. Held' \subseteq Threads /\ Held \subseteq Threads
      BY DEF Held
    <2>5. Held' = Range(events') \cup immediate' \cup pending'
      BY <2>1, <2>3, <2>4, Zenon DEF FdInv, Lists
    <2>6. Lists'
      BY <2>1, <2>2, <2>5, Zenon DEF FdInv, Lists, PCs
    <2>7. Rest'
      BY <2>1, Zenon DEF FdInv, Rest
    <2>8. MaskTypes' /\ Watched' /\ ErrorToldToAll' /\ CacheRight' /\ Entry'
      BY <2>1, <1>SameMasks, Zenon
    <2> QED BY <2>6, <2>7, <2>8, Zenon DEF FdInv
  \* A signal interrupts the wait.
  <1>InterruptKeeps. ASSUME FdInv, NEW t \in Threads, NEW w \in Workers, interrupt(t, w)
                     PROVE  FdInv'
    <2> USE <1>InterruptKeeps
    <2>1. /\ pc[t] \in Waiting /\ pc' = [pc EXCEPT ![t] = "intr"]
          /\ sig' = sig \ {t}
          /\ worker_nr' = worker_nr \/ worker_nr' = [worker_nr EXCEPT ![t] = w]
          /\ events' = events /\ immediate' = immediate /\ pending' = pending
          /\ e' = e /\ ready' = ready /\ err_hup' = err_hup /\ epe' = epe
          /\ waits' = waits /\ UNCHANGED masks
      BY Zenon DEF interrupt, Goto, lists, Waiting
    <2>2. pc' \in [Threads -> PCs] /\ worker_nr' \in [Threads -> Workers]
      BY <2>1 DEF FdInv, Lists, PCs
    <2>3. Held' = Held
      BY <2>1 DEF FdInv, Lists, Held, Waiting
    <2>4. Lists'
      BY <2>1, <2>2, <2>3, Zenon DEF FdInv, Lists, PCs
    <2>5. Rest'
      BY <2>1, Zenon DEF FdInv, Rest
    <2>6. MaskTypes' /\ Watched' /\ ErrorToldToAll' /\ CacheRight' /\ Entry'
      BY <2>1, <1>SameMasks, Zenon
    <2> QED BY <2>4, <2>5, <2>6, Zenon DEF FdInv
  \* The unlocked store at the end of _tc_wait_fd() only makes arm() trust nothing.
  <1>ReturnedKeeps. ASSUME FdInv, NEW t \in Threads, returned(t)
                    PROVE  FdInv'
    <2> USE <1>ReturnedKeeps
    <2>1. /\ UNCHANGED <<lists, worker_nr>>
          /\ ep_events' = {} /\ kernel' = kernel /\ registered' = registered /\ stale' = stale
          /\ e' = e /\ ready' = ready /\ err_hup' = err_hup /\ epe' = epe /\ sig' = sig
          /\ waits' = waits
      BY Zenon DEF returned
    <2>2. PICK l \in {"idle", "io", "remove"} :
              pc' = [pc EXCEPT ![t] = l] /\ (l = "remove" <=> pc[t] = "intr") /\ pc[t] \in {"event", "intr"}
      <3>1. CASE pc[t] = "event"
        BY <3>1 DEF returned, Goto
      <3>2. CASE pc[t] = "intr"
        BY <3>2 DEF returned, Goto
      <3> QED BY <3>1, <3>2, Zenon DEF returned
    <2>3. l \in PCs /\ (pc[t] \in Waiting \cup {"intr", "remove"} <=> l \in Waiting \cup {"intr", "remove"})
      BY <2>2 DEF PCs, Waiting
    <2>4. Lists'
      BY <2>1, <2>2, <2>3, <1>SameLists, Zenon DEF FdInv
    <2>5. Rest'
      BY <2>1, Zenon DEF FdInv, Rest
    <2>6. MaskTypes' /\ CacheRight'
      BY <2>1, Zenon DEF FdInv, MaskTypes, Masks, CacheRight
    <2>7. events' = events
      BY <2>1, Zenon DEF lists
    <2>8. Watched' /\ ErrorToldToAll' /\ Entry'
      BY <2>1, <2>7, Zenon DEF FdInv, Watched, NoReport, ErrorToldToAll, Entry
    <2> QED BY <2>4, <2>5, <2>6, <2>8, Zenon DEF FdInv
  \* A wait that was interrupted takes its event off the list.
  <1>InterruptedKeeps. ASSUME FdInv, NEW t \in Threads, interrupted(t)
                       PROVE  FdInv'
    <2> USE <1>InterruptedKeeps
    <2>1. /\ pc[t] = "remove" /\ pc' = [pc EXCEPT ![t] = "idle"]
          /\ events' = RemoveFirst(events, t) /\ immediate' = immediate \ {t}
          /\ pending' = pending \ {t} /\ worker_nr' = worker_nr
          /\ e' = e /\ ready' = ready /\ err_hup' = err_hup /\ epe' = epe /\ sig' = sig
          /\ waits' = waits /\ UNCHANGED masks
      BY Zenon DEF interrupted, remove_event_fd, Goto
    <2>2. events \in Seq(Threads) /\ IsInjective(events)
      BY Zenon DEF FdInv, Lists
    <2>3. events' \in Seq(Threads) /\ IsInjective(events') /\ Range(events') = Range(events) \ {t}
      BY <2>1, <2>2, RemoveOf, Zenon
    <2>4. /\ pc' \in [Threads -> PCs]
          /\ \A u \in Threads : u \in Held' <=> u \in Held /\ u # t
      BY <2>1 DEF FdInv, Lists, PCs, Held, Waiting
    <2>5. Held' \subseteq Threads /\ Held \subseteq Threads
      BY DEF Held
    <2>6. Held' = Range(events') \cup immediate' \cup pending'
      BY <2>1, <2>3, <2>4, <2>5, Zenon DEF FdInv, Lists
    <2>7. Lists'
      BY <2>1, <2>3, <2>4, <2>6, Zenon DEF FdInv, Lists, PCs
    <2>8. Rest'
      BY <2>1, Zenon DEF FdInv, Rest
    <2>9. events = <<>> => events' = <<>>
      BY <2>1 DEF RemoveFirst, Contains
    <2>10. MaskTypes' /\ Watched' /\ ErrorToldToAll' /\ CacheRight' /\ Entry'
      BY <2>1, <2>3, <2>9, <1>SameMasks, Zenon
    <2> QED BY <2>7, <2>8, <2>10, Zenon DEF FdInv
  \* tc_rearm().
  <1>RearmKeeps. ASSUME FdInv, NEW t \in Threads, tc_rearm(t)
                 PROVE  FdInv'
    <2> USE <1>RearmKeeps
    <2>1. /\ UNCHANGED <<lists, worker_nr, pc>> /\ events' = events
          /\ e' = e /\ ready' = ready /\ err_hup' = err_hup /\ epe' = epe /\ sig' = sig
          /\ waits' = waits /\ \E ok \in BOOLEAN : arm(ep_events, events, e, ok)
      BY Zenon DEF tc_rearm, lists
    <2>2. Lists' /\ Rest'
      BY <2>1, <1>NoLists, Zenon DEF FdInv, Rest, Lists
    <2>3. /\ MaskTypes /\ ep_events \in Masks /\ events \in Seq(Threads)
          /\ e \in [Threads -> [mask : OneWay, prio : BOOLEAN]]
      BY Zenon DEF FdInv, MaskTypes, Lists, Rest
    <2>4. /\ MaskTypes' /\ registered' = registered
          /\ ~stale' /\ (~stale => ep_events \subseteq kernel) =>
                /\ ep_events' \subseteq kernel'
                /\ \A u \in Range(events) : e[u].mask \subseteq kernel'
      BY <2>1, <2>3, <1>Arm, Zenon
    <2>5. ErrorToldToAll' /\ Entry' /\ NoReport' = NoReport
      BY <2>1, <2>4, Zenon DEF FdInv, ErrorToldToAll, Entry, NoReport
    <2>6. CASE err_hup
      <3>1. Range(events) = {}
        BY <2>6 DEF FdInv, ErrorToldToAll, Range
      <3>2. Watched' /\ CacheRight'
        BY <2>1, <2>6, <3>1, Zenon DEF Watched, CacheRight
      <3> QED BY <2>2, <2>4, <2>5, <3>2, Zenon DEF FdInv
    <2>7. CASE ~err_hup
      <3>1. NoReport => (~stale => ep_events \subseteq kernel)
        BY <2>7, Zenon DEF FdInv, CacheRight
      <3>2. Watched' /\ CacheRight'
        BY <2>1, <2>4, <2>5, <3>1, Zenon DEF Watched, CacheRight
      <3> QED BY <2>2, <2>4, <2>5, <3>2, Zenon DEF FdInv
    <2> QED BY <2>6, <2>7, Zenon
  \* The report itself is what keeps the list watched when the entry is disabled.
  <1>EpollWaitKeeps. ASSUME FdInv, NEW w \in Workers, epoll_wait(w)
                     PROVE  FdInv'
    <2> USE <1>EpollWaitKeeps
    <2>1. /\ UNCHANGED <<lists, worker_nr, pc>> /\ events' = events
          /\ ready \cap kernel # {} /\ epe' = [epe EXCEPT ![w] = ready \cap kernel]
          /\ kernel' = IF "ONESHOT" \in kernel THEN {} ELSE kernel
          /\ ep_events' = ep_events /\ registered' = registered /\ stale' = stale
          /\ e' = e /\ ready' = ready /\ err_hup' = err_hup /\ sig' = sig /\ waits' = waits
      BY Zenon DEF epoll_wait, Reported, lists
    <2>2. Lists'
      BY <2>1, <1>NoLists, Zenon DEF FdInv, Lists
    <2>3. ready \cap kernel \in Masks
      BY Zenon DEF FdInv, Rest, Masks
    <2>4. epe' \in [Workers -> Masks] /\ epe'[w] # {}
      BY <2>1, <2>3 DEF FdInv, Rest
    <2>5. Rest'
      BY <2>1, <2>4, Zenon DEF FdInv, Rest
    <2>6. MaskTypes'
      BY <2>1, Zenon DEF FdInv, MaskTypes, Masks
    <2>7. ~NoReport'
      BY <2>4, Zenon DEF NoReport
    <2>8. Watched' /\ CacheRight'
      BY <2>7, Zenon DEF Watched, CacheRight
    <2>9. ErrorToldToAll' /\ Entry'
      BY <2>1, Zenon DEF FdInv, ErrorToldToAll, Entry
    <2> QED BY <2>2, <2>5, <2>6, <2>8, <2>9, Zenon DEF FdInv
  \* What a worker does with a report leaves alone.
  <1>Part2Frame. ASSUME FdInv, NEW w \in Workers, scheduler_part2(w)
                 PROVE  e' = e /\ Rest' = (Rest /\ err_hup' \in BOOLEAN)
    <2> USE <1>Part2Frame
    <2>1. /\ epe' = [epe EXCEPT ![w] = {}]
          /\ e' = e /\ ready' = ready /\ sig' = sig /\ waits' = waits
      BY Zenon DEF scheduler_part2
    <2>2. epe' \in [Workers -> Masks]
      BY <2>1 DEF FdInv, Rest, Masks
    <2> QED BY <2>1, <2>2, Zenon DEF FdInv, Rest
  \* An error empties the list.
  <1>ErrorKeeps. ASSUME FdInv, NEW w \in Workers, scheduler_part2(w), handle_error(w)
                 PROVE  FdInv'
    <2> USE <1>ErrorKeeps
    <2> DEFINE run == wakeup_all_events(w)
               del == run = NULL /\ "HUP" \in epe[w]
    <2>1. /\ err_hup' = TRUE /\ events' = <<>> /\ dispatch(w, run, Range(events) \ {run})
          /\ registered' = (registered /\ ~del)
          /\ kernel' = IF del THEN {} ELSE kernel
          /\ ep_events' = ep_events /\ stale' = stale
      BY Zenon DEF handle_error
    <2>2. /\ events' \in Seq(Threads) /\ IsInjective(events') /\ Range(events') = {}
      BY <2>1, NoEvents, Zenon
    <2>3. Lists /\ run \in Range(events) \cup {NULL}
      BY <1>WakeupAllOnList, Zenon DEF FdInv
    <2> HIDE DEF run
    <2>4. /\ Range(events') = Range(events) \ ((Range(events) \ {run}) \cup {run})
          /\ Range(events) \ {run} \subseteq Range(events) /\ run \notin Range(events) \ {run}
      BY <2>2, Zenon
    <2>5. Lists'
      BY <2>1, <2>2, <2>3, <2>4, <1>Dispatch, Zenon
    <2>6. Rest'
      BY <2>1, <1>Part2Frame, Zenon DEF FdInv
    <2>7. MaskTypes'
      BY <2>1, Zenon DEF FdInv, MaskTypes, Masks
    <2>8. Watched' /\ ErrorToldToAll' /\ CacheRight' /\ Entry'
      BY <2>1, <2>2, Zenon DEF Watched, ErrorToldToAll, CacheRight, Entry
    <2> QED BY <2>5, <2>6, <2>7, <2>8, Zenon DEF FdInv
  \* Data: the entry is armed again unless nobody is left on the list.
  <1>DataKeeps. ASSUME FdInv, NEW w \in Workers, scheduler_part2(w), handle_data(w)
                PROVE  FdInv'
    <2> USE <1>DataKeeps
    <2> DEFINE r    == matching_event(w, epe[w])
               left == RemoveFirst(events, r.moved)
    <2>1. /\ ~err_hup /\ err_hup' = err_hup
          /\ events' = RemoveFirst(left, r.run)
          /\ dispatch(w, r.run, {r.moved} \ {NULL})
          /\ others_left(left, r.run) => \E ok \in BOOLEAN : arm({}, left, e, ok)
          /\ ~others_left(left, r.run) =>
                 ep_events' = {} /\ kernel' = kernel /\ registered' = registered /\ stale' = stale
      BY Zenon DEF handle_data
    <2>2. /\ Lists /\ r.run \in Range(events) \cup {NULL} /\ r.moved \in Range(events) \cup {NULL}
          /\ r.moved = NULL \/ r.moved # r.run
      BY <1>MatchingOnList, Zenon DEF FdInv
    <2> HIDE DEF r
    <2>3. events \in Seq(Threads) /\ IsInjective(events)
      BY <2>2, Zenon DEF Lists
    <2>4. left \in Seq(Threads) /\ IsInjective(left) /\ Range(left) = Range(events) \ {r.moved}
      BY <2>3, RemoveOf, Zenon
    <2> HIDE DEF left
    <2>5. events' \in Seq(Threads) /\ IsInjective(events') /\ Range(events') = Range(left) \ {r.run}
      BY <2>1, <2>4, RemoveOf, Zenon
    <2>6. Lists'
      <3>1. Range(events) \subseteq Threads /\ NULL \notin Threads
        BY <2>3, FdAssumption DEF Range
      <3>2. Range(events') = Range(events) \ (({r.moved} \ {NULL}) \cup {r.run})
        BY <2>4, <2>5, <3>1, Zenon
      <3>3. {r.moved} \ {NULL} \subseteq Range(events) /\ r.run \notin {r.moved} \ {NULL}
        BY <2>2, Zenon
      <3> QED BY <2>1, <2>2, <2>5, <3>2, <3>3, <1>Dispatch, Zenon
    <2>7. e' = e /\ Rest'
      BY <2>1, <1>Part2Frame, Zenon DEF FdInv, Rest
    <2>8. MaskTypes /\ registered /\ e \in [Threads -> [mask : OneWay, prio : BOOLEAN]]
      BY <2>1, Zenon DEF FdInv, Entry, Rest
    <2>9. CASE others_left(left, r.run)
      <3>1. (\E ok \in BOOLEAN : arm({}, left, e, ok)) /\ {} \in Masks
        BY <2>1, <2>9, Zenon DEF Masks
      <3>2. /\ MaskTypes' /\ registered' = registered
            /\ ~stale' => /\ ep_events' \subseteq kernel'
                          /\ \A u \in Range(left) : e[u].mask \subseteq kernel'
        <4>1. PICK none \in Masks, ok \in BOOLEAN : none = {} /\ arm(none, left, e, ok)
          BY <3>1, Zenon
        <4>2. arm(none, left, e, ok)
          BY <4>1, Zenon
        <4>3. left \in Seq(Threads) /\ MaskTypes /\ e \in [Threads -> [mask : OneWay, prio : BOOLEAN]]
          BY <2>4, <2>8, Zenon
        <4>4. /\ MaskTypes' /\ registered' = registered
              /\ ~stale' /\ (~stale => none \subseteq kernel) =>
                    /\ ep_events' \subseteq kernel'
                    /\ \A u \in Range(left) : e[u].mask \subseteq kernel'
          BY <4>2, <4>3, <1>Arm, Zenon
        <4> QED BY <4>1, <4>4, Zenon
      <3>3. Watched' /\ CacheRight'
        BY <2>5, <2>7, <3>2 DEF Watched, CacheRight
      <3>4. ErrorToldToAll' /\ Entry'
        BY <2>1, <2>8, <3>2, Zenon DEF ErrorToldToAll, Entry
      <3> QED BY <2>6, <2>7, <3>2, <3>3, <3>4, Zenon DEF FdInv
    <2>10. CASE ~others_left(left, r.run)
      <3>1. Range(events') = {}
        BY <2>4, <2>5, <2>10, <1>OthersLeft, Zenon
      <3>2. MaskTypes' /\ Watched' /\ CacheRight' /\ ErrorToldToAll' /\ Entry'
        BY <2>1, <2>8, <2>10, <3>1, Zenon
           DEF MaskTypes, Masks, Watched, CacheRight, ErrorToldToAll, Entry
      <3> QED BY <2>6, <2>7, <3>2, Zenon DEF FdInv
    <2> QED BY <2>9, <2>10, Zenon
  \* A worker runs a thread that an event was handed to.
  <1>RunImmediateKeeps. ASSUME FdInv, NEW w \in Workers, NEW t \in Threads, run_immediate(w, t)
                        PROVE  FdInv'
    <2> USE <1>RunImmediateKeeps
    <2> DEFINE on == Range(events) \cup (immediate \ {t})
    <2>1. /\ t \in immediate /\ immediate' = immediate \ {t} /\ run_or_queue(w, t)
          /\ events' = events
          /\ e' = e /\ ready' = ready /\ err_hup' = err_hup /\ epe' = epe /\ sig' = sig
          /\ waits' = waits /\ UNCHANGED masks
      BY Zenon DEF run_immediate
    <2>2. /\ pc \in [Threads -> PCs] /\ worker_nr \in [Threads -> Workers]
          /\ t \notin on /\ t \notin pending /\ pending \subseteq Threads \ on
          /\ Held = on \cup {t} \cup pending
      BY <2>1, Zenon DEF FdInv, Lists, PCs
    <2> HIDE DEF on
    <2>3. /\ pc' \in [Threads -> PCs] /\ worker_nr' \in [Threads -> Workers]
          /\ pending' \subseteq Threads \ on /\ Held' = on \cup pending'
      BY <2>1, <2>2, <1>RunOrQueue, Zenon
    <2>4. /\ immediate' \subseteq Threads \ Range(events')
          /\ pending' \subseteq Threads \ (immediate' \cup Range(events'))
          /\ Held' = Range(events') \cup immediate' \cup pending'
      BY <2>1, <2>3, Zenon DEF FdInv, Lists, on
    <2>5. Lists'
      BY <2>1, <2>3, <2>4, Zenon DEF FdInv, Lists, PCs
    <2>6. Rest'
      BY <2>1, Zenon DEF FdInv, Rest
    <2>7. MaskTypes' /\ Watched' /\ ErrorToldToAll' /\ CacheRight' /\ Entry'
      BY <2>1, <1>SameMasks, Zenon
    <2> QED BY <2>5, <2>6, <2>7, Zenon DEF FdInv
  \* The steps of the program, its peer and the kernel that no thread waits in, and those
  \* of a worker that finds nothing to do.
  <1>EnvironmentKeeps. ASSUME FdInv, NEW t, NEW x, NEW w,
                              \/ t \in Threads /\ (io(t) \/ tc_signal_fire(t))
                              \/ x \in Kinds /\ arrives(x)
                              \/ w \in Workers /\ (sleep(w) \/ epoll_nothing(w) \/ epoll_else(w))
                       PROVE  FdInv'
    <2> USE <1>EnvironmentKeeps
    <2>1. /\ UNCHANGED <<lists, worker_nr>> /\ events' = events
          /\ e' = e /\ err_hup' = err_hup /\ epe' = epe
          /\ waits' = waits /\ UNCHANGED masks
      BY Zenon DEF io, arrives, tc_signal_fire, sleep, epoll_nothing, epoll_else, lists
    <2>2. MaskTypes' /\ Watched' /\ ErrorToldToAll' /\ CacheRight' /\ Entry'
      BY <2>1, <1>SameMasks, Zenon
    <2>3. ready' \in Masks /\ sig' \subseteq Threads
      <3>1. CASE t \in Threads /\ io(t)
        BY <3>1 DEF io, FdInv, Rest, Masks
      <3>2. CASE x \in Kinds /\ arrives(x)
        BY <3>2, FdAssumption, Zenon DEF arrives, FdInv, Rest, Masks
      <3>3. CASE t \in Threads /\ tc_signal_fire(t)
        BY <3>3, Zenon DEF tc_signal_fire, FdInv, Rest
      <3>4. CASE w \in Workers /\ (sleep(w) \/ epoll_nothing(w) \/ epoll_else(w))
        BY <3>4, Zenon DEF sleep, epoll_nothing, epoll_else, FdInv, Rest
      <3> QED BY <3>1, <3>2, <3>3, <3>4, Zenon
    <2>4. Rest'
      BY <2>1, <2>3, Zenon DEF FdInv, Rest
    <2>5. Lists'
      <3>1. CASE pc' = pc
        BY <2>1, <3>1, <1>NoLists, Zenon DEF FdInv, Lists
      <3>2. CASE t \in Threads /\ io(t)
        <4>1. t \in Threads /\ pc[t] = "io" /\ pc' = [pc EXCEPT ![t] = "idle"]
          BY <3>2, Zenon DEF io, Goto
        <4>2. "idle" \in PCs /\ (pc[t] \in Waiting \cup {"intr", "remove"} <=> "idle" \in Waiting \cup {"intr", "remove"})
          BY <4>1 DEF PCs, Waiting
        <4> QED BY <2>1, <4>1, <4>2, <1>SameLists, Zenon DEF FdInv
      <3> QED BY <3>1, <3>2, Zenon DEF arrives, tc_signal_fire, sleep, epoll_nothing, epoll_else
    <2> QED BY <2>2, <2>4, <2>5, Zenon DEF FdInv
  <1> SUFFICES ASSUME FdInv, [Next]_vars PROVE FdInv'
    OBVIOUS
  <1>1. ASSUME NEW t \in Threads, NEW w \in Workers, tc_wait_fd(t, w) \/ interrupt(t, w) PROVE FdInv'
    BY <1>1, <1>WaitFdKeeps, <1>InterruptKeeps, Zenon
  <1>2. ASSUME NEW t \in Threads, coroutine(t) PROVE FdInv'
    BY <1>2, <1>SchedulerKeeps, <1>ReturnedKeeps, <1>InterruptedKeeps, <1>EnvironmentKeeps, Zenon
       DEF coroutine
  <1>3. ASSUME NEW t \in Threads, tc_rearm(t) PROVE FdInv'
    BY <1>3, <1>RearmKeeps, Zenon
  <1>4. ASSUME NEW t \in Threads, tc_signal_fire(t) PROVE FdInv'
    BY <1>4, <1>EnvironmentKeeps, Zenon
  <1>5. ASSUME NEW w \in Workers, worker(w) PROVE FdInv'
    <2>1. CASE scheduler_part2(w)
      <3>1. handle_error(w) \/ handle_data(w)
        BY <2>1, Zenon DEF scheduler_part2
      <3> QED BY <2>1, <3>1, <1>ErrorKeeps, <1>DataKeeps, Zenon
    <2> QED BY <1>5, <2>1, <1>EpollWaitKeeps, <1>RunImmediateKeeps, <1>EnvironmentKeeps, Zenon DEF worker
  <1>6. ASSUME NEW w \in Workers, epoll_else(w) PROVE FdInv'
    BY <1>6, <1>EnvironmentKeeps, Zenon
  <1>7. ASSUME NEW x \in Kinds, arrives(x) PROVE FdInv'
    BY <1>7, <1>EnvironmentKeeps, Zenon
  <1>8. CASE UNCHANGED vars
    <2>1. /\ UNCHANGED <<lists, worker_nr, pc>> /\ UNCHANGED <<masks, err_hup, epe, e>>
          /\ events' = events /\ ready' = ready /\ sig' = sig /\ waits' = waits
      BY <1>8, Zenon DEF vars, lists
    <2>2. Lists' /\ MaskTypes' /\ Watched' /\ ErrorToldToAll' /\ CacheRight' /\ Entry'
      BY <2>1, <1>NoLists, <1>SameMasks, Zenon DEF FdInv, Lists
    <2>3. Rest'
      BY <2>1, Zenon DEF FdInv, Rest
    <2> QED BY <2>2, <2>3, Zenon DEF FdInv
  <1> QED BY <1>1, <1>2, <1>3, <1>4, <1>5, <1>6, <1>7, <1>8, Zenon DEF Next

\* Nor do all workers go to sleep over an event that one of them has moved.
LEMMA LoopsNext == FdInv /\ Loops /\ [Next]_vars => Loops'
  \* A step that moves w through its loop, and no event to common.immediate.
  <1>Moved. ASSUME FdInv, Loops, NEW w \in Workers, NEW l \in {"look", "poll", "sleep"},
                   Loop(w, l), UNCHANGED epe, immediate' \subseteq immediate,
                   l # "look" => epe[w] = {}, l = "sleep" => immediate = {}
            PROVE  Loops'
    <2> USE <1>Moved
    <2>1. loop' = [loop EXCEPT ![w] = l] /\ loop \in [Workers -> {"look", "poll", "sleep"}]
      BY Zenon DEF Loops, Loop
    <2>2. /\ loop' \in [Workers -> {"look", "poll", "sleep"}]
          /\ \A v \in Workers : loop'[v] = IF v = w THEN l ELSE loop[v]
      BY <2>1
    <2>3. \A v \in Workers : epe'[v] # {} => loop'[v] = "look"
      BY <2>2, Zenon DEF Loops
    <2>4. MovedNotForgotten'
      BY <2>2 DEF Loops, MovedNotForgotten
    <2> QED BY <2>2, <2>3, <2>4, Zenon DEF Loops
  \* The steps of a thread on its worker, and of everything else outside.
  <1>Still. ASSUME Loops, UNCHANGED <<loop, epe>>, immediate' \subseteq immediate
            PROVE  Loops'
    BY <1>Still, Zenon DEF Loops, MovedNotForgotten
  <1> SUFFICES ASSUME FdInv, Loops, [Next]_vars PROVE Loops'
    OBVIOUS
  <1>1. ASSUME NEW t \in Threads, NEW w \in Workers, tc_wait_fd(t, w) \/ interrupt(t, w) PROVE Loops'
    <2>1. UNCHANGED <<epe, immediate>> /\ (Loop(w, "look") \/ UNCHANGED loop)
      BY <1>1, Zenon DEF tc_wait_fd, interrupt, lists
    <2> QED BY <2>1, <1>Moved, <1>Still, Zenon
  <1>2. ASSUME NEW t \in Threads, coroutine(t) \/ tc_rearm(t) \/ tc_signal_fire(t) PROVE Loops'
    <2>1. UNCHANGED <<epe, loop>> /\ immediate' \subseteq immediate
      BY <1>2, Zenon DEF coroutine, tc_scheduler, returned, interrupted, remove_event_fd, io,
                         tc_rearm, tc_signal_fire, lists
    <2> QED BY <2>1, <1>Still, Zenon
  <1>3. ASSUME NEW w \in Workers, sleep(w) \/ epoll_nothing(w) \/ epoll_else(w) PROVE Loops'
    <2>1. /\ UNCHANGED <<epe, immediate>> /\ epe[w] = {}
          /\ Loop(w, "look") \/ (Loop(w, "sleep") /\ immediate = {})
      BY <1>3, Zenon DEF sleep, nothing_found, epoll_nothing, epoll_else, Free, lists
    <2> QED BY <2>1, <1>Moved
  <1>4. ASSUME NEW w \in Workers, NEW t \in Threads, run_immediate(w, t) PROVE Loops'
    <2>1. PICK l \in {"look", "poll"} : Loop(w, l)
      BY <1>4, Zenon DEF run_immediate
    <2>2. epe' = epe /\ immediate' \subseteq immediate /\ epe[w] = {}
      BY <1>4, Zenon DEF run_immediate, Free
    <2> QED BY <2>1, <2>2, <1>Moved
  <1>5. ASSUME NEW w \in Workers, epoll_wait(w) PROVE Loops'
    <2>1. /\ epe' = [epe EXCEPT ![w] = Reported] /\ loop' = [loop EXCEPT ![w] = "look"]
          /\ epe \in [Workers -> Masks] /\ loop \in [Workers -> {"look", "poll", "sleep"}]
      BY <1>5, Zenon DEF epoll_wait, Loop, FdInv, Rest, Loops
    <2>2. /\ loop' \in [Workers -> {"look", "poll", "sleep"}] /\ loop'[w] = "look"
          /\ \A v \in Workers : v # w => epe'[v] = epe[v] /\ loop'[v] = loop[v]
      BY <2>1
    <2> QED BY <2>2 DEF Loops, MovedNotForgotten
  \* The worker that moves an event has one in its hands, so it does not sleep.
  <1>6. ASSUME NEW w \in Workers, scheduler_part2(w) PROVE Loops'
    <2>1. epe[w] # {} /\ epe' = [epe EXCEPT ![w] = {}] /\ loop' = loop /\ epe \in [Workers -> Masks]
      BY <1>6, Zenon DEF scheduler_part2, FdInv, Rest
    <2>2. \A v \in Workers : epe'[v] # {} => epe[v] # {}
      BY <2>1
    <2>3. loop[w] = "look"
      BY <2>1, Zenon DEF Loops
    <2> QED BY <2>1, <2>2, <2>3 DEF Loops, MovedNotForgotten
  <1>7. ASSUME NEW x \in Kinds, arrives(x) PROVE Loops'
    BY <1>7, <1>Still, Zenon DEF arrives, lists
  <1>8. CASE UNCHANGED vars
    BY <1>8, <1>Still, Zenon DEF vars, lists
  <1> QED BY <1>1, <1>2, <1>3, <1>4, <1>5, <1>6, <1>7, <1>8, Zenon DEF Next, worker

-----------------------------------------------------------------------------
(* The theorems. *)

LOCAL INSTANCE WellFoundedInduction
FS == INSTANCE FiniteSetTheorems

\* A set of natural numbers that is not empty has a least element.
LEMMA LeastNat ==
    ASSUME NEW T, T \subseteq Nat, T # {}
    PROVE  \E x \in T : \A y \in T : x <= y
  <1> DEFINE R == {ss \in Nat \X Nat : ss[1] < ss[2]}
  <1>1. IsWellFoundedOn(R, Nat)
    BY NatLessThanWellFounded, Zenon DEF OpToRel
  <1> HIDE DEF R
  <1>2. PICK x \in T : \A y \in T : ~(<<y, x>> \in R)
    BY <1>1, WFMin, Zenon
  <1>3. ASSUME NEW y \in T PROVE x <= y
    <2>1. x \in Nat /\ y \in Nat /\ ~(<<y, x>> \in R)
      BY <1>2, Zenon
    <2>2. ~(y < x)
      BY <2>1 DEF R
    <2> QED BY <2>1, <2>2
  <1> QED BY <1>3, Zenon

\* The library proves them.
LEMMA SetFactsHold == SetFacts
  <1>a. \A S : FS!IsFiniteSet(S) <=> IsFiniteSet(S)
    BY DEF FS!IsFiniteSet, IsFiniteSet
  <1>b. \A S : FS!Cardinality(S) = Cardinality(S)
    BY DEF FS!Cardinality, Cardinality
  <1>1. LeastElement
    BY LeastNat, Zenon DEF LeastElement
  <1>2. CardEmpty
    BY <1>a, <1>b, FS!FS_EmptySet DEF CardEmpty
  <1>3. CardNat
    BY <1>a, <1>b, FS!FS_CardinalityType DEF CardNat
  <1>4. CardSubset
    BY <1>a, <1>b, FS!FS_Subset DEF CardSubset
  <1>5. CardDel
    BY <1>a, <1>b, FS!FS_RemoveElement DEF CardDel
  <1>6. CardUnion
    BY <1>a, <1>b, FS!FS_Union DEF CardUnion
  <1> QED BY <1>1, <1>2, <1>3, <1>4, <1>5, <1>6, Zenon DEF SetFacts

\* The inductive invariant holds in every reachable state.
THEOREM SyncInductive == SyncSpec => []SyncInv
  <1>1. (SyncInit => SyncInv) /\ (SyncInv /\ [SyncNext]_syncVars => SyncInv')
    BY SyncStart, SyncStep, SetFactsHold, Zenon
  <1> QED BY <1>1, PTL DEF SyncSpec

\* The variables of the domain and its workers keep their types.
THEOREM SyncTyped == SyncSpec => []SyncTypeOK
  <1>1. SyncInv => SyncTypeOK
    BY Zenon DEF SyncInv, ListsKnown
  <1> QED BY <1>1, SyncInductive, PTL

\* store_for_later_free(): no tc_fd is freed while a worker has it from epoll_wait(),
\* and none is freed twice, with any number of workers and tc_fds.
THEOREM SyncNoUseAfterFree == SyncSpec => []NoUseAfterFree
  <1>1. SyncInv => NoUseAfterFree
    <2> SUFFICES ASSUME SyncInv PROVE NoUseAfterFree
      OBVIOUS
    <2>1. \A w \in Workers : tcfd[w] # NULL => mem[tcfd[w]] # "freed"
      BY Zenon DEF SyncInv, FdsKnown, HandsOK, StoreOK
    <2>2. \A f \in free_list : mem[f] = "unregistered"
      BY DEF SyncInv, FdsKnown, WaitsOK
    <2>3. \A w \in Workers : \A f \in cur[w] :
             /\ mem[f] = "unregistered" /\ f \notin free_list
             /\ \A v \in Workers \ {w} : f \notin cur[v]
      BY DEF SyncInv, FdsKnown, GoneOK
    <2> QED BY <2>1, <2>2, <2>3, Zenon DEF NoUseAfterFree
  <1> QED BY <1>1, SyncInductive, PTL

\* sync_barrier is the number of workers that must sync.
THEOREM SyncBarrierExact == SyncSpec => []BarrierExact
  <1>1. SyncInv => BarrierExact
    BY Zenon DEF SyncInv, ListsKnown
  <1> QED BY <1>1, SyncInductive, PTL

\* Every worker on its way through epoll_wait() is on the sleeping list or must sync.
THEOREM SyncSleepersKnown == SyncSpec => []SleepersKnown
  <1>1. SyncInv => SleepersKnown
    BY Zenon DEF SyncInv, ListsKnown
  <1> QED BY <1>1, SyncInductive, PTL

\* The inductive invariant holds in every reachable state.
THEOREM FdInductive == Spec => [](FdInv /\ Loops)
  <1>1. FdInv /\ Loops /\ [Next]_vars => FdInv' /\ Loops'
    BY FdNext, LoopsNext, SetFactsHold, Zenon
  <1> QED BY <1>1, FdInit, PTL DEF Spec

\* Nobody waits on a descriptor unwatched: the kernel's one-shot entry has what its
\* event needs, or a worker holds a report and is going to arm the entry again, or the
\* last EPOLL_CTL_MOD has failed.  For every set of threads and workers, whatever calls
\* have failed before, and all priorities and masks without both directions.
THEOREM FdWatchedCorrect == Spec => []FdWatched
  <1>1. FdInv /\ Loops => FdWatched
    BY FdInvWatched, Zenon
  <1> QED BY <1>1, FdInductive, PTL

\* After an error nobody is left on the list of the descriptor, nor gets on it.
THEOREM ErrorToldCorrect == Spec => []ErrorToldToAll
  <1>1. FdInv /\ Loops => ErrorToldToAll
    BY FdInvWatched, Zenon
  <1> QED BY <1>1, FdInductive, PTL

\* An event that matching_event() or wakeup_all_events() has moved to common.immediate
\* is found: some worker is going to look there before it sleeps.
THEOREM MovedCorrect == Spec => []MovedNotForgotten
  <1>1. FdInv /\ Loops => MovedNotForgotten
    BY FdInvWatched, Zenon
  <1> QED BY <1>1, FdInductive, PTL
=============================================================================
