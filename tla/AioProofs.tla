------------------------------ MODULE AioProofs ------------------------------
(***************************************************************************)
(* Asynchronous I/O without signals, for any number of threads, slots and  *)
(* completions at once: the invariants of TcAio that the runs check.       *)
(***************************************************************************)
EXTENDS TcAio, WaitqFacts, WellFoundedInduction

\* Where a thread is inside the wait for one slot, and where its event may be queued.
SlotPCs  == {"test", "prepare", "cond", "scheduler", "finish", "finish_true", "collect"}
QueuePCs == {"cond", "scheduler", "finish", "finish_true"}

InRing(a) == \E i \in 1..Len(ring) : ring[i][1] = a
InIoe(a)  == \E i \in 1..Len(ioe) : ioe[i][1] = a
Busy(a)   == a \in inIo \/ InRing(a) \/ InIoe(a)

\* A request is in the kernel, in the ring or with the worker, once.
Once ==
    /\ \A a \in inIo : ~InRing(a) /\ ~InIoe(a)
    /\ \A j, k \in 1..Len(ring) : ring[j][1] = ring[k][1] => j = k
    /\ \A j, k \in 1..Len(ioe) : ioe[j][1] = ioe[k][1] => j = k
    /\ \A j \in 1..Len(ring), k \in 1..Len(ioe) : ring[j][1] # ioe[k][1]

\* What is true of the worker in handle_aio_event().
HandlerInv ==
    /\ hpc \in {"armed", "get"} => ioe = <<>>
    /\ hpc = "armed" => count = 0
    /\ hpc = "notify" => ad \in Threads \X Slots
    /\ Len(ring) <= efd + count

\* What is true of the thread t and its slots.
SlotInv(t) ==
    /\ pc[t] \in SlotPCs \cup {"slot", "prep", "waited"} => cur[t] \in Slots
    /\ pc[t] \in {"collect", "finish_true"} => flag[t][cur[t]] # "pending"
    /\ pc[t] = "prep" => flag[t][cur[t]] = "free"
    /\ pc[t] \in SlotPCs => notify[t][cur[t]] = t
    /\ pc[t] \in SlotPCs \cup {"slot"} => \A i \in Slots :
          i < cur[t] /\ notify[t][i] = NULL => flag[t][i] # "pending"
    /\ pc[t] = "waited" => \A i \in Slots : notify[t][i] = NULL => flag[t][i] # "pending"

\* Where the event of t is, and that no signal interrupts t.
EventInv(t) ==
    /\ t \notin sig /\ woken[t] # "signal"
    /\ \A q \in Queues : OnQ(q, t) => q = t /\ pc[t] \in QueuePCs
    /\ t \in active => pc[t] \in QueuePCs
    /\ pc[t] \in {"cond", "scheduler"} => OnQ(t, t) \/ t \in active
    /\ pc[t] = "scheduler" /\ flag[t][cur[t]] # "pending" =>
          t \in active \/ (hpc = "notify" /\ ad = <<t, cur[t]>>) \/ hpc = t

\* A slot is pending exactly as long as its request is busy.
Exact == \A t \in Threads, i \in Slots : Busy(<<t, i>>) <=> flag[t][i] = "pending"

\* The inductive invariant.
AioInv ==
    /\ AioTypeOK
    /\ Exact
    /\ Once
    /\ HandlerInv
    /\ \A t \in Threads : SlotInv(t) /\ EventInv(t)

-----------------------------------------------------------------------------
(* Lemmas. *)

\* A set of natural numbers that is not empty has a least element.
LEMMA LeastNat ==
    ASSUME NEW T, T \subseteq Nat, T # {}
    PROVE  \E x \in T : \A y \in T : x <= y
  <1> DEFINE R == {ss \in Nat \X Nat : ss[1] < ss[2]}
  <1>1. IsWellFoundedOn(R, Nat)
    BY NatLessThanWellFounded, Zenon DEF OpToRel
  <1> HIDE DEF R
  <1>2. PICK x \in T : \A y \in T : ~(<<y, x>> \in R)
    BY <1>1, WFMin, Zenon
  <1>3. ASSUME NEW y \in T PROVE x <= y
    <2>1. x \in Nat /\ y \in Nat /\ ~(<<y, x>> \in R)
      BY <1>2, Zenon
    <2>2. ~(y < x)
      BY <2>1 DEF R
    <2> QED BY <2>1, <2>2
  <1> QED BY <1>3, Zenon

\* Min() of a set of slots is its least member.
LEMMA MinOf ==
    ASSUME NEW T, T \subseteq Nat, T # {}
    PROVE  Min(T) \in T /\ \A y \in T : Min(T) <= y
  <1>1. \E x \in T : \A y \in T : x <= y
    BY LeastNat, Zenon
  <1> QED BY <1>1, Zenon DEF Min

\* So Min() of two numbers is the smaller one.
LEMMA MinOfTwo ==
    ASSUME NEW a \in Nat, NEW b \in Nat
    PROVE  /\ Min({a, b}) \in Nat /\ Min({a, b}) <= a /\ Min({a, b}) <= b
           /\ Min({a, b}) = a \/ Min({a, b}) = b
  <1>1. {a, b} \subseteq Nat /\ {a, b} # {} /\ a \in {a, b} /\ b \in {a, b}
    BY Zenon
  <1>2. Min({a, b}) \in {a, b} /\ Min({a, b}) <= a /\ Min({a, b}) <= b
    BY <1>1, MinOf, Zenon
  <1> QED BY <1>2, Zenon

\* A step of another thread leaves u and its slots alone.
LEMMA OtherSlots ==
    ASSUME NEW u \in Threads, SlotInv(u), pc'[u] = pc[u], cur'[u] = cur[u],
           flag'[u] = flag[u], notify'[u] = notify[u]
    PROVE  SlotInv(u)'
  BY DEF SlotInv

\* Nor does it touch where u's event is.
LEMMA OtherEvents ==
    ASSUME NEW u \in Threads, EventInv(u), pc'[u] = pc[u], cur'[u] = cur[u],
           flag'[u] = flag[u], hpc' = hpc, ad' = ad, sig' = sig, woken'[u] = woken[u],
           u \in active' <=> u \in active, \A q \in Queues : OnQ(q, u)' <=> OnQ(q, u)
    PROVE  EventInv(u)'
  <1> QED BY AioAssumption, Zenon DEF EventInv

\* What a thread does between its calls of the kernel concerns itself alone.
Alone(t) ==
    /\ UNCHANGED <<kernelVars, workerVars, sig>>
    /\ \A u \in Threads \ {t} :
          /\ pc'[u] = pc[u] /\ cur'[u] = cur[u] /\ flag'[u] = flag[u]
          /\ notify'[u] = notify[u] /\ woken'[u] = woken[u]
          /\ u \in active' <=> u \in active
          /\ \A q \in Queues : OnQ(q, u)' <=> OnQ(q, u)
    /\ \A i \in Slots : flag'[t][i] = "pending" <=> flag[t][i] = "pending"

\* A completion put at the end of the ring.
LEMMA Appended ==
    ASSUME NEW s \in Seq((Threads \X Slots) \X Results), NEW x \in (Threads \X Slots) \X Results
    PROVE  /\ Append(s, x) \in Seq((Threads \X Slots) \X Results)
           /\ Len(Append(s, x)) = Len(s) + 1
           /\ Len(s) \in Nat /\ Append(s, x)[Len(s) + 1] = x
           /\ \A i \in 1..Len(s) : Append(s, x)[i] = s[i]
  OBVIOUS

\* As long as no request moves between the kernel, the ring and the worker.
LEMMA SameRequests ==
    ASSUME inIo' = inIo, ring' = ring, ioe' = ioe
    PROVE  /\ \A a : InRing(a)' <=> InRing(a)
           /\ \A a : Busy(a)' <=> Busy(a)
           /\ Once => Once'
  <1>1. \A a : InRing(a)' <=> InRing(a)
    BY Zenon DEF InRing
  <1>2. \A a : InIoe(a)' <=> InIoe(a)
    BY Zenon DEF InIoe
  <1>3. \A a : Busy(a)' <=> Busy(a)
    BY <1>1, <1>2, Zenon DEF Busy
  <1>4. Once => Once'
    BY <1>1, <1>2, Zenon DEF Once
  <1> QED BY <1>1, <1>3, <1>4, Zenon

\* So it is enough to look at that thread.
LEMMA AloneStep ==
    ASSUME AioInv, NEW t \in Threads, Alone(t), AioTypeOK', SlotInv(t)', EventInv(t)'
    PROVE  AioInv'
  <1>1. /\ inIo' = inIo /\ ring' = ring /\ efd' = efd /\ sig' = sig
        /\ hpc' = hpc /\ count' = count /\ ioe' = ioe /\ ad' = ad
    BY DEF Alone, kernelVars, workerVars
  <1>2. ASSUME NEW u \in Threads, u # t PROVE SlotInv(u)' /\ EventInv(u)'
    <2>1. SlotInv(u) /\ EventInv(u)
      BY Zenon DEF AioInv
    <2>2. /\ pc'[u] = pc[u] /\ cur'[u] = cur[u] /\ flag'[u] = flag[u]
          /\ notify'[u] = notify[u] /\ woken'[u] = woken[u]
          /\ u \in active' <=> u \in active
          /\ \A q \in Queues : OnQ(q, u)' <=> OnQ(q, u)
      BY <1>2, Zenon DEF Alone
    <2>3. SlotInv(u)'
      BY <2>1, <2>2, OtherSlots, Zenon
    <2>4. EventInv(u)'
      BY <1>1, <2>1, <2>2, OtherEvents, Zenon
    <2> QED BY <2>3, <2>4
  <1>3. \A u \in Threads : SlotInv(u)' /\ EventInv(u)'
    BY <1>2, Zenon
  <1>4. Once' /\ HandlerInv' /\ \A a : Busy(a)' <=> Busy(a)
    <2>1. Once /\ HandlerInv
      BY Zenon DEF AioInv
    <2>2. HandlerInv'
      BY <1>1, <2>1, Zenon DEF HandlerInv
    <2> QED BY <1>1, <2>1, <2>2, SameRequests, Zenon
  <1>5. \A u \in Threads, i \in Slots : flag'[u][i] = "pending" <=> flag[u][i] = "pending"
    BY Zenon DEF Alone
  <1>6. Exact'
    BY <1>4, <1>5, Zenon DEF AioInv, Exact
  <1> QED BY <1>3, <1>4, <1>6, Zenon DEF AioInv

\* Before the first call.
LEMMA AioStart == AioInit => AioInv
  <1> SUFFICES ASSUME AioInit PROVE AioInv
    OBVIOUS
  <1>1. /\ WaitqType /\ active = {} /\ \A q \in Queues, t \in Threads : ~OnQ(q, t)
        /\ sig = {} /\ woken = [t \in Threads |-> NULL]
    BY InitQueues, Zenon DEF AioInit, WaitqInit
  <1>2. /\ flag = [t \in Threads |-> [i \in Slots |-> "done"]]
        /\ inIo = {} /\ ring = <<>> /\ efd = 0
        /\ hpc = "armed" /\ count = 0 /\ ioe = <<>> /\ ad = NULL
        /\ pc = [t \in Threads |-> "idle"]
    BY Zenon DEF AioInit
  <1>3. AioTypeOK
    <2>1. /\ notify \in [Threads -> [Slots -> Queues \cup {NULL}]]
          /\ flag \in [Threads -> [Slots -> {"done", "free", "pending"}]]
          /\ res \in [Threads -> [Slots -> Results \cup {"0"}]]
      BY Zenon DEF AioInit
    <2>2. /\ pc \in [Threads -> AioPCs] /\ op \in [Threads -> Ops \cup {NULL}]
          /\ cur \in [Threads -> Slots \cup {NULL}] /\ own \in [Threads -> Slots \cup {NULL}]
          /\ rv \in [Threads -> {"0", "failed"}]
      BY Zenon DEF AioInit, AioPCs
    <2>3. made \in 0..MaxCalls /\ efd \in Nat /\ count \in Nat
      BY AioAssumption DEF AioInit
    <2>4. /\ ring \in Seq((Threads \X Slots) \X Results)
          /\ ioe \in Seq((Threads \X Slots) \X Results)
      BY <1>2
    <2> QED BY <1>1, <1>2, <2>1, <2>2, <2>3, <2>4, Zenon DEF AioTypeOK
  <1>4. Len(ring) = 0 /\ Len(ioe) = 0 /\ 1..0 = {}
    BY <1>2
  <1>5. Exact
    BY <1>2, <1>4 DEF Exact, Busy, InRing, InIoe
  <1>6. Once /\ HandlerInv
    BY <1>2, <1>4 DEF Once, HandlerInv, InRing, InIoe
  <1>7. \A t \in Threads : SlotInv(t)
    BY <1>2 DEF SlotInv, SlotPCs
  <1>8. \A t \in Threads : EventInv(t)
    BY <1>1, <1>2, AioAssumption DEF EventInv, QueuePCs
  <1> QED BY <1>3, <1>5, <1>6, <1>7, <1>8 DEF AioInv

-----------------------------------------------------------------------------
(* The steps of a thread in tc_aio_wait(). *)

\* next_slot() goes on to the slot after cur[t], if there is one.
LEMMA NextSlot ==
    ASSUME AioInv, NEW t \in Threads, next_slot(t), pc[t] \in SlotPCs \cup {"slot"},
           \A i \in Slots : i # cur[t] => flag'[t][i] = flag[t][i] /\ notify'[t][i] = notify[t][i],
           notify'[t][cur[t]] = NULL => flag'[t][cur[t]] # "pending"
    PROVE  /\ SlotInv(t)'
           /\ pc' \in [Threads -> AioPCs] /\ cur' \in [Threads -> Slots \cup {NULL}]
           /\ pc'[t] \in {"slot", "waited"}
           /\ \A u \in Threads \ {t} : pc'[u] = pc[u] /\ cur'[u] = cur[u]
  <1> DEFINE more == {i \in Slots : i > cur[t]}
  <1>1. /\ pc \in [Threads -> AioPCs] /\ cur \in [Threads -> Slots \cup {NULL}]
        /\ cur[t] \in Slots
    BY Zenon DEF AioInv, AioTypeOK, SlotInv
  <1>2. \A i \in Slots : i < cur[t] /\ notify[t][i] = NULL => flag[t][i] # "pending"
    BY Zenon DEF AioInv, SlotInv
  <1>3. Slots \subseteq Nat /\ cur[t] \in Nat /\ \A i \in Slots : i \in Nat
    BY <1>1, AioAssumption, Zenon
  <1>4. \A i \in Slots : i <= cur[t] /\ notify'[t][i] = NULL => flag'[t][i] # "pending"
    <2> SUFFICES ASSUME NEW i \in Slots, i <= cur[t], notify'[t][i] = NULL
                 PROVE  flag'[t][i] # "pending"
      BY Zenon
    <2>1. CASE i = cur[t]
      BY <2>1
    <2>2. CASE i # cur[t]
      <3>1. i \in Nat /\ cur[t] \in Nat
        BY <1>3, Zenon
      <3>2. i < cur[t]
        BY <2>2, <3>1
      <3> QED BY <1>2, <2>2, <3>2, Zenon
    <2> QED BY <2>1, <2>2
  <1>5. CASE more = {}
    <2>1. pc' = [pc EXCEPT ![t] = "waited"] /\ cur' = cur
      BY <1>5, Zenon DEF next_slot, Goto
    <2>2. \A i \in Slots : i <= cur[t]
      <3> SUFFICES ASSUME NEW i \in Slots PROVE i <= cur[t]
        OBVIOUS
      <3>1. ~(i > cur[t]) /\ i \in Nat /\ cur[t] \in Nat
        BY <1>3, <1>5, Zenon
      <3> QED BY <3>1
    <2>3. /\ pc' \in [Threads -> AioPCs] /\ pc'[t] = "waited"
          /\ \A u \in Threads \ {t} : pc'[u] = pc[u]
      BY <1>1, <2>1 DEF AioPCs
    <2>4. SlotInv(t)'
      BY <1>1, <1>4, <2>1, <2>2, <2>3 DEF SlotInv, SlotPCs
    <2> QED BY <1>1, <2>1, <2>3, <2>4, Zenon
  <1>6. CASE more # {}
    <2>1. pc' = [pc EXCEPT ![t] = "slot"] /\ cur' = [cur EXCEPT ![t] = Min(more)]
      BY <1>6, Zenon DEF next_slot, Goto
    <2>2. Min(more) \in more /\ \A y \in more : Min(more) <= y
      <3>1. more \subseteq Nat
        BY <1>3, Zenon
      <3> QED BY <1>6, <3>1, MinOf, Zenon
    <2> DEFINE m == Min(more)
    <2>3. m \in Slots /\ \A i \in Slots : i < m => i <= cur[t]
      <3>1. m \in Slots /\ \A i \in Slots : i > cur[t] => m <= i
        BY <2>2, Zenon
      <3> SUFFICES ASSUME NEW i \in Slots, i < m PROVE i <= cur[t]
        BY <3>1, Zenon
      <3>2. i \in Nat /\ m \in Nat /\ cur[t] \in Nat /\ (i > cur[t] => m <= i)
        BY <1>3, <3>1, Zenon
      <3> HIDE DEF m
      <3> QED BY <3>2
    <2>4. cur' = [cur EXCEPT ![t] = m]
      BY <2>1
    <2> HIDE DEF m
    <2>5. /\ pc' \in [Threads -> AioPCs] /\ pc'[t] = "slot"
          /\ \A u \in Threads \ {t} : pc'[u] = pc[u]
      BY <1>1, <2>1 DEF AioPCs
    <2>6. /\ cur' \in [Threads -> Slots \cup {NULL}] /\ cur'[t] = m
          /\ \A u \in Threads \ {t} : cur'[u] = cur[u]
      BY <1>1, <2>3, <2>4
    <2>7. SlotInv(t)'
      BY <1>4, <2>3, <2>5, <2>6 DEF SlotInv, SlotPCs
    <2> QED BY <2>5, <2>6, <2>7, Zenon
  <1> QED BY <1>5, <1>6

\* wait_from() starts at the first slot.
LEMMA WaitFrom ==
    ASSUME AioInv, NEW t \in Threads, wait_from(t)
    PROVE  /\ SlotInv(t)'
           /\ pc' \in [Threads -> AioPCs] /\ cur' \in [Threads -> Slots \cup {NULL}]
           /\ rv' \in [Threads -> {"0", "failed"}] /\ pc'[t] = "slot"
           /\ \A u \in Threads \ {t} : pc'[u] = pc[u] /\ cur'[u] = cur[u]
  <1>1. /\ pc \in [Threads -> AioPCs] /\ cur \in [Threads -> Slots \cup {NULL}]
        /\ rv \in [Threads -> {"0", "failed"}]
    BY Zenon DEF AioInv, AioTypeOK
  <1> DEFINE m == Min(Slots)
  <1>2. m \in Slots /\ \A i \in Slots : m <= i
    BY AioAssumption, MinOf, Zenon
  <1>3. /\ cur' = [cur EXCEPT ![t] = m] /\ pc' = [pc EXCEPT ![t] = "slot"]
        /\ rv' = [rv EXCEPT ![t] = "0"]
    BY Zenon DEF wait_from, Goto
  <1> HIDE DEF m
  <1>4. /\ pc' \in [Threads -> AioPCs] /\ cur' \in [Threads -> Slots \cup {NULL}]
        /\ rv' \in [Threads -> {"0", "failed"}] /\ pc'[t] = "slot" /\ cur'[t] = m
        /\ \A u \in Threads \ {t} : pc'[u] = pc[u] /\ cur'[u] = cur[u]
    BY <1>1, <1>2, <1>3 DEF AioPCs
  <1>5. \A i \in Slots : ~(i < m)
    BY <1>2, AioAssumption
  <1>6. SlotInv(t)'
    BY <1>2, <1>4, <1>5 DEF SlotInv, SlotPCs
  <1> QED BY <1>4, <1>6, Zenon

\* One assignment to ad->notify.
LEMMA SetNotify ==
    ASSUME AioTypeOK, NEW t \in Threads, NEW i \in Slots, NEW v \in Queues \cup {NULL},
           notify' = Set(notify, <<t, i>>, v)
    PROVE  /\ notify' \in [Threads -> [Slots -> Queues \cup {NULL}]] /\ notify'[t][i] = v
           /\ \A u \in Threads \ {t} : notify'[u] = notify[u]
           /\ \A j \in Slots \ {i} : notify'[t][j] = notify[t][j]
  <1> DEFINE h == [notify[t] EXCEPT ![i] = v]
  <1>1. notify' = [notify EXCEPT ![t] = h] /\ notify \in [Threads -> [Slots -> Queues \cup {NULL}]]
    BY DEF Set, AioTypeOK
  <1>2. /\ h \in [Slots -> Queues \cup {NULL}] /\ h[i] = v
        /\ \A j \in Slots \ {i} : h[j] = notify[t][j]
    BY <1>1
  <1> HIDE DEF h
  <1>3. /\ notify' \in [Threads -> [Slots -> Queues \cup {NULL}]] /\ notify'[t] = h
        /\ \A u \in Threads \ {t} : notify'[u] = notify[u]
    BY <1>1, <1>2
  <1> QED BY <1>2, <1>3

\* One assignment to the TC_AIO_DONE_FIELD.
LEMMA SetFlag ==
    ASSUME AioTypeOK, NEW t \in Threads, NEW i \in Slots, NEW v \in {"done", "free", "pending"},
           flag' = Set(flag, <<t, i>>, v)
    PROVE  /\ flag' \in [Threads -> [Slots -> {"done", "free", "pending"}]] /\ flag'[t][i] = v
           /\ \A u \in Threads \ {t} : flag'[u] = flag[u]
           /\ \A j \in Slots \ {i} : flag'[t][j] = flag[t][j]
  <1> DEFINE h == [flag[t] EXCEPT ![i] = v]
  <1>1. flag' = [flag EXCEPT ![t] = h] /\ flag \in [Threads -> [Slots -> {"done", "free", "pending"}]]
    BY DEF Set, AioTypeOK
  <1>2. /\ h \in [Slots -> {"done", "free", "pending"}] /\ h[i] = v
        /\ \A j \in Slots \ {i} : h[j] = flag[t][j]
    BY <1>1
  <1> HIDE DEF h
  <1>3. /\ flag' \in [Threads -> [Slots -> {"done", "free", "pending"}]] /\ flag'[t] = h
        /\ \A u \in Threads \ {t} : flag'[u] = flag[u]
    BY <1>1, <1>2
  <1> QED BY <1>2, <1>3

\* One assignment to ad->res.
LEMMA SetRes ==
    ASSUME AioTypeOK, NEW t \in Threads, NEW i \in Slots, NEW v \in Results \cup {"0"},
           res' = Set(res, <<t, i>>, v)
    PROVE  /\ res' \in [Threads -> [Slots -> Results \cup {"0"}]] /\ res'[t][i] = v
           /\ \A u \in Threads \ {t} : res'[u] = res[u]
           /\ \A j \in Slots \ {i} : res'[t][j] = res[t][j]
  <1> DEFINE h == [res[t] EXCEPT ![i] = v]
  <1>1. res' = [res EXCEPT ![t] = h] /\ res \in [Threads -> [Slots -> Results \cup {"0"}]]
    BY DEF Set, AioTypeOK
  <1>2. /\ h \in [Slots -> Results \cup {"0"}] /\ h[i] = v
        /\ \A j \in Slots \ {i} : h[j] = res[t][j]
    BY <1>1
  <1> HIDE DEF h
  <1>3. /\ res' \in [Threads -> [Slots -> Results \cup {"0"}]] /\ res'[t] = h
        /\ \A u \in Threads \ {t} : res'[u] = res[u]
    BY <1>1, <1>2
  <1> QED BY <1>2, <1>3

\* A slot the caller wants to be notified of is passed over, another one is waited for.
LEMMA SetNotifyStep ==
    ASSUME AioInv, NEW t \in Threads, set_notify(t)
    PROVE  AioInv'
  <1>1. /\ pc[t] = "slot" /\ cur[t] \in Slots /\ SlotInv(t) /\ EventInv(t)
        /\ notify \in [Threads -> [Slots -> Queues \cup {NULL}]]
        /\ pc \in [Threads -> AioPCs]
        /\ t \in Queues \cup {NULL}
    BY AioAssumption, Zenon DEF AioInv, AioTypeOK, SlotInv, set_notify
  <1>2. /\ UNCHANGED <<waiters, active, sig, woken, flag, res, inIo, ring, efd>>
        /\ UNCHANGED <<hpc, count, ioe, ad, op, own, rv, made>>
    BY DEF set_notify, wqVars, kernelVars, workerVars
  <1>3. WaitqType' /\ \A q \in Queues, u \in Threads : OnQ(q, u)' <=> OnQ(q, u)
    BY <1>2 DEF AioInv, AioTypeOK, WaitqType, OnQ
  <1>4. CASE notify[t][cur[t]] # NULL /\ next_slot(t) /\ UNCHANGED notify
    <2>1. /\ SlotInv(t)'
          /\ pc' \in [Threads -> AioPCs] /\ cur' \in [Threads -> Slots \cup {NULL}]
          /\ pc'[t] \in {"slot", "waited"}
          /\ \A u \in Threads \ {t} : pc'[u] = pc[u] /\ cur'[u] = cur[u]
      <3>1. /\ pc[t] \in SlotPCs \cup {"slot"} /\ notify'[t][cur[t]] # NULL
            /\ \A i \in Slots : i # cur[t] => flag'[t][i] = flag[t][i] /\ notify'[t][i] = notify[t][i]
        BY <1>1, <1>2, <1>4
      <3> QED BY <1>4, <3>1, NextSlot, Zenon
    <2>2. AioTypeOK'
      BY <1>2, <1>3, <1>4, <2>1 DEF AioInv, AioTypeOK
    <2>3. EventInv(t)'
      BY <1>1, <1>2, <1>3, <2>1 DEF EventInv, QueuePCs
    <2>4. Alone(t)
      BY <1>2, <1>3, <1>4, <2>1 DEF Alone, kernelVars, workerVars
    <2> QED BY <2>1, <2>2, <2>3, <2>4, AloneStep
  <1>5. CASE /\ notify[t][cur[t]] = NULL /\ notify' = Set(notify, <<t, cur[t]>>, t)
             /\ Goto(t, "test") /\ UNCHANGED cur
    <2>1. /\ notify' \in [Threads -> [Slots -> Queues \cup {NULL}]] /\ notify'[t][cur[t]] = t
          /\ \A u \in Threads \ {t} : notify'[u] = notify[u]
          /\ \A j \in Slots \ {cur[t]} : notify'[t][j] = notify[t][j]
      BY <1>1, <1>5, SetNotify, ZenonT(30) DEF AioInv
    <2>2. /\ pc' \in [Threads -> AioPCs] /\ pc'[t] = "test"
          /\ \A u \in Threads \ {t} : pc'[u] = pc[u]
      BY <1>1, <1>5 DEF Goto, AioPCs
    <2>3. AioTypeOK'
      BY <1>2, <1>3, <1>5, <2>1, <2>2, Zenon DEF AioInv, AioTypeOK
    <2>4. SlotInv(t)'
      <3>1. \A i \in Slots : i < cur[t] /\ notify[t][i] = NULL => flag[t][i] # "pending"
        BY <1>1, Zenon DEF SlotInv
      <3>2. \A i \in Slots : i < cur[t] => i # cur[t]
        <4>1. \A i \in Slots : i \in Nat
          BY AioAssumption, ZenonT(30)
        <4> QED BY <4>1
      <3> QED BY <1>1, <1>2, <1>5, <2>1, <2>2, <3>1, <3>2, Zenon DEF SlotInv, SlotPCs
    <2>5. EventInv(t)'
      BY <1>1, <1>2, <1>3, <2>2 DEF EventInv, QueuePCs
    <2>6. Alone(t)
      BY <1>2, <1>3, <1>5, <2>1, <2>2 DEF Alone, kernelVars, workerVars
    <2> QED BY <2>3, <2>4, <2>5, <2>6, AloneStep, Zenon
  <1> QED BY <1>4, <1>5, Zenon DEF set_notify

\* The steps of t that change only where it is, and where its event is.
LEMMA WaitStep ==
    ASSUME AioInv, NEW t \in Threads, NEW l \in AioPCs, Goto(t, l), pc[t] \in SlotPCs,
           UNCHANGED <<flag, notify, res, kernelVars, workerVars, callVars, sig>>,
           WaitqType', l \in SlotPCs, EventInv(t)',
           l \in {"collect", "finish_true"} => flag[t][cur[t]] # "pending",
           \A u \in Threads \ {t} :
               /\ woken'[u] = woken[u] /\ (u \in active' <=> u \in active)
               /\ \A q \in Queues : OnQ(q, u)' <=> OnQ(q, u)
    PROVE  AioInv'
  <1>1. /\ UNCHANGED <<flag, notify, res, inIo, ring, efd, hpc, count, ioe, ad>>
        /\ UNCHANGED <<op, cur, own, rv, made>>
    BY DEF kernelVars, workerVars, callVars
  <1>2. /\ pc' \in [Threads -> AioPCs] /\ pc'[t] = l /\ SlotInv(t)
        /\ \A u \in Threads \ {t} : pc'[u] = pc[u]
    BY DEF AioInv, AioTypeOK, Goto
  <1>3. AioTypeOK'
    BY <1>1, <1>2 DEF AioInv, AioTypeOK
  <1>4. SlotInv(t)'
    BY <1>1, <1>2, Zenon DEF SlotInv, SlotPCs
  <1>5. Alone(t)
    BY <1>1, <1>2, Zenon DEF Alone, kernelVars, workerVars
  <1> QED BY <1>3, <1>4, <1>5, AloneStep

\* The tests of tc_aio_data_done() before and after prepare_to_wait().
LEMMA TestStep ==
    ASSUME AioInv, NEW t \in Threads, test(t) \/ cond(t)
    PROVE  AioInv'
  <1>1. PICK l \in {"collect", "prepare", "finish_true", "scheduler"} :
            /\ Goto(t, l)
            /\ pc[t] = "test" => l \in {"collect", "prepare"}
            /\ pc[t] = "cond" => l \in {"finish_true", "scheduler"}
            /\ l \in {"collect", "finish_true"} <=> flag[t][cur[t]] # "pending"
    <2>1. CASE flag[t][cur[t]] = "pending"
      BY <2>1 DEF test, cond, slot_done
    <2>2. CASE flag[t][cur[t]] # "pending"
      BY <2>2 DEF test, cond, slot_done
    <2> QED BY <2>1, <2>2
  <1>2. /\ UNCHANGED <<flag, notify, res, kernelVars, workerVars, callVars, sig>>
        /\ UNCHANGED <<waiters, active, woken, cur, hpc, ad>> /\ pc[t] \in {"test", "cond"}
    BY DEF test, cond, wqVars, callVars, workerVars
  <1>3. WaitqType' /\ \A q \in Queues, u \in Threads : OnQ(q, u)' <=> OnQ(q, u)
    BY <1>2 DEF AioInv, AioTypeOK, WaitqType, OnQ
  <1>4. pc'[t] = l /\ l \in AioPCs /\ l \in SlotPCs /\ pc[t] \in SlotPCs /\ EventInv(t)
    BY <1>1, <1>2 DEF AioInv, AioTypeOK, Goto, AioPCs, SlotPCs
  <1>5. EventInv(t)'
    <2>1. CASE pc[t] = "test"
      <3>1. t \notin active /\ \A q \in Queues : ~OnQ(q, t)
        BY <1>4, <2>1 DEF EventInv, QueuePCs
      <3>2. pc'[t] \notin {"cond", "scheduler"} /\ \A q \in Queues : ~OnQ(q, t)'
        BY <1>1, <1>3, <1>4, <2>1, <3>1
      <3> QED BY <1>2, <1>4, <3>1, <3>2 DEF EventInv
    <2>2. CASE pc[t] = "cond"
      <3>1. pc'[t] \in QueuePCs /\ (pc'[t] = "scheduler" => flag[t][cur[t]] = "pending")
        BY <1>1, <1>4, <2>2 DEF QueuePCs
      <3>2. t \in Queues /\ \A q \in Queues : OnQ(q, t)' <=> OnQ(q, t)
        BY <1>3, AioAssumption, ZenonT(30)
      <3> QED BY <1>2, <1>4, <2>2, <3>1, <3>2 DEF EventInv
    <2> QED BY <1>2, <2>1, <2>2
  <1> QED BY <1>1, <1>2, <1>3, <1>4, <1>5, WaitStep, ZenonT(30)

\* The thread's event is put on aio_wq.
LEMMA PrepareStep ==
    ASSUME AioInv, NEW t \in Threads, prepare(t)
    PROVE  AioInv'
  <1>1. /\ pc[t] = "prepare" /\ prepare_to_wait(t, t) /\ Goto(t, "cond")
        /\ UNCHANGED <<flag, notify, res, kernelVars, workerVars, callVars, sig>>
    BY DEF prepare, prepare_to_wait
  <1>2. /\ EventInv(t) /\ WaitqType /\ t \in Queues /\ pc \in [Threads -> AioPCs]
        /\ woken \in [Threads -> {NULL, "event", "signal"}]
    BY AioAssumption, Zenon DEF AioInv, AioTypeOK, WaitqType
  <1>3. t \notin active /\ \A r \in Queues : ~OnQ(r, t)
    BY <1>1, <1>2 DEF EventInv, QueuePCs
  <1>4. /\ WaitqType' /\ active' = active
        /\ \A r \in Queues, u \in Threads : OnQ(r, u)' <=> OnQ(r, u) \/ (r = t /\ u = t)
        /\ \A u \in Threads : u # t => woken'[u] = woken[u]
    BY <1>1, <1>2, <1>3, Prepare
  <1>5. pc'[t] = "cond" /\ woken'[t] = NULL /\ sig' = sig
    BY <1>1, <1>2 DEF Goto, prepare_to_wait
  <1>6. EventInv(t)'
    BY <1>2, <1>3, <1>4, <1>5, AioAssumption DEF EventInv, QueuePCs
  <1>7. "cond" \in AioPCs /\ "cond" \in SlotPCs /\ pc[t] \in SlotPCs
    BY <1>1 DEF AioPCs, SlotPCs
  <1>8. \A u \in Threads \ {t} :
            /\ woken'[u] = woken[u] /\ (u \in active' <=> u \in active)
            /\ \A q \in Queues : OnQ(q, u)' <=> OnQ(q, u)
    BY <1>4, Zenon
  <1> QED BY <1>1, <1>4, <1>6, <1>7, <1>8, WaitStep

\* The thread is woken by its event.
LEMMA SchedulerStep ==
    ASSUME AioInv, NEW t \in Threads, scheduler(t)
    PROVE  AioInv'
  <1>1. /\ pc[t] = "scheduler" /\ tc_scheduler(t) /\ Goto(t, "finish")
        /\ UNCHANGED <<flag, notify, res, kernelVars, workerVars, callVars>>
    BY DEF scheduler
  <1>2. EventInv(t) /\ WaitqType /\ pc \in [Threads -> AioPCs]
    BY Zenon DEF AioInv, AioTypeOK
  <1>3. /\ WaitqType' /\ waiters' = waiters
        /\ \A u \in Threads : u # t => woken'[u] = woken[u]
    BY <1>1, <1>2, Scheduled, Zenon
  <1>4. /\ t \notin sig /\ active' = active \ {t} /\ sig' = sig
        /\ woken' = [woken EXCEPT ![t] = "event"]
    BY <1>1, <1>2, Zenon DEF EventInv, tc_scheduler
  <1>5. /\ pc'[t] = "finish" /\ woken'[t] = "event"
        /\ \A q \in Queues, u \in Threads : OnQ(q, u)' <=> OnQ(q, u)
    BY <1>1, <1>2, <1>3, <1>4 DEF Goto, WaitqType, OnQ
  <1>6. EventInv(t)'
    BY <1>1, <1>2, <1>4, <1>5 DEF EventInv, QueuePCs
  <1>7. "finish" \in AioPCs /\ "finish" \in SlotPCs /\ pc[t] \in SlotPCs
    BY <1>1 DEF AioPCs, SlotPCs
  <1>8. \A u \in Threads \ {t} :
            /\ woken'[u] = woken[u] /\ (u \in active' <=> u \in active)
            /\ \A q \in Queues : OnQ(q, u)' <=> OnQ(q, u)
    BY <1>3, <1>4, <1>5, ZenonT(30)
  <1> QED BY <1>1, <1>3, <1>4, <1>6, <1>7, <1>8, WaitStep

\* tc_waitq_finish_wait(): the slot is looked at again, unless it was seen done.
LEMMA FinishStep ==
    ASSUME AioInv, NEW t \in Threads, finish(t)
    PROVE  AioInv'
  <1>1. PICK l \in {"prepare", "collect"} :
            /\ pc[t] \in {"finish", "finish_true"} /\ finish_wait(t, t) /\ Goto(t, l)
            /\ l = "collect" => pc[t] = "finish_true"
            /\ UNCHANGED <<flag, notify, res, kernelVars, workerVars, callVars>>
    BY DEF finish
  <1>2. /\ EventInv(t) /\ SlotInv(t) /\ WaitqType /\ t \in Queues /\ pc \in [Threads -> AioPCs]
        /\ woken \in [Threads -> {NULL, "event", "signal"}]
    BY AioAssumption, Zenon DEF AioInv, AioTypeOK, WaitqType
  <1>3. /\ WaitqType' /\ active' = active \ {t}
        /\ \A r \in Queues, u \in Threads : OnQ(r, u)' <=> OnQ(r, u) /\ ~(r = t /\ u = t)
        /\ \A u \in Threads : u # t => woken'[u] = woken[u]
    BY <1>1, <1>2, Finish, ZenonT(30)
  <1>4. sig' = sig /\ woken'[t] = NULL /\ pc'[t] = l
    BY <1>1, <1>2 DEF EventInv, finish_wait, Goto
  <1>5. EventInv(t)'
    BY <1>1, <1>2, <1>3, <1>4, AioAssumption DEF EventInv, QueuePCs
  <1>6. /\ l \in AioPCs /\ l \in SlotPCs /\ pc[t] \in SlotPCs
        /\ l \in {"collect", "finish_true"} => flag[t][cur[t]] # "pending"
    BY <1>1, <1>2 DEF AioPCs, SlotPCs, SlotInv
  <1>7. \A u \in Threads \ {t} :
            /\ woken'[u] = woken[u] /\ (u \in active' <=> u \in active)
            /\ \A q \in Queues : OnQ(q, u)' <=> OnQ(q, u)
    BY <1>3, Zenon
  <1> QED BY <1>1, <1>3, <1>4, <1>5, <1>6, <1>7, WaitStep

\* The result is collected once: the slot is free again and nobody is to be notified.
LEMMA CollectStep ==
    ASSUME AioInv, NEW t \in Threads, collect(t)
    PROVE  AioInv'
  <1>1. /\ pc[t] = "collect" /\ cur[t] \in Slots /\ flag[t][cur[t]] # "pending"
        /\ AioTypeOK /\ EventInv(t)
    BY Zenon DEF AioInv, SlotInv, SlotPCs, collect
  <1>2. /\ notify' = Set(notify, <<t, cur[t]>>, NULL) /\ flag' = Set(flag, <<t, cur[t]>>, "free")
        /\ next_slot(t)
        /\ UNCHANGED <<waiters, active, sig, woken, res, inIo, ring, efd>>
        /\ UNCHANGED <<hpc, count, ioe, ad, op, own, made>>
    BY Zenon DEF collect, wqVars, kernelVars, workerVars
  <1>3. /\ notify' \in [Threads -> [Slots -> Queues \cup {NULL}]] /\ notify'[t][cur[t]] = NULL
        /\ \A u \in Threads \ {t} : notify'[u] = notify[u]
        /\ \A j \in Slots \ {cur[t]} : notify'[t][j] = notify[t][j]
    <2>1. NULL \in Queues \cup {NULL}
      BY Zenon
    <2> QED BY <1>1, <1>2, <2>1, SetNotify, Zenon
  <1>4. /\ flag' \in [Threads -> [Slots -> {"done", "free", "pending"}]]
        /\ flag'[t][cur[t]] = "free"
        /\ \A u \in Threads \ {t} : flag'[u] = flag[u]
        /\ \A j \in Slots \ {cur[t]} : flag'[t][j] = flag[t][j]
    <2>1. "free" \in {"done", "free", "pending"}
      BY Zenon
    <2> QED BY <1>1, <1>2, <2>1, SetFlag, Zenon
  <1>5. WaitqType' /\ \A q \in Queues, u \in Threads : OnQ(q, u)' <=> OnQ(q, u)
    BY <1>1, <1>2 DEF AioTypeOK, WaitqType, OnQ
  <1>6. /\ SlotInv(t)'
        /\ pc' \in [Threads -> AioPCs] /\ cur' \in [Threads -> Slots \cup {NULL}]
        /\ pc'[t] \in {"slot", "waited"}
        /\ \A u \in Threads \ {t} : pc'[u] = pc[u] /\ cur'[u] = cur[u]
    <2>1. /\ pc[t] \in SlotPCs \cup {"slot"} /\ flag'[t][cur[t]] # "pending"
          /\ \A i \in Slots : i # cur[t] => flag'[t][i] = flag[t][i] /\ notify'[t][i] = notify[t][i]
      BY <1>1, <1>3, <1>4 DEF SlotPCs
    <2> QED BY <1>2, <2>1, NextSlot, ZenonT(30)
  <1>7. rv' \in [Threads -> {"0", "failed"}]
    BY <1>1 DEF AioTypeOK, collect
  <1>8. AioTypeOK'
    BY <1>1, <1>2, <1>3, <1>4, <1>5, <1>6, <1>7, ZenonT(30) DEF AioTypeOK
  <1>9. EventInv(t)'
    BY <1>1, <1>2, <1>5, <1>6 DEF EventInv, QueuePCs
  <1>10. \A i \in Slots : flag'[t][i] = "pending" <=> flag[t][i] = "pending"
    BY <1>1, <1>4, Zenon
  <1>11. Alone(t)
    BY <1>2, <1>3, <1>4, <1>5, <1>6, <1>10, Zenon DEF Alone, kernelVars, workerVars
  <1> QED BY <1>6, <1>8, <1>9, <1>11, AloneStep

-----------------------------------------------------------------------------
(* The calls. *)

\* Outside the wait for a slot, t changes where it is and what its call knows.
Elsewhere(t) ==
    /\ pc[t] \notin SlotPCs /\ pc'[t] \notin SlotPCs /\ pc' \in [Threads -> AioPCs]
    /\ cur' \in [Threads -> Slots \cup {NULL}] /\ rv' \in [Threads -> {"0", "failed"}]
    /\ own' \in [Threads -> Slots \cup {NULL}] /\ op' \in [Threads -> Ops \cup {NULL}]
    /\ made' \in 0..MaxCalls
    /\ \A u \in Threads \ {t} : pc'[u] = pc[u] /\ cur'[u] = cur[u]
    /\ SlotInv(t)'

\* It keeps the invariant if it leaves slots, queues, kernel and worker alone.
LEMMA ElsewhereStep ==
    ASSUME AioInv, NEW t \in Threads, Elsewhere(t),
           UNCHANGED <<wqVars, flag, notify, res, kernelVars, workerVars>>
    PROVE  AioInv'
  <1>1. /\ UNCHANGED <<waiters, active, sig, woken, flag, notify, res, inIo, ring, efd>>
        /\ UNCHANGED <<hpc, count, ioe, ad>>
    BY DEF wqVars, kernelVars, workerVars
  <1>2. WaitqType' /\ \A q \in Queues, u \in Threads : OnQ(q, u)' <=> OnQ(q, u)
    BY <1>1 DEF AioInv, AioTypeOK, WaitqType, OnQ
  <1>3. AioTypeOK'
    BY <1>1, <1>2 DEF AioInv, AioTypeOK, Elsewhere
  <1>4. /\ EventInv(t) /\ pc[t] \notin QueuePCs
        /\ pc'[t] \notin {"cond", "scheduler"}
    BY Zenon DEF AioInv, Elsewhere, SlotPCs, QueuePCs
  <1>5. EventInv(t)'
    BY <1>1, <1>2, <1>4, Zenon DEF EventInv
  <1>6. Alone(t)
    BY <1>1, <1>2, Zenon DEF Alone, kernelVars, workerVars, Elsewhere
  <1> QED BY <1>3, <1>5, <1>6, AloneStep DEF Elsewhere

\* A call begins.
LEMMA CallStep ==
    ASSUME AioInv, NEW t \in Threads, NEW o \in Ops, call(t, o)
    PROVE  AioInv'
  <1>1. /\ pc[t] = "idle" /\ op' = [op EXCEPT ![t] = o] /\ made' = made + 1 /\ made < MaxCalls
        /\ own' = own /\ UNCHANGED <<wqVars, flag, notify, res, kernelVars, workerVars>>
    BY DEF call
  <1>2. /\ AioTypeOK /\ pc \in [Threads -> AioPCs] /\ cur \in [Threads -> Slots \cup {NULL}]
        /\ op \in [Threads -> Ops \cup {NULL}] /\ own \in [Threads -> Slots \cup {NULL}]
        /\ made \in 0..MaxCalls /\ rv \in [Threads -> {"0", "failed"}]
    BY Zenon DEF AioInv, AioTypeOK
  <1>3. op' \in [Threads -> Ops \cup {NULL}]
    BY <1>1, <1>2, Zenon
  <1>4. made' \in 0..MaxCalls
    BY <1>1, <1>2, AioAssumption
  <1>5. CASE o = "wait"
    <2>1. /\ SlotInv(t)'
          /\ pc' \in [Threads -> AioPCs] /\ cur' \in [Threads -> Slots \cup {NULL}]
          /\ rv' \in [Threads -> {"0", "failed"}] /\ pc'[t] = "slot"
          /\ \A u \in Threads \ {t} : pc'[u] = pc[u] /\ cur'[u] = cur[u]
      BY <1>5, WaitFrom, Zenon DEF call
    <2>2. Elsewhere(t)
      BY <1>1, <1>2, <1>3, <1>4, <2>1 DEF Elsewhere, SlotPCs
    <2> QED BY <1>1, <2>2, ElsewhereStep
  <1>6. CASE o # "wait"
    <2>1. pc' = [pc EXCEPT ![t] = "get"] /\ cur' = cur /\ rv' = rv
      BY <1>6, Zenon DEF call, Goto
    <2>2. /\ pc' \in [Threads -> AioPCs] /\ pc'[t] = "get"
          /\ \A u \in Threads \ {t} : pc'[u] = pc[u]
      BY <1>2, <2>1 DEF AioPCs
    <2>3. SlotInv(t)'
      BY <2>2 DEF SlotInv, SlotPCs
    <2>4. Elsewhere(t)
      BY <1>1, <1>2, <1>3, <1>4, <2>1, <2>2, <2>3 DEF Elsewhere, SlotPCs
    <2> QED BY <1>1, <2>4, ElsewhereStep
  <1> QED BY <1>5, <1>6

\* _tc_aio_get_aio_data() takes a free slot or waits first.
LEMMA GetStep ==
    ASSUME AioInv, NEW t \in Threads, get_aio_data(t)
    PROVE  AioInv'
  <1> DEFINE free == {i \in Slots : flag[t][i] = "free"}
  <1>1. /\ pc[t] = "get" /\ op' = op /\ made' = made /\ own' = own
        /\ UNCHANGED <<wqVars, flag, notify, res, kernelVars, workerVars>>
    BY DEF get_aio_data
  <1>2. /\ pc \in [Threads -> AioPCs] /\ cur \in [Threads -> Slots \cup {NULL}]
        /\ op \in [Threads -> Ops \cup {NULL}] /\ own \in [Threads -> Slots \cup {NULL}]
        /\ made \in 0..MaxCalls /\ rv \in [Threads -> {"0", "failed"}]
    BY Zenon DEF AioInv, AioTypeOK
  <1>3. CASE free = {}
    <2>1. /\ SlotInv(t)'
          /\ pc' \in [Threads -> AioPCs] /\ cur' \in [Threads -> Slots \cup {NULL}]
          /\ rv' \in [Threads -> {"0", "failed"}] /\ pc'[t] = "slot"
          /\ \A u \in Threads \ {t} : pc'[u] = pc[u] /\ cur'[u] = cur[u]
      BY <1>3, WaitFrom, Zenon DEF get_aio_data
    <2>2. Elsewhere(t)
      BY <1>1, <1>2, <2>1 DEF Elsewhere, SlotPCs
    <2> QED BY <1>1, <2>2, ElsewhereStep
  <1>4. CASE free # {}
    <2> DEFINE m == Min(free)
    <2>1. m \in free
      <3>1. free \subseteq Nat
        BY AioAssumption, ZenonT(30)
      <3> QED BY <1>4, <3>1, MinOf, Zenon
    <2>2. cur' = [cur EXCEPT ![t] = m] /\ pc' = [pc EXCEPT ![t] = "prep"] /\ rv' = rv
      BY <1>4, Zenon DEF get_aio_data, Goto
    <2>3. m \in Slots /\ flag[t][m] = "free"
      BY <2>1, Zenon
    <2> HIDE DEF m
    <2>4. /\ pc' \in [Threads -> AioPCs] /\ pc'[t] = "prep" /\ cur'[t] = m
          /\ cur' \in [Threads -> Slots \cup {NULL}]
          /\ \A u \in Threads \ {t} : pc'[u] = pc[u] /\ cur'[u] = cur[u]
      BY <1>2, <2>2, <2>3 DEF AioPCs
    <2>5. SlotInv(t)'
      BY <1>1, <2>3, <2>4 DEF SlotInv, SlotPCs
    <2>6. Elsewhere(t)
      BY <1>1, <1>2, <2>2, <2>4, <2>5 DEF Elsewhere, SlotPCs
    <2> QED BY <1>1, <2>6, ElsewhereStep
  <1> QED BY <1>3, <1>4

\* tc_aio_wait() or the call returns.
LEMMA ReturnStep ==
    ASSUME AioInv, NEW t \in Threads, waited(t) \/ return(t)
    PROVE  AioInv'
  <1>1. /\ pc \in [Threads -> AioPCs] /\ cur \in [Threads -> Slots \cup {NULL}]
        /\ op \in [Threads -> Ops \cup {NULL}] /\ own \in [Threads -> Slots \cup {NULL}]
        /\ made \in 0..MaxCalls /\ rv \in [Threads -> {"0", "failed"}]
    BY Zenon DEF AioInv, AioTypeOK
  <1>2. /\ pc[t] \in {"waited", "return"} /\ made' = made
        /\ UNCHANGED <<wqVars, flag, notify, res, kernelVars, workerVars>>
    BY DEF waited, return
  <1>3. /\ pc' \in [Threads -> AioPCs] /\ pc'[t] \in {"get", "return", "idle"}
        /\ \A u \in Threads \ {t} : pc'[u] = pc[u]
    BY <1>1 DEF waited, return, Goto, AioPCs
  <1>4. /\ cur' \in [Threads -> Slots \cup {NULL}] /\ \A u \in Threads \ {t} : cur'[u] = cur[u]
        /\ own' \in [Threads -> Slots \cup {NULL}] /\ op' \in [Threads -> Ops \cup {NULL}]
    BY <1>1, Zenon DEF waited, return
  <1>5. rv' \in [Threads -> {"0", "failed"}]
    BY <1>1 DEF waited, return
  <1>6. SlotInv(t)'
    BY <1>3 DEF SlotInv, SlotPCs
  <1>7. Elsewhere(t)
    BY <1>1, <1>2, <1>3, <1>4, <1>5, <1>6 DEF Elsewhere, SlotPCs
  <1> QED BY <1>2, <1>7, ElsewhereStep

\* A request that io_submit() refuses: the slot is done, and who wants to know is told.
LEMMA SubmitFailsStep ==
    ASSUME AioInv, NEW t \in Threads, io_submit_fails(t)
    PROVE  AioInv'
  <1> DEFINE n == IF op[t] = "notify" THEN "wq" ELSE NULL
             Q == IF op[t] = "notify" THEN {"wq"} ELSE {}
  <1>1. /\ pc[t] = "prep" /\ cur[t] \in Slots /\ flag[t][cur[t]] = "free"
        /\ AioTypeOK /\ WaitqType /\ EventInv(t)
    BY Zenon DEF AioInv, AioTypeOK, SlotInv, io_submit_fails
  <1>2. /\ notify' = Set(notify, <<t, cur[t]>>, n) /\ res' = Set(res, <<t, cur[t]>>, "0")
        /\ flag' = Set(flag, <<t, cur[t]>>, "done") /\ rv' = [rv EXCEPT ![t] = "failed"]
        /\ pc' = [pc EXCEPT ![t] = "return"] /\ tc_waitq_wakeup_all(Q)
        /\ UNCHANGED <<inIo, ring, efd, hpc, count, ioe, ad, op, cur, own, made>>
    BY DEF io_submit_fails, kernelVars, workerVars, Goto
  <1>3. n \in Queues \cup {NULL} /\ Q \subseteq Queues /\ Q \subseteq {"wq"}
    BY AioAssumption, ZenonT(30)
  <1> HIDE DEF n, Q
  <1>4. /\ notify' \in [Threads -> [Slots -> Queues \cup {NULL}]]
        /\ \A u \in Threads \ {t} : notify'[u] = notify[u]
    BY <1>1, <1>2, <1>3, SetNotify, Zenon
  <1>5. /\ flag' \in [Threads -> [Slots -> {"done", "free", "pending"}]]
        /\ flag'[t][cur[t]] = "done"
        /\ \A u \in Threads \ {t} : flag'[u] = flag[u]
        /\ \A j \in Slots \ {cur[t]} : flag'[t][j] = flag[t][j]
    <2>1. "done" \in {"done", "free", "pending"}
      BY Zenon
    <2> QED BY <1>1, <1>2, <2>1, SetFlag, Zenon
  <1>6. res' \in [Threads -> [Slots -> Results \cup {"0"}]]
    <2>1. "0" \in Results \cup {"0"}
      BY Zenon
    <2> QED BY <1>1, <1>2, <2>1, SetRes, Zenon
  <1>7. /\ WaitqType' /\ woken' = woken /\ sig' = sig
        /\ \A u \in Threads : u \in active' <=> u \in active \/ \E q \in Q : OnQ(q, u)
        /\ \A r \in Queues, u \in Threads : OnQ(r, u)' <=> OnQ(r, u) /\ r \notin Q
    BY <1>1, <1>2, <1>3, WakeupAll, Zenon
  <1>8. \A u \in Threads : ~OnQ("wq", u)
    BY AioAssumption, Zenon DEF AioInv, EventInv
  <1>9. /\ \A u \in Threads : u \in active' <=> u \in active
        /\ \A r \in Queues, u \in Threads : OnQ(r, u)' <=> OnQ(r, u)
    BY <1>3, <1>7, <1>8, Zenon
  <1>10. /\ pc' \in [Threads -> AioPCs] /\ pc'[t] = "return"
         /\ \A u \in Threads \ {t} : pc'[u] = pc[u]
         /\ rv' \in [Threads -> {"0", "failed"}]
    BY <1>1, <1>2 DEF AioTypeOK, AioPCs
  <1>11. AioTypeOK'
    BY <1>1, <1>2, <1>4, <1>5, <1>6, <1>7, <1>10, Zenon DEF AioTypeOK
  <1>12. SlotInv(t)'
    BY <1>10 DEF SlotInv, SlotPCs
  <1>13. EventInv(t)'
    BY <1>1, <1>7, <1>9, <1>10 DEF EventInv, QueuePCs
  <1>14. \A i \in Slots : flag'[t][i] = "pending" <=> flag[t][i] = "pending"
    BY <1>1, <1>5, Zenon
  <1>15. Alone(t)
    BY <1>2, <1>4, <1>5, <1>7, <1>9, <1>10, <1>14, Zenon DEF Alone, kernelVars, workerVars
  <1> QED BY <1>11, <1>12, <1>13, <1>15, AloneStep

\* A request that io_submit() accepts: the slot was free, so no other request uses it.
LEMMA SubmitStep ==
    ASSUME AioInv, NEW t \in Threads, io_submit(t)
    PROVE  AioInv'
  <1> DEFINE n == IF op[t] = "notify" THEN "wq" ELSE NULL
             a == <<t, cur[t]>>
  <1>1. /\ pc[t] = "prep" /\ cur[t] \in Slots /\ flag[t][cur[t]] = "free"
        /\ AioTypeOK /\ WaitqType /\ EventInv(t)
    BY Zenon DEF AioInv, AioTypeOK, SlotInv, io_submit
  <1>2. /\ notify' = Set(notify, <<t, cur[t]>>, n) /\ res' = Set(res, <<t, cur[t]>>, "0")
        /\ flag' = Set(flag, <<t, cur[t]>>, "pending") /\ inIo' = inIo \cup {a}
        /\ own' = [own EXCEPT ![t] = cur[t]]
        /\ UNCHANGED <<waiters, active, sig, woken, ring, efd, hpc, count, ioe, ad, op, made>>
    BY DEF io_submit, wqVars, workerVars
  <1>3. n \in Queues \cup {NULL}
    BY AioAssumption, ZenonT(30)
  <1> HIDE DEF n
  <1>4. /\ notify' \in [Threads -> [Slots -> Queues \cup {NULL}]]
        /\ \A u \in Threads \ {t} : notify'[u] = notify[u]
    BY <1>1, <1>2, <1>3, SetNotify, Zenon
  <1>5. /\ flag' \in [Threads -> [Slots -> {"done", "free", "pending"}]]
        /\ flag'[t][cur[t]] = "pending"
        /\ \A u \in Threads \ {t} : flag'[u] = flag[u]
        /\ \A j \in Slots \ {cur[t]} : flag'[t][j] = flag[t][j]
    <2>1. "pending" \in {"done", "free", "pending"}
      BY Zenon
    <2> QED BY <1>1, <1>2, <2>1, SetFlag, Zenon
  <1>6. res' \in [Threads -> [Slots -> Results \cup {"0"}]]
    <2>1. "0" \in Results \cup {"0"}
      BY Zenon
    <2> QED BY <1>1, <1>2, <2>1, SetRes, Zenon
  <1>7. WaitqType' /\ \A q \in Queues, u \in Threads : OnQ(q, u)' <=> OnQ(q, u)
    BY <1>1, <1>2, Zenon DEF WaitqType, OnQ
  <1>8. /\ SlotInv(t)'
        /\ pc' \in [Threads -> AioPCs] /\ cur' \in [Threads -> Slots \cup {NULL}]
        /\ rv' \in [Threads -> {"0", "failed"}] /\ pc'[t] \in {"slot", "return"}
        /\ \A u \in Threads \ {t} : pc'[u] = pc[u] /\ cur'[u] = cur[u]
    <2>1. CASE op[t] \in {"write", "read"}
      <3>1. wait_from(t)
        BY <2>1, Zenon DEF io_submit
      <3>2. /\ SlotInv(t)'
            /\ pc' \in [Threads -> AioPCs] /\ cur' \in [Threads -> Slots \cup {NULL}]
            /\ rv' \in [Threads -> {"0", "failed"}] /\ pc'[t] = "slot"
            /\ \A u \in Threads \ {t} : pc'[u] = pc[u] /\ cur'[u] = cur[u]
        BY <3>1, WaitFrom, Zenon
      <3> QED BY <3>2, Zenon
    <2>2. CASE op[t] \notin {"write", "read"}
      <3>1. pc' = [pc EXCEPT ![t] = "return"] /\ rv' = [rv EXCEPT ![t] = "0"] /\ cur' = cur
        BY <2>2, Zenon DEF io_submit, Goto
      <3>2. /\ pc' \in [Threads -> AioPCs] /\ pc'[t] = "return"
            /\ \A u \in Threads \ {t} : pc'[u] = pc[u]
            /\ rv' \in [Threads -> {"0", "failed"}]
        BY <1>1, <3>1 DEF AioTypeOK, AioPCs
      <3>3. SlotInv(t)'
        BY <3>2 DEF SlotInv, SlotPCs
      <3> QED BY <1>1, <3>1, <3>2, <3>3, Zenon DEF AioTypeOK
    <2> QED BY <2>1, <2>2, Zenon
  <1>9. own' \in [Threads -> Slots \cup {NULL}] /\ inIo' \subseteq Threads \X Slots
    BY <1>1, <1>2 DEF AioTypeOK
  <1>10. AioTypeOK'
    BY <1>1, <1>2, <1>4, <1>5, <1>6, <1>7, <1>8, <1>9, ZenonT(30) DEF AioTypeOK
  <1>11. EventInv(t)'
    BY <1>1, <1>2, <1>7, <1>8 DEF EventInv, QueuePCs
  <1>12. ASSUME NEW u \in Threads, u # t PROVE SlotInv(u)' /\ EventInv(u)'
    <2>1. SlotInv(u) /\ EventInv(u)
      BY Zenon DEF AioInv
    <2>2. /\ pc'[u] = pc[u] /\ cur'[u] = cur[u] /\ flag'[u] = flag[u] /\ notify'[u] = notify[u]
          /\ woken' = woken /\ active' = active /\ hpc' = hpc /\ ad' = ad /\ sig' = sig
      BY <1>2, <1>4, <1>5, <1>8, <1>12, Zenon
    <2>3. SlotInv(u)'
      BY <2>1, <2>2, OtherSlots, Zenon
    <2>4. EventInv(u)'
      BY <1>7, <2>1, <2>2, OtherEvents, Zenon
    <2> QED BY <2>3, <2>4
  <1>13. ~Busy(a)
    BY <1>1, Zenon DEF AioInv, Exact
  <1>14. \A b : Busy(b)' <=> Busy(b) \/ b = a
    BY <1>2, Zenon DEF Busy, InRing, InIoe
  <1>15. Once' /\ HandlerInv'
    <2>1. Once /\ HandlerInv
      BY Zenon DEF AioInv
    <2>2. Once'
      BY <1>2, <1>13, <2>1, Zenon DEF Once, Busy, InRing, InIoe
    <2>3. HandlerInv'
      BY <1>2, <2>1, Zenon DEF HandlerInv
    <2> QED BY <2>2, <2>3
  <1>16. Exact'
    <2> SUFFICES ASSUME NEW u \in Threads, NEW i \in Slots
                 PROVE  Busy(<<u, i>>)' <=> flag'[u][i] = "pending"
      BY Zenon DEF Exact
    <2>1. Busy(<<u, i>>) <=> flag[u][i] = "pending"
      BY Zenon DEF AioInv, Exact
    <2>2. CASE u = t /\ i = cur[t]
      BY <1>5, <1>14, <2>2, Zenon
    <2>3. CASE ~(u = t /\ i = cur[t])
      <3>1. <<u, i>> # a
        BY <2>3
      <3>2. flag'[u][i] = flag[u][i]
        BY <1>5, <2>3, Zenon
      <3> QED BY <1>14, <2>1, <3>1, <3>2, Zenon
    <2> QED BY <2>2, <2>3
  <1> QED BY <1>8, <1>10, <1>11, <1>12, <1>15, <1>16, Zenon DEF AioInv

-----------------------------------------------------------------------------
(* The steps of the kernel and of the worker in handle_aio_event(). *)

\* A step that leaves the threads, their slots and the queues alone.
LEMMA WorkerAlone ==
    ASSUME AioInv, UNCHANGED <<wqVars, flag, notify, threadVars>>,
           AioTypeOK', Exact', Once', HandlerInv',
           \A t \in Threads : pc[t] = "scheduler" /\ flag[t][cur[t]] # "pending" =>
               t \in active \/ (hpc' = "notify" /\ ad' = <<t, cur[t]>>) \/ hpc' = t
    PROVE  AioInv'
  <1>1. UNCHANGED <<waiters, active, sig, woken, flag, notify, pc, cur>>
    BY DEF wqVars, threadVars, callVars
  <1>2. ASSUME NEW t \in Threads PROVE SlotInv(t)' /\ EventInv(t)'
    <2>1. SlotInv(t) /\ EventInv(t)
      BY Zenon DEF AioInv
    <2>2. SlotInv(t)'
      BY <1>1, <2>1, OtherSlots, Zenon
    <2>3. \A q \in Queues : OnQ(q, t)' <=> OnQ(q, t)
      BY <1>1, Zenon DEF OnQ
    <2>4. EventInv(t)'
      BY <1>1, <2>1, <2>3, AioAssumption, Zenon DEF EventInv
    <2> QED BY <2>2, <2>4
  <1> QED BY <1>2, Zenon DEF AioInv

\* A thread whose slot is done is active, or the worker is about to wake it.
LEMMA Noticed ==
    ASSUME AioInv, NEW t \in Threads, pc[t] = "scheduler", flag[t][cur[t]] # "pending"
    PROVE  t \in active \/ (hpc = "notify" /\ ad = <<t, cur[t]>>) \/ hpc = t
  BY Zenon DEF AioInv, EventInv

\* The kernel completes a request.
LEMMA CompletesStep ==
    ASSUME AioInv, NEW a \in Threads \X Slots, NEW r \in Results, completes(a, r)
    PROVE  AioInv'
  <1>1. /\ a \in inIo /\ inIo' = inIo \ {a} /\ ring' = Append(ring, <<a, r>>) /\ efd' = efd + 1
        /\ UNCHANGED <<wqVars, flag, notify, res, hpc, count, ioe, ad, threadVars>>
    BY DEF completes, workerVars
  <1>2. AioTypeOK /\ Exact /\ Once /\ HandlerInv
    BY Zenon DEF AioInv
  <1>3. ring \in Seq((Threads \X Slots) \X Results) /\ efd \in Nat /\ count \in Nat
    BY <1>2, Zenon DEF AioTypeOK
  <1>4. /\ ring' \in Seq((Threads \X Slots) \X Results) /\ Len(ring') = Len(ring) + 1
        /\ Len(ring) \in Nat /\ ring'[Len(ring) + 1][1] = a
        /\ \A i \in 1..Len(ring) : ring'[i] = ring[i]
    <2>1. <<a, r>> \in (Threads \X Slots) \X Results /\ <<a, r>>[1] = a
      OBVIOUS
    <2> DEFINE x == <<a, r>>
    <2> HIDE DEF x
    <2>2. /\ Append(ring, x) \in Seq((Threads \X Slots) \X Results) /\ Len(Append(ring, x)) = Len(ring) + 1
          /\ Len(ring) \in Nat /\ Append(ring, x)[Len(ring) + 1] = x
          /\ \A i \in 1..Len(ring) : Append(ring, x)[i] = ring[i]
      <3>1. x \in (Threads \X Slots) \X Results
        BY <2>1, Zenon DEF x
      <3> QED BY <1>3, <3>1, Appended
    <2> QED BY <1>1, <2>1, <2>2, Zenon DEF x
  <1>5. ~InRing(a) /\ ~InIoe(a)
    BY <1>1, <1>2, Zenon DEF Once
  <1>6. \A b : InRing(b)' <=> InRing(b) \/ b = a
    <2> SUFFICES ASSUME NEW b PROVE InRing(b)' <=> InRing(b) \/ b = a
      OBVIOUS
    <2>1. 1..Len(ring') = 1..Len(ring) \cup {Len(ring) + 1}
      BY <1>4
    <2> QED BY <1>4, <2>1, Zenon DEF InRing
  <1>7. \A b : InIoe(b)' <=> InIoe(b)
    BY <1>1, Zenon DEF InIoe
  <1>8. Exact'
    <2>1. \A b : Busy(b)' <=> Busy(b)
      BY <1>1, <1>6, <1>7, Zenon DEF Busy
    <2> QED BY <1>1, <1>2, <2>1, Zenon DEF Exact
  <1>9. Once'
    <2>1. \A b \in inIo' : ~InRing(b)' /\ ~InIoe(b)'
      BY <1>1, <1>2, <1>6, <1>7, Zenon DEF Once
    <2>2. ASSUME NEW j \in 1..Len(ring'), NEW k \in 1..Len(ring'), ring'[j][1] = ring'[k][1]
          PROVE  j = k
      <3>1. \A i \in 1..Len(ring) : ring'[i][1] # a
        BY <1>4, <1>5, Zenon DEF InRing
      <3>2. j \in 1..Len(ring) \/ j = Len(ring) + 1
        BY <1>4
      <3>3. k \in 1..Len(ring) \/ k = Len(ring) + 1
        BY <1>4
      <3>4. CASE j \in 1..Len(ring) /\ k \in 1..Len(ring)
        BY <1>2, <1>4, <2>2, <3>4, Zenon DEF Once
      <3> QED BY <1>4, <2>2, <3>1, <3>2, <3>3, <3>4, Zenon
    <2>3. ASSUME NEW j \in 1..Len(ring'), NEW k \in 1..Len(ioe') PROVE ring'[j][1] # ioe'[k][1]
      <3>1. InIoe(ioe'[k][1])
        BY <1>1, Zenon DEF InIoe
      <3>2. CASE j \in 1..Len(ring)
        <4>1. ring'[j] = ring[j] /\ ioe' = ioe
          BY <1>1, <1>4, <3>2, Zenon
        <4>2. ring[j][1] # ioe[k][1]
          BY <1>2, <3>2, <4>1, Zenon DEF Once
        <4> QED BY <4>1, <4>2, Zenon
      <3>3. CASE j = Len(ring) + 1
        BY <1>4, <1>5, <3>1, <3>3, Zenon
      <3> QED BY <1>4, <3>2, <3>3
    <2>4. \A j, k \in 1..Len(ioe') : ioe'[j][1] = ioe'[k][1] => j = k
      BY <1>1, <1>2, Zenon DEF Once
    <2> QED BY <2>1, <2>2, <2>3, <2>4, Zenon DEF Once
  <1>10. HandlerInv'
    BY <1>1, <1>2, <1>3, <1>4 DEF HandlerInv
  <1>11. AioTypeOK'
    <2>1. efd' \in Nat /\ inIo' \subseteq Threads \X Slots
      BY <1>1, <1>2, <1>3 DEF AioTypeOK
    <2>2. WaitqType' /\ UNCHANGED <<pc, op, cur, own, rv, made>>
      BY <1>1, <1>2 DEF AioTypeOK, WaitqType, wqVars, threadVars, callVars
    <2> QED BY <1>1, <1>2, <1>4, <2>1, <2>2, Zenon DEF AioTypeOK
  <1> QED BY <1>1, <1>8, <1>9, <1>10, <1>11, Noticed, WorkerAlone, ZenonT(30)

\* The worker is told of completions, has handled a batch, or leaves.
LEMMA HandlerStep ==
    ASSUME AioInv, epoll_wait \/ batch_done \/ arm_aio_efd
    PROVE  AioInv'
  <1>1. /\ hpc \in {"armed", "done", "get"} /\ hpc' \in {"armed", "done", "get"}
        /\ UNCHANGED <<wqVars, flag, notify, res, inIo, ring, ioe, ad, threadVars>>
    BY DEF epoll_wait, batch_done, arm_aio_efd, kernelVars
  <1>2. AioTypeOK /\ Exact /\ Once /\ HandlerInv /\ efd \in Nat /\ count \in Nat
    BY Zenon DEF AioInv, AioTypeOK
  <1>3. efd' \in Nat /\ count' \in Nat /\ efd' + count' = efd + count
    BY <1>2 DEF epoll_wait, batch_done, arm_aio_efd, kernelVars, HandlerInv
  <1>4. HandlerInv'
    BY <1>1, <1>2, <1>3, Zenon DEF HandlerInv, epoll_wait, batch_done, arm_aio_efd
  <1>5. Exact' /\ Once'
    <2>1. Once' /\ \A a : Busy(a)' <=> Busy(a)
      BY <1>1, <1>2, SameRequests, Zenon
    <2> QED BY <1>1, <1>2, <2>1, Zenon DEF Exact
  <1>6. AioTypeOK'
    <2>1. WaitqType' /\ UNCHANGED <<pc, op, cur, own, rv, made>>
      BY <1>1, <1>2 DEF AioTypeOK, WaitqType, wqVars, threadVars, callVars
    <2> QED BY <1>1, <1>2, <1>3, <2>1, ZenonT(30) DEF AioTypeOK
  <1>7. \A t \in Threads : pc[t] = "scheduler" /\ flag[t][cur[t]] # "pending" => t \in active
    <2>1. \A t \in Threads : hpc # "notify" /\ hpc # t
      BY <1>1, AioAssumption
    <2> QED BY <2>1, Noticed, Zenon
  <1> QED BY <1>1, <1>4, <1>5, <1>6, <1>7, WorkerAlone

\* The worker takes the oldest completions out of the ring.
LEMMA GetEventsStep ==
    ASSUME AioInv, io_getevents
    PROVE  AioInv'
  <1> DEFINE n == Min({AtOnce, Len(ring)})
             m == Min({AtOnce, count})
             C == (Threads \X Slots) \X Results
  <1>1. /\ hpc = "get" /\ ioe' = SubSeq(ring, 1, n) /\ ring' = SubSeq(ring, n + 1, Len(ring))
        /\ count' = count - m /\ hpc' = "done"
        /\ UNCHANGED <<wqVars, flag, notify, res, inIo, efd, ad, threadVars>>
    BY Zenon DEF io_getevents, e2read
  <1>2. /\ AioTypeOK /\ Exact /\ Once /\ HandlerInv /\ efd \in Nat /\ count \in Nat
        /\ ring \in Seq(C) /\ AtOnce \in Nat
    BY AioAssumption, Zenon DEF AioInv, AioTypeOK
  <1>3. Len(ring) \in Nat /\ ioe = <<>> /\ Len(ring) <= efd + count
    BY <1>1, <1>2 DEF HandlerInv
  <1>4. /\ n \in Nat /\ n <= Len(ring) /\ n <= AtOnce /\ (n = AtOnce \/ n = Len(ring))
        /\ m \in Nat /\ m <= count /\ m <= AtOnce
    BY <1>2, <1>3, MinOfTwo, Zenon
  <1> HIDE DEF n, m, C
  <1>5. /\ ioe' \in Seq(C) /\ Len(ioe') = n /\ \A i \in 1..n : ioe'[i] = ring[i]
    BY <1>1, <1>2, <1>3, <1>4
  <1>6. /\ ring' \in Seq(C) /\ Len(ring') = Len(ring) - n
        /\ \A i \in 1..(Len(ring) - n) : ring'[i] = ring[n + i]
    BY <1>1, <1>2, <1>3, <1>4
  <1>7. count' \in Nat /\ Len(ring') <= efd + count'
    BY <1>1, <1>2, <1>3, <1>4, <1>6
  <1>8. \A i \in 1..n : i \in 1..Len(ring)
    BY <1>3, <1>4
  <1>9. \A i \in 1..(Len(ring) - n) : n + i \in 1..Len(ring) /\ n + i \notin 1..n
    BY <1>3, <1>4
  <1>10. \A i \in 1..Len(ring) : i \notin 1..n => \E j \in 1..(Len(ring) - n) : i = n + j
    <2> SUFFICES ASSUME NEW i \in 1..Len(ring), i \notin 1..n
                 PROVE  \E j \in 1..(Len(ring) - n) : i = n + j
      OBVIOUS
    <2>1. i - n \in 1..(Len(ring) - n) /\ i = n + (i - n)
      BY <1>3, <1>4
    <2> QED BY <2>1, Zenon
  <1>11. \A b : InRing(b) <=> InRing(b)' \/ InIoe(b)'
    <2> SUFFICES ASSUME NEW b PROVE InRing(b) <=> InRing(b)' \/ InIoe(b)'
      OBVIOUS
    <2>1. ASSUME NEW i \in 1..Len(ring), ring[i][1] = b PROVE InRing(b)' \/ InIoe(b)'
      <3>1. CASE i \in 1..n
        BY <1>5, <2>1, <3>1, Zenon DEF InIoe
      <3>2. CASE i \notin 1..n
        <4>1. PICK j \in 1..(Len(ring) - n) : i = n + j
          BY <1>10, <3>2, Zenon
        <4>2. j \in 1..Len(ring') /\ ring'[j][1] = b
          BY <1>6, <2>1, <4>1, Zenon
        <4> QED BY <4>2, Zenon DEF InRing
      <3> QED BY <3>1, <3>2
    <2>2. InRing(b)' => InRing(b)
      BY <1>6, <1>9, Zenon DEF InRing
    <2>3. InIoe(b)' => InRing(b)
      BY <1>5, <1>8, Zenon DEF InRing, InIoe
    <2> QED BY <2>1, <2>2, <2>3, Zenon DEF InRing
  <1>12. \A b : ~InIoe(b)
    BY <1>3 DEF InIoe
  <1>13. Exact'
    <2>1. \A b : Busy(b)' <=> Busy(b)
      BY <1>1, <1>11, <1>12, Zenon DEF Busy
    <2> QED BY <1>1, <1>2, <2>1, Zenon DEF Exact
  <1>14. Once'
    <2>1. \A b \in inIo' : ~InRing(b)' /\ ~InIoe(b)'
      BY <1>1, <1>2, <1>11, Zenon DEF Once
    <2>2. \A j, k \in 1..Len(ring) : ring[j][1] = ring[k][1] => j = k
      BY <1>2, Zenon DEF Once
    <2>3. ASSUME NEW j \in 1..Len(ring'), NEW k \in 1..Len(ring'), ring'[j][1] = ring'[k][1]
          PROVE  j = k
      <3>1. n + j \in 1..Len(ring) /\ n + k \in 1..Len(ring) /\ ring[n + j][1] = ring[n + k][1]
        BY <1>6, <1>9, <2>3, Zenon
      <3>2. n + j = n + k
        BY <2>2, <3>1, Zenon
      <3> QED BY <1>3, <1>4, <1>6, <3>2
    <2>4. \A j, k \in 1..Len(ioe') : ioe'[j][1] = ioe'[k][1] => j = k
      BY <1>5, <1>8, <2>2, Zenon
    <2>5. ASSUME NEW j \in 1..Len(ring'), NEW k \in 1..Len(ioe'), ring'[j][1] = ioe'[k][1]
          PROVE  FALSE
      <3>1. n + j \in 1..Len(ring) /\ n + j \notin 1..n /\ ring[n + j][1] = ring[k][1]
        BY <1>5, <1>6, <1>9, <2>5, Zenon
      <3>2. k \in 1..n /\ k \in 1..Len(ring)
        BY <1>5, <1>8, Zenon
      <3> QED BY <2>2, <3>1, <3>2, Zenon
    <2> QED BY <2>1, <2>3, <2>4, <2>5, Zenon DEF Once
  <1>15. HandlerInv'
    BY <1>1, <1>7, Zenon DEF HandlerInv
  <1>16. AioTypeOK'
    <2>1. WaitqType' /\ UNCHANGED <<pc, op, cur, own, rv, made>>
      BY <1>1, <1>2 DEF AioTypeOK, WaitqType, wqVars, threadVars, callVars
    <2> QED BY <1>1, <1>2, <1>5, <1>6, <1>7, <2>1, ZenonT(30) DEF AioTypeOK, C
  <1>17. \A t \in Threads : pc[t] = "scheduler" /\ flag[t][cur[t]] # "pending" => t \in active
    <2>1. \A t \in Threads : hpc # "notify" /\ hpc # t
      BY <1>1, AioAssumption
    <2> QED BY <2>1, Noticed, Zenon
  <1> QED BY <1>1, <1>13, <1>14, <1>15, <1>16, <1>17, WorkerAlone

\* set_aio_data_done(): the last completion of the batch has its slot marked done; whoever
\* waits for this slot is still to be woken.
LEMMA DoneStep ==
    ASSUME AioInv, set_data_done
    PROVE  AioInv'
  <1> DEFINE n == Len(ioe)
             C == (Threads \X Slots) \X Results
  <1>1. AioTypeOK /\ WaitqType /\ Exact /\ Once /\ HandlerInv /\ ioe \in Seq(C)
    BY Zenon DEF AioInv, AioTypeOK
  <1>2. hpc = "done" /\ ioe # <<>>
    BY Zenon DEF set_data_done
  <1>3. n \in Nat /\ n > 0 /\ n \in 1..n /\ ioe[n] \in C
    BY <1>1, <1>2
  <1> HIDE DEF n, C
  <1>4. PICK t \in Threads, i \in Slots, r \in Results : ioe[n] = <<<<t, i>>, r>>
    BY <1>3 DEF C
  <1>5. ioe[n][1] = <<t, i>> /\ ioe[n][2] = r /\ <<t, i>>[1] = t /\ <<t, i>>[2] = i
    BY <1>4
  <1>6. n = Len(ioe)
    BY DEF n
  <1>7. /\ ad' = <<t, i>> /\ res' = Set(res, <<t, i>>, r) /\ flag' = Set(flag, <<t, i>>, "done")
        /\ ioe' = SubSeq(ioe, 1, n - 1) /\ hpc' = "notify"
        /\ UNCHANGED <<waiters, active, sig, woken, notify, inIo, ring, efd, count>>
        /\ UNCHANGED <<pc, op, cur, own, rv, made>>
    BY <1>5, <1>6 DEF set_data_done, wqVars, kernelVars, threadVars, callVars
  <1>8. ioe' \in Seq(C) /\ Len(ioe') = n - 1 /\ \A j \in 1..(n - 1) : ioe'[j] = ioe[j]
    <2>1. n - 1 \in Nat /\ n - 1 <= Len(ioe) /\ \A j \in 1..(n - 1) : j \in 1..Len(ioe)
      BY <1>3, <1>6
    <2>2. /\ SubSeq(ioe, 1, n - 1) \in Seq(C) /\ Len(SubSeq(ioe, 1, n - 1)) = n - 1
          /\ \A j \in 1..(n - 1) : SubSeq(ioe, 1, n - 1)[j] = ioe[j]
      BY <1>1, <2>1
    <2> QED BY <1>7, <2>2, Zenon
  <1>9. /\ flag' \in [Threads -> [Slots -> {"done", "free", "pending"}]]
        /\ flag'[t][i] = "done"
        /\ \A u \in Threads \ {t} : flag'[u] = flag[u]
        /\ \A j \in Slots \ {i} : flag'[t][j] = flag[t][j]
    <2>1. "done" \in {"done", "free", "pending"}
      BY Zenon
    <2> QED BY <1>1, <1>7, <2>1, SetFlag, Zenon
  <1>10. res' \in [Threads -> [Slots -> Results \cup {"0"}]]
    <2>1. r \in Results \cup {"0"}
      BY Zenon
    <2> QED BY <1>1, <1>7, <2>1, SetRes, Zenon
  <1>11. WaitqType' /\ \A q \in Queues, u \in Threads : OnQ(q, u)' <=> OnQ(q, u)
    BY <1>1, <1>7 DEF WaitqType, OnQ
  <1>12. AioTypeOK'
    <2>1. ad' \in (Threads \X Slots) \cup {NULL}
      BY <1>7
    <2>2. hpc' \in {"armed", "get", "done", "notify"} \cup Queues
      BY <1>7, Zenon
    <2> QED BY <1>1, <1>7, <1>8, <1>9, <1>10, <1>11, <2>1, <2>2, ZenonT(30) DEF AioTypeOK, C
  <1>13. \A j \in 1..(n - 1) : j \in 1..n /\ j # n
    BY <1>3
  <1>14. \A j \in 1..n : j = n \/ j \in 1..(n - 1)
    BY <1>3
  <1>15. /\ \A j, k \in 1..n : ioe[j][1] = ioe[k][1] => j = k
         /\ \A j \in 1..Len(ring), k \in 1..n : ring[j][1] # ioe[k][1]
         /\ \A b \in inIo : ~InRing(b) /\ ~InIoe(b)
    BY <1>1, Zenon DEF Once, n
  <1>16. \A b : InIoe(b) <=> InIoe(b)' \/ b = <<t, i>>
    <2> SUFFICES ASSUME NEW b PROVE InIoe(b) <=> InIoe(b)' \/ b = <<t, i>>
      OBVIOUS
    <2>1. InIoe(b) <=> \E j \in 1..n : ioe[j][1] = b
      BY Zenon DEF InIoe, n
    <2>2. InIoe(b)' <=> \E j \in 1..(n - 1) : ioe[j][1] = b
      BY <1>8, Zenon DEF InIoe
    <2> QED BY <1>3, <1>5, <1>13, <1>14, <2>1, <2>2, Zenon
  <1>17. ~InIoe(<<t, i>>)'
    <2>1. InIoe(<<t, i>>)' => \E j \in 1..(n - 1) : ioe[j][1] = ioe[n][1]
      BY <1>5, <1>8, Zenon DEF InIoe
    <2> QED BY <1>3, <1>13, <1>15, <2>1, Zenon
  <1>18. ~InRing(<<t, i>>) /\ <<t, i>> \notin inIo
    <2>1. ~InRing(<<t, i>>)
      BY <1>3, <1>5, <1>15, Zenon DEF InRing
    <2>2. InIoe(<<t, i>>)
      BY <1>16, Zenon
    <2> QED BY <1>15, <2>1, <2>2, Zenon
  <1>19. \A b : InRing(b)' <=> InRing(b)
    BY <1>7, Zenon DEF InRing
  <1>20. \A b : Busy(b)' <=> Busy(b) /\ b # <<t, i>>
    BY <1>7, <1>16, <1>17, <1>18, <1>19, Zenon DEF Busy
  <1>21. Exact'
    <2> SUFFICES ASSUME NEW u \in Threads, NEW j \in Slots
                 PROVE  Busy(<<u, j>>)' <=> flag'[u][j] = "pending"
      BY Zenon DEF Exact
    <2>1. Busy(<<u, j>>) <=> flag[u][j] = "pending"
      BY <1>1, Zenon DEF Exact
    <2>2. CASE u = t /\ j = i
      BY <1>9, <1>20, <2>2
    <2>3. CASE ~(u = t /\ j = i)
      <3>1. <<u, j>> # <<t, i>>
        BY <2>3
      <3>2. flag'[u][j] = flag[u][j]
        BY <1>9, <2>3, Zenon
      <3> QED BY <1>20, <2>1, <3>1, <3>2, Zenon
    <2> QED BY <2>2, <2>3
  <1>22. Once'
    <2>1. \A b \in inIo' : ~InRing(b)' /\ ~InIoe(b)'
      BY <1>7, <1>15, <1>16, <1>19, Zenon
    <2>2. \A j, k \in 1..Len(ioe') : ioe'[j][1] = ioe'[k][1] => j = k
      BY <1>8, <1>13, <1>15, Zenon
    <2>3. ASSUME NEW j \in 1..Len(ring'), NEW k \in 1..Len(ioe') PROVE ring'[j][1] # ioe'[k][1]
      <3>1. k \in 1..(n - 1) /\ k \in 1..n /\ ioe'[k] = ioe[k]
        BY <1>8, <1>13, Zenon
      <3>2. j \in 1..Len(ring) /\ ring' = ring
        BY <1>7, Zenon
      <3> QED BY <1>15, <3>1, <3>2, Zenon
    <2>4. \A j, k \in 1..Len(ring') : ring'[j][1] = ring'[k][1] => j = k
      BY <1>1, <1>7, Zenon DEF Once
    <2> QED BY <2>1, <2>2, <2>3, <2>4, Zenon DEF Once
  <1>23. HandlerInv'
    <2>1. ad' \in Threads \X Slots
      BY <1>7
    <2> QED BY <1>1, <1>7, <2>1, Zenon DEF HandlerInv
  <1>24. ASSUME NEW u \in Threads PROVE SlotInv(u)' /\ EventInv(u)'
    <2>1. SlotInv(u) /\ EventInv(u)
      BY Zenon DEF AioInv
    <2>2. \A j \in Slots : flag[u][j] # "pending" => flag'[u][j] # "pending"
      BY <1>9, Zenon
    <2>3. \A j \in Slots : flag[u][j] = "free" => flag'[u][j] = "free"
      <3>1. flag[t][i] = "pending"
        BY <1>1, <1>16, Zenon DEF Exact, Busy
      <3> QED BY <1>9, <3>1
    <2>4. SlotInv(u)'
      BY <1>7, <2>1, <2>2, <2>3, ZenonT(30) DEF SlotInv, SlotPCs
    <2>5. ASSUME pc[u] = "scheduler", flag'[u][cur[u]] # "pending"
          PROVE  u \in active \/ ad' = <<u, cur[u]>>
      <3>1. cur[u] \in Slots /\ hpc # "notify" /\ hpc # u
        <4>1. hpc # "notify" /\ hpc # u
          BY <1>2, AioAssumption
        <4> QED BY <2>1, <2>5, <4>1, Zenon DEF SlotInv, SlotPCs
      <3>2. CASE flag[u][cur[u]] # "pending"
        BY <2>5, <3>1, <3>2, Noticed, Zenon
      <3>3. CASE flag[u][cur[u]] = "pending"
        <4>1. u = t /\ cur[u] = i
          BY <1>9, <2>5, <3>1, <3>3, Zenon
        <4> QED BY <1>7, <4>1
      <3> QED BY <3>2, <3>3
    <2>6. EventInv(u)'
      BY <1>7, <1>11, <2>1, <2>5, AioAssumption, Zenon DEF EventInv
    <2> QED BY <2>4, <2>6
  <1> QED BY <1>12, <1>21, <1>22, <1>23, <1>24, Zenon DEF AioInv

\* The worker reads whom to wake: a thread that waits for this slot is in ad->notify.
LEMMA ReadNotifyStep ==
    ASSUME AioInv, read_notify
    PROVE  AioInv'
  <1>1. AioTypeOK /\ Exact /\ Once /\ HandlerInv /\ hpc = "notify" /\ ad \in Threads \X Slots
    BY Zenon DEF AioInv, HandlerInv, read_notify
  <1>2. PICK t \in Threads, i \in Slots : ad = <<t, i>>
    BY <1>1
  <1>3. ad[1] = t /\ ad[2] = i
    BY <1>2
  <1>4. /\ hpc' = IF notify[t][i] = NULL THEN "done" ELSE notify[t][i]
        /\ ad' = NULL /\ UNCHANGED <<wqVars, flag, notify, res, inIo, ring, efd, count, ioe>>
        /\ UNCHANGED threadVars
    BY <1>3 DEF read_notify, kernelVars
  <1>5. hpc' \in {"done"} \cup Queues
    BY <1>1, <1>4 DEF AioTypeOK
  <1>6. AioTypeOK'
    <2>1. WaitqType' /\ UNCHANGED <<pc, op, cur, own, rv, made>>
      BY <1>1, <1>4, Zenon DEF AioTypeOK, WaitqType, wqVars, threadVars, callVars
    <2> QED BY <1>1, <1>4, <1>5, <2>1, Zenon DEF AioTypeOK
  <1>7. Exact' /\ Once'
    <2>1. flag' = flag /\ inIo' = inIo /\ ring' = ring /\ ioe' = ioe
      BY <1>4, Zenon
    <2>2. Exact'
      BY <1>1, <2>1, Zenon DEF Exact, Busy, InRing, InIoe
    <2>3. Once'
      BY <1>1, <2>1, Zenon DEF Once, InRing, InIoe
    <2> QED BY <2>2, <2>3
  <1>8. HandlerInv'
    <2>1. hpc' \notin {"armed", "get", "notify"}
      BY <1>5, AioAssumption
    <2> QED BY <1>1, <1>4, <2>1, Zenon DEF HandlerInv
  <1>9. ASSUME NEW u \in Threads, pc[u] = "scheduler", flag[u][cur[u]] # "pending"
        PROVE  u \in active \/ hpc' = u
    <2>1. u \in active \/ ad = <<u, cur[u]>>
      <3>1. hpc # u
        BY <1>1, AioAssumption
      <3> QED BY <1>9, <3>1, Noticed, Zenon
    <2>2. notify[u][cur[u]] = u
      BY <1>9 DEF AioInv, SlotInv, SlotPCs
    <2>3. CASE ad = <<u, cur[u]>>
      <3>1. t = u /\ i = cur[u]
        BY <1>2, <2>3
      <3>2. u # NULL
        BY AioAssumption
      <3> QED BY <1>4, <2>2, <3>1, <3>2
    <2> QED BY <2>1, <2>3
  <1>10. UNCHANGED <<wqVars, flag, notify, threadVars>>
    BY <1>4
  <1> QED BY <1>6, <1>7, <1>8, <1>9, <1>10, WorkerAlone, Zenon

\* Then it wakes the queue: a thread that waits there gets active.
LEMMA WakeStep ==
    ASSUME AioInv, wakeup_notified
    PROVE  AioInv'
  <1>1. /\ AioTypeOK /\ WaitqType /\ Exact /\ Once /\ HandlerInv
        /\ hpc \in Queues /\ tc_waitq_wakeup_all({hpc})
    BY Zenon DEF AioInv, AioTypeOK, wakeup_notified
  <1>2. /\ hpc' = "done" /\ UNCHANGED <<flag, notify, res, inIo, ring, efd, count, ioe, ad>>
        /\ UNCHANGED <<pc, op, cur, own, rv, made>>
    BY DEF wakeup_notified, kernelVars, threadVars, callVars
  <1>3. /\ WaitqType' /\ woken' = woken /\ sig' = sig
        /\ \A u \in Threads : u \in active' <=> u \in active \/ OnQ(hpc, u)
        /\ \A r \in Queues, u \in Threads : OnQ(r, u)' <=> OnQ(r, u) /\ r # hpc
    <2>1. {hpc} \subseteq Queues
      BY <1>1, Zenon
    <2>2. /\ WaitqType' /\ woken' = woken /\ sig' = sig
          /\ \A u \in Threads : u \in active' <=> u \in active \/ \E q \in {hpc} : OnQ(q, u)
          /\ \A r \in Queues, u \in Threads : OnQ(r, u)' <=> OnQ(r, u) /\ r \notin {hpc}
      BY <1>1, <2>1, WakeupAll, Zenon
    <2> QED BY <2>2, Zenon
  <1>4. AioTypeOK'
    BY <1>1, <1>2, <1>3, Zenon DEF AioTypeOK
  <1>5. Exact' /\ Once'
    <2>1. Once' /\ \A a : Busy(a)' <=> Busy(a)
      BY <1>1, <1>2, SameRequests, Zenon
    <2> QED BY <1>1, <1>2, <2>1, Zenon DEF Exact
  <1>6. HandlerInv'
    BY <1>1, <1>2, Zenon DEF HandlerInv
  <1>7. ASSUME NEW u \in Threads PROVE SlotInv(u)' /\ EventInv(u)'
    <2>1. SlotInv(u) /\ EventInv(u) /\ u \in Queues
      BY AioAssumption, Zenon DEF AioInv
    <2>2. SlotInv(u)'
      BY <1>2, <2>1, OtherSlots, Zenon
    <2>3. ASSUME pc[u] = "scheduler", flag[u][cur[u]] # "pending" PROVE u \in active'
      <3>1. OnQ(u, u) \/ u \in active
        BY <2>1, <2>3, Zenon DEF EventInv
      <3>2. u \in active \/ hpc = u
        <4>1. hpc # "notify"
          BY <1>1, AioAssumption
        <4> QED BY <2>3, <4>1, Noticed, Zenon
      <3> QED BY <1>3, <3>1, <3>2, Zenon
    <2>4. pc[u] \in {"cond", "scheduler"} => OnQ(u, u)' \/ u \in active'
      <3>1. pc[u] \in {"cond", "scheduler"} => OnQ(u, u) \/ u \in active
        BY <2>1, Zenon DEF EventInv
      <3> QED BY <1>3, <2>1, <3>1, Zenon
    <2>5. u \in active' => pc[u] \in QueuePCs
      BY <1>1, <1>3, <2>1, Zenon DEF EventInv
    <2>6. \A q \in Queues : OnQ(q, u)' => q = u /\ pc[u] \in QueuePCs
      BY <1>3, <2>1, Zenon DEF EventInv
    <2>7. EventInv(u)'
      BY <1>2, <1>3, <2>1, <2>3, <2>4, <2>5, <2>6, Zenon DEF EventInv
    <2> QED BY <2>2, <2>7
  <1> QED BY <1>4, <1>5, <1>6, <1>7, Zenon DEF AioInv

-----------------------------------------------------------------------------
(* The theorems. *)

\* Every step keeps the invariant.
LEMMA AioStep == AioInv /\ [AioNext]_aioVars => AioInv'
  <1> SUFFICES ASSUME AioInv, [AioNext]_aioVars PROVE AioInv'
    OBVIOUS
  <1>1. CASE handle_aio_event
    BY <1>1, HandlerStep, GetEventsStep, DoneStep, ReadNotifyStep, WakeStep, Zenon
       DEF handle_aio_event
  <1>2. ASSUME NEW t \in Threads, inside(t) PROVE AioInv'
    BY <1>2, SetNotifyStep, TestStep, PrepareStep, SchedulerStep, FinishStep, CollectStep,
       GetStep, SubmitStep, SubmitFailsStep, ReturnStep, Zenon DEF inside
  <1>3. ASSUME NEW t \in Threads, NEW o \in Ops, call(t, o) PROVE AioInv'
    BY <1>3, CallStep, Zenon
  <1>4. ASSUME NEW a \in Threads \X Slots, NEW r \in Results, completes(a, r) PROVE AioInv'
    BY <1>4, CompletesStep, Zenon
  <1>5. CASE UNCHANGED aioVars
    <2>1. /\ UNCHANGED <<waiters, active, sig, woken, flag, notify, res, inIo, ring, efd>>
          /\ UNCHANGED <<hpc, count, ioe, ad, pc, op, cur, own, rv, made>>
      BY <1>5 DEF aioVars, wqVars, kernelVars, workerVars, threadVars, callVars
    <2>2. AioTypeOK' /\ Exact' /\ Once' /\ HandlerInv'
      <3>1. AioTypeOK'
        BY <2>1, Zenon DEF AioInv, AioTypeOK, WaitqType
      <3>2. Exact /\ Once /\ HandlerInv
        BY Zenon DEF AioInv
      <3>3. Exact'
        BY <2>1, <3>2, Zenon DEF Exact, Busy, InRing, InIoe
      <3>4. Once'
        BY <2>1, <3>2, Zenon DEF Once, InRing, InIoe
      <3>5. HandlerInv'
        BY <2>1, <3>2, Zenon DEF HandlerInv
      <3> QED BY <3>1, <3>3, <3>4, <3>5
    <2>3. UNCHANGED <<wqVars, flag, notify, threadVars>>
      BY <2>1 DEF wqVars, threadVars, callVars
    <2> QED BY <2>1, <2>2, <2>3, Noticed, WorkerAlone, Zenon
  <1> QED BY <1>1, <1>2, <1>3, <1>4, <1>5, Zenon DEF AioNext

\* The invariant is inductive: every step of a thread, of the kernel and of the worker in
\* handle_aio_event() keeps it.
THEOREM AioInductive == AioSpec => []AioInv
  BY AioStart, AioStep, PTL DEF AioSpec

\* Between io_submit() and set_aio_data_done() no other request gets the slot, and every
\* completion is handled once.
THEOREM SlotCorrect == AioSpec => []SlotExclusive
  <1>1. ASSUME AioInv PROVE SlotExclusive
    <2>1. AioTypeOK /\ Exact /\ Once
      BY <1>1, Zenon DEF AioInv
    <2> DEFINE C == (Threads \X Slots) \X Results
               s == ring \o ioe
    <2>2. ring \in Seq(C) /\ ioe \in Seq(C)
      BY <2>1, Zenon DEF AioTypeOK
    <2> HIDE DEF C
    <2>3. /\ Len(ring) \in Nat /\ Len(ioe) \in Nat
          /\ DOMAIN ring = 1..Len(ring) /\ DOMAIN ioe = 1..Len(ioe)
          /\ DOMAIN s = 1..(Len(ring) + Len(ioe))
          /\ \A j \in 1..(Len(ring) + Len(ioe)) :
                s[j] = IF j <= Len(ring) THEN ring[j] ELSE ioe[j - Len(ring)]
      BY <2>2
    <2>4. \A t \in Threads, i \in Slots : Outstanding(<<t, i>>) <=> flag[t][i] = "pending"
      BY <2>1, <2>3, Zenon DEF Exact, Busy, InRing, InIoe, Outstanding
    <2> HIDE DEF s
    <2>5. ASSUME NEW j \in DOMAIN s, NEW k \in DOMAIN s, s[j][1] = s[k][1] PROVE j = k
      <3> DEFINE n == Len(ring)
      <3>1. j \in 1..(n + Len(ioe)) /\ k \in 1..(n + Len(ioe)) /\ n \in Nat /\ Len(ioe) \in Nat
        BY <2>3, Zenon
      <3> HIDE DEF n
      <3>2. ASSUME NEW x \in 1..(n + Len(ioe))
            PROVE  \/ x \in 1..n /\ s[x] = ring[x]
                   \/ x - n \in 1..Len(ioe) /\ s[x] = ioe[x - n]
        <4>1. n = Len(ring)
          BY DEF n
        <4> DEFINE m == Len(ioe)
        <4>2. x \in 1..n \/ (x - n \in 1..Len(ioe) /\ ~(x <= n))
          <5>1. m \in Nat /\ n \in Nat /\ x \in 1..(n + m)
            BY <3>1
          <5> HIDE DEF m
          <5>2. x \in 1..n \/ (x - n \in 1..m /\ ~(x <= n))
            BY <5>1
          <5> QED BY <5>2 DEF m
        <4>3. x \in 1..n => x <= n
          BY <3>1
        <4> QED BY <2>3, <4>1, <4>2, <4>3, Zenon
      <3>3. CASE j \in 1..n /\ s[j] = ring[j] /\ k \in 1..n /\ s[k] = ring[k]
        BY <2>1, <2>5, <3>3, Zenon DEF Once, n
      <3>4. CASE /\ j - n \in 1..Len(ioe) /\ s[j] = ioe[j - n]
                 /\ k - n \in 1..Len(ioe) /\ s[k] = ioe[k - n]
        <4>1. j - n = k - n
          BY <2>1, <2>5, <3>4, Zenon DEF Once
        <4> QED BY <3>1, <4>1
      <3>5. \A x \in 1..n, y \in 1..Len(ioe) : ring[x][1] # ioe[y][1]
        BY <2>1, Zenon DEF Once, n
      <3> QED BY <2>5, <3>1, <3>2, <3>3, <3>4, <3>5, Zenon
    <2> QED BY <2>1, <2>4, <2>5, Zenon DEF SlotExclusive, s
  <1> QED BY <1>1, AioInductive, PTL

\* When tc_aio_wait() returns 0, only requests with a notify queue of the caller are
\* outstanding.
THEOREM WaitedCorrect == AioSpec => []AioWaited
  <1>1. ASSUME AioInv, SlotExclusive PROVE AioWaited
    BY <1>1, Zenon DEF AioInv, SlotInv, SlotExclusive, AioWaited
  <1> QED BY <1>1, AioInductive, SlotCorrect, PTL

\* The wakeup after a completion is not lost, although the thread writes ad->notify and
\* the worker reads it with no lock held.
THEOREM NoticedCorrect == AioSpec => []CompletionNoticed
  <1>1. ASSUME AioInv PROVE CompletionNoticed
    BY <1>1, Zenon DEF AioInv, EventInv, CompletionNoticed
  <1> QED BY <1>1, AioInductive, PTL

\* The eventfd never counts fewer completions than wait in the ring, whatever
\* AIOs_AT_ONCE is.
THEOREM CountedCorrect == AioSpec => []CompletionsCounted
  <1>1. ASSUME AioInv PROVE CompletionsCounted
    BY <1>1, Zenon DEF AioInv, HandlerInv, CompletionsCounted
  <1> QED BY <1>1, AioInductive, PTL
=============================================================================
