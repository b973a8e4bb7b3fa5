----------------------------- MODULE LockProofs -----------------------------
(***************************************************************************)
(* tc_mutex and tc_rw_lock, for any number of threads: the invariants that *)
(* the runs check, and that they implement Lock and ReadersWriters.        *)
(***************************************************************************)
EXTENDS TcRwLock, WaitqFacts, FiniteSetTheorems

-----------------------------------------------------------------------------
(* The mutex.  H: where a thread holds it; P: the values of pc. *)

\* The lock that the threads see which hold the mutex in H.
AsLock(H) == INSTANCE Lock WITH
    owner   <- m_owner,
    asking  <- {t \in Threads : pc[t] \in WaitPCs},
    holding <- {t \in Threads : pc[t] \in H}

QPCs  == {"cond", "scheduler", "finish", "finish_true"}
WQPCs == {"w_cond", "w_scheduler", "w_finish", "w_finish_true"}

\* What the mutex knows of the thread t, and t of the mutex.
MThread(H, t) ==
    /\ pc[t] \in H \cup {"finish_true"} => m_owner = t
    /\ m_owner = t =>
          \/ pc[t] \in H \cup {"finish_true", "prepare", "cond"}
          \/ pc[t] = "scheduler" /\ t \in active
          \/ pc[t] = "finish" /\ (t \in active \/ woken[t] = "event")
    /\ \A q \in Queues : OnQ(q, t) =>
          (q = "wq" /\ pc[t] \in QPCs) \/ (q = "wr_wq" /\ pc[t] \in WQPCs)
    /\ t \in active => m_owner = t /\ pc[t] \in QPCs \cup WQPCs
    /\ pc[t] \in {"cond", "scheduler"} => OnQ("wq", t) \/ t \in active
    /\ pc[t] = "finish" => woken[t] = "signal" \/ (woken[t] = "event" /\ m_owner = t)
    /\ m_owner = NULL => pc[t] # "scheduler"

MInv(H, P) ==
    /\ WaitqType
    /\ m_owner \in Threads \cup {NULL}
    /\ pc \in [Threads -> P]
    /\ \A t \in Threads : MThread(H, t)

Kinds(H, P) ==
    /\ "locked" \in H /\ H \cap (WaitPCs \cup {"idle"}) = {} /\ MutexPCs \subseteq P
    /\ H \subseteq P

\* A thread that the step does not move keeps its knowledge if the mutex is not
\* passed to it, and its event stays where it is.
LEMMA OtherThread ==
    ASSUME NEW H, NEW t \in Threads, MThread(H, t), pc'[t] = pc[t], woken'[t] = woken[t],
           t \in active' <=> t \in active, \A q \in Queues : OnQ(q, t)' <=> OnQ(q, t),
           \/ m_owner' = m_owner
           \/ m_owner # t /\ m_owner' # t /\ (m_owner' = NULL => pc[t] # "scheduler")
    PROVE  MThread(H, t)'
  BY MutexAssumption DEF MThread

\* The lists of a step that leaves wqVars alone.
LEMMA SameLists ==
    ASSUME WaitqType, UNCHANGED wqVars
    PROVE  /\ WaitqType' /\ active' = active /\ woken' = woken
           /\ \A q \in Queues, u \in Threads : OnQ(q, u)' <=> OnQ(q, u)
  BY Zenon DEF wqVars, WaitqType, OnQ

\* Goto() moves t only.
LEMMA Moved ==
    ASSUME NEW P, pc \in [Threads -> P], NEW t \in Threads, NEW l \in P, Goto(t, l)
    PROVE  /\ pc' \in [Threads -> P] /\ pc'[t] = l
           /\ \A u \in Threads : u # t => pc'[u] = pc[u]
  BY DEF Goto

\* The compare-and-swap of a thread that is not on a list: it has the mutex, or goes on.
LEMMA CasStep ==
    ASSUME NEW H, NEW P, Kinds(H, P), MInv(H, P), NEW t \in Threads, NEW a \in H, NEW b \in P,
           pc[t] \in {"idle", "test"}, b \in {"idle", "test", "prepare"},
           cas_owner(t, a, b), UNCHANGED wqVars
    PROVE  MInv(H, P)'
  <1>1. a \in P /\ a \notin WaitPCs \cup {"idle"}
    BY DEF Kinds
  <1>2. /\ WaitqType' /\ active' = active /\ woken' = woken
        /\ \A q \in Queues, u \in Threads : OnQ(q, u)' <=> OnQ(q, u)
    BY SameLists, Zenon DEF MInv
  <1>3. pc[t] \notin H /\ b \notin H
    BY DEF Kinds, WaitPCs
  <1>4. /\ pc' \in [Threads -> P] /\ pc'[t] \in {a, b}
        /\ \A u \in Threads : u # t => pc'[u] = pc[u]
    BY <1>1, Moved, ZenonT(30) DEF MInv, cas_owner
  <1>5. \/ m_owner = NULL /\ m_owner' = t /\ pc'[t] = a
        \/ m_owner # NULL /\ m_owner' = m_owner /\ pc'[t] = b
    BY <1>1, Moved, ZenonT(30) DEF MInv, cas_owner
  <1>6. MThread(H, t)'
    <2>1. MThread(H, t)
      BY Zenon DEF MInv
    <2>2. m_owner # t /\ t \notin active /\ \A q \in Queues : ~OnQ(q, t)
      BY <1>3, <2>1 DEF MThread, QPCs, WQPCs
    <2> QED BY <1>1, <1>2, <1>3, <1>5, <2>2, MutexAssumption DEF MThread, WaitPCs
  <1>7. ASSUME NEW u \in Threads, u # t PROVE MThread(H, u)'
    BY <1>2, <1>4, <1>5, <1>7, OtherThread, MutexAssumption DEF MInv
  <1> QED BY <1>2, <1>4, <1>5, <1>6, <1>7, Zenon DEF MInv

\* The first test of tc_mutex_lock()'s condition: nobody passes the mutex to a thread
\* that is not on the list.
LEMMA TestStep ==
    ASSUME NEW H, NEW P, Kinds(H, P), MInv(H, P), NEW t \in Threads, test(t)
    PROVE  MInv(H, P)'
  <1>1. pc[t] = "test" /\ UNCHANGED wqVars /\ "locked" \in H /\ "prepare" \in P
    BY Zenon DEF test, Kinds, MutexPCs, WaitPCs
  <1>2. m_owner # t
    BY <1>1 DEF MInv, MThread, Kinds, WaitPCs
  <1>3. cas_owner(t, "locked", "prepare")
    BY <1>2, Zenon DEF test, given_or_free
  <1> QED BY <1>1, <1>3, CasStep, Zenon

LEMMA PrepareStep ==
    ASSUME NEW H, NEW P, Kinds(H, P), MInv(H, P), NEW t \in Threads, prepare(t)
    PROVE  MInv(H, P)'
  <1>1. pc[t] = "prepare" /\ m_owner' = m_owner /\ prepare_to_wait(t, "wq") /\ Goto(t, "cond")
    BY Zenon DEF prepare
  <1>2. MThread(H, t) /\ "prepare" \notin H /\ "cond" \notin H /\ "cond" \in P
    BY Zenon DEF MInv, Kinds, WaitPCs, MutexPCs
  <1>3. t \notin active /\ \A q \in Queues : ~OnQ(q, t)
    BY <1>1, <1>2 DEF MThread, QPCs, WQPCs
  <1>4. /\ WaitqType' /\ active' = active
        /\ \A r \in Queues, u \in Threads : OnQ(r, u)' <=> OnQ(r, u) \/ (r = "wq" /\ u = t)
        /\ \A u \in Threads : u # t => woken'[u] = woken[u]
    BY <1>1, <1>3, Prepare, MutexAssumption, Zenon DEF MInv
  <1>5. /\ pc' \in [Threads -> P] /\ pc'[t] = "cond"
        /\ \A u \in Threads : u # t => pc'[u] = pc[u]
    BY <1>1, <1>2, Moved, Zenon DEF MInv
  <1>6. MThread(H, t)'
    BY <1>1, <1>2, <1>3, <1>4, <1>5, MutexAssumption DEF MThread, QPCs
  <1>7. ASSUME NEW u \in Threads, u # t PROVE MThread(H, u)'
    BY <1>1, <1>4, <1>5, <1>7, OtherThread, Zenon DEF MInv
  <1> QED BY <1>1, <1>4, <1>5, <1>6, <1>7, Zenon DEF MInv

\* The condition is true, and the mutex t's; or t goes to sleep.
LEMMA CondStep ==
    ASSUME NEW H, NEW P, Kinds(H, P), MInv(H, P), NEW t \in Threads, cond(t)
    PROVE  MInv(H, P)'
  <1>1. pc[t] = "cond" /\ UNCHANGED wqVars
    BY Zenon DEF cond
  <1>2. /\ MThread(H, t) /\ {"finish_true", "scheduler"} \subseteq P
        /\ "scheduler" \notin H /\ "cond" \notin H
    BY DEF MInv, Kinds, WaitPCs, MutexPCs
  <1>3. /\ WaitqType' /\ active' = active /\ woken' = woken
        /\ \A q \in Queues, u \in Threads : OnQ(q, u)' <=> OnQ(q, u)
    BY <1>1, SameLists, Zenon DEF MInv
  <1>4. /\ pc' \in [Threads -> P]
        /\ \A u \in Threads : u # t => pc'[u] = pc[u]
    BY <1>2, Moved, Zenon DEF MInv, cond, given_or_free, cas_owner
  <1>5. \/ m_owner = t /\ m_owner' = t /\ pc'[t] = "finish_true"
        \/ m_owner = NULL /\ m_owner' = t /\ pc'[t] = "finish_true"
        \/ m_owner \notin {t, NULL} /\ m_owner' = m_owner /\ pc'[t] = "scheduler"
    BY <1>2, Moved, MutexAssumption, ZenonT(30) DEF MInv, cond, given_or_free, cas_owner
  <1>6. MThread(H, t)'
    <2>1. /\ \A q \in Queues : OnQ(q, t) => q = "wq"
          /\ OnQ("wq", t) \/ t \in active
          /\ t \in active => m_owner = t
      BY <1>1, <1>2 DEF MThread, WQPCs
    <2>2. CASE m_owner' = t /\ pc'[t] = "finish_true"
      BY <1>3, <2>1, <2>2, MutexAssumption, Zenon DEF MThread, QPCs
    <2>3. CASE m_owner \notin {t, NULL} /\ m_owner' = m_owner /\ pc'[t] = "scheduler"
      BY <1>2, <1>3, <2>1, <2>3, MutexAssumption, Zenon DEF MThread, QPCs
    <2> QED BY <1>5, <2>2, <2>3, Zenon
  <1>7. ASSUME NEW u \in Threads, u # t PROVE MThread(H, u)'
    BY <1>3, <1>4, <1>5, <1>7, OtherThread, MutexAssumption DEF MInv
  <1> QED BY <1>3, <1>4, <1>5, <1>6, <1>7, Zenon DEF MInv

LEMMA SchedulerStep ==
    ASSUME NEW H, NEW P, Kinds(H, P), MInv(H, P), NEW t \in Threads, scheduler(t)
    PROVE  MInv(H, P)'
  <1>1. pc[t] = "scheduler" /\ m_owner' = m_owner /\ tc_scheduler(t) /\ Goto(t, "finish")
    BY Zenon DEF scheduler
  <1>2. MThread(H, t) /\ "finish" \in P /\ "scheduler" \notin H /\ "finish" \notin H
    BY DEF MInv, Kinds, WaitPCs, MutexPCs
  <1>3. /\ WaitqType' /\ waiters' = waiters
        /\ \/ t \in active /\ active' = active \ {t} /\ woken'[t] = "event"
           \/ active' = active /\ woken'[t] = "signal"
        /\ \A u \in Threads : u # t => woken'[u] = woken[u]
    BY <1>1, Scheduled, Zenon DEF MInv
  <1>4. \A q \in Queues, u \in Threads : OnQ(q, u)' <=> OnQ(q, u)
    BY <1>3, Zenon DEF OnQ
  <1>5. /\ pc' \in [Threads -> P] /\ pc'[t] = "finish"
        /\ \A u \in Threads : u # t => pc'[u] = pc[u]
    BY <1>1, <1>2, Moved, Zenon DEF MInv
  <1>6. MThread(H, t)'
    <2>1. /\ \A q \in Queues : OnQ(q, t) => q = "wq"
          /\ t \in active <=> m_owner = t
      BY <1>1, <1>2 DEF MThread, WQPCs
    <2>2. CASE t \in active /\ active' = active \ {t} /\ woken'[t] = "event"
      BY <1>1, <1>2, <1>4, <1>5, <2>1, <2>2, MutexAssumption, Zenon DEF MThread, QPCs
    <2>3. CASE active' = active /\ woken'[t] = "signal"
      BY <1>1, <1>2, <1>4, <1>5, <2>1, <2>3, MutexAssumption, Zenon DEF MThread, QPCs
    <2> QED BY <1>3, <2>2, <2>3, Zenon
  <1>7. ASSUME NEW u \in Threads, u # t PROVE MThread(H, u)'
    BY <1>1, <1>3, <1>4, <1>5, <1>7, OtherThread DEF MInv
  <1> QED BY <1>1, <1>3, <1>5, <1>6, <1>7, Zenon DEF MInv

\* A thread that is interrupted does not own the mutex; one that is woken does, and
\* looks at the mutex again.
LEMMA FinishStep ==
    ASSUME NEW H, NEW P, Kinds(H, P), MInv(H, P), NEW t \in Threads, finish(t)
    PROVE  MInv(H, P)'
  <1>1. /\ m_owner' = m_owner
        /\ \/ /\ pc[t] = "finish" /\ Goto(t, "prepare")
              /\ finish_wait(t, "wq")
           \/ /\ pc[t] = "finish" /\ Goto(t, "idle")
              /\ finish_intr(t, "wq")
           \/ /\ pc[t] = "finish_true" /\ Goto(t, "locked")
              /\ finish_wait(t, "wq")
    BY Zenon DEF finish
  <1>2. /\ MThread(H, t) /\ {"prepare", "idle", "locked"} \subseteq P /\ "locked" \in H
        /\ H \cap {"finish", "finish_true", "prepare", "idle"} = {}
    BY DEF MInv, Kinds, WaitPCs, MutexPCs
  <1>3. /\ WaitqType' /\ active' = active \ {t}
        /\ \A r \in Queues, u \in Threads : OnQ(r, u)' <=> OnQ(r, u) /\ ~(r = "wq" /\ u = t)
        /\ \A u \in Threads : u # t => woken'[u] = woken[u]
    BY <1>1, Finish, MutexAssumption, Zenon DEF MInv
  <1>4. /\ pc' \in [Threads -> P]
        /\ \A u \in Threads : u # t => pc'[u] = pc[u]
        /\ \/ pc[t] = "finish" /\ pc'[t] = "prepare" /\ (woken[t] = "signal" => t \in active)
           \/ pc[t] = "finish" /\ pc'[t] = "idle" /\ woken[t] = "signal" /\ t \notin active
           \/ pc[t] = "finish_true" /\ pc'[t] = "locked"
    BY <1>1, <1>2, Moved, ZenonT(30) DEF MInv, finish_wait, finish_intr
  <1>5. t \notin active' /\ \A q \in Queues : ~OnQ(q, t)'
    BY <1>2, <1>3, <1>4 DEF MThread, QPCs, WQPCs
  <1>6. MThread(H, t)'
    <2>1. CASE pc[t] = "finish" /\ pc'[t] = "prepare" /\ (woken[t] = "signal" => t \in active)
      <3>1. m_owner = t
        BY <1>2, <2>1 DEF MThread
      <3> QED BY <1>1, <1>2, <1>5, <2>1, <3>1, MutexAssumption DEF MThread
    <2>2. CASE pc[t] = "finish" /\ pc'[t] = "idle" /\ woken[t] = "signal" /\ t \notin active
      <3>1. m_owner # t
        BY <1>2, <2>2 DEF MThread
      <3> QED BY <1>1, <1>2, <1>5, <2>2, <3>1 DEF MThread
    <2>3. CASE pc[t] = "finish_true" /\ pc'[t] = "locked"
      <3>1. m_owner = t
        BY <1>2, <2>3 DEF MThread
      <3> QED BY <1>1, <1>2, <1>5, <2>3, <3>1, MutexAssumption DEF MThread
    <2> QED BY <1>4, <2>1, <2>2, <2>3, Zenon
  <1>7. ASSUME NEW u \in Threads, u # t PROVE MThread(H, u)'
    BY <1>1, <1>3, <1>4, <1>7, OtherThread, Zenon DEF MInv
  <1> QED BY <1>1, <1>3, <1>4, <1>6, <1>7, Zenon DEF MInv

\* A thread that holds the mutex, and is on no list, unlocks it: it becomes the first
\* waiter's, or free if nobody is on the list.
LEMMA UnlockStep ==
    ASSUME NEW H, NEW P, Kinds(H, P), MInv(H, P), NEW t \in Threads, NEW l \in P,
           pc[t] \in H, pc[t] \notin QPCs \cup WQPCs,
           l \notin H \cup WaitPCs, mutex_unlock(t), Goto(t, l)
    PROVE  /\ MInv(H, P)'
           /\ m_owner' = NULL \/ (m_owner' \in Threads /\ pc[m_owner'] \in QPCs)
  <1>1. MThread(H, t) /\ m_owner = t /\ t \notin active /\ \A q \in Queues : ~OnQ(q, t)
    BY DEF MInv, MThread
  <1>2. /\ WaitqType' /\ woken' = woken
        /\ \/ /\ waiters["wq"] = <<>> /\ UNCHANGED <<waiters, active>>
              /\ \A u \in Threads : ~OnQ("wq", u)
           \/ /\ waiters["wq"] # <<>> /\ Head(waiters["wq"]) \in Threads
              /\ OnQ("wq", Head(waiters["wq"]))
              /\ active' = active \cup {Head(waiters["wq"])}
              /\ \A r \in Queues, u \in Threads :
                    OnQ(r, u)' <=> OnQ(r, u) /\ ~(r = "wq" /\ u = Head(waiters["wq"]))
    BY WakeupOne, MutexAssumption, Zenon DEF MInv, mutex_unlock
  <1>3. m_owner' = IF waiters["wq"] = <<>> THEN NULL ELSE Head(waiters["wq"])
    BY Zenon DEF mutex_unlock, pass_owner
  <1>4. /\ pc' \in [Threads -> P] /\ pc'[t] = l
        /\ \A u \in Threads : u # t => pc'[u] = pc[u]
    <2>1. pc \in [Threads -> P]
      BY Zenon DEF MInv
    <2> QED BY <2>1, Moved
  <1>5. CASE waiters["wq"] = <<>>
    <2>1. /\ m_owner' = NULL /\ active' = active
          /\ \A q \in Queues, u \in Threads : OnQ(q, u)' <=> OnQ(q, u)
      BY <1>2, <1>3, <1>5, Zenon DEF OnQ
    <2>2. MThread(H, t)'
      BY <1>1, <1>4, <2>1, MutexAssumption DEF MThread, WaitPCs
    <2>3. ASSUME NEW u \in Threads, u # t PROVE MThread(H, u)'
      <3>1. pc[u] # "scheduler"
        BY <1>1, <1>2, <1>5, <2>3 DEF MInv, MThread
      <3> QED BY <1>1, <1>2, <1>4, <2>1, <2>3, <3>1, OtherThread, MutexAssumption DEF MInv
    <2> QED BY <1>2, <1>4, <2>1, <2>2, <2>3, Zenon DEF MInv
  <1>6. CASE waiters["wq"] # <<>>
    <2>1. PICK h \in Threads :
             /\ m_owner' = h /\ OnQ("wq", h) /\ active' = active \cup {h}
             /\ \A r \in Queues, u \in Threads : OnQ(r, u)' <=> OnQ(r, u) /\ ~(r = "wq" /\ u = h)
      BY <1>2, <1>3, <1>6, Zenon
    <2>2. h # t /\ pc[h] \in QPCs /\ MThread(H, h)
      BY <1>1, <2>1, MutexAssumption DEF MInv, MThread
    <2>3. MThread(H, t)'
      <3>1. /\ m_owner' # t /\ m_owner' # NULL /\ t \notin active'
            /\ \A q \in Queues : ~OnQ(q, t)'
        BY <1>1, <2>1, <2>2, MutexAssumption, Zenon
      <3>2. pc'[t] \notin H /\ pc'[t] \notin WaitPCs
        BY <1>4, Zenon
      <3> QED BY <3>1, <3>2 DEF MThread, WaitPCs
    <2>4. MThread(H, h)'
      <3>1. \A q \in Queues : ~OnQ(q, h)'
        <4>1. pc[h] \notin WQPCs
          BY <2>2 DEF QPCs, WQPCs
        <4>2. \A q \in Queues : OnQ(q, h) => q = "wq"
          BY <2>2, <4>1, Zenon DEF MThread
        <4> QED BY <2>1, <4>2, Zenon
      <3>2. pc'[h] = pc[h] /\ pc[h] \notin H /\ pc[h] # "finish_true"
        <4>1. m_owner # h /\ pc'[h] = pc[h]
          BY <1>1, <1>4, <2>1, <2>2, Zenon
        <4> QED BY <2>2, <4>1, Zenon DEF MThread
      <3>3. woken'[h] = woken[h] /\ (pc[h] = "finish" => woken[h] = "signal")
        BY <1>1, <1>2, <2>2 DEF MThread
      <3>4. /\ m_owner' = h /\ h # NULL /\ h \in active'
            /\ pc'[h] \in {"cond", "scheduler", "finish"}
        BY <2>1, <2>2, <3>2, MutexAssumption, Zenon DEF QPCs
      <3> QED BY <3>1, <3>2, <3>3, <3>4, Zenon DEF MThread, QPCs
    <2>5. ASSUME NEW u \in Threads, u # t, u # h PROVE MThread(H, u)'
      <3>1. /\ pc'[u] = pc[u] /\ woken'[u] = woken[u] /\ (u \in active' <=> u \in active)
            /\ \A q \in Queues : OnQ(q, u)' <=> OnQ(q, u)
            /\ m_owner # u /\ m_owner' # u /\ m_owner' # NULL
        BY <1>1, <1>2, <1>4, <2>1, <2>5, MutexAssumption, Zenon
      <3>2. MThread(H, u)
        BY Zenon DEF MInv
      <3> QED BY <3>1, <3>2, OtherThread, Zenon
    <2>6. \A u \in Threads : MThread(H, u)'
      BY <2>3, <2>4, <2>5, Zenon
    <2> QED BY <1>2, <1>4, <2>1, <2>2, <2>6, Zenon DEF MInv
  <1> QED BY <1>5, <1>6, Zenon

LEMMA SignalStep ==
    ASSUME NEW H, NEW P, MInv(H, P), NEW t \in Threads, signal(t)
    PROVE  MInv(H, P)'
  <1>1. sig' = sig \cup {t} /\ UNCHANGED <<waiters, active, woken, m_owner, pc>>
    BY Zenon DEF signal, tc_signal_fire
  <1> QED BY <1>1, Zenon DEF MInv, MThread, WaitqType, OnQ

\* The wait inside tc_mutex_lock().
LEMMA WaitingStep ==
    ASSUME NEW H, NEW P, Kinds(H, P), MInv(H, P), NEW t \in Threads, waiting(t)
    PROVE  MInv(H, P)'
  BY TestStep, PrepareStep, CondStep, SchedulerStep, FinishStep, Zenon DEF waiting

LEMMA LockStep ==
    ASSUME NEW H, NEW P, Kinds(H, P), MInv(H, P), NEW t \in Threads, tc_mutex_lock(t)
    PROVE  MInv(H, P)'
  BY CasStep, Zenon DEF tc_mutex_lock, Kinds, MutexPCs, WaitPCs

\* Where Lock sees the threads after t has moved.
LEMMA Seen ==
    ASSUME NEW H, NEW P, pc \in [Threads -> P], NEW t \in Threads, NEW l \in P, Goto(t, l)
    PROVE  LET A == {u \in Threads : pc[u] \in WaitPCs}
               G == {u \in Threads : pc[u] \in H}
           IN /\ A' = IF l \in WaitPCs THEN A \cup {t} ELSE A \ {t}
              /\ G' = IF l \in H THEN G \cup {t} ELSE G \ {t}
  BY Moved

LEMMA OneHolder ==
    ASSUME NEW H, NEW P, MInv(H, P)
    PROVE  /\ m_owner = NULL => {u \in Threads : pc[u] \in H} = {}
           /\ \A t \in Threads : m_owner = t => {u \in Threads : pc[u] \in H} \subseteq {t}
  BY MutexAssumption DEF MInv, MThread

\* A compare-and-swap is Take(), or else Ask() or nothing.
LEMMA CasMaps ==
    ASSUME NEW H, NEW P, Kinds(H, P), MInv(H, P), NEW t \in Threads, NEW a \in H, NEW b \in P,
           pc[t] \in {"idle", "test"}, b \in {"idle", "test", "prepare"}, b = "idle" => pc[t] = "idle",
           cas_owner(t, a, b)
    PROVE  [AsLock(H)!LockNext]_(AsLock(H)!lockVars)
  <1> DEFINE A == {u \in Threads : pc[u] \in WaitPCs}
             G == {u \in Threads : pc[u] \in H}
  <1>1. /\ a \in P /\ a \notin WaitPCs /\ b \notin H /\ pc[t] \notin H
        /\ pc \in [Threads -> P] /\ MThread(H, t)
    BY DEF Kinds, MInv, WaitPCs
  <1>2. m_owner # t
    BY <1>1 DEF MThread, Kinds, WaitPCs
  <1>3. CASE m_owner = NULL /\ m_owner' = t /\ Goto(t, a)
    <2>1. A' = A \ {t} /\ G' = G \cup {t} /\ G = {}
      BY <1>1, <1>3, Seen, OneHolder, ZenonT(30)
    <2>2. AsLock(H)!Take(t)
      BY <1>3, <2>1 DEF AsLock!Take
    <2> QED BY <2>2, Zenon DEF AsLock!LockNext
  <1>4. CASE m_owner # NULL /\ UNCHANGED m_owner /\ Goto(t, b)
    <2>1. G' = G /\ A' = IF b \in WaitPCs THEN A \cup {t} ELSE A \ {t}
      <3>1. /\ A' = IF b \in WaitPCs THEN A \cup {t} ELSE A \ {t}
            /\ G' = IF b \in H THEN G \cup {t} ELSE G \ {t}
        BY <1>1, <1>4, Seen, Zenon
      <3>2. G \ {t} = G
        BY <1>1
      <3> QED BY <1>1, <3>1, <3>2, Zenon
    <2>2. CASE pc[t] = "idle" /\ b # "idle"
      <3>1. t \notin A /\ t \notin G /\ A' = A \cup {t}
        BY <1>1, <2>1, <2>2 DEF WaitPCs
      <3>2. AsLock(H)!Ask(t)
        BY <1>2, <1>4, <2>1, <3>1 DEF AsLock!Ask
      <3> QED BY <3>2, Zenon DEF AsLock!LockNext
    <2>3. CASE b = "idle" \/ pc[t] = "test"
      <3>1. A' = A
        BY <2>1, <2>3 DEF WaitPCs
      <3> QED BY <1>4, <2>1, <3>1 DEF AsLock!lockVars
    <2> QED BY <2>2, <2>3
  <1> QED BY <1>3, <1>4, Zenon DEF cas_owner

\* A step of the wait that takes the mutex, learns of it or gives up is the step of
\* Lock of this name, the others are invisible.
LEMMA WaitingMaps ==
    ASSUME NEW H, NEW P, Kinds(H, P), MInv(H, P), NEW t \in Threads, waiting(t)
    PROVE  [AsLock(H)!LockNext]_(AsLock(H)!lockVars)
  <1> DEFINE A == {u \in Threads : pc[u] \in WaitPCs}
             G == {u \in Threads : pc[u] \in H}
  <1>1. /\ pc \in [Threads -> P] /\ MThread(H, t) /\ WaitPCs \cap H = {} /\ WaitPCs \subseteq P
        /\ "locked" \in H /\ "locked" \in P /\ "idle" \in P
        /\ "idle" \notin H
    BY DEF Kinds, MInv, MutexPCs
  <1>2. ASSUME NEW l \in WaitPCs, pc[t] \in WaitPCs, Goto(t, l) PROVE A' = A /\ G' = G
    <2>1. l \in P /\ l \notin H /\ t \in A /\ t \notin G
      BY <1>1, <1>2
    <2>2. A' = A \cup {t} /\ G' = G \ {t}
      BY <1>1, <1>2, <2>1, Seen, ZenonT(30)
    <2> QED BY <2>1, <2>2
  <1>3. ASSUME NEW l \in WaitPCs, pc[t] \in WaitPCs, Goto(t, l), m_owner' = m_owner
        PROVE  UNCHANGED AsLock(H)!lockVars
    BY <1>2, <1>3 DEF AsLock!lockVars
  <1>4. CASE test(t)
    <2>1. pc[t] = "test" /\ "prepare" \in P /\ m_owner # t
      BY <1>1, <1>4 DEF test, MThread, WaitPCs
    <2> QED BY <1>1, <1>4, <2>1, CasMaps, Zenon DEF test, given_or_free
  <1>5. CASE prepare(t) \/ scheduler(t)
    BY <1>3, <1>5 DEF prepare, scheduler, WaitPCs
  <1>6. CASE cond(t)
    <2>1. pc[t] = "cond" /\ {"cond", "finish_true", "scheduler"} \subseteq WaitPCs
      BY <1>6 DEF cond, WaitPCs
    <2>2. CASE m_owner = NULL /\ m_owner' = t /\ Goto(t, "finish_true")
      <3>1. A' = A /\ G' = G /\ t \in A
        BY <1>2, <2>1, <2>2
      <3>2. AsLock(H)!Take(t)
        BY <2>2, <3>1 DEF AsLock!Take
      <3> QED BY <3>2, Zenon DEF AsLock!LockNext
    <2>3. CASE m_owner' = m_owner /\ (Goto(t, "finish_true") \/ Goto(t, "scheduler"))
      BY <1>3, <2>1, <2>3
    <2> QED BY <1>6, <2>2, <2>3, Zenon DEF cond, given_or_free, cas_owner
  <1>7. CASE finish(t)
    <2>1. m_owner' = m_owner
      BY <1>7, Zenon DEF finish
    <2>2. CASE pc[t] = "finish" /\ Goto(t, "prepare")
      BY <1>3, <2>1, <2>2 DEF WaitPCs
    <2>3. CASE pc[t] = "finish" /\ finish_intr(t, "wq") /\ Goto(t, "idle")
      <3>1. m_owner # t
        BY <1>1, <2>3 DEF MThread, finish_intr, WaitPCs
      <3>2. t \in A /\ t \notin G /\ "idle" \notin WaitPCs
        BY <1>1, <2>3 DEF WaitPCs
      <3>3. A' = A \ {t} /\ G' = G \ {t}
        BY <1>1, <2>3, <3>2, Seen, ZenonT(30)
      <3>4. AsLock(H)!GiveUp(t)
        BY <2>1, <3>1, <3>2, <3>3 DEF AsLock!GiveUp
      <3> QED BY <3>4, Zenon DEF AsLock!LockNext
    <2>4. CASE pc[t] = "finish_true" /\ Goto(t, "locked")
      <3>1. m_owner = t
        BY <1>1, <2>4 DEF MThread
      <3>2. t \in A /\ "locked" \notin WaitPCs
        BY <1>1, <2>4 DEF WaitPCs
      <3>3. A' = A \ {t} /\ G' = G \cup {t}
        BY <1>1, <2>4, <3>2, Seen, Zenon
      <3>4. G \subseteq {t}
        BY <3>1, OneHolder, Zenon
      <3>5. AsLock(H)!Told(t)
        BY <2>1, <3>1, <3>2, <3>3, <3>4 DEF AsLock!Told
      <3> QED BY <3>5, Zenon DEF AsLock!LockNext
    <2> QED BY <1>7, <2>2, <2>3, <2>4, Zenon DEF finish
  <1> QED BY <1>4, <1>5, <1>6, <1>7, Zenon DEF waiting

LEMMA UnlockMaps ==
    ASSUME NEW H, NEW P, Kinds(H, P), MInv(H, P), NEW t \in Threads, NEW l \in P,
           pc[t] \in H, pc[t] \notin QPCs \cup WQPCs,
           l \notin H \cup WaitPCs, mutex_unlock(t), Goto(t, l)
    PROVE  AsLock(H)!LockNext
  <1> DEFINE A == {u \in Threads : pc[u] \in WaitPCs}
             G == {u \in Threads : pc[u] \in H}
  <1>1. pc \in [Threads -> P] /\ MThread(H, t) /\ pc[t] \notin WaitPCs /\ QPCs \subseteq WaitPCs
    BY DEF Kinds, MInv, QPCs, WaitPCs
  <1>2. m_owner = t
    BY <1>1 DEF MThread
  <1>3. A' = A \ {t} /\ G' = G \ {t} /\ t \notin A /\ G = {t}
    BY <1>1, <1>2, Seen, OneHolder
  <1>4. m_owner' \in A \cup {NULL}
    BY <1>1, UnlockStep
  <1>5. AsLock(H)!Release(t)
    BY <1>3, <1>4 DEF AsLock!Release
  <1> QED BY <1>5, Zenon DEF AsLock!LockNext

-----------------------------------------------------------------------------
(* tc_mutex. *)

MutexInv == MInv({"locked"}, MutexPCs)

LEMMA MutexKinds == Kinds({"locked"}, MutexPCs)
  BY DEF Kinds, MutexPCs, WaitPCs

LEMMA MutexStart == MutexInit => MutexInv
  <1> SUFFICES ASSUME MutexInit PROVE MutexInv
    OBVIOUS
  <1>1. /\ WaitqType /\ active = {} /\ \A q \in Queues, t \in Threads : ~OnQ(q, t)
        /\ m_owner = NULL /\ pc = [t \in Threads |-> "idle"]
    BY InitQueues, Zenon DEF MutexInit
  <1> QED BY <1>1, MutexAssumption DEF MutexInv, MInv, MThread, MutexPCs

LEMMA ChangeOwnerStep ==
    ASSUME MutexInv, NEW t \in Threads, NEW u \in Threads, tc_mutex_change_owner(t, u)
    PROVE  MutexInv'
  <1>1. /\ pc[t] = "locked" /\ pc[u] = "idle" /\ m_owner' = u /\ t # u
        /\ pc' = [pc EXCEPT ![t] = "idle", ![u] = "locked"] /\ UNCHANGED wqVars
    BY Zenon DEF tc_mutex_change_owner
  <1>2. /\ WaitqType' /\ active' = active /\ woken' = woken
        /\ \A q \in Queues, v \in Threads : OnQ(q, v)' <=> OnQ(q, v)
    BY <1>1, SameLists, Zenon DEF MutexInv, MInv
  <1>3. /\ pc' \in [Threads -> MutexPCs] /\ pc'[t] = "idle" /\ pc'[u] = "locked"
        /\ \A v \in Threads : v \notin {t, u} => pc'[v] = pc[v]
    BY <1>1 DEF MutexInv, MInv, MutexPCs
  <1>4. \A v \in Threads : MThread({"locked"}, v)
    BY Zenon DEF MutexInv, MInv
  <1>5. m_owner = t /\ \A v \in {t, u} : v \notin active /\ \A q \in Queues : ~OnQ(q, v)
    BY <1>1, <1>4 DEF MThread, QPCs, WQPCs
  <1>6. MThread({"locked"}, t)' /\ MThread({"locked"}, u)'
    BY <1>1, <1>2, <1>3, <1>5, MutexAssumption DEF MThread
  <1>7. ASSUME NEW v \in Threads, v \notin {t, u} PROVE MThread({"locked"}, v)'
    BY <1>1, <1>2, <1>3, <1>4, <1>5, <1>7, OtherThread, MutexAssumption
  <1> QED BY <1>1, <1>2, <1>3, <1>6, <1>7 DEF MutexInv, MInv

LEMMA MutexStep == MutexInv /\ [Next]_vars => MutexInv'
  <1> SUFFICES ASSUME MutexInv, [Next]_vars PROVE MutexInv'
    OBVIOUS
  <1>1. CASE UNCHANGED vars
    BY <1>1, Zenon DEF vars, wqVars, MutexInv, MInv, MThread, WaitqType, OnQ
  <1>2. ASSUME NEW t \in Threads, tc_mutex_lock(t) \/ waiting(t) \/ signal(t) PROVE MutexInv'
    BY <1>2, LockStep, WaitingStep, SignalStep, MutexKinds, Zenon DEF MutexInv
  <1>3. ASSUME NEW t \in Threads, tc_mutex_trylock(t) PROVE MutexInv'
    <2>1. "locked" \in {"locked"} /\ "idle" \in MutexPCs
      BY Zenon DEF MutexPCs
    <2> QED BY <1>3, <2>1, CasStep, MutexKinds, Zenon DEF MutexInv, tc_mutex_trylock
  <1>4. ASSUME NEW t \in Threads, tc_mutex_unlock(t) PROVE MutexInv'
    <2>1. /\ pc[t] = "locked" /\ pc[t] \in {"locked"} /\ pc[t] \notin QPCs \cup WQPCs
          /\ mutex_unlock(t) /\ Goto(t, "idle")
          /\ "idle" \in MutexPCs /\ "idle" \notin {"locked"} \cup WaitPCs
      BY <1>4 DEF tc_mutex_unlock, QPCs, WQPCs, MutexPCs, WaitPCs
    <2> QED BY <2>1, UnlockStep, MutexKinds, Zenon DEF MutexInv
  <1>5. ASSUME NEW t \in Threads, NEW u \in Threads, tc_mutex_change_owner(t, u) PROVE MutexInv'
    BY <1>5, ChangeOwnerStep
  <1> QED BY <1>1, <1>2, <1>3, <1>4, <1>5, Zenon DEF Next

\* The inductive invariant holds in every reachable state of tc_mutex.
THEOREM MutexInductive == Spec => []MutexInv
  BY MutexStart, MutexStep, PTL DEF Spec

\* The variables of tc_mutex keep their types, and a thread is queued once, however
\* many threads lock, unlock and are signalled.
THEOREM MutexTyped == Spec => []MutexTypeOK
  <1>1. MutexInv => MutexTypeOK
    BY Zenon DEF MutexInv, MInv, MutexTypeOK
  <1> QED BY <1>1, MutexInductive, PTL

\* A successful tc_mutex_lock() or tc_mutex_trylock() is the only one until the unlock.
THEOREM MutexExclusive == Spec => []MutualExclusion
  <1>1. MutexInv => MutualExclusion
    BY DEF MutexInv, MInv, MThread, MutualExclusion
  <1> QED BY <1>1, MutexInductive, PTL

\* tc_waitq_wakeup_one_owner() never makes an owner of a thread that does not notice.
THEOREM MutexGrantNoticed == Spec => []GrantNoticed
  <1>1. MutexInv => GrantNoticed
    <2> SUFFICES ASSUME MutexInv, NEW t \in Threads, m_owner = t
                 PROVE  \/ pc[t] \in {"locked", "finish_true", "prepare", "cond"}
                        \/ pc[t] = "scheduler" /\ t \in active
                        \/ pc[t] = "finish" /\ (t \in active \/ woken[t] = "event")
      BY Zenon DEF GrantNoticed
    <2>1. MThread({"locked"}, t)
      BY Zenon DEF MutexInv, MInv
    <2> QED BY <2>1 DEF MThread
  <1> QED BY <1>1, MutexInductive, PTL

\* Nobody sleeps on a mutex that no one owns.
THEOREM MutexNoSleep == Spec => []NoSleepOnFree
  <1>1. MutexInv => NoSleepOnFree
    BY DEF MutexInv, MInv, MThread, NoSleepOnFree
  <1> QED BY <1>1, MutexInductive, PTL

LEMMA MutexMaps == MutexInv /\ [Next]_vars => [AsLock({"locked"})!LockNext]_(AsLock({"locked"})!lockVars)
  <1> SUFFICES ASSUME MutexInv, [Next]_vars
               PROVE  [AsLock({"locked"})!LockNext]_(AsLock({"locked"})!lockVars)
    OBVIOUS
  <1> DEFINE H == {"locked"}
  <1>1. ASSUME UNCHANGED <<m_owner, pc>> PROVE UNCHANGED AsLock(H)!lockVars
    BY <1>1, Zenon DEF AsLock!lockVars
  <1>2. CASE UNCHANGED vars
    BY <1>1, <1>2, Zenon DEF vars
  <1>3. ASSUME NEW t \in Threads, signal(t) PROVE UNCHANGED AsLock(H)!lockVars
    BY <1>1, <1>3, Zenon DEF signal
  <1>4. ASSUME NEW t \in Threads, waiting(t)
        PROVE  [AsLock(H)!LockNext]_(AsLock(H)!lockVars)
    BY <1>4, WaitingMaps, MutexKinds, Zenon DEF MutexInv
  <1>5. ASSUME NEW t \in Threads, tc_mutex_lock(t) \/ tc_mutex_trylock(t)
        PROVE  [AsLock(H)!LockNext]_(AsLock(H)!lockVars)
    <2>1. "locked" \in H /\ "idle" \in MutexPCs /\ "test" \in MutexPCs
      BY DEF MutexPCs, WaitPCs
    <2>2. pc[t] = "idle" /\ (cas_owner(t, "locked", "test") \/ cas_owner(t, "locked", "idle"))
      BY <1>5, Zenon DEF tc_mutex_lock, tc_mutex_trylock
    <2> QED BY <2>1, <2>2, CasMaps, MutexKinds, Zenon DEF MutexInv
  <1>6. ASSUME NEW t \in Threads, tc_mutex_unlock(t) PROVE AsLock(H)!LockNext
    <2>1. /\ pc[t] \in H /\ pc[t] \notin QPCs \cup WQPCs
          /\ mutex_unlock(t) /\ Goto(t, "idle")
          /\ "idle" \in MutexPCs /\ "idle" \notin H \cup WaitPCs
      BY <1>6 DEF tc_mutex_unlock, QPCs, WQPCs, MutexPCs, WaitPCs
    <2> QED BY <2>1, UnlockMaps, MutexKinds, Zenon DEF MutexInv
  <1>7. ASSUME NEW t \in Threads, NEW u \in Threads, tc_mutex_change_owner(t, u)
        PROVE  AsLock(H)!LockNext
    <2> DEFINE A == {v \in Threads : pc[v] \in WaitPCs}
               G == {v \in Threads : pc[v] \in H}
    <2>1. /\ pc[t] = "locked" /\ pc[u] = "idle" /\ m_owner' = u
          /\ pc' = [pc EXCEPT ![t] = "idle", ![u] = "locked"] /\ pc \in [Threads -> MutexPCs]
      BY <1>7, Zenon DEF tc_mutex_change_owner, MutexInv, MInv
    <2>2. m_owner = t
      BY <2>1 DEF MutexInv, MInv, MThread
    <2>3. G = {t} /\ u \notin A /\ t \notin A
      BY <2>1, <2>2, OneHolder DEF MutexInv, WaitPCs
    <2>4. pc'[t] = "idle" /\ pc'[u] = "locked" /\ \A v \in Threads \ {t, u} : pc'[v] = pc[v]
      BY <2>1
    <2>5. G' = {u} /\ A' = A
      BY <2>3, <2>4 DEF WaitPCs
    <2>6. AsLock(H)!HandOver(t, u)
      BY <2>1, <2>3, <2>5 DEF AsLock!HandOver
    <2> QED BY <2>6, Zenon DEF AsLock!LockNext
  <1> QED BY <1>2, <1>3, <1>4, <1>5, <1>6, <1>7, Zenon DEF Next

\* tc_mutex is a lock: every step of it is an operation of Lock or invisible there.
THEOREM MutexRefines == Spec => MutexIsLock
  <1>1. MutexInit => MutexLock!LockInit
    BY DEF MutexInit, MutexLock!LockInit, WaitPCs
  <1>2. [AsLock({"locked"})!LockNext]_(AsLock({"locked"})!lockVars) => [MutexLock!LockNext]_(MutexLock!lockVars)
    BY Zenon DEF AsLock!lockVars, MutexLock!lockVars, AsLock!LockNext, MutexLock!LockNext,
       AsLock!Ask, AsLock!Take, AsLock!Told, AsLock!GiveUp, AsLock!Release, AsLock!HandOver,
       MutexLock!Ask, MutexLock!Take, MutexLock!Told, MutexLock!GiveUp, MutexLock!Release, MutexLock!HandOver
  <1> QED BY <1>1, <1>2, MutexMaps, MutexInductive, PTL DEF Spec, MutexIsLock, MutexLock!LockSpec

-----------------------------------------------------------------------------
(* tc_rw_lock. *)

ReadPCs == {"release", "reading"}
Reads   == {t \in Threads : pc[t] \in ReadPCs}

\* What a thread that writes, or is about to, knows of the readers.
RThread(t) ==
    /\ pc[t] \in {"writing", "w_finish_true"} => readers = 0
    /\ pc[t] \in {"w_cond", "w_scheduler"} => OnQ("wr_wq", t) \/ t \in active
    /\ pc[t] = "w_scheduler" /\ readers = 0 =>
          t \in active \/ \E u \in Threads : pc[u] = "wakeup"

RwInv ==
    /\ MInv(HoldPCs, RwPCs)
    /\ op \in [Threads -> {"r", "w", NULL}]
    /\ readers = Cardinality(Reads)
    /\ \A t \in Threads : RThread(t)

LEMMA RwKinds == Kinds(HoldPCs, RwPCs)
  <1>1. HoldPCs \cap (WaitPCs \cup {"idle"}) = {}
    BY DEF HoldPCs, WritePCs, WaitPCs
  <1>2. "locked" \in HoldPCs /\ MutexPCs \subseteq RwPCs /\ HoldPCs \subseteq RwPCs
    BY DEF HoldPCs, RwPCs, MutexPCs
  <1> QED BY <1>1, <1>2, Zenon DEF Kinds

LEMMA RwStart == RwInit => RwInv
  <1> SUFFICES ASSUME RwInit PROVE RwInv
    OBVIOUS
  <1>1. /\ WaitqType /\ active = {} /\ \A q \in Queues, t \in Threads : ~OnQ(q, t)
        /\ m_owner = NULL /\ pc = [t \in Threads |-> "idle"]
        /\ readers = 0 /\ op = [t \in Threads |-> NULL]
    BY InitQueues, Zenon DEF RwInit, MutexInit
  <1>2. "idle" \in RwPCs /\ "idle" \notin HoldPCs
    BY DEF RwPCs, MutexPCs, HoldPCs, WritePCs
  <1>3. MInv(HoldPCs, RwPCs)
    BY <1>1, <1>2, MutexAssumption DEF MInv, MThread
  <1>4. Reads = {} /\ readers = Cardinality(Reads)
    BY <1>1, FS_EmptySet DEF Reads, ReadPCs
  <1> QED BY <1>1, <1>3, <1>4 DEF RwInv, RThread

\* There are readers exactly if they are counted.
LEMMA ReadersCounted ==
    ASSUME RwInv
    PROVE  IsFiniteSet(Reads) /\ readers \in Nat /\ (readers = 0 <=> Reads = {})
  <1>1. IsFiniteSet(Reads)
    BY RwAssumption, FS_Subset DEF Reads
  <1> QED BY <1>1, FS_CardinalityType, FS_EmptySet DEF RwInv

\* Whoever is past tc_mutex_lock() and before tc_mutex_unlock() is alone there.
LEMMA OneInside ==
    ASSUME RwInv, NEW t \in Threads, pc[t] \in HoldPCs
    PROVE  m_owner = t /\ \A u \in Threads : u # t => pc[u] \notin HoldPCs
  BY DEF RwInv, MInv, MThread

\* A step of t that neither counts nor wakes up a writer.
LEMMA Kept ==
    ASSUME RwInv, NEW t \in Threads, MInv(HoldPCs, RwPCs)',
           \A u \in Threads : u # t => pc'[u] = pc[u], pc[t] # "wakeup",
           readers' = readers, pc'[t] \in ReadPCs <=> pc[t] \in ReadPCs,
           op' \in [Threads -> {"r", "w", NULL}],
           \A u \in Threads : u # t /\ OnQ("wr_wq", u) => OnQ("wr_wq", u)',
           \A u \in Threads : u # t /\ u \in active => u \in active',
           RThread(t)'
    PROVE  RwInv'
  <1>1. Reads' = Reads
    BY DEF Reads
  <1>2. ASSUME NEW u \in Threads, u # t PROVE RThread(u)'
    <2>1. RThread(u) /\ pc'[u] = pc[u]
      BY <1>2, Zenon DEF RwInv
    <2>2. (\E v \in Threads : pc[v] = "wakeup") => \E v \in Threads : pc'[v] = "wakeup"
      BY Zenon
    <2> QED BY <1>2, <2>1, <2>2, Zenon DEF RThread
  <1> QED BY <1>1, <1>2, Zenon DEF RwInv

\* A step outside the wait for the mutex, which leaves the mutex and the lists alone.
LEMMA OutsideStep ==
    ASSUME MInv(HoldPCs, RwPCs), NEW t \in Threads, NEW l \in RwPCs, Goto(t, l),
           UNCHANGED <<wqVars, m_owner>>, pc[t] \notin WaitPCs, l \notin WaitPCs,
           pc[t] \in HoldPCs <=> l \in HoldPCs, pc[t] \in WQPCs => l \in WQPCs
    PROVE  /\ MInv(HoldPCs, RwPCs)' /\ active' = active
           /\ pc' \in [Threads -> RwPCs] /\ pc'[t] = l
           /\ \A u \in Threads : u # t => pc'[u] = pc[u]
           /\ \A q \in Queues, u \in Threads : OnQ(q, u)' <=> OnQ(q, u)
  <1>1. /\ WaitqType' /\ active' = active /\ woken' = woken
        /\ \A q \in Queues, u \in Threads : OnQ(q, u)' <=> OnQ(q, u)
    BY SameLists, Zenon DEF MInv
  <1>2. /\ pc' \in [Threads -> RwPCs] /\ pc'[t] = l
        /\ \A u \in Threads : u # t => pc'[u] = pc[u]
    BY Moved, Zenon DEF MInv
  <1>3. MThread(HoldPCs, t)'
    <2>1. MThread(HoldPCs, t) /\ m_owner' = m_owner
      BY Zenon DEF MInv
    <2>2. pc[t] \notin QPCs \cup {"prepare", "finish_true"} /\ l \notin {"cond", "scheduler", "finish_true"}
      BY DEF QPCs, WaitPCs
    <2>3. m_owner = t => l \in HoldPCs
      BY <2>1, <2>2 DEF MThread, QPCs
    <2>4. l \in HoldPCs => m_owner = t
      BY <2>1, Zenon DEF MThread
    <2>5. /\ \A q \in Queues : OnQ(q, t) => q = "wr_wq" /\ l \in WQPCs
          /\ t \in active => m_owner = t /\ l \in WQPCs
      BY <2>1, <2>2, Zenon DEF MThread
    <2>6. l = "finish" => FALSE
      BY DEF WaitPCs
    <2> QED BY <1>1, <1>2, <2>1, <2>2, <2>3, <2>4, <2>5, <2>6, Zenon DEF MThread
  <1>4. ASSUME NEW u \in Threads, u # t PROVE MThread(HoldPCs, u)'
    BY <1>1, <1>2, <1>4, OtherThread, Zenon DEF MInv
  <1> QED BY <1>1, <1>2, <1>3, <1>4, Zenon DEF MInv

\* A reader, or the writer that downgrades, counts itself.
LEMMA CountStep ==
    ASSUME RwInv, NEW t \in Threads, r_count(t)
    PROVE  /\ RwInv' /\ pc[t] \in HoldPCs /\ pc'[t] = "release"
           /\ \A u \in Threads : u # t => pc'[u] = pc[u]
           /\ m_owner' = m_owner
  <1>1. /\ pc[t] \in {"locked", "writing"} /\ readers' = readers + 1 /\ Goto(t, "release")
        /\ op' = [op EXCEPT ![t] = NULL] /\ UNCHANGED <<wqVars, m_owner>>
    BY Zenon DEF r_count
  <1>2. /\ pc[t] \in HoldPCs /\ "release" \in HoldPCs /\ pc[t] \notin WaitPCs \cup WQPCs
        /\ "release" \notin WaitPCs /\ "release" \in RwPCs /\ t \notin Reads
    BY <1>1 DEF HoldPCs, WaitPCs, WQPCs, RwPCs, Reads, ReadPCs
  <1>3. /\ MInv(HoldPCs, RwPCs)' /\ pc'[t] = "release"
        /\ \A u \in Threads : u # t => pc'[u] = pc[u]
    BY <1>1, <1>2, OutsideStep, Zenon DEF RwInv
  <1>4. \A u \in Threads : u # t => pc'[u] \notin HoldPCs
    BY <1>2, <1>3, OneInside
  <1>5. readers' = Cardinality(Reads')
    <2>1. Reads' = Reads \cup {t}
      BY <1>3 DEF Reads, ReadPCs
    <2> QED BY <1>1, <1>2, <2>1, ReadersCounted, FS_AddElement, ZenonT(30) DEF RwInv
  <1>6. \A u \in Threads : RThread(u)'
    BY <1>3, <1>4 DEF RThread, HoldPCs, WritePCs
  <1>7. op' \in [Threads -> {"r", "w", NULL}]
    BY <1>1 DEF RwInv
  <1> QED BY <1>1, <1>2, <1>3, <1>5, <1>6, <1>7, Zenon DEF RwInv

\* The last reader goes, and is to wake up the writer.
LEMMA ReadUnlockStep ==
    ASSUME RwInv, NEW t \in Threads, tc_rw_r_unlock(t)
    PROVE  /\ RwInv' /\ pc[t] = "reading" /\ pc'[t] \in {"wakeup", "idle"}
           /\ \A u \in Threads : u # t => pc'[u] = pc[u]
           /\ m_owner' = m_owner
  <1> DEFINE l == IF readers = 1 THEN "wakeup" ELSE "idle"
  <1>1. /\ pc[t] = "reading" /\ readers' = readers - 1 /\ Goto(t, l)
        /\ op' = op /\ UNCHANGED <<wqVars, m_owner>>
    BY Zenon DEF tc_rw_r_unlock
  <1>2. /\ pc[t] \notin HoldPCs /\ l \notin HoldPCs /\ pc[t] \notin WaitPCs \cup WQPCs
        /\ l \notin WaitPCs /\ l \in RwPCs /\ t \in Reads /\ l \notin ReadPCs
    BY <1>1 DEF HoldPCs, WritePCs, WaitPCs, WQPCs, RwPCs, MutexPCs, Reads, ReadPCs
  <1>3. /\ MInv(HoldPCs, RwPCs)' /\ active' = active /\ pc'[t] = l
        /\ \A u \in Threads : u # t => pc'[u] = pc[u]
        /\ \A q \in Queues, u \in Threads : OnQ(q, u)' <=> OnQ(q, u)
    BY <1>1, <1>2, OutsideStep, Zenon DEF RwInv
  <1>4. readers \in Nat /\ readers # 0
    BY <1>2, ReadersCounted
  <1>5. readers' = Cardinality(Reads')
    <2>1. Reads' = Reads \ {t}
      BY <1>2, <1>3 DEF Reads
    <2> QED BY <1>1, <1>2, <2>1, ReadersCounted, FS_RemoveElement, Zenon DEF RwInv
  <1>6. ASSUME NEW u \in Threads PROVE RThread(u)'
    <2>1. RThread(u)
      BY Zenon DEF RwInv
    <2>2. readers' = 0 => pc'[t] = "wakeup"
      BY <1>1, <1>3, <1>4
    <2>3. CASE u = t
      BY <1>3, <2>3 DEF RThread
    <2>4. CASE u # t
      BY <1>3, <1>4, <2>1, <2>2, <2>4, RwAssumption DEF RThread
    <2> QED BY <2>3, <2>4
  <1> QED BY <1>1, <1>3, <1>5, <1>6, Zenon DEF RwInv

\* A thread inside looks at the count.
LEMMA LookStep ==
    ASSUME RwInv, NEW t \in Threads, w_test(t) \/ w_cond(t) \/ try_readers(t)
    PROVE  /\ RwInv' /\ pc[t] \in HoldPCs \ (ReadPCs \cup {"writing"})
           /\ pc'[t] \in HoldPCs \ ReadPCs /\ (pc'[t] = "writing" => readers = 0)
           /\ \A u \in Threads : u # t => pc'[u] = pc[u]
           /\ m_owner' = m_owner
  <1>1. PICK l : /\ Goto(t, l) /\ UNCHANGED <<wqVars, m_owner, readers>>
                 /\ \/ pc[t] = "w_cond" /\ l \in {"w_finish_true", "w_scheduler"}
                    \/ pc[t] \in {"locked", "try"} /\ l \in {"writing", "w_prepare", "w_failed"}
                 /\ l \in {"writing", "w_finish_true"} <=> readers = 0
    <2>1. CASE w_test(t)
      BY <2>1 DEF w_test, no_readers
    <2>2. CASE w_cond(t)
      BY <2>2 DEF w_cond, no_readers
    <2>3. CASE try_readers(t)
      BY <2>3 DEF try_readers, no_readers
    <2> QED BY <2>1, <2>2, <2>3
  <1>2. op' \in [Threads -> {"r", "w", NULL}]
    BY DEF RwInv, w_test, w_cond, try_readers
  <1>3. /\ pc[t] \in HoldPCs \ (ReadPCs \cup {"writing"}) /\ l \in HoldPCs \ ReadPCs
        /\ pc[t] \notin WaitPCs /\ l \notin WaitPCs /\ l \in RwPCs /\ pc[t] # "wakeup"
        /\ pc[t] \in WQPCs => pc[t] = "w_cond" /\ l \in WQPCs
    BY <1>1 DEF HoldPCs, WritePCs, WaitPCs, WQPCs, RwPCs, ReadPCs
  <1>4. /\ MInv(HoldPCs, RwPCs)' /\ active' = active /\ pc'[t] = l
        /\ \A u \in Threads : u # t => pc'[u] = pc[u]
        /\ \A q \in Queues, u \in Threads : OnQ(q, u)' <=> OnQ(q, u)
    BY <1>1, <1>3, OutsideStep, Zenon DEF RwInv
  <1>5. RThread(t)'
    <2>1. RThread(t)
      BY Zenon DEF RwInv
    <2> QED BY <1>1, <1>4, <2>1, RwAssumption DEF RThread
  <1>6. RwInv'
    <2>1. pc'[t] \in ReadPCs <=> pc[t] \in ReadPCs
      BY <1>3, <1>4
    <2>2. \A u \in Threads : /\ u # t /\ OnQ("wr_wq", u) => OnQ("wr_wq", u)'
                             /\ u # t /\ u \in active => u \in active'
      BY <1>4, RwAssumption, Zenon
    <2> QED BY <1>1, <1>2, <1>3, <1>4, <1>5, <2>1, <2>2, Kept, Zenon
  <1> QED BY <1>1, <1>3, <1>4, <1>6

\* The writer waits for the readers on wr_wq.
LEMMA WriterPrepare ==
    ASSUME RwInv, NEW t \in Threads, w_prepare(t)
    PROVE  /\ RwInv' /\ pc[t] = "w_prepare" /\ pc'[t] = "w_cond"
           /\ \A u \in Threads : u # t => pc'[u] = pc[u]
           /\ m_owner' = m_owner
  <1>1. /\ pc[t] = "w_prepare" /\ prepare_to_wait(t, "wr_wq") /\ Goto(t, "w_cond")
        /\ UNCHANGED <<m_owner, readers, op>>
    BY Zenon DEF w_prepare
  <1>2. /\ MThread(HoldPCs, t) /\ "w_cond" \in RwPCs /\ "w_prepare" \in HoldPCs
        /\ "w_cond" \in HoldPCs /\ "w_prepare" \notin QPCs \cup WQPCs /\ "w_cond" \in WQPCs
        /\ WQPCs \cap (WaitPCs \cup ReadPCs) = {} /\ "w_prepare" \notin ReadPCs
    BY DEF RwInv, MInv, RwPCs, WritePCs, HoldPCs, QPCs, WQPCs, WaitPCs, ReadPCs
  <1>3. t \notin active /\ (\A q \in Queues : ~OnQ(q, t)) /\ m_owner = t
    BY <1>1, <1>2, Zenon DEF MThread
  <1>4. /\ WaitqType' /\ active' = active
        /\ \A r \in Queues, u \in Threads : OnQ(r, u)' <=> OnQ(r, u) \/ (r = "wr_wq" /\ u = t)
        /\ \A u \in Threads : u # t => woken'[u] = woken[u]
    BY <1>1, <1>3, Prepare, RwAssumption, Zenon DEF RwInv, MInv
  <1>5. /\ pc' \in [Threads -> RwPCs] /\ pc'[t] = "w_cond"
        /\ \A u \in Threads : u # t => pc'[u] = pc[u]
    BY <1>1, <1>2, Moved, ZenonT(30) DEF RwInv, MInv
  <1>6. MThread(HoldPCs, t)'
    BY <1>1, <1>2, <1>3, <1>4, <1>5, MutexAssumption DEF MThread
  <1>7. ASSUME NEW u \in Threads, u # t PROVE MThread(HoldPCs, u)'
    BY <1>1, <1>4, <1>5, <1>7, OtherThread, Zenon DEF RwInv, MInv
  <1>8. MInv(HoldPCs, RwPCs)'
    BY <1>1, <1>4, <1>5, <1>6, <1>7, Zenon DEF RwInv, MInv
  <1>9. RThread(t)'
    BY <1>4, <1>5, RwAssumption DEF RThread
  <1>10. RwInv'
    <2>1. pc'[t] \in ReadPCs <=> pc[t] \in ReadPCs
      BY <1>1, <1>2, <1>5
    <2> QED BY <1>1, <1>4, <1>5, <1>8, <1>9, <2>1, Kept, RwAssumption, ZenonT(30) DEF RwInv
  <1> QED BY <1>1, <1>5, <1>10, Zenon

LEMMA WriterScheduler ==
    ASSUME RwInv, NEW t \in Threads, w_scheduler(t)
    PROVE  /\ RwInv' /\ pc[t] = "w_scheduler" /\ pc'[t] = "w_finish"
           /\ \A u \in Threads : u # t => pc'[u] = pc[u]
           /\ m_owner' = m_owner
  <1>1. /\ pc[t] = "w_scheduler" /\ tc_scheduler(t) /\ Goto(t, "w_finish")
        /\ UNCHANGED <<m_owner, readers, op>>
    BY Zenon DEF w_scheduler
  <1>2. /\ MThread(HoldPCs, t) /\ "w_finish" \in RwPCs /\ "w_scheduler" \in HoldPCs
        /\ "w_finish" \in HoldPCs /\ "w_scheduler" \in WQPCs /\ "w_finish" \in WQPCs
        /\ WQPCs \cap (WaitPCs \cup ReadPCs) = {} /\ QPCs \subseteq WaitPCs
    BY DEF RwInv, MInv, RwPCs, WritePCs, HoldPCs, QPCs, WQPCs, WaitPCs, ReadPCs
  <1>3. /\ WaitqType' /\ waiters' = waiters /\ active' \subseteq active /\ active \subseteq active' \cup {t}
        /\ \A u \in Threads : u # t => woken'[u] = woken[u]
    BY <1>1, Scheduled DEF RwInv, MInv
  <1>4. \A q \in Queues, u \in Threads : OnQ(q, u)' <=> OnQ(q, u)
    BY <1>3, Zenon DEF OnQ
  <1>5. /\ pc' \in [Threads -> RwPCs] /\ pc'[t] = "w_finish"
        /\ \A u \in Threads : u # t => pc'[u] = pc[u]
    BY <1>1, <1>2, Moved, ZenonT(30) DEF RwInv, MInv
  <1>6. MThread(HoldPCs, t)'
    <2>1. m_owner = t /\ \A q \in Queues : OnQ(q, t) => q = "wr_wq"
      BY <1>1, <1>2 DEF MThread
    <2> QED BY <1>1, <1>2, <1>3, <1>4, <1>5, <2>1, MutexAssumption DEF MThread
  <1>7. ASSUME NEW u \in Threads, u # t PROVE MThread(HoldPCs, u)'
    <2>1. u \in active' <=> u \in active
      BY <1>3, <1>7
    <2> QED BY <1>1, <1>3, <1>4, <1>5, <1>7, <2>1, OtherThread, Zenon DEF RwInv, MInv
  <1>8. MInv(HoldPCs, RwPCs)'
    BY <1>1, <1>3, <1>5, <1>6, <1>7, Zenon DEF RwInv, MInv
  <1>9. RThread(t)'
    BY <1>5 DEF RThread
  <1>10. RwInv'
    <2>1. pc'[t] \in ReadPCs <=> pc[t] \in ReadPCs
      BY <1>1, <1>2, <1>5
    <2>2. \A u \in Threads : u # t /\ u \in active => u \in active'
      BY <1>3
    <2> QED BY <1>1, <1>4, <1>5, <1>8, <1>9, <2>1, <2>2, Kept, RwAssumption, Zenon DEF RwInv
  <1> QED BY <1>1, <1>5, <1>10, Zenon

LEMMA WriterFinish ==
    ASSUME RwInv, NEW t \in Threads, w_finish(t)
    PROVE  /\ RwInv' /\ pc[t] \in {"w_finish", "w_finish_true"}
           /\ pc'[t] \in {"w_prepare", "w_failed", "writing"}
           /\ pc'[t] = "writing" => readers = 0
           /\ \A u \in Threads : u # t => pc'[u] = pc[u]
           /\ m_owner' = m_owner
  <1>1. PICK l : /\ Goto(t, l) /\ (finish_wait(t, "wr_wq") \/ finish_intr(t, "wr_wq"))
                 /\ \/ pc[t] = "w_finish" /\ l \in {"w_prepare", "w_failed"}
                    \/ pc[t] = "w_finish_true" /\ l = "writing"
                 /\ UNCHANGED <<m_owner, readers, op>>
    BY Zenon DEF w_finish, interrupted
  <1>2. /\ MThread(HoldPCs, t) /\ RThread(t) /\ l \in RwPCs /\ l \in HoldPCs /\ pc[t] \in HoldPCs
        /\ pc[t] \in WQPCs /\ pc[t] \notin ReadPCs \cup QPCs /\ l \notin WaitPCs \cup ReadPCs
        /\ pc[t] # "wakeup"
    BY <1>1 DEF RwInv, MInv, RwPCs, WritePCs, HoldPCs, WQPCs, WaitPCs, ReadPCs, QPCs
  <1>3. /\ WaitqType' /\ active' = active \ {t}
        /\ \A r \in Queues, u \in Threads : OnQ(r, u)' <=> OnQ(r, u) /\ ~(r = "wr_wq" /\ u = t)
        /\ \A u \in Threads : u # t => woken'[u] = woken[u]
    BY <1>1, Finish, RwAssumption, Zenon DEF RwInv, MInv
  <1>4. /\ pc' \in [Threads -> RwPCs] /\ pc'[t] = l
        /\ \A u \in Threads : u # t => pc'[u] = pc[u]
    BY <1>1, <1>2, Moved, ZenonT(30) DEF RwInv, MInv
  <1>5. t \notin active' /\ (\A q \in Queues : ~OnQ(q, t)') /\ m_owner = t
    BY <1>2, <1>3 DEF MThread
  <1>6. MThread(HoldPCs, t)'
    BY <1>1, <1>2, <1>4, <1>5, MutexAssumption DEF MThread, WaitPCs
  <1>7. ASSUME NEW u \in Threads, u # t PROVE MThread(HoldPCs, u)'
    BY <1>1, <1>3, <1>4, <1>7, OtherThread, Zenon DEF RwInv, MInv
  <1>8. MInv(HoldPCs, RwPCs)'
    BY <1>1, <1>3, <1>4, <1>6, <1>7, Zenon DEF RwInv, MInv
  <1>9. l = "writing" => readers = 0
    BY <1>1, <1>2 DEF RThread
  <1>10. RThread(t)'
    BY <1>1, <1>4, <1>9 DEF RThread
  <1>11. RwInv'
    <2>1. pc'[t] \in ReadPCs <=> pc[t] \in ReadPCs
      BY <1>2, <1>4
    <2> QED BY <1>1, <1>2, <1>3, <1>4, <1>8, <1>10, <2>1, Kept, RwAssumption, ZenonT(30) DEF RwInv
  <1> QED BY <1>1, <1>4, <1>9, <1>11

\* The reader that was the last wakes up the writer, if it sleeps: only the owner of
\* the mutex is on wr_wq.
LEMMA WakeupStep ==
    ASSUME RwInv, NEW t \in Threads, wakeup_writer(t)
    PROVE  /\ RwInv' /\ pc[t] = "wakeup" /\ pc'[t] = "idle"
           /\ \A u \in Threads : u # t => pc'[u] = pc[u]
           /\ m_owner' = m_owner
  <1>1. /\ pc[t] = "wakeup" /\ tc_waitq_wakeup_one("wr_wq") /\ Goto(t, "idle")
        /\ UNCHANGED <<m_owner, readers, op>>
    BY Zenon DEF wakeup_writer
  <1>2. /\ "idle" \in RwPCs /\ {"wakeup", "idle"} \cap (HoldPCs \cup WaitPCs \cup ReadPCs \cup WQPCs) = {}
        /\ WQPCs \subseteq HoldPCs /\ QPCs \subseteq WaitPCs
        /\ WQPCs \cap WaitPCs = {}
    BY DEF RwPCs, MutexPCs, WritePCs, HoldPCs, QPCs, WQPCs, WaitPCs, ReadPCs
  <1>3. /\ pc' \in [Threads -> RwPCs] /\ pc'[t] = "idle"
        /\ \A u \in Threads : u # t => pc'[u] = pc[u]
    BY <1>1, <1>2, Moved, ZenonT(30) DEF RwInv, MInv
  <1>4. \A u \in Threads : OnQ("wr_wq", u) => pc[u] \in WQPCs /\ m_owner = u
    <2> SUFFICES ASSUME NEW u \in Threads, OnQ("wr_wq", u) PROVE pc[u] \in WQPCs /\ m_owner = u
      OBVIOUS
    <2>1. MThread(HoldPCs, u)
      BY Zenon DEF RwInv, MInv
    <2> QED BY <1>2, <2>1, RwAssumption DEF MThread
  <1>5. /\ WaitqType' /\ woken' = woken
        /\ \A u \in Threads : u \in active' <=> u \in active \/ OnQ("wr_wq", u)
        /\ \A q \in Queues, u \in Threads : OnQ(q, u)' <=> OnQ(q, u) /\ q # "wr_wq"
    <2>1. CASE /\ waiters["wr_wq"] = <<>> /\ UNCHANGED <<waiters, active>>
               /\ \A u \in Threads : ~OnQ("wr_wq", u)
      <3>1. \A q \in Queues, u \in Threads : OnQ(q, u)' <=> OnQ(q, u)
        BY <2>1, Zenon DEF OnQ
      <3> QED BY <1>1, <2>1, <3>1, WakeupOne, RwAssumption, Zenon DEF RwInv, MInv
    <2>2. CASE ~(waiters["wr_wq"] = <<>>)
      <3>1. PICK h : /\ h \in Threads /\ OnQ("wr_wq", h) /\ active' = active \cup {h}
                     /\ \A r \in Queues, u \in Threads :
                           OnQ(r, u)' <=> OnQ(r, u) /\ ~(r = "wr_wq" /\ u = h)
        <4>1. /\ Head(waiters["wr_wq"]) \in Threads /\ OnQ("wr_wq", Head(waiters["wr_wq"]))
              /\ active' = active \cup {Head(waiters["wr_wq"])}
              /\ \A r \in Queues, u \in Threads :
                    OnQ(r, u)' <=> OnQ(r, u) /\ ~(r = "wr_wq" /\ u = Head(waiters["wr_wq"]))
          BY <1>1, <2>2, WakeupOne, RwAssumption, Zenon DEF RwInv, MInv
        <4> QED BY <4>1, Zenon
      <3>2. \A u \in Threads : OnQ("wr_wq", u) <=> u = h
        BY <1>4, <3>1, Zenon
      <3>3. WaitqType' /\ woken' = woken
        BY <1>1, WakeupOne, RwAssumption, Zenon DEF RwInv, MInv
      <3>4. \A u \in Threads : u \in active' <=> u \in active \/ OnQ("wr_wq", u)
        BY <3>1, <3>2
      <3>5. \A q \in Queues, u \in Threads : OnQ(q, u)' <=> OnQ(q, u) /\ q # "wr_wq"
        BY <3>1, <3>2, Zenon
      <3> QED BY <3>3, <3>4, <3>5, Zenon
    <2> QED BY <1>1, <2>1, <2>2, WakeupOne, RwAssumption, Zenon DEF RwInv, MInv
  <1>6. ASSUME NEW u \in Threads PROVE MThread(HoldPCs, u)'
    <2>1. MThread(HoldPCs, u)
      BY Zenon DEF RwInv, MInv
    <2>2. CASE u = t
      <3>1. m_owner # t /\ t \notin active /\ (\A q \in Queues : ~OnQ(q, t))
        BY <1>1, <1>2, <2>1, <2>2 DEF MThread, QPCs, WaitPCs
      <3>2. t \notin active' /\ (\A q \in Queues : ~OnQ(q, t)')
        BY <1>5, <3>1, RwAssumption, Zenon
      <3> QED BY <1>1, <1>2, <1>3, <2>2, <3>1, <3>2 DEF MThread
    <2>3. CASE u # t /\ ~OnQ("wr_wq", u)
      <3>1. (u \in active' <=> u \in active) /\ (\A q \in Queues : OnQ(q, u)' <=> OnQ(q, u))
        BY <1>5, <2>3, ZenonT(30)
      <3> QED BY <1>1, <1>3, <1>5, <2>1, <2>3, <3>1, OtherThread, Zenon
    <2>4. CASE u # t /\ OnQ("wr_wq", u)
      <3>1. /\ pc'[u] = pc[u] /\ pc[u] \in WQPCs /\ m_owner = u /\ m_owner' = u
            /\ \A q \in Queues : OnQ(q, u)' => FALSE
        BY <1>1, <1>3, <1>4, <1>5, <2>1, <2>4, ZenonT(30) DEF MThread, QPCs, WQPCs
      <3> QED BY <1>2, <3>1, MutexAssumption DEF MThread, WaitPCs
    <2> QED BY <2>2, <2>3, <2>4
  <1>7. MInv(HoldPCs, RwPCs)'
    BY <1>1, <1>3, <1>5, <1>6, Zenon DEF RwInv, MInv
  <1>8. ASSUME NEW u \in Threads PROVE RThread(u)'
    <2>1. RThread(u)
      BY Zenon DEF RwInv
    <2>2. CASE u = t
      BY <1>3, <2>2 DEF RThread
    <2>3. CASE u # t
      <3>1. pc'[u] = pc[u] /\ (OnQ("wr_wq", u) \/ u \in active => u \in active')
        BY <1>3, <1>5, <2>3, Zenon
      <3> QED BY <1>1, <2>1, <3>1 DEF RThread
    <2> QED BY <2>2, <2>3
  <1>9. Reads' = Reads
    BY <1>1, <1>2, <1>3 DEF Reads
  <1> QED BY <1>1, <1>3, <1>7, <1>8, <1>9, Zenon DEF RwInv

\* The steps of the mutex do not touch the readers and wr_wq.
LEMMA MutexFrame ==
    ASSUME RwInv, NEW t \in Threads, waiting(t)
    PROVE  /\ pc[t] \in WaitPCs /\ pc'[t] \in MutexPCs
           /\ \A u \in Threads : u # t => pc'[u] = pc[u]
           /\ \A u \in Threads : OnQ("wr_wq", u) => OnQ("wr_wq", u)'
           /\ \A u \in Threads : u # t /\ u \in active => u \in active'
  <1>1. PICK l \in MutexPCs : pc[t] \in WaitPCs /\ Goto(t, l)
    <2>1. PICK l : Goto(t, l) /\ l \in WaitPCs \cup {"idle", "locked"} /\ pc[t] \in WaitPCs
      <3>1. CASE test(t)
        BY <3>1, Zenon DEF test, given_or_free, cas_owner, WaitPCs
      <3>2. CASE prepare(t) \/ scheduler(t)
        BY <3>2, Zenon DEF prepare, scheduler, WaitPCs
      <3>3. CASE cond(t)
        BY <3>3, Zenon DEF cond, given_or_free, cas_owner, WaitPCs
      <3>4. CASE finish(t)
        BY <3>4, Zenon DEF finish, WaitPCs
      <3> QED BY <3>1, <3>2, <3>3, <3>4, ZenonT(30) DEF waiting
    <2> QED BY <2>1, Zenon DEF MutexPCs
  <1>2. pc'[t] = l /\ \A u \in Threads : u # t => pc'[u] = pc[u]
    <2>1. l \in RwPCs /\ pc \in [Threads -> RwPCs]
      BY Zenon DEF RwInv, MInv, RwPCs
    <2> QED BY <1>1, <2>1 DEF Goto
  <1>3. waiters'["wr_wq"] = waiters["wr_wq"] /\ active \subseteq active' \cup {t}
    <2>1. CASE test(t) \/ cond(t)
      BY <2>1 DEF test, cond, wqVars
    <2>2. CASE prepare(t)
      BY <2>2, RwAssumption DEF prepare, prepare_to_wait, RwInv, MInv, WaitqType
    <2>3. CASE scheduler(t)
      BY <2>3 DEF scheduler, tc_scheduler
    <2>4. CASE finish(t)
      BY <2>4, RwAssumption DEF finish, finish_wait, finish_intr, leave, RwInv, MInv, WaitqType
    <2> QED BY <2>1, <2>2, <2>3, <2>4, Zenon DEF waiting
  <1> QED BY <1>1, <1>2, <1>3 DEF OnQ

LEMMA WaitStep ==
    ASSUME RwInv, NEW t \in Threads, mutex_waiting(t)
    PROVE  /\ RwInv' /\ pc[t] \in WaitPCs /\ pc'[t] \in MutexPCs
           /\ \A u \in Threads : u # t => pc'[u] = pc[u]
  <1>1. waiting(t) /\ readers' = readers /\ op' = op
    BY Zenon DEF mutex_waiting
  <1>2. /\ pc[t] \in WaitPCs /\ pc'[t] \in MutexPCs
        /\ \A u \in Threads : u # t => pc'[u] = pc[u]
        /\ \A u \in Threads : OnQ("wr_wq", u) => OnQ("wr_wq", u)'
        /\ \A u \in Threads : u # t /\ u \in active => u \in active'
    BY <1>1, MutexFrame, Zenon
  <1>3. MInv(HoldPCs, RwPCs)'
    BY <1>1, WaitingStep, RwKinds, Zenon DEF RwInv
  <1>4. RThread(t)'
    BY <1>2 DEF RThread, MutexPCs, WaitPCs
  <1>5. /\ pc[t] # "wakeup" /\ (pc'[t] \in ReadPCs <=> pc[t] \in ReadPCs)
        /\ op' \in [Threads -> {"r", "w", NULL}]
    BY <1>1, <1>2 DEF MutexPCs, WaitPCs, ReadPCs, RwInv
  <1> QED BY <1>1, <1>2, <1>3, <1>4, <1>5, Kept, ZenonT(30)

\* tc_mutex_lock() and tc_mutex_trylock() on the mutex inside.
LEMMA EnterStep ==
    ASSUME RwInv, NEW t \in Threads,
           tc_rw_lock(t, "r") \/ tc_rw_lock(t, "w") \/ tc_rw_w_trylock(t)
    PROVE  /\ RwInv' /\ pc[t] = "idle" /\ pc'[t] \in {"idle", "test", "locked", "try"}
           /\ \A u \in Threads : u # t => pc'[u] = pc[u]
  <1>1. PICK a \in {"locked", "try"} : \E b \in {"idle", "test"} : cas_owner(t, a, b)
    BY Zenon DEF tc_rw_lock, tc_mutex_lock, tc_rw_w_trylock
  <1>2. PICK b \in {"idle", "test"} : cas_owner(t, a, b)
    BY <1>1
  <1>3. pc[t] = "idle" /\ readers' = readers /\ UNCHANGED wqVars
    BY Zenon DEF tc_rw_lock, tc_mutex_lock, tc_rw_w_trylock
  <1>4. op' \in [Threads -> {"r", "w", NULL}]
    BY DEF tc_rw_lock, tc_rw_w_trylock, RwInv
  <1>5. a \in HoldPCs /\ b \in RwPCs /\ a \in RwPCs
    BY DEF HoldPCs, RwPCs, MutexPCs, WaitPCs
  <1>6. MInv(HoldPCs, RwPCs)'
    BY <1>2, <1>3, <1>5, CasStep, RwKinds, Zenon DEF RwInv
  <1>7. pc'[t] \in {a, b} /\ \A u \in Threads : u # t => pc'[u] = pc[u]
    <2>1. pc \in [Threads -> RwPCs] /\ (Goto(t, a) \/ Goto(t, b))
      BY <1>2, Zenon DEF cas_owner, RwInv, MInv
    <2> QED BY <1>5, <2>1, Moved, ZenonT(30)
  <1>8. active' = active /\ \A q \in Queues, u \in Threads : OnQ(q, u)' <=> OnQ(q, u)
    BY <1>3, SameLists, Zenon DEF RwInv, MInv
  <1>9. /\ RThread(t)' /\ pc[t] # "wakeup" /\ (pc'[t] \in ReadPCs <=> pc[t] \in ReadPCs)
        /\ pc'[t] \in {"idle", "test", "locked", "try"}
    BY <1>3, <1>7 DEF RThread, ReadPCs
  <1> QED BY <1>3, <1>4, <1>6, <1>7, <1>8, <1>9, Kept, RwAssumption, Zenon

\* tc_mutex_unlock() of the mutex inside, by whoever holds it.
LEMMA LeaveStep ==
    ASSUME RwInv, NEW t \in Threads, unlock(t)
    PROVE  /\ RwInv' /\ pc[t] \in HoldPCs
           /\ \/ pc[t] = "release" /\ pc'[t] = "reading"
              \/ pc[t] \in {"w_failed", "writing"} /\ pc'[t] = "idle"
           /\ \A u \in Threads : u # t => pc'[u] = pc[u]
           /\ AsLock(HoldPCs)!LockNext
  <1>1. PICK l : /\ mutex_unlock(t) /\ Goto(t, l) /\ UNCHANGED <<readers, op>>
                 /\ \/ pc[t] = "release" /\ l = "reading"
                    \/ pc[t] \in {"w_failed", "writing"} /\ l = "idle"
    BY DEF unlock, unlock_from
  <1>2. /\ pc[t] \in HoldPCs /\ pc[t] \notin QPCs \cup WQPCs /\ l \in RwPCs
        /\ l \notin HoldPCs \cup WaitPCs /\ pc[t] # "wakeup" /\ (l \in ReadPCs <=> pc[t] \in ReadPCs)
    BY <1>1 DEF HoldPCs, WritePCs, QPCs, WQPCs, RwPCs, MutexPCs, WaitPCs, ReadPCs
  <1>3. MInv(HoldPCs, RwPCs)' /\ AsLock(HoldPCs)!LockNext
    BY <1>1, <1>2, UnlockStep, UnlockMaps, RwKinds, Zenon DEF RwInv
  <1>4. pc'[t] = l /\ \A u \in Threads : u # t => pc'[u] = pc[u]
    BY <1>1, <1>2, Moved, ZenonT(30) DEF RwInv, MInv
  <1>5. \A u \in Threads : u # t => pc'[u] \notin HoldPCs
    BY <1>2, <1>4, OneInside, ZenonT(30)
  <1>6. \A u \in Threads : RThread(u)'
    <2>1. \A u \in Threads : pc'[u] \notin HoldPCs
      BY <1>2, <1>4, <1>5, ZenonT(30)
    <2> QED BY <2>1 DEF RThread, HoldPCs, WritePCs
  <1>7. Reads' = Reads
    BY <1>2, <1>4 DEF Reads
  <1> QED BY <1>1, <1>2, <1>3, <1>4, <1>6, <1>7, Zenon DEF RwInv

LEMMA RwSignalStep ==
    ASSUME RwInv, NEW t \in Threads, rw_signal(t)
    PROVE  RwInv' /\ UNCHANGED <<m_owner, pc>>
  <1>1. /\ signal(t) /\ UNCHANGED <<readers, op>>
        /\ UNCHANGED <<waiters, active, woken, m_owner, pc>>
    BY Zenon DEF rw_signal, signal, tc_signal_fire
  <1>2. MInv(HoldPCs, RwPCs)'
    BY <1>1, SignalStep, Zenon DEF RwInv
  <1> QED BY <1>1, <1>2, Zenon DEF RwInv, RThread, Reads, OnQ

\* The steps of tc_rw_lock.
RwCases(t) ==
    \/ r_count(t) \/ unlock(t) \/ tc_rw_r_unlock(t) \/ rw_signal(t) \/ wakeup_writer(t)
    \/ mutex_waiting(t) \/ tc_rw_lock(t, "r") \/ tc_rw_lock(t, "w") \/ tc_rw_w_trylock(t)
    \/ w_test(t) \/ w_cond(t) \/ try_readers(t) \/ w_prepare(t) \/ w_scheduler(t) \/ w_finish(t)

LEMMA RwSplit == [RwNext]_rwVars => UNCHANGED rwVars \/ \E t \in Threads : RwCases(t)
  BY Zenon DEF RwNext, RwCases, rw_inside, rw_client

LEMMA RwStep == RwInv /\ [RwNext]_rwVars => RwInv'
  <1> SUFFICES ASSUME RwInv, [RwNext]_rwVars PROVE RwInv'
    OBVIOUS
  <1>1. CASE UNCHANGED rwVars
    BY <1>1, Zenon DEF rwVars, vars, wqVars, RwInv, RThread, Reads, MInv, MThread, WaitqType, OnQ
  <1>2. ASSUME NEW t \in Threads, RwCases(t) PROVE RwInv'
    BY <1>2, CountStep, LeaveStep, ReadUnlockStep, RwSignalStep, WakeupStep, WaitStep, EnterStep,
       LookStep, WriterPrepare, WriterScheduler, WriterFinish, Zenon DEF RwCases
  <1> QED BY <1>1, <1>2, RwSplit, Zenon

\* The inductive invariant holds in every reachable state of tc_rw_lock.
THEOREM RwInductive == RwSpec => []RwInv
  BY RwStart, RwStep, PTL DEF RwSpec

\* The variables of tc_rw_lock keep their types, and a thread is queued once.
THEOREM RwTyped == RwSpec => []RwTypeOK
  <1>1. RwInv => RwTypeOK
    <2> SUFFICES ASSUME RwInv PROVE RwTypeOK
      OBVIOUS
    <2>1. readers \in Int
      BY ReadersCounted
    <2> QED BY <2>1, Zenon DEF RwInv, MInv, RwTypeOK
  <1> QED BY <1>1, RwInductive, PTL

\* A writer of tc_rw_lock is alone, however many readers and writers there are.
THEOREM RwWriterAlone == RwSpec => []WriterAlone
  <1>1. RwInv => WriterAlone
    <2> SUFFICES ASSUME RwInv, NEW t \in Threads, NEW u \in Threads, pc[t] = "writing", t # u
                 PROVE  pc[u] \notin {"reading", "writing"}
      BY Zenon DEF WriterAlone
    <2>1. readers = 0 /\ pc[t] \in HoldPCs
      BY DEF RwInv, RThread, HoldPCs
    <2>2. Reads = {} /\ pc[u] \notin HoldPCs
      BY <2>1, ReadersCounted, OneInside
    <2> QED BY <2>2 DEF Reads, ReadPCs, HoldPCs
  <1> QED BY <1>1, RwInductive, PTL

\* A call that failed has given the mutex back, and who goes on inside is its owner.
THEOREM RwGivenBack == RwSpec => []MutexGivenBack
  <1>1. RwInv => MutexGivenBack
    <2> SUFFICES ASSUME RwInv, NEW t \in Threads
                 PROVE  /\ pc[t] \in {"idle", "reading", "wakeup"} => m_owner # t
                        /\ pc[t] \in HoldPCs => m_owner = t
      BY Zenon DEF MutexGivenBack
    <2>1. MThread(HoldPCs, t)
      BY Zenon DEF RwInv, MInv
    <2> QED BY <2>1 DEF MThread, HoldPCs, WritePCs
  <1> QED BY <1>1, RwInductive, PTL

\* A writer does not sleep on wr_wq once the readers have gone.
THEOREM RwWriterWoken == RwSpec => []WriterWoken
  <1>1. RwInv => WriterWoken
    BY Zenon DEF RwInv, RThread, WriterWoken
  <1> QED BY <1>1, RwInductive, PTL

LEMMA InnerMaps == RwInv /\ [RwNext]_rwVars => [AsLock(HoldPCs)!LockNext]_(AsLock(HoldPCs)!lockVars)
  <1> SUFFICES ASSUME RwInv, [RwNext]_rwVars
               PROVE  [AsLock(HoldPCs)!LockNext]_(AsLock(HoldPCs)!lockVars)
    OBVIOUS
  <1>1. ASSUME UNCHANGED <<m_owner, pc>> PROVE UNCHANGED AsLock(HoldPCs)!lockVars
    BY <1>1, Zenon DEF AsLock!lockVars
  <1>2. CASE UNCHANGED rwVars
    BY <1>1, <1>2, Zenon DEF rwVars, vars
  <1>3. ASSUME NEW t \in Threads, m_owner' = m_owner, \A u \in Threads : u # t => pc'[u] = pc[u],
               pc[t] \in WaitPCs <=> pc'[t] \in WaitPCs, pc[t] \in HoldPCs <=> pc'[t] \in HoldPCs
        PROVE  UNCHANGED AsLock(HoldPCs)!lockVars
    <2>1. /\ {u \in Threads : pc'[u] \in WaitPCs} = {u \in Threads : pc[u] \in WaitPCs}
          /\ {u \in Threads : pc'[u] \in HoldPCs} = {u \in Threads : pc[u] \in HoldPCs}
      BY <1>3
    <2> QED BY <1>3, <2>1, Zenon DEF AsLock!lockVars
  <1>4. ASSUME NEW t \in Threads, RwCases(t)
        PROVE  [AsLock(HoldPCs)!LockNext]_(AsLock(HoldPCs)!lockVars)
    <2>1. CASE rw_signal(t)
      BY <1>1, <2>1, RwSignalStep, ZenonT(30)
    <2>2. CASE unlock(t)
      BY <2>2, LeaveStep, Zenon
    <2>3. CASE mutex_waiting(t)
      BY <2>3, WaitingMaps, RwKinds, Zenon DEF mutex_waiting, RwInv
    <2>4. CASE tc_rw_lock(t, "r") \/ tc_rw_lock(t, "w") \/ tc_rw_w_trylock(t)
      <3>1. /\ "locked" \in HoldPCs /\ "try" \in HoldPCs /\ "idle" \in RwPCs /\ "test" \in RwPCs
        BY DEF HoldPCs, RwPCs, MutexPCs, WaitPCs
      <3>2. pc[t] = "idle" /\ (cas_owner(t, "locked", "test") \/ cas_owner(t, "try", "idle"))
        BY <2>4, Zenon DEF tc_rw_lock, tc_mutex_lock, tc_rw_w_trylock
      <3> QED BY <3>1, <3>2, CasMaps, RwKinds, Zenon DEF RwInv
    <2>5. CASE r_count(t)
      <3>1. pc[t] \in HoldPCs /\ pc'[t] = "release" /\ m_owner' = m_owner
            /\ \A u \in Threads : u # t => pc'[u] = pc[u]
        BY <2>5, CountStep, Zenon
      <3>2. "release" \in HoldPCs /\ "release" \notin WaitPCs /\ pc[t] \notin WaitPCs
        BY <3>1 DEF HoldPCs, WritePCs, WaitPCs
      <3> QED BY <1>3, <3>1, <3>2, Zenon
    <2>6. CASE tc_rw_r_unlock(t) \/ wakeup_writer(t)
      <3>1. pc[t] \in {"reading", "wakeup"} /\ pc'[t] \in {"wakeup", "idle"} /\ m_owner' = m_owner
            /\ \A u \in Threads : u # t => pc'[u] = pc[u]
        BY <2>6, ReadUnlockStep, WakeupStep, Zenon
      <3>2. {"reading", "wakeup", "idle"} \cap (HoldPCs \cup WaitPCs) = {}
        BY DEF HoldPCs, WritePCs, WaitPCs
      <3>3. pc[t] \notin HoldPCs \cup WaitPCs /\ pc'[t] \notin HoldPCs \cup WaitPCs
        BY <3>1, <3>2
      <3> QED BY <1>3, <3>1, <3>3, Zenon
    <2>7. CASE \/ w_test(t) \/ w_cond(t) \/ try_readers(t)
               \/ w_prepare(t) \/ w_scheduler(t) \/ w_finish(t)
      <3>1. /\ {"w_prepare", "w_cond", "w_scheduler", "w_finish", "w_finish_true", "w_failed",
                "writing"} \subseteq HoldPCs
            /\ HoldPCs \cap WaitPCs = {}
        BY DEF HoldPCs, WritePCs, WaitPCs
      <3>2. pc[t] \in HoldPCs /\ pc'[t] \in HoldPCs /\ m_owner' = m_owner
            /\ \A u \in Threads : u # t => pc'[u] = pc[u]
        BY <2>7, <3>1, LookStep, WriterPrepare, WriterScheduler, WriterFinish
      <3>3. pc[t] \notin WaitPCs /\ pc'[t] \notin WaitPCs
        BY <3>1, <3>2
      <3> QED BY <1>3, <3>2, <3>3, Zenon
    <2> QED BY <1>4, <2>1, <2>2, <2>3, <2>4, <2>5, <2>6, <2>7, Zenon DEF RwCases
  <1> QED BY <1>2, <1>4, RwSplit, Zenon

\* tc_rw_lock uses its mutex as a lock, and gives it back on every path.
THEOREM RwInnerRefines == RwSpec => InnerIsLock
  <1>1. RwInit => InnerLock!LockInit
    BY DEF RwInit, MutexInit, InnerLock!LockInit, WaitPCs, HoldPCs, WritePCs
  <1>2. [AsLock(HoldPCs)!LockNext]_(AsLock(HoldPCs)!lockVars) => [InnerLock!LockNext]_(InnerLock!lockVars)
    BY Zenon DEF AsLock!lockVars, InnerLock!lockVars, AsLock!LockNext, InnerLock!LockNext,
       AsLock!Ask, AsLock!Take, AsLock!Told, AsLock!GiveUp, AsLock!Release, AsLock!HandOver,
       InnerLock!Ask, InnerLock!Take, InnerLock!Told, InnerLock!GiveUp, InnerLock!Release, InnerLock!HandOver
  <1> QED BY <1>1, <1>2, InnerMaps, RwInductive, PTL DEF RwSpec, InnerIsLock, InnerLock!LockSpec

LEMMA AccessMaps == RwInv /\ [RwNext]_rwVars => [RwAccess!AccessNext]_(RwAccess!accessVars)
  <1> SUFFICES ASSUME RwInv, [RwNext]_rwVars
               PROVE  [RwAccess!AccessNext]_(RwAccess!accessVars)
    OBVIOUS
  <1> DEFINE R == {t \in Threads : pc[t] \in {"release", "reading"}}
             W == {t \in Threads : pc[t] = "writing"}
  <1>1. R = Reads /\ (readers = 0 => R = {})
    BY ReadersCounted DEF Reads, ReadPCs
  <1>2. ASSUME NEW t \in Threads, \A u \in Threads : u # t => pc'[u] = pc[u]
        PROVE  /\ R' = IF pc'[t] \in ReadPCs THEN R \cup {t} ELSE R \ {t}
               /\ W' = IF pc'[t] = "writing" THEN W \cup {t} ELSE W \ {t}
    BY <1>2 DEF ReadPCs
  <1>3. ASSUME NEW t \in Threads, \A u \in Threads : u # t => pc'[u] = pc[u],
               pc[t] \in ReadPCs <=> pc'[t] \in ReadPCs, pc[t] = "writing" <=> pc'[t] = "writing"
        PROVE  UNCHANGED RwAccess!accessVars
    <2>1. R' = R /\ W' = W
      BY <1>3 DEF ReadPCs
    <2> QED BY <2>1, ZenonT(30) DEF RwAccess!accessVars
  <1>4. ASSUME NEW t \in Threads, pc[t] \in HoldPCs PROVE W \subseteq {t}
    BY <1>4, OneInside DEF HoldPCs
  <1>5. ASSUME NEW t \in Threads, \A u \in Threads : u # t => pc'[u] = pc[u], pc[t] \in HoldPCs,
               pc[t] \notin ReadPCs, pc[t] # "writing", pc'[t] = "writing", readers = 0
        PROVE  RwAccess!AccessNext
    <2>1. R = {} /\ W = {}
      BY <1>1, <1>4, <1>5
    <2>2. R' = {} /\ W' = {t}
      BY <1>2, <1>5, <2>1 DEF ReadPCs
    <2>3. RwAccess!BeginWrite(t)
      BY <2>1, <2>2 DEF RwAccess!BeginWrite
    <2> QED BY <2>3, ZenonT(30) DEF RwAccess!AccessNext
  <1>6. CASE UNCHANGED rwVars
    BY <1>6, Zenon DEF rwVars, vars, RwAccess!accessVars
  <1>7. ASSUME NEW t \in Threads, RwCases(t)
        PROVE  [RwAccess!AccessNext]_(RwAccess!accessVars)
    <2>1. CASE rw_signal(t)
      <3>1. pc' = pc
        BY <2>1, RwSignalStep, Zenon
      <3> QED BY <3>1, Zenon DEF RwAccess!accessVars
    <2>2. CASE unlock(t)
      <3>1. /\ \/ pc[t] = "release" /\ pc'[t] = "reading"
               \/ pc[t] \in {"w_failed", "writing"} /\ pc'[t] = "idle"
            /\ \A u \in Threads : u # t => pc'[u] = pc[u]
        BY <2>2, LeaveStep, Zenon
      <3>2. CASE pc[t] = "writing"
        <4>1. R' = R \ {t} /\ W' = W \ {t} /\ t \notin R /\ W = {t}
          BY <1>2, <1>4, <3>1, <3>2 DEF ReadPCs, HoldPCs
        <4>2. RwAccess!EndWrite(t)
          BY <4>1 DEF RwAccess!EndWrite
        <4> QED BY <4>2, Zenon DEF RwAccess!AccessNext
      <3>3. CASE pc[t] # "writing"
        <4>1. /\ pc[t] \in ReadPCs <=> pc'[t] \in ReadPCs
              /\ pc[t] = "writing" <=> pc'[t] = "writing"
          BY <3>1, <3>3 DEF ReadPCs
        <4> QED BY <1>3, <3>1, <4>1, ZenonT(30)
      <3> QED BY <3>2, <3>3
    <2>3. CASE \/ mutex_waiting(t) \/ tc_rw_lock(t, "r") \/ tc_rw_lock(t, "w") \/ tc_rw_w_trylock(t)
               \/ w_prepare(t) \/ w_scheduler(t) \/ wakeup_writer(t)
      <3> DEFINE S == MutexPCs \cup {"try", "w_prepare", "w_cond", "w_scheduler", "w_finish", "wakeup"}
      <3>1. /\ pc[t] \in S /\ pc'[t] \in S /\ \A u \in Threads : u # t => pc'[u] = pc[u]
        BY <2>3, WaitStep, EnterStep, WriterPrepare, WriterScheduler, WakeupStep DEF MutexPCs, WaitPCs
      <3>2. S \cap (ReadPCs \cup {"writing"}) = {}
        BY DEF MutexPCs, WaitPCs, ReadPCs
      <3>3. pc[t] \notin ReadPCs \cup {"writing"} /\ pc'[t] \notin ReadPCs \cup {"writing"}
        BY <3>1, <3>2
      <3> QED BY <1>3, <3>1, <3>3
    <2>4. CASE r_count(t)
      <3>1. /\ pc[t] \in {"locked", "writing"} /\ pc[t] \in HoldPCs /\ pc'[t] = "release"
            /\ \A u \in Threads : u # t => pc'[u] = pc[u]
        BY <2>4, CountStep, Zenon DEF r_count
      <3>2. R' = R \cup {t} /\ W' = W \ {t} /\ W \subseteq {t} /\ t \notin R
        BY <1>2, <1>4, <3>1 DEF ReadPCs
      <3>3. CASE pc[t] = "locked"
        <4>1. RwAccess!BeginRead(t)
          BY <3>2, <3>3 DEF RwAccess!BeginRead
        <4> QED BY <4>1, Zenon DEF RwAccess!AccessNext
      <3>4. CASE pc[t] = "writing"
        <4>1. RwAccess!Downgrade(t)
          BY <3>2, <3>4 DEF RwAccess!Downgrade
        <4> QED BY <4>1, Zenon DEF RwAccess!AccessNext
      <3> QED BY <3>1, <3>3, <3>4
    <2>5. CASE tc_rw_r_unlock(t)
      <3>1. /\ pc[t] = "reading" /\ pc'[t] \in {"wakeup", "idle"}
            /\ \A u \in Threads : u # t => pc'[u] = pc[u]
        BY <2>5, ReadUnlockStep, Zenon
      <3>2. R' = R \ {t} /\ W' = W \ {t} /\ t \in R /\ t \notin W
        BY <1>2, <3>1 DEF ReadPCs
      <3>3. RwAccess!EndRead(t)
        BY <3>2 DEF RwAccess!EndRead
      <3> QED BY <3>3, Zenon DEF RwAccess!AccessNext
    <2>6. CASE w_test(t) \/ w_cond(t) \/ try_readers(t) \/ w_finish(t)
      <3>1. {"w_finish", "w_finish_true", "w_prepare", "w_failed", "writing"} \subseteq HoldPCs \ ReadPCs
        BY DEF HoldPCs, WritePCs, ReadPCs
      <3>2. /\ pc[t] \in HoldPCs \ (ReadPCs \cup {"writing"}) /\ pc'[t] \in HoldPCs \ ReadPCs
            /\ pc'[t] = "writing" => readers = 0
            /\ \A u \in Threads : u # t => pc'[u] = pc[u]
        BY <2>6, <3>1, LookStep, WriterFinish
      <3>3. pc[t] \in HoldPCs /\ pc[t] \notin ReadPCs /\ pc[t] # "writing" /\ pc'[t] \notin ReadPCs
        BY <3>2
      <3> QED BY <1>3, <1>5, <3>2, <3>3, Zenon
    <2> QED BY <1>7, <2>1, <2>2, <2>3, <2>4, <2>5, <2>6, Zenon DEF RwCases
  <1> QED BY <1>6, <1>7, RwSplit, Zenon

\* tc_rw_lock is a reader/writer lock: every step of it is an operation of
\* ReadersWriters or invisible there, also the downgrade of tc_rw_w2r_lock().
THEOREM RwRefines == RwSpec => RwImplements
  <1>1. RwInit => RwAccess!AccessInit
    BY DEF RwInit, MutexInit, RwAccess!AccessInit
  <1> QED BY <1>1, AccessMaps, RwInductive, PTL DEF RwSpec, RwImplements, RwAccess!AccessSpec
=============================================================================
