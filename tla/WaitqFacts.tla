----------------------------- MODULE WaitqFacts -----------------------------
(***************************************************************************)
(* What the operations of TcWaitq do to the lists of the queues and to the *)
(* active events, for the proofs about what is built on wait queues.       *)
(***************************************************************************)
EXTENDS TcWaitq, TLAPS

OnQ(q, t) == Contains(waiters[q], t)

\* The elements of a concatenation.
LEMMA Concat ==
    ASSUME NEW S, NEW a \in Seq(S), NEW b \in Seq(S)
    PROVE  /\ a \o b \in Seq(S) /\ Len(a \o b) = Len(a) + Len(b)
           /\ \A j \in 1..(Len(a) + Len(b)) :
                 (a \o b)[j] = IF j <= Len(a) THEN a[j] ELSE b[j - Len(a)]
  OBVIOUS

\* Taking the i-th element out of a list leaves all the others, each once.
LEMMA RemoveFromList ==
    ASSUME NEW S, NEW s \in Seq(S), IsInjective(s), NEW i \in 1..Len(s)
    PROVE  LET r == RemoveAt(s, i) IN
           /\ r \in Seq(S) /\ Len(r) = Len(s) - 1 /\ IsInjective(r)
           /\ \A x : Contains(r, x) <=> Contains(s, x) /\ x # s[i]
  <1> DEFINE a == SubSeq(s, 1, i - 1)
             b == SubSeq(s, i + 1, Len(s))
             r == RemoveAt(s, i)
  <1>1. a \in Seq(S) /\ Len(a) = i - 1 /\ \A j \in 1..(i - 1) : a[j] = s[j]
    OBVIOUS
  <1>2. b \in Seq(S) /\ Len(b) = Len(s) - i /\ \A j \in 1..(Len(s) - i) : b[j] = s[i + j]
    OBVIOUS
  <1>3. /\ r \in Seq(S) /\ Len(r) = Len(s) - 1
        /\ \A j \in 1..(Len(s) - 1) : r[j] = IF j < i THEN s[j] ELSE s[j + 1]
    <2>1. r = a \o b
      BY Zenon DEF RemoveAt
    <2>2. /\ a \o b \in Seq(S) /\ Len(a \o b) = Len(a) + Len(b)
          /\ \A j \in 1..(Len(a) + Len(b)) :
                (a \o b)[j] = IF j <= Len(a) THEN a[j] ELSE b[j - Len(a)]
      BY <1>1, <1>2, Concat, Zenon
    <2> HIDE DEF a, b, r
    <2>3. ASSUME NEW j \in 1..(Len(s) - 1)
          PROVE  r[j] = IF j < i THEN s[j] ELSE s[j + 1]
      <3>0. j \in 1..(Len(a) + Len(b)) /\ (j <= Len(a) <=> j < i)
        BY <1>1, <1>2
      <3>1. CASE j < i
        <4>1. r[j] = a[j] /\ j \in 1..(i - 1)
          BY <2>1, <2>2, <3>0, <3>1
        <4> QED BY <1>1, <3>1, <4>1, Zenon
      <3>2. CASE ~(j < i)
        <4>1. r[j] = b[j - Len(a)]
          BY <2>1, <2>2, <3>0, <3>2, Zenon
        <4>2. Len(a) = i - 1 /\ j - (i - 1) \in 1..(Len(s) - i) /\ i + (j - (i - 1)) = j + 1
          BY <1>1, <3>2
        <4>3. b[j - (i - 1)] = s[j + 1]
          BY <1>2, <4>2, Zenon
        <4> QED BY <3>2, <4>1, <4>2, <4>3, Zenon
      <3> QED BY <3>1, <3>2, Zenon
    <2> QED BY <1>1, <1>2, <2>1, <2>2, <2>3
  <1> HIDE DEF r
  <1>4. IsInjective(r)
    <2>1. DOMAIN r = 1..(Len(s) - 1) /\ DOMAIN s = 1..Len(s)
      BY <1>3
    <2>2. ASSUME NEW j \in 1..(Len(s) - 1), NEW k \in 1..(Len(s) - 1), r[j] = r[k]
          PROVE  j = k
      <3> DEFINE at(m) == IF m < i THEN m ELSE m + 1
      <3>1. at(j) \in DOMAIN s /\ at(k) \in DOMAIN s /\ s[at(j)] = s[at(k)]
        BY <1>3, <2>1, <2>2
      <3>2. at(j) = at(k)
        BY <3>1, Zenon DEF IsInjective
      <3> QED BY <3>2
    <2> QED BY <2>1, <2>2, Zenon DEF IsInjective
  <1>5. ASSUME NEW x PROVE Contains(r, x) <=> Contains(s, x) /\ x # s[i]
    <2>1. ASSUME Contains(r, x) PROVE Contains(s, x) /\ x # s[i]
      <3>1. PICK j \in 1..(Len(s) - 1) : r[j] = x
        BY <1>3, <2>1 DEF Contains
      <3>2. PICK k \in 1..Len(s) : k # i /\ s[k] = x
        BY <1>3, <3>1
      <3>3. DOMAIN s = 1..Len(s)
        BY <1>3
      <3> QED BY <3>2, <3>3, Zenon DEF Contains, IsInjective
    <2>2. ASSUME Contains(s, x), x # s[i] PROVE Contains(r, x)
      <3>1. PICK j \in 1..Len(s) : s[j] = x
        BY <2>2, Zenon DEF Contains
      <3>2. CASE j < i
        BY <1>3, <3>1, <3>2 DEF Contains
      <3>3. CASE j > i
        <4>1. j - 1 \in 1..(Len(s) - 1) /\ r[j - 1] = x
          BY <1>3, <3>1, <3>3
        <4> QED BY <1>3, <4>1, Zenon DEF Contains
      <3> QED BY <2>2, <3>1, <3>2, <3>3
    <2> QED BY <2>1, <2>2, Zenon
  <1> QED BY <1>3, <1>4, <1>5, Zenon DEF r

\* An element that is new to a list is on it once after it was appended.
LEMMA AppendNew ==
    ASSUME NEW S, NEW s \in Seq(S), IsInjective(s), NEW e \in S, ~Contains(s, e)
    PROVE  LET r == Append(s, e) IN
           /\ r \in Seq(S) /\ Len(r) = Len(s) + 1 /\ IsInjective(r)
           /\ \A x : Contains(r, x) <=> Contains(s, x) \/ x = e
  <1>1. PICK r : r = Append(s, e)
    BY Zenon
  <1>2. /\ r \in Seq(S) /\ Len(r) = Len(s) + 1 /\ r[Len(s) + 1] = e
        /\ \A j \in 1..Len(s) : r[j] = s[j]
    BY <1>1
  <1>3. IsInjective(r)
    BY <1>2 DEF IsInjective, Contains
  <1>4. \A x : Contains(r, x) <=> Contains(s, x) \/ x = e
    BY <1>2 DEF Contains
  <1> QED BY <1>1, <1>2, <1>3, <1>4, Zenon

\* The first waiter is taken off the list.
LEMMA TailOf ==
    ASSUME NEW s \in Seq(Threads), IsInjective(s), s # <<>>
    PROVE  /\ Head(s) \in Threads /\ Contains(s, Head(s))
           /\ Tail(s) \in Seq(Threads) /\ IsInjective(Tail(s))
           /\ \A x : Contains(Tail(s), x) <=> Contains(s, x) /\ x # Head(s)
  <1>1. /\ Len(s) \in Nat /\ Len(s) > 0 /\ Head(s) = s[1] /\ Head(s) \in Threads
        /\ Tail(s) \in Seq(Threads) /\ Len(Tail(s)) = Len(s) - 1
        /\ \A i \in 1..(Len(s) - 1) : Tail(s)[i] = s[i + 1]
    OBVIOUS
  <1>2. DOMAIN s = 1..Len(s) /\ DOMAIN Tail(s) = 1..(Len(s) - 1)
    BY <1>1
  <1>3. IsInjective(Tail(s))
    <2> SUFFICES ASSUME NEW i \in 1..(Len(s) - 1), NEW j \in 1..(Len(s) - 1),
                        Tail(s)[i] = Tail(s)[j]
                 PROVE  i = j
      BY <1>2, Zenon DEF IsInjective
    <2>1. i + 1 \in DOMAIN s /\ j + 1 \in DOMAIN s /\ s[i + 1] = s[j + 1]
      BY <1>1, <1>2
    <2>2. i + 1 = j + 1
      BY <2>1, Zenon DEF IsInjective
    <2> QED BY <2>2
  <1>4. \A i \in 1..(Len(s) - 1) : s[i + 1] # s[1]
    <2> SUFFICES ASSUME NEW i \in 1..(Len(s) - 1), s[i + 1] = s[1] PROVE FALSE
      OBVIOUS
    <2>1. i + 1 \in DOMAIN s /\ 1 \in DOMAIN s
      BY <1>1, <1>2
    <2>2. i + 1 = 1
      BY <2>1, Zenon DEF IsInjective
    <2> QED BY <2>2
  <1>5. ASSUME NEW x PROVE Contains(Tail(s), x) <=> Contains(s, x) /\ x # Head(s)
    <2>1. ASSUME Contains(Tail(s), x) PROVE Contains(s, x) /\ x # Head(s)
      <3>1. PICK i \in 1..(Len(s) - 1) : Tail(s)[i] = x
        BY <1>1, <2>1 DEF Contains
      <3>2. i + 1 \in 1..Len(s) /\ s[i + 1] = x
        BY <1>1, <3>1
      <3> QED BY <1>1, <1>4, <3>2, <3>1 DEF Contains
    <2>2. ASSUME Contains(s, x), x # Head(s) PROVE Contains(Tail(s), x)
      <3>1. PICK i \in 1..Len(s) : s[i] = x
        BY <2>2 DEF Contains
      <3>2. i # 1
        BY <1>1, <2>2, <3>1
      <3>3. i - 1 \in 1..Len(Tail(s)) /\ Tail(s)[i - 1] = x
        BY <1>1, <3>1, <3>2
      <3> QED BY <3>3, Zenon DEF Contains
    <2> QED BY <2>1, <2>2
  <1>6. Contains(s, Head(s))
    BY <1>1 DEF Contains
  <1> QED BY <1>1, <1>3, <1>5, <1>6

\* A list without t.
LEMMA RemoveOf ==
    ASSUME NEW s \in Seq(Threads), IsInjective(s), NEW t \in Threads
    PROVE  LET r == RemoveFirst(s, t) IN
           /\ r \in Seq(Threads) /\ IsInjective(r)
           /\ \A x : Contains(r, x) <=> Contains(s, x) /\ x # t
  <1>1. CASE Contains(s, t)
    <2> DEFINE i == CHOOSE i \in 1..Len(s) : s[i] = t
    <2>1. i \in 1..Len(s) /\ s[i] = t
      BY <1>1, Zenon DEF Contains
    <2>2. RemoveFirst(s, t) = RemoveAt(s, i)
      BY <1>1, Zenon DEF RemoveFirst
    <2> HIDE DEF i
    <2>3. /\ RemoveAt(s, i) \in Seq(Threads) /\ IsInjective(RemoveAt(s, i))
          /\ \A x : Contains(RemoveAt(s, i), x) <=> Contains(s, x) /\ x # s[i]
      BY <2>1, RemoveFromList
    <2> QED BY <2>1, <2>2, <2>3, Zenon
  <1>2. CASE ~Contains(s, t)
    BY <1>2, Zenon DEF RemoveFirst
  <1> QED BY <1>1, <1>2, Zenon

\* At first the queues are empty.
LEMMA InitQueues ==
    ASSUME WaitqInit PROVE WaitqType /\ active = {} /\ \A q \in Queues, t \in Threads : ~OnQ(q, t)
  <1>1. waiters = [q \in Queues |-> <<>>] /\ active = {} /\ sig = {}
        /\ woken = [t \in Threads |-> NULL]
    BY Zenon DEF WaitqInit
  <1>2. <<>> \in Seq(Threads) /\ IsInjective(<<>>) /\ \A t : ~Contains(<<>>, t)
    BY DEF IsInjective, Contains
  <1> QED BY <1>1, <1>2 DEF WaitqType, OnQ

\* prepare_to_wait() appends t to the list of q.
LEMMA Prepare ==
    ASSUME WaitqType, NEW t \in Threads, NEW q \in Queues, t \notin active,
           \A r \in Queues : ~OnQ(r, t), prepare_to_wait(t, q)
    PROVE  /\ WaitqType' /\ active' = active
           /\ \A r \in Queues, u \in Threads : OnQ(r, u)' <=> OnQ(r, u) \/ (r = q /\ u = t)
           /\ \A u \in Threads : u # t => woken'[u] = woken[u]
  <1>1. /\ waiters \in [Queues -> Seq(Threads)] /\ IsInjective(waiters[q])
        /\ waiters' = [waiters EXCEPT ![q] = Append(waiters[q], t)]
    BY Zenon DEF WaitqType, prepare_to_wait
  <1>2. /\ Append(waiters[q], t) \in Seq(Threads) /\ IsInjective(Append(waiters[q], t))
        /\ \A x : Contains(Append(waiters[q], t), x) <=> Contains(waiters[q], x) \/ x = t
    BY <1>1, AppendNew DEF OnQ
  <1>3. /\ waiters' \in [Queues -> Seq(Threads)]
        /\ \A r \in Queues : waiters'[r] = IF r = q THEN Append(waiters[q], t) ELSE waiters[r]
    BY <1>1, <1>2
  <1>4. /\ \A r \in Queues : IsInjective(waiters'[r])
        /\ \A r \in Queues, u \in Threads : OnQ(r, u)' <=> OnQ(r, u) \/ (r = q /\ u = t)
    BY <1>2, <1>3, Zenon DEF WaitqType, OnQ
  <1>5. /\ woken' \in [Threads -> {NULL, "event", "signal"}] /\ active' = active /\ sig' = sig
        /\ \A u \in Threads : u # t => woken'[u] = woken[u]
    BY Zenon DEF WaitqType, prepare_to_wait
  <1>6. ASSUME NEW r \in Queues, NEW u \in Threads, OnQ(r, u)'
        PROVE  u \notin active' /\ \A p \in Queues \ {r} : ~OnQ(p, u)'
    <2>1. CASE u = t
      BY <1>4, <1>5, <1>6, <2>1, Zenon
    <2>2. CASE u # t
      <3>1. OnQ(r, u) /\ \A p \in Queues : OnQ(p, u)' => OnQ(p, u)
        BY <1>4, <1>6, <2>2, Zenon
      <3>2. u \notin active /\ \A p \in Queues \ {r} : ~OnQ(p, u)
        BY <3>1, Zenon DEF WaitqType, OnQ
      <3> QED BY <1>5, <3>1, <3>2, Zenon
    <2> QED BY <2>1, <2>2
  <1>7. WaitqType'
    BY <1>3, <1>4, <1>5, <1>6, Zenon DEF WaitqType, OnQ
  <1> QED BY <1>4, <1>5, <1>7, Zenon

\* leave() takes the event of t off q or off the active events.
LEMMA Leave ==
    ASSUME WaitqType, NEW t \in Threads, NEW q \in Queues, leave(t, q)
    PROVE  /\ waiters' \in [Queues -> Seq(Threads)]
           /\ \A r \in Queues : IsInjective(waiters'[r])
           /\ active' = active \ {t}
           /\ \A r \in Queues, u \in Threads : OnQ(r, u)' <=> OnQ(r, u) /\ ~(r = q /\ u = t)
  <1>1. /\ waiters \in [Queues -> Seq(Threads)] /\ IsInjective(waiters[q])
        /\ waiters' = [waiters EXCEPT ![q] = RemoveFirst(waiters[q], t)]
        /\ active' = active \ {t}
    BY Zenon DEF WaitqType, leave
  <1>2. /\ RemoveFirst(waiters[q], t) \in Seq(Threads) /\ IsInjective(RemoveFirst(waiters[q], t))
        /\ \A x : Contains(RemoveFirst(waiters[q], t), x) <=> Contains(waiters[q], x) /\ x # t
    BY <1>1, RemoveOf
  <1>3. /\ waiters' \in [Queues -> Seq(Threads)]
        /\ \A r \in Queues : waiters'[r] = IF r = q THEN RemoveFirst(waiters[q], t) ELSE waiters[r]
    BY <1>1, <1>2
  <1> QED BY <1>1, <1>2, <1>3, Zenon DEF WaitqType, OnQ

\* finish_wait() and finish_intr() leave the queue.
LEMMA Finish ==
    ASSUME WaitqType, NEW t \in Threads, NEW q \in Queues,
           finish_wait(t, q) \/ finish_intr(t, q)
    PROVE  /\ WaitqType' /\ active' = active \ {t}
           /\ \A r \in Queues, u \in Threads : OnQ(r, u)' <=> OnQ(r, u) /\ ~(r = q /\ u = t)
           /\ \A u \in Threads : u # t => woken'[u] = woken[u]
  <1>1. leave(t, q)
    BY Zenon DEF finish_wait, finish_intr
  <1>2. /\ woken' \in [Threads -> {NULL, "event", "signal"}] /\ sig' \subseteq Threads
        /\ \A u \in Threads : u # t => woken'[u] = woken[u]
    BY DEF WaitqType, finish_wait, finish_intr
  <1>3. /\ waiters' \in [Queues -> Seq(Threads)] /\ active' = active \ {t}
        /\ \A r \in Queues : IsInjective(waiters'[r])
        /\ \A r \in Queues, u \in Threads : OnQ(r, u)' <=> OnQ(r, u) /\ ~(r = q /\ u = t)
    BY <1>1, Leave, Zenon
  <1>4. active' \subseteq Threads
    BY <1>3, Zenon DEF WaitqType
  <1>5. ASSUME NEW r \in Queues, NEW u \in Threads, Contains(waiters'[r], u)
        PROVE  u \notin active' /\ \A s \in Queues \ {r} : ~Contains(waiters'[s], u)
    <2>1. OnQ(r, u)
      BY <1>3, <1>5, Zenon DEF OnQ
    <2>2. u \notin active /\ \A s \in Queues \ {r} : ~OnQ(s, u)
      BY <2>1, Zenon DEF WaitqType, OnQ
    <2> QED BY <1>3, <2>2, Zenon DEF OnQ
  <1>6. WaitqType'
    BY <1>2, <1>3, <1>4, <1>5, Zenon DEF WaitqType
  <1> QED BY <1>2, <1>3, <1>6, Zenon

\* tc_waitq_wakeup_one() makes the first waiter's event active, if there is a waiter.
LEMMA WakeupOne ==
    ASSUME WaitqType, NEW q \in Queues, tc_waitq_wakeup_one(q)
    PROVE  /\ WaitqType' /\ woken' = woken
           /\ \/ /\ waiters[q] = <<>> /\ UNCHANGED <<waiters, active>>
                 /\ \A u \in Threads : ~OnQ(q, u)
              \/ /\ waiters[q] # <<>> /\ Head(waiters[q]) \in Threads /\ OnQ(q, Head(waiters[q]))
                 /\ active' = active \cup {Head(waiters[q])}
                 /\ \A r \in Queues, u \in Threads :
                       OnQ(r, u)' <=> OnQ(r, u) /\ ~(r = q /\ u = Head(waiters[q]))
  <1> DEFINE h == Head(waiters[q])
  <1>1. waiters \in [Queues -> Seq(Threads)] /\ IsInjective(waiters[q]) /\ waiters[q] \in Seq(Threads)
    BY Zenon DEF WaitqType
  <1>2. CASE waiters[q] = <<>>
    <2>1. waiters' = waiters
      BY <1>1, <1>2 DEF tc_waitq_wakeup_one
    <2>2. active' = active /\ sig' = sig /\ woken' = woken
      BY <1>2 DEF tc_waitq_wakeup_one, WaitqType
    <2>3. \A u \in Threads : ~OnQ(q, u)
      BY <1>2 DEF OnQ, Contains
    <2> QED BY <1>2, <2>1, <2>2, <2>3, Zenon DEF WaitqType
  <1>3. CASE waiters[q] # <<>>
    <2>1. /\ h \in Threads /\ Contains(waiters[q], h)
          /\ Tail(waiters[q]) \in Seq(Threads) /\ IsInjective(Tail(waiters[q]))
          /\ \A x : Contains(Tail(waiters[q]), x) <=> Contains(waiters[q], x) /\ x # h
      BY <1>1, <1>3, TailOf
    <2>2. waiters' = [waiters EXCEPT ![q] = Tail(waiters[q])]
      BY <1>1, <1>3 DEF tc_waitq_wakeup_one
    <2>3. active' = active \cup {h} /\ sig' = sig /\ woken' = woken
      BY <1>3, <2>1 DEF tc_waitq_wakeup_one, WaitqType
    <2>4. /\ waiters' \in [Queues -> Seq(Threads)]
          /\ \A r \in Queues : waiters'[r] = IF r = q THEN Tail(waiters[q]) ELSE waiters[r]
      BY <1>1, <2>1, <2>2
    <2>5. /\ \A r \in Queues : IsInjective(waiters'[r])
          /\ \A r \in Queues, u \in Threads : OnQ(r, u)' <=> OnQ(r, u) /\ ~(r = q /\ u = h)
      BY <2>1, <2>4, Zenon DEF WaitqType, OnQ
    <2>6. ASSUME NEW r \in Queues, NEW u \in Threads, OnQ(r, u)'
          PROVE  u \notin active' /\ \A p \in Queues \ {r} : ~OnQ(p, u)'
      BY <2>1, <2>3, <2>5, <2>6, Zenon DEF WaitqType, OnQ
    <2>7. active' \subseteq Threads /\ sig' \subseteq Threads
          /\ woken' \in [Threads -> {NULL, "event", "signal"}]
      BY <2>1, <2>3, Zenon DEF WaitqType
    <2>8. WaitqType'
      BY <2>4, <2>5, <2>6, <2>7, Zenon DEF WaitqType, OnQ
    <2> QED BY <1>3, <2>1, <2>3, <2>5, <2>8, Zenon DEF OnQ
  <1> QED BY <1>2, <1>3, Zenon

\* tc_scheduler() makes t's event or one of its signals inactive and tells which.
LEMMA Scheduled ==
    ASSUME WaitqType, NEW t \in Threads, tc_scheduler(t)
    PROVE  /\ WaitqType' /\ waiters' = waiters
           /\ \/ t \in active /\ active' = active \ {t} /\ woken'[t] = "event"
              \/ active' = active /\ woken'[t] = "signal"
           /\ \A u \in Threads : u # t => woken'[u] = woken[u]
  <1>1. woken \in [Threads -> {NULL, "event", "signal"}]
    BY Zenon DEF WaitqType
  <1>2. /\ woken' \in [Threads -> {NULL, "event", "signal"}]
        /\ \A u \in Threads : u # t => woken'[u] = woken[u]
        /\ active' \subseteq active /\ sig' \subseteq sig /\ waiters' = waiters
        /\ \/ t \in active /\ active' = active \ {t} /\ woken'[t] = "event"
           \/ active' = active /\ woken'[t] = "signal"
    BY <1>1 DEF tc_scheduler
  <1> QED BY <1>2, Zenon DEF WaitqType

\* tc_waitq_wakeup_all() makes the events of all waiters active.
LEMMA WakeupAll ==
    ASSUME WaitqType, NEW Q, Q \subseteq Queues, tc_waitq_wakeup_all(Q)
    PROVE  /\ WaitqType' /\ woken' = woken /\ sig' = sig
           /\ \A u \in Threads : u \in active' <=> u \in active \/ \E q \in Q : OnQ(q, u)
           /\ \A r \in Queues, u \in Threads : OnQ(r, u)' <=> OnQ(r, u) /\ r \notin Q
  <1>1. /\ waiters \in [Queues -> Seq(Threads)] /\ active \subseteq Threads
        /\ \A q \in Queues : waiters[q] \in Seq(Threads)
    BY Zenon DEF WaitqType
  <1>2. ASSUME NEW q \in Queues
        PROVE  /\ Range(waiters[q]) \subseteq Threads
               /\ \A u \in Threads : u \in Range(waiters[q]) <=> OnQ(q, u)
    BY <1>1 DEF OnQ, Contains, Range
  <1>3. /\ active' = active \cup UNION {Range(waiters[q]) : q \in Q}
        /\ woken' = woken /\ sig' = sig
    BY Zenon DEF tc_waitq_wakeup_all
  <1>4. /\ active' \subseteq Threads
        /\ \A u \in Threads : u \in active' <=> u \in active \/ \E q \in Q : OnQ(q, u)
    BY <1>1, <1>2, <1>3, Zenon
  <1>5. /\ waiters' \in [Queues -> Seq(Threads)]
        /\ \A r \in Queues : waiters'[r] = IF r \in Q THEN <<>> ELSE waiters[r]
    BY <1>1 DEF tc_waitq_wakeup_all
  <1>6. \A r \in Queues : IsInjective(waiters'[r])
    BY <1>5 DEF WaitqType, IsInjective
  <1>7. \A x : ~Contains(<<>>, x)
    BY DEF Contains
  <1>8. \A r \in Queues, u \in Threads : OnQ(r, u)' <=> OnQ(r, u) /\ r \notin Q
    BY <1>5, <1>7, Zenon DEF OnQ
  <1>9. ASSUME NEW r \in Queues, NEW u \in Threads, OnQ(r, u)'
        PROVE  u \notin active' /\ \A p \in Queues \ {r} : ~OnQ(p, u)'
    BY <1>4, <1>8, <1>9, Zenon DEF WaitqType, OnQ
  <1>10. WaitqType'
    BY <1>3, <1>4, <1>5, <1>6, <1>9, Zenon DEF WaitqType, OnQ
  <1> QED BY <1>3, <1>4, <1>8, <1>10, Zenon
=============================================================================
