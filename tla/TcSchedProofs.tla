--------------------------- MODULE TcSchedProofs ----------------------------
(***************************************************************************)
(* The inductive invariant of TcSched, that every step keeps it, and the   *)
(* theorems that follow from it alone, for any number of workers, threads, *)
(* wait queues and signals, and any client program.                        *)
(***************************************************************************)
EXTENDS TcSched, TLAPS

-----------------------------------------------------------------------------
(* Sequences without repetition. *)

\* The elements of a concatenation.
LEMMA Concat ==
    ASSUME NEW S, NEW a \in Seq(S), NEW b \in Seq(S)
    PROVE  /\ a \o b \in Seq(S) /\ Len(a \o b) = Len(a) + Len(b)
           /\ \A j \in 1..(Len(a) + Len(b)) :
                 (a \o b)[j] = IF j <= Len(a) THEN a[j] ELSE b[j - Len(a)]
  OBVIOUS

\* Taking the i-th element out of a list leaves all the others, each once.
LEMMA RemoveFromList ==
    ASSUME NEW S, NEW s \in Seq(S), IsInjective(s), NEW i \in 1..Len(s)
    PROVE  LET r == RemoveAt(s, i) IN
           /\ r \in Seq(S) /\ Len(r) = Len(s) - 1 /\ IsInjective(r)
           /\ \A x : Contains(r, x) <=> Contains(s, x) /\ x # s[i]
  <1> DEFINE a == SubSeq(s, 1, i - 1)
             b == SubSeq(s, i + 1, Len(s))
             r == RemoveAt(s, i)
  <1>1. a \in Seq(S) /\ Len(a) = i - 1 /\ \A j \in 1..(i - 1) : a[j] = s[j]
    OBVIOUS
  <1>2. b \in Seq(S) /\ Len(b) = Len(s) - i /\ \A j \in 1..(Len(s) - i) : b[j] = s[i + j]
    OBVIOUS
  <1>3. /\ r \in Seq(S) /\ Len(r) = Len(s) - 1
        /\ \A j \in 1..(Len(s) - 1) : r[j] = IF j < i THEN s[j] ELSE s[j + 1]
    <2>1. r = a \o b
      BY Zenon DEF RemoveAt
    <2>2. /\ a \o b \in Seq(S) /\ Len(a \o b) = Len(a) + Len(b)
          /\ \A j \in 1..(Len(a) + Len(b)) :
                (a \o b)[j] = IF j <= Len(a) THEN a[j] ELSE b[j - Len(a)]
      BY <1>1, <1>2, Concat, Zenon
    <2> HIDE DEF a, b, r
    <2>3. ASSUME NEW j \in 1..(Len(s) - 1)
          PROVE  r[j] = IF j < i THEN s[j] ELSE s[j + 1]
      <3>0. j \in 1..(Len(a) + Len(b)) /\ (j <= Len(a) <=> j < i)
        BY <1>1, <1>2
      <3>1. CASE j < i
        <4>1. r[j] = a[j] /\ j \in 1..(i - 1)
          BY <2>1, <2>2, <3>0, <3>1
        <4> QED BY <1>1, <3>1, <4>1, Zenon
      <3>2. CASE ~(j < i)
        <4>1. r[j] = b[j - Len(a)]
          BY <2>1, <2>2, <3>0, <3>2, Zenon
        <4>2. Len(a) = i - 1 /\ j - (i - 1) \in 1..(Len(s) - i) /\ i + (j - (i - 1)) = j + 1
          BY <1>1, <3>2
        <4>3. b[j - (i - 1)] = s[j + 1]
          BY <1>2, <4>2, Zenon
        <4> QED BY <3>2, <4>1, <4>2, <4>3, Zenon
      <3> QED BY <3>1, <3>2, Zenon
    <2> QED BY <1>1, <1>2, <2>1, <2>2, <2>3
  <1> HIDE DEF r
  <1>4. IsInjective(r)
    <2>1. DOMAIN r = 1..(Len(s) - 1) /\ DOMAIN s = 1..Len(s)
      BY <1>3
    <2>2. ASSUME NEW j \in 1..(Len(s) - 1), NEW k \in 1..(Len(s) - 1), r[j] = r[k]
          PROVE  j = k
      <3> DEFINE at(m) == IF m < i THEN m ELSE m + 1
      <3>1. at(j) \in DOMAIN s /\ at(k) \in DOMAIN s /\ s[at(j)] = s[at(k)]
        BY <1>3, <2>1, <2>2
      <3>2. at(j) = at(k)
        BY <3>1, Zenon DEF IsInjective
      <3> QED BY <3>2
    <2> QED BY <2>1, <2>2, Zenon DEF IsInjective
  <1>5. ASSUME NEW x PROVE Contains(r, x) <=> Contains(s, x) /\ x # s[i]
    <2>1. ASSUME Contains(r, x) PROVE Contains(s, x) /\ x # s[i]
      <3>1. PICK j \in 1..(Len(s) - 1) : r[j] = x
        BY <1>3, <2>1 DEF Contains
      <3>2. PICK k \in 1..Len(s) : k # i /\ s[k] = x
        BY <1>3, <3>1
      <3>3. DOMAIN s = 1..Len(s)
        BY <1>3
      <3> QED BY <3>2, <3>3, Zenon DEF Contains, IsInjective
    <2>2. ASSUME Contains(s, x), x # s[i] PROVE Contains(r, x)
      <3>1. PICK j \in 1..Len(s) : s[j] = x
        BY <2>2, Zenon DEF Contains
      <3>2. CASE j < i
        BY <1>3, <3>1, <3>2 DEF Contains
      <3>3. CASE j > i
        <4>1. j - 1 \in 1..(Len(s) - 1) /\ r[j - 1] = x
          BY <1>3, <3>1, <3>3
        <4> QED BY <1>3, <4>1, Zenon DEF Contains
      <3> QED BY <2>2, <3>1, <3>2, <3>3
    <2> QED BY <2>1, <2>2, Zenon
  <1> QED BY <1>3, <1>4, <1>5, Zenon DEF r

\* An element that is new to a list is on it once after it was appended.
LEMMA AppendNew ==
    ASSUME NEW S, NEW s \in Seq(S), IsInjective(s), NEW e \in S, ~Contains(s, e)
    PROVE  LET r == Append(s, e) IN
           /\ r \in Seq(S) /\ Len(r) = Len(s) + 1 /\ IsInjective(r)
           /\ \A x : Contains(r, x) <=> Contains(s, x) \/ x = e
  <1>1. PICK r : r = Append(s, e)
    BY Zenon
  <1>2. /\ r \in Seq(S) /\ Len(r) = Len(s) + 1 /\ r[Len(s) + 1] = e
        /\ \A j \in 1..Len(s) : r[j] = s[j]
    BY <1>1
  <1>3. IsInjective(r)
    BY <1>2 DEF IsInjective, Contains
  <1>4. \A x : Contains(r, x) <=> Contains(s, x) \/ x = e
    BY <1>2 DEF Contains
  <1> QED BY <1>1, <1>2, <1>3, <1>4, Zenon

\* The first n elements of a list, put in reverse order before another list.
LEMMA MoveFront ==
    ASSUME NEW S, NEW s \in Seq(S), IsInjective(s), NEW n \in 0..Len(s),
           NEW u \in Seq(S), IsInjective(u), \A x : ~(Contains(s, x) /\ Contains(u, x))
    PROVE  LET r == SubSeq(s, n + 1, Len(s))
               v == Reverse(SubSeq(s, 1, n)) \o u
               moved == {s[i] : i \in 1..n}
           IN
           /\ r \in Seq(S) /\ IsInjective(r)
           /\ v \in Seq(S) /\ IsInjective(v) /\ Len(v) = Len(u) + n
           /\ \A x : Contains(r, x) <=> Contains(s, x) /\ x \notin moved
           /\ \A x : Contains(v, x) <=> Contains(u, x) \/ x \in moved
           /\ \A x \in moved : Contains(s, x)
  <1> DEFINE r == SubSeq(s, n + 1, Len(s))
             f == SubSeq(s, 1, n)
             g == Reverse(f)
             v == g \o u
             moved == {s[i] : i \in 1..n}
  <1>1. r \in Seq(S) /\ Len(r) = Len(s) - n /\ \A j \in 1..(Len(s) - n) : r[j] = s[n + j]
    OBVIOUS
  <1>2. f \in Seq(S) /\ Len(f) = n /\ \A j \in 1..n : f[j] = s[j]
    OBVIOUS
  <1>3. g \in Seq(S) /\ Len(g) = n /\ \A j \in 1..n : g[j] = s[n - j + 1]
    BY <1>2 DEF Reverse
  <1>4. /\ v \in Seq(S) /\ Len(v) = n + Len(u)
        /\ \A j \in 1..n : v[j] = s[n - j + 1]
        /\ \A j \in 1..Len(u) : v[n + j] = u[j]
    <2>1. /\ g \o u \in Seq(S) /\ Len(g \o u) = Len(g) + Len(u)
          /\ \A j \in 1..(Len(g) + Len(u)) :
                (g \o u)[j] = IF j <= Len(g) THEN g[j] ELSE u[j - Len(g)]
      BY <1>3, Concat, Zenon
    <2> HIDE DEF g
    <2> QED BY <1>3, <2>1
  <1> HIDE DEF r, f, g, v
  <1>5. IsInjective(r)
    <2>1. DOMAIN r = 1..(Len(s) - n) /\ DOMAIN s = 1..Len(s)
      BY <1>1
    <2>2. ASSUME NEW j \in 1..(Len(s) - n), NEW k \in 1..(Len(s) - n), r[j] = r[k]
          PROVE  j = k
      <3>1. n + j \in DOMAIN s /\ n + k \in DOMAIN s /\ s[n + j] = s[n + k]
        BY <1>1, <2>1, <2>2
      <3>2. n + j = n + k
        BY <3>1, Zenon DEF IsInjective
      <3> QED BY <3>2
    <2> QED BY <2>1, <2>2, Zenon DEF IsInjective
  <1>6. IsInjective(v)
    <2>1. /\ DOMAIN v = 1..(n + Len(u)) /\ DOMAIN s = 1..Len(s) /\ DOMAIN u = 1..Len(u)
          /\ \A j \in DOMAIN v : j \in 1..n \/ (j - n \in 1..Len(u) /\ v[j] = u[j - n])
      BY <1>4
    <2>2. ASSUME NEW j \in DOMAIN v, NEW k \in DOMAIN v, v[j] = v[k] PROVE j = k
      <3>1. CASE j \in 1..n /\ k \in 1..n
        <4>1. n - j + 1 \in DOMAIN s /\ n - k + 1 \in DOMAIN s /\ s[n - j + 1] = s[n - k + 1]
          BY <1>4, <2>1, <2>2, <3>1, SMTT(30)
        <4>2. n - j + 1 = n - k + 1
          BY <4>1, Zenon DEF IsInjective
        <4> QED BY <3>1, <4>2
      <3>2. CASE j \notin 1..n /\ k \notin 1..n
        <4>1. j - n = k - n
          BY <2>1, <2>2, <3>2, Zenon DEF IsInjective
        <4> QED BY <2>1, <4>1
      <3>3. ASSUME NEW i \in 1..n, NEW m \in 1..Len(u), s[n - i + 1] = u[m] PROVE FALSE
        <4>1. n - i + 1 \in 1..Len(s)
          OBVIOUS
        <4> QED BY <3>3, <4>1, Zenon DEF Contains
      <3>4. CASE j \in 1..n /\ k \notin 1..n
        BY <1>4, <2>1, <2>2, <3>3, <3>4, Zenon
      <3>5. CASE j \notin 1..n /\ k \in 1..n
        BY <1>4, <2>1, <2>2, <3>3, <3>5, Zenon
      <3> QED BY <3>1, <3>2, <3>4, <3>5, Zenon
    <2> QED BY <2>1, <2>2, Zenon DEF IsInjective
  <1>7. ASSUME NEW x PROVE Contains(r, x) <=> Contains(s, x) /\ x \notin moved
    <2>1. ASSUME NEW j \in 1..Len(r), r[j] = x PROVE Contains(s, x) /\ x \notin moved
      <3>1. n + j \in 1..Len(s) /\ n + j \notin 1..n /\ s[n + j] = x
        BY <1>1, <2>1
      <3>2. \A i \in 1..n : s[i] # x
        BY <3>1 DEF IsInjective
      <3> QED BY <3>1, <3>2, Zenon DEF Contains
    <2>2. ASSUME NEW j \in 1..Len(s), s[j] = x, x \notin moved PROVE Contains(r, x)
      <3>1. j - n \in 1..Len(r) /\ r[j - n] = x
        BY <1>1, <2>2
      <3> QED BY <3>1, Zenon DEF Contains
    <2> QED BY <2>1, <2>2, Zenon DEF Contains
  <1>8. ASSUME NEW x PROVE Contains(v, x) <=> Contains(u, x) \/ x \in moved
    <2>1. ASSUME NEW j \in 1..Len(v), v[j] = x PROVE Contains(u, x) \/ x \in moved
      <3>1. CASE j \in 1..n
        <4>1. n - j + 1 \in 1..n /\ s[n - j + 1] = x
          BY <1>4, <2>1, <3>1
        <4> QED BY <4>1, Zenon
      <3>2. CASE j \notin 1..n
        <4>1. ~(j <= n) /\ j - n \in 1..Len(u)
          BY <1>4, <2>1, <3>2
        <4>2. v[j] = u[j - n]
          BY <1>4, <2>1, <4>1
        <4> QED BY <2>1, <4>1, <4>2, Zenon DEF Contains
      <3> QED BY <3>1, <3>2, Zenon
    <2>2. ASSUME NEW j \in 1..Len(u), u[j] = x PROVE Contains(v, x)
      <3>1. n + j \in 1..Len(v) /\ ~(n + j <= n) /\ (n + j) - n = j
        BY <1>4, <2>2
      <3>2. v[n + j] = u[(n + j) - n]
        BY <1>4, <3>1
      <3> QED BY <2>2, <3>1, <3>2, Zenon DEF Contains
    <2>3. ASSUME NEW j \in 1..n, s[j] = x PROVE Contains(v, x)
      <3>1. n - j + 1 \in 1..n /\ v[n - j + 1] = x
        BY <1>4, <2>3
      <3> QED BY <1>4, <3>1 DEF Contains
    <2> QED BY <2>1, <2>2, <2>3, Zenon DEF Contains
  <1>9. \A x \in moved : Contains(s, x)
    BY DEF Contains
  <1> QED BY <1>1, <1>4, <1>5, <1>6, <1>7, <1>8, <1>9 DEF r, f, g, v

-----------------------------------------------------------------------------
(* The inductive invariant. *)

NoCallPCs == {"none", "start", "user"} \cup DiePCs

\* A thread's pc and the calls it has in progress agree; every call but the
\* innermost is a tc_waitq_wait_event() that evaluates its condition.
CallOK(t) ==
    /\ pc[t] \in NoCallPCs <=> Depth(t) = 0
    /\ pc[t] \in {"test", "cond", "finish_true"} => Op(t) = "wait_event"
    /\ pc[t] = "prepare" => Op(t) \in {"wait_event", "wait"}
    /\ pc[t] \in {"scheduler", "switch", "parked"} => Op(t) \in Blocking
    /\ pc[t] = "finish" => Op(t) \in {"wait_event", "wait", "join"}
    /\ pc[t] \in {"yield", "yield_stack", "yield_done"} => Op(t) = "yield"
    /\ pc[t] = "wakeup" => Op(t) \in {"wakeup_one", "wakeup_all", "fire"}
    /\ pc[t] = "iwi" => Op(t) \in {"wakeup_one", "wakeup_all", "fire", "new"}
    /\ pc[t] \in {"subscribe", "unsubscribe", "join"} => Op(t) = pc[t]
    /\ pc[t] \in {"new", "new_post"} => Op(t) = "new"
    /\ Depth(t) <= MaxDepth
    /\ \A i \in 1..(Depth(t) - 1) : calls[t][i][1] = "wait_event"

CallsOK == \A t \in Threads : CallOK(t)

\* A worker is on a stack, or has a thread to go to, exactly when its pc says so;
\* a thread runs on the worker that holds its running lock.
WorkersOK ==
    /\ \A w \in Workers :
          /\ wpc[w] = "coroutine" <=> ctx[w] # NULL
          /\ wpc[w] \in {"switch_to", "spin", "thread_free"} <=> target[w] # NULL
    /\ \A w \in Workers, t \in Threads : ctx[w] = t => running[t] = w /\ pc[t] \notin OffPCs
    /\ \A t \in Threads : pc[t] \notin OffPCs => running[t] \in Workers /\ ctx[running[t]] = t

\* Which events can be on a list.
EventsOK ==
    /\ \A t \in Threads, s \in Signals : pc[t] \in {"none", "start"} => el[<<t, s>>] = NULL
    /\ \A t \in Threads : el[<<t, 0>>] # NULL => pc[t] \in {"start", "die_iwi", "die_switch", "dead"}
    /\ \A t \in Threads, d \in 1..MaxDepth : el[<<t, d>>] # NULL =>
          /\ d <= Depth(t) /\ calls[t][d][1] \in Blocking
          /\ d = Depth(t) => pc[t] \notin {"test", "prepare", "yield", "join"}
    /\ \A t \in Threads : pc[t] = "subscribe" => el[<<t, Arg(t)>>] = NULL
    /\ \A t \in Threads : pc[t] = "new_post" =>
          pc[Arg(t)] = "start" /\ el[<<Arg(t), 0>>] = NULL /\ ~TF_RUNNING[Arg(t)]
    /\ \A e \in Events, t \in Threads : el[e] = Pending(t) => Tc(e) = t
    /\ \A t, u \in Threads :
          pc[t] = "new_post" /\ pc[u] = "new_post" /\ Arg(t) = Arg(u) => t = u
    /\ \A w \in Workers : wpc[w] \in {"switch_to", "spin"} /\ pc[target[w]] = "start" =>
          el[<<target[w], 0>>] = NULL

\* What TF_RUNNING and the scheduler's claims say about a thread.
ClaimsOK ==
    /\ RunningFlagExact
    /\ \A t \in Threads : pc[t] \in {"dead", "freed"} => TF_RUNNING[t]
    /\ \A w, v \in Workers, t \in Threads : Claims(w, t) /\ Claims(v, t) => w = v
    /\ \A w \in Workers : wpc[w] \in {"switch_to", "spin"} =>
          pc[target[w]] \in {"start", "parked", "switch"}
    /\ \A w \in Workers : wpc[w] = "thread_free" =>
          /\ pc[target[w]] \in {"die_iwi", "die_switch", "dead"}
          /\ el[<<target[w], 0>>] = NULL
          /\ \A v \in Workers : target[v] = target[w] => v = w

\* The event that woke a thread is its own and, but for a signal, on no list.
Woken(w) == woken_by_event[w] # NULL =>
    LET e == woken_by_event[w] IN
    /\ ctx[w] # NULL => Tc(e) = ctx[w]
    /\ wpc[w] \in {"switch_to", "spin"} => Tc(e) = target[w]
    /\ ~IsSignal(e) /\ (wpc[w] \in {"switch_to", "spin"}
                        \/ (ctx[w] # NULL /\ pc[ctx[w]] \in {"finish", "yield_done"}))
          => el[e] = NULL

WokenOK == \A w \in Workers : Woken(w)
IInv == TypeOK /\ CallsOK /\ WorkersOK /\ ListsConsistent /\ EventsOK /\ ClaimsOK /\ WokenOK

-----------------------------------------------------------------------------
(* The event lists. *)

\* L and E, as list and el, describe the same lists.
LC(L, E) ==
    /\ L \in [Lists -> Seq(Events)]
    /\ E \in [Events -> Lists \cup {NULL}]
    /\ \A l \in Lists : IsInjective(L[l])
    /\ \A l \in Lists, e \in Events : Contains(L[l], e) <=> E[e] = l

LInv ==
    /\ LC(list, el)
    /\ immediate_count = Len(list[IMMEDIATE])
    /\ refcnt \in [Threads -> Int]

\* TypeOK and ListsConsistent say that LInv holds.
LEMMA LInvFromIInv == TypeOK /\ ListsConsistent => LInv
  BY Zenon DEF TypeOK, ListsConsistent, LInv, LC

\* CIRCLEQ_REMOVE takes an event off the list that e->el names.
LEMMA DelLC ==
    ASSUME NEW L, NEW E, LC(L, E), NEW e \in Events, el[e] = E[e]
    PROVE  /\ LC(Del(L, e), [E EXCEPT ![e] = NULL])
           /\ Len(Del(L, e)[IMMEDIATE]) = Len(L[IMMEDIATE]) - OnImmediate(e)
  <1>1. CASE el[e] = NULL
    <2>1. Del(L, e) = L
      BY <1>1, Zenon DEF Del
    <2>3. E \in [Events -> Lists \cup {NULL}] /\ E[e] = NULL
      BY <1>1, Zenon DEF LC
    <2>4. [E EXCEPT ![e] = NULL] = E
      BY <2>3, Zenon
    <2>2. Len(L[IMMEDIATE]) \in Nat /\ OnImmediate(e) = 0
      BY <1>1, SchedAssumption DEF LC, OnImmediate, Lists
    <2> QED BY <2>1, <2>2, <2>4
  <1>2. CASE el[e] # NULL
    <2> DEFINE l == el[e]
               i == CHOOSE j \in DOMAIN L[l] : L[l][j] = e
               r == RemoveAt(L[l], i)
    <2>1. l \in Lists /\ L[l] \in Seq(Events) /\ IsInjective(L[l]) /\ Contains(L[l], e)
      BY <1>2, Zenon DEF LC
    <2>2. i \in 1..Len(L[l]) /\ L[l][i] = e
      BY <2>1 DEF Contains
    <2> HIDE DEF i
    <2>3. /\ r \in Seq(Events) /\ Len(r) = Len(L[l]) - 1 /\ IsInjective(r)
          /\ \A x : Contains(r, x) <=> Contains(L[l], x) /\ x # e
      BY <2>1, <2>2, RemoveFromList
    <2>4. Del(L, e) = [L EXCEPT ![l] = r]
      BY <1>2, Zenon DEF Del, CIRCLEQ_REMOVE, i
    <2> HIDE DEF r
    <2>5. LC(Del(L, e), [E EXCEPT ![e] = NULL])
      <3>1. Del(L, e) \in [Lists -> Seq(Events)]
        BY <2>1, <2>3, <2>4 DEF LC
      <3>2. [E EXCEPT ![e] = NULL] \in [Events -> Lists \cup {NULL}]
        BY Zenon DEF LC
      <3>3. \A k \in Lists : IsInjective(Del(L, e)[k])
        BY <2>1, <2>3, <2>4, Zenon DEF LC
      <3>4. ASSUME NEW k \in Lists, NEW x \in Events
            PROVE  Contains(Del(L, e)[k], x) <=> [E EXCEPT ![e] = NULL][x] = k
        <4>1. Contains(L[k], x) <=> E[x] = k
          BY Zenon DEF LC
        <4>2. NULL # k
          BY SchedAssumption, Zenon
        <4>3. E[e] = l /\ E \in [Events -> Lists \cup {NULL}] /\ DOMAIN L = Lists
          BY Zenon DEF LC
        <4>4. CASE k = l
          BY <2>3, <2>4, <4>1, <4>2, <4>3, <4>4, Zenon
        <4>5. CASE k # l
          BY <2>4, <4>1, <4>2, <4>3, <4>5, Zenon
        <4> QED BY <4>4, <4>5, Zenon
      <3> QED BY <3>1, <3>2, <3>3, <3>4, Zenon DEF LC
    <2>6. Len(Del(L, e)[IMMEDIATE]) = Len(L[IMMEDIATE]) - OnImmediate(e)
      <3>1. IMMEDIATE \in Lists /\ L \in [Lists -> Seq(Events)]
        BY Zenon DEF LC, Lists
      <3>2. Len(L[IMMEDIATE]) \in Nat
        BY <3>1
      <3>3. CASE l = IMMEDIATE
        BY <2>1, <2>3, <2>4, <3>1, <3>2, <3>3, Zenon DEF OnImmediate
      <3>4. CASE l # IMMEDIATE
        <4>1. Del(L, e)[IMMEDIATE] = L[IMMEDIATE] /\ OnImmediate(e) = 0
          BY <2>4, <3>1, <3>4, Zenon DEF OnImmediate
        <4> QED BY <3>2, <4>1
      <3> QED BY <3>3, <3>4, Zenon
    <2> QED BY <2>5, <2>6, Zenon
  <1> QED BY <1>1, <1>2, Zenon

\* CIRCLEQ_INSERT_TAIL puts an event that is on no list on one.
LEMMA InsLC ==
    ASSUME NEW L, NEW E, LC(L, E), NEW e \in Events, E[e] = NULL, NEW l \in Lists
    PROVE  /\ LC(Ins(L, e, l), [E EXCEPT ![e] = l])
           /\ Len(Ins(L, e, l)[IMMEDIATE])
                 = Len(L[IMMEDIATE]) + (IF l = IMMEDIATE THEN 1 ELSE 0)
  <1> DEFINE r == Append(L[l], e)
  <1>1. L[l] \in Seq(Events) /\ IsInjective(L[l]) /\ ~Contains(L[l], e)
    BY SchedAssumption DEF LC
  <1>2. /\ r \in Seq(Events) /\ Len(r) = Len(L[l]) + 1 /\ IsInjective(r)
        /\ \A x : Contains(r, x) <=> Contains(L[l], x) \/ x = e
    BY <1>1, AppendNew, Zenon
  <1>3. Ins(L, e, l) = [L EXCEPT ![l] = r]
    BY Zenon DEF Ins
  <1> HIDE DEF r
  <1>4. L \in [Lists -> Seq(Events)] /\ E \in [Events -> Lists \cup {NULL}]
    BY Zenon DEF LC
  <1>5. LC(Ins(L, e, l), [E EXCEPT ![e] = l])
    <2>1. Ins(L, e, l) \in [Lists -> Seq(Events)]
      BY <1>2, <1>3, <1>4, Zenon
    <2>2. [E EXCEPT ![e] = l] \in [Events -> Lists \cup {NULL}]
      BY <1>4, Zenon
    <2>3. \A k \in Lists : IsInjective(Ins(L, e, l)[k])
      BY <1>2, <1>3, <1>4, Zenon DEF LC
    <2>4. ASSUME NEW k \in Lists, NEW x \in Events
          PROVE  Contains(Ins(L, e, l)[k], x) <=> [E EXCEPT ![e] = l][x] = k
      <3>1. Contains(L[k], x) <=> E[x] = k
        BY Zenon DEF LC
      <3>2. NULL # k
        BY SchedAssumption, Zenon
      <3>3. CASE k = l
        BY <1>2, <1>3, <1>4, <3>1, <3>2, <3>3, Zenon
      <3>4. CASE k # l
        BY <1>3, <1>4, <3>1, <3>2, <3>4, Zenon
      <3> QED BY <3>3, <3>4, Zenon
    <2> QED BY <2>1, <2>2, <2>3, <2>4, Zenon DEF LC
  <1>6. IMMEDIATE \in Lists /\ Len(L[IMMEDIATE]) \in Nat
    BY <1>4 DEF Lists
  <1> QED BY <1>2, <1>3, <1>4, <1>5, <1>6

\* The thread of an event, and the length of the immediate list.
LEMMA EventTc == \A e \in Events : Tc(e) \in Threads /\ e[2] \in 0..MaxDepth \cup Signals
  BY Zenon DEF Events, Tc

\* The events of a tc_thread: its own, one for each nested wait, one for each signal.
LEMMA ThreadEvents ==
    /\ \A t \in Threads : t # NULL /\ <<t, 0>> \in Events
    /\ \A t \in Threads, s \in Signals : <<t, s>> \in Events /\ s # 0 /\ s \notin 0..MaxDepth
    /\ \A t \in Threads, d \in 1..MaxDepth : <<t, d>> \in Events /\ d # 0 /\ d \notin Signals
    /\ \A w \in Workers : w # NULL
    /\ MaxDepth \in Nat /\ 1 <= MaxDepth
    /\ 0..MaxDepth = {0} \cup 1..MaxDepth
  BY SchedAssumption DEF Events

\* The lists and e->el have their types.
LEMMA LInvTypes == LInv =>
    /\ list \in [Lists -> Seq(Events)] /\ el \in [Events -> Lists \cup {NULL}]
    /\ immediate_count \in Nat
  BY DEF LInv, LC, Lists

\* remove_event() keeps the lists consistent.
LEMMA RemoveEventLists ==
    ASSUME LInv, NEW e \in Events, remove_event(e)
    PROVE  LInv'
  <1>1. /\ LC(Del(list, e), [el EXCEPT ![e] = NULL])
        /\ Len(Del(list, e)[IMMEDIATE]) = Len(list[IMMEDIATE]) - OnImmediate(e)
    BY DelLC, Zenon DEF LInv
  <1>2. refcnt' \in [Threads -> Int]
    BY EventTc DEF LInv, remove_event
  <1> QED BY <1>1, <1>2, Zenon DEF LInv, remove_event

\* add_event() and add_event_cr() keep them consistent if the event is on none.
LEMMA AddEventLists ==
    ASSUME LInv, NEW e \in Events, el[e] = NULL, NEW l \in Lists, l # IMMEDIATE,
           add_event(e, l)
    PROVE  LInv'
  <1>1. /\ LC(Ins(list, e, l), [el EXCEPT ![e] = l])
        /\ Len(Ins(list, e, l)[IMMEDIATE]) = Len(list[IMMEDIATE]) + 0
    BY InsLC, Zenon DEF LInv
  <1>2. refcnt' \in [Threads -> Int]
    BY EventTc DEF LInv, add_event
  <1>3. immediate_count \in Nat
    BY LInvTypes, Zenon
  <1> QED BY <1>1, <1>2, <1>3 DEF LInv, add_event

\* add_event_cr() puts an event at the end of the immediate list and counts it.
LEMMA AddEventCrLists ==
    ASSUME LInv, NEW e \in Events, el[e] = NULL, add_event_cr(e)
    PROVE  LInv'
  <1>1. IMMEDIATE \in Lists
    BY Zenon DEF Lists
  <1>2. /\ LC(Ins(list, e, IMMEDIATE), [el EXCEPT ![e] = IMMEDIATE])
        /\ Len(Ins(list, e, IMMEDIATE)[IMMEDIATE]) = Len(list[IMMEDIATE]) + 1
    BY <1>1, InsLC, Zenon DEF LInv
  <1>3. refcnt' \in [Threads -> Int]
    BY EventTc DEF LInv, add_event_cr
  <1> QED BY <1>2, <1>3, Zenon DEF LInv, add_event_cr

\* move_event() keeps them consistent if it does not move to the immediate list.
LEMMA MoveEventLists ==
    ASSUME LInv, NEW e \in Events, NEW l \in Lists, l # IMMEDIATE, move_event(e, l)
    PROVE  LInv'
  <1> DEFINE D == Del(list, e)
             F == [el EXCEPT ![e] = NULL]
  <1>1. LC(D, F) /\ Len(D[IMMEDIATE]) = Len(list[IMMEDIATE]) - OnImmediate(e)
    BY DelLC, Zenon DEF LInv
  <1>2. el \in [Events -> Lists \cup {NULL}] /\ immediate_count \in Nat
    BY LInvTypes, Zenon
  <1>3. F[e] = NULL /\ [F EXCEPT ![e] = l] = [el EXCEPT ![e] = l]
    BY <1>2, Zenon
  <1> HIDE DEF D, F
  <1>4. LC(Ins(D, e, l), [F EXCEPT ![e] = l]) /\ Len(Ins(D, e, l)[IMMEDIATE]) = Len(D[IMMEDIATE]) + 0
    BY <1>1, <1>3, InsLC, Zenon
  <1>5. OnImmediate(e) \in Int
    BY DEF OnImmediate
  <1> QED BY <1>1, <1>2, <1>3, <1>4, <1>5 DEF LInv, move_event, D

\* finish_wait()'s requeueing of a signal keeps them consistent.
LEMMA RequeueLists ==
    ASSUME LInv, NEW e \in Events, NEW s \in Events, e # s, requeue_signal(e, s)
    PROVE  LInv'
  <1> DEFINE D == Del(list, e)
             F == [el EXCEPT ![e] = NULL]
             DD == Del(D, s)
             FF == [F EXCEPT ![s] = NULL]
             l == Pending(Tc(e))
  <1>1. LC(D, F) /\ Len(D[IMMEDIATE]) = Len(list[IMMEDIATE]) - OnImmediate(e)
    BY DelLC, Zenon DEF LInv
  <1>2. el \in [Events -> Lists \cup {NULL}] /\ immediate_count \in Nat
    BY LInvTypes, Zenon
  <1>3. el[s] = F[s]
    BY <1>2, Zenon
  <1>4. FF[s] = NULL /\ [FF EXCEPT ![s] = l] = [el EXCEPT ![e] = NULL, ![s] = l]
    BY <1>2, Zenon
  <1> HIDE DEF D, F
  <1>5. LC(DD, FF) /\ Len(DD[IMMEDIATE]) = Len(D[IMMEDIATE]) - OnImmediate(s)
    BY <1>1, <1>3, DelLC, Zenon
  <1>6. l \in Lists /\ l # IMMEDIATE
    BY EventTc, SchedAssumption, Zenon DEF Lists
  <1> HIDE DEF DD, FF, l
  <1>7. LC(Ins(DD, s, l), [FF EXCEPT ![s] = l]) /\ Len(Ins(DD, s, l)[IMMEDIATE]) = Len(DD[IMMEDIATE]) + 0
    BY <1>4, <1>5, <1>6, InsLC, Zenon
  <1>8. OnImmediate(e) \in Int /\ OnImmediate(s) \in Int
    BY DEF OnImmediate
  <1>9. refcnt' \in [Threads -> Int]
    BY EventTc DEF LInv, requeue_signal
  <1>10. LC(list', el')
    BY <1>4, <1>7, Zenon DEF requeue_signal, D, DD, l
  <1>11. immediate_count' = Len(list'[IMMEDIATE])
    BY <1>1, <1>2, <1>5, <1>7, <1>8 DEF LInv, requeue_signal, D, DD, l
  <1> QED BY <1>9, <1>10, <1>11, Zenon DEF LInv

\* Waking the first n waiters keeps them consistent.
LEMMA ToImmediateLists ==
    ASSUME LInv, NEW q \in Lists, q # IMMEDIATE, NEW n \in 0..Len(list[q]), to_immediate(q, n)
    PROVE  /\ LInv'
           /\ \A e \in Events : el'[e] = el[e] \/ (el[e] = q /\ el'[e] = IMMEDIATE)
  <1> DEFINE s == list[q]
             u == list[IMMEDIATE]
             r == SubSeq(s, n + 1, Len(s))
             v == Reverse(SubSeq(s, 1, n)) \o u
             moved == {s[i] : i \in 1..n}
  <1>1. /\ IMMEDIATE \in Lists /\ immediate_count \in Nat
        /\ list \in [Lists -> Seq(Events)] /\ el \in [Events -> Lists \cup {NULL}]
    BY LInvTypes, Zenon DEF Lists
  <1>2. /\ s \in Seq(Events) /\ u \in Seq(Events) /\ IsInjective(s) /\ IsInjective(u)
        /\ \A x \in Events : Contains(s, x) <=> el[x] = q
        /\ \A x \in Events : Contains(u, x) <=> el[x] = IMMEDIATE
    BY <1>1, Zenon DEF LInv, LC
  <1>3. n \in 0..Len(s) /\ \A x : ~(Contains(s, x) /\ Contains(u, x))
    BY <1>2 DEF Contains
  <1> HIDE DEF s, u
  <1>4. /\ r \in Seq(Events) /\ v \in Seq(Events) /\ IsInjective(r) /\ IsInjective(v)
        /\ Len(v) = Len(u) + n
        /\ \A x : Contains(v, x) <=> Contains(u, x) \/ x \in moved
        /\ \A x : Contains(r, x) <=> Contains(s, x) /\ x \notin moved
        /\ \A x \in moved : Contains(s, x)
    BY <1>2, <1>3, MoveFront, ZenonT(30)
  <1>5. /\ list' = [list EXCEPT ![IMMEDIATE] = v, ![q] = r]
        /\ el' = [x \in Events |-> IF x \in moved THEN IMMEDIATE ELSE el[x]]
        /\ immediate_count' = immediate_count + n /\ refcnt' = refcnt
    BY Zenon DEF to_immediate, s, u
  <1> HIDE DEF r, v, moved
  <1>6. list'[IMMEDIATE] = v /\ list'[q] = r /\ \A k \in Lists \ {q, IMMEDIATE} : list'[k] = list[k]
    BY <1>1, <1>5, Zenon
  <1>7. \A x \in moved : x \in Events => el[x] = q
    BY <1>2, <1>4, Zenon
  <1>8. LC(list', el')
    <2>1. list' \in [Lists -> Seq(Events)]
      BY <1>1, <1>4, <1>5, Zenon
    <2>2. el' \in [Events -> Lists \cup {NULL}]
      BY <1>1, <1>5, Zenon
    <2>3. \A k \in Lists : IsInjective(list'[k])
      BY <1>4, <1>6, Zenon DEF LInv, LC
    <2>4. ASSUME NEW k \in Lists, NEW x \in Events
          PROVE  Contains(list'[k], x) <=> el'[x] = k
      <3>1. el'[x] = IF x \in moved THEN IMMEDIATE ELSE el[x]
        BY <1>5, Zenon
      <3>2. CASE k = IMMEDIATE
        BY <1>2, <1>4, <1>6, <3>1, <3>2, Zenon
      <3>3. CASE k = q
        BY <1>2, <1>4, <1>6, <3>1, <3>3, Zenon
      <3>4. CASE k \notin {q, IMMEDIATE}
        <4>1. Contains(list[k], x) <=> el[x] = k
          BY Zenon DEF LInv, LC
        <4> QED BY <1>6, <1>7, <3>1, <3>4, <4>1, Zenon
      <3> QED BY <3>2, <3>3, <3>4, Zenon
    <2> QED BY <2>1, <2>2, <2>3, <2>4, Zenon DEF LC
  <1>9. immediate_count' = Len(list'[IMMEDIATE])
    BY <1>4, <1>5, <1>6, Zenon DEF LInv, u
  <1> QED BY <1>5, <1>7, <1>8, <1>9, Zenon DEF LInv

\* What run_or_queue() does with an event that gets its thread going.
LEMMA ConsumeEventLists ==
    ASSUME LInv, NEW e \in Events, consume_event(e)
    PROVE  /\ LInv'
           /\ IsSignal(e) => el' = [el EXCEPT ![e] = e[2]]
           /\ ~IsSignal(e) => el' = [el EXCEPT ![e] = NULL]
  <1>1. CASE IsSignal(e)
    <2>1. e[2] \in Lists /\ e[2] # IMMEDIATE /\ move_event(e, e[2])
      BY <1>1, SchedAssumption, Zenon DEF consume_event, IsSignal, Lists, Queues
    <2> QED BY <1>1, <2>1, MoveEventLists, Zenon DEF move_event
  <1>2. CASE ~IsSignal(e)
    BY <1>2, RemoveEventLists, Zenon DEF consume_event, remove_event
  <1> QED BY <1>1, <1>2, Zenon

-----------------------------------------------------------------------------
(* Events the scheduler picks, and the arguments of calls. *)

\* What _run_immediate() picks is on the immediate list.
LEMMA FirstWanted ==
    ASSUME LInv, NEW w, NEW e \in first_wanted(w)
    PROVE  e \in Events /\ el[e] = IMMEDIATE
  <1>1. PICK i \in DOMAIN list[IMMEDIATE] : e = list[IMMEDIATE][i]
    BY Zenon DEF first_wanted
  <1>2. IMMEDIATE \in Lists /\ list[IMMEDIATE] \in Seq(Events)
    BY LInvTypes, Zenon DEF Lists
  <1>3. e \in Events /\ Contains(list[IMMEDIATE], e)
    BY <1>1, <1>2 DEF Contains
  <1> QED BY <1>2, <1>3, Zenon DEF LInv, LC

\* What tc_scheduler() picks is on the thread's pending list.
LEMMA PendingEvent ==
    ASSUME LInv, NEW t \in Threads, NEW e \in pending_event(t)
    PROVE  e \in Events /\ el[e] = Pending(t)
  <1> DEFINE P == list[Pending(t)]
  <1>1. Pending(t) \in Lists /\ P \in Seq(Events)
    BY LInvTypes, Zenon DEF Lists
  <1>2. Contains(P, e)
    BY <1>1 DEF pending_event, Contains
  <1>3. e \in Events
    BY <1>1, <1>2 DEF Contains
  <1> QED BY <1>1, <1>2, <1>3, Zenon DEF LInv, LC

\* A call of a client program names an operation and what it works on.
LEMMA CallShape ==
    ASSUME NEW c \in Call
    PROVE  /\ c[1] \in {"wait_event", "wait", "wakeup_one", "wakeup_all"} => c[2] \in Waitqs
           /\ c[1] \in {"subscribe", "unsubscribe", "fire"} => c[2] \in Signals
           /\ c[1] \in {"new", "join"} => c[2] \in Threads
           /\ c[1] \in Blocking \cup {"wakeup_one", "wakeup_all", "subscribe", "unsubscribe",
                                     "fire", "new"}
  BY DEF Call, Blocking

\* Where the library code of a call begins.
LEMMA FirstPC ==
    ASSUME NEW c \in Call
    PROVE  /\ first_pc[c[1]] \in {"test", "prepare", "join", "yield", "wakeup", "subscribe",
                                  "unsubscribe", "new"}
           /\ first_pc[c[1]] = "subscribe" => c[1] = "subscribe"
  BY CallShape DEF first_pc, Blocking

\* The calls a thread may make next are calls.
LEMMA NextCalls ==
    ASSUME TypeOK, NEW w \in Workers, NEW t \in Threads, call(w, t)
    PROVE  Calls[t][made[t] + 1] \subseteq Call
  <1>1. Calls[t] \in Seq(SUBSET Call) /\ made[t] \in Nat /\ made[t] < Len(Calls[t])
    BY SchedAssumption, Zenon DEF call, TypeOK
  <1>2. made[t] + 1 \in 1..Len(Calls[t])
    BY <1>1
  <1> QED BY <1>1, <1>2

\* A thread makes one of the calls that Calls allows next.
LEMMA CallMade ==
    ASSUME TypeOK, NEW w \in Workers, NEW t \in Threads, call(w, t)
    PROVE  \E c \in Call :
              /\ c[1] = "subscribe" => el[<<t, c[2]>>] = NULL
              /\ pc[t] \in {"user", "cond"}
              /\ calls' = [calls EXCEPT ![t] = Append(@, c)]
              /\ pc' = [pc EXCEPT ![t] = first_pc[c[1]]]
  BY NextCalls, Zenon DEF call, Goto

\* The call that a thread is inside, as its pc says.
LEMMA CallFacts ==
    ASSUME TypeOK, CallsOK, NEW t \in Threads, Depth(t) # 0
    PROVE  /\ Depth(t) \in 1..MaxDepth
           /\ Event(t) \in Events /\ Tc(Event(t)) = t /\ ~IsSignal(Event(t))
           /\ Event(t) = <<t, Depth(t)>>
           /\ Op(t) \in {"wait_event", "wait", "wakeup_one", "wakeup_all"} => Arg(t) \in Waitqs
           /\ Op(t) \in {"subscribe", "unsubscribe", "fire"} => Arg(t) \in Signals
           /\ Op(t) \in {"new", "join"} => Arg(t) \in Threads
  <1>1. calls[t] \in Seq(Call)
    BY Zenon DEF TypeOK
  <1>2. Depth(t) \in 1..MaxDepth /\ Depth(t) \in 1..Len(calls[t])
    BY <1>1, SchedAssumption DEF CallsOK, CallOK, Depth
  <1>3. calls[t][Depth(t)] \in Call
    BY <1>1, <1>2
  <1>4. Event(t) \in Events /\ Tc(Event(t)) = t /\ ~IsSignal(Event(t)) /\ Event(t) = <<t, Depth(t)>>
    BY <1>2, SchedAssumption DEF Event, Events, Tc, IsSignal
  <1> QED BY <1>2, <1>3, <1>4, CallShape, Zenon DEF Op, Arg

-----------------------------------------------------------------------------
(* Every step keeps the lists consistent. *)

\* A step that leaves the lists alone keeps them in step.
LEMMA ListsUnchanged == ASSUME LInv, UNCHANGED listVars PROVE LInv'
  BY Zenon DEF LInv, LC, listVars

\* No step of scheduler_part2() breaks the event lists.
LEMMA WorkerLists == ASSUME IInv, NEW w \in Workers, worker(w) PROVE LInv'
  <1> USE LInvFromIInv DEF IInv
  <1>1. CASE run_immediate(w) \/ search_none(w) \/ switch_to(w) \/ switch_in(w)
             \/ tc_thread_free(w) \/ epoll_immediate(w) \/ epoll_timeout(w)
             \/ rearm_read(w) \/ arm_immediate(w)
    BY <1>1, ListsUnchanged, Zenon DEF run_immediate, search_none, switch_to, switch_in,
       tc_thread_free, epoll_immediate, epoll_timeout, rearm_read, arm_immediate, parked
  <1>2. CASE search_queue(w)
    <2>1. PICK e \in first_wanted(w) : move_event(e, Pending(Tc(e)))
      BY <1>2, Zenon DEF search_queue
    <2>2. e \in Events
      BY <2>1, FirstWanted, Zenon
    <2>3. Pending(Tc(e)) \in Lists /\ Pending(Tc(e)) # IMMEDIATE
      BY <2>2, EventTc, SchedAssumption, Zenon DEF Lists
    <2> QED BY <2>1, <2>2, <2>3, MoveEventLists, Zenon
  <1>3. CASE search_run(w)
    BY <1>3, FirstWanted, ConsumeEventLists, Zenon DEF search_run
  <1>4. CASE search_exiting(w)
    BY <1>4, FirstWanted, RemoveEventLists, Zenon DEF search_exiting
  <1> QED BY <1>1, <1>2, <1>3, <1>4, Zenon DEF worker

\* Where an event is put on a list it is on none before.
LEMMA FreshEvents ==
    ASSUME IInv, NEW t \in Threads
    PROVE  /\ pc[t] \in {"prepare", "join", "yield"} => el[Event(t)] = NULL
           /\ pc[t] = "subscribe" => el[<<t, Arg(t)>>] = NULL
           /\ pc[t] = "new_post" => el[<<Arg(t), 0>>] = NULL
           /\ pc[t] = "die_post" => el[<<t, 0>>] = NULL
  <1> USE DEF IInv
  <1>1. CASE pc[t] \in {"prepare", "join", "yield"}
    <2>1. Depth(t) # 0
      BY <1>1, Zenon DEF CallsOK, CallOK, NoCallPCs, DiePCs
    <2>2. Depth(t) \in 1..MaxDepth /\ Event(t) = <<t, Depth(t)>>
      BY <2>1, CallFacts, Zenon
    <2> QED BY <1>1, <2>2, Zenon DEF EventsOK
  <1>2. CASE pc[t] \notin {"prepare", "join", "yield"}
    BY <1>2, Zenon DEF EventsOK
  <1> QED BY <1>1, <1>2, Zenon

\* A thread inside a call.
LEMMA InCall ==
    ASSUME IInv, NEW t \in Threads,
           pc[t] \notin {"none", "start", "user", "die", "die_wakeup_iwi", "die_post", "die_iwi",
                        "die_switch", "dead", "freed"}
    PROVE  Depth(t) # 0
  BY Zenon DEF IInv, CallsOK, CallOK, NoCallPCs, DiePCs

\* Waking moves events from a wait queue to the immediate list.
LEMMA WakeupLists ==
    ASSUME IInv, NEW w \in Workers, NEW t \in Threads, tc_waitq_wakeup(w, t) \/ die_wakeup(w, t)
    PROVE  /\ LInv'
           /\ \A e \in Events : \/ el'[e] = el[e]
                                \/ el[e] \in Lists /\ el'[e] = IMMEDIATE
  <1> USE LInvFromIInv DEF IInv, At
  <1>0. /\ Waitqs \cup Threads \cup Signals \subseteq Lists
        /\ IMMEDIATE \notin Waitqs \cup Threads \cup Signals
        /\ \A q \in Lists : Len(list[q]) \in Nat
    BY SchedAssumption, LInvTypes DEF Lists, Queues
  <1>1. CASE tc_waitq_wakeup(w, t)
    <2>1. Depth(t) # 0 /\ Op(t) \in {"wakeup_one", "wakeup_all", "fire"}
      BY <1>1, InCall, Zenon DEF tc_waitq_wakeup, CallsOK, CallOK
    <2>2. Arg(t) \in Lists /\ Arg(t) # IMMEDIATE
      BY <1>0, <2>1, CallFacts, Zenon
    <2>3. (IF Op(t) = "wakeup_one" /\ Len(list[Arg(t)]) > 0 THEN 1 ELSE Len(list[Arg(t)]))
             \in 0..Len(list[Arg(t)])
      BY <1>0, <2>2
    <2> QED BY <1>1, <2>2, <2>3, ToImmediateLists, Zenon DEF tc_waitq_wakeup
  <1>2. CASE die_wakeup(w, t)
    <2>1. t \in Lists /\ t # IMMEDIATE /\ Len(list[t]) \in 0..Len(list[t])
      BY <1>0
    <2> QED BY <1>2, <2>1, ToImmediateLists, Zenon DEF die_wakeup
  <1> QED BY <1>1, <1>2, Zenon

\* A call returns to the thread's function or to the condition it was made from.
LEMMA ReturnFacts ==
    ASSUME TypeOK, NEW t \in Threads, Depth(t) # 0, Return(t)
    PROVE  /\ calls' \in [Threads -> Seq(Call)]
           /\ pc' \in [Threads -> ThreadPCs]
           /\ Depth(t)' = Depth(t) - 1
           /\ \A i \in 1..(Depth(t) - 1) : calls'[t][i] = calls[t][i]
           /\ pc'[t] = IF Depth(t) = 1 THEN "user" ELSE "cond"
           /\ \A u \in Threads \ {t} : calls'[u] = calls[u] /\ pc'[u] = pc[u]
  <1> DEFINE s == calls[t]
             r == SubSeq(s, 1, Len(s) - 1)
  <1>1. s \in Seq(Call) /\ calls \in [Threads -> Seq(Call)] /\ pc \in [Threads -> ThreadPCs]
    BY Zenon DEF TypeOK
  <1>2. Len(s) \in Nat \ {0}
    BY <1>1 DEF Depth
  <1>3. r \in Seq(Call) /\ Len(r) = Len(s) - 1 /\ \A i \in 1..(Len(s) - 1) : r[i] = s[i]
    <2>1. 1 \in Int /\ Len(s) - 1 \in Int /\ \A i \in 1..(Len(s) - 1) : s[i] \in Call
      BY <1>1, <1>2
    <2> HIDE DEF s
    <2>2. /\ r \in Seq(Call)
          /\ Len(r) = IF 1 <= Len(s) - 1 THEN (Len(s) - 1) - 1 + 1 ELSE 0
          /\ \A i \in 1..((Len(s) - 1) - 1 + 1) : r[i] = s[1 + i - 1]
      BY <2>1
    <2> HIDE DEF r
    <2>3. Len(r) = Len(s) - 1
      <3> DEFINE L == Len(s)
      <3>1. L \in Nat \ {0} /\ Len(r) = IF 1 <= L - 1 THEN (L - 1) - 1 + 1 ELSE 0
        BY <1>2, <2>2, Zenon
      <3> HIDE DEF L
      <3>2. Len(r) = L - 1
        BY <3>1
      <3> QED BY <3>2, Zenon DEF L
    <2>4. ASSUME NEW i \in 1..(Len(s) - 1) PROVE r[i] = s[i]
      <3>1. i \in 1..((Len(s) - 1) - 1 + 1) /\ 1 + i - 1 = i
        BY <1>2
      <3>2. r[i] = s[1 + i - 1]
        BY <2>2, <3>1, Zenon
      <3> QED BY <3>1, <3>2, Zenon
    <2> QED BY <2>2, <2>3, <2>4, Zenon
  <1>4. calls' = [calls EXCEPT ![t] = r]
    BY Zenon DEF Return, Depth
  <1> HIDE DEF r
  <1>5. calls' \in [Threads -> Seq(Call)] /\ calls'[t] = r
    BY <1>1, <1>3, <1>4, Zenon
  <1>6. /\ pc' \in [Threads -> ThreadPCs]
        /\ pc'[t] = IF Depth(t) = 1 THEN "user" ELSE "cond"
    BY <1>1, Zenon DEF Return, Goto, ThreadPCs
  <1>7. \A u \in Threads \ {t} : calls'[u] = calls[u] /\ pc'[u] = pc[u]
    BY <1>1, <1>4, Zenon DEF Return, Goto
  <1> QED BY <1>3, <1>5, <1>6, <1>7, Zenon DEF Depth

\* A worker that is about to enter a thread finds it at its start or parked, and
\* one that is about to free it finds it dead.
LEMMA EnterFacts ==
    ASSUME IInv, NEW w \in Workers
    PROVE  /\ wpc[w] \in {"switch_to", "spin", "thread_free"} => target[w] \in Threads
           /\ wpc[w] = "spin" /\ running[target[w]] = NULL => pc[target[w]] \in {"start", "parked"}
           /\ wpc[w] = "thread_free" => pc[target[w]] \in {"die_iwi", "die_switch", "dead"}
           /\ wpc[w] = "thread_free" /\ running[target[w]] = NULL => pc[target[w]] = "dead"
  <1>1. wpc[w] \in {"switch_to", "spin", "thread_free"} => target[w] \in Threads
    BY DEF IInv, TypeOK, WorkersOK
  <1>2. \A t \in Threads : running[t] = NULL => pc[t] \in OffPCs
    BY SchedAssumption DEF IInv, WorkersOK
  <1> QED BY <1>1, <1>2, Zenon DEF IInv, ClaimsOK, OffPCs

\* Only tc_scheduler() and _switch_to() change what the scheduler knows of a thread.
LEMMA QuietFrame ==
    ASSUME IInv, NEW w \in Workers, NEW t \in Threads, coroutine(w, t),
           ~switch_out(w, t), ~tc_scheduler(w, t)
    PROVE  /\ UNCHANGED <<runVars, ctx, wpc, target>>
           /\ ctx[w] = t
           /\ pc[t] \notin OffPCs \cup {"switch"} /\ pc'[t] \notin OffPCs \cup {"switch"}
           /\ pc[t] \in {"die_iwi", "die_switch"} => pc'[t] = "die_switch"
           /\ \A u \in Threads \ {t} : pc'[u] = pc[u] \/ (pc[u] = "none" /\ pc'[u] = "start")
  <1> USE DEF IInv, At
  <1>1. ctx[w] = t /\ pc[t] \notin OffPCs \cup {"switch"} /\ UNCHANGED <<runVars, ctx, wpc, target>>
    BY Zenon DEF coroutine, call, test, tc_waitq_prepare_to_wait, cond, tc_waitq_finish_wait,
       tc_sched_yield, yield_stack, yield_done, tc_waitq_wakeup, iwi_immediate,
       tc_signal_subscribe, tc_signal_unsubscribe, tc_thread_insert, tc_thread_new,
       tc_thread_wait, tc_die, die_wakeup, die_post, host, OffPCs
  <1>2. pc \in [Threads -> ThreadPCs]
    BY Zenon DEF TypeOK
  <1> DEFINE Frame(l) == /\ l \notin OffPCs \cup {"switch"}
                         /\ pc[t] \in {"die_iwi", "die_switch"} => l = "die_switch"
  <1>3. ASSUME NEW l, Goto(t, l), Frame(l)
        PROVE  /\ pc'[t] \notin OffPCs \cup {"switch"}
               /\ pc[t] \in {"die_iwi", "die_switch"} => pc'[t] = "die_switch"
               /\ \A u \in Threads \ {t} : pc'[u] = pc[u]
    BY <1>2, <1>3, Zenon DEF Goto
  <1>4. ASSUME Return(t), pc[t] \notin DiePCs
        PROVE  \E l : Goto(t, l) /\ Frame(l)
    BY <1>4, Zenon DEF Return, OffPCs, DiePCs
  <1>5. CASE call(w, t)
    <2>1. PICK c \in Call : pc[t] \in {"user", "cond"} /\ Goto(t, first_pc[c[1]])
      BY <1>5, CallMade, Zenon DEF Goto
    <2>3. Frame(first_pc[c[1]])
      BY <2>1, FirstPC, Zenon DEF OffPCs
    <2> QED BY <1>1, <1>3, <2>1, <2>3, Zenon
  <1>6. CASE tc_thread_insert(w, t)
    <2>1. Depth(t) # 0 /\ Op(t) = "new" /\ pc[t] = "new" /\ pc[Arg(t)] = "none"
      BY <1>6, InCall, Zenon DEF tc_thread_insert, CallsOK, CallOK
    <2>2. Arg(t) \in Threads /\ Arg(t) # t
      BY <2>1, CallFacts, Zenon
    <2> QED BY <1>1, <1>2, <1>6, <2>1, <2>2, Zenon DEF tc_thread_insert, OffPCs
  <1>7. CASE test(w, t) \/ tc_waitq_prepare_to_wait(w, t) \/ cond(w, t) \/ tc_waitq_finish_wait(w, t)
    <2>1. \E l : Goto(t, l) /\ Frame(l)
      BY <1>4, <1>7, Zenon DEF test, tc_waitq_prepare_to_wait, cond, tc_waitq_finish_wait, prepared,
         OffPCs, DiePCs
    <2> QED BY <1>1, <1>3, <2>1, Zenon
  <1>8. CASE tc_sched_yield(w, t) \/ yield_stack(w, t) \/ yield_done(w, t) \/ tc_waitq_wakeup(w, t)
             \/ tc_signal_subscribe(w, t) \/ tc_signal_unsubscribe(w, t)
    <2>1. \E l : Goto(t, l) /\ Frame(l)
      BY <1>4, <1>8, Zenon DEF tc_sched_yield, yield_stack, yield_done, tc_waitq_wakeup,
         tc_signal_subscribe, tc_signal_unsubscribe, OffPCs, DiePCs
    <2> QED BY <1>1, <1>3, <2>1, Zenon
  <1>9. CASE iwi_immediate(w, t)
    <2>1. \E l : Goto(t, l) /\ Frame(l)
      BY <1>4, <1>9, Zenon DEF iwi_immediate, OffPCs, DiePCs
    <2> QED BY <1>1, <1>3, <2>1, Zenon
  <1>10. CASE tc_thread_new(w, t) \/ tc_thread_wait(w, t) \/ tc_die(w, t) \/ die_wakeup(w, t)
              \/ die_post(w, t)
    <2>1. \E l : Goto(t, l) /\ Frame(l)
      BY <1>4, <1>10, Zenon DEF tc_thread_new, tc_thread_wait, tc_die, die_wakeup, die_post,
         OffPCs, DiePCs
    <2> QED BY <1>1, <1>3, <2>1, Zenon
  <1> QED BY <1>5, <1>6, <1>7, <1>8, <1>9, <1>10, Zenon DEF coroutine

\* scheduler_part2() puts no event on a list that was on none.
LEMMA WorkerAdded ==
    ASSUME IInv, NEW w \in Workers, worker(w), NEW e \in Events, el[e] = NULL
    PROVE  el'[e] = NULL
  <1> USE LInvFromIInv DEF IInv
  <1>0. IMMEDIATE # NULL /\ el \in [Events -> Lists \cup {NULL}]
    BY SchedAssumption, Zenon DEF TypeOK, Lists
  <1>1. CASE UNCHANGED el
    BY <1>1, Zenon
  <1>2. CASE search_queue(w)
    BY <1>0, <1>2, FirstWanted, Zenon DEF search_queue, move_event
  <1>3. CASE search_run(w)
    BY <1>0, <1>3, FirstWanted, ConsumeEventLists, SMTT(30) DEF search_run
  <1>4. CASE search_exiting(w)
    BY <1>0, <1>4, FirstWanted, Zenon DEF search_exiting, remove_event
  <1> QED BY <1>1, <1>2, <1>3, <1>4, Zenon DEF worker, run_immediate, search_none, switch_to, switch_in,
             tc_thread_free, epoll_immediate, epoll_timeout, rearm_read, arm_immediate, parked, listVars

\* The events that t puts on a list at its current pc.
Adds(t) ==
    {e \in Events : \/ pc[t] \in {"prepare", "join", "yield"} /\ e = Event(t)
                    \/ pc[t] = "subscribe" /\ e = <<t, Arg(t)>>
                    \/ pc[t] = "new_post" /\ e = <<Arg(t), 0>>
                    \/ pc[t] = "die_post" /\ e = <<t, 0>>
                    \/ pc[t] \in {"finish", "finish_true"} /\ IsSignal(e) /\ Tc(e) = t}

\* Only the events Adds(t) names come onto a list in a step of t.
LEMMA CoroutineAdded ==
    ASSUME IInv, NEW w \in Workers, NEW t \in Threads, coroutine(w, t),
           NEW e \in Events, el[e] = NULL, el'[e] # NULL
    PROVE  e \in Adds(t)
  <1> USE LInvFromIInv DEF IInv, At
  <1>0. el \in [Events -> Lists \cup {NULL}] /\ \A l \in Lists : l # NULL
    BY SchedAssumption, Zenon DEF TypeOK
  <1>1. CASE UNCHANGED listVars
    BY <1>1, Zenon DEF listVars
  <1>2. CASE tc_waitq_prepare_to_wait(w, t)
    BY <1>0, <1>2, Zenon DEF tc_waitq_prepare_to_wait, prepare_to_wait, add_event, Adds
  <1>3. CASE tc_scheduler(w, t)
    <2>1. ASSUME NEW x \in pending_event(t), consume_event(x) PROVE FALSE
      <3>1. x \in Events /\ el[x] # NULL
        BY <1>0, PendingEvent, Zenon DEF Lists
      <3> QED BY <1>0, <2>1, <3>1, ConsumeEventLists, Zenon
    <2> QED BY <1>1, <1>3, <2>1, Zenon DEF tc_scheduler
  <1>4. CASE tc_waitq_finish_wait(w, t)
    <2>1. CASE leave(Event(t))
      <3>1. UNCHANGED el \/ el' = [el EXCEPT ![Event(t)] = NULL]
        BY <2>1, Zenon DEF leave, remove_event, listVars
      <3> QED BY <1>0, <3>1, Zenon
    <2>2. CASE interrupted(w, t) /\ requeue_signal(Event(t), woken_by_event[w])
      <3>1. /\ e = woken_by_event[w] /\ IsSignal(e)
            /\ ctx[w] = t /\ pc[t] \in {"finish", "finish_true"}
        BY <1>0, <1>4, <2>2, Zenon DEF requeue_signal, interrupted, tc_waitq_finish_wait
      <3>2. Tc(e) = t
        BY <3>1, SchedAssumption, Zenon DEF WokenOK, Woken
      <3> QED BY <3>1, <3>2, Zenon DEF Adds
    <2> QED BY <1>4, <2>1, <2>2, Zenon DEF tc_waitq_finish_wait
  <1>5. CASE tc_sched_yield(w, t)
    BY <1>0, <1>5, Zenon DEF tc_sched_yield, add_event_cr, Adds
  <1>6. CASE yield_done(w, t)
    BY <1>0, <1>1, <1>6, Zenon DEF yield_done, remove_event
  <1>7. CASE tc_waitq_wakeup(w, t)
    BY <1>0, <1>7, WakeupLists, Zenon
  <1>8. CASE tc_signal_subscribe(w, t)
    BY <1>0, <1>8, Zenon DEF tc_signal_subscribe, add_event, Adds
  <1>9. CASE tc_signal_unsubscribe(w, t)
    BY <1>0, <1>9, Zenon DEF tc_signal_unsubscribe, remove_event
  <1>10. CASE tc_thread_new(w, t)
    BY <1>0, <1>10, Zenon DEF tc_thread_new, add_event_cr, Adds
  <1>11. CASE tc_thread_wait(w, t)
    BY <1>0, <1>1, <1>11, Zenon DEF tc_thread_wait, prepare_to_wait, add_event, Adds
  <1>12. CASE die_wakeup(w, t)
    BY <1>0, <1>12, WakeupLists, Zenon
  <1>13. CASE die_post(w, t)
    BY <1>0, <1>13, Zenon DEF die_post, add_event_cr, Adds
  <1> QED BY <1>1, <1>2, <1>3, <1>4, <1>5, <1>6, <1>7, <1>8, <1>9, <1>10, <1>11, <1>12, <1>13, Zenon
          DEF coroutine, call, test, cond, switch_out, yield_stack, iwi_immediate,
              tc_thread_insert, tc_die, client

\* A thread's own event is put on a list only when it is created or dies.
LEMMA ThreadEventAdded ==
    ASSUME IInv, NEW w \in Workers, NEW t \in Threads, coroutine(w, t), NEW u \in Threads,
           el[<<u, 0>>] = NULL, el'[<<u, 0>>] # NULL
    PROVE  \/ pc[t] = "new_post" /\ u = Arg(t) /\ pc[u] = "start" /\ ~TF_RUNNING[u]
           \/ pc[t] = "die_post" /\ u = t
  <1> DEFINE e == <<u, 0>>
  <1> USE DEF IInv
  <1>1. e \in Events /\ ~IsSignal(e)
    BY SchedAssumption, SMTT(30) DEF Events, IsSignal
  <1>2. e \in Adds(t)
    BY <1>1, CoroutineAdded, Zenon
  <1>3. CASE pc[t] \in {"prepare", "join", "yield", "subscribe"}
    <2>1. Depth(t) # 0
      BY <1>3, InCall, Zenon
    <2>2. Event(t) = <<t, Depth(t)>> /\ (pc[t] = "subscribe" => Arg(t) \in Signals)
      BY <1>3, <2>1, CallFacts, Zenon DEF CallsOK, CallOK
    <2>4. 0 \notin Signals
      <3>1. 0 \in 0..MaxDepth
        BY SchedAssumption, SMTT(30)
      <3> QED BY <3>1, SchedAssumption, Zenon
    <2>3. e # Event(t) /\ (pc[t] = "subscribe" => e # <<t, Arg(t)>>)
      BY <2>1, <2>2, <2>4
    <2> QED BY <1>1, <1>2, <1>3, <2>3, Zenon DEF Adds
  <1>4. CASE pc[t] \notin {"prepare", "join", "yield", "subscribe"}
    BY <1>1, <1>2, <1>4, Zenon DEF Adds, EventsOK
  <1> QED BY <1>3, <1>4, Zenon

-----------------------------------------------------------------------------
(* Every step keeps the types. *)

\* A wakeup moves events of a list: all of them or the first.
LEMMA MovedDue ==
    ASSUME list \in [Lists -> Seq(Events)], due \subseteq Events, NEW q \in Lists, NEW n,
           to_immediate(q, n), n = 1 \/ n = Len(list[q]), n = 1 => Len(list[q]) > 0
    PROVE  due' \subseteq Events
  <1>1. list[q] \in Seq(Events)
    OBVIOUS
  <1>2. \A i \in 1..n : list[q][i] \in Events
    BY <1>1
  <1> QED BY <1>2, Zenon DEF to_immediate

\* The types that the invariant of the lists implies.
LEMMA ListTypes ==
    ASSUME LInv'
    PROVE  /\ list' \in [Lists -> Seq(Events)] /\ el' \in [Events -> Lists \cup {NULL}]
           /\ immediate_count' \in Int /\ refcnt' \in [Threads -> Int]
  BY SMTT(30) DEF LInv, LC, Lists

-----------------------------------------------------------------------------
(* Every step keeps calls and pc in agreement. *)

\* A thread whose pc and calls do not change stays in its call.
LEMMA CallUnchanged ==
    ASSUME NEW u \in Threads, CallOK(u), calls'[u] = calls[u],
           pc'[u] = pc[u] \/ {pc[u], pc'[u]} \subseteq {"none", "start", "user"} \cup DiePCs
    PROVE  CallOK(u)'
  BY Zenon DEF CallOK, NoCallPCs, DiePCs, Depth, Op

\* The end of a call leads back to its caller: the thread's function or a condition.
LEMMA ReturnCalls ==
    ASSUME IInv, NEW t \in Threads, Depth(t) # 0, Return(t)
    PROVE  CallsOK'
  <1>1. /\ Depth(t) \in 1..MaxDepth /\ MaxDepth \in Nat
        /\ \A i \in 1..(Depth(t) - 1) : calls[t][i][1] = "wait_event"
    BY CallFacts, SchedAssumption, Zenon DEF IInv, CallsOK, CallOK
  <1>2. CallOK(t)'
    <2> DEFINE d == Depth(t)
    <2>1. /\ Depth(t)' = d - 1
          /\ \A i \in 1..(d - 1) : calls'[t][i] = calls[t][i]
          /\ pc'[t] = IF d = 1 THEN "user" ELSE "cond"
      BY ReturnFacts, Zenon DEF IInv
    <2>2. Op(t)' = calls'[t][d - 1][1]
      BY <2>1, Zenon DEF Op
    <2> HIDE DEF d
    <2>3. d \in 1..MaxDepth /\ \A i \in 1..(d - 1) : calls[t][i][1] = "wait_event"
      BY <1>1, Zenon DEF d
    <2>4. CASE d = 1
      BY <1>1, <2>1, <2>3, <2>4 DEF CallOK, NoCallPCs
    <2>5. CASE d # 1
      <3>1. d - 1 \in 1..(d - 1) /\ d - 1 # 0 /\ d - 1 <= MaxDepth
        BY <1>1, <2>3, <2>5
      <3>2. Op(t)' = "wait_event"
        BY <2>1, <2>2, <2>3, <3>1, Zenon
      <3>3. \A i \in 1..(d - 1 - 1) : calls'[t][i][1] = "wait_event"
        BY <1>1, <2>1, <2>3
      <3> QED BY <2>1, <2>5, <3>1, <3>2, <3>3, ZenonT(30) DEF CallOK, NoCallPCs, DiePCs
    <2> QED BY <2>4, <2>5, Zenon
  <1>3. \A u \in Threads \ {t} : CallOK(u)'
    BY ReturnFacts, CallUnchanged, Zenon DEF IInv, CallsOK
  <1> QED BY <1>2, <1>3, Zenon DEF CallsOK

\* One more call on the stack of calls.
LEMMA Pushed ==
    ASSUME NEW s \in Seq(Call), NEW c \in Call
    PROVE  /\ Len(Append(s, c)) = Len(s) + 1 /\ Len(s) \in Nat
           /\ Append(s, c)[Len(Append(s, c))] = c
           /\ \A i \in 1..Len(s) : Append(s, c)[i] = s[i]
  OBVIOUS

LEMMA Deeper ==
    ASSUME NEW d \in Nat
    PROVE  /\ \A i \in 1..d : i = d \/ i \in 1..(d - 1)
           /\ d + 1 # 0 /\ \A e : e = d + 1 => \A i \in 1..(e - 1) : i \in 1..d
           /\ \A m \in Nat : d < m => d + 1 <= m
  OBVIOUS

LEMMA Shallow == 1..0 = {} /\ 0 + 1 = 1
  OBVIOUS

-----------------------------------------------------------------------------
(* Every step keeps the events where they belong. *)

\* A thread at its start has no event on a list but the one embedded in it.
LEMMA StartEvents ==
    ASSUME IInv, NEW e \in Events, el[e] # NULL, pc[Tc(e)] \in {"none", "start"}
    PROVE  e = <<Tc(e), 0>> /\ pc[Tc(e)] = "start" /\ ~IsSignal(e)
  <1> DEFINE t == Tc(e)
  <1> USE DEF IInv
  <1>1. t \in Threads /\ e = <<t, e[2]>> /\ e[2] \in 0..MaxDepth \cup Signals
    BY DEF Events, Tc
  <1>2. Depth(t) = 0
    BY <1>1, Zenon DEF CallsOK, CallOK, NoCallPCs
  <1>3. e[2] \notin Signals
    BY <1>1, ZenonT(30) DEF EventsOK
  <1>4. e[2] \notin 1..MaxDepth
    BY <1>1, <1>2 DEF EventsOK
  <1>5. e[2] = 0
    BY <1>1, <1>3, <1>4, SchedAssumption
  <1>6. e = <<t, 0>>
    BY <1>1, <1>5, Zenon
  <1>7. pc[t] # "none"
    BY <1>1, <1>6, Zenon DEF EventsOK
  <1> QED BY <1>3, <1>6, <1>7, Zenon DEF IsSignal

\* No two threads share a pending list.
LEMMA PendingIs == \A t, u \in Threads : Pending(t) = Pending(u) => t = u
  BY Zenon DEF Pending

\* What a step of t does to t's control state and to that of the others.
LEMMA CoroutineFrame ==
    ASSUME IInv, NEW w \in Workers, NEW t \in Threads, coroutine(w, t)
    PROVE  /\ ctx[w] = t /\ pc[t] \notin OffPCs /\ pc'[t] \notin {"none", "start"}
           /\ pc[t] \in {"die_iwi", "die_switch"} => pc'[t] \in {"die_switch", "dead"}
           /\ \A u \in Threads \ {t} : /\ calls'[u] = calls[u]
                                       /\ pc'[u] = pc[u] \/ (pc[u] = "none" /\ pc'[u] = "start")
           /\ \A u \in Threads : TF_RUNNING'[u] => TF_RUNNING[u]
           /\ \A v \in Workers : wpc'[v] \in {"switch_to", "spin"} =>
                 wpc[v] \in {"switch_to", "spin"} /\ target'[v] = target[v]
  <1> USE DEF IInv
  <1>1. \A u \in Threads \ {t} : calls'[u] = calls[u]
    <2>1. CASE UNCHANGED calls
      BY <2>1, Zenon
    <2>2. CASE call(w, t)
      BY <2>2, Zenon DEF call, TypeOK
    <2>3. CASE Return(t)
      BY <2>3, Zenon DEF Return, TypeOK
    <2>4. CASE iwi_immediate(w, t)
      BY <2>1, <2>3, <2>4, Zenon DEF iwi_immediate
    <2> QED BY <2>1, <2>2, <2>3, <2>4, Zenon DEF coroutine, test, tc_waitq_prepare_to_wait, cond,
         tc_scheduler, switch_out, tc_waitq_finish_wait, tc_sched_yield, yield_stack, yield_done,
         tc_waitq_wakeup, tc_signal_subscribe, tc_signal_unsubscribe, tc_thread_insert,
         tc_thread_new, tc_thread_wait, tc_die, die_wakeup, die_post, client
  <1>2. CASE ~switch_out(w, t) /\ ~tc_scheduler(w, t)
    BY <1>1, <1>2, QuietFrame, ZenonT(30) DEF runVars, OffPCs
  <1>3. CASE switch_out(w, t)
    <2>1. /\ ctx[w] = t /\ pc[t] \in {"switch", "die_switch"}
          /\ pc' = [pc EXCEPT ![t] = IF pc[t] = "switch" THEN "parked" ELSE "dead"]
          /\ wpc' = [wpc EXCEPT ![w] = wpc'[w]] /\ wpc'[w] \in {"round", "search"}
          /\ UNCHANGED <<TF_RUNNING, target>>
      BY <1>3, Zenon DEF switch_out, pass_done, Goto, TypeOK
    <2>2. \A v \in Workers : wpc'[v] \in {"switch_to", "spin"} => wpc[v] \in {"switch_to", "spin"}
      BY <2>1, Zenon DEF TypeOK
    <2> QED BY <1>1, <2>1, <2>2, ZenonT(30) DEF OffPCs, TypeOK
  <1>4. CASE tc_scheduler(w, t)
    <2>1. \A u \in Threads : TF_RUNNING'[u] => TF_RUNNING[u]
      BY <1>4, Zenon DEF tc_scheduler, TypeOK
    <2>2. /\ ctx[w] = t /\ pc[t] = "scheduler" /\ UNCHANGED <<wpc, target>>
          /\ pc' = [pc EXCEPT ![t] = pc'[t]] /\ pc'[t] \in {"finish", "yield_done", "switch"}
      BY <1>4, Zenon DEF tc_scheduler, At, Goto, resume_pc, TypeOK
    <2> QED BY <1>1, <2>1, <2>2, ZenonT(30) DEF OffPCs, TypeOK
  <1> QED BY <1>2, <1>3, <1>4, Zenon

\* The events of t's calls in progress after a step of t.
OwnEvents(t) == \A d \in 1..MaxDepth : el[<<t, d>>] # NULL =>
    /\ d <= Depth(t) /\ calls[t][d][1] \in Blocking
    /\ d = Depth(t) => pc[t] \notin {"test", "prepare", "yield", "join"}

\* A call that returns has taken its event off every list.
LEMMA ReturnEvents ==
    ASSUME IInv, NEW t \in Threads, Depth(t) # 0, Return(t),
           \A d \in 1..MaxDepth : el[<<t, d>>] = NULL => el'[<<t, d>>] = NULL,
           el'[Event(t)] = NULL
    PROVE  OwnEvents(t)'
  <1>1. /\ Depth(t)' = Depth(t) - 1
        /\ \A i \in 1..(Depth(t) - 1) : calls'[t][i] = calls[t][i]
        /\ pc'[t] \in {"user", "cond"}
    BY ReturnFacts, Zenon DEF IInv
  <1>2. Depth(t) \in 1..MaxDepth /\ Event(t) = <<t, Depth(t)>> /\ MaxDepth \in Nat
    BY CallFacts, SchedAssumption, Zenon DEF IInv
  <1>3. ASSUME NEW d \in 1..MaxDepth, el'[<<t, d>>] # NULL
        PROVE  d <= Depth(t) - 1 /\ calls'[t][d][1] \in Blocking
    <2>1. el[<<t, d>>] # NULL /\ d # Depth(t)
      BY <1>2, <1>3, Zenon
    <2>2. d <= Depth(t) /\ calls[t][d][1] \in Blocking
      BY <2>1, Zenon DEF IInv, EventsOK
    <2>3. d \in 1..(Depth(t) - 1)
      BY <1>2, <2>1, <2>2
    <2> QED BY <1>1, <2>2, <2>3
  <1> QED BY <1>1, <1>3, Zenon DEF OwnEvents

\* A call that goes on leaves the events of the others in progress alone.
LEMMA GotoEvents ==
    ASSUME IInv, NEW t \in Threads, Depth(t) # 0, NEW l, Goto(t, l), UNCHANGED calls,
           \A d \in 1..MaxDepth : el[<<t, d>>] = NULL /\ d # Depth(t) => el'[<<t, d>>] = NULL,
           \/ el'[Event(t)] = NULL
           \/ Op(t) \in Blocking /\ l \notin {"test", "prepare", "yield", "join"}
           \/ el[Event(t)] # NULL /\ l \notin {"test", "prepare", "yield", "join"}
    PROVE  OwnEvents(t)'
  <1>1. pc'[t] = l /\ Depth(t)' = Depth(t) /\ calls' = calls
    BY Zenon DEF Goto, Depth, IInv, TypeOK
  <1>2. Depth(t) \in 1..MaxDepth /\ Event(t) = <<t, Depth(t)>>
    BY CallFacts, Zenon DEF IInv
  <1>3. ASSUME NEW d \in 1..MaxDepth, el'[<<t, d>>] # NULL
        PROVE  /\ d <= Depth(t) /\ calls[t][d][1] \in Blocking
               /\ d = Depth(t) => l \notin {"test", "prepare", "yield", "join"}
    <2>1. CASE d = Depth(t)
      <3>1. el'[Event(t)] # NULL
        BY <1>2, <1>3, <2>1, Zenon
      <3>2. el[Event(t)] # NULL => calls[t][d][1] \in Blocking
        BY <1>2, <2>1, Zenon DEF IInv, EventsOK
      <3> QED BY <2>1, <3>1, <3>2 DEF Op
    <2>2. CASE d # Depth(t)
      <3>1. el[<<t, d>>] # NULL
        BY <1>3, <2>2, Zenon
      <3> QED BY <2>2, <3>1, Zenon DEF IInv, EventsOK
    <2> QED BY <2>1, <2>2, Zenon
  <1> QED BY <1>1, <1>3, Zenon DEF OwnEvents

\* A thread's own events stay where its pc and its calls allow.
LEMMA CoroutineOwn ==
    ASSUME IInv, NEW w \in Workers, NEW t \in Threads, coroutine(w, t) PROVE OwnEvents(t)'
  <1> USE DEF IInv, At
  <1>0. /\ CallOK(t) /\ MaxDepth \in Nat
        /\ \A d \in 1..MaxDepth : <<t, d>> \in Events /\ d \notin Signals
    BY SchedAssumption DEF CallsOK, Events
  <1>a. ASSUME NEW d \in 1..MaxDepth, el[<<t, d>>] = NULL, el'[<<t, d>>] # NULL
        PROVE  pc[t] \in {"prepare", "join", "yield"} /\ d = Depth(t)
    <2>1. <<t, d>> \in Adds(t)
      BY <1>0, <1>a, CoroutineAdded, Zenon
    <2>2. pc[t] = "subscribe" => Arg(t) \in Signals
      BY <1>0, InCall, CallFacts, Zenon DEF CallOK
    <2> QED BY <1>0, <2>1, <2>2, SMTT(30) DEF Adds, Event, IsSignal
  <1>b. Depth(t) # 0 =>
          /\ Event(t) \in Events /\ Event(t) = <<t, Depth(t)>> /\ Depth(t) \in 1..MaxDepth
          /\ ~IsSignal(Event(t))
          /\ Op(t) \notin Blocking \/ pc[t] \in {"test", "join"} => el[Event(t)] = NULL
    <2>1. ASSUME Depth(t) # 0
          PROVE  /\ Event(t) \in Events /\ Event(t) = <<t, Depth(t)>> /\ Depth(t) \in 1..MaxDepth
                 /\ ~IsSignal(Event(t))
      BY <2>1, CallFacts, Zenon
    <2>2. ASSUME Depth(t) # 0, Op(t) \notin Blocking \/ pc[t] \in {"test", "join"}
          PROVE  el[Event(t)] = NULL
      BY <2>1, <2>2, Zenon DEF EventsOK, Op
    <2> QED BY <2>1, <2>2, Zenon
  <1>c. ASSUME Return(t), Depth(t) # 0, pc[t] \notin {"prepare", "yield"},
               el[Event(t)] = NULL \/ el'[Event(t)] = NULL, pc[t] = "join" => UNCHANGED el
        PROVE  OwnEvents(t)'
    BY <1>a, <1>b, <1>c, ReturnEvents, Zenon
  <1>d. ASSUME NEW l, Goto(t, l), UNCHANGED calls, Depth(t) # 0,
               \/ el'[Event(t)] = NULL
               \/ l \notin {"test", "prepare", "yield", "join"} /\ Op(t) \in Blocking
               \/ l \notin {"test", "prepare", "yield", "join"}
                  /\ pc[t] \notin {"prepare", "join", "yield"}
        PROVE  OwnEvents(t)'
    <2>1. \/ el'[Event(t)] = NULL
          \/ Op(t) \in Blocking /\ l \notin {"test", "prepare", "yield", "join"}
          \/ el[Event(t)] # NULL /\ l \notin {"test", "prepare", "yield", "join"}
      BY <1>a, <1>b, <1>d, Zenon
    <2> QED BY <1>a, <1>d, <2>1, GotoEvents, Zenon
  <1>e. ASSUME Depth(t) = 0, UNCHANGED calls
        PROVE  OwnEvents(t)'
    <2>1. pc[t] \in NoCallPCs
      BY <1>0, <1>e, Zenon DEF CallOK
    <2>2. ASSUME NEW d \in 1..MaxDepth PROVE el'[<<t, d>>] = NULL
      <3>1. ~(d <= Depth(t))
        BY <1>e
      <3>2. el[<<t, d>>] = NULL
        BY <3>1, Zenon DEF EventsOK
      <3> QED BY <1>a, <2>1, <3>2, Zenon DEF NoCallPCs, DiePCs
    <2> QED BY <2>2, Zenon DEF OwnEvents
  <1>1. CASE call(w, t)
    <2>1. PICK c \in Calls[t][made[t] + 1] : calls' = [calls EXCEPT ![t] = Append(@, c)]
      BY <1>1, Zenon DEF call
    <2>2. UNCHANGED el /\ calls[t] \in Seq(Call) /\ calls'[t] = Append(calls[t], c)
      BY <1>1, <2>1, Zenon DEF call, listVars, TypeOK
    <2>3. Depth(t)' = Depth(t) + 1 /\ Depth(t) \in Nat
          /\ \A i \in 1..Depth(t) : calls'[t][i] = calls[t][i]
      BY <2>2 DEF Depth
    <2>4. ASSUME NEW d \in 1..MaxDepth, el'[<<t, d>>] # NULL
          PROVE  d <= Depth(t) /\ calls'[t][d][1] \in Blocking
      <3>1. d <= Depth(t) /\ calls[t][d][1] \in Blocking
        BY <2>2, <2>4, Zenon DEF EventsOK
      <3>2. d \in 1..Depth(t)
        BY <1>0, <2>3, <3>1
      <3> QED BY <2>3, <3>1, <3>2, Zenon
    <2>5. \A d \in 1..MaxDepth : d <= Depth(t) => d # Depth(t) + 1 /\ d <= Depth(t) + 1
      BY <1>0, <2>3, SMTT(30)
    <2> QED BY <2>3, <2>4, <2>5, Zenon DEF OwnEvents
  <1>2. CASE test(w, t)
    <2>1. Depth(t) # 0 /\ UNCHANGED el /\ pc[t] = "test"
      BY <1>2, InCall, Zenon DEF test, listVars
    <2> QED BY <1>2, <1>b, <1>c, <1>d, <2>1, Zenon DEF test
  <1>3. CASE tc_waitq_prepare_to_wait(w, t)
    <2>1. Depth(t) # 0 /\ Op(t) \in Blocking
      BY <1>0, <1>3, InCall, Zenon DEF tc_waitq_prepare_to_wait, CallOK, Blocking
    <2> QED BY <1>3, <1>d, <2>1, Zenon DEF tc_waitq_prepare_to_wait, prepared
  <1>4. CASE cond(w, t)
    BY <1>4, <1>d, InCall, Zenon DEF cond
  <1>5. CASE tc_scheduler(w, t)
    BY <1>5, <1>d, InCall, Zenon DEF tc_scheduler, client, resume_pc
  <1>6. CASE switch_out(w, t)
    BY <1>6, <1>d, <1>e, Zenon DEF switch_out, client
  <1>7. CASE tc_waitq_finish_wait(w, t)
    <2>1. Depth(t) # 0 /\ pc[t] \in {"finish", "finish_true"}
      BY <1>7, InCall, Zenon DEF tc_waitq_finish_wait
    <2>2. el'[Event(t)] = NULL
      <3>0. el \in [Events -> Lists \cup {NULL}]
        BY Zenon DEF TypeOK
      <3>1. CASE leave(Event(t))
        BY <1>b, <2>1, <3>0, <3>1, Zenon DEF leave, remove_event, listVars
      <3>2. CASE interrupted(w, t) /\ requeue_signal(Event(t), woken_by_event[w])
        BY <1>b, <2>1, <3>0, <3>2, Zenon DEF requeue_signal, interrupted
      <3> QED BY <1>7, <3>1, <3>2, Zenon DEF tc_waitq_finish_wait
    <2> QED BY <1>7, <1>c, <1>d, <2>1, <2>2, Zenon DEF tc_waitq_finish_wait
  <1>8. CASE tc_sched_yield(w, t) \/ yield_stack(w, t)
    <2>1. Depth(t) # 0 /\ Op(t) \in Blocking
      BY <1>0, <1>8, InCall, Zenon DEF tc_sched_yield, yield_stack, CallOK, Blocking
    <2> QED BY <1>8, <1>d, <2>1, Zenon DEF tc_sched_yield, yield_stack, client
  <1>9. CASE yield_done(w, t)
    <2>1. Depth(t) # 0 /\ pc[t] = "yield_done" /\ ctx[w] = t
      BY <1>9, InCall, Zenon DEF yield_done
    <2>2. el'[Event(t)] = NULL
      <3>0. el \in [Events -> Lists \cup {NULL}] /\ NULL \notin Threads \cup Events
        BY SchedAssumption, Zenon DEF TypeOK
      <3>1. CASE woken_by_event[w] # Event(t)
        BY <1>9, <1>b, <2>1, <3>0, <3>1, Zenon DEF yield_done, remove_event
      <3>2. CASE woken_by_event[w] = Event(t)
        <4>1. el[Event(t)] = NULL
          BY <1>b, <2>1, <3>0, <3>2, Zenon DEF WokenOK, Woken
        <4> QED BY <1>9, <3>2, <4>1, Zenon DEF yield_done, listVars
      <3> QED BY <3>1, <3>2, Zenon
    <2> QED BY <1>9, <1>c, <2>1, <2>2, Zenon DEF yield_done
  <1>10. CASE tc_waitq_wakeup(w, t) \/ tc_signal_subscribe(w, t) \/ tc_signal_unsubscribe(w, t)
              \/ tc_thread_insert(w, t) \/ tc_thread_new(w, t) \/ (iwi_immediate(w, t) /\ pc[t] = "iwi")
    <2>1. Depth(t) # 0 /\ Op(t) \notin Blocking
      BY <1>0, <1>10, InCall, Zenon DEF tc_waitq_wakeup, tc_signal_subscribe, tc_signal_unsubscribe,
         tc_thread_insert, tc_thread_new, CallOK, Blocking
    <2>2. el[Event(t)] = NULL /\ pc[t] \notin {"prepare", "join", "yield"}
      BY <1>10, <1>b, <2>1, Zenon DEF tc_waitq_wakeup, tc_signal_subscribe, tc_signal_unsubscribe,
         tc_thread_insert, tc_thread_new
    <2>3. CASE Return(t)
      BY <1>c, <2>1, <2>2, <2>3, Zenon
    <2>4. CASE Goto(t, "iwi") /\ UNCHANGED calls
      BY <1>d, <2>1, <2>2, <2>4, Zenon
    <2>5. CASE tc_thread_insert(w, t)
      <3>1. UNCHANGED calls /\ UNCHANGED el /\ pc'[t] = "new_post"
        <4>1. Arg(t) # t /\ UNCHANGED calls /\ UNCHANGED el
          BY <2>5, Zenon DEF tc_thread_insert, listVars
        <4> QED BY <2>5, <4>1, Zenon DEF tc_thread_insert, TypeOK
      <3> QED BY <3>1, Zenon DEF OwnEvents, EventsOK, Depth
    <2> QED BY <1>10, <2>3, <2>4, <2>5, Zenon DEF tc_waitq_wakeup, tc_signal_subscribe,
               tc_signal_unsubscribe, tc_thread_new, iwi_immediate, client
  <1>11. CASE tc_thread_wait(w, t)
    <2>1. Depth(t) # 0 /\ Op(t) \in Blocking /\ pc[t] = "join"
      BY <1>0, <1>11, InCall, Zenon DEF tc_thread_wait, CallOK, Blocking
    <2> QED BY <1>11, <1>b, <1>c, <1>d, <2>1, Zenon DEF tc_thread_wait, listVars
  <1>12. CASE tc_die(w, t) \/ die_wakeup(w, t) \/ die_post(w, t)
              \/ (iwi_immediate(w, t) /\ pc[t] # "iwi")
    <2>1. Depth(t) = 0 /\ UNCHANGED calls
      BY <1>0, <1>12, Zenon DEF tc_die, die_wakeup, die_post, iwi_immediate, client, CallOK, NoCallPCs, DiePCs
    <2> QED BY <1>e, <2>1, Zenon
  <1> QED BY <1>1, <1>2, <1>3, <1>4, <1>5, <1>6, <1>7, <1>8, <1>9, <1>10, <1>11, <1>12, Zenon DEF coroutine

\* A thread that does not exist yet is claimed by no worker.
LEMMA UnbornUnclaimed ==
    ASSUME IInv, NEW u \in Threads, pc[u] = "none" PROVE ~TF_RUNNING[u]
  <1>1. ASSUME NEW v \in Workers, Claims(v, u) PROVE FALSE
    BY <1>1 DEF Claims, IInv, WorkersOK, ClaimsOK, OffPCs
  <1> QED BY <1>1, Zenon DEF IInv, ClaimsOK, RunningFlagExact

\* A step of a tc_thread keeps EventsOK.
LEMMA CoroutineEvents ==
    ASSUME IInv, NEW w \in Workers, NEW t \in Threads, coroutine(w, t) PROVE EventsOK'
  <1> USE DEF IInv
  <1>0. /\ \A u \in Threads, s \in Signals : <<u, s>> \in Events /\ s # 0 /\ s \notin 0..MaxDepth
        /\ \A u \in Threads : <<u, 0>> \in Events
        /\ \A u \in Threads, d \in 1..MaxDepth : <<u, d>> \in Events /\ d # 0 /\ d \notin Signals
    BY ThreadEvents, Zenon
  <1>t. /\ el \in [Events -> Lists \cup {NULL}] /\ pc \in [Threads -> ThreadPCs]
        /\ calls \in [Threads -> Seq(Call)]
    BY Zenon DEF TypeOK
  <1>f. /\ pc[t] \notin OffPCs /\ pc'[t] \notin {"none", "start"}
        /\ pc[t] \in {"die_iwi", "die_switch"} => pc'[t] \in {"die_switch", "dead"}
        /\ \A u \in Threads \ {t} : /\ calls'[u] = calls[u]
                                    /\ pc'[u] = pc[u] \/ (pc[u] = "none" /\ pc'[u] = "start")
        /\ \A u \in Threads : TF_RUNNING'[u] => TF_RUNNING[u]
        /\ \A v \in Workers : wpc'[v] \in {"switch_to", "spin"} =>
              wpc[v] \in {"switch_to", "spin"} /\ target'[v] = target[v]
    BY CoroutineFrame, Zenon
  <1>d. pc[t] \in {"prepare", "join", "yield"} => Event(t) = <<t, Depth(t)>> /\ Depth(t) \in 1..MaxDepth
    BY InCall, CallFacts, Zenon
  <1>1. ASSUME NEW u \in Threads, NEW s \in Signals, pc'[u] \in {"none", "start"}
        PROVE  el'[<<u, s>>] = NULL
    <2>1. u # t /\ pc[u] \in {"none", "start"}
      BY <1>1, <1>f, Zenon
    <2>2. el[<<u, s>>] = NULL
      BY <2>1, Zenon DEF EventsOK
    <2>3. <<u, s>> \notin Adds(t)
      BY <1>0, <1>d, <2>1 DEF Adds, Tc
    <2> QED BY <1>0, <2>2, <2>3, CoroutineAdded, Zenon
  <1>2. ASSUME NEW u \in Threads, el'[<<u, 0>>] # NULL
        PROVE  pc'[u] \in {"start", "die_iwi", "die_switch", "dead"}
    <2>1. CASE el[<<u, 0>>] # NULL
      <3>1. pc[u] \in {"start", "die_iwi", "die_switch", "dead"}
        BY <2>1, Zenon DEF EventsOK
      <3> QED BY <1>f, <3>1, Zenon DEF OffPCs
    <2>2. CASE el[<<u, 0>>] = NULL
      <3>1. \/ pc[t] = "new_post" /\ pc[u] = "start"
            \/ pc[t] = "die_post" /\ u = t
        BY <1>2, <2>2, ThreadEventAdded, Zenon
      <3>2. pc[t] = "die_post" => pc'[t] = "die_iwi"
        BY <1>t, Zenon DEF coroutine, call, test, tc_waitq_prepare_to_wait, cond, tc_scheduler, switch_out,
           tc_waitq_finish_wait, tc_sched_yield, yield_stack, yield_done, tc_waitq_wakeup,
           iwi_immediate, tc_signal_subscribe, tc_signal_unsubscribe, tc_thread_insert,
           tc_thread_new, tc_thread_wait, tc_die, die_wakeup, die_post, At, Goto
      <3> QED BY <1>f, <3>1, <3>2, Zenon DEF OffPCs
    <2> QED BY <2>1, <2>2, Zenon
  <1>3. ASSUME NEW u \in Threads, NEW d \in 1..MaxDepth, el'[<<u, d>>] # NULL
        PROVE  /\ d <= Depth(u)' /\ calls'[u][d][1] \in Blocking
               /\ d = Depth(u)' => pc'[u] \notin {"test", "prepare", "yield", "join"}
    <2>1. CASE u = t
      BY <1>3, <2>1, CoroutineOwn, Zenon DEF OwnEvents
    <2>2. CASE u # t
      <3>1. <<u, d>> \notin Adds(t)
        BY <1>0, <1>d, <2>2 DEF Adds, IsSignal, Tc
      <3>2. el[<<u, d>>] # NULL
        BY <1>0, <1>3, <3>1, CoroutineAdded, Zenon
      <3> QED BY <1>f, <2>2, <3>2, SMTT(30) DEF EventsOK, Depth
    <2> QED BY <2>1, <2>2, Zenon
  <1>4. ASSUME NEW u \in Threads, pc'[u] = "subscribe" PROVE el'[<<u, Arg(u)'>>] = NULL
    <2>1. CASE u # t
      <3>1. pc[u] = "subscribe" /\ Arg(u)' = Arg(u)
        BY <1>4, <1>f, <2>1, Zenon DEF Arg, Depth
      <3>2. Depth(u) # 0 /\ Op(u) = "subscribe" /\ el[<<u, Arg(u)>>] = NULL
        BY <3>1, InCall, FreshEvents, Zenon DEF CallsOK, CallOK
      <3>3. Arg(u) \in Signals
        BY <3>2, CallFacts, Zenon
      <3>4. <<u, Arg(u)>> \notin Adds(t)
        BY <1>0, <1>d, <2>1, <3>3, SMTT(30) DEF Adds, Tc
      <3> QED BY <1>0, <3>1, <3>2, <3>3, <3>4, CoroutineAdded, Zenon
    <2>2. CASE u = t
      <3>1. call(w, t)
        BY <1>4, <1>t, <2>2, Zenon DEF coroutine, test, tc_waitq_prepare_to_wait, prepared, cond,
           tc_scheduler, resume_pc, switch_out, tc_waitq_finish_wait, tc_sched_yield, yield_stack,
           yield_done, tc_waitq_wakeup, iwi_immediate, tc_signal_subscribe,
           tc_signal_unsubscribe, tc_thread_insert, tc_thread_new, tc_thread_wait, tc_die,
           die_wakeup, die_post, At, Goto, Return
      <3>2. PICK c \in Call : /\ c[1] = "subscribe" => el[<<t, c[2]>>] = NULL
                              /\ calls' = [calls EXCEPT ![t] = Append(@, c)]
                              /\ pc' = [pc EXCEPT ![t] = first_pc[c[1]]]
        BY <3>1, CallMade, Zenon
      <3>4. c[1] = "subscribe"
        <4>1. first_pc[c[1]] = "subscribe"
          BY <1>4, <1>t, <2>2, <3>2, Zenon
        <4> QED BY <4>1, FirstPC, Zenon
      <3>5. calls[t] \in Seq(Call) /\ calls'[t] = Append(calls[t], c)
        BY <1>t, <3>2, Zenon
      <3>6. Arg(t)' = c[2] /\ UNCHANGED el
        <4>1. Len(Append(calls[t], c)) = Len(calls[t]) + 1
          BY <3>5
        <4>2. Append(calls[t], c)[Len(calls[t]) + 1] = c
          BY <3>5
        <4>3. calls'[t][Len(calls'[t])] = c
          BY <3>5, <4>1, <4>2, Zenon
        <4>4. UNCHANGED el
          BY <3>1, Zenon DEF call, listVars
        <4> QED BY <4>3, <4>4, ZenonT(30) DEF Arg, Depth
      <3> QED BY <2>2, <3>2, <3>4, <3>6, Zenon
    <2> QED BY <2>1, <2>2, Zenon
  <1>n. pc'[t] = "new_post" => tc_thread_insert(w, t)
    <2>2. call(w, t) => pc'[t] # "new_post"
      <3>1. ASSUME call(w, t) PROVE pc'[t] # "new_post"
        <4>1. PICK c \in Call : pc' = [pc EXCEPT ![t] = first_pc[c[1]]]
          BY <3>1, CallMade, Zenon
        <4>2. pc'[t] = first_pc[c[1]]
          BY <1>t, <4>1, Zenon
        <4> QED BY <4>2, FirstPC, Zenon
      <3> QED BY <3>1, Zenon
    <2> QED BY <1>t, <2>2, ZenonT(30) DEF coroutine, test, tc_waitq_prepare_to_wait, prepared, cond,
           tc_scheduler, resume_pc, switch_out, tc_waitq_finish_wait, tc_sched_yield, yield_stack,
           yield_done, tc_waitq_wakeup, iwi_immediate, tc_signal_subscribe,
           tc_signal_unsubscribe, tc_thread_new, tc_thread_wait, tc_die,
           die_wakeup, die_post, At, Goto, Return
  <1>i. ASSUME tc_thread_insert(w, t)
        PROVE  /\ Arg(t) \in Threads /\ Arg(t) # t /\ pc[Arg(t)] = "none" /\ pc[t] = "new"
               /\ pc'[Arg(t)] = "start" /\ UNCHANGED el /\ Arg(t)' = Arg(t) /\ UNCHANGED TF_RUNNING
    <2>1. pc[t] = "new" /\ pc[Arg(t)] = "none" /\ UNCHANGED <<el, calls, TF_RUNNING>>
      BY <1>i, Zenon DEF tc_thread_insert, At, listVars, host, runVars
    <2>2. Depth(t) # 0 /\ Op(t) = "new"
      BY <2>1, InCall, Zenon DEF CallsOK, CallOK
    <2>3. Arg(t) \in Threads /\ Arg(t) # t
      BY <2>1, <2>2, CallFacts, Zenon
    <2> QED BY <1>i, <1>t, <2>1, <2>3, Zenon DEF tc_thread_insert, Arg, Depth
  <1>5. ASSUME NEW u \in Threads, pc'[u] = "new_post"
        PROVE  pc'[Arg(u)'] = "start" /\ el'[<<Arg(u)', 0>>] = NULL /\ ~TF_RUNNING'[Arg(u)']
    <2>1. CASE u = t
      <3>1. tc_thread_insert(w, t)
        BY <1>5, <1>n, <2>1, Zenon
      <3>2. el[<<Arg(t), 0>>] = NULL
        BY <1>i, <3>1, Zenon DEF EventsOK
      <3> QED BY <1>i, <2>1, <3>1, <3>2, UnbornUnclaimed, Zenon
    <2>2. CASE u # t
      <3> DEFINE x == Arg(u)
      <3>1. pc[u] = "new_post" /\ Arg(u)' = x
        BY <1>5, <1>f, <2>2, Zenon DEF Arg, Depth
      <3>2. Depth(u) # 0 /\ Op(u) = "new"
        BY <3>1, InCall, Zenon DEF CallsOK, CallOK
      <3>3. x \in Threads /\ pc[x] = "start" /\ el[<<x, 0>>] = NULL /\ ~TF_RUNNING[x]
        BY <3>1, <3>2, CallFacts, Zenon DEF EventsOK
      <3>4. x # t /\ pc'[x] = "start" /\ ~TF_RUNNING'[x]
        BY <1>f, <3>3, Zenon DEF OffPCs
      <3>5. el'[<<x, 0>>] = NULL
        <4>1. ASSUME el'[<<x, 0>>] # NULL PROVE FALSE
          <5>1. pc[t] = "new_post" /\ x = Arg(t)
            BY <3>3, <3>4, <4>1, ThreadEventAdded, Zenon
          <5> QED BY <2>2, <3>1, <5>1, Zenon DEF EventsOK
        <4> QED BY <4>1, Zenon
      <3> QED BY <3>1, <3>4, <3>5, Zenon
    <2> QED BY <2>1, <2>2, Zenon
  <1>6. ASSUME NEW e \in Events, NEW u \in Threads, el'[e] = Pending(u) PROVE Tc(e) = u
    <2>0. Pending(u) \notin Queues \cup {NULL, IMMEDIATE} /\ Pending(u) \in Lists
      BY SchedAssumption, Zenon DEF Lists
    <2>1. CASE el'[e] = el[e]
      BY <1>6, <2>1, Zenon DEF EventsOK
    <2>2. CASE el'[e] # el[e]
      <3>1. CASE tc_waitq_finish_wait(w, t)
        <4>1. PICK s \in Events : /\ s = woken_by_event[w] /\ IsSignal(s)
                                  /\ el' = [el EXCEPT ![Event(t)] = NULL, ![s] = Pending(Tc(Event(t)))]
          <5>1. CASE leave(Event(t))
            BY <1>6, <1>t, <2>0, <2>2, <5>1, Zenon DEF leave, remove_event, listVars
          <5>2. CASE interrupted(w, t) /\ requeue_signal(Event(t), woken_by_event[w])
            BY <5>2, Zenon DEF requeue_signal, interrupted, TypeOK
          <5> QED BY <3>1, <5>1, <5>2, Zenon DEF tc_waitq_finish_wait
        <4>2. ctx[w] = t /\ Tc(Event(t)) = t /\ s # NULL /\ t # NULL
          BY <3>1, <4>1, SchedAssumption, Zenon DEF tc_waitq_finish_wait, Tc, Event
        <4>3. Tc(s) = t
          BY <4>1, <4>2, Zenon DEF WokenOK, Woken
        <4> QED BY <1>6, <1>t, <2>0, <2>2, <4>1, <4>2, <4>3, PendingIs, Zenon
      <3>2. CASE tc_scheduler(w, t)
        <4>1. PICK x \in Events : /\ IsSignal(x) => el' = [el EXCEPT ![x] = x[2]]
                                  /\ ~IsSignal(x) => el' = [el EXCEPT ![x] = NULL]
          BY <2>2, <3>2, PendingEvent, LInvFromIInv, ConsumeEventLists, Zenon DEF tc_scheduler, listVars
        <4> QED BY <1>6, <1>t, <2>0, <2>2, <4>1, Zenon DEF IsSignal, Queues
      <3>3. CASE tc_waitq_wakeup(w, t) \/ die_wakeup(w, t)
        BY <1>6, <2>0, <2>2, <3>3, WakeupLists, Zenon
      <3>4. CASE tc_sched_yield(w, t) \/ tc_thread_new(w, t) \/ die_post(w, t)
        BY <1>6, <1>t, <2>0, <2>2, <3>4, Zenon DEF tc_sched_yield, tc_thread_new, die_post, add_event_cr
      <3>5. CASE yield_done(w, t) \/ tc_signal_unsubscribe(w, t)
        BY <1>6, <1>t, <2>0, <2>2, <3>5, Zenon DEF yield_done, tc_signal_unsubscribe, remove_event, listVars
      <3>6. CASE tc_waitq_prepare_to_wait(w, t) \/ tc_signal_subscribe(w, t) \/ tc_thread_wait(w, t)
        <4>1. \E x : el' = [el EXCEPT ![x] = Arg(t)]
          BY <2>2, <3>6, Zenon DEF tc_waitq_prepare_to_wait, tc_signal_subscribe, tc_thread_wait,
             prepare_to_wait, add_event, listVars
        <4>2. Depth(t) # 0 /\ Op(t) \in {"wait_event", "wait", "subscribe", "join"}
          BY <3>6, InCall, Zenon DEF tc_waitq_prepare_to_wait, tc_signal_subscribe, tc_thread_wait, At,
             CallsOK, CallOK
        <4>3. Arg(t) \in Queues
          BY <4>2, CallFacts, Zenon DEF Queues
        <4> QED BY <1>6, <1>t, <2>0, <2>2, <4>1, <4>3, Zenon
      <3> QED BY <2>2, <3>1, <3>2, <3>3, <3>4, <3>5, <3>6, Zenon DEF coroutine, call, test, cond, switch_out,
                 yield_stack, iwi_immediate, tc_thread_insert, tc_die, client, listVars
    <2> QED BY <2>1, <2>2, Zenon
  <1>7. ASSUME NEW u \in Threads, NEW v \in Threads,
               pc'[u] = "new_post", pc'[v] = "new_post", Arg(u)' = Arg(v)'
        PROVE  u = v
    <2>1. ASSUME NEW x \in Threads, x # t, pc'[x] = "new_post"
          PROVE  pc[x] = "new_post" /\ Arg(x)' = Arg(x) /\ pc[Arg(x)] = "start"
      <3>1. pc[x] = "new_post" /\ Arg(x)' = Arg(x)
        BY <1>f, <2>1, Zenon DEF Arg, Depth
      <3> QED BY <3>1, Zenon DEF EventsOK
    <2>2. ASSUME pc'[t] = "new_post" PROVE Arg(t)' = Arg(t) /\ pc[Arg(t)] = "none"
      BY <1>i, <1>n, <2>2, Zenon
    <2>3. CASE u # t /\ v # t
      <3>1. pc[u] = "new_post" /\ pc[v] = "new_post" /\ Arg(u) = Arg(v)
        BY <1>7, <2>1, <2>3, Zenon
      <3> QED BY <3>1, Zenon DEF EventsOK
    <2>4. CASE u = t /\ v # t
      BY <1>7, <2>1, <2>2, <2>4, Zenon
    <2>5. CASE u # t /\ v = t
      BY <1>7, <2>1, <2>2, <2>5, Zenon
    <2> QED BY <2>3, <2>4, <2>5, Zenon
  <1>8. ASSUME NEW v \in Workers, wpc'[v] \in {"switch_to", "spin"}, pc'[target'[v]] = "start"
        PROVE  el'[<<target'[v], 0>>] = NULL
    <2> DEFINE x == target[v]
    <2>1. wpc[v] \in {"switch_to", "spin"} /\ target'[v] = x
      BY <1>8, <1>f, Zenon
    <2>2. x \in Threads /\ pc[x] \in {"start", "parked", "switch"}
      BY <2>1, EnterFacts, Zenon DEF ClaimsOK
    <2>3. pc[x] = "start" /\ x # t
      BY <1>8, <1>f, <2>1, <2>2, ZenonT(30)
    <2>4. el[<<x, 0>>] = NULL
      BY <2>1, <2>3, Zenon DEF EventsOK
    <2>5. Claims(v, x)
      BY <2>1, Zenon DEF Claims
    <2>6. TF_RUNNING[x]
      BY <2>2, <2>3, <2>5, Zenon DEF ClaimsOK, RunningFlagExact
    <2> HIDE DEF x
    <2>7. el'[<<x, 0>>] = NULL
      BY <2>2, <2>3, <2>4, <2>6, ThreadEventAdded, Zenon
    <2> QED BY <2>1, <2>7, Zenon
  <1> QED BY <1>1, <1>2, <1>3, <1>4, <1>5, <1>6, <1>7, <1>8, Zenon DEF EventsOK

-----------------------------------------------------------------------------
(* Every step keeps workers and threads in agreement. *)

-----------------------------------------------------------------------------
(* Every step keeps the claims on threads exact. *)

\* A thread the scheduler may wake is at its start, parked or just leaving its
\* stack, and no worker claims it.
LEMMA WakeableFacts ==
    ASSUME IInv, NEW e \in Events, el[e] # NULL, ~IsExiting(e), ~TF_RUNNING[Tc(e)]
    PROVE  /\ Tc(e) \in Threads
           /\ pc[Tc(e)] \in {"start", "parked", "switch"}
           /\ \A v \in Workers : ~Claims(v, Tc(e))
  <1> DEFINE t == Tc(e)
  <1> USE DEF IInv
  <1>1. t \in Threads /\ e = <<t, e[2]>> /\ e[2] \in 0..MaxDepth \cup Signals
    BY DEF Events, Tc
  <1>2. pc[t] \notin {"dead", "freed"}
    BY <1>1, Zenon DEF ClaimsOK
  <1>3. \A v \in Workers : ~Claims(v, t)
    BY <1>1, <1>2, Zenon DEF ClaimsOK, RunningFlagExact
  <1>4. pc[t] \in OffPCs \cup {"switch"}
    <2>1. ASSUME pc[t] \notin OffPCs, pc[t] # "switch" PROVE FALSE
      <3>1. running[t] \in Workers /\ ctx[running[t]] = t
        BY <1>1, <2>1, Zenon DEF WorkersOK
      <3> QED BY <1>3, <2>1, <3>1, Zenon DEF Claims
    <2> QED BY <2>1, Zenon
  <1>5. pc[t] # "none"
    <2>1. CASE e[2] = 0
      BY <1>1, <2>1, ZenonT(30) DEF EventsOK
    <2>2. CASE e[2] \in 1..MaxDepth
      <3>1. e[2] <= Depth(t)
        BY <1>1, <2>2, Zenon DEF EventsOK
      <3> QED BY <1>1, <2>2, <3>1 DEF CallsOK, CallOK, NoCallPCs
    <2>3. CASE e[2] \in Signals
      BY <1>1, <2>3, Zenon DEF EventsOK
    <2> QED BY <1>1, <2>1, <2>2, <2>3, ThreadEvents, Zenon
  <1> QED BY <1>1, <1>2, <1>3, <1>4, <1>5, Zenon DEF OffPCs

\* A step that leaves claims, flags and pcs as they are.
LEMMA ClaimsUnchanged ==
    ASSUME ClaimsOK, UNCHANGED <<TF_RUNNING, target>>,
           \A v \in Workers, u \in Threads : Claims(v, u)' <=> Claims(v, u),
           \A u \in Threads : pc'[u] \in {"dead", "freed"} <=> pc[u] \in {"dead", "freed"},
           \A v \in Workers : wpc'[v] \in {"switch_to", "spin"} =>
               wpc[v] \in {"switch_to", "spin"} /\ pc'[target[v]] \in {"start", "parked", "switch"},
           \A v \in Workers : wpc'[v] = "thread_free" =>
               /\ wpc[v] = "thread_free"
               /\ pc'[target[v]] \in {"die_iwi", "die_switch", "dead"}
               /\ el'[<<target[v], 0>>] = NULL
    PROVE  ClaimsOK'
  <1>1. RunningFlagExact'
    BY Zenon DEF ClaimsOK, RunningFlagExact
  <1>2. /\ \A u \in Threads : pc'[u] \in {"dead", "freed"} => TF_RUNNING'[u]
        /\ \A v, x \in Workers, u \in Threads : Claims(v, u)' /\ Claims(x, u)' => v = x
    BY Zenon DEF ClaimsOK
  <1>3. \A v \in Workers : wpc'[v] = "thread_free" =>
            \A x \in Workers : target'[x] = target'[v] => x = v
    <2> SUFFICES ASSUME NEW v \in Workers, wpc'[v] = "thread_free",
                        NEW x \in Workers, target'[x] = target'[v]
                 PROVE  x = v
      BY Zenon
    <2>1. wpc[v] = "thread_free" /\ target[x] = target[v]
      BY Zenon
    <2>2. \A y \in Workers : wpc[y] = "thread_free" =>
              \A z \in Workers : target[z] = target[y] => z = y
      BY Zenon DEF ClaimsOK
    <2> QED BY <2>1, <2>2, SMTT(30)
  <1> QED BY <1>1, <1>2, <1>3, Zenon DEF ClaimsOK

\* run_or_queue() claims a thread only if TF_RUNNING is clear.
LEMMA WorkerClaims == ASSUME IInv, NEW w \in Workers, worker(w) PROVE ClaimsOK'
  <1> USE DEF IInv
  <1>0. /\ \A v \in Workers, t \in Threads : v # NULL /\ t # NULL
        /\ \A t \in Threads : <<t, 0>> \in Events
    BY ThreadEvents, Zenon
  <1>t. /\ wpc \in [Workers -> WorkerPCs] /\ target \in [Workers -> Threads \cup {NULL}]
        /\ ctx \in [Workers -> Threads \cup {NULL}] /\ pc \in [Threads -> ThreadPCs]
        /\ TF_RUNNING \in [Threads -> BOOLEAN]
    BY Zenon DEF TypeOK
  <1>e. \A v \in Workers : wpc[v] = "thread_free" => el'[<<target[v], 0>>] = NULL
    BY <1>0, EnterFacts, WorkerAdded, Zenon DEF ClaimsOK
  <1>1. CASE run_immediate(w) \/ search_none(w) \/ search_queue(w) \/ epoll_immediate(w)
             \/ epoll_timeout(w) \/ rearm_read(w) \/ arm_immediate(w)
    <2>1. /\ UNCHANGED <<ctx, target, TF_RUNNING, pc>>
          /\ {wpc[w], wpc'[w]} \cap {"coroutine", "switch_to", "spin", "thread_free"} = {}
          /\ \A v \in Workers \ {w} : wpc'[v] = wpc[v]
      BY <1>1, <1>t, Zenon DEF run_immediate, search_none, search_queue, searching, epoll_immediate,
         epoll_timeout, rearm_read, arm_immediate, pass_done, restart, parked, runVars
    <2>2. \A v \in Workers, u \in Threads : Claims(v, u)' <=> Claims(v, u)
      BY <2>1, Zenon DEF Claims
    <2>3. \A v \in Workers : wpc[v] \in {"switch_to", "spin"} =>
             pc[target[v]] \in {"start", "parked", "switch"}
      BY Zenon DEF ClaimsOK
    <2>4. \A v \in Workers : wpc[v] = "thread_free" =>
             pc[target[v]] \in {"die_iwi", "die_switch", "dead"}
      BY Zenon DEF ClaimsOK
    <2> QED BY <1>e, <2>1, <2>2, <2>3, <2>4, ClaimsUnchanged, Zenon
  <1>2. CASE search_run(w)
    <2>1. PICK e \in first_wanted(w) :
            /\ ~IsExiting(e) /\ ~must_queue(e)
            /\ TF_RUNNING' = [TF_RUNNING EXCEPT ![Tc(e)] = TRUE]
            /\ target' = [target EXCEPT ![w] = Tc(e)]
      BY <1>2, Zenon DEF search_run
    <2> DEFINE t == Tc(e)
    <2>2. e \in Events /\ el[e] # NULL
      BY <2>1, FirstWanted, LInvFromIInv, SchedAssumption, ZenonT(30) DEF Lists
    <2>3. /\ t \in Threads /\ pc[t] \in {"start", "parked", "switch"}
          /\ \A v \in Workers : ~Claims(v, t)
      BY <2>1, <2>2, WakeableFacts, Zenon DEF must_queue
    <2>4. /\ wpc[w] = "search" /\ wpc' = [wpc EXCEPT ![w] = "switch_to"]
          /\ UNCHANGED <<ctx, pc>>
      BY <1>2, Zenon DEF search_run, searching
    <2> HIDE DEF t
    <2>5. ctx[w] = NULL /\ target[w] = NULL
      BY <2>4, Zenon DEF WorkersOK
    <2>6. \A v \in Workers, u \in Threads : Claims(v, u)' <=> Claims(v, u) \/ (v = w /\ u = t)
      BY <1>0, <1>t, <2>1, <2>3, <2>4, <2>5, Zenon DEF Claims, t
    <2>7. RunningFlagExact'
      <3>1. ASSUME NEW u \in Threads, pc'[u] \notin {"dead", "freed"}
            PROVE  TF_RUNNING'[u] <=> \E v \in Workers : Claims(v, u)'
        <4>1. CASE u = t
          <5>1. TF_RUNNING'[u] = TRUE
            BY <1>t, <2>1, <2>3, <4>1, Zenon DEF t
          <5> QED BY <2>6, <4>1, <5>1, Zenon
        <4>2. CASE u # t
          <5>1. TF_RUNNING'[u] = TF_RUNNING[u]
            BY <1>t, <2>1, <4>2, Zenon DEF t
          <5> QED BY <2>4, <2>6, <3>1, <4>2, <5>1, Zenon DEF ClaimsOK, RunningFlagExact
        <4> QED BY <4>1, <4>2, Zenon
      <3> QED BY <3>1, Zenon DEF RunningFlagExact
    <2>8. \A u \in Threads : pc'[u] \in {"dead", "freed"} => TF_RUNNING'[u]
      <3>1. \A u \in Threads : TF_RUNNING[u] => TF_RUNNING'[u]
        BY <1>t, <2>1, ZenonT(30)
      <3> QED BY <2>4, <3>1, Zenon DEF ClaimsOK
    <2>9. \A v, x \in Workers, u \in Threads : Claims(v, u)' /\ Claims(x, u)' => v = x
      BY <2>3, <2>6, SMTT(30) DEF ClaimsOK
    <2>10. \A v \in Workers : wpc'[v] \in {"switch_to", "spin"} =>
              pc'[target'[v]] \in {"start", "parked", "switch"}
      BY <1>t, <2>1, <2>3, <2>4, Zenon DEF ClaimsOK, t
    <2>11. ASSUME NEW v \in Workers, wpc'[v] = "thread_free"
           PROVE  /\ pc'[target'[v]] \in {"die_iwi", "die_switch", "dead"}
                  /\ el'[<<target'[v], 0>>] = NULL
                  /\ \A x \in Workers : target'[x] = target'[v] => x = v
      <3>1. v # w /\ wpc[v] = "thread_free" /\ target'[v] = target[v]
        BY <1>t, <2>1, <2>4, <2>11, Zenon
      <3>2. target[v] # t
        BY <2>3, <3>1, Zenon DEF ClaimsOK
      <3> QED BY <1>e, <1>t, <2>1, <2>4, <3>1, <3>2, Zenon DEF ClaimsOK, t
    <2> QED BY <2>7, <2>8, <2>9, <2>10, <2>11, Zenon DEF ClaimsOK
  <1>3. CASE search_exiting(w)
    <2>1. PICK e \in first_wanted(w) : /\ IsExiting(e) /\ remove_event(e)
                                       /\ target' = [target EXCEPT ![w] = Tc(e)]
      BY <1>3, Zenon DEF search_exiting
    <2> DEFINE t == Tc(e)
    <2>2. e \in Events /\ el[e] # NULL /\ e = <<t, 0>> /\ t \in Threads /\ pc[t] # "start"
      BY <2>1, FirstWanted, LInvFromIInv, SchedAssumption DEF Lists, IsExiting, Events, Tc
    <2>3. pc[t] \in {"die_iwi", "die_switch", "dead"}
      BY <2>2, Zenon DEF EventsOK
    <2>4. /\ wpc[w] = "search" /\ wpc' = [wpc EXCEPT ![w] = "thread_free"]
          /\ UNCHANGED <<ctx, pc, TF_RUNNING>>
      BY <1>3, Zenon DEF search_exiting, searching, runVars
    <2>5. el'[<<t, 0>>] = NULL
      BY <2>1, <2>2, Zenon DEF remove_event, TypeOK
    <2> HIDE DEF t
    <2>6. ctx[w] = NULL /\ target[w] = NULL
      BY <2>4, Zenon DEF WorkersOK
    <2>7. \A v \in Workers, u \in Threads : Claims(v, u)' <=> Claims(v, u)
      BY <1>0, <1>t, <2>1, <2>4, <2>6, Zenon DEF Claims, t
    <2>8. \A v \in Workers : target[v] # t
      <3>1. ASSUME NEW v \in Workers, target[v] = t PROVE FALSE
        <4>1. wpc[v] \in {"switch_to", "spin", "thread_free"}
          BY <1>0, <2>2, <3>1, SMTT(30) DEF WorkersOK
        <4> QED BY <2>2, <2>3, <3>1, <4>1, Zenon DEF ClaimsOK
      <3> QED BY <3>1, Zenon
    <2>9. RunningFlagExact'
      BY <2>4, <2>7, Zenon DEF ClaimsOK, RunningFlagExact
    <2>10. \A v \in Workers : wpc'[v] \in {"switch_to", "spin"} =>
              pc'[target'[v]] \in {"start", "parked", "switch"}
      BY <1>t, <2>1, <2>4, Zenon DEF ClaimsOK
    <2>11. \A v \in Workers : wpc'[v] = "thread_free" =>
              /\ pc'[target'[v]] \in {"die_iwi", "die_switch", "dead"}
              /\ el'[<<target'[v], 0>>] = NULL
              /\ \A x \in Workers : target'[x] = target'[v] => x = v
      BY <1>e, <1>t, <2>1, <2>3, <2>4, <2>5, <2>8, ZenonT(30) DEF ClaimsOK, t
    <2> QED BY <2>4, <2>7, <2>9, <2>10, <2>11, ZenonT(30) DEF ClaimsOK
  <1>4. CASE switch_to(w)
    <2>1. /\ UNCHANGED <<ctx, target, TF_RUNNING, pc>>
          /\ wpc[w] = "switch_to" /\ wpc' = [wpc EXCEPT ![w] = "spin"]
      BY <1>4, Zenon DEF switch_to
    <2>2. \A v \in Workers, u \in Threads : Claims(v, u)' <=> Claims(v, u)
      BY <1>t, <2>1, Zenon DEF Claims
    <2>3. \A v \in Workers : wpc[v] \in {"switch_to", "spin"} =>
             pc[target[v]] \in {"start", "parked", "switch"}
      BY Zenon DEF ClaimsOK
    <2>4. \A v \in Workers : wpc[v] = "thread_free" =>
             pc[target[v]] \in {"die_iwi", "die_switch", "dead"}
      BY Zenon DEF ClaimsOK
    <2> QED BY <1>e, <1>t, <2>1, <2>2, <2>3, <2>4, ClaimsUnchanged, Zenon
  <1>5. CASE switch_in(w)
    <2> DEFINE t == target[w]
    <2>1. t \in Threads /\ pc[t] \in {"start", "parked"} /\ running[t] = NULL /\ wpc[w] = "spin"
      BY <1>5, EnterFacts, Zenon DEF switch_in, may_enter
    <2>2. /\ ctx' = [ctx EXCEPT ![w] = t]
          /\ wpc' = [wpc EXCEPT ![w] = "coroutine"]
          /\ target' = [target EXCEPT ![w] = NULL]
          /\ UNCHANGED TF_RUNNING
          /\ pc' = [pc EXCEPT ![t] = pc'[t]] /\ pc'[t] \in {"user", "yield_done", "finish"}
      BY <1>5, <1>t, <2>1, Zenon DEF switch_in, Goto, resume_pc
    <2>3. \A v \in Workers : ctx[v] # t
      BY <1>0, <2>1, Zenon DEF WorkersOK
    <2>4. Claims(w, t)
      BY <2>1, Zenon DEF Claims
    <2>5. \A v \in Workers \ {w} : target[v] # t
      <3>1. ASSUME NEW v \in Workers \ {w}, target[v] = t PROVE FALSE
        <4>1. wpc[v] \in {"switch_to", "spin", "thread_free"}
          BY <1>0, <2>1, <3>1, Zenon DEF WorkersOK
        <4>2. wpc[v] # "thread_free"
          BY <2>1, <3>1, Zenon DEF ClaimsOK
        <4>3. Claims(v, t)
          BY <3>1, <4>1, <4>2, Zenon DEF Claims
        <4> QED BY <2>1, <2>4, <4>3, Zenon DEF ClaimsOK
      <3> QED BY <3>1, Zenon
    <2>6. ctx[w] = NULL
      BY <2>1, Zenon DEF WorkersOK
    <2> HIDE DEF t
    <2>7. \A v \in Workers, u \in Threads : Claims(v, u)' <=> Claims(v, u)
      <3>1. ASSUME NEW v \in Workers \ {w}, NEW u \in Threads PROVE Claims(v, u)' <=> Claims(v, u)
        BY <1>t, <2>1, <2>2, <2>3, Zenon DEF Claims
      <3>2. ASSUME NEW u \in Threads PROVE Claims(w, u)' <=> Claims(w, u)
        BY <1>0, <1>t, <2>1, <2>2, <2>6, Zenon DEF Claims, t
      <3> QED BY <3>1, <3>2, Zenon
    <2>8. RunningFlagExact'
      BY <1>t, <2>1, <2>2, <2>7, Zenon DEF ClaimsOK, RunningFlagExact
    <2>9. \A v \in Workers : wpc'[v] \in {"switch_to", "spin"} =>
              pc'[target'[v]] \in {"start", "parked", "switch"}
      <3>1. ASSUME NEW v \in Workers, wpc'[v] \in {"switch_to", "spin"}
            PROVE  pc'[target'[v]] \in {"start", "parked", "switch"}
        <4>1. v # w /\ wpc[v] \in {"switch_to", "spin"} /\ target'[v] = target[v] /\ target[v] # t
          BY <1>t, <2>2, <2>5, <3>1, Zenon
        <4>2. target[v] \in Threads
          BY <4>1, EnterFacts, Zenon
        <4> QED BY <1>t, <2>1, <2>2, <4>1, <4>2, Zenon DEF ClaimsOK
      <3> QED BY <3>1, Zenon
    <2>10. \A v \in Workers : wpc'[v] = "thread_free" =>
              /\ pc'[target'[v]] \in {"die_iwi", "die_switch", "dead"}
              /\ el'[<<target'[v], 0>>] = NULL
              /\ \A x \in Workers : target'[x] = target'[v] => x = v
      <3>1. ASSUME NEW v \in Workers, wpc'[v] = "thread_free"
            PROVE  /\ pc'[target'[v]] \in {"die_iwi", "die_switch", "dead"}
                   /\ el'[<<target'[v], 0>>] = NULL
                   /\ \A x \in Workers : target'[x] = target'[v] => x = v
        <4>1. v # w /\ wpc[v] = "thread_free" /\ target'[v] = target[v] /\ target[v] # t
          BY <1>t, <2>2, <2>5, <3>1, Zenon
        <4>2. target[v] # NULL
          BY <4>1, ZenonT(30) DEF WorkersOK
        <4> QED BY <1>e, <1>t, <2>1, <2>2, <4>1, <4>2, ZenonT(30) DEF ClaimsOK
      <3> QED BY <3>1, ZenonT(30)
    <2>11. \A u \in Threads : pc'[u] \in {"dead", "freed"} => TF_RUNNING'[u]
      BY <1>t, <2>1, <2>2, Zenon DEF ClaimsOK
    <2> QED BY <2>7, <2>8, <2>9, <2>10, <2>11, Zenon DEF ClaimsOK
  <1>6. CASE tc_thread_free(w)
    <2> DEFINE t == target[w]
    <2>1. t \in Threads /\ pc[t] = "dead" /\ running[t] = NULL /\ wpc[w] = "thread_free"
      BY <1>6, EnterFacts, Zenon DEF tc_thread_free, may_enter
    <2>2. /\ wpc' = [wpc EXCEPT ![w] = "search"]
          /\ target' = [target EXCEPT ![w] = NULL]
          /\ pc' = [pc EXCEPT ![t] = "freed"] /\ UNCHANGED <<ctx, TF_RUNNING>>
      BY <1>6, Zenon DEF tc_thread_free, Goto
    <2>3. \A v \in Workers : ctx[v] # t
      BY <1>0, <2>1, Zenon DEF WorkersOK
    <2>4. \A v \in Workers \ {w} : target[v] # t
      BY <2>1, Zenon DEF ClaimsOK
    <2> HIDE DEF t
    <2>5. \A v \in Workers, u \in Threads : Claims(v, u)' <=> Claims(v, u)
      BY <1>0, <1>t, <2>1, <2>2, <2>3, Zenon DEF Claims, t
    <2>6. RunningFlagExact'
      BY <1>t, <2>1, <2>2, <2>5, Zenon DEF ClaimsOK, RunningFlagExact
    <2>7. \A v \in Workers : wpc'[v] \in {"switch_to", "spin"} =>
              pc'[target'[v]] \in {"start", "parked", "switch"}
      BY <1>t, <2>1, <2>2, <2>4, SMTT(30) DEF ClaimsOK
    <2>8. \A v \in Workers : wpc'[v] = "thread_free" =>
              /\ pc'[target'[v]] \in {"die_iwi", "die_switch", "dead"}
              /\ el'[<<target'[v], 0>>] = NULL
              /\ \A x \in Workers : target'[x] = target'[v] => x = v
      <3>1. ASSUME NEW v \in Workers, wpc'[v] = "thread_free"
            PROVE  /\ pc'[target'[v]] \in {"die_iwi", "die_switch", "dead"}
                   /\ el'[<<target'[v], 0>>] = NULL
                   /\ \A x \in Workers : target'[x] = target'[v] => x = v
        <4>1. v # w /\ wpc[v] = "thread_free" /\ target'[v] = target[v] /\ target[v] # t
          BY <1>t, <2>2, <2>4, <3>1, Zenon
        <4>2. target[v] # NULL
          BY <4>1, ZenonT(30) DEF WorkersOK
        <4> QED BY <1>e, <1>t, <2>1, <2>2, <4>1, <4>2, ZenonT(30) DEF ClaimsOK
      <3> QED BY <3>1, ZenonT(30)
    <2>9. \A u \in Threads : pc'[u] \in {"dead", "freed"} => TF_RUNNING'[u]
      BY <1>t, <2>1, <2>2, Zenon DEF ClaimsOK
    <2>10. \A v, x \in Workers, u \in Threads : Claims(v, u)' /\ Claims(x, u)' => v = x
      BY <2>5, Zenon DEF ClaimsOK
    <2> QED BY <2>6, <2>7, <2>8, <2>9, <2>10, Zenon DEF ClaimsOK
  <1> QED BY <1>1, <1>2, <1>3, <1>4, <1>5, <1>6, Zenon DEF worker

-----------------------------------------------------------------------------
(* Every step keeps woken_by_event right. *)

-----------------------------------------------------------------------------
(* The theorems. *)

\* tc_run() establishes the inductive invariant.
LEMMA InitIInv == Init => IInv
  <1> SUFFICES ASSUME Init PROVE IInv
    BY Zenon
  <1> USE DEF Init
  <1>0. /\ Main \in Threads /\ <<Main, 0>> \in Events /\ IMMEDIATE \in Lists
        /\ NULL \notin Workers \cup Threads \cup Events \cup Lists
        /\ MaxDepth \in Nat /\ Rounds \in Nat /\ Home \in [Threads -> Workers \cup {NULL}]
        /\ \A t \in Threads : <<t, 0>> \in Events
        /\ \A t \in Threads : IMMEDIATE # Pending(t)
        /\ 0 \notin Signals
    BY SchedAssumption DEF Events, Lists
  <1>1. TypeOK
    BY <1>0 DEF TypeOK, WorkerPCs, ThreadPCs, OffPCs
  <1>2. CallsOK
    BY <1>0 DEF CallsOK, CallOK, Depth, NoCallPCs, DiePCs, ThreadPCs
  <1>3. WorkersOK
    BY <1>0, Zenon DEF WorkersOK, OffPCs
  <1>4. ListsConsistent
    <2>1. \A l \in Lists : IsInjective(list[l])
      BY <1>0 DEF IsInjective
    <2>2. ASSUME NEW l \in Lists, NEW e \in Events PROVE Contains(list[l], e) <=> el[e] = l
      <3>1. CASE l = IMMEDIATE
        <4>1. list[l] = <<<<Main, 0>>>>
          BY <3>1, Zenon
        <4>2. Contains(list[l], e) <=> e = <<Main, 0>>
          BY <4>1 DEF Contains
        <4> QED BY <1>0, <3>1, <4>2, Zenon
      <3>2. CASE l # IMMEDIATE
        <4>1. list[l] = <<>>
          BY <3>2, Zenon
        <4> QED BY <1>0, <3>2, <4>1 DEF Contains
      <3> QED BY <3>1, <3>2, Zenon
    <2> QED BY <1>0, <2>1, <2>2, ZenonT(30) DEF ListsConsistent
  <1>5. EventsOK
    <2>1. \A e \in Events : el[e] # NULL => e = <<Main, 0>> /\ el[e] = IMMEDIATE
      BY Zenon
    <2>2. \A t \in Threads, s \in Signals : el[<<t, s>>] = NULL
      BY <1>0, <2>1, Zenon DEF Events
    <2>3. \A t \in Threads, d \in 1..MaxDepth : el[<<t, d>>] = NULL
      BY <1>0, <2>1 DEF Events
    <2>4. \A e \in Events, t \in Threads : el[e] # Pending(t)
      BY <1>0, <2>1, Zenon DEF Lists
    <2> QED BY <1>0, <2>1, <2>2, <2>3, <2>4, Zenon DEF EventsOK
  <1>6. ClaimsOK
    BY <1>0, Zenon DEF ClaimsOK, RunningFlagExact, Claims
  <1>7. WokenOK
    BY Zenon DEF WokenOK, Woken
  <1> QED BY <1>1, <1>2, <1>3, <1>4, <1>5, <1>6, <1>7, Zenon DEF IInv

\* Every step keeps the inductive invariant.
LEMMA StepIInv == IInv /\ [Next]_vars => IInv'
  \* scheduler_part2() keeps the types.
  <1>WorkerTypes. ASSUME IInv, NEW w \in Workers, worker(w) PROVE TypeOK'
    <2> USE <1>WorkerTypes
    <2> USE DEF IInv
    <2>0. /\ list' \in [Lists -> Seq(Events)] /\ el' \in [Events -> Lists \cup {NULL}]
          /\ immediate_count' \in Int /\ refcnt' \in [Threads -> Int]
      BY WorkerLists, ListTypes, Zenon
    <2> USE DEF TypeOK, WorkerPCs, parked, client, stkVars, runVars, loopVars, fdVars
    <2>1. CASE run_immediate(w)
      <3>1. Rounds \in Nat /\ round \in [Workers -> 0..Rounds]
        BY SchedAssumption, Zenon
      <3>2. round' = round \/ (round[w] > 0 /\ round' = [round EXCEPT ![w] = round[w] - 1])
        BY <2>1, Zenon DEF run_immediate, more_rounds
      <3>3. round' \in [Workers -> 0..Rounds]
        <4> DEFINE r == round[w] - 1
        <4>1. CASE round[w] > 0 /\ round' = [round EXCEPT ![w] = r]
          <5>1. r \in 0..Rounds
            BY <3>1, <4>1
          <5> HIDE DEF r
          <5> QED BY <3>1, <4>1, <5>1, Zenon
        <4> QED BY <3>1, <3>2, <4>1, Zenon
      <3> QED BY <2>0, <2>1, <3>3, ZenonT(30) DEF run_immediate
    <2>2. CASE search_none(w)
      BY <2>0, <2>2, Zenon DEF search_none, pass_done
    <2>3. CASE search_queue(w)
      BY <2>0, <2>3, Zenon DEF search_queue
    <2>4. CASE search_run(w)
      <3>1. PICK e \in first_wanted(w) :
              /\ TF_RUNNING' = [TF_RUNNING EXCEPT ![Tc(e)] = TRUE]
              /\ woken_by_event' = [woken_by_event EXCEPT ![w] = e]
              /\ target' = [target EXCEPT ![w] = Tc(e)]
        BY <2>4, Zenon DEF search_run
      <3>2. e \in Events /\ Tc(e) \in Threads
        BY <3>1, FirstWanted, LInvFromIInv, EventTc, Zenon
      <3> QED BY <2>0, <2>4, <3>1, <3>2, Zenon DEF search_run, iwi_more_work
    <2>5. CASE search_exiting(w)
      <3>1. PICK e \in first_wanted(w) : target' = [target EXCEPT ![w] = Tc(e)]
        BY <2>5, Zenon DEF search_exiting
      <3>2. Tc(e) \in Threads
        BY <3>1, FirstWanted, LInvFromIInv, EventTc, Zenon
      <3> QED BY <2>0, <2>5, <3>1, <3>2, Zenon DEF search_exiting
    <2>6. CASE switch_to(w)
      BY <2>0, <2>6, Zenon DEF switch_to
    <2>7. CASE switch_in(w)
      BY <2>0, <2>7, Zenon DEF switch_in, Goto, resume_pc, ThreadPCs, OffPCs
    <2>8. CASE tc_thread_free(w)
      BY <2>0, <2>8, Zenon DEF tc_thread_free, Goto, ThreadPCs, OffPCs
    <2>9. CASE epoll_immediate(w) \/ rearm_read(w)
      BY <2>0, <2>9, Zenon DEF epoll_immediate, rearm_read, EPOLLONESHOT
    <2>10. CASE epoll_timeout(w) \/ arm_immediate(w)
      <3>1. Rounds \in 0..Rounds
        BY SchedAssumption
      <3>2. CASE epoll_timeout(w)
        BY <2>0, <3>1, <3>2, Zenon DEF epoll_timeout, restart
      <3>3. CASE arm_immediate(w)
        BY <2>0, <3>1, <3>3, ZenonT(30) DEF arm_immediate, restart
      <3> QED BY <2>10, <3>2, <3>3, ZenonT(30)
    <2> QED BY <2>1, <2>2, <2>3, <2>4, <2>5, <2>6, <2>7, <2>8, <2>9, <2>10, Zenon DEF worker
  \* The event stack keeps its type when an event is pushed or popped.
  <1>StackTypes. ASSUME TypeOK, NEW e \in Events, event_on_tc_stack(e) \/ pop_event_stack(e)
                 PROVE  /\ event_stack' \in [Threads -> Events \cup {NULL}]
                        /\ next_in_stack' \in [Events -> Events \cup {NULL}]
    BY <1>StackTypes, EventTc, ZenonT(30) DEF TypeOK, event_on_tc_stack, pop_event_stack
  \* The client's counters stay natural numbers.
  <1>AvailTypes. ASSUME TypeOK, NEW q \in Waitqs, avail[q] > 0
                 PROVE  [avail EXCEPT ![q] = @ - 1] \in [Waitqs -> Nat]
    <2> USE <1>AvailTypes
    <2>1. avail \in [Waitqs -> Nat] /\ avail[q] - 1 \in Nat
      BY DEF TypeOK
    <2> QED BY <2>1, Zenon
  \* The caller of a wakeup makes the condition of a wait queue true once more.
  <1>CallAvail. ASSUME TypeOK, NEW w \in Workers, NEW t \in Threads, call(w, t)
                PROVE  avail' \in [Waitqs -> Nat]
    <2> USE <1>CallAvail
    <2>1. PICK c \in Call : avail' = IF c[1] \in {"wakeup_one", "wakeup_all"}
                                    THEN [avail EXCEPT ![c[2]] = @ + 1] ELSE avail
      BY NextCalls, ZenonT(30) DEF call
    <2>2. avail \in [Waitqs -> Nat]
      BY Zenon DEF TypeOK
    <2>3. CASE c[1] \in {"wakeup_one", "wakeup_all"}
      <3>1. c[2] \in Waitqs
        BY <2>3, CallShape, Zenon
      <3>2. avail' = [avail EXCEPT ![c[2]] = avail[c[2]] + 1]
        BY <2>1, <2>3, Zenon
      <3> QED BY <2>2, <3>1, <3>2
    <2>4. CASE c[1] \notin {"wakeup_one", "wakeup_all"}
      BY <2>1, <2>2, <2>4, Zenon
    <2> QED BY <2>3, <2>4, Zenon
  \* No step of a tc_thread breaks the event lists.
  <1>CoroutineLists. ASSUME IInv, NEW w \in Workers, NEW t \in Threads, coroutine(w, t) PROVE LInv'
    <2> USE <1>CoroutineLists
    <2> USE LInvFromIInv DEF IInv, At
    <2>0. /\ Waitqs \cup Threads \cup Signals \subseteq Lists
          /\ IMMEDIATE \notin Waitqs \cup Threads \cup Signals
      BY SchedAssumption, Zenon DEF Lists, Queues
    <2>1. CASE call(w, t) \/ test(w, t) \/ cond(w, t) \/ switch_out(w, t) \/ yield_stack(w, t)
               \/ iwi_immediate(w, t) \/ tc_thread_insert(w, t) \/ tc_die(w, t)
      BY <2>1, ListsUnchanged, Zenon DEF call, test, cond, switch_out, yield_stack, iwi_immediate,
         tc_thread_insert, tc_die, client
    <2>2. CASE tc_waitq_prepare_to_wait(w, t)
      <3>1. Depth(t) # 0 /\ Op(t) \in {"wait_event", "wait"}
        BY <2>2, InCall, Zenon DEF tc_waitq_prepare_to_wait, CallsOK, CallOK
      <3>2. Event(t) \in Events /\ Arg(t) \in Waitqs
        BY <3>1, CallFacts, Zenon
      <3>3. el[Event(t)] = NULL /\ add_event(Event(t), Arg(t))
        BY <2>2, FreshEvents, Zenon DEF tc_waitq_prepare_to_wait, prepare_to_wait
      <3> QED BY <2>0, <3>2, <3>3, AddEventLists, Zenon
    <2>3. CASE tc_scheduler(w, t)
      BY <2>3, PendingEvent, ConsumeEventLists, ListsUnchanged, Zenon DEF tc_scheduler
    <2>4. CASE tc_waitq_finish_wait(w, t)
      <3>1. Depth(t) # 0
        BY <2>4, InCall, Zenon DEF tc_waitq_finish_wait
      <3>2. Event(t) \in Events /\ ~IsSignal(Event(t))
        BY <3>1, CallFacts, Zenon
      <3>3. CASE leave(Event(t))
        BY <3>2, <3>3, RemoveEventLists, ListsUnchanged, Zenon DEF leave
      <3>4. CASE interrupted(w, t) /\ requeue_signal(Event(t), woken_by_event[w])
        <4>1. woken_by_event[w] \in Events /\ IsSignal(woken_by_event[w])
          BY <3>4, Zenon DEF interrupted, TypeOK
        <4> QED BY <3>2, <3>4, <4>1, RequeueLists, Zenon
      <3> QED BY <2>4, <3>3, <3>4, Zenon DEF tc_waitq_finish_wait
    <2>5. CASE tc_sched_yield(w, t)
      <3>1. Depth(t) # 0 /\ el[Event(t)] = NULL
        BY <2>5, InCall, FreshEvents, Zenon DEF tc_sched_yield
      <3>2. Event(t) \in Events
        BY <3>1, CallFacts, Zenon
      <3> QED BY <2>5, <3>1, <3>2, AddEventCrLists, Zenon DEF tc_sched_yield
    <2>6. CASE yield_done(w, t)
      <3>1. Depth(t) # 0
        BY <2>6, InCall, Zenon DEF yield_done
      <3>2. Event(t) \in Events
        BY <3>1, CallFacts, Zenon
      <3> QED BY <2>6, <3>2, RemoveEventLists, ListsUnchanged, Zenon DEF yield_done
    <2>7. CASE tc_waitq_wakeup(w, t)
      BY <2>7, WakeupLists, Zenon
    <2>8. CASE tc_signal_subscribe(w, t)
      <3>1. Depth(t) # 0 /\ Op(t) = "subscribe" /\ el[<<t, Arg(t)>>] = NULL
        BY <2>8, InCall, FreshEvents, Zenon DEF tc_signal_subscribe, CallsOK, CallOK
      <3>2. Arg(t) \in Signals
        BY <3>1, CallFacts, Zenon
      <3>3. <<t, Arg(t)>> \in Events
        BY <3>2, Zenon DEF Events
      <3> QED BY <2>0, <2>8, <3>1, <3>2, <3>3, AddEventLists, Zenon DEF tc_signal_subscribe
    <2>9. CASE tc_signal_unsubscribe(w, t)
      <3>1. Depth(t) # 0 /\ Op(t) = "unsubscribe"
        BY <2>9, InCall, Zenon DEF tc_signal_unsubscribe, CallsOK, CallOK
      <3>2. Arg(t) \in Signals
        BY <3>1, CallFacts, Zenon
      <3>3. <<t, Arg(t)>> \in Events
        BY <3>2, Zenon DEF Events
      <3> QED BY <2>9, <3>3, RemoveEventLists, Zenon DEF tc_signal_unsubscribe
    <2>10. CASE tc_thread_new(w, t)
      <3>1. Depth(t) # 0 /\ Op(t) = "new" /\ el[<<Arg(t), 0>>] = NULL
        BY <2>10, InCall, FreshEvents, Zenon DEF tc_thread_new, CallsOK, CallOK
      <3>2. Arg(t) \in Threads
        BY <3>1, CallFacts, Zenon
      <3>3. <<Arg(t), 0>> \in Events
        BY <3>2, SchedAssumption DEF Events
      <3> QED BY <2>10, <3>1, <3>3, AddEventCrLists, Zenon DEF tc_thread_new
    <2>11. CASE tc_thread_wait(w, t)
      <3>1. Depth(t) # 0 /\ Op(t) = "join" /\ el[Event(t)] = NULL
        BY <2>11, InCall, FreshEvents, Zenon DEF tc_thread_wait, CallsOK, CallOK
      <3>2. Event(t) \in Events /\ Arg(t) \in Threads
        BY <3>1, CallFacts, Zenon
      <3>3. CASE add_event(Event(t), Arg(t))
        BY <2>0, <3>1, <3>2, <3>3, AddEventLists, Zenon
      <3> QED BY <2>11, <3>3, ListsUnchanged, Zenon DEF tc_thread_wait, prepare_to_wait
    <2>12. CASE die_wakeup(w, t)
      BY <2>12, WakeupLists, Zenon
    <2>13. CASE die_post(w, t)
      <3>1. el[<<t, 0>>] = NULL
        BY <2>13, FreshEvents, Zenon DEF die_post
      <3>2. <<t, 0>> \in Events
        BY ThreadEvents, Zenon
      <3> QED BY <2>13, <3>1, <3>2, AddEventCrLists, Zenon DEF die_post
    <2> QED BY <2>1, <2>2, <2>3, <2>4, <2>5, <2>6, <2>7, <2>8, <2>9, <2>10, <2>11, <2>12, <2>13, Zenon
            DEF coroutine
  \* A tc_thread keeps the types.
  <1>CoroutineTypes. ASSUME IInv, NEW w \in Workers, NEW t \in Threads, coroutine(w, t) PROVE TypeOK'
    <2> USE <1>CoroutineTypes
    <2>c. ASSUME call(w, t)
          PROVE  /\ avail' \in [Waitqs -> Nat]
                 /\ \E c \in Call : /\ calls' = [calls EXCEPT ![t] = Append(@, c)]
                                   /\ pc' = [pc EXCEPT ![t] = first_pc[c[1]]]
      <3>1. TypeOK
        BY Zenon DEF IInv
      <3> QED BY <2>c, <3>1, CallMade, <1>CallAvail, Zenon
    <2> USE DEF IInv, At
    <2>0. /\ list' \in [Lists -> Seq(Events)] /\ el' \in [Events -> Lists \cup {NULL}]
          /\ immediate_count' \in Int /\ refcnt' \in [Threads -> Int]
      BY <1>CoroutineLists, ListTypes, Zenon
    <2> USE DEF TypeOK, client, stkVars, runVars, loopVars, fdVars, host
    <2>1. CASE call(w, t)
      <3>1. PICK c \in Call : /\ calls' = [calls EXCEPT ![t] = Append(@, c)]
                              /\ pc' = [pc EXCEPT ![t] = first_pc[c[1]]]
        BY <2>1, <2>c, Zenon
      <3>3. first_pc[c[1]] \in ThreadPCs
        BY FirstPC, ZenonT(30) DEF ThreadPCs
      <3>4. calls' \in [Threads -> Seq(Call)]
        BY <3>1
      <3>5. avail' \in [Waitqs -> Nat]
        BY <2>1, <2>c, Zenon
      <3>6. pc' \in [Threads -> ThreadPCs]
        BY <3>1, <3>3, ZenonT(30)
      <3>7. made' \in [Threads -> Nat]
        BY <2>1, SMTT(30) DEF call
      <3> QED BY <2>0, <2>1, <3>4, <3>5, <3>6, <3>7, ZenonT(30) DEF call
    <2>2. CASE test(w, t)
      <3>1. Depth(t) # 0 /\ Op(t) = "wait_event"
        BY <2>2, InCall, Zenon DEF test, CallsOK, CallOK
      <3>2. Arg(t) \in Waitqs
        BY <3>1, CallFacts, Zenon
      <3>3. avail' \in [Waitqs -> Nat]
        BY <2>2, <3>2, <1>AvailTypes, Zenon DEF test
      <3>4. CASE Return(t)
        BY <2>0, <2>2, <3>1, <3>3, <3>4, ReturnFacts, Zenon DEF test
      <3>5. CASE Goto(t, "prepare") /\ UNCHANGED calls
        BY <2>0, <2>2, <3>3, <3>5, Zenon DEF test, Goto, ThreadPCs
      <3> QED BY <2>2, <3>4, <3>5, Zenon DEF test
    <2>3. CASE tc_waitq_prepare_to_wait(w, t)
      <3>1. Event(t) \in Events
        BY <2>3, InCall, CallFacts, Zenon DEF tc_waitq_prepare_to_wait
      <3>2. /\ event_stack' \in [Threads -> Events \cup {NULL}]
            /\ next_in_stack' \in [Events -> Events \cup {NULL}]
        BY <2>3, <3>1, <1>StackTypes, Zenon DEF tc_waitq_prepare_to_wait, prepare_to_wait
      <3> QED BY <2>0, <2>3, <3>2, Zenon DEF tc_waitq_prepare_to_wait, prepare_to_wait, prepared, Goto, ThreadPCs
    <2>4. CASE cond(w, t)
      <3>1. Depth(t) # 0 /\ Op(t) = "wait_event"
        BY <2>4, InCall, Zenon DEF cond, CallsOK, CallOK
      <3>2. Arg(t) \in Waitqs
        BY <3>1, CallFacts, Zenon
      <3>3. avail' \in [Waitqs -> Nat]
        BY <2>4, <3>2, <1>AvailTypes, Zenon DEF cond
      <3>4. pc' \in [Threads -> ThreadPCs]
        <4>1. PICK l \in {"finish_true", "scheduler"} : pc' = [pc EXCEPT ![t] = l]
          BY <2>4, Zenon DEF cond, Goto
        <4> QED BY <4>1, Zenon DEF ThreadPCs
      <3> QED BY <2>0, <2>4, <3>3, <3>4, Zenon DEF cond
    <2>5. CASE tc_scheduler(w, t)
      <3>1. woken_by_event' \in [Workers -> Events \cup {NULL}]
        BY <2>5, PendingEvent, LInvFromIInv, ZenonT(30) DEF tc_scheduler
      <3>2. TF_RUNNING' \in [Threads -> BOOLEAN]
        BY <2>5, Zenon DEF tc_scheduler
      <3>3. pc' \in [Threads -> ThreadPCs]
        BY <2>5, ZenonT(30) DEF tc_scheduler, resume_pc, Goto, ThreadPCs
      <3> QED BY <2>0, <2>5, <3>1, <3>2, <3>3, Zenon DEF tc_scheduler
    <2>6. CASE switch_out(w, t)
      BY <2>0, <2>6, Zenon DEF switch_out, pass_done, Goto, ThreadPCs, OffPCs, WorkerPCs
    <2>7. CASE tc_waitq_finish_wait(w, t)
      <3>1. Depth(t) # 0
        BY <2>7, InCall, Zenon DEF tc_waitq_finish_wait
      <3>2. Event(t) \in Events
        BY <3>1, CallFacts, Zenon
      <3>3. /\ event_stack' \in [Threads -> Events \cup {NULL}]
            /\ next_in_stack' \in [Events -> Events \cup {NULL}]
        BY <2>7, <3>2, <1>StackTypes, Zenon DEF tc_waitq_finish_wait
      <3>4. woken_by_event' \in [Workers -> Events \cup {NULL}]
        BY <2>7, Zenon DEF tc_waitq_finish_wait
      <3>5. due' \subseteq Events
        BY <2>7, Zenon DEF tc_waitq_finish_wait, deliver
      <3>6. CASE Return(t)
        BY <2>0, <2>7, <3>1, <3>3, <3>4, <3>5, <3>6, ReturnFacts, Zenon DEF tc_waitq_finish_wait
      <3>7. CASE Goto(t, "prepare") /\ UNCHANGED calls
        BY <2>0, <2>7, <3>3, <3>4, <3>5, <3>7, Zenon DEF tc_waitq_finish_wait, Goto, ThreadPCs
      <3> QED BY <2>7, <3>6, <3>7, Zenon DEF tc_waitq_finish_wait
    <2>8. CASE tc_sched_yield(w, t)
      BY <2>0, <2>8, Zenon DEF tc_sched_yield, Goto, ThreadPCs
    <2>9. CASE yield_stack(w, t)
      <3>1. Event(t) \in Events
        BY <2>9, InCall, CallFacts, Zenon DEF yield_stack
      <3>2. /\ event_stack' \in [Threads -> Events \cup {NULL}]
            /\ next_in_stack' \in [Events -> Events \cup {NULL}]
        BY <2>9, <3>1, <1>StackTypes, Zenon DEF yield_stack
      <3> QED BY <2>0, <2>9, <3>2, Zenon DEF yield_stack, Goto, ThreadPCs
    <2>10. CASE yield_done(w, t)
      <3>1. Depth(t) # 0
        BY <2>10, InCall, Zenon DEF yield_done
      <3>2. Event(t) \in Events
        BY <3>1, CallFacts, Zenon
      <3>3. /\ event_stack' \in [Threads -> Events \cup {NULL}]
            /\ next_in_stack' \in [Events -> Events \cup {NULL}]
        BY <2>10, <3>2, <1>StackTypes, Zenon DEF yield_done
      <3>4. woken_by_event' \in [Workers -> Events \cup {NULL}] /\ due' \subseteq Events
        BY <2>10, Zenon DEF yield_done, deliver
      <3>5. calls' \in [Threads -> Seq(Call)] /\ pc' \in [Threads -> ThreadPCs]
        BY <2>10, <3>1, ReturnFacts, Zenon DEF yield_done
      <3> QED BY <2>0, <2>10, <3>3, <3>4, <3>5, Zenon DEF yield_done
    <2>11. CASE tc_waitq_wakeup(w, t)
      <3>1. Depth(t) # 0 /\ Op(t) \in {"wakeup_one", "wakeup_all", "fire"}
        BY <2>11, InCall, Zenon DEF tc_waitq_wakeup, CallsOK, CallOK
      <3>2. Arg(t) \in Lists
        BY <3>1, CallFacts, Zenon DEF Lists, Queues
      <3>3. due' \subseteq Events
        <4> DEFINE n == IF Op(t) = "wakeup_one" /\ Len(list[Arg(t)]) > 0 THEN 1 ELSE Len(list[Arg(t)])
        <4>1. to_immediate(Arg(t), n)
          BY <2>11, Zenon DEF tc_waitq_wakeup
        <4>2. n = 1 \/ n = Len(list[Arg(t)])
          BY Zenon
        <4>3. n = 1 => Len(list[Arg(t)]) > 0
          <5>1. 1 > 0
            BY SMT
          <5> QED BY <5>1, Zenon
        <4> HIDE DEF n
        <4> QED BY <3>2, <4>1, <4>2, <4>3, MovedDue, Zenon
      <3>4. CASE Return(t)
        BY <2>0, <2>11, <3>1, <3>3, <3>4, ReturnFacts, Zenon DEF tc_waitq_wakeup
      <3>5. CASE Goto(t, "iwi") /\ UNCHANGED calls
        BY <2>0, <2>11, <3>3, <3>5, Zenon DEF tc_waitq_wakeup, Goto, ThreadPCs
      <3> QED BY <2>11, <3>4, <3>5, Zenon DEF tc_waitq_wakeup
    <2>12. CASE iwi_immediate(w, t)
      <3>1. CASE pc[t] = "iwi"
        <4>1. Depth(t) # 0 /\ Return(t)
          BY <2>12, <3>1, InCall, Zenon DEF iwi_immediate
        <4> QED BY <2>0, <2>12, <4>1, ReturnFacts, Zenon DEF iwi_immediate
      <3>2. CASE pc[t] # "iwi"
        <4>1. UNCHANGED calls /\ (Goto(t, "die_post") \/ Goto(t, "die_switch"))
          BY <2>12, <3>2, Zenon DEF iwi_immediate
        <4> QED BY <2>0, <2>12, <4>1, ZenonT(30) DEF iwi_immediate, Goto, ThreadPCs
      <3> QED BY <3>1, <3>2, Zenon
    <2>13. CASE tc_signal_subscribe(w, t) \/ tc_signal_unsubscribe(w, t)
      <3>1. Depth(t) # 0 /\ Return(t)
        BY <2>13, InCall, Zenon DEF tc_signal_subscribe, tc_signal_unsubscribe
      <3>2. calls' \in [Threads -> Seq(Call)] /\ pc' \in [Threads -> ThreadPCs]
        BY <3>1, ReturnFacts, Zenon
      <3> QED BY <2>0, <2>13, <3>2, ZenonT(30) DEF tc_signal_subscribe, tc_signal_unsubscribe
    <2>14. CASE tc_thread_insert(w, t)
      <3>1. Depth(t) # 0 /\ Op(t) = "new"
        BY <2>14, InCall, Zenon DEF tc_thread_insert, CallsOK, CallOK
      <3>2. Arg(t) \in Threads
        BY <3>1, CallFacts, Zenon
      <3> QED BY <2>0, <2>14, <3>2, Zenon DEF tc_thread_insert, ThreadPCs, OffPCs
    <2>15. CASE tc_thread_new(w, t) \/ die_post(w, t) \/ tc_die(w, t)
      BY <2>0, <2>15, ZenonT(30) DEF tc_thread_new, die_post, tc_die, Goto, ThreadPCs
    <2>16. CASE tc_thread_wait(w, t)
      <3>1. Depth(t) # 0
        BY <2>16, InCall, Zenon DEF tc_thread_wait
      <3>2. CASE Return(t) /\ UNCHANGED <<stkVars, woken_by_event>>
        BY <2>0, <2>16, <3>1, <3>2, ReturnFacts, Zenon DEF tc_thread_wait
      <3>3. CASE prepare_to_wait(w, t) /\ Goto(t, "scheduler") /\ UNCHANGED calls
        <4>1. /\ event_stack' \in [Threads -> Events \cup {NULL}]
              /\ next_in_stack' \in [Events -> Events \cup {NULL}]
          BY <3>1, <3>3, CallFacts, <1>StackTypes, ZenonT(30) DEF prepare_to_wait
        <4> QED BY <2>0, <2>16, <3>3, <4>1, Zenon DEF tc_thread_wait, prepare_to_wait, Goto, ThreadPCs
      <3> QED BY <2>16, <3>2, <3>3, Zenon DEF tc_thread_wait
    <2>17. CASE die_wakeup(w, t)
      <3>1. due' \subseteq Events
        <4>1. t \in Lists /\ to_immediate(t, Len(list[t]))
          BY <2>17, Zenon DEF die_wakeup, Lists, Queues
        <4>2. Len(list[t]) = 1 => Len(list[t]) > 0
          <5>1. 1 > 0
            BY SMT
          <5> QED BY <5>1, Zenon
        <4> QED BY <4>1, <4>2, MovedDue, Zenon
      <3> QED BY <2>0, <2>17, <3>1, Zenon DEF die_wakeup, Goto, ThreadPCs
    <2> QED BY <2>1, <2>2, <2>3, <2>4, <2>5, <2>6, <2>7, <2>8, <2>9, <2>10, <2>11, <2>12, <2>13,
               <2>14, <2>15, <2>16, <2>17, ZenonT(30) DEF coroutine
  \* A thread goes on inside its innermost call.
  <1>GotoCalls. ASSUME IInv, NEW t \in Threads, NEW l, Goto(t, l), UNCHANGED calls,
                       \/ pc[t] \notin NoCallPCs /\ l \notin NoCallPCs
                       \/ pc[t] \in NoCallPCs /\ l \in NoCallPCs,
                       l \in {"test", "cond", "finish_true"} => Op(t) = "wait_event",
                       l = "prepare" => Op(t) \in {"wait_event", "wait"},
                       l \in {"scheduler", "switch", "parked"} => Op(t) \in Blocking,
                       l = "finish" => Op(t) \in {"wait_event", "wait", "join"},
                       l \in {"yield", "yield_stack", "yield_done"} => Op(t) = "yield",
                       l = "iwi" => Op(t) \in {"wakeup_one", "wakeup_all", "fire", "new"},
                       l \in {"new", "new_post"} => Op(t) = "new",
                       l \notin {"wakeup", "subscribe", "unsubscribe", "join"}
                PROVE  CallsOK'
    <2> USE <1>GotoCalls
    <2>1. pc' = [pc EXCEPT ![t] = l] /\ pc \in [Threads -> ThreadPCs]
      BY Zenon DEF Goto, IInv, TypeOK
    <2>2. \A u \in Threads : Depth(u)' = Depth(u) /\ Op(u)' = Op(u) /\ calls'[u] = calls[u]
      BY Zenon DEF Depth, Op
    <2>3. CallOK(t)'
      BY <2>1, <2>2, ZenonT(30) DEF IInv, CallsOK, CallOK
    <2>4. \A u \in Threads \ {t} : CallOK(u)'
      BY <2>1, <2>2, CallUnchanged, Zenon DEF IInv, CallsOK
    <2> QED BY <2>3, <2>4, Zenon DEF CallsOK
  \* A step that moves no thread keeps CallsOK.
  <1>CallsUnchanged. ASSUME CallsOK, UNCHANGED <<pc, calls>> PROVE CallsOK'
    BY <1>CallsUnchanged, ZenonT(30) DEF CallsOK, CallOK, Depth, Op
  \* A worker resumes a thread inside the call it left.
  <1>WorkerCalls. ASSUME IInv, NEW w \in Workers, worker(w) PROVE CallsOK'
    <2> USE <1>WorkerCalls
    <2> USE DEF IInv
    <2>1. CASE run_immediate(w) \/ search_none(w) \/ search_queue(w) \/ search_run(w)
               \/ search_exiting(w) \/ switch_to(w) \/ epoll_immediate(w) \/ epoll_timeout(w)
               \/ rearm_read(w) \/ arm_immediate(w)
      <3>1. UNCHANGED <<pc, calls>>
        BY <2>1, Zenon DEF run_immediate, search_none, search_queue, search_run, search_exiting, switch_to,
           epoll_immediate, epoll_timeout, rearm_read, arm_immediate, parked, client
      <3> QED BY <3>1, <1>CallsUnchanged, Zenon
    <2>2. CASE switch_in(w)
      <3> DEFINE t == target[w]
      <3>1. t \in Threads /\ pc[t] \in {"start", "parked"}
        BY <2>2, EnterFacts, Zenon DEF switch_in, may_enter
      <3>2. UNCHANGED calls /\ Goto(t, IF pc[t] = "start" THEN "user" ELSE resume_pc(t))
        BY <2>2, Zenon DEF switch_in, client
      <3> HIDE DEF t
      <3>3. CASE pc[t] = "start"
        BY <3>1, <3>2, <3>3, <1>GotoCalls, Zenon DEF NoCallPCs, DiePCs
      <3>4. CASE pc[t] = "parked"
        <4>1. Op(t) \in Blocking
          BY <3>1, <3>4, Zenon DEF CallsOK, CallOK
        <4> QED BY <3>1, <3>2, <3>4, <4>1, <1>GotoCalls, Zenon DEF NoCallPCs, DiePCs, resume_pc, Blocking
      <3> QED BY <3>1, <3>3, <3>4, Zenon
    <2>3. CASE tc_thread_free(w)
      BY <2>3, EnterFacts, <1>GotoCalls, Zenon DEF tc_thread_free, client, NoCallPCs, DiePCs
    <2> QED BY <2>1, <2>2, <2>3, Zenon DEF worker
  \* A thread goes from one pc of a call to the next.
  <1>CoroutineCalls. ASSUME IInv, NEW w \in Workers, NEW t \in Threads, coroutine(w, t) PROVE CallsOK'
    <2> USE <1>CoroutineCalls
    <2> USE DEF IInv, At
    <2>0. CallOK(t)
      BY Zenon DEF CallsOK
    <2>1. CASE call(w, t)
      <3>1. PICK c \in Calls[t][made[t] + 1] :
               /\ \/ pc[t] = "user"
                  \/ pc[t] = "cond" /\ Depth(t) < MaxDepth /\ c[1] \in Blocking
               /\ calls' = [calls EXCEPT ![t] = Append(@, c)]
               /\ Goto(t, first_pc[c[1]])
        BY <2>1, Zenon DEF call
      <3>2. c \in Call
        BY <2>1, <3>1, NextCalls, Zenon
      <3>3. calls \in [Threads -> Seq(Call)] /\ pc \in [Threads -> ThreadPCs]
        BY Zenon DEF TypeOK
      <3>4. /\ calls'[t] = Append(calls[t], c)
            /\ \A u \in Threads \ {t} : calls'[u] = calls[u] /\ pc'[u] = pc[u]
            /\ pc'[t] = first_pc[c[1]]
        BY <3>1, <3>3, ZenonT(30) DEF Goto
      <3>5. /\ Depth(t)' = Depth(t) + 1 /\ Depth(t) \in Nat
            /\ Op(t)' = c[1]
            /\ \A i \in 1..Depth(t) : calls'[t][i] = calls[t][i]
        <4>1. calls[t] \in Seq(Call)
          BY <3>3, Zenon
        <4>2. /\ Len(Append(calls[t], c)) = Len(calls[t]) + 1 /\ Len(calls[t]) \in Nat
              /\ Append(calls[t], c)[Len(Append(calls[t], c))] = c
              /\ \A i \in 1..Len(calls[t]) : Append(calls[t], c)[i] = calls[t][i]
          BY <3>2, <4>1, Pushed, Zenon
        <4>3. /\ Len(calls'[t]) = Len(calls[t]) + 1 /\ Len(calls[t]) \in Nat
              /\ calls'[t][Len(calls'[t])] = c
              /\ \A i \in 1..Len(calls[t]) : calls'[t][i] = calls[t][i]
          BY <3>4, <4>2, Zenon
        <4> QED BY <4>3, Zenon DEF Depth, Op
      <3>6. /\ \A i \in 1..Depth(t) : calls[t][i][1] = "wait_event"
            /\ Depth(t) + 1 <= MaxDepth
        <4>1. CASE pc[t] = "user"
          <5>1. Depth(t) = 0
            BY <2>0, <4>1, Zenon DEF CallOK, NoCallPCs
          <5> QED BY <5>1, Shallow, ThreadEvents, Zenon
        <4>2. CASE pc[t] = "cond" /\ Depth(t) < MaxDepth
          <5>1. /\ Op(t) = "wait_event" /\ \A i \in 1..(Depth(t) - 1) : calls[t][i][1] = "wait_event"
                /\ Op(t) = calls[t][Depth(t)][1]
            BY <2>0, <4>2, Zenon DEF CallOK, Op
          <5>2. \A i \in 1..Depth(t) : i = Depth(t) \/ i \in 1..(Depth(t) - 1)
            BY <3>5, Deeper, Zenon
          <5>3. Depth(t) + 1 <= MaxDepth
            BY <3>5, <4>2, ThreadEvents, Deeper, Zenon
          <5> QED BY <5>1, <5>2, <5>3, Zenon
        <4> QED BY <3>1, <4>1, <4>2, ZenonT(30)
      <3>7. CallOK(t)'
        <4>1. c[1] \in Blocking \cup {"wakeup_one", "wakeup_all", "subscribe", "unsubscribe",
                                    "fire", "new"}
          BY <3>2, CallShape, ZenonT(30)
        <4>2. \A i \in 1..(Depth(t)' - 1) : calls'[t][i][1] = "wait_event"
          <5>1. \A i \in 1..(Depth(t)' - 1) : i \in 1..Depth(t)
            BY <3>5, Deeper, Zenon
          <5> QED BY <3>5, <3>6, <5>1, Zenon
        <4>3. Depth(t)' # 0 /\ Depth(t)' <= MaxDepth
          BY <3>5, <3>6, Deeper, Zenon
        <4>4. \/ Op(t)' = "wait_event" /\ pc'[t] = "test"
              \/ Op(t)' = "wait" /\ pc'[t] = "prepare"
              \/ Op(t)' \in {"wakeup_one", "wakeup_all", "fire"} /\ pc'[t] = "wakeup"
              \/ Op(t)' \in {"join", "yield", "subscribe", "unsubscribe", "new"} /\ pc'[t] = Op(t)'
          BY <3>4, <3>5, <4>1, SMTT(30) DEF first_pc, Blocking
        <4> QED BY <4>2, <4>3, <4>4, Zenon DEF CallOK, NoCallPCs, DiePCs
      <3> QED BY <3>4, <3>7, CallUnchanged, Zenon DEF CallsOK

    <2>2. CASE test(w, t)
      <3>1. Depth(t) # 0 /\ Op(t) = "wait_event" /\ pc[t] \notin NoCallPCs
        BY <2>0, <2>2, InCall, Zenon DEF test, CallOK, NoCallPCs, DiePCs
      <3>2. CASE Return(t)
        BY <3>1, <3>2, ReturnCalls, Zenon
      <3>3. CASE Goto(t, "prepare") /\ UNCHANGED calls
        BY <3>1, <3>3, <1>GotoCalls, Zenon DEF NoCallPCs, DiePCs
      <3> QED BY <2>2, <3>2, <3>3, Zenon DEF test
    <2>3. CASE tc_waitq_prepare_to_wait(w, t)
      BY <2>0, <2>3, <1>GotoCalls, Zenon DEF tc_waitq_prepare_to_wait, prepared, CallOK, NoCallPCs, DiePCs, Blocking
    <2>4. CASE cond(w, t)
      BY <2>0, <2>4, <1>GotoCalls, Zenon DEF cond, CallOK, NoCallPCs, DiePCs, Blocking
    <2>5. CASE tc_scheduler(w, t)
      BY <2>0, <2>5, <1>GotoCalls, Zenon DEF tc_scheduler, resume_pc, client, CallOK, NoCallPCs, DiePCs, Blocking
    <2>6. CASE switch_out(w, t)
      BY <2>0, <2>6, <1>GotoCalls, Zenon DEF switch_out, client, CallOK, NoCallPCs, DiePCs
    <2>7. CASE tc_waitq_finish_wait(w, t)
      <3>1. Depth(t) # 0 /\ pc[t] \notin NoCallPCs
        BY <2>7, InCall, Zenon DEF tc_waitq_finish_wait, NoCallPCs, DiePCs
      <3>2. CASE Return(t)
        BY <3>1, <3>2, ReturnCalls, Zenon
      <3>3. CASE Op(t) = "wait_event" /\ Goto(t, "prepare") /\ UNCHANGED calls
        BY <3>1, <3>3, <1>GotoCalls, Zenon DEF NoCallPCs, DiePCs
      <3> QED BY <2>7, <3>2, <3>3, Zenon DEF tc_waitq_finish_wait
    <2>8. CASE tc_sched_yield(w, t) \/ yield_stack(w, t)
      BY <2>0, <2>8, <1>GotoCalls, Zenon DEF tc_sched_yield, yield_stack, client, CallOK, NoCallPCs, DiePCs, Blocking
    <2>9. CASE yield_done(w, t) \/ tc_signal_subscribe(w, t) \/ tc_signal_unsubscribe(w, t)
      BY <2>9, InCall, ReturnCalls, Zenon DEF yield_done, tc_signal_subscribe, tc_signal_unsubscribe
    <2>10. CASE tc_waitq_wakeup(w, t)
      <3>1. Depth(t) # 0 /\ pc[t] \notin NoCallPCs /\ Op(t) \in {"wakeup_one", "wakeup_all", "fire"}
        BY <2>0, <2>10, InCall, Zenon DEF tc_waitq_wakeup, CallOK, NoCallPCs, DiePCs
      <3>2. CASE Return(t)
        BY <3>1, <3>2, ReturnCalls, Zenon
      <3>3. CASE Goto(t, "iwi") /\ UNCHANGED calls
        BY <3>1, <3>3, <1>GotoCalls, Zenon DEF NoCallPCs, DiePCs
      <3> QED BY <2>10, <3>2, <3>3, Zenon DEF tc_waitq_wakeup
    <2>11. CASE iwi_immediate(w, t)
      <3>1. CASE pc[t] = "iwi"
        BY <2>11, <3>1, InCall, ReturnCalls, Zenon DEF iwi_immediate
      <3>2. CASE pc[t] # "iwi"
        <4>1. UNCHANGED calls /\ (Goto(t, "die_post") \/ Goto(t, "die_switch"))
          BY <2>11, <3>2, Zenon DEF iwi_immediate
        <4> QED BY <2>11, <3>2, <4>1, <1>GotoCalls, Zenon DEF iwi_immediate, NoCallPCs, DiePCs
      <3> QED BY <3>1, <3>2, Zenon
    <2>12. CASE tc_thread_insert(w, t)
      <3>1. Depth(t) # 0 /\ Op(t) = "new" /\ pc[t] = "new" /\ pc[Arg(t)] = "none"
        BY <2>0, <2>12, InCall, Zenon DEF tc_thread_insert, CallOK
      <3>2. Arg(t) \in Threads /\ Arg(t) # t
        BY <3>1, CallFacts, Zenon
      <3>3. /\ UNCHANGED calls /\ pc'[t] = "new_post" /\ pc'[Arg(t)] = "start"
            /\ \A u \in Threads \ {t, Arg(t)} : pc'[u] = pc[u]
        BY <2>12, <3>2, Zenon DEF tc_thread_insert, TypeOK
      <3>4. CallOK(t)'
        BY <2>0, <3>1, <3>3, Zenon DEF CallOK, NoCallPCs, DiePCs, Depth, Op
      <3> QED BY <3>1, <3>2, <3>3, <3>4, CallUnchanged, Zenon DEF CallsOK
    <2>13. CASE tc_thread_new(w, t)
      BY <2>0, <2>13, <1>GotoCalls, Zenon DEF tc_thread_new, client, CallOK, NoCallPCs, DiePCs
    <2>14. CASE tc_thread_wait(w, t)
      <3>1. Depth(t) # 0 /\ pc[t] \notin NoCallPCs /\ Op(t) = "join"
        BY <2>0, <2>14, InCall, Zenon DEF tc_thread_wait, CallOK, NoCallPCs, DiePCs
      <3>2. CASE Return(t)
        BY <3>1, <3>2, ReturnCalls, Zenon
      <3>3. CASE Goto(t, "scheduler") /\ UNCHANGED calls
        BY <3>1, <3>3, <1>GotoCalls, Zenon DEF NoCallPCs, DiePCs, Blocking
      <3> QED BY <2>14, <3>2, <3>3, Zenon DEF tc_thread_wait
    <2>15. CASE tc_die(w, t) \/ die_wakeup(w, t) \/ die_post(w, t)
      BY <2>15, <1>GotoCalls, Zenon DEF tc_die, die_wakeup, die_post, client, NoCallPCs, DiePCs
    <2> QED BY <2>1, <2>2, <2>3, <2>4, <2>5, <2>6, <2>7, <2>8, <2>9, <2>10, <2>11, <2>12, <2>13,
               <2>14, <2>15, ZenonT(30) DEF coroutine
  \* scheduler_part2() keeps EventsOK.
  <1>WorkerEvents. ASSUME IInv, NEW w \in Workers, worker(w) PROVE EventsOK'
    <2> USE <1>WorkerEvents
    <2> USE DEF IInv
    <2>t. /\ wpc \in [Workers -> WorkerPCs] /\ target \in [Workers -> Threads \cup {NULL}]
          /\ pc \in [Threads -> ThreadPCs] /\ el \in [Events -> Lists \cup {NULL}]
          /\ TF_RUNNING \in [Threads -> BOOLEAN]
      BY Zenon DEF TypeOK
    <2>0. /\ \A t \in Threads, s \in Signals : <<t, s>> \in Events
          /\ \A t \in Threads : <<t, 0>> \in Events
          /\ \A t \in Threads, d \in 1..MaxDepth : <<t, d>> \in Events
          /\ \A t \in Threads : t # NULL
      BY ThreadEvents, Zenon
    <2>1. UNCHANGED calls
      BY Zenon DEF worker, run_immediate, search_none, search_queue, search_run, search_exiting, switch_to,
         switch_in, tc_thread_free, epoll_immediate, epoll_timeout, rearm_read, arm_immediate,
         parked, client
    <2>2. \A e \in Events : el'[e] # NULL => el[e] # NULL
      BY WorkerAdded, Zenon
    <2>3. /\ \A t \in Threads : \/ pc'[t] = pc[t]
                                \/ pc[t] = "start" /\ pc'[t] = "user" /\ TF_RUNNING[t]
                                \/ pc[t] = "parked" /\ pc'[t] \in {"yield_done", "finish"}
                                \/ pc[t] = "dead" /\ pc'[t] = "freed"
          /\ \A t \in Threads : pc'[t] # pc[t] => el[<<t, 0>>] = NULL
      <3>1. CASE UNCHANGED pc
        BY <3>1, Zenon
      <3>2. CASE switch_in(w)
        <4> DEFINE t == target[w]
        <4>1. t \in Threads /\ pc[t] \in {"start", "parked"} /\ wpc[w] = "spin"
          BY <3>2, EnterFacts, Zenon DEF switch_in, may_enter
        <4>2. pc' = [pc EXCEPT ![t] = IF pc[t] = "start" THEN "user" ELSE resume_pc(t)]
          BY <3>2, Zenon DEF switch_in, Goto
        <4>3. Claims(w, t)
          BY <4>1, Zenon DEF Claims
        <4>4. TF_RUNNING[t]
          BY <4>1, <4>3, Zenon DEF ClaimsOK, RunningFlagExact
        <4>5. el[<<t, 0>>] = NULL
          BY <4>1, Zenon DEF EventsOK
        <4> HIDE DEF t
        <4> QED BY <2>t, <4>1, <4>2, <4>4, <4>5, Zenon DEF resume_pc
      <3>3. CASE tc_thread_free(w)
        <4> DEFINE t == target[w]
        <4>1. t \in Threads /\ pc[t] = "dead" /\ wpc[w] = "thread_free"
          BY <3>3, EnterFacts, Zenon DEF tc_thread_free, may_enter
        <4>2. pc' = [pc EXCEPT ![t] = "freed"]
          BY <3>3, Zenon DEF tc_thread_free, Goto
        <4>3. el[<<t, 0>>] = NULL
          BY <4>1, ZenonT(30) DEF ClaimsOK
        <4> HIDE DEF t
        <4> QED BY <2>t, <4>1, <4>2, <4>3, Zenon
      <3> QED BY <3>1, <3>2, <3>3, Zenon DEF worker, run_immediate, search_none, search_queue, search_run,
                 search_exiting, switch_to, epoll_immediate, epoll_timeout, rearm_read,
                 arm_immediate, parked
    <2>4. \A t \in Threads, s \in Signals : pc'[t] \in {"none", "start"} => el'[<<t, s>>] = NULL
      BY <2>0, <2>2, <2>3 DEF EventsOK
    <2>5. \A t \in Threads : el'[<<t, 0>>] # NULL => pc'[t] \in {"start", "die_iwi", "die_switch", "dead"}
      BY <2>0, <2>2, <2>3, ZenonT(30) DEF EventsOK
    <2>6. \A t \in Threads, d \in 1..MaxDepth : el'[<<t, d>>] # NULL =>
            /\ d <= Depth(t)' /\ calls'[t][d][1] \in Blocking
            /\ d = Depth(t)' => pc'[t] \notin {"test", "prepare", "yield", "join"}
      BY <2>0, <2>1, <2>2, <2>3 DEF EventsOK, Depth
    <2>7. \A t \in Threads : pc'[t] = "subscribe" => el'[<<t, Arg(t)'>>] = NULL
      <3>1. ASSUME NEW t \in Threads, pc'[t] = "subscribe" PROVE el'[<<t, Arg(t)'>>] = NULL
        <4>1. pc[t] = "subscribe" /\ Arg(t)' = Arg(t)
          BY <2>1, <2>3, <3>1, Zenon DEF Arg, Depth
        <4>2. Depth(t) # 0 /\ Op(t) = "subscribe" /\ el[<<t, Arg(t)>>] = NULL
          BY <4>1, InCall, FreshEvents, Zenon DEF CallsOK, CallOK
        <4>3. Arg(t) \in Signals
          BY <4>2, CallFacts, Zenon
        <4> QED BY <2>0, <2>2, <4>1, <4>2, <4>3, Zenon
      <3> QED BY <3>1, Zenon
    <2>8. ASSUME NEW t \in Threads, pc'[t] = "new_post"
          PROVE  pc'[Arg(t)'] = "start" /\ el'[<<Arg(t)', 0>>] = NULL /\ ~TF_RUNNING'[Arg(t)']
      <3> DEFINE u == Arg(t)
      <3>1. pc[t] = "new_post" /\ Arg(t)' = u
        BY <2>1, <2>3, <2>8, Zenon DEF Arg, Depth
      <3>2. Depth(t) # 0 /\ Op(t) = "new"
        BY <3>1, InCall, Zenon DEF CallsOK, CallOK
      <3>3. u \in Threads
        BY <3>2, CallFacts, Zenon
      <3>4. pc[u] = "start" /\ el[<<u, 0>>] = NULL /\ ~TF_RUNNING[u]
        BY <3>1, Zenon DEF EventsOK
      <3> HIDE DEF u
      <3>5. pc'[u] = "start" /\ el'[<<u, 0>>] = NULL
        BY <2>0, <2>2, <2>3, <3>3, <3>4, Zenon
      <3>6. ~TF_RUNNING'[u]
        <4>1. CASE UNCHANGED TF_RUNNING
          BY <3>4, <4>1, Zenon
        <4>2. CASE search_run(w)
          <5>1. PICK e \in first_wanted(w) : TF_RUNNING' = [TF_RUNNING EXCEPT ![Tc(e)] = TRUE]
            BY <4>2, Zenon DEF search_run
          <5>2. e \in Events /\ el[e] # NULL
            BY <5>1, FirstWanted, LInvFromIInv, SchedAssumption, Zenon DEF Lists
          <5>3. Tc(e) # u
            BY <3>4, <5>2, StartEvents, Zenon
          <5>4. TF_RUNNING'[u] = TF_RUNNING[u]
            BY <2>t, <3>3, <5>1, <5>3, Zenon
          <5> QED BY <3>4, <5>4, Zenon
        <4> QED BY <4>1, <4>2, Zenon DEF worker, run_immediate, search_none, search_queue, search_exiting,
                   switch_to, switch_in, tc_thread_free, epoll_immediate, epoll_timeout, rearm_read,
                   arm_immediate, parked, runVars
      <3> QED BY <3>1, <3>5, <3>6, Zenon
    <2>9. \A e \in Events, t \in Threads : el'[e] = Pending(t) => Tc(e) = t
      <3>1. \A t \in Threads : Pending(t) \notin Queues \cup {NULL}
        BY SchedAssumption, Zenon DEF Lists
      <3>2. CASE UNCHANGED el
        BY <3>2, Zenon DEF EventsOK
      <3>3. CASE search_queue(w)
        <4>1. PICK e \in first_wanted(w) : el' = [el EXCEPT ![e] = Pending(Tc(e))]
          BY <3>3, Zenon DEF search_queue, move_event
        <4>2. e \in Events /\ Tc(e) \in Threads
          BY FirstWanted, LInvFromIInv, EventTc, Zenon
        <4>3. \A d \in Events : el'[d] = IF d = e THEN Pending(Tc(e)) ELSE el[d]
          BY <2>t, <4>1, ZenonT(30)
        <4> QED BY <4>2, <4>3, PendingIs, ZenonT(30) DEF EventsOK
      <3>4. CASE search_run(w)
        <4>1. PICK e \in Events : /\ IsSignal(e) => el' = [el EXCEPT ![e] = e[2]]
                                  /\ ~IsSignal(e) => el' = [el EXCEPT ![e] = NULL]
          BY <3>4, FirstWanted, LInvFromIInv, ConsumeEventLists, Zenon DEF search_run
        <4>2. /\ \A d \in Events \ {e} : el'[d] = el[d]
              /\ el'[e] = NULL \/ el'[e] \in Queues
          BY <2>t, <4>1, Zenon DEF IsSignal, Queues
        <4> QED BY <3>1, <4>2, ZenonT(30) DEF EventsOK
      <3>5. CASE search_exiting(w)
        <4>1. PICK e : el' = [el EXCEPT ![e] = NULL]
          BY <3>5, Zenon DEF search_exiting, remove_event
        <4>2. \A d \in Events : el'[d] = el[d] \/ el'[d] = NULL
          BY <2>t, <4>1, ZenonT(30)
        <4> QED BY <3>1, <4>2, ZenonT(30) DEF EventsOK
      <3> QED BY <3>2, <3>3, <3>4, <3>5, ZenonT(30) DEF worker, run_immediate, search_none, switch_to, switch_in,
                 tc_thread_free, epoll_immediate, epoll_timeout, rearm_read, arm_immediate, parked,
                 listVars
    <2>10. \A t, u \in Threads :
              pc'[t] = "new_post" /\ pc'[u] = "new_post" /\ Arg(t)' = Arg(u)' => t = u
      <3>1. \A t \in Threads : pc'[t] = "new_post" => pc[t] = "new_post"
        BY <2>3, Zenon
      <3>2. \A t \in Threads : Arg(t)' = Arg(t)
        BY <2>1, Zenon DEF Arg, Depth
      <3>3. \A t, u \in Threads : pc[t] = "new_post" /\ pc[u] = "new_post" /\ Arg(t) = Arg(u) => t = u
        BY Zenon DEF EventsOK
      <3> QED BY <3>1, <3>2, <3>3, Zenon
    <2>11. ASSUME NEW v \in Workers, wpc'[v] \in {"switch_to", "spin"}, pc'[target'[v]] = "start"
           PROVE  el'[<<target'[v], 0>>] = NULL
      <3>1. CASE wpc[v] \in {"switch_to", "spin"} /\ target'[v] = target[v]
        <4>1. target[v] \in Threads
          BY <3>1, EnterFacts, Zenon
        <4>2. pc[target[v]] = "start"
          BY <2>3, <2>11, <3>1, <4>1, Zenon
        <4> QED BY <2>0, <2>2, <3>1, <4>1, <4>2, Zenon DEF EventsOK
      <3>2. CASE search_run(w) /\ v = w
        <4>1. PICK e \in first_wanted(w) : consume_event(e) /\ target' = [target EXCEPT ![w] = Tc(e)]
          BY <3>2, Zenon DEF search_run
        <4>2. e \in Events /\ el[e] # NULL
          BY <4>1, FirstWanted, LInvFromIInv, SchedAssumption, Zenon DEF Lists
        <4>3. target'[v] = Tc(e) /\ pc[Tc(e)] = "start"
          BY <2>t, <2>11, <3>2, <4>1, Zenon DEF search_run
        <4>4. e = <<target'[v], 0>> /\ ~IsSignal(e)
          BY <4>2, <4>3, StartEvents, Zenon
        <4> QED BY <2>t, <4>1, <4>2, <4>4, ConsumeEventLists, LInvFromIInv
      <3> QED BY <2>t, <2>11, <3>1, <3>2, Zenon DEF worker, run_immediate, search_none, search_queue,
                 search_run, search_exiting, switch_to, switch_in, tc_thread_free, epoll_immediate,
                 epoll_timeout, rearm_read, arm_immediate, pass_done, restart
    <2> QED BY <2>4, <2>5, <2>6, <2>7, <2>8, <2>9, <2>10, <2>11, Zenon DEF EventsOK
  \* A worker enters one stack, and enters it with the running lock.
  <1>WorkerWorkers. ASSUME IInv, NEW w \in Workers, worker(w) PROVE WorkersOK'
    <2> USE <1>WorkerWorkers
    <2>i. /\ WorkersOK /\ LInv
          /\ wpc \in [Workers -> WorkerPCs] /\ target \in [Workers -> Threads \cup {NULL}]
          /\ ctx \in [Workers -> Threads \cup {NULL}]
          /\ running \in [Threads -> Workers \cup {NULL}] /\ pc \in [Threads -> ThreadPCs]
      BY LInvFromIInv, Zenon DEF IInv, TypeOK
    <2>0. \A v \in Workers, t \in Threads : v # NULL /\ t # NULL
      BY SchedAssumption, Zenon
    <2>1. CASE run_immediate(w) \/ search_none(w) \/ search_queue(w) \/ epoll_immediate(w)
               \/ epoll_timeout(w) \/ rearm_read(w) \/ arm_immediate(w)
      <3>1. /\ UNCHANGED <<ctx, target, running, pc>>
            /\ {wpc[w], wpc'[w]} \cap {"coroutine", "switch_to", "spin", "thread_free"} = {}
            /\ \A v \in Workers \ {w} : wpc'[v] = wpc[v]
        <4>1. CASE run_immediate(w) \/ search_none(w)
          BY <2>i, <4>1, Zenon DEF run_immediate, search_none, searching, pass_done, restart, parked, runVars
        <4>2. CASE search_queue(w) \/ epoll_immediate(w) \/ epoll_timeout(w)
          BY <2>i, <4>2, Zenon DEF search_queue, searching, epoll_immediate, epoll_timeout, restart, parked, runVars
        <4>3. CASE rearm_read(w) \/ arm_immediate(w)
          BY <2>i, <4>3, Zenon DEF rearm_read, arm_immediate, restart, parked, runVars
        <4> QED BY <2>1, <4>1, <4>2, <4>3, Zenon
      <3> QED BY <2>i, <3>1, Zenon DEF WorkersOK
    <2>2. CASE search_run(w) \/ search_exiting(w)
      <3>1. PICK t \in Threads : /\ target' = [target EXCEPT ![w] = t]
                                 /\ wpc' = [wpc EXCEPT ![w] = wpc'[w]]
                                 /\ wpc[w] = "search" /\ wpc'[w] \in {"switch_to", "thread_free"}
                                 /\ UNCHANGED <<ctx, running, pc>>
        BY <2>i, <2>2, FirstWanted, EventTc, Zenon
           DEF search_run, search_exiting, searching, runVars
      <3>2. /\ target'[w] # NULL
            /\ \A v \in Workers \ {w} : target'[v] = target[v] /\ wpc'[v] = wpc[v]
        BY <2>i, <2>0, <3>1, Zenon
      <3> QED BY <2>i, <3>1, <3>2 DEF WorkersOK
    <2>3. CASE switch_to(w)
      <3>1. wpc[w] = "switch_to" /\ wpc'[w] = "spin" /\ \A v \in Workers \ {w} : wpc'[v] = wpc[v]
        BY <2>i, <2>3, Zenon DEF switch_to
      <3>2. UNCHANGED <<ctx, target, running, pc>>
        BY <2>i, <2>3, Zenon DEF switch_to
      <3> QED BY <2>i, <3>1, <3>2, Zenon DEF WorkersOK
    <2>4. CASE switch_in(w)
      <3> DEFINE t == target[w]
      <3>1. t \in Threads /\ pc[t] \in {"start", "parked"} /\ running[t] = NULL /\ wpc[w] = "spin"
        BY <2>i, <2>4, EnterFacts, Zenon DEF switch_in, may_enter
      <3>2. /\ running' = [running EXCEPT ![t] = w]
            /\ ctx' = [ctx EXCEPT ![w] = t]
            /\ wpc' = [wpc EXCEPT ![w] = "coroutine"]
            /\ target' = [target EXCEPT ![w] = NULL]
            /\ pc' = [pc EXCEPT ![t] = pc'[t]] /\ pc'[t] \notin OffPCs
        BY <2>i, <2>4, <3>1, Zenon DEF switch_in, Goto, resume_pc, OffPCs
      <3> HIDE DEF t
      <3>3. \A v \in Workers : ctx[v] # t
        BY <2>i, <2>0, <3>1, Zenon DEF WorkersOK
      <3>4. /\ ctx'[w] = t /\ wpc'[w] = "coroutine" /\ target'[w] = NULL /\ running'[t] = w
            /\ \A v \in Workers \ {w} : ctx'[v] = ctx[v] /\ wpc'[v] = wpc[v] /\ target'[v] = target[v]
            /\ \A u \in Threads \ {t} : running'[u] = running[u] /\ pc'[u] = pc[u]
        BY <2>i, <3>1, <3>2, Zenon
      <3>5. ctx[w] = NULL
        BY <2>i, <3>1, Zenon DEF WorkersOK
      <3>6. \A v \in Workers, u \in Threads : ctx'[v] = u => running'[u] = v /\ pc'[u] \notin OffPCs
        BY <2>i, <3>2, <3>3, <3>4 DEF WorkersOK
      <3>7. \A u \in Threads : pc'[u] \notin OffPCs => running'[u] \in Workers /\ ctx'[running'[u]] = u
        BY <2>i, <2>0, <3>4, <3>5 DEF WorkersOK
      <3> QED BY <2>i, <2>0, <3>1, <3>4, <3>6, <3>7 DEF WorkersOK
    <2>5. CASE tc_thread_free(w)
      <3> DEFINE t == target[w]
      <3>1. t \in Threads /\ pc[t] = "dead" /\ running[t] = NULL /\ wpc[w] = "thread_free"
        BY <2>i, <2>5, EnterFacts, Zenon DEF tc_thread_free, may_enter
      <3>2. /\ running' = [running EXCEPT ![t] = w]
            /\ wpc' = [wpc EXCEPT ![w] = "search"]
            /\ target' = [target EXCEPT ![w] = NULL]
            /\ pc' = [pc EXCEPT ![t] = "freed"] /\ UNCHANGED ctx
        BY <2>i, <2>5, Zenon DEF tc_thread_free, Goto
      <3> HIDE DEF t
      <3>3. \A v \in Workers : ctx[v] # t
        BY <2>i, <2>0, <3>1, Zenon DEF WorkersOK
      <3>4. /\ wpc'[w] = "search" /\ target'[w] = NULL /\ pc'[t] \in OffPCs
            /\ \A v \in Workers \ {w} : wpc'[v] = wpc[v] /\ target'[v] = target[v]
            /\ \A u \in Threads \ {t} : running'[u] = running[u] /\ pc'[u] = pc[u]
        BY <2>i, <3>1, <3>2, Zenon DEF OffPCs
      <3>5. ctx[w] = NULL
        BY <2>i, <3>1, Zenon DEF WorkersOK
      <3> QED BY <2>i, <3>2, <3>3, <3>4, <3>5 DEF WorkersOK
    <2> QED BY <2>1, <2>2, <2>3, <2>4, <2>5, Zenon DEF worker
  \* A thread leaves its stack together with the running lock.
  <1>CoroutineWorkers. ASSUME IInv, NEW w \in Workers, NEW t \in Threads, coroutine(w, t) PROVE WorkersOK'
    <2> USE <1>CoroutineWorkers
    <2> USE DEF IInv
    <2>1. CASE switch_out(w, t)
      <3>1. /\ ctx[w] = t /\ pc[t] \notin OffPCs
            /\ running' = [running EXCEPT ![t] = NULL]
            /\ ctx' = [ctx EXCEPT ![w] = NULL]
            /\ pc' = [pc EXCEPT ![t] = pc'[t]] /\ pc'[t] \in {"parked", "dead"}
            /\ wpc' = [wpc EXCEPT ![w] = wpc'[w]] /\ wpc'[w] \in {"round", "search"}
            /\ UNCHANGED target
        BY <2>1, Zenon DEF switch_out, pass_done, Goto, OffPCs, TypeOK
      <3>0. w # NULL /\ t # NULL
        BY SchedAssumption, Zenon
      <3>2. w # NULL /\ t # NULL /\ wpc[w] = "coroutine" /\ running[t] = w
        BY <3>0, <3>1, ZenonT(30) DEF WorkersOK
      <3>3. \A v \in Workers : ctx[v] = t => v = w
        BY <3>2, Zenon DEF WorkersOK
      <3>4. \A v \in Workers : /\ wpc'[v] = "coroutine" <=> ctx'[v] # NULL
                               /\ wpc'[v] \in {"switch_to", "spin", "thread_free"} <=> target'[v] # NULL
        <4>1. \A v \in Workers : /\ wpc[v] = "coroutine" <=> ctx[v] # NULL
                                 /\ wpc[v] \in {"switch_to", "spin", "thread_free"} <=> target[v] # NULL
          BY Zenon DEF WorkersOK
        <4>2. wpc \in [Workers -> WorkerPCs] /\ ctx \in [Workers -> Threads \cup {NULL}]
          BY Zenon DEF TypeOK
        <4>3. ctx'[w] = NULL /\ \A v \in Workers \ {w} : ctx'[v] = ctx[v] /\ wpc'[v] = wpc[v]
          BY <3>1, <4>2, Zenon
        <4>4. target'[w] = NULL /\ wpc'[w] \in {"round", "search"} /\ target' = target
          BY <3>1, <3>2, <4>1, Zenon
        <4> QED BY <4>1, <4>3, <4>4, Zenon
      <3>5. \A v \in Workers, u \in Threads : ctx'[v] = u => running'[u] = v /\ pc'[u] \notin OffPCs
        <4> SUFFICES ASSUME NEW v \in Workers, NEW u \in Threads, ctx'[v] = u
                     PROVE  running'[u] = v /\ pc'[u] \notin OffPCs
          BY Zenon
        <4>0. /\ u # NULL /\ ctx \in [Workers -> Threads \cup {NULL}]
              /\ running \in [Threads -> Workers \cup {NULL}] /\ pc \in [Threads -> ThreadPCs]
          BY SchedAssumption, Zenon DEF TypeOK
        <4>1. v # w /\ ctx[v] = u
          BY <3>1, <4>0, Zenon
        <4>2. u # t
          BY <3>3, <4>1, ZenonT(30)
        <4>3. running'[u] = running[u] /\ pc'[u] = pc[u]
          BY <3>1, <4>0, <4>2, ZenonT(30)
        <4>4. running[u] = v /\ pc[u] \notin OffPCs
          BY <4>1, ZenonT(30) DEF WorkersOK
        <4> QED BY <4>3, <4>4, Zenon
      <3>6. \A u \in Threads : pc'[u] \notin OffPCs => running'[u] \in Workers /\ ctx'[running'[u]] = u
        <4> SUFFICES ASSUME NEW u \in Threads, pc'[u] \notin OffPCs
                     PROVE  running'[u] \in Workers /\ ctx'[running'[u]] = u
          BY Zenon
        <4>0. /\ ctx \in [Workers -> Threads \cup {NULL}]
              /\ running \in [Threads -> Workers \cup {NULL}] /\ pc \in [Threads -> ThreadPCs]
          BY Zenon DEF TypeOK
        <4>1. u # t
          BY <3>1, Zenon DEF OffPCs
        <4>2. running'[u] = running[u] /\ pc'[u] = pc[u]
          BY <3>1, <4>0, <4>1, Zenon
        <4>3. running[u] \in Workers /\ ctx[running[u]] = u
          BY <4>2, Zenon DEF WorkersOK
        <4>4. running[u] # w
          BY <3>1, <4>1, <4>3, Zenon
        <4> QED BY <3>1, <4>0, <4>2, <4>3, <4>4, Zenon
      <3> QED BY <3>4, <3>5, <3>6, Zenon DEF WorkersOK
    <2>2. CASE tc_scheduler(w, t)
      <3>1. /\ UNCHANGED <<running, ctx, wpc, target>>
            /\ pc[t] \notin OffPCs /\ pc'[t] \notin OffPCs
            /\ \A u \in Threads \ {t} : pc'[u] = pc[u]
        <4>1. pc \in [Threads -> ThreadPCs]
          BY Zenon DEF TypeOK
        <4>2. pc[t] = "scheduler" /\ UNCHANGED <<running, ctx, wpc, target>>
          BY <2>2, Zenon DEF tc_scheduler, At
        <4>3. pc' = [pc EXCEPT ![t] = "switch"] \/ pc' = [pc EXCEPT ![t] = resume_pc(t)]
          BY <2>2, Zenon DEF tc_scheduler, Goto
        <4> QED BY <4>1, <4>2, <4>3, Zenon DEF resume_pc, OffPCs
      <3>2. \A u \in Threads : pc'[u] \notin OffPCs <=> pc[u] \notin OffPCs
        BY <3>1, Zenon
      <3> QED BY <3>1, <3>2, ZenonT(30) DEF WorkersOK
    <2>3. CASE ~switch_out(w, t) /\ ~tc_scheduler(w, t)
      <3>1. /\ UNCHANGED <<running, ctx, wpc, target>>
            /\ pc[t] \notin OffPCs /\ pc'[t] \notin OffPCs
            /\ \A u \in Threads \ {t} : pc'[u] = pc[u] \/ (pc[u] \in OffPCs /\ pc'[u] \in OffPCs)
        <4>1. /\ UNCHANGED <<runVars, ctx, wpc, target>>
              /\ pc[t] \notin OffPCs \cup {"switch"} /\ pc'[t] \notin OffPCs \cup {"switch"}
              /\ \A u \in Threads \ {t} : pc'[u] = pc[u] \/ (pc[u] = "none" /\ pc'[u] = "start")
          BY <2>3, QuietFrame, Zenon
        <4> QED BY <4>1, Zenon DEF runVars, OffPCs
      <3>2. \A u \in Threads : pc'[u] \notin OffPCs <=> pc[u] \notin OffPCs
        BY <3>1, Zenon
      <3> QED BY <3>1, <3>2, ZenonT(30) DEF WorkersOK
    <2> QED BY <2>1, <2>2, <2>3, Zenon
  \* A thread gives up its claim, in tc_scheduler(), or keeps it.
  <1>CoroutineClaims. ASSUME IInv, NEW w \in Workers, NEW t \in Threads, coroutine(w, t) PROVE ClaimsOK'
    <2> USE <1>CoroutineClaims
    <2> USE DEF IInv
    <2>0. /\ \A v \in Workers, u \in Threads : v # NULL /\ u # NULL
          /\ \A u \in Threads : <<u, 0>> \in Events
      BY ThreadEvents, Zenon
    <2>t. /\ wpc \in [Workers -> WorkerPCs] /\ target \in [Workers -> Threads \cup {NULL}]
          /\ ctx \in [Workers -> Threads \cup {NULL}] /\ pc \in [Threads -> ThreadPCs]
          /\ TF_RUNNING \in [Threads -> BOOLEAN]
      BY Zenon DEF TypeOK
    <2>e. \A v \in Workers : wpc[v] = "thread_free" => el'[<<target[v], 0>>] = NULL
      <3>1. ASSUME NEW v \in Workers, wpc[v] = "thread_free" PROVE el'[<<target[v], 0>>] = NULL
        <4>1. /\ target[v] \in Threads /\ pc[target[v]] \in {"die_iwi", "die_switch", "dead"}
              /\ el[<<target[v], 0>>] = NULL
          BY <3>1, EnterFacts, Zenon DEF ClaimsOK
        <4> QED BY <4>1, ThreadEventAdded, ZenonT(30)
      <3> QED BY <3>1, Zenon
    <2>1. CASE switch_out(w, t)
      <3>1. /\ ctx[w] = t /\ pc[t] \in {"switch", "die_switch"}
            /\ ctx' = [ctx EXCEPT ![w] = NULL]
            /\ pc' = [pc EXCEPT ![t] = IF pc[t] = "switch" THEN "parked" ELSE "dead"]
            /\ wpc' = [wpc EXCEPT ![w] = wpc'[w]] /\ wpc'[w] \in {"round", "search"}
            /\ UNCHANGED <<target, TF_RUNNING>>
        BY <2>1, <2>t, Zenon DEF switch_out, pass_done, Goto
      <3>2. wpc[w] = "coroutine" /\ target[w] = NULL /\ \A v \in Workers : ctx[v] = t => v = w
        BY <2>0, <3>1 DEF WorkersOK
      <3>3. \A v \in Workers, u \in Threads : u # t => (Claims(v, u)' <=> Claims(v, u))
        BY <2>0, <2>t, <3>1, <3>2, ZenonT(30) DEF Claims
      <3>4. \A v \in Workers : Claims(v, t)' <=> (Claims(v, t) /\ ~(v = w /\ pc[t] = "die_switch"))
        BY <2>0, <2>t, <3>1, <3>2, ZenonT(30) DEF Claims
      <3>5. pc[t] = "die_switch" => TF_RUNNING[t]
        <4>1. pc[t] = "die_switch" => Claims(w, t)
          BY <3>1, Zenon DEF Claims
        <4> QED BY <4>1, Zenon DEF ClaimsOK, RunningFlagExact
      <3>6. RunningFlagExact'
        <4>1. ASSUME NEW u \in Threads, pc'[u] \notin {"dead", "freed"}
              PROVE  TF_RUNNING'[u] <=> \E v \in Workers : Claims(v, u)'
          <5>1. pc[u] \notin {"dead", "freed"} /\ (u = t => pc[t] = "switch")
            BY <2>t, <3>1, <4>1, ZenonT(30)
          <5>2. TF_RUNNING[u] <=> \E v \in Workers : Claims(v, u)
            BY <5>1, Zenon DEF ClaimsOK, RunningFlagExact
          <5> QED BY <3>1, <3>3, <3>4, <5>1, <5>2, SMTT(30)
        <4> QED BY <4>1, Zenon DEF RunningFlagExact
      <3>7. \A u \in Threads : pc'[u] \in {"dead", "freed"} => TF_RUNNING'[u]
        BY <2>t, <3>1, <3>5, ZenonT(30) DEF ClaimsOK
      <3>8. \A v, x \in Workers, u \in Threads : Claims(v, u)' /\ Claims(x, u)' => v = x
        <4>1. \A v, x \in Workers, u \in Threads : Claims(v, u) /\ Claims(x, u) => v = x
          BY Zenon DEF ClaimsOK
        <4>2. \A v \in Workers, u \in Threads : Claims(v, u)' => Claims(v, u)
          BY <3>3, <3>4, Zenon
        <4> QED BY <4>1, <4>2, Zenon
      <3>9. ASSUME NEW v \in Workers, wpc'[v] \in {"switch_to", "spin"}
            PROVE  pc'[target'[v]] \in {"start", "parked", "switch"}
        <4>1. wpc[v] \in {"switch_to", "spin"}
          BY <2>t, <3>1, <3>9, Zenon
        <4>2. target[v] \in Threads /\ pc[target[v]] \in {"start", "parked", "switch"}
          BY <4>1, EnterFacts, Zenon DEF ClaimsOK
        <4> QED BY <2>t, <3>1, <4>2, Zenon
      <3>10. ASSUME NEW v \in Workers, wpc'[v] = "thread_free"
             PROVE  /\ pc'[target'[v]] \in {"die_iwi", "die_switch", "dead"}
                    /\ el'[<<target'[v], 0>>] = NULL
                    /\ \A x \in Workers : target'[x] = target'[v] => x = v
        <4>1. wpc[v] = "thread_free"
          BY <2>t, <3>1, <3>10, Zenon
        <4>2. target[v] \in Threads /\ pc[target[v]] \in {"die_iwi", "die_switch", "dead"}
          BY <4>1, EnterFacts, Zenon
        <4> QED BY <2>e, <2>t, <3>1, <4>1, <4>2, ZenonT(30) DEF ClaimsOK
      <3> QED BY <3>6, <3>7, <3>8, <3>9, <3>10, ZenonT(30) DEF ClaimsOK
    <2>2. CASE tc_scheduler(w, t) /\ TF_RUNNING' # TF_RUNNING
      <3>1. /\ ctx[w] = t /\ pc[t] = "scheduler"
            /\ UNCHANGED <<ctx, wpc, target>>
            /\ TF_RUNNING' = [TF_RUNNING EXCEPT ![t] = FALSE] /\ pc' = [pc EXCEPT ![t] = "switch"]
        BY <2>2, ZenonT(30) DEF tc_scheduler, At, Goto
      <3>2. wpc[w] = "coroutine" /\ target[w] = NULL /\ \A v \in Workers : ctx[v] = t => v = w
        BY <2>0, <3>1 DEF WorkersOK
      <3>3. Claims(w, t)
        BY <3>1, Zenon DEF Claims
      <3>4. \A v \in Workers : ~Claims(v, t)'
        <4>1. ASSUME NEW v \in Workers, Claims(v, t)' PROVE FALSE
          <5>1. target[v] = t /\ wpc[v] \in {"switch_to", "spin"}
            BY <2>t, <3>1, <4>1, ZenonT(30) DEF Claims
          <5>2. Claims(v, t)
            BY <5>1, Zenon DEF Claims
          <5> QED BY <3>2, <3>3, <5>1, <5>2, Zenon DEF ClaimsOK
        <4> QED BY <4>1, Zenon
      <3>5. \A v \in Workers, u \in Threads : u # t => (Claims(v, u)' <=> Claims(v, u))
        BY <2>t, <3>1, Zenon DEF Claims
      <3>6. RunningFlagExact'
        <4>1. ASSUME NEW u \in Threads, pc'[u] \notin {"dead", "freed"}
              PROVE  TF_RUNNING'[u] <=> \E v \in Workers : Claims(v, u)'
          <5>1. CASE u = t
            BY <2>t, <3>1, <3>4, <5>1, ZenonT(30)
          <5>2. CASE u # t
            <6>1. TF_RUNNING'[u] = TF_RUNNING[u] /\ pc'[u] = pc[u]
              BY <2>t, <3>1, <5>2, Zenon
            <6> QED BY <3>5, <4>1, <5>2, <6>1, Zenon DEF ClaimsOK, RunningFlagExact
          <5> QED BY <5>1, <5>2, Zenon
        <4> QED BY <4>1, Zenon DEF RunningFlagExact
      <3>7. \A u \in Threads : pc'[u] \in {"dead", "freed"} => TF_RUNNING'[u]
        <4>1. ASSUME NEW u \in Threads, pc'[u] \in {"dead", "freed"} PROVE TF_RUNNING'[u]
          <5>1. u # t /\ pc'[u] = pc[u] /\ TF_RUNNING'[u] = TF_RUNNING[u]
            BY <2>t, <3>1, <4>1, ZenonT(30)
          <5> QED BY <4>1, <5>1, Zenon DEF ClaimsOK
        <4> QED BY <4>1, Zenon
      <3>8. \A v, x \in Workers, u \in Threads : Claims(v, u)' /\ Claims(x, u)' => v = x
        BY <3>4, <3>5, SMTT(30) DEF ClaimsOK
      <3>9. ASSUME NEW v \in Workers, wpc'[v] \in {"switch_to", "spin"}
            PROVE  pc'[target'[v]] \in {"start", "parked", "switch"}
        <4>2. target[v] \in Threads /\ pc[target[v]] \in {"start", "parked", "switch"}
          BY <3>1, <3>9, EnterFacts, ZenonT(30) DEF ClaimsOK
        <4> QED BY <2>t, <3>1, <4>2, Zenon
      <3>10. ASSUME NEW v \in Workers, wpc'[v] = "thread_free"
             PROVE  /\ pc'[target'[v]] \in {"die_iwi", "die_switch", "dead"}
                    /\ el'[<<target'[v], 0>>] = NULL
                    /\ \A x \in Workers : target'[x] = target'[v] => x = v
        <4>2. target[v] \in Threads /\ pc[target[v]] \in {"die_iwi", "die_switch", "dead"}
          BY <3>1, <3>10, EnterFacts, Zenon
        <4> QED BY <2>e, <2>t, <3>1, <3>10, <4>2, Zenon DEF ClaimsOK
      <3> QED BY <3>6, <3>7, <3>8, <3>9, <3>10, ZenonT(30) DEF ClaimsOK
    <2>3. CASE ~switch_out(w, t) /\ ~(tc_scheduler(w, t) /\ TF_RUNNING' # TF_RUNNING)
      <3>1. /\ UNCHANGED <<TF_RUNNING, ctx, wpc, target>>
            /\ pc[t] \notin OffPCs \cup {"switch"} /\ pc'[t] \notin OffPCs \cup {"switch"}
            /\ pc[t] \in {"die_iwi", "die_switch"} => pc'[t] = "die_switch"
            /\ \A u \in Threads \ {t} : pc'[u] = pc[u] \/ (pc[u] = "none" /\ pc'[u] = "start")
        <4>1. CASE tc_scheduler(w, t)
          <5>1. UNCHANGED TF_RUNNING /\ Goto(t, resume_pc(t))
            <6>1. CASE TF_RUNNING' = [TF_RUNNING EXCEPT ![t] = FALSE]
              <7>1. TF_RUNNING[t] = TRUE
                <8>1. Claims(w, t) /\ pc[t] = "scheduler"
                  BY <4>1, Zenon DEF tc_scheduler, At, Claims
                <8> QED BY <2>t, <8>1, Zenon DEF ClaimsOK, RunningFlagExact
              <7> QED BY <2>3, <2>t, <4>1, <6>1, <7>1, Zenon
            <6> QED BY <4>1, <6>1, Zenon DEF tc_scheduler
          <5> QED BY <2>t, <4>1, <5>1, Zenon DEF tc_scheduler, At, Goto, resume_pc, OffPCs
        <4>2. CASE ~tc_scheduler(w, t)
          BY <2>3, <4>2, QuietFrame, Zenon DEF runVars
        <4> QED BY <4>1, <4>2, Zenon
      <3>2. \A v \in Workers, u \in Threads : Claims(v, u)' <=> Claims(v, u)
        <4>1. \A u \in Threads : pc'[u] = "switch" <=> pc[u] = "switch"
          BY <3>1, Zenon DEF OffPCs
        <4> QED BY <3>1, <4>1, Zenon DEF Claims
      <3>3. \A u \in Threads : pc'[u] \in {"dead", "freed"} <=> pc[u] \in {"dead", "freed"}
        BY <3>1, Zenon DEF OffPCs
      <3>4. ASSUME NEW v \in Workers, wpc'[v] \in {"switch_to", "spin"}
            PROVE  wpc[v] \in {"switch_to", "spin"} /\ pc'[target[v]] \in {"start", "parked", "switch"}
        <4>1. target[v] \in Threads /\ pc[target[v]] \in {"start", "parked", "switch"}
          BY <3>1, <3>4, EnterFacts, Zenon DEF ClaimsOK
        <4> QED BY <3>1, <3>4, <4>1, Zenon DEF OffPCs
      <3>5. ASSUME NEW v \in Workers, wpc'[v] = "thread_free"
            PROVE  /\ wpc[v] = "thread_free"
                   /\ pc'[target[v]] \in {"die_iwi", "die_switch", "dead"}
                   /\ el'[<<target[v], 0>>] = NULL
        <4>1. target[v] \in Threads /\ pc[target[v]] \in {"die_iwi", "die_switch", "dead"}
          BY <3>1, <3>5, EnterFacts, Zenon
        <4> QED BY <2>e, <3>1, <3>5, <4>1, Zenon DEF OffPCs
      <3> QED BY <3>1, <3>2, <3>3, <3>4, <3>5, ClaimsUnchanged, Zenon
    <2> QED BY <2>1, <2>2, <2>3, Zenon
  \* scheduler_part2() hands a thread the event it took off the list.
  <1>WorkerWoken. ASSUME IInv, NEW w \in Workers, worker(w) PROVE WokenOK'
    <2> USE <1>WorkerWoken
    <2> USE DEF IInv
    <2>t. /\ wpc \in [Workers -> WorkerPCs] /\ target \in [Workers -> Threads \cup {NULL}]
          /\ ctx \in [Workers -> Threads \cup {NULL}] /\ pc \in [Threads -> ThreadPCs]
          /\ woken_by_event \in [Workers -> Events \cup {NULL}]
          /\ el \in [Events -> Lists \cup {NULL}]
      BY Zenon DEF TypeOK
    <2>0. NULL \notin Threads \cup Workers \cup Events
      BY SchedAssumption, Zenon
    <2>e. \A e \in Events : el[e] = NULL => el'[e] = NULL
      BY WorkerAdded, Zenon
    <2>p. \A v \in Workers \ {w} :
            /\ woken_by_event'[v] = woken_by_event[v] /\ ctx'[v] = ctx[v]
            /\ wpc'[v] = wpc[v] /\ target'[v] = target[v]
      BY <2>t, Zenon DEF worker, run_immediate, search_none, search_queue, search_run, search_exiting,
         switch_to, switch_in, tc_thread_free, epoll_immediate, epoll_timeout, rearm_read,
         arm_immediate, pass_done, restart, parked
    <2>q. \A v \in Workers \ {w} : ctx[v] # NULL => pc'[ctx[v]] = pc[ctx[v]]
      <3>1. CASE UNCHANGED pc
        BY <3>1, Zenon
      <3>2. CASE switch_in(w) \/ tc_thread_free(w)
        <4>1. /\ target[w] \in Threads /\ pc[target[w]] \in OffPCs
              /\ \A u \in Threads \ {target[w]} : pc'[u] = pc[u]
          BY <2>t, <3>2, EnterFacts, Zenon DEF switch_in, tc_thread_free, may_enter, Goto, OffPCs
        <4>2. \A v \in Workers : ctx[v] # target[w]
          BY <4>1, ZenonT(30) DEF WorkersOK
        <4> QED BY <2>t, <4>1, <4>2, Zenon
      <3> QED BY <3>1, <3>2, Zenon DEF worker, run_immediate, search_none, search_queue, search_run,
                 search_exiting, switch_to, epoll_immediate, epoll_timeout, rearm_read,
                 arm_immediate, parked
    <2>1. ASSUME NEW v \in Workers \ {w} PROVE Woken(v)'
      <3>1. /\ woken_by_event'[v] = woken_by_event[v] /\ ctx'[v] = ctx[v]
            /\ wpc'[v] = wpc[v] /\ target'[v] = target[v] /\ woken_by_event[v] \in Events \cup {NULL}
            /\ ctx[v] # NULL => pc'[ctx[v]] = pc[ctx[v]]
        BY <2>t, <2>p, <2>q, <2>1, Zenon
      <3>2. Woken(v)
        BY <2>1, Zenon DEF WokenOK
      <3> QED BY <2>e, <3>1, <3>2, Zenon DEF Woken
    <2>2. Woken(w)'
      <3>1. CASE wpc'[w] \notin {"coroutine", "switch_to", "spin"}
        <4>1. ctx'[w] = NULL
          BY <3>1, <1>WorkerWorkers, Zenon DEF WorkersOK
        <4> QED BY <3>1, <4>1, Zenon DEF Woken
      <3>2. CASE search_run(w)
        <4>1. PICK e \in first_wanted(w) :
                /\ consume_event(e)
                /\ woken_by_event' = [woken_by_event EXCEPT ![w] = e]
                /\ target' = [target EXCEPT ![w] = Tc(e)]
          BY <3>2, Zenon DEF search_run
        <4>2. e \in Events
          BY <4>1, FirstWanted, LInvFromIInv, Zenon
        <4>3. ~IsSignal(e) => el'[e] = NULL
          BY <2>t, <4>1, <4>2, ConsumeEventLists, LInvFromIInv, ZenonT(30)
        <4>4. wpc[w] = "search" /\ UNCHANGED ctx
          BY <3>2, Zenon DEF search_run, searching
        <4>5. ctx'[w] = NULL
          BY <4>4, Zenon DEF WorkersOK
        <4> QED BY <2>t, <4>1, <4>2, <4>3, <4>5, Zenon DEF Woken
      <3>3. CASE switch_to(w)
        BY <2>t, <3>3, Zenon DEF switch_to, WokenOK, Woken, listVars
      <3>4. CASE switch_in(w)
        <4> DEFINE t == target[w]
        <4>1. t \in Threads /\ pc[t] \in {"start", "parked"} /\ wpc[w] = "spin"
          BY <3>4, EnterFacts, Zenon DEF switch_in, may_enter
        <4>2. /\ ctx'[w] = t /\ wpc'[w] = "coroutine"
              /\ woken_by_event'[w] \in {NULL, woken_by_event[w]} /\ UNCHANGED el
          BY <2>t, <3>4, Zenon DEF switch_in, listVars
        <4> QED BY <2>0, <2>t, <4>1, <4>2, Zenon DEF WokenOK, Woken
      <3> QED BY <2>t, <3>1, <3>2, <3>3, <3>4, Zenon DEF worker, run_immediate, search_none, search_queue,
                 searching, search_exiting, tc_thread_free, epoll_immediate, epoll_timeout,
                 rearm_read, arm_immediate, pass_done, restart
    <2> QED BY <2>1, <2>2, Zenon DEF WokenOK
  \* A thread's woken_by_event is what tc_scheduler() found for it.
  <1>CoroutineWoken. ASSUME IInv, NEW w \in Workers, NEW t \in Threads, coroutine(w, t) PROVE WokenOK'
    <2> USE <1>CoroutineWoken
    <2> USE DEF IInv
    <2>t. /\ wpc \in [Workers -> WorkerPCs] /\ target \in [Workers -> Threads \cup {NULL}]
          /\ ctx \in [Workers -> Threads \cup {NULL}] /\ pc \in [Threads -> ThreadPCs]
          /\ woken_by_event \in [Workers -> Events \cup {NULL}]
          /\ el \in [Events -> Lists \cup {NULL}]
      BY Zenon DEF TypeOK
    <2>0. NULL \notin Threads \cup Workers \cup Events
      BY SchedAssumption, Zenon
    <2>f. /\ ctx[w] = t /\ pc[t] \notin OffPCs
          /\ \A u \in Threads \ {t} : pc'[u] = pc[u] \/ (pc[u] = "none" /\ pc'[u] = "start")
      BY CoroutineFrame, Zenon
    <2>u. \A v \in Workers : ctx[v] = t => v = w
      BY <2>f, SMTT(30) DEF WorkersOK
    <2>p. /\ UNCHANGED target
          /\ \A v \in Workers \ {w} :
               woken_by_event'[v] = woken_by_event[v] /\ ctx'[v] = ctx[v] /\ wpc'[v] = wpc[v]
      BY <2>t, ZenonT(30) DEF coroutine, call, test, tc_waitq_prepare_to_wait, prepare_to_wait, cond, tc_scheduler,
         switch_out, pass_done, tc_waitq_finish_wait, tc_sched_yield, yield_stack, yield_done,
         tc_waitq_wakeup, iwi_immediate, tc_signal_subscribe, tc_signal_unsubscribe,
         tc_thread_insert, tc_thread_new, tc_thread_wait, tc_die, die_wakeup, die_post, host
    <2>1. ASSUME NEW v \in Workers \ {w} PROVE Woken(v)'
      <3> DEFINE e == woken_by_event[v]
      <3>1. ASSUME e # NULL, ~IsSignal(e), el[e] = NULL,
                   \/ wpc[v] \in {"switch_to", "spin"} /\ Tc(e) = target[v]
                   \/ ctx[v] # NULL /\ Tc(e) = ctx[v]
            PROVE  el'[e] = NULL
        <4>1. e \in Events /\ Tc(e) \in Threads
          BY <2>t, <3>1, EventTc, Zenon
        <4>2. e \notin Adds(t)
          <5>1. CASE wpc[v] \in {"switch_to", "spin"} /\ Tc(e) = target[v]
            <6>1. pc[Tc(e)] \in {"start", "parked", "switch"} /\ Claims(v, Tc(e))
              BY <5>1, Zenon DEF ClaimsOK, Claims
            <6>2. TF_RUNNING[Tc(e)]
              BY <4>1, <6>1, Zenon DEF ClaimsOK, RunningFlagExact
            <6>3. pc[t] = "new_post" => ~TF_RUNNING[Arg(t)]
              BY Zenon DEF EventsOK
            <6>4. pc[t] \in {"prepare", "join", "yield", "subscribe", "die_post", "finish", "finish_true"} =>
                      Tc(e) # t
              BY <6>1, Zenon
            <6>5. Tc(Event(t)) = t /\ Tc(<<t, Arg(t)>>) = t /\ Tc(<<t, 0>>) = t /\ Tc(<<Arg(t), 0>>) = Arg(t)
              BY DEF Tc, Event
            <6> QED BY <6>2, <6>3, <6>4, <6>5, Zenon DEF Adds
          <5>2. CASE ctx[v] # NULL /\ Tc(e) = ctx[v]
            <6>1. Tc(e) # t /\ pc[Tc(e)] \notin OffPCs
              BY <2>u, <4>1, <5>2, Zenon DEF WorkersOK
            <6>2. pc[t] = "new_post" => pc[Arg(t)] = "start"
              BY Zenon DEF EventsOK
            <6> QED BY <3>1, <6>1, <6>2 DEF Adds, Tc, Event, OffPCs
          <5> QED BY <3>1, <5>1, <5>2, Zenon
        <4> QED BY <3>1, <4>1, <4>2, CoroutineAdded, Zenon
      <3>2. ctx[v] # NULL => pc'[ctx[v]] = pc[ctx[v]]
        <4>1. ctx[v] # NULL => ctx[v] \in Threads \ {t} /\ pc[ctx[v]] \notin OffPCs
          BY <2>t, <2>u DEF WorkersOK
        <4> QED BY <2>f, <4>1, ZenonT(30) DEF OffPCs
      <3> QED BY <2>p, <3>1, <3>2, ZenonT(30) DEF WokenOK, Woken
    <2>2. Woken(w)'
      <3>0. wpc[w] = "coroutine" /\ (woken_by_event[w] # NULL => Tc(woken_by_event[w]) = t)
        BY <2>0, <2>f, Zenon DEF WorkersOK, WokenOK, Woken
      <3>1. CASE switch_out(w, t)
        <4>1. ctx'[w] = NULL /\ wpc'[w] \in {"round", "search"}
          BY <2>t, <3>1, Zenon DEF switch_out, pass_done
        <4> QED BY <4>1, Zenon DEF Woken
      <3>2. CASE tc_scheduler(w, t)
        <4>0. UNCHANGED <<ctx, wpc>> /\ pc' = [pc EXCEPT ![t] = pc'[t]]
          BY <2>t, <3>2, Zenon DEF tc_scheduler, Goto
        <4>1. CASE UNCHANGED woken_by_event /\ pc'[t] = "switch"
          BY <2>f, <3>0, <4>0, <4>1, Zenon DEF Woken
        <4>2. CASE \E e \in pending_event(t) :
                     consume_event(e) /\ woken_by_event' = [woken_by_event EXCEPT ![w] = e]
          <5>1. PICK e \in pending_event(t) :
                     consume_event(e) /\ woken_by_event' = [woken_by_event EXCEPT ![w] = e]
            BY <4>2, Zenon
          <5>2. e \in Events /\ el[e] = Pending(t)
            BY <5>1, PendingEvent, LInvFromIInv, Zenon
          <5>3. Tc(e) = t
            BY <5>2, Zenon DEF EventsOK
          <5>4. ~IsSignal(e) => el'[e] = NULL
            BY <2>t, <5>1, <5>2, ConsumeEventLists, LInvFromIInv, Zenon
          <5> QED BY <2>f, <2>t, <3>0, <4>0, <5>1, <5>3, <5>4, Zenon DEF Woken
        <4> QED BY <2>t, <3>2, <4>1, <4>2, Zenon DEF tc_scheduler, Goto
      <3>3. CASE ~switch_out(w, t) /\ ~tc_scheduler(w, t)
        <4>1. /\ UNCHANGED <<ctx, wpc>>
              /\ woken_by_event'[w] \in {NULL, woken_by_event[w]}
          BY <2>t, <3>3, ZenonT(30) DEF coroutine, call, test, tc_waitq_prepare_to_wait, prepare_to_wait, cond,
             tc_waitq_finish_wait, tc_sched_yield, yield_stack, yield_done,
             tc_waitq_wakeup, iwi_immediate, tc_signal_subscribe, tc_signal_unsubscribe,
             tc_thread_insert, tc_thread_new, tc_thread_wait, tc_die, die_wakeup, die_post, host
        <4>2. pc'[t] \notin {"finish", "yield_done"}
          <5>1. ASSUME NEW l, Goto(t, l), l \notin {"finish", "yield_done"}
                PROVE  pc'[t] \notin {"finish", "yield_done"}
            BY <2>t, <5>1, Zenon DEF Goto
          <5>2. CASE call(w, t)
            <6>1. PICK c \in Call : Goto(t, first_pc[c[1]])
              BY <5>2, CallMade, Zenon DEF Goto
            <6>2. first_pc[c[1]] \notin {"finish", "yield_done"}
              BY FirstPC, Zenon
            <6> QED BY <5>1, <6>1, <6>2, Zenon
          <5>3. CASE tc_thread_insert(w, t)
            BY <2>t, <5>3, Zenon DEF tc_thread_insert
          <5>4. CASE Return(t)
            BY <5>1, <5>4, Zenon DEF Return
          <5>5. CASE test(w, t) \/ tc_waitq_prepare_to_wait(w, t) \/ cond(w, t)
                     \/ tc_waitq_finish_wait(w, t)
            BY <5>1, <5>4, <5>5, Zenon DEF test, tc_waitq_prepare_to_wait, prepared, cond,
               tc_waitq_finish_wait
          <5>6. CASE iwi_immediate(w, t)
            BY <5>1, <5>4, <5>6, Zenon DEF iwi_immediate
          <5> QED BY <3>3, <5>1, <5>2, <5>3, <5>4, <5>5, <5>6, Zenon DEF coroutine, tc_sched_yield,
                 yield_stack, yield_done, tc_waitq_wakeup, tc_signal_subscribe,
                 tc_signal_unsubscribe, tc_thread_new, tc_thread_wait, tc_die, die_wakeup, die_post
        <4> QED BY <2>f, <3>0, <4>1, <4>2, Zenon DEF Woken
      <3> QED BY <3>1, <3>2, <3>3, Zenon
    <2> QED BY <2>1, <2>2, Zenon DEF WokenOK
  \* LInv is ListsConsistent and types.
  <1>ListsFromLInv. ASSUME LInv' PROVE ListsConsistent'
    BY <1>ListsFromLInv, Zenon DEF LInv, LC, ListsConsistent
  <1> SUFFICES ASSUME IInv, [Next]_vars PROVE IInv'
    BY Zenon
  <1>1. ASSUME NEW w \in Workers, worker(w) PROVE IInv'
    BY <1>1, <1>ListsFromLInv, WorkerLists, <1>WorkerTypes, <1>WorkerCalls, <1>WorkerWorkers, WorkerClaims,
       <1>WorkerEvents, <1>WorkerWoken, Zenon DEF IInv
  <1>2. ASSUME NEW w \in Workers, NEW t \in Threads, coroutine(w, t) PROVE IInv'
    BY <1>2, <1>ListsFromLInv, <1>CoroutineLists, <1>CoroutineTypes, <1>CoroutineCalls, <1>CoroutineWorkers,
       <1>CoroutineClaims, CoroutineEvents, <1>CoroutineWoken, Zenon DEF IInv
  <1>3. CASE UNCHANGED vars
    <2> USE <1>3 DEF vars, parked, listVars, runVars, loopVars, fdVars, client, stkVars, IInv
    <2>1. TypeOK'
      BY Zenon DEF TypeOK
    <2>2. CallsOK'
      BY ZenonT(30) DEF CallsOK, CallOK, Depth, Op
    <2>3. WorkersOK'
      BY Zenon DEF WorkersOK
    <2>4. ListsConsistent'
      BY Zenon DEF ListsConsistent
    <2>5. EventsOK'
      BY Zenon DEF EventsOK, Depth, Arg
    <2>6. ClaimsOK'
      <3>1. \A w \in Workers, t \in Threads : Claims(w, t)' <=> Claims(w, t)
        BY Zenon DEF Claims
      <3>2. RunningFlagExact'
        BY <3>1, Zenon DEF ClaimsOK, RunningFlagExact
      <3> QED BY <3>1, <3>2, Zenon DEF ClaimsOK
    <2>7. WokenOK'
      BY Zenon DEF WokenOK, Woken
    <2> QED BY <2>1, <2>2, <2>3, <2>4, <2>5, <2>6, <2>7, ZenonT(30)
  <1> QED BY <1>1, <1>2, <1>3, Zenon DEF Next

\* The inductive invariant holds in every reachable state of the scheduler.
THEOREM Inductive == Spec => []IInv
  BY InitIInv, StepIInv, PTL DEF Spec

\* Every variable of the scheduler keeps its type, whatever the program does.
THEOREM TypeCorrect == Spec => []TypeOK
  <1>1. IInv => TypeOK
    BY Zenon DEF IInv
  <1> QED BY <1>1, Inductive, PTL

\* remove_event(), move_event(), the wakeups and the worker's search keep e->el,
\* the lists and immediate_count in step.
THEOREM ListsCorrect == Spec => []ListsConsistent
  <1>1. IInv => ListsConsistent
    BY Zenon DEF IInv
  <1> QED BY <1>1, Inductive, PTL

\* run_or_queue() can rely on TF_RUNNING.
THEOREM RunningFlagCorrect == Spec => []RunningFlagExact
  <1>1. IInv => RunningFlagExact
    BY Zenon DEF IInv, ClaimsOK
  <1> QED BY <1>1, Inductive, PTL

\* No two workers are ever on one coroutine's stack, and none is on a stack that
\* tc_thread_free() unmaps: TF_RUNNING, tc->running and the exit event suffice.
THEOREM StacksCorrect == Spec => []StackExclusive
  <1>1. IInv => StackExclusive
    BY Zenon DEF IInv, StackExclusive, ClaimsOK, WorkersOK
  <1> QED BY <1>1, Inductive, PTL

\* Only the worker that took the one-shot notification re-arms the eventfd, and
\* the counter it then reads is not zero.
THEOREM RearmCorrect == Spec => []RearmExclusive
  <1>1. Init => RearmExclusive
    BY Zenon DEF Init, RearmExclusive
  <1>2. IInv /\ RearmExclusive /\ [Next]_vars => RearmExclusive'
    <2> SUFFICES ASSUME IInv, RearmExclusive, [Next]_vars PROVE RearmExclusive'
      BY Zenon
    <2>0. wpc \in [Workers -> WorkerPCs] /\ efd \in BOOLEAN /\ armed \in BOOLEAN
      BY Zenon DEF IInv, TypeOK
    <2>1. ASSUME NEW w \in Workers, UNCHANGED armed, efd => efd',
                 \A v \in Workers : wpc'[v] = wpc[v] \/
                    {wpc[v], wpc'[v]} \cap {"rearm", "arm"} = {}
          PROVE  RearmExclusive'
      BY <2>0, <2>1, Zenon DEF RearmExclusive
    <2>2. ASSUME NEW w \in Workers, worker(w) PROVE RearmExclusive'
      <3>1. CASE epoll_immediate(w)
        BY <2>0, <3>1, Zenon DEF epoll_immediate, EPOLLONESHOT, RearmExclusive
      <3>2. CASE rearm_read(w)
        BY <2>0, <3>2, Zenon DEF rearm_read, RearmExclusive
      <3>3. CASE arm_immediate(w)
        BY <2>0, <3>3, Zenon DEF arm_immediate, restart, RearmExclusive
      <3>4. CASE run_immediate(w) \/ search_none(w) \/ search_queue(w) \/ search_run(w)
                 \/ search_exiting(w) \/ switch_to(w) \/ switch_in(w) \/ tc_thread_free(w)
                 \/ epoll_timeout(w)
        BY <2>0, <2>1, <3>4, Zenon DEF run_immediate, searching, search_none, search_queue, search_run,
           search_exiting, switch_to, switch_in, tc_thread_free, epoll_timeout, pass_done,
           restart, iwi_more_work, fdVars
      <3> QED BY <2>2, <3>1, <3>2, <3>3, <3>4, Zenon DEF worker
    <2>3. ASSUME NEW w \in Workers, NEW t \in Threads, coroutine(w, t) PROVE RearmExclusive'
      <3>1. UNCHANGED armed /\ (efd => efd')
        <4>1. CASE iwi_immediate(w, t)
          BY <4>1, Zenon DEF iwi_immediate, host
        <4>2. CASE tc_scheduler(w, t) \/ switch_out(w, t)
          <5>1. UNCHANGED fdVars
            BY <4>2, Zenon DEF tc_scheduler, switch_out
          <5> QED BY <5>1, Zenon DEF fdVars
        <4>3. CASE UNCHANGED efd /\ UNCHANGED host
          BY <4>3, Zenon DEF host
        <4> QED BY <2>3, <4>1, <4>2, <4>3, Zenon DEF coroutine, call, test, tc_waitq_prepare_to_wait,
           cond, tc_waitq_finish_wait, tc_sched_yield, yield_stack, yield_done,
           tc_waitq_wakeup, tc_signal_subscribe, tc_signal_unsubscribe,
           tc_thread_insert, tc_thread_new, tc_thread_wait, tc_die, die_wakeup, die_post
      <3>2. CASE switch_out(w, t)
        <4>1. wpc[w] = "coroutine"
          BY <3>2, SchedAssumption DEF switch_out, IInv, WorkersOK
        <4> QED BY <2>0, <2>1, <3>1, <3>2, <4>1, Zenon DEF switch_out, pass_done
      <3>3. CASE ~switch_out(w, t)
        <4>1. UNCHANGED wpc
          BY <2>3, <3>3, Zenon DEF coroutine, call, test, tc_waitq_prepare_to_wait, cond, tc_scheduler,
             tc_waitq_finish_wait, tc_sched_yield, yield_stack, yield_done,
             tc_waitq_wakeup, iwi_immediate, tc_signal_subscribe, tc_signal_unsubscribe,
             tc_thread_insert, tc_thread_new, tc_thread_wait, tc_die, die_wakeup, die_post, host
        <4> QED BY <2>1, <3>1, <4>1, Zenon
      <3> QED BY <3>2, <3>3, Zenon
    <2>4. CASE UNCHANGED vars
      BY <2>4, Zenon DEF vars, fdVars, RearmExclusive
    <2> QED BY <2>2, <2>3, <2>4, Zenon DEF Next
  <1> QED BY <1>1, <1>2, Inductive, PTL DEF Spec
=============================================================================
