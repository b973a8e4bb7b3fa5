----------------------------- MODULE SleepProofs ----------------------------
(***************************************************************************)
(* tc_sleep(): the list of the sleepers, the one master and how it hands   *)
(* over, and that nobody returns early, for any number of threads and any  *)
(* length of a second and of the naps.                                     *)
(***************************************************************************)
EXTENDS TcSleep, WaitqFacts, WellFoundedInduction

-----------------------------------------------------------------------------
(* Times. *)

\* Seconds and nanoseconds of a time.
LEMMA Division ==
    ASSUME NEW a \in Nat
    PROVE  /\ a \div NSEC \in Nat /\ a % NSEC \in 0..(NSEC - 1)
           /\ (a \div NSEC) * NSEC + (a % NSEC) = a
  <1>1. NSEC \in Nat /\ NSEC > 0
    BY SleepAssumption
  <1>2. a % NSEC \in 0..(NSEC - 1)
    BY <1>1
  <1>3. a \div NSEC \in Int /\ a \div NSEC >= 0
    BY <1>1
  <1>4. a = NSEC * (a \div NSEC) + (a % NSEC)
    BY <1>1
  <1>5. (a \div NSEC) * NSEC = NSEC * (a \div NSEC)
    BY <1>1, <1>3
  <1> QED BY <1>2, <1>3, <1>4, <1>5

\* Multiplication by NSEC is monotone, and distributes.
LEMMA Products ==
    ASSUME NEW a \in Nat, NEW b \in Nat
    PROVE  /\ a * NSEC \in Nat /\ (a + b) * NSEC = a * NSEC + b * NSEC
           /\ a < b => a * NSEC + NSEC <= b * NSEC
  <1>1. NSEC \in Nat /\ NSEC > 0
    BY SleepAssumption
  <1>2. (a + b) * NSEC = a * NSEC + b * NSEC
    BY <1>1
  <1>3. ASSUME a < b PROVE a * NSEC + NSEC <= b * NSEC
    <2>1. PICK c \in Nat : b = a + 1 + c
      <3>1. b - a - 1 \in Nat /\ b = a + 1 + (b - a - 1)
        BY <1>3
      <3> QED BY <3>1
    <2>2. b * NSEC = a * NSEC + NSEC + c * NSEC
      BY <1>1, <2>1
    <2>3. c * NSEC >= 0
      BY <1>1
    <2> QED BY <1>1, <2>2, <2>3
  <1>4. a * NSEC \in Nat
    BY <1>1
  <1> QED BY <1>2, <1>3, <1>4

\* clock is now.
LEMMA ClockIsNow ==
    ASSUME now \in Nat
    PROVE  clock \in Nat \X (0..(NSEC - 1)) /\ Instant(clock) = now
  <1>1. now \div NSEC \in Nat /\ now % NSEC \in 0..(NSEC - 1)
        /\ (now \div NSEC) * NSEC + (now % NSEC) = now
    BY Division
  <1> QED BY <1>1 DEF clock, Instant

\* The normalisation does not change the time, and leaves at most a second in tv_nsec.
LEMMA NormalisedIsSame ==
    ASSUME NEW a \in Nat \X Nat
    PROVE  normalised(a) \in Nat \X (0..NSEC) /\ Instant(normalised(a)) = Instant(a)
  <1>1. NSEC \in Nat /\ NSEC > 0 /\ a[1] \in Nat /\ a[2] \in Nat /\ a = <<a[1], a[2]>>
    BY SleepAssumption
  <1>2. CASE a[2] > NSEC
    <2> DEFINE n == (a[2] - 1) \div NSEC
               m == (a[2] - 1) % NSEC
    <2>1. a[2] - 1 \in Nat
      BY <1>1, <1>2
    <2>2. n \in Nat /\ m \in 0..(NSEC - 1) /\ n * NSEC + m = a[2] - 1
      BY <2>1, Division
    <2>3. normalised(a) = <<a[1] + n, a[2] - n * NSEC>>
      BY <1>2, Zenon DEF normalised
    <2> HIDE DEF n, m
    <2>4. n * NSEC \in Nat /\ (a[1] + n) * NSEC = a[1] * NSEC + n * NSEC /\ a[1] * NSEC \in Nat
      BY <1>1, <2>2, Products
    <2>5. a[2] - n * NSEC \in 0..NSEC
      BY <1>1, <2>2, <2>4
    <2>6. normalised(a) \in Nat \X (0..NSEC)
      BY <1>1, <2>2, <2>3, <2>5
    <2>7. Instant(normalised(a)) = (a[1] + n) * NSEC + (a[2] - n * NSEC)
      BY <2>3 DEF Instant
    <2>8. (a[1] + n) * NSEC + (a[2] - n * NSEC) = a[1] * NSEC + a[2]
      BY <1>1, <2>4
    <2> QED BY <2>6, <2>7, <2>8, Zenon DEF Instant
  <1>3. CASE ~(a[2] > NSEC)
    <2>1. normalised(a) = <<a[1] + 0, a[2] - 0 * NSEC>>
      BY <1>3, Zenon DEF normalised
    <2>2. normalised(a) = a
      BY <1>1, <2>1
    <2> QED BY <1>1, <1>3, <2>2
  <1> QED BY <1>2, <1>3

\* A time that compare_ts_times() does not find later than the clock has come.
LEMMA NotLater ==
    ASSUME now \in Nat, NEW a \in Nat \X (0..NSEC), ~Earlier(clock, a)
    PROVE  now >= Instant(a)
  <1>1. NSEC \in Nat /\ NSEC > 0 /\ a[1] \in Nat /\ a[2] \in 0..NSEC
    BY SleepAssumption
  <1>2. PICK c1 \in Nat, c2 \in 0..(NSEC - 1) : clock = <<c1, c2>>
    BY ClockIsNow
  <1>3. now = c1 * NSEC + c2
    BY <1>2, ClockIsNow DEF Instant
  <1>4. a[1] < c1 \/ (a[1] = c1 /\ a[2] <= c2)
    BY <1>1, <1>2 DEF Earlier
  <1>5. a[1] * NSEC \in Nat /\ c1 * NSEC \in Nat /\ (a[1] < c1 => a[1] * NSEC + NSEC <= c1 * NSEC)
    BY <1>1, <1>2, Products
  <1>6. CASE a[1] < c1
    BY <1>1, <1>2, <1>3, <1>5, <1>6 DEF Instant
  <1>7. CASE a[1] = c1 /\ a[2] <= c2
    BY <1>1, <1>2, <1>3, <1>5, <1>7 DEF Instant
  <1> QED BY <1>4, <1>6, <1>7

-----------------------------------------------------------------------------
(* The list. *)

\* A set of natural numbers that is not empty has a least element.
LEMMA LeastNat ==
    ASSUME NEW T, T \subseteq Nat, T # {}
    PROVE  \E x \in T : \A y \in T : x <= y
  <1> DEFINE R == {ss \in Nat \X Nat : ss[1] < ss[2]}
  <1>1. IsWellFoundedOn(R, Nat)
    BY NatLessThanWellFounded, Zenon DEF OpToRel
  <1> HIDE DEF R
  <1>2. PICK x \in T : \A y \in T : ~(<<y, x>> \in R)
    BY <1>1, WFMin, Zenon
  <1>3. ASSUME NEW y \in T PROVE x <= y
    <2>1. x \in Nat /\ y \in Nat /\ ~(<<y, x>> \in R)
      BY <1>2, Zenon
    <2>2. ~(y < x)
      BY <2>1 DEF R
    <2> QED BY <2>1, <2>2
  <1> QED BY <1>3, Zenon

\* Min() of a set of positions is the least of them.
LEMMA MinOf ==
    ASSUME NEW T, T \subseteq Nat, T # {}
    PROVE  Min(T) \in T /\ \A y \in T : Min(T) <= y
  <1>1. \E x \in T : \A y \in T : x <= y
    BY LeastNat, Zenon
  <1> QED BY <1>1, Zenon DEF Min

\* The ends e of the threads on s do not decrease.
Ordered(s, e) == \A i, j \in 1..Len(s) : i < j => ~Earlier(e[s[j]], e[s[i]])

\* The elements of RemoveAt(s, i) and InsertAt(s, i, t), by position.
LEMMA RemoveAtElements ==
    ASSUME NEW s \in Seq(Threads), NEW i \in 1..Len(s)
    PROVE  LET r == RemoveAt(s, i) IN
           /\ r \in Seq(Threads) /\ Len(r) = Len(s) - 1
           /\ \A j \in 1..(Len(s) - 1) : r[j] = IF j < i THEN s[j] ELSE s[j + 1]
  <1> DEFINE a == SubSeq(s, 1, i - 1)
             b == SubSeq(s, i + 1, Len(s))
             r == RemoveAt(s, i)
  <1>1. a \in Seq(Threads) /\ Len(a) = i - 1 /\ \A j \in 1..(i - 1) : a[j] = s[j]
    OBVIOUS
  <1>2. b \in Seq(Threads) /\ Len(b) = Len(s) - i /\ \A j \in 1..(Len(s) - i) : b[j] = s[i + j]
    OBVIOUS
  <1>3. r = a \o b
    BY Zenon DEF RemoveAt
  <1>4. /\ a \o b \in Seq(Threads) /\ Len(a \o b) = Len(a) + Len(b)
        /\ \A j \in 1..(Len(a) + Len(b)) :
              (a \o b)[j] = IF j <= Len(a) THEN a[j] ELSE b[j - Len(a)]
    BY <1>1, <1>2, Concat, Zenon
  <1> HIDE DEF a, b, r
  <1>5. ASSUME NEW j \in 1..(Len(s) - 1) PROVE r[j] = IF j < i THEN s[j] ELSE s[j + 1]
    <2>1. CASE j < i
      BY <1>1, <1>2, <1>3, <1>4, <2>1
    <2>2. CASE ~(j < i)
      <3>1. j - (i - 1) \in 1..(Len(s) - i) /\ i + (j - (i - 1)) = j + 1
        BY <2>2
      <3>2. r[j] = b[j - (i - 1)]
        BY <1>1, <1>2, <1>3, <1>4, <2>2
      <3> QED BY <1>2, <2>2, <3>1, <3>2
    <2> QED BY <2>1, <2>2, Zenon
  <1>6. r \in Seq(Threads) /\ Len(r) = Len(s) - 1
    BY <1>1, <1>2, <1>3, <1>4
  <1> QED BY <1>5, <1>6, Zenon DEF r

\* r is s with t at the position i.
Inserted(r, s, i, t) ==
    /\ r \in Seq(Threads) /\ Len(r) = Len(s) + 1
    /\ r[i] = t
    /\ \A j \in 1..(Len(s) + 1) : (j < i => r[j] = s[j]) /\ (j > i => r[j] = s[j - 1])

LEMMA InsertAtElements ==
    ASSUME NEW s \in Seq(Threads), NEW i \in 1..(Len(s) + 1), NEW t \in Threads
    PROVE  Inserted(InsertAt(s, i, t), s, i, t)
  <1>0. PICK r : r = InsertAt(s, i, t)
    BY Zenon
  <1> DEFINE a == SubSeq(s, 1, i - 1)
             b == SubSeq(s, i, Len(s))
             c == a \o <<t>>
  <1>1. a \in Seq(Threads) /\ Len(a) = i - 1 /\ \A j \in 1..(i - 1) : a[j] = s[j]
    OBVIOUS
  <1>2. /\ b \in Seq(Threads) /\ Len(b) = Len(s) - i + 1
        /\ \A j \in 1..(Len(s) - i + 1) : b[j] = s[i + j - 1]
    OBVIOUS
  <1>3. <<t>> \in Seq(Threads) /\ Len(<<t>>) = 1 /\ <<t>>[1] = t
    OBVIOUS
  <1>4. r = c \o b
    BY <1>0, Zenon DEF InsertAt
  <1> HIDE DEF a, b
  <1>5. /\ c \in Seq(Threads) /\ Len(c) = Len(a) + 1
        /\ \A j \in 1..(Len(a) + 1) : c[j] = IF j <= Len(a) THEN a[j] ELSE <<t>>[j - Len(a)]
    BY <1>1, <1>3, Concat
  <1>6. c[i] = t /\ \A j \in 1..(i - 1) : c[j] = s[j]
    <2>1. c[i] = <<t>>[i - Len(a)] /\ i - Len(a) = 1
      BY <1>1, <1>5
    <2>2. \A j \in 1..(i - 1) : c[j] = s[j]
      BY <1>1, <1>5
    <2> QED BY <1>3, <2>1, <2>2
  <1> HIDE DEF c
  <1>7. /\ c \o b \in Seq(Threads) /\ Len(c \o b) = Len(c) + Len(b)
        /\ \A j \in 1..(Len(c) + Len(b)) :
              (c \o b)[j] = IF j <= Len(c) THEN c[j] ELSE b[j - Len(c)]
    BY <1>2, <1>5, Concat, Zenon
  <1>8. Len(c) = i /\ Len(c) + Len(b) = Len(s) + 1
    BY <1>1, <1>2, <1>5
  <1>9. ASSUME NEW j \in 1..(Len(s) + 1)
        PROVE  (j < i => r[j] = s[j]) /\ (j = i => r[j] = t) /\ (j > i => r[j] = s[j - 1])
    <2>1. CASE j < i
      <3>1. r[j] = c[j] /\ j \in 1..(i - 1)
        BY <1>4, <1>7, <1>8, <2>1
      <3> QED BY <1>6, <2>1, <3>1
    <2>2. CASE j = i
      <3>1. r[j] = c[j]
        BY <1>4, <1>7, <1>8, <2>2
      <3> QED BY <1>6, <2>2, <3>1
    <2>3. CASE j > i
      <3>1. j - i \in 1..(Len(s) - i + 1) /\ i + (j - i) - 1 = j - 1
        BY <2>3
      <3>2. r[j] = b[j - i]
        BY <1>4, <1>7, <1>8, <2>3
      <3> QED BY <1>2, <2>3, <3>1, <3>2
    <2> QED BY <2>1, <2>2, <2>3
  <1>10. r \in Seq(Threads) /\ Len(r) = Len(s) + 1
    BY <1>4, <1>7, <1>8, Zenon
  <1> QED BY <1>0, <1>9, <1>10, Zenon DEF Inserted

\* A list without t, in the order it had.
LEMMA RemoveOrdered ==
    ASSUME NEW s \in Seq(Threads), NEW e, Ordered(s, e), NEW t \in Threads
    PROVE  Ordered(RemoveFirst(s, t), e)
  <1>1. CASE Contains(s, t)
    <2> DEFINE i == CHOOSE i \in 1..Len(s) : s[i] = t
    <2>1. i \in 1..Len(s)
      BY <1>1, Zenon DEF Contains
    <2>2. RemoveFirst(s, t) = RemoveAt(s, i)
      BY <1>1, Zenon DEF RemoveFirst
    <2> HIDE DEF i
    <2>3. PICK r : r = RemoveAt(s, i)
      BY Zenon
    <2>4. /\ Len(r) = Len(s) - 1
          /\ \A j \in 1..(Len(s) - 1) : r[j] = IF j < i THEN s[j] ELSE s[j + 1]
      BY <2>1, <2>3, RemoveAtElements, Zenon
    <2>5. ASSUME NEW j \in 1..Len(r), NEW k \in 1..Len(r), j < k
          PROVE  ~Earlier(e[r[k]], e[r[j]])
      <3> DEFINE at(m) == IF m < i THEN m ELSE m + 1
      <3>1. /\ at(j) \in 1..Len(s) /\ at(k) \in 1..Len(s) /\ at(j) < at(k)
            /\ r[j] = s[at(j)] /\ r[k] = s[at(k)]
        BY <2>1, <2>4, <2>5
      <3> QED BY <3>1, Zenon DEF Ordered
    <2> QED BY <2>2, <2>3, <2>5, Zenon DEF Ordered
  <1>2. CASE ~Contains(s, t)
    BY <1>2, Zenon DEF RemoveFirst
  <1> QED BY <1>1, <1>2, Zenon

\* What is left of a list without its first n elements.
LEMMA Suffix ==
    ASSUME NEW s \in Seq(Threads), IsInjective(s), NEW e, Ordered(s, e), NEW n \in 0..Len(s)
    PROVE  LET r == SubSeq(s, n + 1, Len(s)) IN
           /\ r \in Seq(Threads) /\ IsInjective(r) /\ Ordered(r, e)
           /\ \A x : Contains(r, x) <=> Contains(s, x) /\ x \notin {s[i] : i \in 1..n}
  <1> DEFINE r == SubSeq(s, n + 1, Len(s))
  <1>1. r \in Seq(Threads) /\ Len(r) = Len(s) - n /\ \A j \in 1..(Len(s) - n) : r[j] = s[n + j]
    OBVIOUS
  <1> HIDE DEF r
  <1>2. DOMAIN r = 1..(Len(s) - n) /\ DOMAIN s = 1..Len(s)
    BY <1>1
  <1>3. IsInjective(r)
    <2> SUFFICES ASSUME NEW i \in 1..(Len(s) - n), NEW j \in 1..(Len(s) - n), r[i] = r[j]
                 PROVE  i = j
      BY <1>2, Zenon DEF IsInjective
    <2>1. n + i \in DOMAIN s /\ n + j \in DOMAIN s /\ s[n + i] = s[n + j]
      BY <1>1, <1>2
    <2>2. n + i = n + j
      BY <2>1, Zenon DEF IsInjective
    <2> QED BY <2>2
  <1>4. Ordered(r, e)
    <2> SUFFICES ASSUME NEW i \in 1..Len(r), NEW j \in 1..Len(r), i < j
                 PROVE  ~Earlier(e[r[j]], e[r[i]])
      BY Zenon DEF Ordered
    <2>1. /\ n + i \in 1..Len(s) /\ n + j \in 1..Len(s) /\ n + i < n + j
          /\ r[i] = s[n + i] /\ r[j] = s[n + j]
      BY <1>1
    <2> QED BY <2>1, Zenon DEF Ordered
  <1>5. ASSUME NEW x, Contains(r, x) PROVE Contains(s, x) /\ x \notin {s[i] : i \in 1..n}
    <2>1. PICK j \in 1..(Len(s) - n) : r[j] = x
      BY <1>1, <1>5 DEF Contains
    <2>2. n + j \in 1..Len(s) /\ s[n + j] = x
      BY <1>1, <2>1
    <2>3. ASSUME NEW i \in 1..n, s[i] = x PROVE FALSE
      <3>1. i \in DOMAIN s /\ n + j \in DOMAIN s /\ i # n + j
        BY <1>2
      <3> QED BY <2>2, <2>3, <3>1, Zenon DEF IsInjective
    <2> QED BY <2>2, <2>3, Zenon DEF Contains
  <1>6. ASSUME NEW x, Contains(s, x), x \notin {s[i] : i \in 1..n} PROVE Contains(r, x)
    <2>1. PICK j \in 1..Len(s) : s[j] = x
      BY <1>6, Zenon DEF Contains
    <2>2. ~(j \in 1..n)
      BY <1>6, <2>1, Zenon
    <2>3. j - n \in 1..(Len(s) - n) /\ r[j - n] = x
      BY <1>1, <2>1, <2>2
    <2> QED BY <1>1, <2>3, Zenon DEF Contains
  <1> QED BY <1>1, <1>3, <1>4, <1>5, <1>6, Zenon DEF r

\* Only the ends of the threads on the list matter.
LEMMA SameEnds ==
    ASSUME NEW s \in Seq(Threads), NEW e, NEW f, Ordered(s, e),
           \A u \in Threads : Contains(s, u) => f[u] = e[u]
    PROVE  Ordered(s, f)
  <1>1. \A i \in 1..Len(s) : s[i] \in Threads /\ Contains(s, s[i])
    BY DEF Contains
  <1>2. \A i \in 1..Len(s) : f[s[i]] = e[s[i]]
    BY <1>1, Zenon
  <1> QED BY <1>2, Zenon DEF Ordered

\* compare_ts_times() orders the ends.
LEMMA EarlierOrder ==
    ASSUME NEW a \in Nat \X Nat, NEW b \in Nat \X Nat, NEW c \in Nat \X Nat, Earlier(a, b)
    PROVE  ~Earlier(b, a) /\ (Earlier(b, c) => Earlier(a, c))
  <1>1. a[1] \in Nat /\ a[2] \in Nat /\ b[1] \in Nat /\ b[2] \in Nat /\ c[1] \in Nat /\ c[2] \in Nat
    OBVIOUS
  <1> QED BY <1>1 DEF Earlier

\* place(t): behind all that do not end later, before one that does.
LEMMA PlaceOf ==
    ASSUME timer_list \in Seq(Threads), NEW t
    PROVE  /\ place(t) \in 1..(Len(timer_list) + 1)
           /\ place(t) <= Len(timer_list) => Earlier(abs_end[t], abs_end[timer_list[place(t)]])
           /\ \A j \in 1..Len(timer_list) : j < place(t) => ~Earlier(abs_end[t], abs_end[timer_list[j]])
  <1>0. PICK i : i = place(t)
    BY Zenon
  <1>1. DOMAIN timer_list = 1..Len(timer_list) /\ Len(timer_list) \in Nat
    OBVIOUS
  <1>2. PICK L : L = {j \in DOMAIN timer_list : Earlier(abs_end[t], abs_end[timer_list[j]])}
    BY Zenon
  <1>3. \A j : j \in L <=> j \in 1..Len(timer_list) /\ Earlier(abs_end[t], abs_end[timer_list[j]])
    BY <1>1, <1>2, Zenon
  <1>4. L \cup {Len(timer_list) + 1} \subseteq Nat /\ L \cup {Len(timer_list) + 1} # {}
    BY <1>1, <1>3
  <1>5. Min(L \cup {Len(timer_list) + 1}) \in L \cup {Len(timer_list) + 1}
        /\ \A j \in L \cup {Len(timer_list) + 1} : Min(L \cup {Len(timer_list) + 1}) <= j
    BY <1>4, MinOf, Zenon
  <1>6. (i \in L \/ i = Len(timer_list) + 1) /\ i <= Len(timer_list) + 1 /\ \A j \in L : i <= j
    BY <1>0, <1>2, <1>5, Zenon DEF place
  <1>7. i \in 1..(Len(timer_list) + 1)
    BY <1>1, <1>3, <1>6
  <1>8. ASSUME i <= Len(timer_list) PROVE Earlier(abs_end[t], abs_end[timer_list[i]])
    <2>1. i # Len(timer_list) + 1
      BY <1>1, <1>8
    <2> QED BY <1>3, <1>6, <2>1, Zenon
  <1>9. ASSUME NEW j \in 1..Len(timer_list), j < i PROVE ~Earlier(abs_end[t], abs_end[timer_list[j]])
    <2>1. ~(i <= j)
      BY <1>1, <1>7, <1>9
    <2> QED BY <1>3, <1>6, <2>1, Zenon
  <1> QED BY <1>0, <1>7, <1>8, <1>9, Zenon

LEMMA ElementsOf ==
    ASSUME NEW s \in Seq(Threads) PROVE \A j \in 1..Len(s) : s[j] \in Threads
  OBVIOUS

\* Where the elements of InsertAt(s, i, t) at two positions come from.
Shifted(r, s, i, t, j, k) ==
    \/ \E m, n \in 1..Len(s) : m < n /\ r[j] = s[m] /\ r[k] = s[n]
    \/ k = i /\ j \in 1..Len(s) /\ r[j] = s[j] /\ r[k] = t
    \/ j = i /\ i \in 1..Len(s) /\ r[j] = t /\ \E n \in 1..Len(s) : i <= n /\ r[k] = s[n]

LEMMA InsertPositions ==
    ASSUME NEW s \in Seq(Threads), NEW i \in 1..(Len(s) + 1), NEW t \in Threads,
           NEW r, Inserted(r, s, i, t)
    PROVE  \A j, k \in 1..(Len(s) + 1) : j < k => Shifted(r, s, i, t, j, k)
  <1> SUFFICES ASSUME NEW j \in 1..(Len(s) + 1), NEW k \in 1..(Len(s) + 1), j < k
               PROVE  Shifted(r, s, i, t, j, k)
    BY Zenon
  <1>1. /\ r[i] = t
        /\ \A m \in 1..(Len(s) + 1) : (m < i => r[m] = s[m]) /\ (m > i => r[m] = s[m - 1])
    BY Zenon DEF Inserted
  <1>2. CASE k < i
    <2>1. j \in 1..Len(s) /\ k \in 1..Len(s) /\ r[j] = s[j] /\ r[k] = s[k]
      BY <1>1, <1>2
    <2> QED BY <2>1, Zenon DEF Shifted
  <1>3. CASE k = i
    <2>1. j \in 1..Len(s) /\ r[j] = s[j] /\ r[k] = t
      BY <1>1, <1>3
    <2> QED BY <1>3, <2>1, Zenon DEF Shifted
  <1>4. CASE j < i /\ i < k
    <2>1. j \in 1..Len(s) /\ k - 1 \in 1..Len(s) /\ j < k - 1 /\ r[j] = s[j] /\ r[k] = s[k - 1]
      BY <1>1, <1>4
    <2> QED BY <2>1, Zenon DEF Shifted
  <1>5. CASE j = i
    <2>1. i \in 1..Len(s) /\ r[j] = t /\ k - 1 \in 1..Len(s) /\ i <= k - 1 /\ r[k] = s[k - 1]
      BY <1>1, <1>5
    <2> QED BY <1>5, <2>1, Zenon DEF Shifted
  <1>6. CASE i < j
    <2>1. /\ j - 1 \in 1..Len(s) /\ k - 1 \in 1..Len(s) /\ j - 1 < k - 1
          /\ r[j] = s[j - 1] /\ r[k] = s[k - 1]
      BY <1>1, <1>6
    <2> QED BY <2>1, Zenon DEF Shifted
  <1>7. k < i \/ k = i \/ (j < i /\ i < k) \/ j = i \/ i < j
    OBVIOUS
  <1> QED BY <1>2, <1>3, <1>4, <1>5, <1>6, <1>7, Zenon

\* Insertion adds t and nobody else.
LEMMA InsertOne ==
    ASSUME NEW s \in Seq(Threads), IsInjective(s), NEW t \in Threads, ~Contains(s, t),
           NEW i \in 1..(Len(s) + 1), NEW r, Inserted(r, s, i, t)
    PROVE  /\ r \in Seq(Threads) /\ IsInjective(r) /\ Len(r) = Len(s) + 1
           /\ \A x : Contains(r, x) <=> Contains(s, x) \/ x = t
           /\ r # <<>> /\ (Head(r) = t \/ (s # <<>> /\ Head(r) = Head(s)))
  <1>1. DOMAIN s = 1..Len(s) /\ Len(s) \in Nat
    OBVIOUS
  <1>2. /\ r \in Seq(Threads) /\ Len(r) = Len(s) + 1 /\ r[i] = t
        /\ \A j \in 1..(Len(s) + 1) : (j < i => r[j] = s[j]) /\ (j > i => r[j] = s[j - 1])
    BY Zenon DEF Inserted
  <1>3. \A j \in 1..Len(s) : s[j] # t
    BY Zenon DEF Contains
  <1>p. \A j, k \in 1..(Len(s) + 1) : j < k => Shifted(r, s, i, t, j, k)
    BY InsertPositions, Zenon
  <1>4. ASSUME NEW j \in 1..(Len(s) + 1), NEW k \in 1..(Len(s) + 1), j < k PROVE r[j] # r[k]
    <2>1. \A m, n \in 1..Len(s) : m < n => s[m] # s[n]
      <3> SUFFICES ASSUME NEW m \in 1..Len(s), NEW n \in 1..Len(s), m < n, s[m] = s[n] PROVE FALSE
        BY Zenon
      <3>1. m = n
        BY <1>1, Zenon DEF IsInjective
      <3> QED BY <3>1
    <2>2. Shifted(r, s, i, t, j, k)
      BY <1>4, <1>p, Zenon
    <2> QED BY <1>3, <2>1, <2>2, Zenon DEF Shifted
  <1>5. IsInjective(r)
    <2> SUFFICES ASSUME NEW j \in 1..(Len(s) + 1), NEW k \in 1..(Len(s) + 1), r[j] = r[k], j # k
                 PROVE  FALSE
      BY <1>2 DEF IsInjective
    <2>1. j < k \/ k < j
      OBVIOUS
    <2> QED BY <1>4, <2>1, Zenon
  <1>6. ASSUME NEW x, Contains(s, x) PROVE Contains(r, x)
    <2>1. PICK j \in 1..Len(s) : s[j] = x
      BY <1>6, Zenon DEF Contains
    <2>2. CASE j < i
      <3>1. j \in 1..Len(r) /\ r[j] = x
        BY <1>1, <1>2, <2>1, <2>2
      <3> QED BY <3>1, Zenon DEF Contains
    <2>3. CASE ~(j < i)
      <3>1. j + 1 \in 1..Len(r) /\ r[j + 1] = s[(j + 1) - 1] /\ (j + 1) - 1 = j
        BY <1>1, <1>2, <2>3
      <3> QED BY <2>1, <3>1, Zenon DEF Contains
    <2> QED BY <2>2, <2>3, Zenon
  <1>7. Contains(r, t)
    <2>1. i \in 1..Len(r) /\ r[i] = t
      BY <1>1, <1>2
    <2> QED BY <2>1, Zenon DEF Contains
  <1>8. ASSUME NEW x, Contains(r, x), x # t PROVE Contains(s, x)
    <2>1. PICK j \in 1..(Len(s) + 1) : r[j] = x
      BY <1>2, <1>8, Zenon DEF Contains
    <2>2. CASE j < i
      <3>1. j \in 1..Len(s) /\ s[j] = x
        BY <1>1, <1>2, <2>1, <2>2
      <3> QED BY <3>1, Zenon DEF Contains
    <2>3. CASE ~(j < i)
      <3>1. j # i
        BY <1>2, <1>8, <2>1
      <3>2. j - 1 \in 1..Len(s) /\ s[j - 1] = x
        BY <1>1, <1>2, <2>1, <2>3, <3>1
      <3> QED BY <3>2, Zenon DEF Contains
    <2> QED BY <2>2, <2>3, Zenon
  <1>9. r # <<>> /\ (Head(r) = t \/ (s # <<>> /\ Head(r) = Head(s)))
    <2>1. r # <<>> /\ Head(r) = r[1]
      BY <1>1, <1>2
    <2>2. CASE i = 1
      BY <1>2, <2>1, <2>2
    <2>3. CASE i # 1
      <3>1. s # <<>> /\ r[1] = s[1] /\ Head(s) = s[1]
        BY <1>1, <1>2, <2>3
      <3> QED BY <2>1, <3>1, ZenonT(30)
    <2> QED BY <2>2, <2>3, Zenon
  <1> QED BY <1>2, <1>5, <1>6, <1>7, <1>8, <1>9, Zenon

\* insert_into_timer_list() keeps the order.
LEMMA InsertOrdered ==
    ASSUME NEW s \in Seq(Threads), NEW e \in [Threads -> Nat \X Nat], Ordered(s, e),
           NEW t \in Threads, NEW i \in 1..(Len(s) + 1), NEW r, Inserted(r, s, i, t),
           i <= Len(s) => Earlier(e[t], e[s[i]]),
           \A j \in 1..Len(s) : j < i => ~Earlier(e[t], e[s[j]])
    PROVE  Ordered(r, e)
  <1>1. \A j \in 1..Len(s) : s[j] \in Threads /\ e[s[j]] \in Nat \X Nat
    BY ElementsOf, Zenon
  <1>2. Len(r) = Len(s) + 1
    BY Zenon DEF Inserted
  <1>3. \A m, n \in 1..Len(s) : m < n => ~Earlier(e[s[n]], e[s[m]])
    BY Zenon DEF Ordered
  <1>p. \A j, k \in 1..(Len(s) + 1) : j < k => Shifted(r, s, i, t, j, k)
    BY InsertPositions, Zenon
  <1>4. ASSUME NEW j \in 1..(Len(s) + 1), NEW k \in 1..(Len(s) + 1), j < k
        PROVE  ~Earlier(e[r[k]], e[r[j]])
    <2>1. CASE \E m, n \in 1..Len(s) : m < n /\ r[j] = s[m] /\ r[k] = s[n]
      BY <1>3, <2>1, Zenon
    <2>2. CASE k = i /\ j \in 1..Len(s) /\ r[j] = s[j] /\ r[k] = t
      BY <1>4, <2>2, Zenon
    <2>3. CASE j = i /\ i \in 1..Len(s) /\ r[j] = t /\ \E n \in 1..Len(s) : i <= n /\ r[k] = s[n]
      <3>1. PICK n \in 1..Len(s) : i <= n /\ r[k] = s[n]
        BY <2>3, Zenon
      <3>2. e[t] \in Nat \X Nat /\ e[s[i]] \in Nat \X Nat /\ e[s[n]] \in Nat \X Nat
        BY <1>1, <2>3, Zenon
      <3>3. i <= Len(s) /\ (i < n \/ i = n)
        <4>1. i <= Len(s)
          BY <2>3
        <4>2. i < n \/ i = n
          BY <3>1
        <4> QED BY <4>1, <4>2, Zenon
      <3>4. Earlier(e[t], e[s[i]])
        BY <3>3, Zenon
      <3>5. CASE i = n
        BY <2>3, <3>1, <3>2, <3>4, <3>5, EarlierOrder, Zenon
      <3>6. CASE i < n
        <4>1. ~Earlier(e[s[n]], e[s[i]])
          BY <1>3, <2>3, <3>6, Zenon
        <4>2. ~Earlier(e[s[n]], e[t])
          BY <3>2, <3>4, <4>1, EarlierOrder, Zenon
        <4> QED BY <2>3, <3>1, <4>2, Zenon
      <3> QED BY <3>3, <3>5, <3>6, Zenon
    <2>4. Shifted(r, s, i, t, j, k)
      BY <1>4, <1>p, Zenon
    <2> QED BY <2>1, <2>2, <2>3, <2>4, Zenon DEF Shifted
  <1> QED BY <1>2, <1>4, Zenon DEF Ordered

-----------------------------------------------------------------------------
(* The inductive invariant. *)

\* Where a thread is inside __tc_wait_event(), with its event on the queue of its
\* timer_waiter, or active, or found.
QueuePCs == {"tw_cond", "tw_trylock", "tw_scheduler", "tw_finish", "tw_finish_done",
             "tw_finish_master"}

\* A thread waits on the queue of its own timer_waiter, and nobody on timer_mutex.
OwnQueue ==
    /\ \A q \in Queues, u \in Threads : OnQ(q, u) => q = u /\ pc[u] \in QueuePCs
    /\ \A u \in active : pc[u] \in QueuePCs
    /\ \A u \in Threads : pc[u] \in {"tw_cond", "tw_trylock", "tw_scheduler"} =>
          u \in active \/ OnQ(u, u)

\* The list is ordered, and has nobody who is not in tc_sleep().
ListExact ==
    /\ IsInjective(timer_list) /\ Ordered(timer_list, abs_end)
    /\ \A u \in Threads : Contains(timer_list, u) => pc[u] \in ListedPCs

\* Who is about to sleep is on the list, or was taken off it and is awake.
StillListed ==
    \A u \in Threads : pc[u] \in {"tw_trylock", "tw_scheduler"} =>
        u \in active \/ Contains(timer_list, u)

\* abs_end is what was asked for.
EndsRight == \A u \in Threads : pc[u] # "idle" => Instant(abs_end[u]) = until[u]

\* Whoever was taken off the list has slept.
TimeHasCome ==
    \A u \in Threads : pc[u] \in ListedPCs /\ rv[u] = "RV_OK" /\ ~Contains(timer_list, u) =>
        now >= until[u]

SleepInv ==
    /\ SleepTypeOK /\ OwnQueue /\ ListExact /\ StillListed /\ EndsRight /\ TimeHasCome
    /\ OneMaster /\ SleepersWatched /\ SleepsLongEnough

\* A step of t leaves the others where they are, and what belongs to them.
LEMMA Others ==
    ASSUME SleepTypeOK, NEW t \in Threads, tc_sleep(t) \/ sleeping(t)
    PROVE  /\ now' = now
           /\ \A u \in Threads \ {t} :
                 pc'[u] = pc[u] /\ rv'[u] = rv[u] /\ abs_end'[u] = abs_end[u] /\ until'[u] = until[u]
  <1>1. pc \in [Threads -> SleepPCs] /\ DOMAIN rv = Threads /\ DOMAIN abs_end = Threads /\ DOMAIN until = Threads
    BY Zenon DEF SleepTypeOK
  <1>2. \A l : Goto(t, l) => \A u \in Threads \ {t} : pc'[u] = pc[u]
    BY <1>1, Zenon DEF Goto
  <1>3. now' = now /\ \A u \in Threads \ {t} : pc'[u] = pc[u]
    <2>1. CASE tc_sleep(t)
      BY <1>2, <2>1, Zenon DEF tc_sleep, timeVars
    <2>2. CASE yield(t)
      BY <1>2, <2>2, Zenon DEF yield, timeVars, sleep_interrupted
    <2>3. CASE insert_into_timer_list(t)
      BY <1>2, <2>3, Zenon DEF insert_into_timer_list
    <2>4. CASE tw_prepare(t) \/ tw_scheduler(t)
      BY <1>2, <2>4, Zenon DEF tw_prepare, tw_scheduler, timeVars
    <2>5. CASE tw_cond(t)
      BY <1>2, <2>5, Zenon DEF tw_cond, timeVars
    <2>6. CASE tw_trylock(t)
      BY <1>2, <2>6, Zenon DEF tw_trylock, cas_owner, timeVars
    <2>7. CASE tw_finish(t)
      BY <1>2, <2>7, Zenon DEF tw_finish, timeVars
    <2>8. CASE master(t) \/ expire(t) \/ unlock_timer(t)
      BY <1>2, <2>8, Zenon DEF master, expire, unlock_timer, timeVars
    <2>9. CASE reprogram(t) \/ read(t)
      BY <1>2, <2>9, Zenon DEF reprogram, read
    <2>10. CASE wait_fd(t)
      BY <1>2, <2>10, Zenon DEF wait_fd, sleep_interrupted, timeVars
    <2>11. CASE remove_from_timer_list_wakeup(t)
      BY <1>2, <2>11, Zenon DEF remove_from_timer_list_wakeup, timeVars
    <2> QED BY <2>1, <2>2, <2>3, <2>4, <2>5, <2>6, <2>7, <2>8, <2>9, <2>10, <2>11, Zenon DEF sleeping
  <1>4. \A u \in Threads \ {t} : rv'[u] = rv[u]
    <2>1. rv' = rv \/ \E v : rv' = [rv EXCEPT ![t] = v]
      BY Zenon DEF sleeping, tc_sleep, yield, insert_into_timer_list, tw_prepare, tw_scheduler, tw_cond,
         tw_trylock, tw_finish, master, expire, unlock_timer, reprogram, read, wait_fd, sleep_interrupted, kept,
         remove_from_timer_list_wakeup
    <2> QED BY <1>1, <2>1, Zenon
  <1>5. \A u \in Threads \ {t} : abs_end'[u] = abs_end[u] /\ until'[u] = until[u]
    <2>1. \/ abs_end' = abs_end /\ until' = until
          \/ \E v, x : abs_end' = [abs_end EXCEPT ![t] = v] /\ until' = [until EXCEPT ![t] = x]
      BY Zenon DEF sleeping, tc_sleep, yield, insert_into_timer_list, tw_prepare, tw_scheduler, tw_cond,
         tw_trylock, tw_finish, master, expire, unlock_timer, reprogram, read, wait_fd, kept,
         remove_from_timer_list_wakeup
    <2> QED BY <1>1, <2>1, Zenon
  <1> QED BY <1>3, <1>4, <1>5, Zenon

\* The way of t through tc_sleep().
Way(t) ==
    \/ tc_sleep(t) /\ pc[t] = "idle" /\ pc'[t] = "yield"
    \/ yield(t) /\ pc[t] = "yield" /\ (pc'[t] = "insert" \/ (pc'[t] = "remove" /\ rv'[t] = "RV_INTR"))
    \/ insert_into_timer_list(t) /\ pc[t] = "insert" /\ pc'[t] = "tw_prepare"
    \/ tw_prepare(t) /\ pc[t] = "tw_prepare" /\ pc'[t] = "tw_cond"
    \/ tw_cond(t) /\ pc[t] = "tw_cond" /\ waiting_done(t) /\ pc'[t] = "tw_finish_done"
    \/ tw_cond(t) /\ pc[t] = "tw_cond" /\ ~waiting_done(t) /\ pc'[t] = "tw_trylock"
    \/ tw_trylock(t) /\ pc[t] = "tw_trylock" /\ m_owner = NULL /\ m_owner' = t /\ pc'[t] = "tw_finish_master"
    \/ tw_trylock(t) /\ pc[t] = "tw_trylock" /\ m_owner # NULL /\ m_owner' = m_owner /\ pc'[t] = "tw_scheduler"
    \/ tw_scheduler(t) /\ pc[t] = "tw_scheduler" /\ pc'[t] = "tw_finish"
    \/ tw_finish(t) /\ pc[t] = "tw_finish" /\ pc'[t] = "tw_prepare"
    \/ tw_finish(t) /\ pc[t] = "tw_finish" /\ pc'[t] = "remove" /\ rv'[t] = "RV_INTR"
    \/ tw_finish(t) /\ pc[t] = "tw_finish_done" /\ pc'[t] = "remove"
    \/ tw_finish(t) /\ pc[t] = "tw_finish_master" /\ pc'[t] = "master"
    \/ master(t) /\ pc[t] = "master" /\ waiting_done(t) /\ pc'[t] = "unlock"
    \/ master(t) /\ pc[t] = "master" /\ ~waiting_done(t) /\ pc'[t] = "reprogram"
    \/ reprogram(t) /\ pc[t] = "reprogram" /\ pc'[t] \in {"wait_fd", "expire"}
    \/ wait_fd(t) /\ pc[t] = "wait_fd" /\ (pc'[t] = "read" \/ (pc'[t] = "unlock" /\ rv'[t] = "RV_INTR"))
    \/ read(t) /\ pc[t] = "read" /\ pc'[t] = "expire"
    \/ expire(t) /\ pc[t] = "expire" /\ pc'[t] = "master"
    \/ unlock_timer(t) /\ pc[t] = "unlock" /\ pc'[t] = "remove"
    \/ remove_from_timer_list_wakeup(t) /\ pc[t] = "remove" /\ pc'[t] = "idle"

LEMMA OneWay ==
    ASSUME SleepTypeOK, NEW t \in Threads, tc_sleep(t) \/ sleeping(t)
    PROVE  Way(t) /\ pc' \in [Threads -> SleepPCs]
  <1>1. pc \in [Threads -> SleepPCs] /\ rv \in [Threads -> {"RV_OK", "RV_INTR"}]
    BY Zenon DEF SleepTypeOK
  <1>2. \A l : Goto(t, l) => pc'[t] = l
    BY <1>1, Zenon DEF Goto
  <1>3. \A v : rv' = [rv EXCEPT ![t] = v] => rv'[t] = v
    BY <1>1, Zenon
  <1>4. Way(t)
    <2>1. CASE tc_sleep(t)
      BY <1>2, <2>1, Zenon DEF tc_sleep, Way
    <2>2. CASE yield(t)
      BY <1>2, <1>3, <2>2, Zenon DEF yield, sleep_interrupted, Way
    <2>3. CASE insert_into_timer_list(t)
      BY <1>2, <2>3, Zenon DEF insert_into_timer_list, Way
    <2>4. CASE tw_prepare(t) \/ tw_scheduler(t)
      BY <1>2, <2>4, Zenon DEF tw_prepare, tw_scheduler, Way
    <2>5. CASE tw_cond(t)
      BY <1>2, <2>5, Zenon DEF tw_cond, Way
    <2>6. CASE tw_trylock(t)
      BY <1>2, <2>6, Zenon DEF tw_trylock, cas_owner, Way
    <2>7. CASE tw_finish(t)
      BY <1>2, <1>3, <2>7, Zenon DEF tw_finish, Way
    <2>8. CASE master(t) \/ expire(t) \/ unlock_timer(t)
      BY <1>2, <2>8, Zenon DEF master, expire, unlock_timer, Way
    <2>9. CASE reprogram(t) \/ read(t)
      BY <1>2, <2>9, Zenon DEF reprogram, read, Way
    <2>10. CASE wait_fd(t)
      BY <1>2, <1>3, <2>10, Zenon DEF wait_fd, sleep_interrupted, Way
    <2>11. CASE remove_from_timer_list_wakeup(t)
      BY <1>2, <2>11, Zenon DEF remove_from_timer_list_wakeup, Way
    <2> QED BY <2>1, <2>2, <2>3, <2>4, <2>5, <2>6, <2>7, <2>8, <2>9, <2>10, <2>11, Zenon DEF sleeping
  <1>5. pc'[t] \in SleepPCs
    BY <1>4, Zenon DEF Way, SleepPCs, ListedPCs, MasterPCs
  <1>6. \E l : Goto(t, l)
    BY <1>4, Zenon DEF Way, tc_sleep, yield, insert_into_timer_list, tw_prepare, tw_scheduler, tw_cond,
       tw_trylock, cas_owner, tw_finish, master, expire, unlock_timer, reprogram, read, wait_fd, sleep_interrupted,
       remove_from_timer_list_wakeup
  <1>7. pc' \in [Threads -> SleepPCs]
    BY <1>1, <1>2, <1>5, <1>6, Zenon DEF Goto
  <1> QED BY <1>4, <1>7, Zenon

\* Whose mutex it is.
LEMMA TimerMutexStep ==
    ASSUME SleepInv, NEW t \in Threads, tc_sleep(t) \/ sleeping(t)
    PROVE  /\ \A u \in Threads : m_owner' = u <=> pc'[u] \in MasterPCs
           /\ m_owner' \in Threads \cup {NULL}
           /\ unlock_timer(t) => UNCHANGED <<waiters, active>> /\ WaitqType'
           /\ m_owner' # m_owner => tw_trylock(t) \/ unlock_timer(t)
  <1>1. /\ Way(t) /\ WaitqType /\ m_owner \in Threads \cup {NULL} /\ NULL \notin Threads
        /\ "wq" \in Queues /\ "wq" \notin Threads
        /\ \A u \in Threads : m_owner = u <=> pc[u] \in MasterPCs
        /\ \A u \in Threads \ {t} : pc'[u] = pc[u]
    BY OneWay, Others, MutexAssumption, SleepAssumption, Zenon DEF SleepInv, SleepTypeOK, OneMaster
  <1>2. ASSUME m_owner' = m_owner, ~unlock_timer(t), ~tw_trylock(t) PROVE pc'[t] \in MasterPCs <=> pc[t] \in MasterPCs
    BY <1>1, <1>2, Zenon DEF Way, MasterPCs
  <1>3. ASSUME unlock_timer(t) PROVE m_owner' = NULL /\ UNCHANGED <<waiters, active>> /\ WaitqType'
    <2>1. \A u \in Threads : ~OnQ("wq", u)
      BY <1>1, Zenon DEF SleepInv, OwnQueue
    <2>2. pass_owner /\ tc_waitq_wakeup_one("wq")
      BY <1>3, Zenon DEF unlock_timer, mutex_unlock
    <2>3. WaitqType' /\ waiters["wq"] = <<>> /\ UNCHANGED <<waiters, active>>
      BY <1>1, <2>1, <2>2, WakeupOne, Zenon
    <2> QED BY <2>2, <2>3, Zenon DEF pass_owner
  <1>4. m_owner' = m_owner \/ unlock_timer(t) \/ tw_trylock(t)
    BY <1>1, Zenon DEF Way, tc_sleep, yield, insert_into_timer_list, tw_prepare, tw_scheduler, tw_cond,
       tw_finish, master, expire, reprogram, read, wait_fd, remove_from_timer_list_wakeup
  <1>5. CASE unlock_timer(t)
    <2>1. pc[t] = "unlock" /\ pc'[t] = "remove"
      BY <1>1, <1>5, Zenon DEF Way, unlock_timer, tc_sleep, yield, insert_into_timer_list, tw_prepare, tw_scheduler,
         tw_cond, tw_trylock, tw_finish, master, expire, reprogram, read, wait_fd, remove_from_timer_list_wakeup
    <2>2. m_owner = t
      BY <1>1, <2>1, Zenon DEF MasterPCs
    <2>3. \A u \in Threads : pc'[u] \notin MasterPCs
      BY <1>1, <2>1, <2>2, Zenon DEF MasterPCs
    <2> QED BY <1>1, <1>3, <1>5, <2>3, ZenonT(30)
  <1>6. CASE tw_trylock(t)
    <2>1. /\ pc[t] = "tw_trylock"
          /\ \/ m_owner = NULL /\ m_owner' = t /\ pc'[t] = "tw_finish_master"
             \/ m_owner # NULL /\ m_owner' = m_owner /\ pc'[t] = "tw_scheduler"
      BY <1>1, <1>6, Zenon DEF Way, unlock_timer, tc_sleep, yield, insert_into_timer_list, tw_prepare, tw_scheduler,
         tw_cond, tw_trylock, tw_finish, master, expire, reprogram, read, wait_fd, remove_from_timer_list_wakeup
    <2>2. ~unlock_timer(t)
      BY <2>1, Zenon DEF unlock_timer
    <2> QED BY <1>1, <1>6, <2>1, <2>2, ZenonT(30) DEF MasterPCs
  <1>7. CASE ~unlock_timer(t) /\ ~tw_trylock(t)
    BY <1>1, <1>2, <1>4, <1>7, Zenon
  <1> QED BY <1>5, <1>6, <1>7, Zenon

\* The queues of a step that does not touch them.
LEMMA QueuesSame ==
    ASSUME SleepInv, NEW t \in Threads, tc_sleep(t) \/ sleeping(t),
           ~tw_prepare(t), ~tw_scheduler(t), ~tw_finish(t), ~expire(t), ~remove_from_timer_list_wakeup(t)
    PROVE  /\ WaitqType' /\ UNCHANGED <<waiters, active>>
           /\ pc'[t] \in QueuePCs <=> pc[t] \in QueuePCs
           /\ pc'[t] \in {"tw_cond", "tw_trylock", "tw_scheduler"} => pc[t] \in {"tw_cond", "tw_trylock"}
           /\ \A u \in Threads \ {t} : u \in sig' <=> u \in sig
  <1>1. Way(t) /\ WaitqType
    BY OneWay, Zenon DEF SleepInv, SleepTypeOK
  <1>2. /\ pc'[t] \in QueuePCs <=> pc[t] \in QueuePCs
        /\ pc'[t] \in {"tw_cond", "tw_trylock", "tw_scheduler"} => pc[t] \in {"tw_cond", "tw_trylock"}
    BY <1>1, Zenon DEF Way, QueuePCs
  <1>3. CASE unlock_timer(t)
    <2>1. sig' = sig
      BY <1>3, Zenon DEF unlock_timer, mutex_unlock, tc_waitq_wakeup_one
    <2> QED BY <1>2, <1>3, <2>1, TimerMutexStep, Zenon
  <1>4. CASE ~unlock_timer(t)
    <2>1. /\ UNCHANGED <<waiters, active, woken>>
          /\ sig' = sig \/ sig' = sig \ {t}
      BY <1>1, <1>4, Zenon DEF Way, tc_sleep, yield, insert_into_timer_list, tw_cond, tw_trylock, master,
         reprogram, read, wait_fd, sleep_interrupted, wqVars
    <2>2. WaitqType'
      BY <1>1, <2>1, Zenon DEF WaitqType
    <2> QED BY <1>2, <2>1, <2>2, Zenon
  <1> QED BY <1>3, <1>4, Zenon

\* A wakeup of the queues of threads.
LEMMA QueuesWoken ==
    ASSUME WaitqType, OwnQueue, NEW Q, Q \subseteq Threads, tc_waitq_wakeup_all(Q)
    PROVE  /\ WaitqType' /\ sig' = sig
           /\ \A u \in Threads : u \in active' <=> u \in active \/ (u \in Q /\ OnQ(u, u))
           /\ \A r \in Queues, u \in Threads : OnQ(r, u)' <=> OnQ(r, u) /\ u \notin Q
  <1>1. Threads \subseteq Queues
    BY SleepAssumption, Zenon
  <1>2. /\ WaitqType' /\ sig' = sig
        /\ \A u \in Threads : u \in active' <=> u \in active \/ \E q \in Q : OnQ(q, u)
        /\ \A r \in Queues, u \in Threads : OnQ(r, u)' <=> OnQ(r, u) /\ r \notin Q
    BY <1>1, WakeupAll, Zenon
  <1>3. \A q \in Queues, u \in Threads : OnQ(q, u) => q = u
    BY Zenon DEF OwnQueue
  <1>4. ASSUME NEW u \in Threads PROVE (\E q \in Q : OnQ(q, u)) <=> u \in Q /\ OnQ(u, u)
    BY <1>1, <1>3, Zenon
  <1>5. ASSUME NEW r \in Queues, NEW u \in Threads
        PROVE  OnQ(r, u) /\ r \notin Q <=> OnQ(r, u) /\ u \notin Q
    BY <1>3, Zenon
  <1> QED BY <1>2, <1>4, <1>5, Zenon

\* What the two that wake others take off the list, and whom they wake.
LEMMA Woken ==
    ASSUME SleepInv, NEW t \in Threads
    PROVE  /\ expire(t) =>
                 \E n \in 0..Len(timer_list) :
                    LET Q == {timer_list[i] : i \in 1..n} IN
                    /\ timer_list' = SubSeq(timer_list, n + 1, Len(timer_list))
                    /\ Q \subseteq Threads /\ tc_waitq_wakeup_all(Q)
                    /\ \A u \in Q : ~Earlier(clock, abs_end[u])
           /\ remove_from_timer_list_wakeup(t) =>
                 \E Q \in SUBSET Threads :
                    /\ timer_list' = RemoveFirst(timer_list, t) /\ timer_list' \in Seq(Threads)
                    /\ IsInjective(timer_list') /\ \A x : Contains(timer_list', x) <=> Contains(timer_list, x) /\ x # t
                    /\ tc_waitq_wakeup_all(Q) /\ (timer_list' # <<>> => Head(timer_list') \in Q)
  <1>1. timer_list \in Seq(Threads) /\ IsInjective(timer_list)
    BY Zenon DEF SleepInv, SleepTypeOK, ListExact
  <1>2. ASSUME expire(t)
        PROVE  \E n \in 0..Len(timer_list) :
                    LET Q == {timer_list[i] : i \in 1..n} IN
                    /\ timer_list' = SubSeq(timer_list, n + 1, Len(timer_list))
                    /\ Q \subseteq Threads /\ tc_waitq_wakeup_all(Q)
                    /\ \A u \in Q : ~Earlier(clock, abs_end[u])
    <2> DEFINE wait == {i \in DOMAIN timer_list : ~at_end(timer_list[i])}
               m    == Min(wait \cup {Len(timer_list) + 1})
               n    == m - 1
               Q    == {timer_list[i] : i \in 1..n}
    <2>1. timer_list' = SubSeq(timer_list, n + 1, Len(timer_list)) /\ tc_waitq_wakeup_all(Q)
      BY <1>2, Zenon DEF expire
    <2>2. Len(timer_list) \in Nat /\ DOMAIN timer_list = 1..Len(timer_list)
      BY <1>1
    <2>3. \A i : i \in wait <=> i \in 1..Len(timer_list) /\ ~at_end(timer_list[i])
      BY <2>2, Zenon
    <2> HIDE DEF wait
    <2>4. wait \cup {Len(timer_list) + 1} \subseteq Nat /\ wait \cup {Len(timer_list) + 1} # {}
      BY <2>2, <2>3
    <2>5. m \in wait \cup {Len(timer_list) + 1} /\ \A i \in wait \cup {Len(timer_list) + 1} : m <= i
      BY <2>4, MinOf, Zenon
    <2> HIDE DEF m
    <2>6. m \in 1..(Len(timer_list) + 1)
      BY <2>2, <2>3, <2>5
    <2>7. n \in 0..Len(timer_list)
      BY <2>2, <2>6
    <2>8. ASSUME NEW i \in 1..n PROVE timer_list[i] \in Threads /\ at_end(timer_list[i])
      <3>1. i \in 1..Len(timer_list) /\ ~(m <= i)
        BY <2>2, <2>6
      <3>2. timer_list[i] \in Threads
        BY <1>1, <3>1, ElementsOf, Zenon
      <3> QED BY <2>3, <2>5, <3>1, <3>2, Zenon
    <2>9. Q \subseteq Threads /\ \A u \in Q : ~Earlier(clock, abs_end[u])
      BY <2>8, Zenon DEF at_end
    <2> HIDE DEF n
    <2> QED BY <2>1, <2>7, <2>9, Zenon
  <1>3. ASSUME remove_from_timer_list_wakeup(t)
        PROVE  \E Q \in SUBSET Threads :
                    /\ timer_list' = RemoveFirst(timer_list, t) /\ timer_list' \in Seq(Threads)
                    /\ IsInjective(timer_list') /\ \A x : Contains(timer_list', x) <=> Contains(timer_list, x) /\ x # t
                    /\ tc_waitq_wakeup_all(Q) /\ (timer_list' # <<>> => Head(timer_list') \in Q)
    <2>1. timer_list' = RemoveFirst(timer_list, t) /\ tc_waitq_wakeup_all(take_over(timer_list'))
      BY <1>3, Zenon DEF remove_from_timer_list_wakeup
    <2>2. /\ timer_list' \in Seq(Threads) /\ IsInjective(timer_list')
          /\ \A x : Contains(timer_list', x) <=> Contains(timer_list, x) /\ x # t
      BY <1>1, <2>1, RemoveOf, Zenon
    <2>3. timer_list' # <<>> => Head(timer_list') \in Threads
      BY <2>2, TailOf, Zenon
    <2>4. take_over(timer_list') \in SUBSET Threads
          /\ (timer_list' # <<>> => Head(timer_list') \in take_over(timer_list'))
      BY <2>3, Zenon DEF take_over
    <2> QED BY <2>1, <2>2, <2>4, Zenon
  <1> QED BY <1>2, <1>3, Zenon

\* Each step of a thread keeps the events where they belong, and those of the others
\* are only moved by a wakeup.
LEMMA QueueStep ==
    ASSUME SleepInv, NEW t \in Threads, tc_sleep(t) \/ sleeping(t)
    PROVE  /\ WaitqType' /\ OwnQueue'
           /\ \A u \in Threads \ {t} : (u \in active => u \in active') /\ (u \in sig' <=> u \in sig)
  <1>1. /\ Way(t) /\ WaitqType /\ OwnQueue /\ t \in Queues /\ Threads \subseteq Queues
        /\ \A u \in Threads \ {t} : pc'[u] = pc[u]
        /\ active \subseteq Threads
    BY OneWay, Others, SleepAssumption, Zenon DEF SleepInv, SleepTypeOK, WaitqType
  <1> DEFINE W == {"tw_cond", "tw_trylock", "tw_scheduler"}
  <1>2. /\ \A q \in Queues, u \in Threads : OnQ(q, u) => q = u /\ pc[u] \in QueuePCs
        /\ \A u \in active : pc[u] \in QueuePCs
        /\ \A u \in Threads : pc[u] \in W => u \in active \/ OnQ(u, u)
    BY <1>1, Zenon DEF OwnQueue
  <1>3. ASSUME WaitqType',
               \A q \in Queues, u \in Threads : OnQ(q, u)' => q = u /\ pc'[u] \in QueuePCs,
               \A u \in Threads : u \in active' => pc'[u] \in QueuePCs,
               \A u \in Threads : pc'[u] \in W => u \in active' \/ OnQ(u, u)'
        PROVE  OwnQueue'
    <2>1. active' \subseteq Threads
      BY <1>3, Zenon DEF WaitqType
    <2> QED BY <1>3, <2>1, Zenon DEF OwnQueue
  <1>4. CASE tw_prepare(t)
    <2>1. pc[t] = "tw_prepare" /\ pc'[t] = "tw_cond" /\ prepare_to_wait(t, t)
      BY <1>1, <1>4, Zenon DEF Way, tw_prepare, tc_sleep, yield, insert_into_timer_list, tw_scheduler, tw_cond,
         tw_trylock, tw_finish, master, expire, unlock_timer, reprogram, read, wait_fd, remove_from_timer_list_wakeup
    <2>2. t \notin active /\ \A r \in Queues : ~OnQ(r, t)
      BY <1>2, <2>1, Zenon DEF QueuePCs
    <2>3. /\ WaitqType' /\ active' = active
          /\ \A r \in Queues, u \in Threads : OnQ(r, u)' <=> OnQ(r, u) \/ (r = t /\ u = t)
      BY <1>1, <2>1, <2>2, Prepare, Zenon
    <2>4. pc'[t] \in QueuePCs
      BY <2>1, Zenon DEF QueuePCs
    <2>5. sig' = sig
      BY <2>1, Zenon DEF prepare_to_wait
    <2>6. OwnQueue'
      BY <1>1, <1>2, <1>3, <2>3, <2>4, Zenon
    <2> QED BY <2>3, <2>5, <2>6, Zenon
  <1>5. CASE tw_scheduler(t)
    <2>1. pc[t] = "tw_scheduler" /\ pc'[t] = "tw_finish" /\ tc_scheduler(t)
      BY <1>1, <1>5, Zenon DEF Way, tw_prepare, tc_sleep, yield, insert_into_timer_list, tw_scheduler, tw_cond,
         tw_trylock, tw_finish, master, expire, unlock_timer, reprogram, read, wait_fd, remove_from_timer_list_wakeup
    <2>2. WaitqType' /\ waiters' = waiters /\ (active' = active \ {t} \/ active' = active)
      BY <1>1, <2>1, Scheduled, Zenon
    <2>3. sig' = sig \/ sig' = sig \ {t}
      BY <2>1, Zenon DEF tc_scheduler
    <2>4. \A q, u : OnQ(q, u)' <=> OnQ(q, u)
      BY <2>2, Zenon DEF OnQ
    <2>5. pc'[t] \in QueuePCs /\ pc'[t] \notin W
      BY <2>1, Zenon DEF QueuePCs
    <2>6. OwnQueue'
      BY <1>1, <1>2, <1>3, <2>2, <2>4, <2>5, Zenon
    <2> QED BY <2>2, <2>3, <2>6, Zenon
  <1>6. CASE tw_finish(t)
    <2>1. (finish_wait(t, t) \/ finish_intr(t, t)) /\ pc'[t] \in {"tw_prepare", "remove", "master"}
      BY <1>1, <1>6, Zenon DEF Way, tw_prepare, tc_sleep, yield, insert_into_timer_list, tw_scheduler, tw_cond,
         tw_trylock, tw_finish, master, expire, unlock_timer, reprogram, read, wait_fd, remove_from_timer_list_wakeup
    <2>2. /\ WaitqType' /\ active' = active \ {t}
          /\ \A r \in Queues, u \in Threads : OnQ(r, u)' <=> OnQ(r, u) /\ ~(r = t /\ u = t)
      BY <1>1, <2>1, Finish, Zenon
    <2>3. sig' = sig \/ sig' = sig \cup {t}
      BY <2>1, Zenon DEF finish_wait, finish_intr
    <2>4. pc'[t] \notin W
      BY <2>1, Zenon
    <2>5. OwnQueue'
      BY <1>1, <1>2, <1>3, <2>2, <2>4, Zenon
    <2> QED BY <2>2, <2>3, <2>5, Zenon
  <1>7. CASE expire(t) \/ remove_from_timer_list_wakeup(t)
    <2>1. pc[t] \in {"expire", "remove"} /\ pc'[t] \in {"master", "idle"}
      BY <1>1, <1>7, Zenon DEF Way, tw_prepare, tc_sleep, yield, insert_into_timer_list, tw_scheduler, tw_cond,
         tw_trylock, tw_finish, master, expire, unlock_timer, reprogram, read, wait_fd, remove_from_timer_list_wakeup
    <2>2. PICK Q \in SUBSET Threads : tc_waitq_wakeup_all(Q)
      BY <1>7, Woken, Zenon
    <2>3. /\ WaitqType' /\ sig' = sig
          /\ \A u \in Threads : u \in active' <=> u \in active \/ (u \in Q /\ OnQ(u, u))
          /\ \A r \in Queues, u \in Threads : OnQ(r, u)' <=> OnQ(r, u) /\ u \notin Q
      BY <1>1, <2>2, QueuesWoken, Zenon
    <2>4. pc[t] \notin QueuePCs /\ pc'[t] \notin W
      BY <2>1, Zenon DEF QueuePCs
    <2>5. OwnQueue'
      BY <1>1, <1>2, <1>3, <2>3, <2>4, Zenon
    <2> QED BY <2>3, <2>5, Zenon
  <1>8. CASE ~tw_prepare(t) /\ ~tw_scheduler(t) /\ ~tw_finish(t) /\ ~expire(t) /\ ~remove_from_timer_list_wakeup(t)
    <2>1. /\ WaitqType' /\ UNCHANGED <<waiters, active>>
          /\ pc'[t] \in QueuePCs <=> pc[t] \in QueuePCs
          /\ pc'[t] \in W => pc[t] \in W
          /\ \A u \in Threads \ {t} : u \in sig' <=> u \in sig
      BY <1>8, QueuesSame, Zenon
    <2>2. \A q, u : OnQ(q, u)' <=> OnQ(q, u)
      BY <2>1, Zenon DEF OnQ
    <2>3. OwnQueue'
      BY <1>1, <1>2, <1>3, <2>1, <2>2, Zenon
    <2> QED BY <2>1, <2>3, Zenon
  <1> QED BY <1>4, <1>5, <1>6, <1>7, <1>8, Zenon

\* What a step of t does to the list.
LEMMA ListStep ==
    ASSUME SleepInv, NEW t \in Threads, tc_sleep(t) \/ sleeping(t)
    PROVE  /\ timer_list' \in Seq(Threads) /\ ListExact'
           /\ insert_into_timer_list(t) => Contains(timer_list', t)
           /\ \A u \in Threads : Contains(timer_list, u) =>
                 \/ Contains(timer_list', u)
                 \/ u = t /\ pc'[t] = "idle"
                 \/ expire(t) /\ ~Earlier(clock, abs_end[u]) /\ (OnQ(u, u) => u \in active')
           /\ timer_list # <<>> /\ ~expire(t) /\ pc'[t] # "idle" =>
                 timer_list' # <<>> /\ (Head(timer_list') = Head(timer_list) \/ Head(timer_list') = t)
           /\ pc'[t] = "idle" /\ timer_list' # <<>> /\ OnQ(Head(timer_list'), Head(timer_list')) =>
                 Head(timer_list') \in active'
  <1>1. /\ Way(t) /\ WaitqType /\ OwnQueue /\ timer_list \in Seq(Threads)
        /\ IsInjective(timer_list) /\ Ordered(timer_list, abs_end)
        /\ \A u \in Threads : Contains(timer_list, u) => pc[u] \in ListedPCs
        /\ \A u \in Threads \ {t} : pc'[u] = pc[u] /\ abs_end'[u] = abs_end[u]
    BY OneWay, Others, Zenon DEF SleepInv, SleepTypeOK, ListExact
  <1>2. CASE insert_into_timer_list(t)
    <2>1. /\ pc[t] = "insert" /\ pc'[t] = "tw_prepare" /\ abs_end' = abs_end
          /\ timer_list' = InsertAt(timer_list, place(t), t)
      BY <1>1, <1>2, Zenon DEF Way, tw_prepare, tc_sleep, yield, insert_into_timer_list, tw_scheduler, tw_cond, kept,
         tw_trylock, tw_finish, master, expire, unlock_timer, reprogram, read, wait_fd, remove_from_timer_list_wakeup
    <2>3. /\ place(t) \in 1..(Len(timer_list) + 1)
          /\ place(t) <= Len(timer_list) => Earlier(abs_end[t], abs_end[timer_list[place(t)]])
          /\ \A j \in 1..Len(timer_list) : j < place(t) => ~Earlier(abs_end[t], abs_end[timer_list[j]])
      BY <1>1, PlaceOf, Zenon
    <2>4. Inserted(timer_list', timer_list, place(t), t)
      BY <1>1, <2>1, <2>3, InsertAtElements, Zenon
    <2>5. ~Contains(timer_list, t)
      BY <1>1, <2>1, Zenon DEF ListedPCs, MasterPCs
    <2>6. abs_end \in [Threads -> Nat \X Nat]
      <3>1. abs_end \in [Threads -> Nat \X (0..NSEC)] /\ 0..NSEC \subseteq Nat
        BY SleepAssumption DEF SleepInv, SleepTypeOK
      <3>2. Nat \X (0..NSEC) \subseteq Nat \X Nat
        BY <3>1
      <3> QED BY <3>1, <3>2, Zenon
    <2>7. Ordered(timer_list', abs_end)
      BY <1>1, <2>3, <2>4, <2>6, InsertOrdered, Zenon
    <2>8. /\ timer_list' \in Seq(Threads) /\ IsInjective(timer_list')
          /\ \A x : Contains(timer_list', x) <=> Contains(timer_list, x) \/ x = t
          /\ timer_list' # <<>>
          /\ Head(timer_list') = t \/ (timer_list # <<>> /\ Head(timer_list') = Head(timer_list))
      <3>1. timer_list \in Seq(Threads) /\ IsInjective(timer_list) /\ place(t) \in 1..(Len(timer_list) + 1)
        BY <1>1, <2>3, Zenon
      <3> QED BY <2>4, <2>5, <3>1, InsertOne, Zenon
    <2>9. ListExact'
      BY <1>1, <2>1, <2>7, <2>8, Zenon DEF ListExact, ListedPCs
    <2> QED BY <2>1, <2>8, <2>9, Zenon
  <1>3. CASE expire(t)
    <2>1. /\ pc[t] = "expire" /\ pc'[t] = "master" /\ abs_end' = abs_end
          /\ ~insert_into_timer_list(t)
      BY <1>1, <1>3, Zenon DEF Way, tw_prepare, tc_sleep, yield, insert_into_timer_list, tw_scheduler, tw_cond, kept,
         tw_trylock, tw_finish, master, expire, unlock_timer, reprogram, read, wait_fd, remove_from_timer_list_wakeup
    <2>2. PICK n \in 0..Len(timer_list) :
             /\ timer_list' = SubSeq(timer_list, n + 1, Len(timer_list))
             /\ {timer_list[i] : i \in 1..n} \subseteq Threads
             /\ tc_waitq_wakeup_all({timer_list[i] : i \in 1..n})
             /\ \A u \in {timer_list[i] : i \in 1..n} : ~Earlier(clock, abs_end[u])
      BY <1>3, Woken, Zenon
    <2> DEFINE Q == {timer_list[i] : i \in 1..n}
    <2>3. /\ timer_list' \in Seq(Threads) /\ IsInjective(timer_list') /\ Ordered(timer_list', abs_end)
          /\ \A x : Contains(timer_list', x) <=> Contains(timer_list, x) /\ x \notin Q
      BY <1>1, <2>2, Suffix, Zenon
    <2>4. \A u \in Threads : u \in active' <=> u \in active \/ (u \in Q /\ OnQ(u, u))
      BY <1>1, <2>2, QueuesWoken, Zenon
    <2>5. \A u \in Q : ~Earlier(clock, abs_end[u])
      BY <2>2, Zenon
    <2> HIDE DEF Q
    <2>6. ListExact'
      BY <1>1, <2>1, <2>3, Zenon DEF ListExact, ListedPCs, MasterPCs
    <2> QED BY <1>3, <2>1, <2>3, <2>4, <2>5, <2>6, Zenon
  <1>4. CASE remove_from_timer_list_wakeup(t)
    <2>1. /\ pc[t] = "remove" /\ pc'[t] = "idle" /\ ~insert_into_timer_list(t)
      BY <1>1, <1>4, Zenon DEF Way, tw_prepare, tc_sleep, yield, insert_into_timer_list, tw_scheduler, tw_cond,
         tw_trylock, tw_finish, master, expire, unlock_timer, reprogram, read, wait_fd, remove_from_timer_list_wakeup
    <2>2. PICK Q \in SUBSET Threads :
             /\ timer_list' = RemoveFirst(timer_list, t) /\ timer_list' \in Seq(Threads)
             /\ IsInjective(timer_list') /\ \A x : Contains(timer_list', x) <=> Contains(timer_list, x) /\ x # t
             /\ tc_waitq_wakeup_all(Q) /\ (timer_list' # <<>> => Head(timer_list') \in Q)
      BY <1>4, Woken, Zenon
    <2>3. \A u \in Threads : u \in active' <=> u \in active \/ (u \in Q /\ OnQ(u, u))
      BY <1>1, <2>2, QueuesWoken, Zenon
    <2>4. Ordered(timer_list', abs_end)
      BY <1>1, <2>2, RemoveOrdered, Zenon
    <2>5. \A u \in Threads : Contains(timer_list', u) => abs_end'[u] = abs_end[u]
      BY <1>1, <2>2, Zenon
    <2>6. Ordered(timer_list', abs_end')
      BY <2>2, <2>4, <2>5, SameEnds, Zenon
    <2>7. ListExact'
      BY <1>1, <2>2, <2>6, Zenon DEF ListExact
    <2>8. timer_list' # <<>> => Head(timer_list') \in Threads
      BY <2>2, Zenon
    <2> QED BY <2>1, <2>2, <2>3, <2>7, <2>8, Zenon
  <1>5. CASE ~insert_into_timer_list(t) /\ ~expire(t) /\ ~remove_from_timer_list_wakeup(t)
    <2>1. /\ timer_list' = timer_list /\ pc'[t] # "idle"
          /\ pc[t] \in ListedPCs => pc'[t] \in ListedPCs
          /\ pc[t] = "idle" \/ abs_end' = abs_end
      BY <1>1, <1>5, Zenon DEF Way, tw_prepare, tc_sleep, yield, tw_scheduler, tw_cond, kept, tw_trylock,
         tw_finish, master, unlock_timer, reprogram, read, wait_fd, ListedPCs, MasterPCs
    <2>2. pc[t] = "idle" => ~Contains(timer_list, t)
      BY <1>1, Zenon DEF ListedPCs, MasterPCs
    <2>3. \A u \in Threads : Contains(timer_list, u) => abs_end'[u] = abs_end[u]
      BY <1>1, <2>1, <2>2, Zenon
    <2>4. Ordered(timer_list, abs_end')
      <3>1. timer_list \in Seq(Threads) /\ Ordered(timer_list, abs_end)
        BY <1>1, Zenon
      <3> QED BY <2>3, <3>1, SameEnds, Zenon
    <2>5. ListExact'
      BY <1>1, <2>1, <2>4, Zenon DEF ListExact
    <2> QED BY <1>1, <1>5, <2>1, <2>5, Zenon
  <1> QED BY <1>2, <1>3, <1>4, <1>5, Zenon

\* timerfd_reprogram_valid() leaves the timer set, or ends the program.
LEMMA Reprogrammed ==
    ASSUME SleepTypeOK, NEW end \in Nat \X Nat, NEW x \in Nat \X Nat,
           still_to_come(end, x), timerfd_reprogram(end, x)
    PROVE  /\ timer' \in Nat \cup {NULL} /\ expired' \in BOOLEAN /\ exited' \in BOOLEAN
           /\ timer' # NULL \/ exited'
  <1>1. /\ NSEC \in Nat /\ now \in Nat /\ NULL \notin Nat /\ timer \in Nat \cup {NULL}
        /\ expired \in BOOLEAN /\ exited \in BOOLEAN
    BY SleepAssumption DEF SleepTypeOK
  <1>2. PICK d : d = timer_delta(end, x)
    BY Zenon
  <1>3. end[1] \in Nat /\ end[2] \in Nat /\ x[1] \in Nat /\ x[2] \in Nat
    OBVIOUS
  <1>4. d[1] \in Int /\ d[2] \in Int
    BY <1>1, <1>2, <1>3 DEF timer_delta
  <1>5. Instant(d) \in Nat
    <2>1. d[1] * NSEC + d[2] \in Int /\ d[1] * NSEC + d[2] > 0
      <3>1. d[1] * NSEC + d[2] \in Int
        BY <1>1, <1>4
      <3> QED BY <1>2, <3>1, Zenon DEF still_to_come, Instant
    <2> QED BY <2>1 DEF Instant
  <1>6. Instant(end) \in Nat
    BY <1>1, <1>3, Products DEF Instant
  <1>7. PICK at \in Nat : \E v : timerfd_settime(v, at)
    <2>1. now + Instant(d) \in Nat
      BY <1>1, <1>5
    <2> QED BY <1>2, <1>6, <2>1, Zenon DEF timerfd_reprogram
  <1>8. (exited' = TRUE /\ UNCHANGED <<timer, expired>>) \/ (timer' = at /\ expired' = FALSE /\ UNCHANGED exited)
    BY <1>7, Zenon DEF timerfd_settime
  <1> QED BY <1>1, <1>8, Zenon

\* The timer: who sets it, who reads it.
LEMMA TimerStep ==
    ASSUME SleepInv, NEW t \in Threads, tc_sleep(t) \/ sleeping(t)
    PROVE  /\ timer' \in Nat \cup {NULL} /\ expired' \in BOOLEAN /\ exited' \in BOOLEAN
           /\ \/ UNCHANGED <<timer, expired, exited>> /\ pc'[t] # "wait_fd"
              \/ timer' # NULL \/ exited'
              \/ pc[t] = "read" /\ pc'[t] # "wait_fd"
           /\ ts' \in [Threads -> Nat \X Nat]
  <1>1. /\ Way(t) /\ SleepTypeOK /\ timer \in Nat \cup {NULL} /\ expired \in BOOLEAN /\ exited \in BOOLEAN
        /\ ts \in [Threads -> Nat \X Nat] /\ timer_list \in Seq(Threads) /\ IsInjective(timer_list) /\ now \in Nat
    BY OneWay, Zenon DEF SleepInv, SleepTypeOK, ListExact
  <1>2. \A u \in Threads : abs_end[u] \in Nat \X Nat
    <2>1. abs_end \in [Threads -> Nat \X (0..NSEC)] /\ 0..NSEC \subseteq Nat
      BY <1>1, SleepAssumption DEF SleepTypeOK
    <2>2. Nat \X (0..NSEC) \subseteq Nat \X Nat
      BY <2>1
    <2> QED BY <2>1, <2>2, Zenon
  <1>3. clock \in Nat \X Nat
    <2>1. clock \in Nat \X (0..(NSEC - 1)) /\ 0..(NSEC - 1) \subseteq Nat
      BY <1>1, ClockIsNow, SleepAssumption
    <2> QED BY <2>1
  <1>4. Unset \in Nat \X Nat
    BY DEF Unset
  <1>5. ts' \in [Threads -> Nat \X Nat]
    <2>1. ts' = ts \/ ts' = [ts EXCEPT ![t] = clock] \/ ts' = [ts EXCEPT ![t] = Unset]
      BY <1>1, Zenon DEF Way, tw_prepare, tc_sleep, yield, insert_into_timer_list, tw_scheduler, tw_cond,
         tw_trylock, tw_finish, master, expire, unlock_timer, reprogram, read, wait_fd, remove_from_timer_list_wakeup
    <2> QED BY <1>1, <1>3, <1>4, <2>1, Zenon
  <1>6. CASE insert_into_timer_list(t)
    <2>1. /\ pc'[t] # "wait_fd"
          /\ \/ UNCHANGED <<timer, expired, exited>>
             \/ still_to_come(abs_end[t], clock) /\ timerfd_reprogram(abs_end[t], clock)
      BY <1>1, <1>6, Zenon DEF Way, tw_prepare, tc_sleep, yield, insert_into_timer_list, tw_scheduler, tw_cond,
         tw_trylock, tw_finish, master, expire, unlock_timer, reprogram, read, wait_fd, remove_from_timer_list_wakeup
    <2>2. CASE UNCHANGED <<timer, expired, exited>>
      BY <1>1, <1>5, <2>1, <2>2, Zenon
    <2>3. CASE still_to_come(abs_end[t], clock) /\ timerfd_reprogram(abs_end[t], clock)
      BY <1>1, <1>2, <1>3, <1>5, <2>3, Reprogrammed, Zenon
    <2> QED BY <2>1, <2>2, <2>3, Zenon
  <1>7. CASE reprogram(t)
    <2>1. pc[t] = "reprogram"
      BY <1>7, Zenon DEF reprogram
    <2>2. abs_end[Head(timer_list)] \in Nat \X Nat
      <3>1. Contains(timer_list, t)
        BY <2>1, Zenon DEF SleepInv, OneMaster
      <3>2. timer_list # <<>>
        BY <1>1, <3>1 DEF Contains
      <3>3. Head(timer_list) \in Threads
        BY <1>1, <3>2, TailOf, ZenonT(30)
      <3> QED BY <1>2, <3>3, Zenon
    <2>3. PICK end \in Nat \X Nat : end = abs_end[Head(timer_list)]
      BY <2>2, Zenon
    <2>4. \/ still_to_come(end, ts[t]) /\ timerfd_reprogram(end, ts[t])
          \/ UNCHANGED <<timer, expired, exited>> /\ Goto(t, "expire")
      BY <1>7, <2>3, Zenon DEF reprogram
    <2>5. Goto(t, "expire") => pc'[t] # "wait_fd"
      BY <1>1, Zenon DEF Goto, SleepTypeOK
    <2>6. ts[t] \in Nat \X Nat
      BY <1>1, Zenon
    <2>7. CASE still_to_come(end, ts[t]) /\ timerfd_reprogram(end, ts[t])
      BY <1>1, <1>5, <2>6, <2>7, Reprogrammed, Zenon
    <2> QED BY <1>1, <1>5, <2>4, <2>5, <2>7, Zenon
  <1>8. CASE ~insert_into_timer_list(t) /\ ~reprogram(t)
    <2>1. /\ pc'[t] # "wait_fd"
          /\ \/ UNCHANGED <<timer, expired, exited>>
             \/ pc[t] = "read" /\ expired' = FALSE /\ UNCHANGED <<timer, exited>>
      BY <1>1, <1>8, Zenon DEF Way, tw_prepare, tc_sleep, yield, tw_scheduler, tw_cond, timeVars,
         tw_trylock, tw_finish, master, expire, unlock_timer, read, wait_fd, remove_from_timer_list_wakeup
    <2> QED BY <1>1, <1>5, <2>1, Zenon
  <1> QED BY <1>6, <1>7, <1>8, Zenon

\* The call of tc_sleep() computes the end that was asked for.
LEMMA Called ==
    ASSUME SleepInv, NEW t \in Threads, tc_sleep(t)
    PROVE  /\ abs_end' \in [Threads -> Nat \X (0..NSEC)] /\ until' \in [Threads -> 0..MaxTime]
           /\ sleeps' \in [Threads -> 0..MaxSleeps] /\ rv' = rv
           /\ Instant(abs_end'[t]) = until'[t]
  <1>1. /\ abs_end \in [Threads -> Nat \X (0..NSEC)] /\ until \in [Threads -> 0..MaxTime]
        /\ sleeps \in [Threads -> 0..MaxSleeps] /\ now \in Nat
    BY Zenon DEF SleepInv, SleepTypeOK
  <1>2. PICK nap \in Naps :
           /\ now + Instant(nap) <= MaxTime
           /\ abs_end' = [abs_end EXCEPT ![t] = normalised(<<clock[1] + nap[1], clock[2] + nap[2]>>)]
           /\ until' = [until EXCEPT ![t] = now + Instant(nap)]
    BY Zenon DEF tc_sleep
  <1>3. NSEC \in Nat /\ MaxTime \in Nat /\ MaxSleeps \in Nat /\ nap \in Nat \X Nat
    BY SleepAssumption
  <1>4. PICK c : c = clock
    BY Zenon
  <1>5. c \in Nat \X (0..(NSEC - 1)) /\ Instant(c) = now
    BY <1>1, <1>4, ClockIsNow, Zenon
  <1>6. c[1] \in Nat /\ c[2] \in Nat /\ nap[1] \in Nat /\ nap[2] \in Nat
    BY <1>3, <1>5
  <1>7. PICK a : a = <<c[1] + nap[1], c[2] + nap[2]>>
    BY Zenon
  <1>8. a \in Nat \X Nat
    BY <1>6, <1>7
  <1>9. Instant(a) = now + Instant(nap) /\ now + Instant(nap) \in 0..MaxTime
    <2>1. c[1] * NSEC \in Nat /\ nap[1] * NSEC \in Nat /\ (c[1] + nap[1]) * NSEC = c[1] * NSEC + nap[1] * NSEC
      BY <1>6, Products, Zenon
    <2>2. a[1] = c[1] + nap[1] /\ a[2] = c[2] + nap[2]
      BY <1>7
    <2>3. Instant(a) = (c[1] * NSEC + nap[1] * NSEC) + (c[2] + nap[2])
      BY <2>1, <2>2, Zenon DEF Instant
    <2>4. now = c[1] * NSEC + c[2] /\ Instant(nap) = nap[1] * NSEC + nap[2]
      BY <1>5, Zenon DEF Instant
    <2>5. Instant(nap) \in Nat
      BY <1>6, <2>1, <2>4
    <2>6. now + Instant(nap) \in 0..MaxTime
      BY <1>1, <1>2, <1>3, <2>5
    <2>7. Instant(a) = now + Instant(nap)
      BY <1>6, <2>1, <2>3, <2>4
    <2> QED BY <2>6, <2>7, Zenon
  <1>10. normalised(a) \in Nat \X (0..NSEC) /\ Instant(normalised(a)) = Instant(a)
    BY <1>8, NormalisedIsSame, Zenon
  <1>11. /\ abs_end' = [abs_end EXCEPT ![t] = normalised(a)]
         /\ until' = [until EXCEPT ![t] = now + Instant(nap)]
    BY <1>2, <1>4, <1>7, Zenon
  <1>12. sleeps' \in [Threads -> 0..MaxSleeps] /\ rv' = rv
    <2>1. sleeps' = [sleeps EXCEPT ![t] = sleeps[t] + 1] /\ sleeps[t] < MaxSleeps /\ rv' = rv
      BY Zenon DEF tc_sleep
    <2>2. sleeps[t] + 1 \in 0..MaxSleeps
      BY <1>1, <1>3, <2>1
    <2> QED BY <1>1, <2>1, <2>2, Zenon
  <1> QED BY <1>1, <1>9, <1>10, <1>11, <1>12, Zenon

\* What t carries with it: only the call and the return of tc_sleep() change its end, and
\* only an interruption what it returns.
LEMMA Carried ==
    ASSUME SleepInv, NEW t \in Threads, tc_sleep(t) \/ sleeping(t)
    PROVE  /\ abs_end' \in [Threads -> Nat \X (0..NSEC)] /\ until' \in [Threads -> 0..MaxTime]
           /\ sleeps' \in [Threads -> 0..MaxSleeps] /\ rv' \in [Threads -> {"RV_OK", "RV_INTR"}]
           /\ pc'[t] # "idle" => Instant(abs_end'[t]) = until'[t] /\ (rv'[t] = rv[t] \/ rv'[t] = "RV_INTR")
           /\ pc[t] # "idle" /\ pc'[t] # "idle" => until'[t] = until[t]
  <1>1. /\ abs_end \in [Threads -> Nat \X (0..NSEC)] /\ until \in [Threads -> 0..MaxTime]
        /\ sleeps \in [Threads -> 0..MaxSleeps] /\ rv \in [Threads -> {"RV_OK", "RV_INTR"}]
        /\ Way(t) /\ (pc[t] # "idle" => Instant(abs_end[t]) = until[t])
    BY OneWay, Zenon DEF SleepInv, SleepTypeOK, EndsRight
  <1>2. CASE tc_sleep(t)
    <2>1. pc[t] = "idle"
      BY <1>2, Zenon DEF tc_sleep
    <2> QED BY <1>1, <1>2, <2>1, Called, Zenon
  <1>3. CASE remove_from_timer_list_wakeup(t)
    <2>1. /\ abs_end' = [abs_end EXCEPT ![t] = Unset] /\ until' = [until EXCEPT ![t] = 0]
          /\ rv' = [rv EXCEPT ![t] = "RV_OK"] /\ sleeps' = sleeps /\ pc'[t] = "idle"
      BY <1>1, <1>3, Zenon DEF Way, tw_prepare, tc_sleep, yield, insert_into_timer_list, tw_scheduler, tw_cond,
         tw_trylock, tw_finish, master, expire, unlock_timer, reprogram, read, wait_fd, remove_from_timer_list_wakeup
    <2>2. Unset \in Nat \X (0..NSEC) /\ 0 \in 0..MaxTime
      BY SleepAssumption DEF Unset
    <2> QED BY <1>1, <2>1, <2>2, Zenon
  <1>4. CASE ~tc_sleep(t) /\ ~remove_from_timer_list_wakeup(t)
    <2>1. /\ abs_end' = abs_end /\ until' = until /\ sleeps' = sleeps /\ pc[t] # "idle"
          /\ rv' = rv \/ rv' = [rv EXCEPT ![t] = "RV_INTR"]
      BY <1>1, <1>4, Zenon DEF Way, tw_prepare, yield, insert_into_timer_list, tw_scheduler, tw_cond, kept,
         sleep_interrupted, tw_trylock, tw_finish, master, expire, unlock_timer, reprogram, read, wait_fd
    <2> QED BY <1>1, <2>1, Zenon
  <1> QED BY <1>2, <1>3, <1>4, Zenon

LEMMA TypeStep ==
    ASSUME SleepInv, NEW t \in Threads, tc_sleep(t) \/ sleeping(t)
    PROVE  SleepTypeOK'
  <1>1. now' = now /\ now \in Nat /\ SleepTypeOK
    BY Others, Zenon DEF SleepInv, SleepTypeOK
  <1>2. WaitqType' /\ m_owner' \in Threads \cup {NULL} /\ pc' \in [Threads -> SleepPCs]
    BY <1>1, QueueStep, TimerMutexStep, OneWay, Zenon
  <1>3. timer_list' \in Seq(Threads) /\ ts' \in [Threads -> Nat \X Nat]
        /\ timer' \in Nat \cup {NULL} /\ expired' \in BOOLEAN /\ exited' \in BOOLEAN
    BY ListStep, TimerStep, Zenon
  <1>4. /\ abs_end' \in [Threads -> Nat \X (0..NSEC)] /\ until' \in [Threads -> 0..MaxTime]
        /\ sleeps' \in [Threads -> 0..MaxSleeps] /\ rv' \in [Threads -> {"RV_OK", "RV_INTR"}]
    BY Carried, Zenon
  <1> QED BY <1>1, <1>2, <1>3, <1>4, Zenon DEF SleepTypeOK

\* The ends, who is on the list, and whose time has come.
LEMMA TimeStep ==
    ASSUME SleepInv, NEW t \in Threads, tc_sleep(t) \/ sleeping(t)
    PROVE  EndsRight' /\ StillListed' /\ TimeHasCome' /\ SleepsLongEnough'
           /\ \A u \in Threads : pc'[u] = "reprogram" => Contains(timer_list', u)
  <1>1. /\ Way(t) /\ now' = now /\ now \in Nat
        /\ \A u \in Threads \ {t} :
              pc'[u] = pc[u] /\ rv'[u] = rv[u] /\ abs_end'[u] = abs_end[u] /\ until'[u] = until[u]
        /\ \A u \in Threads \ {t} : u \in active => u \in active'
    BY OneWay, Others, QueueStep, Zenon DEF SleepInv, SleepTypeOK
  <1>2. /\ pc'[t] # "idle" => Instant(abs_end'[t]) = until'[t] /\ (rv'[t] = rv[t] \/ rv'[t] = "RV_INTR")
        /\ pc[t] # "idle" /\ pc'[t] # "idle" => until'[t] = until[t]
    BY Carried, Zenon
  <1>3. /\ insert_into_timer_list(t) => Contains(timer_list', t)
        /\ \A u \in Threads : Contains(timer_list, u) =>
                 \/ Contains(timer_list', u)
                 \/ u = t /\ pc'[t] = "idle"
                 \/ expire(t) /\ ~Earlier(clock, abs_end[u]) /\ (OnQ(u, u) => u \in active')
    BY ListStep, Zenon
  <1>4. /\ \A u \in Threads : abs_end[u] \in Nat \X (0..NSEC)
        /\ \A u \in Threads : pc[u] # "idle" => Instant(abs_end[u]) = until[u]
    BY Zenon DEF SleepInv, SleepTypeOK, EndsRight
  <1>5. \A u \in Threads : pc[u] # "idle" /\ ~Earlier(clock, abs_end[u]) => now >= until[u]
    <2> SUFFICES ASSUME NEW u \in Threads, pc[u] # "idle", ~Earlier(clock, abs_end[u])
                 PROVE  now >= until[u]
      BY Zenon
    <2>1. now >= Instant(abs_end[u])
      BY <1>1, <1>4, NotLater, Zenon
    <2> QED BY <1>4, <2>1, Zenon
  <1>6. /\ \A u \in Threads : pc[u] \in {"tw_trylock", "tw_scheduler"} => u \in active \/ Contains(timer_list, u)
        /\ \A u \in Threads : pc[u] \in ListedPCs /\ rv[u] = "RV_OK" /\ ~Contains(timer_list, u) => now >= until[u]
        /\ \A u \in Threads : pc[u] \in {"tw_finish_done", "unlock", "remove"} /\ rv[u] = "RV_OK" => now >= until[u]
        /\ \A u \in Threads : Contains(timer_list, u) => pc[u] \in ListedPCs
        /\ \A u \in Threads : pc[u] \in {"tw_trylock", "tw_scheduler"} => u \in active \/ OnQ(u, u)
        /\ \A u \in Threads : m_owner = u <=> pc[u] \in MasterPCs
        /\ \A u \in Threads : pc[u] = "reprogram" => Contains(timer_list, u)
    BY Zenon DEF SleepInv, StillListed, TimeHasCome, SleepsLongEnough, ListExact, OwnQueue, OneMaster
  <1>7. EndsRight'
    BY <1>1, <1>2, <1>4, Zenon DEF EndsRight
  <1>8. \A u \in Threads : pc[u] \in ListedPCs => pc[u] # "idle"
    BY Zenon DEF ListedPCs, MasterPCs
  <1>9. ASSUME NEW u \in Threads, u # t
        PROVE  /\ pc'[u] \in {"tw_trylock", "tw_scheduler"} => u \in active' \/ Contains(timer_list', u)
               /\ pc'[u] \in ListedPCs /\ rv'[u] = "RV_OK" /\ ~Contains(timer_list', u) => now >= until'[u]
               /\ pc'[u] \in {"tw_finish_done", "unlock", "remove"} /\ rv'[u] = "RV_OK" => now >= until'[u]
               /\ pc'[u] = "reprogram" => Contains(timer_list', u)
    <2>1. pc'[u] = pc[u] /\ rv'[u] = rv[u] /\ until'[u] = until[u] /\ (u \in active => u \in active')
      BY <1>1, <1>9, Zenon
    <2>2. \/ Contains(timer_list, u) => Contains(timer_list', u)
          \/ expire(t) /\ ~Earlier(clock, abs_end[u]) /\ (OnQ(u, u) => u \in active')
      BY <1>3, <1>9, Zenon
    <2>3. ~(expire(t) /\ pc[u] = "reprogram")
      <3> SUFFICES ASSUME expire(t), pc[u] = "reprogram" PROVE FALSE
        BY Zenon
      <3>1. pc[t] = "expire"
        BY Zenon DEF expire
      <3>2. m_owner = t /\ m_owner = u
        BY <1>6, <3>1, Zenon DEF MasterPCs
      <3> QED BY <1>9, <3>2, Zenon
    <2>4. CASE Contains(timer_list, u) => Contains(timer_list', u)
      BY <1>6, <2>1, <2>4, Zenon
    <2>5. CASE expire(t) /\ ~Earlier(clock, abs_end[u]) /\ (OnQ(u, u) => u \in active')
      <3>1. pc[u] \in ListedPCs => now >= until[u]
        BY <1>5, <1>8, <2>5, Zenon
      <3> QED BY <1>6, <2>1, <2>3, <2>5, <3>1, Zenon
    <2> QED BY <2>2, <2>4, <2>5, Zenon
  <1>10. ASSUME waiting_done(t), pc[t] \in ListedPCs, rv[t] = "RV_OK" PROVE now >= until[t]
    BY <1>5, <1>6, <1>8, <1>10, Zenon DEF waiting_done
  <1>11. ~waiting_done(t) => Contains(timer_list, t)
    BY Zenon DEF waiting_done
  <1>12. /\ pc'[t] \in {"tw_trylock", "tw_scheduler"} => t \in active' \/ Contains(timer_list', t)
         /\ pc'[t] \in {"tw_finish_done", "unlock", "remove"} /\ rv'[t] = "RV_OK" => now >= until'[t]
         /\ pc'[t] = "reprogram" => Contains(timer_list', t)
    <2>1. CASE pc'[t] = "tw_trylock"
      <3>1. ~waiting_done(t) /\ ~expire(t)
        BY <1>1, <2>1, Zenon DEF Way, expire
      <3> QED BY <1>3, <1>11, <2>1, <3>1, Zenon
    <2>2. CASE pc'[t] = "tw_scheduler"
      <3>1. pc[t] = "tw_trylock" /\ tw_trylock(t) /\ ~expire(t)
        BY <1>1, <2>2, Zenon DEF Way, expire
      <3>2. active' = active
        BY <3>1, Zenon DEF tw_trylock, wqVars
      <3> QED BY <1>3, <1>6, <2>2, <3>1, <3>2, Zenon
    <2>3. CASE pc'[t] = "reprogram"
      <3>1. ~waiting_done(t) /\ ~expire(t)
        BY <1>1, <2>3, Zenon DEF Way, expire
      <3> QED BY <1>3, <1>11, <2>3, <3>1, ZenonT(30)
    <2>4. CASE pc'[t] \in {"tw_finish_done", "unlock", "remove"}
      <3>1. ASSUME rv'[t] = "RV_OK" PROVE now >= until'[t]
        <4>1. rv[t] = "RV_OK" /\ pc'[t] # "idle"
          BY <1>2, <2>4, <3>1, ZenonT(30)
        <4>2. \/ waiting_done(t) /\ pc[t] \in ListedPCs
              \/ pc[t] \in {"tw_finish_done", "unlock", "remove"}
          BY <1>1, <2>4, <3>1, Zenon DEF Way, ListedPCs, MasterPCs
        <4>3. pc[t] # "idle"
          BY <1>8, <4>2, Zenon
        <4>4. now >= until[t]
          BY <1>6, <1>10, <4>1, <4>2, ZenonT(30)
        <4> QED BY <1>2, <4>1, <4>3, <4>4, Zenon
      <3> QED BY <2>4, <3>1, Zenon
    <2> QED BY <2>1, <2>2, <2>3, <2>4, Zenon
  <1>13. ASSUME pc'[t] \in ListedPCs, rv'[t] = "RV_OK", ~Contains(timer_list', t) PROVE now >= until'[t]
    <2>1. CASE pc[t] \in ListedPCs
      <3>1. rv[t] = "RV_OK" /\ until'[t] = until[t] /\ pc'[t] # "idle"
        BY <1>2, <1>13, <2>1, Zenon DEF ListedPCs, MasterPCs
      <3>2. CASE ~Contains(timer_list, t)
        BY <1>6, <2>1, <3>1, <3>2, Zenon
      <3>3. CASE Contains(timer_list, t)
        BY <1>3, <1>5, <1>8, <1>13, <2>1, <3>1, <3>3, Zenon
      <3> QED BY <3>2, <3>3, Zenon
    <2>2. CASE pc[t] \notin ListedPCs
      <3>1. insert_into_timer_list(t) \/ rv'[t] = "RV_INTR"
        BY <1>1, <1>13, <2>2, Zenon DEF Way, ListedPCs, MasterPCs
      <3> QED BY <1>3, <1>13, <3>1, Zenon
    <2> QED BY <2>1, <2>2, Zenon
  <1>14. StillListed' /\ TimeHasCome' /\ SleepsLongEnough'
    BY <1>1, <1>9, <1>12, <1>13, Zenon DEF StillListed, TimeHasCome, SleepsLongEnough
  <1> QED BY <1>7, <1>9, <1>12, <1>14, Zenon

\* A step of t leaves nobody asleep without a master, unless the next first sleeper is
\* awake or about to be woken.
LEMMA WatchedStep ==
    ASSUME SleepInv, NEW t \in Threads, tc_sleep(t) \/ sleeping(t)
    PROVE  SleepersWatched'
  <1>1. /\ Way(t) /\ OwnQueue
        /\ \A u \in Threads \ {t} : pc'[u] = pc[u]
        /\ \A u \in Threads \ {t} : (u \in active => u \in active') /\ (u \in sig' <=> u \in sig)
        /\ timer_list' \in Seq(Threads) /\ IsInjective(timer_list') /\ timer_list \in Seq(Threads)
        /\ \A u \in Threads : m_owner = u <=> pc[u] \in MasterPCs
        /\ NULL \notin Threads
    BY OneWay, Others, QueueStep, ListStep, MutexAssumption, Zenon
       DEF SleepInv, SleepTypeOK, ListExact, OneMaster
  <1>2. ASSUME NEW u \in Threads, pc'[u] = "wait_fd" PROVE timer' # NULL \/ expired' \/ exited'
    <2>1. \/ UNCHANGED <<timer, expired, exited>> /\ pc'[t] # "wait_fd"
          \/ timer' # NULL \/ exited'
          \/ pc[t] = "read" /\ pc'[t] # "wait_fd"
      BY TimerStep, Zenon
    <2>2. CASE UNCHANGED <<timer, expired, exited>> /\ pc'[t] # "wait_fd"
      <3>1. pc[u] = "wait_fd"
        BY <1>1, <1>2, <2>2, Zenon
      <3>2. timer # NULL \/ expired \/ exited
        BY <3>1, Zenon DEF SleepInv, SleepersWatched
      <3> QED BY <2>2, <3>2, Zenon
    <2>3. CASE pc[t] = "read" /\ pc'[t] # "wait_fd"
      <3>1. u # t /\ pc[u] = "wait_fd"
        BY <1>1, <1>2, <2>3, Zenon
      <3>2. m_owner = t /\ m_owner = u
        BY <1>1, <2>3, <3>1, Zenon DEF MasterPCs
      <3> QED BY <3>1, <3>2, Zenon
    <2> QED BY <2>1, <2>2, <2>3, Zenon
  <1>3. ASSUME NEW u \in Threads, Asleep(u)' PROVE Contains(timer_list', u)
    BY <1>3, TimeStep, Zenon DEF StillListed, Asleep
  <1>4. ASSUME NEW u \in Threads, u # t, Asleep(u)' PROVE Asleep(u)
    BY <1>1, <1>4, Zenon DEF Asleep
  <1>5. ASSUME NEW u \in Threads, Asleep(u)', m_owner' = NULL, pc'[t] # "remove"
        PROVE  ~Asleep(Head(timer_list))' \/ \E v \in Threads : pc'[v] = "remove"
    <2>1. ~unlock_timer(t) /\ ~tw_trylock(t) /\ pc'[t] # "tw_scheduler"
      <3>1. ~unlock_timer(t)
        BY <1>1, <1>5, Zenon DEF Way, unlock_timer, tc_sleep, yield, insert_into_timer_list, tw_prepare, tw_scheduler,
           tw_cond, tw_trylock, tw_finish, master, expire, reprogram, read, wait_fd, remove_from_timer_list_wakeup
      <3>2. ~tw_trylock(t)
        BY <1>1, <1>5, Zenon DEF tw_trylock, cas_owner
      <3> QED BY <1>1, <3>1, <3>2, Zenon DEF Way
    <2>2. m_owner = NULL /\ u # t /\ ~Asleep(t)'
      <3>1. m_owner' = m_owner
        BY <2>1, TimerMutexStep, Zenon
      <3> QED BY <1>5, <2>1, <3>1, Zenon DEF Asleep
    <2>3. ~expire(t)
      <3> SUFFICES ASSUME expire(t) PROVE FALSE
        BY Zenon
      <3>1. pc[t] = "expire"
        BY Zenon DEF expire
      <3> QED BY <1>1, <2>2, <3>1, Zenon DEF MasterPCs
    <2>4. Contains(timer_list', u) /\ timer_list' # <<>>
      <3>1. Contains(timer_list', u)
        BY <1>3, <1>5, Zenon
      <3> QED BY <1>1, <3>1 DEF Contains
    <2>5. Head(timer_list') \in Threads
      BY <1>1, <2>4, TailOf, Zenon
    <2>6. PICK h \in Threads : h = Head(timer_list')
      BY <2>5, Zenon
    <2>7. CASE pc'[t] = "idle"
      <3> SUFFICES ASSUME Asleep(h)' PROVE FALSE
        BY <2>6, Zenon DEF Asleep
      <3>1. h # t /\ Asleep(h)
        BY <1>4, <2>2, Zenon
      <3>2. OnQ(h, h)
        BY <1>1, <3>1, Zenon DEF OwnQueue, Asleep
      <3>3. h \in active'
        BY <2>4, <2>6, <2>7, <3>2, ListStep, Zenon
      <3> QED BY <3>3, Zenon DEF Asleep
    <2>8. CASE pc'[t] # "idle"
      <3>1. Asleep(u)
        BY <1>4, <1>5, <2>2, Zenon
      <3>2. Contains(timer_list, u) /\ (~Asleep(Head(timer_list)) \/ \E v \in Threads : pc[v] = "remove")
        BY <2>2, <3>1, Zenon DEF SleepInv, SleepersWatched
      <3>3. timer_list # <<>>
        BY <1>1, <3>2 DEF Contains
      <3>4. h = Head(timer_list) \/ h = t
        BY <2>3, <2>6, <2>8, <3>3, ListStep, ZenonT(30)
      <3>5. ASSUME NEW v \in Threads, pc[v] = "remove" PROVE pc'[v] = "remove"
        <4>1. v # t
          BY <1>1, <2>8, <3>5, Zenon DEF Way
        <4> QED BY <1>1, <3>5, <4>1, Zenon
      <3>6. ASSUME ~Asleep(Head(timer_list)) PROVE ~Asleep(h)'
        <4>1. CASE h = t
          BY <2>2, <4>1, Zenon
        <4>2. CASE h # t
          <5>1. ~Asleep(h)
            BY <3>4, <3>6, <4>2, Zenon
          <5> QED BY <1>4, <4>2, <5>1, Zenon
        <4> QED BY <4>1, <4>2, Zenon
      <3>7. Asleep(Head(timer_list))' <=> Asleep(h)'
        BY <2>6, Zenon DEF Asleep
      <3> QED BY <3>2, <3>5, <3>6, <3>7, Zenon
    <2> QED BY <2>7, <2>8, Zenon
  <1>6. ASSUME NEW u \in Threads, Asleep(u)'
        PROVE  m_owner' # NULL \/ ~Asleep(Head(timer_list))' \/ \E v \in Threads : pc'[v] = "remove"
    BY <1>5, <1>6, Zenon
  <1>7. \A u \in Threads : Asleep(u)' <=> (pc'[u] = "tw_scheduler" /\ u \notin active' \cup sig')
    BY Zenon DEF Asleep
  <1>8. Asleep(Head(timer_list))' <=>
           (pc'[Head(timer_list')] = "tw_scheduler" /\ Head(timer_list') \notin active' \cup sig')
    BY Zenon DEF Asleep
  <1> QED BY <1>2, <1>3, <1>6, <1>7, <1>8, Zenon DEF SleepersWatched, Asleep

\* A step of a thread.
LEMMA ThreadStep ==
    ASSUME SleepInv, NEW t \in Threads, tc_sleep(t) \/ sleeping(t)
    PROVE  SleepInv'
  <1>1. SleepTypeOK' /\ OwnQueue' /\ ListExact' /\ SleepersWatched'
    BY TypeStep, QueueStep, ListStep, WatchedStep, Zenon
  <1>2. EndsRight' /\ StillListed' /\ TimeHasCome' /\ SleepsLongEnough' /\ OneMaster'
    BY TimeStep, TimerMutexStep, Zenon DEF OneMaster
  <1> QED BY <1>1, <1>2, Zenon DEF SleepInv

\* The clock, the timer and signals.
LEMMA OtherStep ==
    ASSUME SleepInv, (\E t \in Threads : sleep_signal(t)) \/ tick \/ timer_expires \/ UNCHANGED sleepVars
    PROVE  SleepInv'
  <1>1. SleepTypeOK /\ WaitqType /\ now \in Nat /\ timer \in Nat \cup {NULL} /\ expired \in BOOLEAN
        /\ until \in [Threads -> 0..MaxTime] /\ sig \subseteq Threads
    BY Zenon DEF SleepInv, SleepTypeOK, WaitqType
  <1>2. UNCHANGED <<waiters, active, woken, pc, m_owner, timer_list, abs_end, rv, sleeps, until, ts, exited>>
    BY Zenon DEF sleep_signal, signal, tc_signal_fire, tick, timer_expires, sleepVars, vars, wqVars, timeVars, kept
  <1>3. /\ sig \subseteq sig' /\ sig' \subseteq Threads
        /\ now' = now \/ now' = now + 1
        /\ timer' \in Nat \cup {NULL} /\ expired' \in BOOLEAN
        /\ timer # NULL \/ expired => timer' # NULL \/ expired'
    <2>1. CASE \E t \in Threads : sleep_signal(t)
      <3>1. now' = now /\ timer' = timer /\ expired' = expired
        BY <2>1, Zenon DEF sleep_signal, timeVars
      <3>2. sig \subseteq sig' /\ sig' \subseteq Threads
        BY <1>1, <2>1, Zenon DEF sleep_signal, signal, tc_signal_fire
      <3> QED BY <1>1, <3>1, <3>2, Zenon
    <2>2. CASE tick
      <3>1. sig' = sig /\ timer' = timer /\ expired' = expired /\ now' = now + 1
        BY <2>2, Zenon DEF tick, vars, wqVars
      <3> QED BY <1>1, <3>1, Zenon
    <2>3. CASE timer_expires
      BY <1>1, <2>3, Zenon DEF timer_expires, vars, wqVars
    <2>4. CASE UNCHANGED sleepVars
      BY <1>1, <2>4, Zenon DEF sleepVars, vars, wqVars, timeVars
    <2> QED BY <2>1, <2>2, <2>3, <2>4, Zenon
  <1>4. now' \in Nat /\ \A u \in Threads : now >= until[u] => now' >= until[u]
    BY <1>1, <1>3
  <1>5. WaitqType'
    BY <1>1, <1>2, <1>3, Zenon DEF WaitqType
  <1>6. SleepTypeOK'
    BY <1>1, <1>2, <1>3, <1>4, <1>5, ZenonT(30) DEF SleepTypeOK
  <1>7. OwnQueue' /\ ListExact' /\ StillListed' /\ EndsRight' /\ OneMaster'
    BY <1>2, Zenon DEF SleepInv, OwnQueue, OnQ, ListExact, Ordered, StillListed, EndsRight, OneMaster
  <1>8. TimeHasCome' /\ SleepsLongEnough'
    BY <1>2, <1>4, Zenon DEF SleepInv, TimeHasCome, SleepsLongEnough
  <1>9. SleepersWatched'
    <2>1. \A u : Asleep(u)' => Asleep(u)
      BY <1>2, <1>3, Zenon DEF Asleep
    <2>2. \A u \in Threads : Asleep(u) =>
             /\ Contains(timer_list, u)
             /\ m_owner # NULL \/ ~Asleep(Head(timer_list)) \/ \E v \in Threads : pc[v] = "remove"
      BY Zenon DEF SleepInv, SleepersWatched
    <2>3. \A u \in Threads : pc[u] = "wait_fd" => timer # NULL \/ expired \/ exited
      BY Zenon DEF SleepInv, SleepersWatched
    <2>4. \A u \in Threads : pc'[u] = "wait_fd" => timer' # NULL \/ expired' \/ exited'
      BY <1>2, <1>3, <2>3, Zenon
    <2>6. \A u \in Threads : Asleep(u)' =>
             /\ Contains(timer_list', u)
             /\ m_owner' # NULL \/ ~Asleep(Head(timer_list))' \/ \E v \in Threads : pc'[v] = "remove"
      BY <1>2, <2>1, <2>2, Zenon
    <2> QED BY <1>2, <2>4, <2>6, Zenon DEF SleepersWatched
  <1> QED BY <1>6, <1>7, <1>8, <1>9, Zenon DEF SleepInv

\* The invariant holds when nobody sleeps.
LEMMA SleepStarts == SleepInit => SleepInv
  <1> SUFFICES ASSUME SleepInit PROVE SleepInv
    BY Zenon
  <1>1. /\ WaitqInit /\ m_owner = NULL /\ pc = [t \in Threads |-> "idle"] /\ timer_list = <<>>
        /\ now = 0 /\ timer = NULL /\ expired = FALSE /\ exited = FALSE
        /\ abs_end = [t \in Threads |-> Unset] /\ ts = [t \in Threads |-> Unset]
        /\ rv = [t \in Threads |-> "RV_OK"] /\ sleeps = [t \in Threads |-> 0] /\ until = [t \in Threads |-> 0]
    BY Zenon DEF SleepInit, MutexInit
  <1>2. WaitqType /\ active = {} /\ \A q \in Queues, t \in Threads : ~OnQ(q, t)
    BY <1>1, InitQueues, Zenon
  <1>3. /\ timer_list \in Seq(Threads) /\ IsInjective(timer_list) /\ \A u : ~Contains(timer_list, u)
        /\ Ordered(timer_list, abs_end)
    BY <1>1 DEF IsInjective, Contains, Ordered
  <1>4. \A t \in Threads : pc[t] = "idle"
    BY <1>1, Zenon
  <1>5. Unset \in Nat \X (0..NSEC) /\ Unset \in Nat \X Nat /\ 0 \in Nat /\ 0 \in 0..MaxTime /\ 0 \in 0..MaxSleeps
    BY SleepAssumption DEF Unset
  <1>6. SleepTypeOK
    <2>1. pc \in [Threads -> SleepPCs] /\ rv \in [Threads -> {"RV_OK", "RV_INTR"}]
      BY <1>1, Zenon DEF SleepPCs
    <2>2. /\ abs_end \in [Threads -> Nat \X (0..NSEC)] /\ ts \in [Threads -> Nat \X Nat]
          /\ sleeps \in [Threads -> 0..MaxSleeps] /\ until \in [Threads -> 0..MaxTime]
      BY <1>1, <1>5, Zenon
    <2> QED BY <1>1, <1>2, <1>3, <1>5, <2>1, <2>2, Zenon DEF SleepTypeOK
  <1>7. OwnQueue
    BY <1>2, <1>4, Zenon DEF OwnQueue
  <1>8. ListExact /\ StillListed /\ EndsRight /\ TimeHasCome
    BY <1>3, <1>4, Zenon DEF ListExact, StillListed, EndsRight, TimeHasCome, ListedPCs, MasterPCs
  <1>9. OneMaster /\ SleepersWatched /\ SleepsLongEnough
    BY <1>1, <1>4, MutexAssumption, Zenon DEF OneMaster, SleepersWatched, SleepsLongEnough, MasterPCs, Asleep
  <1> QED BY <1>6, <1>7, <1>8, <1>9, Zenon DEF SleepInv

\* SleepInv is an invariant of tc_sleep().
THEOREM SleepInductive == SleepSpec => []SleepInv
  <1>1. SleepInv /\ [SleepNext]_sleepVars => SleepInv'
    BY ThreadStep, OtherStep, Zenon DEF SleepNext
  <1> QED BY <1>1, SleepStarts, PTL DEF SleepSpec

\* The list of the sleepers is in the order of their ends, and has nobody twice and
\* nobody who has returned, whatever a master and the sleepers did with it in between.
THEOREM TimerListCorrect == SleepSpec => []TimerListExact
  <1>1. SleepInv => TimerListExact
    <2> SUFFICES ASSUME SleepInv PROVE TimerListExact
      BY Zenon
    <2>1. /\ SleepTypeOK /\ timer_list \in Seq(Threads) /\ IsInjective(timer_list)
          /\ Ordered(timer_list, abs_end)
          /\ \A u \in Threads : Contains(timer_list, u) => pc[u] \in ListedPCs
      BY Zenon DEF SleepInv, SleepTypeOK, ListExact
    <2>2. DOMAIN timer_list = 1..Len(timer_list)
      BY <2>1
    <2>3. ASSUME NEW u \in Range(timer_list) PROVE pc[u] \in ListedPCs
      <3>1. u \in Threads /\ Contains(timer_list, u)
        BY <2>1, <2>2 DEF Range, Contains
      <3> QED BY <2>1, <3>1, ZenonT(30)
    <2>4. \A i, j \in DOMAIN timer_list :
             i < j => ~Earlier(abs_end[timer_list[j]], abs_end[timer_list[i]])
      BY <2>1, <2>2, Zenon DEF Ordered
    <2> QED BY <2>1, <2>3, <2>4, Zenon DEF TimerListExact
  <1> QED BY <1>1, SleepInductive, PTL

\* tc_sleep() does not return early, unless it is interrupted.
THEOREM LongEnoughCorrect == SleepSpec => []SleepsLongEnough
  <1>1. SleepInv => SleepsLongEnough
    BY Zenon DEF SleepInv
  <1> QED BY <1>1, SleepInductive, PTL

\* There is one master, and it finds a first sleeper.
THEOREM OneMasterCorrect == SleepSpec => []OneMaster
  <1>1. SleepInv => OneMaster
    BY Zenon DEF SleepInv
  <1> QED BY <1>1, SleepInductive, PTL

\* Nobody sleeps unobserved: take_over() wakes the next master, and the timer runs.
THEOREM SleepersCorrect == SleepSpec => []SleepersWatched
  <1>1. SleepInv => SleepersWatched
    BY Zenon DEF SleepInv
  <1> QED BY <1>1, SleepInductive, PTL
=============================================================================
