---------------------------- MODULE WatcherProofs ----------------------------
(***************************************************************************)
(* Proofs about Watcher: what is tracked is published, only a poll reopens *)
(* a case, a dated docket shows its latest ruling whatever its order, and  *)
(* a run is a WorkList.  First the lemmas about CaseState they rest on:    *)
(* the insertion sort of movementsChronological is stable.                 *)
(***************************************************************************)
EXTENDS Watcher, FetchPoolProofs, WellFoundedInduction

-------------------------------------------------------------------------------
(* Numbers.                                                                *)

\* A set of numbers with elements has a least one.
LEMMA LeastIn ==
  ASSUME NEW S \in SUBSET Nat, S # {}
  PROVE  \E n \in S : \A m \in S : n <= m
<1> DEFINE T == {0..n : n \in S}
           R == StrictSubsetOrdering(Nat)
<1>1. T \subseteq FiniteSubsetsOf(Nat) /\ T # {}
  <2>1. \A n \in Nat : 0..n \subseteq Nat /\ IsFiniteSet(0..n)
    BY FS_Interval
  <2> QED
    BY <2>1 DEF FiniteSubsetsOf
<1>2. PICK x \in T : \A y \in T : ~(<<y, x>> \in R)
  <2> HIDE DEF T, R
  <2> QED
    BY <1>1, FS_StrictSubsetOrderingWellFounded, WFMin DEF R
<1>3. PICK n \in S : x = 0..n
  OBVIOUS
<1>4. ASSUME NEW m \in S, m < n PROVE FALSE
  <2>1. (0..m) \subseteq x /\ n \in x /\ n \notin 0..m
    BY <1>3, <1>4
  <2>2. <<0..m, x>> \in R
    BY <2>1, <1>1, <1>3 DEF StrictSubsetOrdering
  <2> QED
    BY <2>2, <1>2
<1> QED
  BY <1>4

\* Induction, over a set: the theorems of the library take a predicate.
LEMMA Induct ==
  ASSUME NEW S \in SUBSET Nat, 0 \in S, \A n \in S : n + 1 \in S
  PROVE  S = Nat
<1> SUFFICES ASSUME S # Nat PROVE FALSE
  OBVIOUS
<1>1. PICK n \in Nat \ S : \A m \in Nat \ S : n <= m
  BY LeastIn
<1>2. n - 1 \in S
  BY <1>1
<1> QED
  BY <1>1, <1>2

\* A bounded set of numbers with elements has a greatest one.
LEMMA GreatestIn ==
  ASSUME NEW S \in SUBSET Nat, S # {}, NEW b \in Nat, \A n \in S : n <= b
  PROVE  \E n \in S : \A m \in S : m <= n
<1> DEFINE B == {c \in Nat : \A n \in S : n <= c}
<1>1. PICK c \in B : \A d \in B : c <= d
  <2>1. b \in B
    OBVIOUS
  <2> QED
    BY <2>1, LeastIn
<1>2. c \in S
  <2> SUFFICES ASSUME c \notin S PROVE FALSE
    OBVIOUS
  <2>1. \A n \in S : n < c
    BY <1>1
  <2>2. c - 1 \in B
    <3>1. PICK n \in S : TRUE
      OBVIOUS
    <3>2. c - 1 \in Nat
      BY <2>1, <3>1
    <3> QED
      BY <2>1, <3>2
  <2> QED
    BY <2>2, <1>1
<1> QED
  BY <1>1, <1>2

\* What Max picks.
LEMMA MaxIn ==
  ASSUME NEW S \in SUBSET Nat, S # {}, NEW b \in Nat, \A n \in S : n <= b
  PROVE  Max(S) \in S /\ \A n \in S : n <= Max(S)
<1>1. \E x \in S : \A y \in S : x >= y
  <2>1. PICK n \in S : \A m \in S : m <= n
    BY GreatestIn
  <2>2. \A y \in S : n >= y
    BY <2>1
  <2> QED
    BY <2>2
<1>2. Max(S) \in S /\ \A y \in S : Max(S) >= y
  BY <1>1 DEF Max
<1>3. Max(S) \in Nat
  BY <1>2
<1> QED
  BY <1>2, <1>3

-------------------------------------------------------------------------------
(* The insertion sort of movementsChronological.                           *)

\* t is s with m behind its first k items.
Spliced(s, m, k, t) ==
  /\ t \in Seq(Movement) /\ Len(t) = Len(s) + 1
  /\ \A i \in 1..k : t[i] = s[i]
  /\ t[k + 1] = m
  /\ \A i \in (k + 2)..Len(t) : t[i] = s[i - 1]

\* What Insert does: m goes back past those it is before, up to the first it is not.
Behind(s, m, k, t) ==
  /\ Spliced(s, m, k, t)
  /\ k # 0 => ~Before(m, s[k])
  /\ \A i \in (k + 1)..Len(s) : Before(m, s[i])

\* The expression of movementsChronological is the splice of m behind the k-th.
LEMMA Splice ==
  ASSUME NEW s \in Seq(Movement), NEW m \in Movement, NEW j \in 0..Len(s)
  PROVE  Spliced(s, m, j, SubSeq(s, 1, (1 + j) - 1) \o <<m>> \o SubSeq(s, 1 + j, Len(s)))
<1> DEFINE n == Len(s)
           a == SubSeq(s, 1, (1 + j) - 1)
           b == SubSeq(s, 1 + j, Len(s))
           c == a \o <<m>>
           t == c \o b
<1>1. n \in Nat /\ j \in Nat /\ j <= n
  OBVIOUS
<1>2. /\ a \in Seq(Movement) /\ Len(a) = j
      /\ \A i \in 1..j : a[i] = s[i]
  OBVIOUS
<1>3. /\ b \in Seq(Movement) /\ Len(b) = n - j
      /\ \A i \in 1..(n - j) : b[i] = s[j + i]
  OBVIOUS
<1> HIDE DEF a, b, n
<1>4. /\ c \in Seq(Movement) /\ Len(c) = j + 1
      /\ \A i \in 1..j : c[i] = a[i]
      /\ c[j + 1] = m
  BY <1>1, <1>2
<1> HIDE DEF c
<1>5. /\ t \in Seq(Movement) /\ Len(t) = (j + 1) + (n - j)
      /\ \A i \in 1..Len(t) : t[i] = IF i <= j + 1 THEN c[i] ELSE b[i - (j + 1)]
  BY <1>1, <1>3, <1>4
<1> HIDE DEF t
<1>6. Len(t) = n + 1
  BY <1>1, <1>5
<1>7. \A i \in 1..j : t[i] = s[i]
  BY <1>1, <1>2, <1>4, <1>5, <1>6
<1>8. t[j + 1] = m
  BY <1>1, <1>4, <1>5, <1>6
<1>9. ASSUME NEW i \in (j + 2)..(n + 1) PROVE t[i] = s[i - 1]
  <2> DEFINE k == i - (j + 1)
  <2>1. k \in 1..(n - j) /\ j + k = i - 1 /\ i \in 1..(n + 1) /\ ~(i <= j + 1)
    BY <1>1
  <2>2. t[i] = b[k]
    BY <1>5, <1>6, <2>1
  <2> HIDE DEF k
  <2> QED
    BY <1>3, <2>1, <2>2
<1>10. Spliced(s, m, j, t)
  BY <1>5, <1>6, <1>7, <1>8, <1>9 DEF Spliced, n
<1> QED
  BY <1>10 DEF t, c, a, b

\* Insert puts a movement behind the last one it is not before.
LEMMA InsertBehind ==
  ASSUME NEW s \in Seq(Movement), NEW m \in Movement
  PROVE  \E k \in 0..Len(s) : Behind(s, m, k, Insert(s, m))
<1> DEFINE stops_at == {0} \cup {i \in DOMAIN s : ~Before(m, s[i])}
           k == Max(stops_at)
<1>1. DOMAIN s = 1..Len(s) /\ Len(s) \in Nat
  OBVIOUS
<1>2. /\ k \in stops_at /\ \A n \in stops_at : n <= k
  <2>1. stops_at \in SUBSET Nat /\ stops_at # {} /\ \A n \in stops_at : n <= Len(s)
    BY <1>1
  <2> HIDE DEF stops_at
  <2> QED
    BY <1>1, <2>1, MaxIn
<1>3. Insert(s, m) = SubSeq(s, 1, (1 + k) - 1) \o <<m>> \o SubSeq(s, 1 + k, Len(s))
  BY DEF Insert, InsertAt
<1>4. /\ k \in 0..Len(s)
      /\ k # 0 => ~Before(m, s[k])
      /\ \A i \in (k + 1)..Len(s) : Before(m, s[i])
  <2> HIDE DEF k
  <2>1. k \in 0..Len(s)
    BY <1>1, <1>2
  <2>2. ASSUME NEW i \in (k + 1)..Len(s), ~Before(m, s[i]) PROVE FALSE
    <3>1. i \in DOMAIN s /\ i > k
      BY <1>1, <2>1
    <3> QED
      BY <1>2, <2>1, <2>2, <3>1
  <2> QED
    BY <1>2, <2>1, <2>2
<1>5. ASSUME NEW j \in 0..Len(s) PROVE Spliced(s, m, j, SubSeq(s, 1, (1 + j) - 1) \o <<m>> \o SubSeq(s, 1 + j, Len(s)))
  BY Splice
<1> HIDE DEF k
<1>6. PICK j \in 0..Len(s) : j = k
  BY <1>4
<1>7. Spliced(s, m, j, Insert(s, m))
  BY <1>3, <1>5, <1>6
<1>8. Behind(s, m, j, Insert(s, m))
  BY <1>4, <1>6, <1>7 DEF Behind
<1> QED
  BY <1>8

\* The recursive function of movementsChronological is what its definition says.
LEMMA SortSteps ==
  ASSUME NEW movs \in Seq(Movement)
  PROVE  \E f : /\ movementsChronological(movs) = f[Len(movs)]
                /\ f[0] = <<>>
                /\ \A n \in 0..Len(movs) : n + 1 \in 0..Len(movs) => f[n + 1] = Insert(f[n], movs[n + 1])
<1> DEFINE N == Len(movs)
           Next1(f, n) == IF n = 0 THEN <<>> ELSE Insert(f[n - 1], movs[n])
           Upto(k) == \E f : f = [n \in 0..k |-> Next1(f, n)]
           S == {k \in Nat : Upto(k)}
           sorted[n \in 0..Len(movs)] == IF n = 0 THEN <<>> ELSE Insert(sorted[n - 1], movs[n])
<1>1. N \in Nat
  OBVIOUS
<1>2. Upto(0)
  <2> DEFINE f == [n \in 0..0 |-> <<>>]
  <2>1. f = [n \in 0..0 |-> Next1(f, n)]
    OBVIOUS
  <2> QED
    BY <2>1
<1>3. ASSUME NEW k \in Nat, Upto(k) PROVE Upto(k + 1)
  <2>1. PICK f : f = [n \in 0..k |-> Next1(f, n)]
    BY <1>3
  <2> DEFINE g == [n \in 0..(k + 1) |-> IF n \in 0..k THEN f[n] ELSE Insert(f[k], movs[k + 1])]
  <2>2. ASSUME NEW n \in 0..(k + 1) PROVE g[n] = Next1(g, n)
    <3>1. CASE n = 0
      <4>1. g[0] = f[0] /\ f[0] = <<>>
        BY <2>1
      <4> QED
        BY <3>1, <4>1
    <3>2. CASE n \in 1..k
      <4>1. g[n] = f[n] /\ g[n - 1] = f[n - 1]
        BY <3>2
      <4>2. f[n] = Insert(f[n - 1], movs[n])
        BY <2>1, <3>2
      <4> QED
        BY <3>2, <4>1, <4>2
    <3>3. CASE n = k + 1
      <4>1. g[n] = Insert(f[k], movs[n]) /\ g[n - 1] = f[k]
        BY <3>3
      <4> QED
        BY <3>3, <4>1
    <3> QED
      BY <3>1, <3>2, <3>3
  <2>3. g = [n \in 0..(k + 1) |-> Next1(g, n)]
    <3>1. g = [n \in 0..(k + 1) |-> g[n]]
      OBVIOUS
    <3> HIDE DEF g, Next1
    <3> QED
      BY <2>2, <3>1
  <2> QED
    BY <2>3
<1>4. Upto(N)
  <2> HIDE DEF Upto, N
  <2>1. S \in SUBSET Nat /\ 0 \in S /\ \A k \in S : k + 1 \in S
    BY <1>2, <1>3
  <2> HIDE DEF S
  <2>2. S = Nat
    BY <2>1, Induct
  <2> QED
    BY <1>1, <2>2 DEF S
<1>5. sorted = [n \in 0..N |-> Next1(sorted, n)]
  BY <1>4 DEF sorted
<1>6. movementsChronological(movs) = sorted[N]
  BY DEF movementsChronological
<1> HIDE DEF sorted
<1>7. sorted[0] = <<>>
  BY <1>1, <1>5
<1>8. ASSUME NEW n \in 0..N, n + 1 \in 0..N PROVE sorted[n + 1] = Insert(sorted[n], movs[n + 1])
  BY <1>1, <1>5, <1>8
<1> QED
  BY <1>6, <1>7, <1>8

DatesOf(movs) == [i \in DOMAIN movs |-> movs[i].time]

\* p puts the first n of the times t in order, and equal ones as they come.
Onto(p, n)    == \A k \in 1..n : \E i \in 1..n : p[i] = k
Less(t, x, y) == t[x] < t[y] \/ (t[x] = t[y] /\ x < y)
Increasing(p, t, n) == \A i \in 1..n, j \in 1..n : i < j => Less(t, p[i], p[j])
Orders(p, t, n) == p \in [1..n -> 1..n] /\ Onto(p, n) /\ Increasing(p, t, n)

\* The next time has its place behind the first k of those in order.
Place(p, t, n, k) ==
  /\ k # 0 => t[p[k]] <= t[n + 1]
  /\ \A i \in (k + 1)..n : t[n + 1] < t[p[i]]

\* s is the first n movements of movs by their dates, those of the same date as listed.
StableSort(s, movs, n) ==
  /\ s \in Seq(Movement) /\ Len(s) = n
  /\ \E p : Orders(p, DatesOf(movs), n) /\ \A i \in 1..n : s[i] = movs[p[i]]

\* Sorting a docket neither adds nor drops a movement, also when some have no date.
LEMMA SortTyped ==
  ASSUME NEW movs \in Seq(Movement)
  PROVE  movementsChronological(movs) \in Seq(Movement) /\ Len(movementsChronological(movs)) = Len(movs)
<1> DEFINE N == Len(movs)
<1>1. PICK f : /\ movementsChronological(movs) = f[N]
               /\ f[0] = <<>>
               /\ \A n \in 0..N : n + 1 \in 0..N => f[n + 1] = Insert(f[n], movs[n + 1])
  BY SortSteps
<1> DEFINE P(n) == f[n] \in Seq(Movement) /\ Len(f[n]) = n
           S == {n \in Nat : n <= N => P(n)}
<1>2. N \in Nat /\ \A n \in 0..N : n + 1 \in 0..N => movs[n + 1] \in Movement
  OBVIOUS
<1> HIDE DEF N
<1>3. P(0)
  BY <1>1
<1>4. ASSUME NEW n \in Nat, n + 1 <= N, P(n) PROVE P(n + 1)
  <2>1. n \in 0..N /\ n + 1 \in 0..N
    BY <1>2, <1>4
  <2>2. PICK k \in 0..Len(f[n]) : Behind(f[n], movs[n + 1], k, Insert(f[n], movs[n + 1]))
    BY <1>2, <1>4, <2>1, InsertBehind
  <2> QED
    BY <1>1, <1>4, <2>1, <2>2 DEF Behind, Spliced
<1> HIDE DEF P
<1>5. S \in SUBSET Nat /\ 0 \in S /\ \A n \in S : n + 1 \in S
  BY <1>2, <1>3, <1>4
<1> HIDE DEF S
<1>6. S = Nat
  BY <1>5, Induct
<1>7. P(N)
  BY <1>2, <1>6 DEF S
<1> QED
  BY <1>1, <1>7 DEF P, N

\* The next time takes its place among the first n, behind those that are not later.
\* q is p with n + 1 behind its first k.
MadeRoom(q, p, n, k) ==
  /\ \A i \in 1..k : q[i] = p[i]
  /\ q[k + 1] = n + 1
  /\ \A i \in (k + 2)..(n + 1) : q[i] = p[i - 1]

\* An order of n places becomes one of n + 1 when room is made behind the last that is
\* not later.
LEMMA NextInOrder ==
  ASSUME NEW n \in Nat, NEW L \in Nat, n + 1 <= L, NEW t \in [1..L -> Nat],
         NEW p, Orders(p, t, n), NEW k \in 0..n, Place(p, t, n, k)
  PROVE  \E q : Orders(q, t, n + 1) /\ MadeRoom(q, p, n, k)
<1> DEFINE q == [i \in 1..(n + 1) |-> IF i <= k THEN p[i] ELSE IF i = k + 1 THEN n + 1 ELSE p[i - 1]]
<1>1. /\ k \in Nat /\ k <= n
      /\ p \in [1..n -> 1..n] /\ Onto(p, n) /\ Increasing(p, t, n)
  BY DEF Orders
<1>2. \A i \in 1..k : i \in 1..n /\ i \in 1..(n + 1) /\ q[i] = p[i] /\ p[i] \in 1..n
  BY <1>1
<1>3. k + 1 \in 1..(n + 1) /\ q[k + 1] = n + 1
  BY <1>1
<1>4. \A i \in (k + 2)..(n + 1) : i - 1 \in 1..n /\ i - 1 \in (k + 1)..n /\ q[i] = p[i - 1] /\ p[i - 1] \in 1..n
  <2> TAKE i \in (k + 2)..(n + 1)
  <2>1. i \in 1..(n + 1) /\ ~(i <= k) /\ i # k + 1 /\ i - 1 \in (k + 1)..n /\ i - 1 \in 1..n
    BY <1>1
  <2> QED
    BY <1>1, <2>1
<1>5. \A i \in 1..(n + 1) : i \in 1..k \/ i = k + 1 \/ i \in (k + 2)..(n + 1)
  BY <1>1
<1>6. q \in [1..(n + 1) -> 1..(n + 1)]
  <2>1. q = [i \in 1..(n + 1) |-> q[i]]
    OBVIOUS
  <2>2. ASSUME NEW i \in 1..(n + 1) PROVE q[i] \in 1..(n + 1)
    <3> HIDE DEF q
    <3>1. CASE i \in 1..k
      <4>1. q[i] \in 1..n
        BY <1>2, <3>1
      <4> QED
        BY <4>1
    <3>2. CASE i = k + 1
      BY <1>3, <3>2
    <3>3. CASE i \in (k + 2)..(n + 1)
      <4>1. q[i] \in 1..n
        BY <1>4, <3>3
      <4> QED
        BY <4>1
    <3> QED
      BY <1>5, <3>1, <3>2, <3>3
  <2> HIDE DEF q
  <2> QED
    BY <2>1, <2>2
<1> HIDE DEF q
<1>7. Onto(q, n + 1)
  <2> SUFFICES ASSUME NEW j \in 1..(n + 1) PROVE \E i \in 1..(n + 1) : q[i] = j
    BY DEF Onto
  <2>1. CASE j = n + 1
    BY <1>3, <2>1
  <2>2. CASE j # n + 1
    <3>1. PICK i \in 1..n : p[i] = j
      BY <1>1, <2>2 DEF Onto
    <3>2. CASE i <= k
      <4>1. i \in 1..k
        BY <3>2
      <4> QED
        BY <1>2, <3>1, <4>1
    <3>3. CASE i > k
      <4>1. i + 1 \in (k + 2)..(n + 1) /\ i + 1 \in 1..(n + 1) /\ (i + 1) - 1 = i
        BY <1>1, <3>3
      <4>2. q[i + 1] = p[i]
        BY <1>4, <4>1
      <4> QED
        BY <3>1, <4>1, <4>2
    <3> QED
      BY <1>1, <3>2, <3>3
  <2> QED
    BY <2>1, <2>2
<1>8. \A i \in 1..n : t[p[i]] \in Nat /\ p[i] \in 1..n
  <2> TAKE i \in 1..n
  <2>1. p[i] \in 1..n /\ p[i] \in 1..L
    BY <1>1
  <2> QED
    BY <2>1
<1>9. t[n + 1] \in Nat
  OBVIOUS
<1>10. ASSUME NEW i \in 1..k PROVE t[p[i]] <= t[n + 1]
  <2>1. k \in 1..n /\ i \in 1..n /\ k # 0 /\ (i < k \/ i = k)
    BY <1>1
  <2>2. t[p[k]] <= t[n + 1]
    BY <2>1 DEF Place
  <2>3. CASE i = k
    BY <2>2, <2>3
  <2>4. CASE i < k
    <3>1. Less(t, p[i], p[k])
      BY <1>1, <2>1, <2>4 DEF Increasing
    <3>2. t[p[i]] \in Nat /\ t[p[k]] \in Nat
      BY <1>8, <2>1
    <3> QED
      BY <1>9, <2>2, <3>1, <3>2 DEF Less
  <2> QED
    BY <2>1, <2>3, <2>4
<1>11. ASSUME NEW i \in 1..(n + 1), NEW j \in 1..(n + 1), i < j
       PROVE  Less(t, q[i], q[j])
  <2>1. CASE i \in 1..k /\ j \in 1..k
    BY <1>1, <1>2, <1>11, <2>1 DEF Increasing
  <2>2. CASE i \in 1..k /\ j = k + 1
    <3>1. q[i] = p[i] /\ q[j] = n + 1 /\ i \in 1..n /\ p[i] \in 1..n
      BY <1>2, <1>3, <2>2
    <3>2. t[p[i]] <= t[n + 1] /\ t[p[i]] \in Nat /\ p[i] < n + 1
      BY <1>8, <1>10, <2>2, <3>1
    <3> QED
      BY <1>9, <3>1, <3>2 DEF Less
  <2>3. CASE i \in 1..k /\ j \in (k + 2)..(n + 1)
    <3>1. i \in 1..n /\ j - 1 \in 1..n /\ q[i] = p[i] /\ q[j] = p[j - 1]
      BY <1>2, <1>4, <2>3
    <3>2. i < j - 1
      BY <1>1, <2>3
    <3> QED
      BY <1>1, <3>1, <3>2 DEF Increasing
  <2>4. CASE i = k + 1 /\ j \in (k + 2)..(n + 1)
    <3>1. j - 1 \in (k + 1)..n /\ q[i] = n + 1 /\ q[j] = p[j - 1]
      BY <1>3, <1>4, <2>4
    <3>2. t[n + 1] < t[p[j - 1]]
      BY <3>1 DEF Place
    <3> QED
      BY <3>1, <3>2 DEF Less
  <2>5. CASE i \in (k + 2)..(n + 1) /\ j \in (k + 2)..(n + 1)
    <3>1. i - 1 \in 1..n /\ j - 1 \in 1..n /\ q[i] = p[i - 1] /\ q[j] = p[j - 1]
      BY <1>4, <2>5
    <3>2. i - 1 < j - 1
      BY <1>11
    <3> QED
      BY <1>1, <3>1, <3>2 DEF Increasing
  <2>6. ~(i = k + 1 /\ j \in 1..(k + 1)) /\ ~(i \in (k + 2)..(n + 1) /\ j \in 1..(k + 1))
    BY <1>1, <1>11
  <2>7. k + 1 \in 1..(k + 1) /\ 1..k \subseteq 1..(k + 1)
    BY <1>1
  <2> QED
    BY <1>5, <2>1, <2>2, <2>3, <2>4, <2>5, <2>6, <2>7
<1>12. Orders(q, t, n + 1)
  <2>1. Increasing(q, t, n + 1)
    BY <1>11 DEF Increasing
  <2> QED
    BY <1>6, <1>7, <2>1 DEF Orders
<1> QED
  BY <1>2, <1>3, <1>4, <1>12 DEF MadeRoom

\* One more round of the sort keeps it stable.
LEMMA InsertStable ==
  ASSUME NEW movs \in Seq(Movement), DatesOf(movs) \in [1..Len(movs) -> Nat \ {0}],
         NEW n \in Nat, n + 1 <= Len(movs), NEW s, StableSort(s, movs, n)
  PROVE  StableSort(Insert(s, movs[n + 1]), movs, n + 1)
<1> DEFINE m == movs[n + 1]
           t == Insert(s, m)
           L == Len(movs)
           d == DatesOf(movs)
<1>1. /\ s \in Seq(Movement) /\ Len(s) = n /\ m \in Movement
      /\ L \in Nat /\ n + 1 <= L
      /\ \A i \in 1..L : d[i] = movs[i].time
  BY DEF StableSort, DatesOf
<1>2. PICK p : Orders(p, d, n) /\ \A i \in 1..n : s[i] = movs[p[i]]
  BY DEF StableSort
<1>3. PICK k \in 0..n : Behind(s, m, k, t)
  BY <1>1, InsertBehind
<1> HIDE DEF t
<1>4. /\ t \in Seq(Movement) /\ Len(t) = n + 1
      /\ \A i \in 1..k : t[i] = s[i]
      /\ t[k + 1] = m
      /\ \A i \in (k + 2)..(n + 1) : t[i] = s[i - 1]
      /\ k # 0 => ~Before(m, s[k])
      /\ \A i \in (k + 1)..n : Before(m, s[i])
  BY <1>1, <1>3 DEF Behind, Spliced
<1>5. d \in [1..L -> Nat] /\ m.time = d[n + 1] /\ \A i \in 1..L : d[i] # 0
  BY <1>1
<1> HIDE DEF d, L, m
<1>6. \A i \in 1..n : p[i] \in 1..n /\ s[i].time = d[p[i]]
  <2> TAKE i \in 1..n
  <2>1. p[i] \in 1..n
    BY <1>2 DEF Orders
  <2>2. p[i] \in 1..L
    BY <1>1, <2>1
  <2> QED
    BY <1>1, <1>2, <2>1, <2>2
<1>7. Place(p, d, n, k)
  <2>1. ASSUME k # 0 PROVE d[p[k]] <= d[n + 1]
    <3>1. k \in 1..n
      BY <2>1
    <3>2. s[k].time = d[p[k]] /\ p[k] \in 1..L /\ n + 1 \in 1..L
      BY <1>1, <1>6, <3>1
    <3>3. d[p[k]] \in Nat /\ d[n + 1] \in Nat /\ d[p[k]] # 0 /\ d[n + 1] # 0
      BY <1>5, <3>2
    <3> QED
      BY <1>4, <1>5, <2>1, <3>2, <3>3 DEF Before
  <2>2. ASSUME NEW i \in (k + 1)..n PROVE d[n + 1] < d[p[i]]
    <3>1. i \in 1..n
      OBVIOUS
    <3>2. s[i].time = d[p[i]]
      BY <1>6, <3>1
    <3>3. Before(m, s[i])
      BY <1>4
    <3> QED
      BY <1>5, <3>2, <3>3 DEF Before
  <2> QED
    BY <2>1, <2>2 DEF Place
<1>9. PICK q : Orders(q, d, n + 1) /\ MadeRoom(q, p, n, k)
  <2>1. L \in Nat /\ n + 1 <= L /\ d \in [1..L -> Nat] /\ Orders(p, d, n)
    BY <1>1, <1>2, <1>5
  <2> QED
    BY <2>1, <1>7, NextInOrder
<1>10. ASSUME NEW i \in 1..(n + 1) PROVE t[i] = movs[q[i]]
  <2>1. CASE i \in 1..k
    <3>1. i \in 1..n
      BY <2>1
    <3> QED
      BY <1>2, <1>4, <1>9, <2>1, <3>1 DEF MadeRoom
  <2>2. CASE i = k + 1
    BY <1>4, <1>9, <2>2 DEF m, MadeRoom
  <2>3. CASE i \in (k + 2)..(n + 1)
    <3>1. i - 1 \in 1..n
      BY <2>3
    <3> QED
      BY <1>2, <1>4, <1>9, <2>3, <3>1 DEF MadeRoom
  <2> QED
    BY <2>1, <2>2, <2>3
<1>11. StableSort(t, movs, n + 1)
  BY <1>4, <1>9, <1>10 DEF StableSort, d
<1> QED
  BY <1>11 DEF t, m

\* A dated docket is put in order, and movements of one date stay as listed.
LEMMA SortIsStable ==
  ASSUME NEW movs \in Seq(Movement), DatesOf(movs) \in [1..Len(movs) -> Nat \ {0}]
  PROVE  StableSort(movementsChronological(movs), movs, Len(movs))
<1> DEFINE N == Len(movs)
<1>1. PICK f : /\ movementsChronological(movs) = f[N]
               /\ f[0] = <<>>
               /\ \A n \in 0..N : n + 1 \in 0..N => f[n + 1] = Insert(f[n], movs[n + 1])
  BY SortSteps
<1> DEFINE S == {n \in Nat : n <= N => StableSort(f[n], movs, n)}
<1>2. N \in Nat /\ N = Len(movs)
  OBVIOUS
<1> HIDE DEF N
<1>3. StableSort(f[0], movs, 0)
  <2> DEFINE p == [i \in 1..0 |-> i]
  <2>1. 1..0 = {} /\ p \in [1..0 -> 1..0] /\ <<>> \in Seq(Movement) /\ Len(<<>>) = 0
    OBVIOUS
  <2> HIDE DEF p
  <2> QED
    BY <1>1, <2>1 DEF StableSort, Orders, Onto, Increasing
<1>4. ASSUME NEW n \in Nat, n + 1 <= N, StableSort(f[n], movs, n) PROVE StableSort(f[n + 1], movs, n + 1)
  <2>1. n \in 0..N /\ n + 1 \in 0..N /\ n + 1 <= Len(movs)
    BY <1>2, <1>4
  <2>2. StableSort(Insert(f[n], movs[n + 1]), movs, n + 1)
    BY <1>4, <2>1, InsertStable
  <2> QED
    BY <1>1, <2>1, <2>2
<1>5. S \in SUBSET Nat /\ 0 \in S /\ \A n \in S : n + 1 \in S
  BY <1>2, <1>3, <1>4
<1> HIDE DEF S
<1>6. S = Nat
  BY <1>5, Induct
<1>7. StableSort(f[N], movs, N)
  BY <1>2, <1>6 DEF S
<1> QED
  BY <1>1, <1>7 DEF N

-------------------------------------------------------------------------------
(* deriveCaseState.                                                        *)

\* What a docket can be shown with.
LEMMA Derived ==
  ASSUME NEW criminal \in BOOLEAN, NEW movs \in Seq(Movement)
  PROVE  /\ deriveCaseState(criminal, movs).disposition \in Disposition
         /\ deriveCaseState(criminal, movs).phase \in {"", "sentenced"}
         /\ deriveCaseState(criminal, movs).concluded \in BOOLEAN
<1> DEFINE o == movementsChronological(movs)
           R == IF criminal THEN Rulings(o) ELSE {}
           last == Ruling(o[Max(R)])
           st == deriveCaseState(criminal, movs)
<1>1. st = [phase       |-> IF \E i \in R : Ruling(o[i]) # "extinction" THEN "sentenced" ELSE "",
            disposition |-> IF R = {} \/ last = "extinction" THEN "" ELSE last,
            concluded   |-> \E i \in DOMAIN movs : "final" \in movs[i].signs]
  BY DEF deriveCaseState
<1>2. ASSUME R # {} PROVE Max(R) \in R
  <2>1. o \in Seq(Movement) /\ Len(o) \in Nat /\ DOMAIN o = 1..Len(o)
    BY SortTyped
  <2>2. R \in SUBSET Nat /\ \A i \in R : i <= Len(o)
    <3> HIDE DEF o
    <3> QED
      BY <2>1 DEF Rulings
  <2> HIDE DEF R, o
  <2> QED
    BY <1>2, <2>1, <2>2, MaxIn
<1>3. ASSUME R # {} PROVE last \in {"acquittal", "extinction", "conviction"}
  <2>1. last # "none"
    BY <1>2, <1>3 DEF Rulings
  <2> QED
    BY <2>1 DEF Ruling
<1>4. /\ st.disposition = IF R = {} \/ last = "extinction" THEN "" ELSE last
      /\ st.phase \in {"", "sentenced"} /\ st.concluded \in BOOLEAN
  <2> DEFINE sentenced == \E i \in R : Ruling(o[i]) # "extinction"
             final     == \E i \in DOMAIN movs : "final" \in movs[i].signs
  <2>1. st = [phase       |-> IF sentenced THEN "sentenced" ELSE "",
              disposition |-> IF R = {} \/ last = "extinction" THEN "" ELSE last,
              concluded   |-> final]
    BY <1>1
  <2>2. final \in BOOLEAN
    OBVIOUS
  <2> HIDE DEF sentenced, final, st, R, last
  <2> QED
    BY <2>1, <2>2
<1> HIDE DEF st, o, R, last
<1>5. st.disposition \in Disposition
  BY <1>3, <1>4 DEF Disposition
<1> QED
  BY <1>4, <1>5 DEF st

\* "The LAST dispositive movement in chronological order wins", whatever order the
\* tribunal lists them in, when the movements have dates (deriveCaseState,
\* movementsChronological).
LEMMA LatestWins ==
  ASSUME NEW criminal \in BOOLEAN, NEW movs \in Seq(Movement),
         DatesOf(movs) \in [1..Len(movs) -> Nat \ {0}]
  PROVE  deriveCaseState(criminal, movs).disposition = Standing(criminal, movs)
<1> DEFINE N == Len(movs)
           o == movementsChronological(movs)
           d == DatesOf(movs)
           R == Rulings(o)
           Q == {i \in Rulings(movs) : movs[i].time # 0}
           L == {i \in Q : \A j \in Q : movs[j].time <= movs[i].time}
<1>1. N \in Nat /\ DOMAIN movs = 1..N /\ d \in [1..N -> Nat \ {0}] /\ \A i \in 1..N : d[i] = movs[i].time
  BY DEF DatesOf
<1>2. o \in Seq(Movement) /\ Len(o) = N /\ DOMAIN o = 1..N
  BY SortTyped
<1>3. PICK p : Orders(p, d, N) /\ \A i \in 1..N : o[i] = movs[p[i]]
  BY SortIsStable DEF StableSort
<1>4. p \in [1..N -> 1..N] /\ Onto(p, N) /\ Increasing(p, d, N)
  BY <1>3 DEF Orders
<1>5. Standing(criminal, movs) =
        IF ~criminal \/ Q = {} \/ Ruling(movs[Max(L)]) = "extinction" THEN "" ELSE Ruling(movs[Max(L)])
  BY DEF Standing
<1>6. deriveCaseState(criminal, movs).disposition =
        IF ~criminal \/ R = {} \/ Ruling(o[Max(R)]) = "extinction" THEN "" ELSE Ruling(o[Max(R)])
  BY DEF deriveCaseState
<1> HIDE DEF o
<1>7. Q = Rulings(movs) /\ Q \subseteq 1..N /\ R \subseteq 1..N
  BY <1>1, <1>2 DEF Rulings
<1>8. \A i \in 1..N : i \in R <=> p[i] \in Q
  <2> TAKE i \in 1..N
  <2>1. p[i] \in 1..N /\ o[i] = movs[p[i]]
    BY <1>3, <1>4
  <2>2. (i \in R <=> Ruling(o[i]) # "none") /\ (p[i] \in Rulings(movs) <=> Ruling(movs[p[i]]) # "none")
    BY <1>1, <1>2, <2>1 DEF Rulings
  <2> QED
    BY <1>7, <2>1, <2>2
<1>9. \A j \in Q : \E i \in R : p[i] = j
  BY <1>4, <1>7, <1>8 DEF Onto
<1>10. L = {i \in Q : \A j \in Q : d[j] <= d[i]} /\ L \subseteq 1..N
  BY <1>1, <1>7
<1> HIDE DEF N, d, R, Q, L
<1>11. R = {} <=> Q = {}
  BY <1>4, <1>7, <1>8, <1>9
<1>12. ASSUME R # {} PROVE o[Max(R)] = movs[Max(L)]
  <2>1. PICK r \in R : r = Max(R) /\ \A i \in R : i <= r
    <3>1. R \in SUBSET Nat /\ \A i \in R : i <= N
      BY <1>1, <1>7
    <3> QED
      BY <1>1, <1>12, <3>1, MaxIn
  <2>2. r \in 1..N /\ p[r] \in Q /\ p[r] \in 1..N
    BY <1>4, <1>7, <1>8, <2>1
  <2>3. ASSUME NEW i \in R PROVE i = r \/ Less(d, p[i], p[r])
    <3>1. i \in 1..N /\ (i = r \/ i < r)
      BY <1>1, <1>7, <2>1, <2>2
    <3> QED
      BY <1>4, <2>2, <3>1 DEF Increasing
  <2>4. \A j \in Q : d[j] \in Nat
    BY <1>1, <1>7
  <2>5. p[r] \in L
    <3>1. ASSUME NEW j \in Q PROVE d[j] <= d[p[r]]
      <4>1. PICK i \in R : p[i] = j
        BY <1>9
      <4>2. d[j] \in Nat /\ d[p[r]] \in Nat
        BY <2>2, <2>4
      <4> QED
        BY <2>3, <4>1, <4>2 DEF Less
    <3> QED
      BY <1>10, <2>2, <3>1
  <2>6. ASSUME NEW j \in L PROVE j <= p[r]
    <3>1. j \in Q /\ d[p[r]] <= d[j] /\ j \in 1..N
      BY <1>10, <2>2
    <3>2. PICK i \in R : p[i] = j
      BY <1>9, <3>1
    <3>3. d[j] \in Nat /\ d[p[r]] \in Nat
      BY <2>2, <2>4, <3>1
    <3> QED
      BY <2>2, <2>3, <3>1, <3>2, <3>3 DEF Less
  <2>7. Max(L) \in L /\ p[r] <= Max(L)
    <3>1. L \in SUBSET Nat /\ L # {} /\ \A i \in L : i <= N
      BY <1>1, <1>10, <2>5
    <3> QED
      BY <1>1, <2>5, <3>1, MaxIn
  <2>8. Max(L) = p[r]
    BY <1>10, <2>2, <2>6, <2>7
  <2> QED
    BY <1>3, <2>1, <2>2, <2>8
<1> QED
  BY <1>5, <1>6, <1>11, <1>12

-------------------------------------------------------------------------------
(* The invariant.                                                          *)

\* What DataJud answers a lookup.
Answers == Dockets \cup {Hidden, Failed}

\* What the run has in its hands.
Held == IF run.pc = "take" THEN {} ELSE {run.case}

\* A registration does what it has to do for its case in order: the node, then the
\* scandal, then the edge between them.
InOrder(r) ==
  LET c == r.case IN
  /\ r.pc \in {"scandal", "edge", "track"} => graph[c].status # "absent"
  /\ r.pc = "edge" => c \in scandals
  /\ r.pc = "track" /\ r.scandal => c \in linked

WatcherInv ==
  /\ TypeOK
  /\ \A r \in Registrar : InOrder(reg[r])
  /\ TrackedIsPublished
  /\ run.pc # "take" => on
  /\ NothingLost(Held)

-------------------------------------------------------------------------------
(* What a run lists.                                                       *)

\* Only yields a list of what is listed.
LEMMA OnlyTyped ==
  ASSUME NEW S, NEW q \in Seq(S), NEW D
  PROVE  Only(q, D) \in Seq(S)
<1> DEFINE N == Len(q)
           Next1(f, n) == IF n = 0 THEN <<>> ELSE f[n - 1] \o (IF q[n] \in D THEN <<q[n]>> ELSE <<>>)
           Upto(k) == \E f : f = [n \in 0..k |-> Next1(f, n)]
           T == {k \in Nat : k <= N => Upto(k)}
           only[n \in 0..Len(q)] ==
             IF n = 0 THEN <<>> ELSE only[n - 1] \o (IF q[n] \in D THEN <<q[n]>> ELSE <<>>)
<1>1. N \in Nat /\ <<>> \in Seq(S) /\ \A n \in 1..N : q[n] \in S
  OBVIOUS
<1>2. Upto(0)
  <2> DEFINE f == [n \in 0..0 |-> <<>>]
  <2>1. f = [n \in 0..0 |-> Next1(f, n)]
    OBVIOUS
  <2> QED
    BY <1>1, <2>1
<1>3. ASSUME NEW k \in Nat, k + 1 <= N, Upto(k) PROVE Upto(k + 1)
  <2>1. PICK f : f = [n \in 0..k |-> Next1(f, n)]
    BY <1>3
  <2> DEFINE e == f[k] \o (IF q[k + 1] \in D THEN <<q[k + 1]>> ELSE <<>>)
             g == [n \in 0..(k + 1) |-> IF n \in 0..k THEN f[n] ELSE e]
  <2>2. ASSUME NEW n \in 0..(k + 1) PROVE g[n] = Next1(g, n)
    <3>1. CASE n = 0
      <4>1. g[0] = f[0] /\ f[0] = <<>>
        BY <2>1
      <4> QED
        BY <1>1, <3>1, <4>1
    <3>2. CASE n \in 1..k
      <4>1. g[n] = f[n] /\ g[n - 1] = f[n - 1] /\ n \in 0..k /\ n # 0
        BY <3>2
      <4>2. f[n] = Next1(f, n)
        BY <2>1, <4>1
      <4> HIDE DEF g
      <4> QED
        BY <2>1, <4>1, <4>2
    <3>3. CASE n = k + 1
      <4>1. g[n] = e /\ g[n - 1] = f[k] /\ n # 0
        BY <3>3
      <4> HIDE DEF g
      <4> QED
        BY <3>3, <4>1
    <3> QED
      BY <3>1, <3>2, <3>3
  <2>3. g = [n \in 0..(k + 1) |-> Next1(g, n)]
    <3>1. g = [n \in 0..(k + 1) |-> g[n]]
      OBVIOUS
    <3> HIDE DEF g, Next1
    <3> QED
      BY <2>2, <3>1
  <2> HIDE DEF g
  <2> QED
    BY <2>2, <2>3
<1>4. Upto(N)
  <2> HIDE DEF Upto, N
  <2>1. T \in SUBSET Nat /\ 0 \in T /\ \A k \in T : k + 1 \in T
    BY <1>1, <1>2, <1>3
  <2> HIDE DEF T
  <2>2. T = Nat
    BY <2>1, Induct
  <2> QED
    BY <1>1, <2>2 DEF T
<1>5. only = [n \in 0..N |-> Next1(only, n)]
  BY <1>4 DEF only
<1>6. Only(q, D) = only[N]
  BY DEF Only
<1> HIDE DEF only
<1> DEFINE V == {n \in Nat : n <= N => only[n] \in Seq(S)}
<1>7. ASSUME NEW n \in 0..N PROVE only[n] = Next1(only, n)
  BY <1>5
<1>8. 0 \in V
  <2>1. 0 \in 0..N
    BY <1>1
  <2>2. only[0] = <<>>
    BY <1>7, <2>1
  <2> QED
    BY <1>1, <2>2
<1>9. ASSUME NEW n \in Nat, n + 1 <= N, only[n] \in Seq(S) PROVE only[n + 1] \in Seq(S)
  <2>1. only[n + 1] = only[n] \o (IF q[n + 1] \in D THEN <<q[n + 1]>> ELSE <<>>)
    <3>1. n + 1 \in 0..N /\ n + 1 # 0 /\ (n + 1) - 1 = n
      BY <1>1, <1>9
    <3>2. only[n + 1] = Next1(only, n + 1)
      BY <1>7, <3>1
    <3> QED
      BY <3>1, <3>2
  <2>2. (IF q[n + 1] \in D THEN <<q[n + 1]>> ELSE <<>>) \in Seq(S)
    BY <1>1, <1>9
  <2> QED
    BY <1>9, <2>1, <2>2
<1>10. V \in SUBSET Nat /\ \A n \in V : n + 1 \in V
  BY <1>1, <1>9
<1>11. V = Nat
  <2> HIDE DEF V
  <2> QED
    BY <1>8, <1>10, Induct
<1> QED
  BY <1>1, <1>6, <1>11

\* A part of the due list is a list of cases.
LEMMA ListTyped ==
  ASSUME tracked \in Seq(Case), NEW n \in 0..Len(ListWatcherCasesForPoll)
  PROVE  SubSeq(ListWatcherCasesForPoll, 1, n) \in Seq(Case)
<1>1. ListWatcherCasesForPoll \in Seq(Case)
  BY OnlyTyped DEF ListWatcherCasesForPoll
<1>2. PICK q \in Seq(Case) : q = ListWatcherCasesForPoll
  BY <1>1
<1> QED
  BY <1>2

-------------------------------------------------------------------------------
(* Types.                                                                  *)

\* What the initial records are.
LEMMA Constants ==
  /\ AnyItem \in Case /\ NewRow \in Row /\ NoNode \in Node /\ NoReg \in Registration
  /\ Hidden \in Answers /\ Failed \in Answers
  /\ [c \in Case |-> NewRow] \in [Case -> Row]
<1>1. AnyItem \in Case
  BY PoolAssumption DEF AnyItem, Case
<1> QED
  BY <1>1 DEF NewRow, Row, NoNode, Node, Disposition, NoReg, Registration, Answers

\* What a lookup answers can be read as a docket.
LEMMA AnswerDocket ==
  ASSUME NEW a \in Answers
  PROVE  a.criminal \in BOOLEAN /\ a.movs \in Seq(Movement)
<1>1. CASE a \in Dockets
  <2>1. a \in Docket
    BY <1>1, WatcherAssumption
  <2> QED
    BY <2>1 DEF Docket
<1>2. CASE a = Hidden \/ a = Failed
  <2>1. <<>> \in Seq(Movement)
    OBVIOUS
  <2>2. a.criminal = FALSE /\ a.movs = <<>>
    BY <1>2 DEF Hidden, Failed
  <2> QED
    BY <2>1, <2>2
<1> QED
  BY <1>1, <1>2 DEF Answers

\* What a docket that DataJud can answer with supports.
LEMMA AnswerDerived ==
  ASSUME NEW a \in Answers
  PROVE  /\ StateOf[a].disposition \in Disposition
         /\ StateOf[a].phase \in {"", "sentenced"}
         /\ StateOf[a].concluded \in BOOLEAN
<1>1. a.criminal \in BOOLEAN /\ a.movs \in Seq(Movement)
  BY AnswerDocket
<1>2. StateOf[a] = deriveCaseState(a.criminal, a.movs)
  BY DEF StateOf, Answers
<1> QED
  BY <1>1, <1>2, Derived

\* The steps of the run, as steps of its pool.
LEMMA PoolSteps ==
  ASSUME TypeOK, [Next]_vars
  PROVE  \/ \E items \in Seq(Item) : PoolBegin(items) /\ run'.pc = "take" /\ stops' = stops
         \/ \E f \in Fetcher : Handing(f) /\ UNCHANGED <<run, stops>>
         \/ \E f \in Fetcher, a \in Answers : Fetched(f, a) /\ UNCHANGED <<run, stops>>
         \/ Skip /\ TakeAnswer(TRUE) /\ UNCHANGED <<run, stops>>
         \/ UpsertProceeding /\ TakeAnswer(FALSE) /\ stops' = stops
         \/ UpdateWatcherTrackingPoll /\ Dealt(run.case) /\ run'.pc = "take" /\ stops' = stops
         \/ RunEnd /\ PoolEnd /\ run'.pc = "take" /\ stops' = stops
         \/ RunDies /\ PoolDies /\ run'.pc = "take"
         \/ UNCHANGED pool /\ stops' = stops /\ (run' = run \/ PollEdge \/ UpdateProceedingCaseState)
<1>1. ASSUME NEW writes \in Modes, NEW limit \in PollLimits, RunBegin(writes, limit)
      PROVE  \E items \in Seq(Item) : PoolBegin(items) /\ run'.pc = "take" /\ stops' = stops
  <2> DEFINE all == ListWatcherCasesForPoll
             n   == IF limit = 0 \/ limit > Len(all) THEN Len(all) ELSE limit
  <2>1. PoolBegin(SubSeq(all, 1, n)) /\ run' = [NoRun EXCEPT !.writes = writes, !.row = rows] /\ stops' = stops
    BY <1>1 DEF RunBegin
  <2>2. all \in Seq(Case)
    BY OnlyTyped DEF ListWatcherCasesForPoll, TypeOK
  <2>3. n \in 0..Len(all)
    <3>1. Len(all) \in Nat /\ limit \in Nat
      BY <2>2, WatcherAssumption
    <3> HIDE DEF all
    <3> QED
      BY <3>1
  <2> HIDE DEF n
  <2>4. SubSeq(all, 1, n) \in Seq(Item)
    BY <2>3, ListTyped DEF TypeOK, Case
  <2>5. run'.pc = "take"
    BY <2>1 DEF NoRun
  <2> QED
    BY <2>1, <2>4, <2>5
<1>2. ASSUME NEW f \in Fetcher, Lookup(f, TRUE) \/ Lookup(f, FALSE)
      PROVE  \E a \in Answers : Fetched(f, a) /\ UNCHANGED <<run, stops>>
  <2>1. fetcher[f].item \in Case
    BY DEF TypeOK, PoolTypeOK, FetcherState, Case
  <2>2. docket[fetcher[f].item] \in Answers /\ Failed \in Answers
    BY <2>1 DEF TypeOK, Answers
  <2> QED
    BY <1>2, <2>2 DEF Lookup
<1>3. ASSUME FetchNext
      PROVE  \/ \E f \in Fetcher : Handing(f) /\ UNCHANGED <<run, stops>>
             \/ \E f \in Fetcher, a \in Answers : Fetched(f, a) /\ UNCHANGED <<run, stops>>
  BY <1>2, <1>3 DEF FetchNext, Pooled, Handing
<1>4. ASSUME WriteNext
      PROVE  \/ Skip /\ TakeAnswer(TRUE) /\ UNCHANGED <<run, stops>>
             \/ UpsertProceeding /\ TakeAnswer(FALSE) /\ stops' = stops
             \/ UpdateWatcherTrackingPoll /\ Dealt(run.case) /\ run'.pc = "take" /\ stops' = stops
             \/ RunEnd /\ PoolEnd /\ run'.pc = "take" /\ stops' = stops
             \/ UNCHANGED pool /\ stops' = stops /\ (PollEdge \/ UpdateProceedingCaseState)
  <2>1. UpdateWatcherTrackingPoll => run'.pc = "take"
    BY DEF UpdateWatcherTrackingPoll, TypeOK, Writer
  <2>2. Skip => TakeAnswer(TRUE) /\ UNCHANGED <<run, stops>>
    BY DEF Skip
  <2>3. UpsertProceeding => TakeAnswer(FALSE) /\ stops' = stops
    BY DEF UpsertProceeding
  <2>4. UpdateWatcherTrackingPoll => Dealt(run.case) /\ stops' = stops
    BY DEF UpdateWatcherTrackingPoll
  <2>5. RunEnd => PoolEnd /\ run'.pc = "take" /\ stops' = stops
    BY DEF RunEnd, NoRun
  <2>6. PollEdge \/ UpdateProceedingCaseState => UNCHANGED pool /\ stops' = stops
    BY DEF PollEdge, UpdateProceedingCaseState
  <2> QED
    BY <1>4, <2>1, <2>2, <2>3, <2>4, <2>5, <2>6 DEF WriteNext
<1>5. RunDies => PoolDies /\ run'.pc = "take"
  BY DEF RunDies, NoRun
<1>6. ASSUME \/ \E c \in Case, st \in Dockets : Proceed(c, st)
             \/ \E c \in Case : WeekPasses(c)
             \/ RegisterNext
             \/ UNCHANGED vars
      PROVE  UNCHANGED <<pool, run, stops>>
  BY <1>6 DEF Proceed, WeekPasses, RegisterNext, IsCaseTracked, RegisterCase, UpsertScandal,
     RegisterEdge, UpsertWatcherCase, RegisterFails, pipe, vars
<1> QED
  BY <1>1, <1>3, <1>4, <1>5, <1>6 DEF Next

\* The pool keeps its types.
LEMMA PoolTypeStep ==
  ASSUME TypeOK, [Next]_vars
  PROVE  PoolTypeOK(Answers)'
<1>1. PoolTypeOK(Answers)
  BY DEF TypeOK, Answers
<1>2. UNCHANGED pool => PoolTypeOK(Answers)'
  BY <1>1 DEF pool, PoolTypeOK
<1>3. run.case \in Item
  BY DEF TypeOK, Writer, Case
<1> QED
  BY <1>1, <1>2, <1>3, PoolSteps, PoolStepTyped

\* What the writer takes.
LEMMA HeadTyped ==
  ASSUME TypeOK, answers # <<>>
  PROVE  c1 \in Case /\ a1 \in Answers
<1>1. answers \in Seq(Item \X Answers)
  BY DEF TypeOK, PoolTypeOK, Answers
<1>2. Head(answers) \in Item \X Answers
  BY <1>1, AnswersTail
<1> QED
  BY <1>2 DEF c1, a1, Case

\* Every step keeps the types.
LEMMA TypeStep ==
  ASSUME TypeOK, [Next]_vars
  PROVE  TypeOK'
<1> DEFINE Typed == /\ docket \in [Case -> Dockets] /\ tracked \in Seq(Case)
                    /\ rows \in [Case -> Row] /\ graph \in [Case -> Node]
                    /\ scandals \subseteq Case /\ linked \subseteq Case
                    /\ reg \in [Registrar -> Registration] /\ run \in Writer /\ stops \in Nat
<1>1. Typed /\ PoolTypeOK(Answers)'
  BY PoolTypeStep DEF TypeOK
<1>2. ASSUME NEW c \in Case, NEW st \in Dockets, Proceed(c, st) PROVE Typed'
  BY <1>1, <1>2 DEF Proceed, stores, pipe
<1>3. ASSUME NEW c \in Case, WeekPasses(c) PROVE Typed'
  BY <1>1, <1>3 DEF WeekPasses, pipe, Row
<1>4. ASSUME RegisterNext PROVE Typed'
  <2>1. PICK r \in Registrar :
          \/ \E c \in Case : FALSE \in AsScandal /\ IsCaseTracked(r, c)
          \/ \E c \in Case, scandal \in AsScandal : RegisterCase(r, c, scandal)
          \/ UpsertScandal(r) \/ RegisterEdge(r) \/ UpsertWatcherCase(r) \/ RegisterFails(r)
    BY <1>4 DEF RegisterNext
  <2>2. reg[r] \in Registration /\ reg[r].case \in Case /\ reg[r].scandal \in BOOLEAN
    BY <1>1 DEF Registration
  <2>3. ASSUME NEW c \in Case, IsCaseTracked(r, c) PROVE Typed'
    BY <1>1, <2>3 DEF IsCaseTracked, Registration, stores, pipe
  <2>4. ASSUME NEW c \in Case, NEW scandal \in AsScandal, RegisterCase(r, c, scandal) PROVE Typed'
    <3>1. scandal \in BOOLEAN
      BY WatcherAssumption
    <3>2. UpsertKnown(c) \in Node
      BY <1>1 DEF UpsertKnown, NoNode, Node, Disposition
    <3>3. [pc |-> IF scandal THEN "scandal" ELSE "track", case |-> c, scandal |-> scandal] \in Registration
      BY <3>1 DEF Registration
    <3> QED
      BY <1>1, <2>4, <3>2, <3>3 DEF RegisterCase, pipe
  <2>5. ASSUME UpsertScandal(r) PROVE Typed'
    BY <1>1, <2>2, <2>5 DEF UpsertScandal, Registration, pipe
  <2>6. ASSUME RegisterEdge(r) PROVE Typed'
    BY <1>1, <2>2, <2>6 DEF RegisterEdge, EnsureInvestigatesEdge, Registration, pipe
  <2>7. ASSUME UpsertWatcherCase(r) PROVE Typed'
    <3>1. [NewRow EXCEPT !.scandal = reg[r].scandal] \in Row
      BY <2>2 DEF NewRow, Row
    <3>2. tracked' \in Seq(Case) /\ rows' \in [Case -> Row]
      BY <1>1, <2>2, <2>7, <3>1 DEF UpsertWatcherCase
    <3> QED
      BY <1>1, <2>7, <3>2, Constants DEF UpsertWatcherCase, pipe
  <2>8. ASSUME RegisterFails(r) PROVE Typed'
    BY <1>1, <2>8, Constants DEF RegisterFails, stores, pipe
  <2> QED
    BY <2>1, <2>3, <2>4, <2>5, <2>6, <2>7, <2>8
<1>5. ASSUME NEW writes \in Modes, NEW limit \in PollLimits, RunBegin(writes, limit) PROVE Typed'
  <2>1. [NoRun EXCEPT !.writes = writes, !.row = rows] \in Writer
    BY <1>1, Constants, WatcherAssumption DEF NoRun, Writer, Answers
  <2> QED
    BY <1>1, <1>5, <2>1 DEF RunBegin, stores
<1>6. ASSUME FetchNext PROVE Typed'
  BY <1>1, <1>6 DEF FetchNext, Pooled, Lookup, stores
<1>7. ASSUME Skip PROVE Typed'
  <2>1. c1 \in Case
    BY <1>7, HeadTyped DEF Skip, TakeAnswer
  <2>2. run.row[c1].status \in {"active", "concluded"}
    BY <1>1, <2>1 DEF Writer, Row
  <2>3. rows' \in [Case -> Row]
    BY <1>1, <1>7, <2>2 DEF Skip, TrackingPoll, Row
  <2> QED
    BY <1>1, <1>7, <2>3 DEF Skip
<1>8. ASSUME UpsertProceeding PROVE Typed'
  <2>1. c1 \in Case /\ a1 \in Answers
    BY <1>8, HeadTyped DEF UpsertProceeding, TakeAnswer
  <2>2. run' \in Writer
    BY <1>1, <1>8, <2>1 DEF UpsertProceeding, Writer, Answers
  <2>3. graph' \in [Case -> Node]
    BY <1>1, <1>8 DEF UpsertProceeding, Node
  <2> QED
    BY <1>1, <1>8, <2>2, <2>3 DEF UpsertProceeding
<1>9. ASSUME PollEdge PROVE Typed'
  <2>1. run.case \in Case /\ run' \in Writer
    BY <1>1, <1>9 DEF PollEdge, Writer
  <2> QED
    BY <1>1, <1>9, <2>1 DEF PollEdge, EnsureInvestigatesEdge
<1>10. ASSUME UpdateProceedingCaseState PROVE Typed'
  <2>1. run.case \in Case /\ run.answer \in Answers /\ run' \in Writer
    BY <1>1, <1>10 DEF UpdateProceedingCaseState, Writer, Answers
  <2>2. graph' \in [Case -> Node]
    <3>1. PICK st : st = StateOf[run.answer]
      OBVIOUS
    <3>2. st.disposition \in Disposition /\ st.phase \in {"", "sentenced"}
      BY <2>1, <3>1, AnswerDerived
    <3> DEFINE c == run.case
               n == [graph[c] EXCEPT !.phase = IF st.phase # "" THEN st.phase ELSE graph[c].phase,
                                     !.disposition = st.disposition,
                                     !.status = IF st.concluded THEN "concluded" ELSE graph[c].status]
    <3>3. graph' = [graph EXCEPT ![c] = n]
      BY <1>1, <1>10, <2>1, <3>1 DEF UpdateProceedingCaseState, Node
    <3>4. n \in Node
      <4>1. graph[c] \in Node
        BY <1>1, <2>1
      <4>2. PICK ph \in {"", "sentenced"}, cs \in {"absent", "ongoing", "concluded"} :
              n = [graph[c] EXCEPT !.phase = ph, !.disposition = st.disposition, !.status = cs]
        <5>1. (IF st.phase # "" THEN st.phase ELSE graph[c].phase) \in {"", "sentenced"}
          BY <3>2, <4>1 DEF Node
        <5>2. (IF st.concluded THEN "concluded" ELSE graph[c].status) \in {"absent", "ongoing", "concluded"}
          BY <4>1 DEF Node
        <5> QED
          BY <5>1, <5>2
      <4> HIDE DEF n, c
      <4> QED
        BY <3>2, <4>1, <4>2 DEF Node
    <3> HIDE DEF n
    <3> QED
      BY <1>1, <2>1, <3>3, <3>4
  <2> QED
    BY <1>1, <1>10, <2>1, <2>2 DEF UpdateProceedingCaseState
<1>11. ASSUME UpdateWatcherTrackingPoll PROVE Typed'
  <2>1. run.case \in Case /\ run.row[run.case].status \in {"active", "concluded"}
    BY <1>1 DEF Writer, Row
  <2>2. run' \in Writer
    BY <1>1, <1>11, Constants DEF UpdateWatcherTrackingPoll, Writer, Answers
  <2>3. rows' \in [Case -> Row]
    BY <1>1, <1>11, <2>1 DEF UpdateWatcherTrackingPoll, TrackingPoll, Row
  <2> QED
    BY <1>1, <1>11, <2>2, <2>3 DEF UpdateWatcherTrackingPoll
<1>12. ASSUME RunEnd \/ RunDies PROVE Typed'
  <2>1. NoRun \in Writer
    BY Constants DEF NoRun, Writer, Answers
  <2> QED
    BY <1>1, <1>12, <2>1 DEF RunEnd, RunDies, stores
<1>13. ASSUME UNCHANGED vars PROVE Typed'
  BY <1>1, <1>13 DEF vars, stores, pipe
<1>14. Typed'
  BY <1>2, <1>3, <1>4, <1>5, <1>6, <1>7, <1>8, <1>9, <1>10, <1>11, <1>12, <1>13 DEF Next, WriteNext
<1> QED
  BY <1>1, <1>14 DEF TypeOK, Answers

-------------------------------------------------------------------------------
(* The steps keep the invariant.                                           *)

\* What the graph and the edges keep: a node stays, and so do a scandal and an edge.
LEMMA NothingWithdrawn ==
  ASSUME TypeOK, [Next]_vars
  PROVE  /\ scandals \subseteq scandals' /\ linked \subseteq linked'
         /\ \A c \in Case : graph[c].status # "absent" => graph'[c].status # "absent"
<1> DEFINE Kept == /\ scandals \subseteq scandals' /\ linked \subseteq linked'
                   /\ \A c \in Case : graph[c].status # "absent" => graph'[c].status # "absent"
<1>1. graph \in [Case -> Node]
  BY DEF TypeOK
<1>2. UNCHANGED <<graph, scandals, linked>> => Kept
  OBVIOUS
<1>3. ASSUME RegisterNext PROVE Kept
  <2>1. ASSUME NEW r \in Registrar, NEW c \in Case, NEW scandal \in AsScandal, RegisterCase(r, c, scandal)
        PROVE  Kept
    BY <1>1, <2>1 DEF RegisterCase, UpsertKnown, NoNode
  <2>2. ASSUME NEW r \in Registrar, NEW c \in Case, IsCaseTracked(r, c) PROVE Kept
    BY <2>2 DEF IsCaseTracked, stores
  <2>3. ASSUME NEW r \in Registrar, UpsertScandal(r) PROVE Kept
    BY <2>3 DEF UpsertScandal
  <2>4. ASSUME NEW r \in Registrar, RegisterEdge(r) PROVE Kept
    BY <2>4 DEF RegisterEdge, EnsureInvestigatesEdge
  <2>5. ASSUME NEW r \in Registrar, UpsertWatcherCase(r) \/ RegisterFails(r) PROVE Kept
    BY <2>5 DEF UpsertWatcherCase, RegisterFails, stores
  <2> QED
    BY <1>3, <2>1, <2>2, <2>3, <2>4, <2>5 DEF RegisterNext
<1>4. UpsertProceeding => Kept
  BY <1>1 DEF UpsertProceeding
<1>5. PollEdge => Kept
  BY DEF PollEdge, EnsureInvestigatesEdge
<1>6. UpdateProceedingCaseState => Kept
  <2> SUFFICES ASSUME UpdateProceedingCaseState PROVE Kept
    OBVIOUS
  <2>1. PICK st : st = StateOf[run.answer]
    OBVIOUS
  <2>2. graph' = [graph EXCEPT ![run.case].phase = IF st.phase # "" THEN st.phase ELSE @,
                               ![run.case].disposition = st.disposition,
                               ![run.case].status = IF st.concluded THEN "concluded" ELSE @]
    BY <2>1 DEF UpdateProceedingCaseState
  <2>3. \A c \in Case : graph'[c].status \in {graph[c].status, "concluded"}
    BY <1>1, <2>2 DEF Node
  <2> QED
    BY <2>3 DEF UpdateProceedingCaseState
<1>7. ASSUME \/ \E c \in Case, st \in Dockets : Proceed(c, st)
             \/ \E c \in Case : WeekPasses(c)
             \/ \E writes \in Modes, limit \in PollLimits : RunBegin(writes, limit)
             \/ FetchNext \/ Skip \/ UpdateWatcherTrackingPoll \/ RunEnd \/ RunDies \/ UNCHANGED vars
      PROVE  UNCHANGED <<graph, scandals, linked>>
  BY <1>7 DEF Proceed, WeekPasses, RunBegin, FetchNext, Pooled, Lookup, Skip, UpdateWatcherTrackingPoll,
     RunEnd, RunDies, vars, stores
<1> QED
  BY <1>2, <1>3, <1>4, <1>5, <1>6, <1>7 DEF Next, WriteNext

\* A registration goes on with what it did.
LEMMA InOrderStep ==
  ASSUME WatcherInv, [Next]_vars
  PROVE  \A r \in Registrar : InOrder(reg[r])'
<1>1. /\ TypeOK /\ \A r \in Registrar : reg[r] \in Registration /\ InOrder(reg[r])
      /\ reg \in [Registrar -> Registration]
  BY DEF WatcherInv, TypeOK
<1>2. /\ scandals \subseteq scandals' /\ linked \subseteq linked'
      /\ \A c \in Case : graph[c].status # "absent" => graph'[c].status # "absent"
  BY <1>1, NothingWithdrawn
<1>3. ASSUME NEW r \in Registrar, reg'[r] = reg[r] PROVE InOrder(reg[r])'
  BY <1>1, <1>2, <1>3 DEF InOrder, Registration
<1>4. ASSUME NEW r \in Registrar, reg'[r] = NoReg PROVE InOrder(reg[r])'
  BY <1>4 DEF InOrder, NoReg
<1>5. ASSUME RegisterNext PROVE \A r \in Registrar : InOrder(reg[r])'
  <2>1. PICK r \in Registrar :
          \/ \E c \in Case : FALSE \in AsScandal /\ IsCaseTracked(r, c)
          \/ \E c \in Case, scandal \in AsScandal : RegisterCase(r, c, scandal)
          \/ UpsertScandal(r) \/ RegisterEdge(r) \/ UpsertWatcherCase(r) \/ RegisterFails(r)
    BY <1>5 DEF RegisterNext
  <2>2. \A q \in Registrar \ {r} : reg'[q] = reg[q]
    BY <1>1, <2>1 DEF IsCaseTracked, RegisterCase, UpsertScandal, RegisterEdge, UpsertWatcherCase,
       RegisterFails
  <2>3. ASSUME NEW c \in Case, IsCaseTracked(r, c) PROVE InOrder(reg[r])'
    BY <1>1, <2>3 DEF IsCaseTracked, InOrder
  <2>4. ASSUME NEW c \in Case, NEW scandal \in AsScandal, RegisterCase(r, c, scandal)
        PROVE  InOrder(reg[r])'
    <3>1. graph'[c].status # "absent"
      BY <1>1, <2>4 DEF RegisterCase, UpsertKnown, NoNode, TypeOK
    <3>2. reg'[r] = [pc |-> IF scandal THEN "scandal" ELSE "track", case |-> c, scandal |-> scandal]
      BY <1>1, <2>4 DEF RegisterCase
    <3> QED
      BY <3>1, <3>2 DEF InOrder
  <2>5. ASSUME UpsertScandal(r) PROVE InOrder(reg[r])'
    <3>1. reg'[r].pc = "edge" /\ reg'[r].case = reg[r].case /\ reg[r].case \in Case
      BY <1>1, <2>5 DEF UpsertScandal, Registration
    <3>2. reg[r].case \in scandals' /\ graph'[reg[r].case].status # "absent"
      BY <1>1, <1>2, <2>5, <3>1 DEF UpsertScandal, InOrder
    <3> QED
      BY <3>1, <3>2 DEF InOrder
  <2>6. ASSUME RegisterEdge(r) PROVE InOrder(reg[r])'
    <3>1. reg'[r].pc = "track" /\ reg'[r].case = reg[r].case /\ reg[r].case \in Case
      BY <1>1, <2>6 DEF RegisterEdge, Registration
    <3>2. reg[r].case \in linked' /\ graph'[reg[r].case].status # "absent"
      BY <1>1, <1>2, <2>6, <3>1 DEF RegisterEdge, EnsureInvestigatesEdge, InOrder
    <3> QED
      BY <3>1, <3>2 DEF InOrder
  <2>7. ASSUME UpsertWatcherCase(r) \/ RegisterFails(r) PROVE InOrder(reg[r])'
    BY <1>1, <1>4, <2>7 DEF UpsertWatcherCase, RegisterFails
  <2> QED
    BY <1>3, <2>1, <2>2, <2>3, <2>4, <2>5, <2>6, <2>7
<1>6. ASSUME ~RegisterNext PROVE reg' = reg
  BY <1>6 DEF Next, Proceed, WeekPasses, RunBegin, FetchNext, Pooled, Lookup, WriteNext, Skip,
     UpsertProceeding, PollEdge, UpdateProceedingCaseState, UpdateWatcherTrackingPoll, RunEnd, RunDies, vars
<1> QED
  BY <1>3, <1>5, <1>6

\* A case comes to be tracked with its node and its edge, and keeps them.
LEMMA PublishedStep ==
  ASSUME WatcherInv, [Next]_vars
  PROVE  TrackedIsPublished'
<1>1. /\ TypeOK /\ TrackedIsPublished /\ \A r \in Registrar : reg[r] \in Registration /\ InOrder(reg[r])
      /\ tracked \in Seq(Case) /\ rows \in [Case -> Row]
  BY DEF WatcherInv, TypeOK
<1>2. /\ scandals \subseteq scandals' /\ linked \subseteq linked'
      /\ \A c \in Case : graph[c].status # "absent" => graph'[c].status # "absent"
  BY <1>1, NothingWithdrawn
<1>3. Range(tracked) \subseteq Case
  BY <1>1 DEF Range
<1>4. ASSUME tracked' = tracked, \A c \in Case : rows'[c].scandal = rows[c].scandal
      PROVE  TrackedIsPublished'
  BY <1>1, <1>2, <1>3, <1>4 DEF TrackedIsPublished
<1>5. ASSUME NEW r \in Registrar, UpsertWatcherCase(r) PROVE TrackedIsPublished'
  <2> DEFINE c == reg[r].case
  <2>1. CASE c \in Range(tracked)
    BY <1>4, <1>5, <2>1 DEF UpsertWatcherCase
  <2>2. CASE c \notin Range(tracked)
    <3>1. /\ c \in Case /\ tracked' = Append(tracked, c)
          /\ rows' = [rows EXCEPT ![c] = [NewRow EXCEPT !.scandal = reg[r].scandal]]
      BY <1>1, <1>5, <2>2 DEF UpsertWatcherCase, Registration
    <3>2. Range(tracked') = Range(tracked) \cup {c}
      <4>1. PICK q \in Seq(Case) : q = tracked
        BY <1>1
      <4>2. DOMAIN Append(q, c) = DOMAIN q \cup {Len(q) + 1} /\ Append(q, c)[Len(q) + 1] = c
            /\ \A i \in DOMAIN q : Append(q, c)[i] = q[i]
        BY <3>1, AppendProperties
      <4>3. Range(Append(q, c)) = Range(q) \cup {c}
        BY <4>2 DEF Range
      <4> QED
        BY <3>1, <4>1, <4>3
    <3>3. rows'[c].scandal = reg[r].scandal
      BY <1>1, <3>1 DEF NewRow
    <3>4. graph'[c].status # "absent" /\ (reg[r].scandal => c \in linked')
      BY <1>1, <1>2, <1>5, <3>1 DEF UpsertWatcherCase, InOrder
    <3>5. \A d \in Case \ {c} : rows'[d] = rows[d]
      BY <1>1, <3>1
    <3> HIDE DEF c
    <3> QED
      BY <1>1, <1>2, <1>3, <3>2, <3>3, <3>4, <3>5 DEF TrackedIsPublished
  <2> QED
    BY <2>1, <2>2
<1>6. ASSUME NEW r \in Registrar,
             \/ \E c \in Case : IsCaseTracked(r, c)
             \/ \E c \in Case, scandal \in AsScandal : RegisterCase(r, c, scandal)
             \/ UpsertScandal(r) \/ RegisterEdge(r) \/ RegisterFails(r)
      PROVE  UNCHANGED <<tracked, rows>>
  BY <1>6 DEF IsCaseTracked, RegisterCase, UpsertScandal, RegisterEdge, RegisterFails, stores
<1>7. ASSUME RegisterNext PROVE TrackedIsPublished'
  BY <1>4, <1>5, <1>6, <1>7 DEF RegisterNext
<1>8. ASSUME \/ \E c \in Case : WeekPasses(c)
             \/ Skip \/ UpdateWatcherTrackingPoll
      PROVE  tracked' = tracked /\ \A c \in Case : rows'[c].scandal = rows[c].scandal
  <2>2. ASSUME NEW c \in Case, WeekPasses(c) PROVE tracked' = tracked /\ \A d \in Case : rows'[d].scandal = rows[d].scandal
    BY <1>1, <2>2 DEF WeekPasses, Row
  <2>3. ASSUME Skip PROVE tracked' = tracked /\ \A d \in Case : rows'[d].scandal = rows[d].scandal
    <3>1. CASE rows' = rows
      BY <2>3, <3>1 DEF Skip
    <3>2. CASE TrackingPoll(c1, run.row[c1].status)
      BY <1>1, <2>3, <3>2 DEF Skip, TrackingPoll, Row
    <3> QED
      BY <2>3, <3>1, <3>2 DEF Skip
  <2>4. ASSUME UpdateWatcherTrackingPoll PROVE tracked' = tracked /\ \A d \in Case : rows'[d].scandal = rows[d].scandal
    <3>1. PICK st : TrackingPoll(run.case, st)
      BY <2>4 DEF UpdateWatcherTrackingPoll
    <3>2. \A d \in Case : rows'[d].scandal = rows[d].scandal
      BY <1>1, <3>1 DEF TrackingPoll, Row
    <3> QED
      BY <2>4, <3>2 DEF UpdateWatcherTrackingPoll
  <2> QED
    BY <1>8, <2>2, <2>3, <2>4
<1>9. ASSUME \/ \E c \in Case, st \in Dockets : Proceed(c, st)
             \/ \E writes \in Modes, limit \in PollLimits : RunBegin(writes, limit)
             \/ FetchNext \/ UpsertProceeding \/ PollEdge \/ UpdateProceedingCaseState \/ RunEnd \/ RunDies
             \/ UNCHANGED vars
      PROVE  UNCHANGED <<tracked, rows>>
  BY <1>9 DEF Proceed, RunBegin, FetchNext, Pooled, Lookup, UpsertProceeding, PollEdge,
     UpdateProceedingCaseState, RunEnd, RunDies, vars, stores
<1> QED
  BY <1>4, <1>7, <1>8, <1>9 DEF Next, WriteNext

\* Nothing that was listed gets lost on its way through the run.
LEMMA NothingLostStep ==
  ASSUME WatcherInv, [Next]_vars
  PROVE  NothingLost(Held)' /\ (run'.pc # "take" => on')
<1>1. /\ TypeOK /\ PoolTypeOK(Answers) /\ NothingLost(Held) /\ (run.pc # "take" => on)
      /\ run \in Writer
  BY DEF WatcherInv, TypeOK, Answers
<1>2. PICK held : held = Held
  OBVIOUS
<1>3. PICK holding : holding = Held'
  OBVIOUS
<1>4. /\ run.pc = "take" => held = {}
      /\ run.pc # "take" => held = {run.case}
      /\ run'.pc = "take" => holding = {}
      /\ run'.pc # "take" => holding = {run'.case}
  BY <1>2, <1>3 DEF Held
<1>5. NothingLost(held)
  BY <1>1, <1>2
<1>6. SUFFICES NothingLost(holding)' /\ (run'.pc # "take" => on')
  BY <1>3
<1>7. ASSUME NEW items \in Seq(Item), PoolBegin(items), run'.pc = "take"
      PROVE  NothingLost(holding)' /\ (run'.pc # "take" => on')
  BY <1>7, BeginKeeps
<1>8. ASSUME NEW f \in Fetcher, Handing(f), run' = run
      PROVE  NothingLost(holding)' /\ (run'.pc # "take" => on')
  <2>1. holding = held /\ on' = on
    BY <1>4, <1>8 DEF Handing, Handoff, Send, FetcherDone
  <2> QED
    BY <1>1, <1>5, <1>8, <2>1, HandingKeeps
<1>9. ASSUME NEW f \in Fetcher, NEW a \in Answers, Fetched(f, a), run' = run
      PROVE  NothingLost(holding)' /\ (run'.pc # "take" => on')
  <2>1. holding = held /\ on' = on
    BY <1>4, <1>9 DEF Fetched
  <2> QED
    BY <1>1, <1>5, <1>9, <2>1, FetchedKeeps
<1>10. ASSUME Skip, TakeAnswer(TRUE), run' = run
       PROVE  NothingLost(holding)' /\ (run'.pc # "take" => on')
  <2>1. held = holding /\ on' = on
    BY <1>4, <1>10 DEF TakeAnswer
  <2> QED
    BY <1>1, <1>5, <1>10, <2>1, TakeKeeps
<1>11. ASSUME UpsertProceeding, TakeAnswer(FALSE)
       PROVE  NothingLost(holding)' /\ (run'.pc # "take" => on')
  <2>1. held = {} /\ on' /\ run'.case = c1 /\ run'.pc # "take"
    BY <1>1, <1>4, <1>11 DEF UpsertProceeding, TakeAnswer, Writer
  <2>2. Head(answers)[1] \in holding /\ held \subseteq holding
    BY <1>4, <2>1 DEF c1
  <2>3. FALSE \in BOOLEAN /\ PoolTypeOK(Answers) /\ NothingLost(held) /\ TakeAnswer(FALSE)
    BY <1>1, <1>5, <1>11
  <2>4. NothingLost(holding)'
    BY <2>2, <2>3, TakeKeeps
  <2> QED
    BY <2>1, <2>4
<1>12. ASSUME UpdateWatcherTrackingPoll, Dealt(run.case), run'.pc = "take"
       PROVE  NothingLost(holding)' /\ (run'.pc # "take" => on')
  <2>1. PICK i : i = run.case
    OBVIOUS
  <2>2. on /\ Dealt(i) /\ held \subseteq holding \cup {i}
    BY <1>1, <1>4, <1>12, <2>1 DEF UpdateWatcherTrackingPoll
  <2> QED
    BY <1>5, <1>12, <2>2, DealtKeeps
<1>13. ASSUME PoolEnd \/ PoolDies, run'.pc = "take"
       PROVE  NothingLost(holding)' /\ (run'.pc # "take" => on')
  BY <1>13, EndKeeps
<1>14. ASSUME UNCHANGED pool, run' = run \/ PollEdge \/ UpdateProceedingCaseState
       PROVE  NothingLost(holding)' /\ (run'.pc # "take" => on')
  <2>1. holding = held /\ (run'.pc # "take" => run.pc # "take") /\ on' = on
    <3>1. CASE run' = run
      BY <1>4, <1>14, <3>1 DEF pool
    <3>2. CASE PollEdge \/ UpdateProceedingCaseState
      BY <1>1, <1>4, <1>14, <3>2 DEF pool, PollEdge, UpdateProceedingCaseState, Writer
    <3> QED
      BY <1>14, <3>1, <3>2
  <2> QED
    BY <1>1, <1>5, <1>14, <2>1, IdleKeeps
<1> QED
  BY <1>1, <1>7, <1>8, <1>9, <1>10, <1>11, <1>12, <1>13, <1>14, PoolSteps

-------------------------------------------------------------------------------
(* Theorems.                                                               *)

\* The inductive invariant (Run, registerWatcherCase).
THEOREM WatcherInvHolds == Spec => []WatcherInv
<1>1. Init => WatcherInv
  <2> SUFFICES ASSUME Init PROVE WatcherInv
    OBVIOUS
  <2>1. PoolTypeOK(Answers) /\ NothingLost(Held)
    BY PoolInitTyped, PoolInitKeeps DEF Init
  <2>2. NoRun \in Writer
    BY Constants DEF NoRun, Writer, Answers
  <2>3. <<>> \in Seq(Case) /\ Range(<<>>) = {}
    BY DEF Range
  <2>4. TypeOK
    BY <2>1, <2>2, <2>3, Constants DEF Init, TypeOK, Answers
  <2>5. (\A r \in Registrar : InOrder(reg[r])) /\ TrackedIsPublished /\ run.pc = "take"
    BY <2>3 DEF Init, InOrder, NoReg, NoRun, TrackedIsPublished
  <2> QED
    BY <2>1, <2>4, <2>5 DEF WatcherInv
<1>2. WatcherInv /\ [Next]_vars => WatcherInv'
  <2> SUFFICES ASSUME WatcherInv, [Next]_vars PROVE WatcherInv'
    OBVIOUS
  <2>1. TypeOK'
    BY TypeStep DEF WatcherInv
  <2> QED
    BY <2>1, InOrderStep, PublishedStep, NothingLostStep DEF WatcherInv
<1> QED
  BY <1>1, <1>2, PTL DEF Spec

\* The registrations, the stores, the pool and the writer keep their types, and what
\* is shown of a docket is a disposition (deriveCaseState).
THEOREM TypeCorrect == Spec => []TypeOK
<1>1. WatcherInv => TypeOK
  BY DEF WatcherInv
<1> QED
  BY <1>1, WatcherInvHolds, PTL

\* What is polled is in the graph, with the edge to the scandal it was registered
\* with, whatever registrations failed half way or ran together (registerWatcherCase).
THEOREM TrackedArePublished == Spec => []TrackedIsPublished
<1>1. WatcherInv => TrackedIsPublished
  BY DEF WatcherInv
<1> QED
  BY <1>1, WatcherInvHolds, PTL

\* Only a poll of that very case shows a concluded proceeding as ongoing again:
\* no registration, boot seed or poll of another case does (applyCaseWrites).
THEOREM PollsReopen == Spec => OnlyPollsReopen
<1>1. TypeOK /\ [Next]_vars =>
        [\A c \in Case : graph[c].status = "concluded" /\ graph'[c].status = "ongoing"
           => /\ answers # <<>> /\ c1 = c
              /\ run'.case = c /\ run'.answer = a1]_vars
  <2> SUFFICES ASSUME TypeOK, [Next]_vars, NEW c \in Case,
                      graph[c].status = "concluded", graph'[c].status = "ongoing"
               PROVE  answers # <<>> /\ c1 = c /\ run'.case = c /\ run'.answer = a1
    OBVIOUS
  <2>1. graph \in [Case -> Node]
    BY DEF TypeOK
  <2>2. graph' # graph
    OBVIOUS
  <2>3. ~RegisterNext
    <3>1. ASSUME NEW r \in Registrar, NEW d \in Case, NEW scandal \in AsScandal, RegisterCase(r, d, scandal)
          PROVE  FALSE
      BY <2>1, <3>1 DEF RegisterCase, UpsertKnown, NoNode
    <3> QED
      BY <2>2, <3>1 DEF RegisterNext, IsCaseTracked, UpsertScandal, RegisterEdge, UpsertWatcherCase,
         RegisterFails, stores
  <2>4. ~UpdateProceedingCaseState
    <3> SUFFICES ASSUME UpdateProceedingCaseState PROVE FALSE
      OBVIOUS
    <3>1. PICK st : st = StateOf[run.answer]
      OBVIOUS
    <3>2. graph' = [graph EXCEPT ![run.case].phase = IF st.phase # "" THEN st.phase ELSE @,
                                 ![run.case].disposition = st.disposition,
                                 ![run.case].status = IF st.concluded THEN "concluded" ELSE @]
      BY <3>1 DEF UpdateProceedingCaseState
    <3>3. graph'[c].status \in {graph[c].status, "concluded"}
      BY <2>1, <3>2 DEF Node
    <3> QED
      BY <3>3
  <2>5. UpsertProceeding
    BY <2>2, <2>3, <2>4 DEF Next, WriteNext, Proceed, WeekPasses, RunBegin, FetchNext, Pooled, Lookup,
       Skip, PollEdge, UpdateWatcherTrackingPoll, RunEnd, RunDies, vars, stores
  <2>6. c1 = c
    BY <2>1, <2>5 DEF UpsertProceeding, Node
  <2>7. run'.case = c1 /\ run'.answer = a1
    BY <2>5 DEF UpsertProceeding, TypeOK, Writer
  <2> QED
    BY <2>5, <2>6, <2>7 DEF UpsertProceeding, TakeAnswer
<1> QED
  BY <1>1, TypeCorrect, PTL DEF Spec, OnlyPollsReopen

\* LatestRulingStands, which the code breaks, for the dockets that have their dates:
\* a poll shows what the latest of the rulings says, in whatever order the tribunal
\* lists the movements (movementsChronological, UpdateProceedingCaseState).
DatedRulingStands ==
  [][run.pc = "state" /\ run'.pc = "track" /\ Dated(run.answer) =>
       graph'[run.case].disposition = Standing(run.answer.criminal, run.answer.movs)]_vars

\* The run shows the latest ruling of a docket whose movements are dated
\* (movementsChronological, deriveCaseState).
THEOREM DatedRulingsStand == Spec => DatedRulingStands
<1>1. TypeOK /\ [Next]_vars =>
        [run.pc = "state" /\ run'.pc = "track" /\ Dated(run.answer) =>
           graph'[run.case].disposition = Standing(run.answer.criminal, run.answer.movs)]_vars
  <2> SUFFICES ASSUME TypeOK, [Next]_vars, run.pc = "state", run'.pc = "track", Dated(run.answer)
               PROVE  graph'[run.case].disposition = Standing(run.answer.criminal, run.answer.movs)
    OBVIOUS
  <2>1. run \in Writer /\ run.case \in Case /\ run.answer \in Answers /\ graph \in [Case -> Node]
    BY DEF TypeOK, Writer, Answers
  <2>2. UpdateProceedingCaseState
    <3>1. ~(Skip \/ UpsertProceeding \/ PollEdge \/ RunEnd \/ RunDies)
      BY DEF Skip, UpsertProceeding, PollEdge, RunEnd, RunDies, NoRun
    <3>2. ~UpdateWatcherTrackingPoll
      BY DEF UpdateWatcherTrackingPoll
    <3>3. ~(\E writes \in Modes, limit \in PollLimits : RunBegin(writes, limit))
      BY DEF RunBegin, NoRun
    <3>4. run' # run
      OBVIOUS
    <3> QED
      BY <3>1, <3>2, <3>3, <3>4 DEF Next, WriteNext, Proceed, WeekPasses, RegisterNext, IsCaseTracked,
         RegisterCase, UpsertScandal, RegisterEdge, UpsertWatcherCase, RegisterFails, FetchNext, Pooled,
         Lookup, vars, pipe
  <2>3. PICK a \in Answers : a = run.answer
    BY <2>1
  <2>4. a.criminal \in BOOLEAN /\ a.movs \in Seq(Movement)
    BY AnswerDocket
  <2>5. DatesOf(a.movs) \in [1..Len(a.movs) -> Nat \ {0}]
    <3>1. DOMAIN a.movs = 1..Len(a.movs)
      BY <2>4
    <3>2. ASSUME NEW i \in DOMAIN a.movs PROVE a.movs[i].time \in Nat \ {0}
      <4>1. a.movs[i] \in Movement
        BY <2>4
      <4>2. a.movs[i].time # 0
        BY <2>3 DEF Dated
      <4> QED
        BY <4>1, <4>2, WatcherAssumption DEF Movement
    <3> QED
      BY <3>1, <3>2 DEF DatesOf
  <2>6. StateOf[a].disposition = Standing(a.criminal, a.movs)
    BY <2>4, <2>5, LatestWins DEF StateOf, Answers
  <2>7. graph'[run.case].disposition = StateOf[a].disposition
    <3>1. PICK st : st = StateOf[a]
      OBVIOUS
    <3>2. graph' = [graph EXCEPT ![run.case].phase = IF st.phase # "" THEN st.phase ELSE @,
                                 ![run.case].disposition = st.disposition,
                                 ![run.case].status = IF st.concluded THEN "concluded" ELSE @]
      BY <2>2, <2>3, <3>1 DEF UpdateProceedingCaseState
    <3> QED
      BY <2>1, <3>1, <3>2 DEF Node
  <2> QED
    BY <2>3, <2>6, <2>7
<1> QED
  BY <1>1, TypeCorrect, PTL DEF Spec, DatedRulingStands

\* A run takes on the cases that are due and ends of itself only when it has dealt
\* with all of them, whatever its fetchers do (Run of the watcher).
Work == INSTANCE WorkList WITH pending <- listed \ handled, breaks <- stops

\* The run implements the work list (ListWatcherCasesForPoll, Run).
THEOREM RunsAreWorkLists == Spec => Work!Init /\ [][Work!Next]_(Work!vars)
<1>1. Init => Work!Init
  BY DEF Init, PoolInit, Work!Init
<1>2. WatcherInv /\ [Next]_vars => [Work!Next]_(Work!vars)
  <2> SUFFICES ASSUME WatcherInv, [Next]_vars PROVE Work!Next \/ UNCHANGED Work!vars
    OBVIOUS
  <2> USE DEF Work!Next, Work!vars
  <2>1. TypeOK /\ PoolTypeOK(Answers) /\ NothingLost(Held) /\ (run.pc # "take" => on)
    BY DEF WatcherInv, TypeOK, Answers
  <2>2. ASSUME NEW items \in Seq(Item), PoolBegin(items), stops' = stops PROVE Work!Begin
    <3>1. Range(items) \subseteq Item
      BY DEF Range
    <3> QED
      BY <2>2, <3>1 DEF PoolBegin, Work!Begin
  <2>3. ASSUME RunDies, PoolDies PROVE Work!Break
    BY <2>3 DEF RunDies, PoolDies, Reset, Work!Break
  <2>4. ASSUME RunEnd, PoolEnd, stops' = stops PROVE Work!End
    <3>1. NothingLost({})
      BY <2>1, <2>4 DEF RunEnd, Held
    <3>2. on /\ listed \ handled = {}
      BY <2>4, <3>1, AllDealtAtEnd
    <3> QED
      BY <2>4, <3>2 DEF PoolEnd, Reset, Work!End
  <2>5. ASSUME NEW i \in Item, on, on' = on, listed' = listed, handled' = handled \cup {i}, stops' = stops
        PROVE  (\E j \in Item : Work!Deal(j)) \/ UNCHANGED Work!vars
    <3>1. CASE i \in listed \ handled
      <4>1. listed' \ handled' = (listed \ handled) \ {i}
        BY <2>5
      <4> QED
        BY <2>5, <3>1, <4>1 DEF Work!Deal
    <3>2. CASE i \notin listed \ handled
      <4>1. listed' \ handled' = listed \ handled
        BY <2>5, <3>2
      <4> QED
        BY <2>5, <4>1
    <3> QED
      BY <3>1, <3>2
  <2>6. ASSUME TakeAnswer(TRUE), stops' = stops PROVE Work!Next \/ UNCHANGED Work!vars
    <3>1. Head(answers)[1] \in Item
      BY <2>1, <2>6, AnswersTail DEF TakeAnswer, PoolTypeOK
    <3> QED
      BY <2>5, <2>6, <3>1 DEF TakeAnswer
  <2>7. ASSUME UpdateWatcherTrackingPoll, Dealt(run.case), stops' = stops
        PROVE  Work!Next \/ UNCHANGED Work!vars
    <3>1. on /\ run.case \in Item
      BY <2>1, <2>7 DEF UpdateWatcherTrackingPoll, TypeOK, Writer, Case
    <3> QED
      BY <2>5, <2>7, <3>1 DEF Dealt
  <2>8. ASSUME \/ \E f \in Fetcher : Handing(f)
               \/ \E f \in Fetcher, a \in Answers : Fetched(f, a)
               \/ TakeAnswer(FALSE)
               \/ UNCHANGED pool
        PROVE  UNCHANGED <<on, listed, handled>>
    BY <2>8 DEF Handing, Handoff, Send, FetcherDone, Fetched, TakeAnswer, pool
  <2> QED
    BY <2>1, <2>2, <2>3, <2>4, <2>6, <2>7, <2>8, PoolSteps
<1> QED
  BY <1>1, <1>2, WatcherInvHolds, PTL DEF Spec

===============================================================================
