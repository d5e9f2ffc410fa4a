---------------------------- MODULE NameModeProofs ----------------------------
(***************************************************************************)
(* Theorems about NameMode and the searches of DjenClient, for any names,  *)
(* listings, page size and cap, any number of fetchers and refusals.       *)
(***************************************************************************)
EXTENDS NameMode, FetchPoolProofs

(* Where the records of a listing are.                                     *)

Span(l, from, to) == {l[i] : i \in {i \in DOMAIN l : from < i /\ i <= to}}

\* The windows before one.
Past(name, w) == UNION {Span(Listing[name][v], 0, Len(Listing[name][v])) :
                          v \in {v \in DOMAIN Listing[name] : v < w}}

Distinct(q) == \A i, j \in DOMAIN q : q[i] = q[j] => i = j

\* A communication has one date, which is in one window, and one place there.
ListedOnce ==
  \A n \in Party : \A v, w \in DOMAIN Listing[n] :
    \A i \in DOMAIN Listing[n][v], j \in DOMAIN Listing[n][w] :
      Listing[n][v][i] = Listing[n][w][j] => v = w /\ i = j

(* The parts of the inductive invariant.                                   *)

\* The pages that are left of a range follow each other up to its end; only the
\* first of them can have had its second chance.
Tiled(s) ==
  /\ s.todo # <<>>
  /\ \A i \in DOMAIN s.todo : s.todo[i].size \in {1, 2, 4, 8, 16, 32}
  /\ \A i \in DOMAIN s.todo : i > 1 => /\ ~s.todo[i].again
                                       /\ s.todo[i].offset = s.todo[i - 1].offset + s.todo[i - 1].size
  /\ LET e == s.todo[Len(s.todo)] IN e.offset + e.size = s.offset + PageSize

\* What a search has up to a place of its window: every record before it, where it
\* belongs, or given up.
ReadUpTo(name, s, pos) ==
  LET l == Listing[name][s.window] IN
  /\ s.window \in DOMAIN Listing[name]
  /\ s.offset <= pos
  /\ Range(s.out) \subseteq Past(name, s.window)
  /\ Range(s.got) \subseteq Span(l, 0, s.offset)
  /\ Range(s.page) \subseteq Span(l, s.offset, pos)
  /\ ListedOnce => /\ s.lost \cap (Range(s.out) \cup Range(s.got) \cup Range(s.page)) = {}
                   /\ Distinct(s.out) /\ Distinct(s.got) /\ Distinct(s.page)
  /\ Range(s.out) \cup Range(s.got) \cup Range(s.page) \cup s.lost
       = Past(name, s.window) \cup Span(l, 0, pos)
  /\ s.total \in {-1, Len(l)}
  /\ s.count = IF s.served THEN Len(l) ELSE 0
  /\ Span(l, s.offset, pos) # {} => Len(s.page) + s.refused > 0
  /\ Cap = 0 \/ Len(s.out) < Cap

\* What a search yields.
Complete(name, s) ==
  /\ ListedOnce => Distinct(s.out) /\ Found(s) \cap s.lost = {}
  /\ Cap = 0 \/ Len(s.out) < Cap => Wanted(name) = Found(s) \cup s.lost
  /\ Cap > 0 => Len(s.out) <= Cap

SearchGood(name, s) ==
  /\ s.result = "none" => Tiled(s) /\ ReadUpTo(name, s, p0(s).offset)
  /\ s.result = "items" => Complete(name, s)

\* Refusals paid for: two for every record given up, one for the chance it had.
Paid(name, s) ==
  /\ IsFiniteSet(s.lost)
  /\ 2 * Cardinality(s.lost \ Unservable) <= blips
  /\ Asking(s) /\ p0(s).again =>
       /\ p0(s).size = 1
       /\ ~Holds(Listed(name, s), Unservable) => 2 * Cardinality(s.lost \ Unservable) < blips

\* A fetcher that searches does so for its item, and nobody else has a search.
SearchOK(f) ==
  /\ fetcher[f].pc = "fetch" => /\ SearchGood(fetcher[f].item, search[f])
                                /\ Paid(fetcher[f].item, search[f])
  /\ fetcher[f].pc # "fetch" => search[f] = NoSearch

Searching == \A f \in Fetcher : SearchOK(f)

\* The run itself has one name in its hands, and only while it is going on.
Held == IF lookup.pc = "take" THEN {} ELSE {lookup.name}

InHand ==
  /\ lookup.pc # "take" => on
  /\ ~on => \A f \in Fetcher : fetcher[f].pc = "idle"
  /\ lookup.pc = "track" => lookup.case \subseteq nodes

NamesInv == TypeOK /\ InHand /\ NothingLost(Held) /\ Searching

-------------------------------------------------------------------------------
(* Sequences of records.                                                   *)

\* Two sequences, one after the other.
LEMMA Joined ==
  ASSUME NEW S, NEW q \in Seq(S), NEW r \in Seq(S)
  PROVE  /\ q \o r \in Seq(S) /\ Len(q \o r) = Len(q) + Len(r)
         /\ \A i \in 1..Len(q) : (q \o r)[i] = q[i]
         /\ \A i \in 1..Len(r) : (q \o r)[Len(q) + i] = r[i]
  OBVIOUS

\* What they hold, and when without repetitions.
LEMMA Concatenation ==
  ASSUME NEW S, NEW q \in Seq(S), NEW r \in Seq(S)
  PROVE  /\ q \o r \in Seq(S) /\ Len(q \o r) = Len(q) + Len(r)
         /\ Range(q \o r) = Range(q) \cup Range(r)
         /\ Distinct(q) /\ Distinct(r) /\ Range(q) \cap Range(r) = {} => Distinct(q \o r)
<1>1. /\ q \o r \in Seq(S) /\ Len(q \o r) = Len(q) + Len(r)
      /\ \A i \in 1..Len(q) : (q \o r)[i] = q[i]
      /\ \A i \in 1..Len(r) : (q \o r)[Len(q) + i] = r[i]
  BY Joined
<1>2. Range(q \o r) = Range(q) \cup Range(r)
  BY RangeConcatenation
<1>3. ASSUME Distinct(q), Distinct(r), Range(q) \cap Range(r) = {} PROVE Distinct(q \o r)
  <2> SUFFICES ASSUME NEW i \in DOMAIN (q \o r), NEW j \in DOMAIN (q \o r), (q \o r)[i] = (q \o r)[j]
               PROVE  i = j
    BY DEF Distinct
  <2>1. \A k \in DOMAIN (q \o r) :
          \/ k \in DOMAIN q /\ (q \o r)[k] = q[k]
          \/ k - Len(q) \in DOMAIN r /\ (q \o r)[k] = r[k - Len(q)]
    <3> TAKE k \in DOMAIN (q \o r)
    <3>1. CASE k <= Len(q)
      BY <1>1, <3>1
    <3>2. CASE k > Len(q)
      <4>1. k - Len(q) \in 1..Len(r) /\ Len(q) + (k - Len(q)) = k
        BY <1>1, <3>2
      <4> QED
        BY <1>1, <4>1
    <3> QED
      BY <1>1, <3>1, <3>2
  <2>2. \A k \in DOMAIN q, m \in DOMAIN r : q[k] # r[m]
    BY <1>3 DEF Range
  <2>3. i \in DOMAIN q /\ j \in DOMAIN q => i = j
    BY <1>1, <1>3 DEF Distinct
  <2>4. i - Len(q) \in DOMAIN r /\ j - Len(q) \in DOMAIN r => i = j
    <3> SUFFICES ASSUME i - Len(q) \in DOMAIN r, j - Len(q) \in DOMAIN r PROVE i - Len(q) = j - Len(q)
      BY <1>1
    <3>1. i \notin DOMAIN q /\ j \notin DOMAIN q
      OBVIOUS
    <3> QED
      BY <1>3, <2>1, <3>1 DEF Distinct
  <2> QED
    BY <2>1, <2>2, <2>3, <2>4
<1> QED
  BY <1>1, <1>2, <1>3

\* The first n of a sequence.
LEMMA TakeIsPrefix ==
  ASSUME NEW S, NEW q \in Seq(S), NEW n \in Nat
  PROVE  /\ Take(q, n) \in Seq(S) /\ Range(Take(q, n)) \subseteq Range(q)
         /\ Len(Take(q, n)) = (IF n < Len(q) THEN n ELSE Len(q))
         /\ n >= Len(q) => Take(q, n) = q
         /\ Distinct(q) => Distinct(Take(q, n))
<1> DEFINE m == IF n < Len(q) THEN n ELSE Len(q)
<1>1. /\ m \in 0..Len(q) /\ SubSeq(q, 1, m) \in Seq(S) /\ Len(SubSeq(q, 1, m)) = m
      /\ \A i \in 1..m : SubSeq(q, 1, m)[i] = q[i]
  OBVIOUS
<1>2. n >= Len(q) => SubSeq(q, 1, m) = q
  BY <1>1
<1> HIDE DEF m
<1>3. Take(q, n) = SubSeq(q, 1, m)
  BY DEF Take, m
<1> QED
  BY <1>1, <1>2, <1>3 DEF Range, Distinct, m

\* A page has the records of its place.
LEMMA ListedIsSpan ==
  ASSUME NEW l \in Seq(Record), NEW a \in Nat, NEW n \in Nat,
         NEW q, q = SubSeq(l, a + 1, IF a + n < Len(l) THEN a + n ELSE Len(l))
  PROVE  /\ q \in Seq(Record) /\ Range(q) = Span(l, a, a + n)
         /\ Span(l, a, a + n) # {} => Len(q) > 0
         /\ Distinct(l) => Distinct(q)
<1> DEFINE b == IF a + n < Len(l) THEN a + n ELSE Len(l)
<1>1. q = SubSeq(l, a + 1, b) /\ b \in 0..Len(l) /\ b <= a + n
  OBVIOUS
<1>2. q \in Seq(Record) /\ Len(q) = (IF a < b THEN b - a ELSE 0)
      /\ \A i \in 1..Len(q) : q[i] = l[a + i]
  BY <1>1
<1>3. ASSUME NEW i \in DOMAIN l, a < i, i <= a + n
      PROVE  i - a \in DOMAIN q /\ q[i - a] = l[i]
  BY <1>2, <1>3
<1>4. ASSUME NEW i \in DOMAIN q
      PROVE  a + i \in DOMAIN l /\ a < a + i /\ a + i <= a + n /\ q[i] = l[a + i]
  BY <1>1, <1>2
<1> HIDE DEF b
<1>5. Range(q) = Span(l, a, a + n)
  <2>1. ASSUME NEW x \in Range(q) PROVE x \in Span(l, a, a + n)
    BY <1>4 DEF Range, Span
  <2>2. ASSUME NEW x \in Span(l, a, a + n) PROVE x \in Range(q)
    BY <1>3 DEF Range, Span
  <2> QED
    BY <2>1, <2>2
<1>6. ASSUME Distinct(l) PROVE Distinct(q)
  <2> SUFFICES ASSUME NEW i \in DOMAIN q, NEW j \in DOMAIN q, q[i] = q[j] PROVE i = j
    BY DEF Distinct
  <2>1. i \in Nat /\ j \in Nat
    BY <1>2
  <2>2. a + i = a + j
    BY <1>4, <1>6 DEF Distinct
  <2> QED
    BY <2>1, <2>2
<1>7. Range(q) # {} => Len(q) > 0
  BY <1>2 DEF Range
<1> QED
  BY <1>2, <1>5, <1>6, <1>7

-------------------------------------------------------------------------------
(* Places in a listing.                                                    *)

\* A stretch of a listing is two stretches, which share nothing.
LEMMA SpanGrows ==
  ASSUME NEW l \in Seq(Record), NEW a \in Nat, NEW b \in Nat, NEW c \in Nat, a <= b, b <= c
  PROVE  /\ Span(l, a, c) = Span(l, a, b) \cup Span(l, b, c)
         /\ Distinct(l) => Span(l, a, b) \cap Span(l, b, c) = {}
         /\ Span(l, a, c) \subseteq Span(l, 0, Len(l))
         /\ c >= Len(l) => Span(l, 0, c) = Span(l, 0, Len(l))
<1>1. ASSUME NEW x PROVE /\ x \in Span(l, a, c) <=> x \in Span(l, a, b) \/ x \in Span(l, b, c)
                         /\ x \in Span(l, a, c) => x \in Span(l, 0, Len(l))
                         /\ c >= Len(l) => (x \in Span(l, 0, c) <=> x \in Span(l, 0, Len(l)))
  BY DEF Span
<1>2. Distinct(l) => Span(l, a, b) \cap Span(l, b, c) = {}
  BY DEF Span, Distinct
<1> QED
  BY <1>1, <1>2

\* What lies before the next window.
LEMMA PastGrows ==
  ASSUME NEW n \in Party, NEW w \in DOMAIN Listing[n]
  PROVE  /\ Listing[n][w] \in Seq(Record)
         /\ Past(n, w + 1) = Past(n, w) \cup Span(Listing[n][w], 0, Len(Listing[n][w]))
         /\ ListedOnce => /\ Distinct(Listing[n][w])
                          /\ Past(n, w) \cap Span(Listing[n][w], 0, Len(Listing[n][w])) = {}
<1>1. Listing[n] \in Seq(Seq(Record))
  BY DjenClientAssumption
<1>2. Listing[n][w] \in Seq(Record)
  BY <1>1
<1>3. \A v \in DOMAIN Listing[n] : v < w + 1 <=> v < w \/ v = w
  BY <1>1
<1>4. Past(n, w + 1) = Past(n, w) \cup Span(Listing[n][w], 0, Len(Listing[n][w]))
  BY <1>1, <1>3 DEF Past
<1>5. ASSUME ListedOnce
      PROVE  /\ Distinct(Listing[n][w])
             /\ Past(n, w) \cap Span(Listing[n][w], 0, Len(Listing[n][w])) = {}
  <2>1. Distinct(Listing[n][w])
    BY <1>5 DEF ListedOnce, Distinct
  <2>2. ASSUME NEW x \in Past(n, w), x \in Span(Listing[n][w], 0, Len(Listing[n][w])) PROVE FALSE
    <3>1. PICK v \in DOMAIN Listing[n] : v < w /\ x \in Span(Listing[n][v], 0, Len(Listing[n][v]))
      BY DEF Past
    <3> QED
      BY <1>1, <1>5, <2>2, <3>1 DEF ListedOnce, Span
  <2> QED
    BY <2>1, <2>2
<1> QED
  BY <1>2, <1>4, <1>5

\* Before the first window nothing, after the last everything.
LEMMA PastEnds ==
  ASSUME NEW n \in Party
  PROVE  Past(n, 1) = {} /\ Past(n, Len(Listing[n]) + 1) = Wanted(n)
<1>1. Listing[n] \in Seq(Seq(Record))
  BY DjenClientAssumption
<1>2. \A v \in DOMAIN Listing[n] : Span(Listing[n][v], 0, Len(Listing[n][v]))
                                     = {Listing[n][v][i] : i \in DOMAIN Listing[n][v]}
  BY <1>1 DEF Span
<1>3. ASSUME NEW x PROVE x \in Past(n, Len(Listing[n]) + 1) <=> x \in Wanted(n)
  <2>1. x \in Past(n, Len(Listing[n]) + 1)
          <=> \E v \in DOMAIN Listing[n] : x \in Span(Listing[n][v], 0, Len(Listing[n][v]))
    BY <1>1 DEF Past
  <2>2. x \in Wanted(n)
          <=> \E v \in DOMAIN Listing[n] : x \in {Listing[n][v][i] : i \in DOMAIN Listing[n][v]}
    BY DEF Wanted, Windows
  <2> QED
    BY <1>2, <2>1, <2>2
<1> QED
  BY <1>1, <1>3 DEF Past

-------------------------------------------------------------------------------
(* From one request of a search to the next.                               *)

\* The page that is asked for next, if any, has its second chance before it.
Unhurried(s) == s.todo # <<>> => ~p0(s).again

\* What a step between two requests leaves of a search that lost what s lost.
GoesOn(name, s, r) ==
  /\ r \in Search /\ r.lost = s.lost
  /\ SearchGood(name, r) /\ Unhurried(r)

\* The types of the constants of a search.
LEMMA Typed ==
  /\ PageSize \in Nat /\ PageSize > 0 /\ Cap \in Nat /\ MaxRetries \in Nat
  /\ \A n \in Party : Listing[n] \in Seq(Seq(Record))
  /\ <<>> \in Seq(Page) /\ <<>> \in Seq(Record)
  BY DjenClientAssumption

\* A new range is one page.
LEMMA Range0Tiled ==
  ASSUME NEW s \in Search, NEW o \in Nat
  PROVE  /\ Range0(s, o) \in Search
         /\ Tiled(Range0(s, o)) /\ p0(Range0(s, o)).offset = o
         /\ Unhurried(Range0(s, o))
<1> DEFINE p == [offset |-> o, size |-> PageSize, again |-> FALSE]
           r == Range0(s, o)
<1>1. p \in Page /\ <<p>> \in Seq(Page) /\ Len(<<p>>) = 1 /\ <<p>>[1] = p /\ Head(<<p>>) = p
  BY Typed DEF Page
<1>3. p.offset = o /\ p.size = PageSize /\ p.again = FALSE
  OBVIOUS
<1>0. r = [s EXCEPT !.offset = o, !.page = <<>>, !.count = 0, !.served = FALSE, !.refused = 0,
                    !.todo = <<p>>]
  BY DEF Range0
<1> HIDE DEF p, r
<1>2. r.todo = <<p>> /\ r.offset = o /\ r \in Search
  BY <1>0, <1>1, Typed DEF Search
<1>4. DOMAIN r.todo = {1} /\ r.todo[1] = p /\ Len(r.todo) = 1 /\ p0(r) = p
  BY <1>1, <1>2 DEF p0
<1> QED
  BY <1>2, <1>3, <1>4, DjenClientAssumption DEF Tiled, Unhurried, r

\* The window of s is read to its end, or to the cap.
WindowRead(name, s) ==
  /\ s.result = "none" /\ s.window \in 0..Len(Listing[name])
  /\ ListedOnce => Distinct(s.out) /\ Range(s.out) \cap s.lost = {}
  /\ Range(s.out) \subseteq Past(name, s.window + 1)
  /\ Cap = 0 \/ Len(s.out) < Cap => Range(s.out) \cup s.lost = Past(name, s.window + 1)
  /\ Cap > 0 => Len(s.out) <= Cap

\* A window read up to its end leads to the next, or ends the search.
LEMMA NextWindowGoesOn ==
  ASSUME NEW n \in Party, NEW s \in Search, WindowRead(n, s)
  PROVE  GoesOn(n, s, NextWindow(n, s))
<1>1. CASE s.window = Len(Listing[n]) \/ (Cap > 0 /\ Len(s.out) >= Cap)
  <2> DEFINE r == [s EXCEPT !.result = "items", !.todo = <<>>]
  <2>1. /\ NextWindow(n, s) = r /\ r \in Search
        /\ r.lost = s.lost /\ r.out = s.out /\ r.result = "items" /\ r.todo = <<>>
    BY <1>1, Typed DEF NextWindow, Search
  <2> HIDE DEF r
  <2>2. Cap = 0 \/ Len(s.out) < Cap => Wanted(n) = Range(s.out) \cup s.lost
    <3>1. Len(s.out) \in Nat
      BY DEF Search
    <3> QED
      BY <1>1, <3>1, PastEnds, Typed DEF WindowRead
  <2>3. Found(r) = Range(s.out)
    BY <2>1 DEF Found, Range
  <2>4. Complete(n, r)
    BY <2>1, <2>2, <2>3 DEF Complete, WindowRead
  <2> QED
    BY <2>1, <2>4 DEF GoesOn, SearchGood, Unhurried
<1>2. CASE s.window # Len(Listing[n]) /\ ~(Cap > 0 /\ Len(s.out) >= Cap)
  <2> DEFINE t == [s EXCEPT !.window = @ + 1, !.total = -1, !.got = <<>>]
             r == Range0(t, 0)
             l == Listing[n][s.window + 1]
  <2>1. NextWindow(n, s) = r /\ t \in Search
    <3>1. NextWindow(n, s) = r
      BY <1>2 DEF NextWindow
    <3>2. -1 \in Int /\ s.window + 1 \in Nat
      BY DEF Search
    <3>3. t \in Search
      BY <3>2, Typed DEF Search
    <3> QED
      BY <3>1, <3>3
  <2>2. /\ r.window = s.window + 1 /\ r.offset = 0 /\ r.total = -1
        /\ r.out = s.out /\ r.got = <<>> /\ r.page = <<>> /\ r.lost = s.lost
        /\ r.served = FALSE /\ r.count = 0 /\ r.result = "none"
    BY DEF Range0, Search, WindowRead
  <2>3. r \in Search /\ Tiled(r) /\ p0(r).offset = 0 /\ Unhurried(r)
    BY <2>1, Range0Tiled
  <2> HIDE DEF r, t
  <2>4. s.window + 1 \in DOMAIN Listing[n]
    BY <1>2 DEF WindowRead
  <2>5. Range(<<>>) = {} /\ Distinct(<<>>) /\ Span(l, 0, 0) = {}
    <3>1. l \in Seq(Record)
      BY <2>4, Typed
    <3> QED
      BY <3>1 DEF Range, Distinct, Span
  <2>6. Cap = 0 \/ Len(s.out) < Cap
    BY <1>2, Typed DEF Search
  <2> HIDE DEF l
  <2>7. ReadUpTo(n, r, 0)
    BY <2>2, <2>4, <2>5, <2>6 DEF ReadUpTo, WindowRead, l
  <2> QED
    BY <2>1, <2>2, <2>3, <2>7 DEF GoesOn, SearchGood
<1> QED
  BY <1>1, <1>2

\* A range is done when its last page is: the window goes on with the next range,
\* or it is read to its end, or to the cap.
LEMMA RangeDoneGoesOn ==
  ASSUME NEW n \in Party, NEW s \in Search, s.result = "none",
         ReadUpTo(n, s, s.offset + PageSize)
  PROVE  GoesOn(n, s, RangeDone(n, s))
<1> DEFINE l     == Listing[n][s.window]
           total == IF s.total = -1 THEN s.count ELSE s.total
           got   == s.got \o s.page
           next  == s.offset + PageSize
           more  == /\ Len(s.page) + s.refused > 0
                    /\ next < total
                    /\ Remaining(s) = 0 \/ Len(got) < Remaining(s)
           new   == IF Remaining(s) = 0 THEN got ELSE Take(got, Remaining(s))
<1>1. /\ s.window \in DOMAIN Listing[n] /\ l \in Seq(Record) /\ Len(l) \in Nat
      /\ s.offset \in Nat /\ next \in Nat /\ s.offset <= next
      /\ s.page \in Seq(Record) /\ s.got \in Seq(Record) /\ s.out \in Seq(Record)
      /\ Len(s.page) \in Nat /\ Len(s.out) \in Nat /\ s.refused \in Nat
  <2>1. s.window \in DOMAIN Listing[n]
    BY DEF ReadUpTo
  <2>2. l \in Seq(Record) /\ Len(l) \in Nat
    BY <2>1, Typed
  <2>3. s.offset \in Nat /\ next \in Nat /\ s.offset <= next
    BY Typed DEF Search
  <2> QED
    BY <2>1, <2>2, <2>3 DEF Search
<1>2. /\ ListedOnce => Distinct(l) /\ Past(n, s.window) \cap Span(l, 0, Len(l)) = {}
      /\ Past(n, s.window + 1) = Past(n, s.window) \cup Span(l, 0, Len(l))
  BY <1>1, PastGrows
<1>3. /\ Span(l, 0, next) = Span(l, 0, s.offset) \cup Span(l, s.offset, next)
      /\ ListedOnce => Span(l, 0, s.offset) \cap Span(l, s.offset, next) = {}
      /\ Span(l, 0, next) \subseteq Span(l, 0, Len(l))
      /\ next >= Len(l) => Span(l, 0, next) = Span(l, 0, Len(l))
  BY <1>1, <1>2, SpanGrows
<1>4. /\ got \in Seq(Record) /\ Range(got) = Range(s.got) \cup Range(s.page)
      /\ (ListedOnce => Distinct(got)) /\ Len(got) \in Nat
  <2>1. ListedOnce => Range(s.got) \cap Range(s.page) = {} /\ Distinct(s.got) /\ Distinct(s.page)
    BY <1>3 DEF ReadUpTo
  <2>2. s.got \in Seq(Record) /\ s.page \in Seq(Record)
    BY <1>1
  <2>3. /\ got \in Seq(Record) /\ Range(got) = Range(s.got) \cup Range(s.page)
        /\ ListedOnce => Distinct(got)
    BY <2>1, <2>2, Concatenation
  <2> HIDE DEF got
  <2> QED
    BY <2>3
<1>5. /\ Remaining(s) \in Nat
      /\ Cap = 0 <=> Remaining(s) = 0
      /\ Cap > 0 => Remaining(s) = Cap - Len(s.out)
  <2>1. Cap = 0 \/ Len(s.out) < Cap
    BY DEF ReadUpTo
  <2>2. Cap \in Nat /\ Len(s.out) \in Nat
    BY <1>1, Typed
  <2>3. Remaining(s) = IF Cap > 0 THEN Cap - Len(s.out) ELSE 0
    BY DEF Remaining
  <2>4. CASE Cap = 0
    BY <2>3, <2>4
  <2>5. CASE Cap > 0
    <3>1. Cap - Len(s.out) \in Nat /\ Cap - Len(s.out) # 0
      BY <2>1, <2>2, <2>5
    <3> QED
      BY <2>2, <2>3, <2>5, <3>1
  <2> QED
    BY <2>2, <2>4, <2>5
<1> HIDE DEF got
<1>6. CASE s.total = -1 /\ ~s.served
  <2> DEFINE r == [s EXCEPT !.result = "error", !.todo = <<>>]
  <2>1. RangeDone(n, s) = r /\ r \in Search /\ r.lost = s.lost /\ r.result = "error" /\ r.todo = <<>>
    BY <1>6, Typed DEF RangeDone, RangeDoneUpTo, Search
  <2> QED
    BY <2>1 DEF GoesOn, SearchGood, Unhurried
<1>7. total = Len(l) \/ (s.total = -1 /\ ~s.served)
  BY DEF ReadUpTo
<1>8. CASE ~(s.total = -1 /\ ~s.served) /\ more
  <2> DEFINE t == [s EXCEPT !.got = got, !.total = total]
             r == Range0(t, next)
  <2>1. RangeDone(n, s) = r
    BY <1>8 DEF RangeDone, RangeDoneUpTo, got
  <2>2. total \in Int
    BY <1>1, <1>7, <1>8
  <2>3. t \in Search
    BY <1>4, <2>2 DEF Search
  <2>4. /\ r.window = s.window /\ r.offset = next /\ r.total = total
        /\ r.out = s.out /\ r.got = got /\ r.page = <<>> /\ r.lost = s.lost
        /\ r.served = FALSE /\ r.count = 0 /\ r.result = "none"
    BY DEF Range0, Search
  <2>5. r \in Search /\ Tiled(r) /\ p0(r).offset = next /\ Unhurried(r)
    BY <1>1, <2>3, Range0Tiled
  <2>6. Range(<<>>) = {} /\ Distinct(<<>>) /\ Span(l, next, next) = {}
    BY <1>1 DEF Range, Distinct, Span
  <2>7. total = Len(l)
    BY <1>7, <1>8
  <2> HIDE DEF r, t, l, next, total, more
  <2>8. ReadUpTo(n, r, next)
    BY <1>1, <1>3, <1>4, <2>4, <2>6, <2>7 DEF ReadUpTo, l, next
  <2> QED
    BY <2>1, <2>4, <2>5, <2>8 DEF GoesOn, SearchGood
<1>9. CASE ~(s.total = -1 /\ ~s.served) /\ ~more
  <2> DEFINE t == [s EXCEPT !.out = s.out \o new]
  <2>1. RangeDone(n, s) = NextWindow(n, t)
    BY <1>9 DEF RangeDone, RangeDoneUpTo, got
  <2>2. /\ new \in Seq(Record) /\ Range(new) \subseteq Range(got) /\ (ListedOnce => Distinct(new))
        /\ Remaining(s) = 0 \/ Len(got) <= Remaining(s) => new = got
        /\ Remaining(s) > 0 => Len(new) <= Remaining(s)
        /\ Remaining(s) > 0 /\ Len(got) >= Remaining(s) => Len(new) = Remaining(s)
    BY <1>4, <1>5, TakeIsPrefix
  <2> HIDE DEF new
  <2>3. /\ t \in Search /\ t.lost = s.lost /\ t.out = s.out \o new /\ t.window = s.window
        /\ t.result = "none"
    <3>1. s.out \o new \in Seq(Record)
      BY <1>1, <2>2
    <3> QED
      BY <3>1 DEF Search
  <2>4. ListedOnce => Range(s.out) \cap Range(new) = {} /\ Distinct(s.out)
    BY <1>2, <1>3, <1>4, <2>2 DEF ReadUpTo
  <2>5. /\ Range(t.out) = Range(s.out) \cup Range(new) /\ (ListedOnce => Distinct(t.out))
        /\ Len(t.out) = Len(s.out) + Len(new) /\ Len(new) \in Nat
    BY <1>1, <2>2, <2>3, <2>4, Concatenation
  <2> HIDE DEF t
  <2>6. \/ next >= Len(l)
        \/ Remaining(s) > 0 /\ Len(got) >= Remaining(s)
    <3>1. ASSUME next < Len(l) PROVE Len(s.page) + s.refused > 0
      <4>1. l[next] \in Span(l, s.offset, next)
        <5>1. s.offset < next
          <6>1. PageSize \in Nat /\ PageSize > 0 /\ s.offset \in Nat
            BY <1>1, Typed
          <6> QED
            BY <6>1
        <5> QED
          BY <1>1, <3>1, <5>1 DEF Span
      <4> QED
        BY <4>1 DEF ReadUpTo
    <3> QED
      BY <1>1, <1>4, <1>5, <1>7, <1>9, <3>1
  <2>7. Cap > 0 => Len(t.out) <= Cap
    BY <1>1, <1>5, <2>2, <2>5, Typed
  <2>8. ASSUME Cap = 0 \/ Len(t.out) < Cap
        PROVE  Range(t.out) \cup t.lost = Past(n, t.window + 1)
    <3>1. next >= Len(l) /\ new = got
      BY <1>1, <1>4, <1>5, <2>2, <2>5, <2>6, <2>8, Typed
    <3> QED
      BY <1>2, <1>3, <1>4, <2>3, <2>5, <3>1 DEF ReadUpTo
  <2>9. /\ ListedOnce => Range(t.out) \cap t.lost = {}
        /\ Range(t.out) \subseteq Past(n, t.window + 1)
    BY <1>2, <1>3, <1>4, <2>2, <2>3, <2>5 DEF ReadUpTo
  <2>10. t.window \in 0..Len(Listing[n])
    BY <1>1, <2>3, Typed
  <2>11. WindowRead(n, t)
    BY <2>3, <2>5, <2>7, <2>8, <2>9, <2>10 DEF WindowRead
  <2> QED
    BY <2>1, <2>3, <2>11, NextWindowGoesOn DEF GoesOn
<1> QED
  BY <1>6, <1>8, <1>9

\* A page is done: the next page of the range, or the range is done.
LEMMA PageDoneGoesOn ==
  ASSUME NEW n \in Party, NEW s \in Search, s.result = "none", Tiled(s),
         ReadUpTo(n, s, p0(s).offset + p0(s).size)
  PROVE  GoesOn(n, s, PageDone(n, s))
<1> DEFINE t == [s EXCEPT !.todo = Tail(@), !.tries = 0]
<1>1. /\ s.todo \in Seq(Page) /\ s.todo # <<>> /\ p0(s) = s.todo[1]
      /\ Tail(s.todo) \in Seq(Page) /\ Len(Tail(s.todo)) = Len(s.todo) - 1
      /\ \A i \in 1..Len(Tail(s.todo)) : Tail(s.todo)[i] = s.todo[i + 1]
  BY DEF Tiled, Search, p0
<1>2. /\ t \in Search /\ t.todo = Tail(s.todo) /\ t.offset = s.offset /\ t.lost = s.lost
      /\ t.result = "none"
  <2> DEFINE q == Tail(s.todo)
  <2>1. q \in Seq(Page) /\ t = [s EXCEPT !.todo = q, !.tries = 0]
    BY <1>1
  <2> HIDE DEF q, t
  <2>2. 0 \in 0..MaxRetries
    BY Typed
  <2>3. t \in Search /\ t.todo = q /\ t.offset = s.offset /\ t.lost = s.lost /\ t.result = "none"
    BY <2>1, <2>2 DEF Search
  <2> QED
    BY <2>3 DEF q
<1>3. \A pos : ReadUpTo(n, s, pos) => ReadUpTo(n, t, pos)
  BY DEF ReadUpTo, Search
<1>4. PageDone(n, s) = IF t.todo = <<>> THEN RangeDone(n, t) ELSE t
  BY DEF PageDone
<1> HIDE DEF t
<1>5. CASE t.todo = <<>>
  <2>1. Len(s.todo) = 1
    <3> DEFINE q == Tail(s.todo)
    <3>0. t.todo = q /\ Len(q) = Len(s.todo) - 1 /\ s.todo \in Seq(Page)
      BY <1>1, <1>2
    <3>3. Len(s.todo) \in Nat
      BY <3>0
    <3>1. q = <<>> /\ Len(q) = Len(s.todo) - 1 /\ Len(s.todo) \in Nat
      BY <1>5, <3>0, <3>3, Zenon
    <3> HIDE DEF q
    <3>2. Len(q) = 0
      BY <3>1
    <3> QED
      BY <3>1, <3>2
  <2>2. p0(s).offset + p0(s).size = t.offset + PageSize
    BY <1>1, <1>2, <2>1 DEF Tiled
  <2> QED
    BY <1>2, <1>3, <1>4, <1>5, <2>2, RangeDoneGoesOn DEF GoesOn
<1>6. CASE t.todo # <<>>
  <2>1. Len(s.todo) >= 2 /\ Len(t.todo) = Len(s.todo) - 1 /\ 2 \in DOMAIN s.todo
        /\ \A i \in DOMAIN t.todo : i + 1 \in DOMAIN s.todo /\ t.todo[i] = s.todo[i + 1]
    BY <1>1, <1>2, <1>6
  <2>2. p0(t) = s.todo[2] /\ p0(t).offset = p0(s).offset + p0(s).size /\ ~p0(t).again
    <3>1. p0(t) = s.todo[2]
      BY <1>1, <1>2, <2>1, <1>6 DEF p0
    <3> QED
      BY <1>1, <2>1, <3>1 DEF Tiled
  <2>3. Tiled(t)
    <3>1. t.todo[Len(t.todo)] = s.todo[Len(s.todo)]
      BY <1>2, <2>1
    <3>2. ASSUME NEW i \in DOMAIN t.todo, i > 1
          PROVE  ~t.todo[i].again /\ t.todo[i].offset = t.todo[i - 1].offset + t.todo[i - 1].size
      <4>1. i - 1 \in DOMAIN t.todo /\ (i - 1) + 1 = i /\ i + 1 > 1 /\ (i + 1) - 1 = i
        BY <1>2, <3>2
      <4> QED
        BY <2>1, <4>1 DEF Tiled
    <3> QED
      BY <1>2, <1>6, <2>1, <3>1, <3>2 DEF Tiled
  <2> QED
    BY <1>2, <1>3, <1>4, <1>6, <2>2, <2>3 DEF GoesOn, SearchGood, Unhurried
<1> QED
  BY <1>5, <1>6

\* The page that is asked for, and what it has.
LEMMA AskedPage ==
  ASSUME NEW n \in Party, NEW s \in Search, s.result = "none", Tiled(s),
         ReadUpTo(n, s, p0(s).offset)
  PROVE  LET l == Listing[n][s.window]
             a == p0(s).offset
             b == p0(s).offset + p0(s).size
         IN /\ s.todo \in Seq(Page) /\ p0(s) = s.todo[1] /\ 1 \in DOMAIN s.todo
            /\ p0(s) \in Page /\ p0(s).size \in {1, 2, 4, 8, 16, 32}
            /\ s.window \in DOMAIN Listing[n] /\ l \in Seq(Record)
            /\ s.offset \in Nat /\ a \in Nat /\ b \in Nat /\ s.offset <= a /\ a < b
            /\ Listed(n, s) \in Seq(Record) /\ Range(Listed(n, s)) = Span(l, a, b)
            /\ Span(l, a, b) # {} => Len(Listed(n, s)) > 0
            /\ Span(l, s.offset, b) = Span(l, s.offset, a) \cup Span(l, a, b)
            /\ Span(l, 0, b) = Span(l, 0, a) \cup Span(l, a, b)
            /\ ListedOnce => /\ Distinct(Listed(n, s))
                             /\ Span(l, 0, a) \cap Span(l, a, b) = {}
                             /\ Past(n, s.window) \cap Span(l, a, b) = {}
            /\ Span(l, s.offset, a) \subseteq Span(l, 0, a)
            /\ Span(l, 0, s.offset) \subseteq Span(l, 0, a)
<1> DEFINE l == Listing[n][s.window]
           a == p0(s).offset
           b == p0(s).offset + p0(s).size
<1>1. /\ s.todo \in Seq(Page) /\ p0(s) = s.todo[1] /\ 1 \in DOMAIN s.todo
      /\ p0(s) \in Page /\ p0(s).size \in {1, 2, 4, 8, 16, 32}
  BY DEF Tiled, Search, p0
<1>2. s.window \in DOMAIN Listing[n] /\ s.offset <= a /\ s.offset \in Nat
  BY DEF ReadUpTo, Search
<1>3. l \in Seq(Record)
  BY <1>2, Typed
<1>4. a \in Nat /\ b \in Nat /\ a < b /\ p0(s).size \in Nat
  BY <1>1 DEF Page
<1>5. ListedOnce => Distinct(l) /\ Past(n, s.window) \cap Span(l, 0, Len(l)) = {}
  BY <1>2, PastGrows
<1>6. Listed(n, s) = SubSeq(l, a + 1, IF a + p0(s).size < Len(l) THEN a + p0(s).size ELSE Len(l))
  BY DEF Listed
<1> HIDE DEF l
<1>11. \A q : q = SubSeq(l, a + 1, IF a + p0(s).size < Len(l) THEN a + p0(s).size ELSE Len(l))
         => /\ q \in Seq(Record) /\ Range(q) = Span(l, a, a + p0(s).size)
            /\ Span(l, a, a + p0(s).size) # {} => Len(q) > 0
            /\ Distinct(l) => Distinct(q)
  <2> DEFINE z == p0(s).size
  <2>1. a \in Nat /\ z \in Nat
    BY <1>4
  <2> HIDE DEF a, z
  <2>2. \A q : q = SubSeq(l, a + 1, IF a + z < Len(l) THEN a + z ELSE Len(l))
         => /\ q \in Seq(Record) /\ Range(q) = Span(l, a, a + z)
            /\ Span(l, a, a + z) # {} => Len(q) > 0
            /\ Distinct(l) => Distinct(q)
    BY <1>3, <2>1, ListedIsSpan
  <2> QED
    BY <2>2 DEF z
<1>7. /\ Listed(n, s) \in Seq(Record) /\ Range(Listed(n, s)) = Span(l, a, b)
      /\ (ListedOnce => Distinct(Listed(n, s))) /\ (Span(l, a, b) # {} => Len(Listed(n, s)) > 0)
  BY <1>5, <1>6, <1>11
<1> HIDE DEF a, b
<1>8. Span(l, s.offset, b) = Span(l, s.offset, a) \cup Span(l, a, b)
  BY <1>2, <1>3, <1>4, SpanGrows
<1>9. /\ Span(l, 0, b) = Span(l, 0, a) \cup Span(l, a, b)
      /\ ListedOnce => Span(l, 0, a) \cap Span(l, a, b) = {}
      /\ Span(l, 0, b) \subseteq Span(l, 0, Len(l))
  BY <1>3, <1>4, <1>5, SpanGrows
<1>10. Span(l, 0, a) = Span(l, 0, s.offset) \cup Span(l, s.offset, a)
  BY <1>2, <1>3, <1>4, SpanGrows
<1> QED
  BY <1>1, <1>2, <1>3, <1>4, <1>5, <1>7, <1>8, <1>9, <1>10 DEF a, b, l

\* What is asked of a search between two requests.
Underway(name, s) == s \in Search /\ s.result = "none" /\ Tiled(s) /\ ReadUpTo(name, s, p0(s).offset)

\* A page served is the next stretch of the window.
LEMMA ServedGoesOn ==
  ASSUME NEW n \in Party, NEW s, Underway(n, s)
  PROVE  GoesOn(n, s, Served(n, s))
<1> DEFINE l == Listing[n][s.window]
           a == p0(s).offset
           b == p0(s).offset + p0(s).size
           q == Listed(n, s)
           c == IF s.count < Len(l) THEN Len(l) ELSE s.count
           t == [s EXCEPT !.page = s.page \o q, !.served = TRUE, !.count = c]
<1> USE DEF Underway
<1>1. /\ l \in Seq(Record) /\ s.window \in DOMAIN Listing[n]
      /\ s.offset \in Nat /\ a \in Nat /\ b \in Nat /\ s.offset <= a /\ a < b
      /\ q \in Seq(Record) /\ Range(q) = Span(l, a, b)
      /\ (ListedOnce => Distinct(q)) /\ (Span(l, a, b) # {} => Len(q) > 0)
      /\ Span(l, s.offset, b) = Span(l, s.offset, a) \cup Span(l, a, b)
      /\ Span(l, 0, b) = Span(l, 0, a) \cup Span(l, a, b)
      /\ ListedOnce => /\ Span(l, 0, a) \cap Span(l, a, b) = {}
                       /\ Past(n, s.window) \cap Span(l, a, b) = {}
      /\ Span(l, s.offset, a) \subseteq Span(l, 0, a)
      /\ Span(l, 0, s.offset) \subseteq Span(l, 0, a)
  BY AskedPage
<1>2. Served(n, s) = PageDone(n, t)
  BY DEF Served
<1> HIDE DEF q
<1>3. /\ s.page \in Seq(Record)
      /\ ListedOnce => Distinct(s.page) /\ Range(s.page) \cap Range(q) = {}
  BY <1>1 DEF ReadUpTo, Search
<1>4. /\ s.page \o q \in Seq(Record) /\ Len(s.page \o q) = Len(s.page) + Len(q)
      /\ Range(s.page \o q) = Range(s.page) \cup Range(q)
      /\ ListedOnce => Distinct(s.page \o q)
  BY <1>1, <1>3, Concatenation
<1>5. c = Len(l) /\ c \in Nat
  <2>1. s.count = (IF s.served THEN Len(l) ELSE 0) /\ Len(l) \in Nat
    BY <1>1 DEF ReadUpTo
  <2> QED
    BY <2>1
<1> HIDE DEF c
<1>6. /\ t \in Search /\ t.todo = s.todo /\ t.offset = s.offset /\ t.lost = s.lost
      /\ t.result = "none" /\ t.window = s.window /\ t.out = s.out /\ t.got = s.got
      /\ t.page = s.page \o q /\ t.served = TRUE /\ t.count = c /\ t.total = s.total
      /\ t.refused = s.refused
  BY <1>4, <1>5 DEF Search
<1> HIDE DEF t
<1>7. Tiled(t) /\ p0(t) = p0(s)
  BY <1>6 DEF Tiled, p0
<1>8. ReadUpTo(n, t, b)
  <2>1. Len(s.page) \in Nat /\ Len(q) \in Nat /\ s.refused \in Nat
    BY <1>1, <1>3 DEF Search
  <2>2. Span(l, s.offset, b) # {} => Len(t.page) + t.refused > 0
    BY <1>1, <1>4, <1>6, <2>1 DEF ReadUpTo
  <2> HIDE DEF a, b
  <2>3. /\ Range(t.page) \subseteq Span(l, s.offset, b)
        /\ ListedOnce => t.lost \cap (Range(t.out) \cup Range(t.got) \cup Range(t.page)) = {}
        /\ Range(t.out) \cup Range(t.got) \cup Range(t.page) \cup t.lost
             = Past(n, s.window) \cup Span(l, 0, b)
    BY <1>1, <1>4, <1>6 DEF ReadUpTo, a
  <2> QED
    BY <1>1, <1>4, <1>5, <1>6, <2>2, <2>3 DEF ReadUpTo, a
<1> QED
  BY <1>2, <1>6, <1>7, <1>8, PageDoneGoesOn DEF GoesOn

\* A record that is given up counts as read, and is not among the items.
LEMMA GivenUpGoesOn ==
  ASSUME NEW n \in Party, NEW s, Underway(n, s)
  PROVE  GoesOn(n, GivenUp(n, s), PageDone(n, GivenUp(n, s)))
<1> DEFINE l == Listing[n][s.window]
           a == p0(s).offset
           b == p0(s).offset + p0(s).size
           q == Listed(n, s)
           t == GivenUp(n, s)
<1> USE DEF Underway
<1>1. /\ l \in Seq(Record) /\ s.window \in DOMAIN Listing[n]
      /\ s.offset \in Nat /\ a \in Nat /\ b \in Nat /\ s.offset <= a /\ a < b
      /\ q \in Seq(Record) /\ Range(q) = Span(l, a, b)
      /\ Span(l, s.offset, b) = Span(l, s.offset, a) \cup Span(l, a, b)
      /\ Span(l, 0, b) = Span(l, 0, a) \cup Span(l, a, b)
      /\ ListedOnce => /\ Span(l, 0, a) \cap Span(l, a, b) = {}
                       /\ Past(n, s.window) \cap Span(l, a, b) = {}
      /\ Span(l, s.offset, a) \subseteq Span(l, 0, a)
      /\ Span(l, 0, s.offset) \subseteq Span(l, 0, a)
  BY AskedPage
<1> DEFINE more == s.lost \cup Range(q)
<1>2. t = [s EXCEPT !.refused = s.refused + 1, !.lost = more]
  BY DEF GivenUp, Range
<1> HIDE DEF q, t
<1>3. more \in SUBSET Record /\ s.refused + 1 \in Nat
  BY <1>1 DEF Range, Search
<1> HIDE DEF more
<1>4. /\ t \in Search /\ t.todo = s.todo /\ t.offset = s.offset /\ t.lost = more
      /\ t.result = "none" /\ t.window = s.window /\ t.out = s.out /\ t.got = s.got
      /\ t.page = s.page /\ t.served = s.served /\ t.count = s.count /\ t.total = s.total
      /\ t.refused = s.refused + 1
  BY <1>2, <1>3 DEF Search
<1>5. Tiled(t) /\ p0(t) = p0(s)
  BY <1>4 DEF Tiled, p0
<1>6. ReadUpTo(n, t, b)
  <2>1. Len(t.page) + t.refused > 0
    BY <1>4 DEF Search
  <2> HIDE DEF a, b
  <2>2. /\ Range(t.page) \subseteq Span(l, s.offset, b)
        /\ ListedOnce => t.lost \cap (Range(t.out) \cup Range(t.got) \cup Range(t.page)) = {}
        /\ Range(t.out) \cup Range(t.got) \cup Range(t.page) \cup t.lost
             = Past(n, s.window) \cup Span(l, 0, b)
    BY <1>1, <1>4 DEF ReadUpTo, a, more
  <2> QED
    BY <1>1, <1>4, <2>1, <2>2 DEF ReadUpTo, a
<1>7. ReadUpTo(n, t, p0(t).offset + p0(t).size)
  BY <1>5, <1>6
<1>8. GoesOn(n, t, PageDone(n, t))
  BY <1>4, <1>5, <1>7, PageDoneGoesOn
<1> QED
  BY <1>8 DEF t

\* A range that is halved is the same range.
LEMMA HalvedGoesOn ==
  ASSUME NEW n \in Party, NEW s, Underway(n, s), p0(s).size > 1
  PROVE  GoesOn(n, s, Refused(n, s))
<1> DEFINE p == p0(s)
           h == p.size \div 2
           q == Halves(p)
           w == q \o Tail(s.todo)
           t == [s EXCEPT !.todo = w, !.tries = 0]
<1> USE DEF Underway
<1>1. /\ s.todo \in Seq(Page) /\ p = s.todo[1] /\ 1 \in DOMAIN s.todo /\ s.todo # <<>>
      /\ p \in Page /\ p.size \in {1, 2, 4, 8, 16, 32} /\ p.offset \in Nat
  BY AskedPage DEF Tiled
<1>2. h \in {1, 2, 4, 8, 16} /\ h + h = p.size
  BY <1>1
<1>3. Refused(n, s) = t
  BY DEF Refused
<1> HIDE DEF h
<1>4. /\ q \in Seq(Page) /\ Len(q) = 2
      /\ q[1].offset = p.offset /\ q[1].size = h /\ q[1].again = FALSE
      /\ q[2].offset = p.offset + h /\ q[2].size = h /\ q[2].again = FALSE
  <2> DEFINE a == [offset |-> p.offset, size |-> h, again |-> FALSE]
             b == [offset |-> p.offset + h, size |-> h, again |-> FALSE]
  <2>1. q = <<a, b>>
    BY DEF Halves, h
  <2>2. a \in Page /\ b \in Page
    BY <1>1, <1>2 DEF Page
  <2>3. /\ a.offset = p.offset /\ a.size = h /\ a.again = FALSE
        /\ b.offset = p.offset + h /\ b.size = h /\ b.again = FALSE
    OBVIOUS
  <2> HIDE DEF a, b, q
  <2> QED
    BY <2>1, <2>2, <2>3
<1>5. /\ Tail(s.todo) \in Seq(Page) /\ Len(Tail(s.todo)) = Len(s.todo) - 1
      /\ \A i \in 1..Len(Tail(s.todo)) : Tail(s.todo)[i] = s.todo[i + 1]
      /\ Len(s.todo) \in Nat \ {0}
  BY <1>1
<1>0. Len(s.todo) \in Nat /\ Len(s.todo) # 0
  BY <1>1
<1> HIDE DEF q, p
<1>6. /\ w \in Seq(Page) /\ Len(w) = Len(s.todo) + 1
      /\ w[1] = q[1] /\ w[2] = q[2]
      /\ \A i \in 3..Len(w) : w[i] = s.todo[i - 1]
  <2> DEFINE r == Tail(s.todo)
  <2>1. r \in Seq(Page) /\ q \in Seq(Page) /\ Len(q) = 2 /\ Len(r) = Len(s.todo) - 1
    BY <1>4, <1>5
  <2>2. \A i \in 1..Len(r) : r[i] = s.todo[i + 1]
    BY <1>5
  <2> HIDE DEF r
  <2>3. /\ q \o r \in Seq(Page) /\ Len(q \o r) = Len(q) + Len(r)
        /\ \A i \in 1..Len(q) : (q \o r)[i] = q[i]
        /\ \A i \in 1..Len(r) : (q \o r)[Len(q) + i] = r[i]
    <3>1. q \in Seq(Page) /\ r \in Seq(Page)
      BY <2>1
    <3> QED
      BY <3>1, Joined
  <2>4. ASSUME NEW i \in 3..Len(q \o r) PROVE (q \o r)[i] = s.todo[i - 1]
    <3>1. i - 2 \in 1..Len(r) /\ Len(q) + (i - 2) = i /\ (i - 2) + 1 = i - 1
      BY <1>5, <2>1, <2>3
    <3> QED
      BY <2>2, <2>3, <3>1
  <2>5. Len(q \o r) = Len(s.todo) + 1 /\ 1 \in 1..Len(q) /\ 2 \in 1..Len(q)
    BY <1>5, <2>1, <2>3
  <2> QED
    BY <2>3, <2>4, <2>5 DEF r
<1> HIDE DEF w
<1>7. /\ t \in Search /\ t.todo = w /\ t.lost = s.lost /\ t.result = "none"
      /\ t.offset = s.offset
      /\ \A pos : ReadUpTo(n, s, pos) => ReadUpTo(n, t, pos)
  <2>1. 0 \in 0..MaxRetries
    BY Typed
  <2>2. t \in Search
    BY <1>6, <2>1 DEF Search
  <2> QED
    BY <2>2 DEF Search, ReadUpTo
<1> HIDE DEF t
<1>8. w # <<>> /\ p0(t) = q[1]
  BY <1>5, <1>6, <1>7 DEF p0
<1>9. Tiled(t)
  <2>1. ASSUME NEW i \in DOMAIN w PROVE w[i].size \in {1, 2, 4, 8, 16, 32}
    <3>1. i \in {1, 2} \/ (i \in 3..Len(w) /\ i - 1 \in DOMAIN s.todo)
      BY <1>1, <1>5, <1>6
    <3> QED
      BY <1>2, <1>4, <1>6, <3>1 DEF Tiled
  <2>2. ASSUME NEW i \in DOMAIN w, i > 1
        PROVE  ~w[i].again /\ w[i].offset = w[i - 1].offset + w[i - 1].size
    <3>1. CASE i = 2
      BY <1>4, <1>6, <3>1
    <3>2. CASE i = 3
      <4>1. 2 \in DOMAIN s.todo /\ w[3] = s.todo[2] /\ w[2] = q[2]
        BY <1>1, <1>5, <1>6, <3>2
      <4>2. ~s.todo[2].again /\ s.todo[2].offset = s.todo[1].offset + s.todo[1].size
        BY <4>1 DEF Tiled
      <4>3. p.offset + p.size = (p.offset + h) + h
        BY <1>1, <1>2
      <4> QED
        BY <1>1, <1>4, <3>2, <4>1, <4>2, <4>3
    <3>3. CASE i > 3
      <4>1. /\ i - 1 \in DOMAIN s.todo /\ i - 1 > 1 /\ w[i] = s.todo[i - 1]
            /\ w[i - 1] = s.todo[(i - 1) - 1]
        <5>1. i \in 3..Len(w) /\ i - 1 \in 3..Len(w)
          BY <1>5, <1>6, <3>3
        <5>2. i - 1 \in DOMAIN s.todo /\ i - 1 > 1
          BY <1>1, <1>5, <1>6, <3>3, <5>1
        <5> QED
          BY <1>6, <5>1, <5>2
      <4> QED
        BY <4>1 DEF Tiled
    <3> QED
      BY <1>6, <2>2, <3>1, <3>2, <3>3
  <2>3. w[Len(w)].offset + w[Len(w)].size = s.offset + PageSize
    <3>1. CASE Len(s.todo) = 1
      <4>1. p.offset + p.size = s.offset + PageSize
        BY <1>1, <3>1 DEF Tiled
      <4> QED
        <5>1. Len(w) = 2 /\ w[2].offset = p.offset + h /\ w[2].size = h
          BY <1>4, <1>6, <3>1
        <5>2. (p.offset + h) + h = p.offset + p.size
          BY <1>1, <1>2
        <5> QED
          BY <4>1, <5>1, <5>2
    <3>2. CASE Len(s.todo) > 1
      <4>1. w[Len(w)] = s.todo[Len(s.todo)]
        BY <1>5, <1>6, <3>2
      <4>2. s.todo[Len(s.todo)].offset + s.todo[Len(s.todo)].size = s.offset + PageSize
        BY DEF Tiled
      <4> QED
        BY <4>1, <4>2
    <3>3. Len(s.todo) = 1 \/ Len(s.todo) > 1
      <4> DEFINE k == Len(s.todo)
      <4>1. k \in Nat /\ k # 0
        BY <1>0
      <4> HIDE DEF k
      <4>2. k = 1 \/ k > 1
        BY <4>1
      <4> QED
        BY <4>2 DEF k
    <3> QED
      BY <3>1, <3>2, <3>3
  <2> QED
    BY <1>7, <1>8, <2>1, <2>2, <2>3 DEF Tiled
<1>10. ReadUpTo(n, t, p0(t).offset)
  BY <1>4, <1>7, <1>8 DEF p
<1> QED
  BY <1>3, <1>4, <1>7, <1>8, <1>9, <1>10 DEF GoesOn, SearchGood, Unhurried

\* So is one whose only record gets its second chance.
LEMMA SecondChanceGoesOn ==
  ASSUME NEW n \in Party, NEW s, Underway(n, s), p0(s).size = 1, ~p0(s).again
  PROVE  /\ Refused(n, s) \in Search /\ SearchGood(n, Refused(n, s))
         /\ Refused(n, s).lost = s.lost
         /\ Asking(Refused(n, s)) /\ p0(Refused(n, s)).size = 1
         /\ Listed(n, Refused(n, s)) = Listed(n, s)
<1> DEFINE p == [p0(s) EXCEPT !.again = TRUE]
           w == [s.todo EXCEPT ![1] = p]
           t == [s EXCEPT !.todo = w, !.tries = 0]
<1> USE DEF Underway
<1>1. /\ s.todo \in Seq(Page) /\ p0(s) = s.todo[1] /\ 1 \in DOMAIN s.todo /\ s.todo # <<>>
      /\ p0(s) \in Page
  BY AskedPage DEF Tiled
<1>2. Refused(n, s) = t
  <2>1. ~(p0(s).size > 1) /\ ~LastChance(s)
    BY DEF LastChance
  <2>2. Refused(n, s) = [s EXCEPT !.todo[1].again = TRUE, !.tries = 0]
    BY <2>1 DEF Refused
  <2> QED
    BY <1>1, <2>2 DEF Search
<1>3. p \in Page /\ p.size = p0(s).size /\ p.offset = p0(s).offset
  BY <1>1 DEF Page
<1> HIDE DEF p
<1>4. w \in Seq(Page) /\ Len(w) = Len(s.todo) /\ w[1] = p /\ \A i \in DOMAIN w : i # 1 => w[i] = s.todo[i]
  BY <1>1, <1>3
<1> HIDE DEF w
<1>5. /\ t \in Search /\ t.todo = w /\ t.lost = s.lost /\ t.result = "none"
      /\ t.offset = s.offset /\ t.window = s.window
      /\ \A pos : ReadUpTo(n, s, pos) => ReadUpTo(n, t, pos)
  <2>1. 0 \in 0..MaxRetries
    BY Typed
  <2>2. t \in Search
    BY <1>4, <2>1 DEF Search
  <2> QED
    BY <2>2 DEF Search, ReadUpTo
<1> HIDE DEF t
<1>6. w # <<>> /\ p0(t) = p /\ DOMAIN w = DOMAIN s.todo /\ DOMAIN w = 1..Len(w)
  BY <1>1, <1>4, <1>5 DEF p0
<1>7. \A i \in DOMAIN w : w[i].size = s.todo[i].size /\ w[i].offset = s.todo[i].offset
  BY <1>1, <1>3, <1>4
<1>8. Tiled(t)
  <2>1. \A i \in DOMAIN w : i > 1 =>
          ~w[i].again /\ w[i].offset = w[i - 1].offset + w[i - 1].size
    <3> TAKE i \in DOMAIN w
    <3> HAVE i > 1
    <3>1. i - 1 \in DOMAIN w /\ w[i] = s.todo[i]
      BY <1>4, <1>6
    <3> QED
      BY <1>6, <1>7, <3>1 DEF Tiled
  <2>2. Len(w) \in DOMAIN w
    BY <1>1, <1>4, <1>6
  <2> QED
    BY <1>4, <1>5, <1>6, <1>7, <2>1, <2>2 DEF Tiled
<1>9. Listed(n, t) = Listed(n, s)
  BY <1>3, <1>5, <1>6 DEF Listed
<1> QED
  BY <1>2, <1>3, <1>5, <1>6, <1>8, <1>9 DEF SearchGood, Asking

\* A search begins with the first window of its name.
LEMMA SearchBegins ==
  ASSUME NEW n \in Party
  PROVE  /\ NoSearch \in Search
         /\ GoesOn(n, NoSearch, NextWindow(n, NoSearch))
<1>1. NoSearch \in Search
  <2>1. -1 \in Int /\ 0 \in 0..MaxRetries
    BY Typed
  <2> QED
    BY <2>1, Typed DEF NoSearch, Search
<1>2. WindowRead(n, NoSearch)
  <2>1. Range(<<>>) = {} /\ Distinct(<<>>) /\ Len(<<>>) = 0
    BY DEF Range, Distinct
  <2>2. /\ NoSearch.out = <<>> /\ NoSearch.lost = {} /\ NoSearch.window = 0
        /\ NoSearch.result = "none"
    BY DEF NoSearch
  <2>3. 0 \in 0..Len(Listing[n]) /\ Past(n, 0 + 1) = {} /\ Cap \in Nat
    BY Typed, PastEnds
  <2> QED
    <3> DEFINE s == NoSearch
    <3>1. /\ Range(s.out) = {} /\ Distinct(s.out) /\ Len(s.out) = 0
          /\ s.lost = {} /\ s.window + 1 = 1 /\ s.window \in 0..Len(Listing[n])
          /\ s.result = "none"
      BY <2>1, <2>2, <2>3
    <3>2. Past(n, 1) = {}
      BY PastEnds
    <3> HIDE DEF s
    <3>3. WindowRead(n, s)
      BY <2>3, <3>1, <3>2 DEF WindowRead
    <3> QED
      BY <3>3 DEF s
<1> QED
  BY <1>1, <1>2, NextWindowGoesOn

\* What is left to do after a 429: the same, or nothing.
LEMMA ThrottledGoesOn ==
  ASSUME NEW n \in Party, NEW s, Underway(n, s), NEW t \in {Throttled(s), Broken(s)}
  PROVE  /\ t \in Search /\ SearchGood(n, t) /\ t.lost = s.lost
         /\ t.todo = <<>> \/ (t.todo = s.todo /\ p0(t) = p0(s) /\ Listed(n, t) = Listed(n, s))
<1> USE DEF Underway
<1>1. CASE t = [s EXCEPT !.result = "error", !.todo = <<>>]
  <2>1. t \in Search /\ t.lost = s.lost /\ t.todo = <<>> /\ t.result = "error"
    BY <1>1, Typed DEF Search
  <2> QED
    BY <2>1 DEF SearchGood
<1>2. CASE t = [s EXCEPT !.tries = s.tries + 1] /\ s.tries < MaxRetries
  <2>1. s.tries + 1 \in 0..MaxRetries
    BY <1>2, Typed DEF Search
  <2>2. t \in Search /\ t.lost = s.lost /\ t.todo = s.todo /\ t.result = "none"
    BY <1>2, <2>1 DEF Search
  <2>3. p0(t) = p0(s) /\ Listed(n, t) = Listed(n, s) /\ Tiled(t)
    BY <1>2, <2>2 DEF p0, Listed, Tiled, Search
  <2>4. \A pos : ReadUpTo(n, s, pos) => ReadUpTo(n, t, pos)
    BY <1>2, <2>2 DEF ReadUpTo, Search
  <2> QED
    BY <2>2, <2>3, <2>4 DEF SearchGood
<1> QED
  BY <1>1, <1>2 DEF Throttled, Broken

\* A page of one record has no other record than the one.
LEMMA LonePage ==
  ASSUME NEW n \in Party, NEW s, Underway(n, s), p0(s).size = 1
  PROVE  /\ \E x : Range(Listed(n, s)) \subseteq {x}
         /\ Holds(Listed(n, s), Unservable) => Range(Listed(n, s)) \subseteq Unservable
<1> DEFINE l == Listing[n][s.window]
           a == p0(s).offset
<1>1. Range(Listed(n, s)) = Span(l, a, a + 1) /\ a \in Nat /\ l \in Seq(Record)
  BY AskedPage DEF Underway
<1> HIDE DEF l, a
<1>2. Span(l, a, a + 1) \subseteq {l[a + 1]}
  BY <1>1 DEF Span
<1>3. Holds(Listed(n, s), Unservable) => \E x \in Range(Listed(n, s)) : x \in Unservable
  BY DEF Holds, Range
<1> QED
  BY <1>1, <1>2, <1>3

\* A search that goes on without another record lost owes nothing.
LEMMA PaidGoesOn ==
  ASSUME NEW n, NEW s, Paid(n, s), blips \in Nat, blips' \in Nat, blips' >= blips,
         NEW r, r.lost = s.lost, Unhurried(r)
  PROVE  Paid(n, r)'
<1>1. Cardinality(s.lost \ Unservable) \in Nat
  BY FS_CardinalityType, FS_Difference DEF Paid
<1> QED
  BY <1>1 DEF Paid, Unhurried, Asking

\* Whatever DJEN answers, the search stays good and its losses are paid.
LEMMA RequestKeeps ==
  ASSUME NEW n \in Party, NEW s, Underway(n, s), Paid(n, s), blips \in 0..MaxBlips,
         NEW t \in {Served(n, s), Refused(n, s), Throttled(s), Broken(s)}, Request(n, s, t)
  PROVE  /\ t \in Search /\ SearchGood(n, t) /\ Paid(n, t)'
         /\ blips' \in 0..MaxBlips /\ blips' >= blips
<1> DEFINE bad == Holds(Listed(n, s), Unservable)
           k   == Cardinality(s.lost \ Unservable)
<1>1. /\ blips' \in {blips, blips + 1} /\ blips' \in 0..MaxBlips /\ blips' >= blips
      /\ blips \in Nat /\ blips' \in Nat
  <2>1. MaxBlips \in Nat
    BY DjenClientAssumption
  <2> QED
    BY <2>1 DEF Request, Blip
<1>2. k \in Nat /\ IsFiniteSet(s.lost) /\ IsFiniteSet(s.lost \ Unservable) /\ 2 * k <= blips
  BY FS_CardinalityType, FS_Difference DEF Paid
<1>3. ASSUME GoesOn(n, s, t) PROVE t \in Search /\ SearchGood(n, t) /\ Paid(n, t)'
  BY <1>1, <1>3, PaidGoesOn DEF GoesOn
<1> HIDE DEF k
<1>4. ASSUME p0(s).size = 1, ~p0(s).again, t = Refused(n, s), bad \/ blips' = blips + 1
      PROVE  t \in Search /\ SearchGood(n, t) /\ Paid(n, t)'
  <2>1. /\ t \in Search /\ SearchGood(n, t) /\ t.lost = s.lost
        /\ p0(t).size = 1 /\ Listed(n, t) = Listed(n, s)
    BY <1>4, SecondChanceGoesOn
  <2>2. 2 * k <= blips' /\ (~bad => 2 * k < blips')
    BY <1>1, <1>2, <1>4
  <2> QED
    BY <1>2, <2>1, <2>2 DEF Paid, k
<1>5. ASSUME p0(s).size = 1, p0(s).again, t = PageDone(n, GivenUp(n, s)), bad \/ blips' = blips + 1
      PROVE  t \in Search /\ SearchGood(n, t) /\ Paid(n, t)'
  <2> DEFINE L == Range(Listed(n, s))
  <2>1. /\ t \in Search /\ SearchGood(n, t) /\ Unhurried(t)
        /\ t.lost = GivenUp(n, s).lost
    BY <1>5, GivenUpGoesOn DEF GoesOn
  <2>2. t.lost = s.lost \cup L
    BY <2>1 DEF GivenUp, Range, Underway, Search
  <2>3. PICK x : L \subseteq {x} /\ (bad => L \subseteq Unservable)
    BY <1>5, LonePage
  <2>4. ~bad => 2 * k < blips
    BY <1>5 DEF Paid, Asking, Underway, Tiled, k
  <2> HIDE DEF L, bad
  <2>5. IsFiniteSet(t.lost) /\ Cardinality(t.lost \ Unservable) \in {k, k + 1}
        /\ (bad => Cardinality(t.lost \ Unservable) = k)
    <3>1. IsFiniteSet(s.lost \cup {x}) /\ t.lost \subseteq s.lost \cup {x}
      BY <1>2, <2>2, <2>3, FS_AddElement
    <3>2. IsFiniteSet(t.lost)
      BY <3>1, FS_Subset
    <3>3. \/ t.lost \ Unservable = s.lost \ Unservable
          \/ ~bad /\ t.lost \ Unservable = (s.lost \ Unservable) \cup {x}
      BY <2>2, <2>3
    <3>4. Cardinality((s.lost \ Unservable) \cup {x}) \in {k, k + 1}
      BY <1>2, FS_AddElement DEF k
    <3> QED
      BY <3>2, <3>3, <3>4 DEF k
  <2>6. 2 * Cardinality(t.lost \ Unservable) <= blips'
    BY <1>1, <1>2, <1>5, <2>4, <2>5
  <2> QED
    BY <2>1, <2>5, <2>6 DEF Paid, Unhurried, Asking
<1>6. CASE t = Served(n, s)
  BY <1>1, <1>3, <1>6, ServedGoesOn
<1>7. CASE t = Refused(n, s) /\ (bad \/ blips' = blips + 1)
  <2>1. CASE p0(s).size > 1
    BY <1>1, <1>3, <1>7, <2>1, HalvedGoesOn
  <2>2. CASE ~(p0(s).size > 1)
    <3>1. p0(s).size = 1 /\ (LastChance(s) <=> p0(s).again) /\ p0(s).again \in BOOLEAN
      BY <2>2, AskedPage DEF LastChance, Underway, Page
    <3>2. LastChance(s) => t = PageDone(n, GivenUp(n, s))
      BY <1>7, <2>2 DEF Refused
    <3> QED
      BY <1>1, <1>4, <1>5, <1>7, <3>1, <3>2
  <2> QED
    BY <2>1, <2>2
<1>8. CASE t \in {Throttled(s), Broken(s)} /\ blips' = blips + 1
  <2>1. /\ t \in Search /\ SearchGood(n, t) /\ t.lost = s.lost
        /\ t.todo = <<>> \/ (t.todo = s.todo /\ p0(t) = p0(s) /\ Listed(n, t) = Listed(n, s))
    BY <1>8, ThrottledGoesOn
  <2>2. 2 * k <= blips' /\ 2 * k < blips'
    BY <1>1, <1>2, <1>8
  <2>3. t.todo # <<>> /\ p0(t).again => p0(t).size = 1
    BY <2>1 DEF Paid, Asking, Underway
  <2> QED
    BY <1>1, <1>2, <2>1, <2>2, <2>3 DEF Paid, Asking, k
<1>9. \/ t = Served(n, s)
      \/ t = Refused(n, s) /\ (bad \/ blips' = blips + 1)
      \/ t \in {Throttled(s), Broken(s)} /\ blips' = blips + 1
  BY DEF Request, Blip
<1> QED
  BY <1>1, <1>6, <1>7, <1>8, <1>9

-------------------------------------------------------------------------------
(* The searches of the fetchers.                                           *)

\* Names are what the pool deals with.
LEMMA Items == Party = Item /\ AnyItem \in Item /\ Range(Roster) \subseteq Item /\ Roster \in Seq(Item)
<1>1. Party = Item /\ Roster \in Seq(Item)
  BY NameModeAssumption
<1>2. Range(Roster) \subseteq Item
  BY <1>1 DEF Range
<1> QED
  BY <1>1, <1>2, PoolAssumption DEF AnyItem

\* A search nobody touches stays as good as it is.
LEMMA UntouchedSearch ==
  ASSUME NEW f, SearchOK(f), fetcher'[f] = fetcher[f], search'[f] = search[f],
         blips \in Nat, blips' \in Nat, blips' >= blips
  PROVE  SearchOK(f)'
<1>1. PICK s : s = search[f]
  OBVIOUS
<1>2. PICK i : i = fetcher[f].item
  OBVIOUS
<1>3. search'[f] = s /\ fetcher'[f].item = i /\ fetcher'[f].pc = fetcher[f].pc
  BY <1>1, <1>2
<1>4. ASSUME Paid(i, s) PROVE Paid(i, s)'
  <2>1. Cardinality(s.lost \ Unservable) \in Nat
    BY <1>4, FS_CardinalityType, FS_Difference DEF Paid
  <2> QED
    BY <1>4, <2>1 DEF Paid
<1>5. SearchGood(i, s) => SearchGood(i, s)'
  OBVIOUS
<1> QED
  BY <1>1, <1>2, <1>3, <1>4, <1>5 DEF SearchOK

\* What a step does to the searches: the fetchers' steps, a run that ends with
\* every fetcher waiting, and everything else.
LEMMA SearchesStep ==
  ASSUME NamesInv, [Next]_vars
  PROVE  Searching' /\ search' \in [Fetcher -> Search] /\ blips' \in 0..MaxBlips
<1>0. /\ blips \in 0..MaxBlips /\ blips \in Nat /\ search \in [Fetcher -> Search]
      /\ fetcher \in [Fetcher -> FetcherState(Answer)]
      /\ \A f \in Fetcher : SearchOK(f) /\ fetcher[f].item \in Party
  BY Items DEF NamesInv, TypeOK, PoolTypeOK, Searching, FetcherState
<1>1. ASSUME NEW f \in Fetcher, SearchBegin(f)
      PROVE  Searching' /\ search' \in [Fetcher -> Search] /\ blips' \in 0..MaxBlips
  <2>1. PICK i : i = Head(queue)
    OBVIOUS
  <2>2. PICK s : s = NextWindow(i, NoSearch)
    OBVIOUS
  <2>3. i \in Party
    BY <1>1, <2>1, QueueTail, Items DEF NamesInv, TypeOK, PoolTypeOK, SearchBegin, Handoff
  <2>4. GoesOn(i, NoSearch, s)
    BY <2>2, <2>3, SearchBegins
  <2>5. /\ search' = [search EXCEPT ![f] = s] /\ blips' = blips
        /\ fetcher' = [fetcher EXCEPT ![f] = [Waiting EXCEPT !.pc = "fetch", !.item = i]]
    BY <1>1, <2>1, <2>2 DEF SearchBegin, Handoff
  <2>6. search' \in [Fetcher -> Search]
    BY <1>0, <2>4, <2>5 DEF GoesOn
  <2>7. SearchOK(f)'
    <3>1. fetcher'[f].pc = "fetch" /\ fetcher'[f].item = i /\ search'[f] = s
      BY <1>0, <2>5 DEF Waiting
    <3>2. Paid(i, s)'
      <4>1. s.lost = {} /\ Unhurried(s)
        BY <2>4 DEF GoesOn, NoSearch
      <4>2. Cardinality(s.lost \ Unservable) = 0 /\ IsFiniteSet(s.lost)
        BY <4>1, FS_EmptySet
      <4> QED
        BY <1>0, <2>5, <4>1, <4>2 DEF Paid, Unhurried, Asking
    <3> QED
      BY <2>4, <3>1, <3>2 DEF SearchOK, GoesOn
  <2>8. ASSUME NEW g \in Fetcher, g # f PROVE SearchOK(g)'
    <3>1. fetcher'[g] = fetcher[g] /\ search'[g] = search[g]
      BY <1>0, <2>5, <2>8
    <3> QED
      BY <1>0, <2>5, <3>1, UntouchedSearch
  <2> QED
    BY <1>0, <2>5, <2>6, <2>7, <2>8 DEF Searching
<1>2. ASSUME NEW f \in Fetcher, Ask(f)
      PROVE  Searching' /\ search' \in [Fetcher -> Search] /\ blips' \in 0..MaxBlips
  <2>1. PICK i : i = fetcher[f].item
    OBVIOUS
  <2>2. PICK s : s = search[f]
    OBVIOUS
  <2>3. PICK t \in {Served(i, s), Refused(i, s), Throttled(s), Broken(s)} :
          Request(i, s, t) /\ search' = [search EXCEPT ![f] = t]
    BY <1>2, <2>1, <2>2 DEF Ask
  <2>4. i \in Party /\ Underway(i, s) /\ Paid(i, s) /\ fetcher' = fetcher /\ fetcher[f].pc = "fetch"
    BY <1>0, <1>2, <2>1, <2>2 DEF Ask, Underway, SearchOK, SearchGood, Asking, pool
  <2>5. /\ t \in Search /\ SearchGood(i, t) /\ Paid(i, t)'
        /\ blips' \in 0..MaxBlips /\ blips' >= blips
    BY <1>0, <2>3, <2>4, RequestKeeps
  <2>6. SearchOK(f)'
    <3>1. fetcher'[f].pc = "fetch" /\ fetcher'[f].item = i /\ search'[f] = t
      BY <1>0, <2>1, <2>3, <2>4
    <3> QED
      BY <2>5, <3>1 DEF SearchOK
  <2>7. ASSUME NEW g \in Fetcher, g # f PROVE SearchOK(g)'
    <3>1. fetcher'[g] = fetcher[g] /\ search'[g] = search[g] /\ blips' \in Nat
      BY <1>0, <2>3, <2>4, <2>5, <2>7
    <3> QED
      BY <1>0, <2>5, <3>1, UntouchedSearch
  <2> QED
    BY <1>0, <2>3, <2>5, <2>6, <2>7 DEF Searching
<1>3. ASSUME NEW f \in Fetcher, SearchEnd(f)
      PROVE  Searching' /\ search' \in [Fetcher -> Search] /\ blips' \in 0..MaxBlips
  <2>1. /\ search' = [search EXCEPT ![f] = NoSearch] /\ blips' = blips
        /\ fetcher'[f].pc = "send" /\ \A g \in Fetcher : g # f => fetcher'[g] = fetcher[g]
    BY <1>0, <1>3 DEF SearchEnd, Fetched, FetcherState
  <2>2. SearchOK(f)'
    BY <1>0, <2>1 DEF SearchOK
  <2>3. ASSUME NEW g \in Fetcher, g # f PROVE SearchOK(g)'
    <3>1. fetcher'[g] = fetcher[g] /\ search'[g] = search[g]
      BY <1>0, <2>1, <2>3
    <3> QED
      BY <1>0, <2>1, <3>1, UntouchedSearch
  <2>4. NoSearch \in Search
    BY <1>0, SearchBegins
  <2> QED
    BY <1>0, <2>1, <2>2, <2>3, <2>4 DEF Searching
<1>4. ASSUME NEW f \in Fetcher, Pooled(Send(f)) \/ Pooled(FetcherDone(f))
      PROVE  Searching' /\ search' \in [Fetcher -> Search] /\ blips' \in 0..MaxBlips
  <2>1. /\ search' = search /\ blips' = blips
        /\ fetcher[f].pc # "fetch" /\ fetcher'[f].pc # "fetch"
        /\ \A g \in Fetcher : g # f => fetcher'[g] = fetcher[g]
    BY <1>0, <1>4 DEF Pooled, Send, FetcherDone, FetcherState, Waiting
  <2>2. SearchOK(f)'
    BY <1>0, <2>1 DEF SearchOK
  <2>3. ASSUME NEW g \in Fetcher, g # f PROVE SearchOK(g)'
    BY <1>0, <2>1, <2>3, UntouchedSearch
  <2> QED
    BY <1>0, <2>1, <2>2, <2>3 DEF Searching
<1>5. ASSUME NamesBegin \/ NamesEnd \/ NamesDie
      PROVE  Searching' /\ search' \in [Fetcher -> Search] /\ blips' \in 0..MaxBlips
  <2>1. \A f \in Fetcher : search'[f] = NoSearch /\ fetcher'[f].pc = "idle"
    <3>1. \A f \in Fetcher : fetcher'[f].pc = "idle"
      BY <1>5 DEF NamesBegin, NamesEnd, NamesDie, PoolBegin, PoolEnd, PoolDies, Reset, Waiting
    <3>2. CASE NamesBegin
      BY <1>0, <3>1, <3>2 DEF NamesBegin, PoolBegin, NamesInv, InHand, SearchOK
    <3>3. CASE NamesEnd
      BY <1>0, <3>1, <3>3 DEF NamesEnd, PoolEnd, SearchOK
    <3>4. CASE NamesDie
      BY <3>1, <3>4 DEF NamesDie
    <3> QED
      BY <1>5, <3>2, <3>3, <3>4
  <2>2. NoSearch \in Search
    BY <1>0, SearchBegins, Items
  <2>3. search' \in [Fetcher -> Search] /\ blips' = blips
    BY <1>0, <1>5, <2>2 DEF NamesBegin, NamesEnd, NamesDie
  <2> QED
    BY <1>0, <2>1, <2>3 DEF Searching, SearchOK
<1>6. ASSUME \/ TakeLookup \/ EachGroup \/ UpsertLegalProceeding \/ UpsertWatcherCase \/ LookupDone
             \/ (\E c \in Added : AddCase(c)) \/ UNCHANGED vars
      PROVE  Searching' /\ search' \in [Fetcher -> Search] /\ blips' \in 0..MaxBlips
  <2>1. search' = search /\ blips' = blips /\ fetcher' = fetcher
    BY <1>6 DEF TakeLookup, TakeAnswer, EachGroup, UpsertLegalProceeding, UpsertWatcherCase,
                LookupDone, Dealt, AddCase, vars, pool
  <2>2. ASSUME NEW g \in Fetcher PROVE SearchOK(g)'
    BY <1>0, <2>1, UntouchedSearch
  <2> QED
    BY <1>0, <2>1, <2>2 DEF Searching
<1> QED
  BY <1>1, <1>2, <1>3, <1>4, <1>5, <1>6 DEF Next, FetchStep, RunStep

-------------------------------------------------------------------------------
(* The pool and the run.                                                   *)

\* What a search ends with is an answer.
LEMMA SearchAnswers ==
  ASSUME NEW f \in Fetcher, search \in [Fetcher -> Search], SearchEnd(f)
  PROVE  \E a \in Answer : Fetched(f, a)
<1> DEFINE items == IF search[f].result = "items" THEN Range(search[f].out) ELSE {}
<1>1. items \subseteq Record
  BY DEF Search, Range
<1>2. [ok |-> search[f].result = "items", items |-> items] \in Answer
  BY <1>1 DEF Answer
<1> QED
  BY <1>2 DEF SearchEnd

\* The steps of NameMode as steps of the pool; the rest leave the pool alone.
LEMMA PoolSteps ==
  ASSUME NamesInv, [Next]_vars
  PROVE  \/ NamesBegin /\ PoolBegin(Roster)
         \/ \E f \in Fetcher : Handing(f) /\ lookup' = lookup
         \/ \E f \in Fetcher, a \in Answer : Fetched(f, a) /\ lookup' = lookup
         \/ TakeLookup /\ TakeAnswer(~Head(answers)[2].ok)
         \/ LookupDone /\ Dealt(lookup.name) /\ lookup.name \in Item
         \/ NamesEnd /\ PoolEnd
         \/ NamesDie /\ PoolDies
         \/ /\ UNCHANGED pool
            /\ \/ (\E f \in Fetcher : Ask(f)) \/ (\E c \in Added : AddCase(c)) \/ UNCHANGED vars
               \/ EachGroup \/ UpsertLegalProceeding \/ UpsertWatcherCase
<1>1. ASSUME NEW f \in Fetcher, FetchStep(f)
      PROVE  \/ Handing(f) /\ lookup' = lookup
             \/ \E a \in Answer : Fetched(f, a) /\ lookup' = lookup
             \/ UNCHANGED pool /\ Ask(f)
  <2>1. SearchEnd(f) => \E a \in Answer : Fetched(f, a) /\ lookup' = lookup
    BY SearchAnswers DEF NamesInv, TypeOK, SearchEnd, rest
  <2> QED
    BY <1>1, <2>1 DEF FetchStep, SearchBegin, Ask, Pooled, Handing, rest
<1>2. lookup.name \in Item
  BY DEF NamesInv, TypeOK, LookupState
<1> QED
  BY <1>1, <1>2 DEF Next, RunStep, NamesBegin, TakeLookup, LookupDone, NamesEnd, NamesDie,
                    EachGroup, UpsertLegalProceeding, UpsertWatcherCase, AddCase, vars

\* Every step keeps the types of the pool,
LEMMA PoolTypeStep ==
  ASSUME NamesInv, [Next]_vars
  PROVE  PoolTypeOK(Answer)'
<1>1. PoolTypeOK(Answer)
  BY DEF NamesInv, TypeOK
<1>2. ASSUME TakeLookup PROVE PoolTypeOK(Answer)'
  <2>1. PICK now \in BOOLEAN : TakeAnswer(now)
    <3>1. Head(answers)[2] \in Answer
      BY <1>1, <1>2, AnswersTail DEF TakeLookup, TakeAnswer, PoolTypeOK
    <3>2. (~Head(answers)[2].ok) \in BOOLEAN
      BY <3>1 DEF Answer
    <3> QED
      BY <1>2, <3>2 DEF TakeLookup
  <2> QED
    BY <1>1, <2>1, PoolStepTyped
<1>3. UNCHANGED pool => PoolTypeOK(Answer)'
  BY <1>1 DEF pool, PoolTypeOK
<1>4. ASSUME NamesBegin PROVE PoolTypeOK(Answer)'
  <2>1. \E items \in Seq(Item) : PoolBegin(items)
    BY <1>4, Items DEF NamesBegin
  <2> QED
    BY <1>1, <2>1, PoolStepTyped
<1> QED
  BY <1>1, <1>2, <1>3, <1>4, PoolSteps, PoolStepTyped

\* and all the others,
LEMMA TypeStep ==
  ASSUME NamesInv, [Next]_vars
  PROVE  TypeOK'
<1>1. /\ search' \in [Fetcher -> Search] /\ blips' \in 0..MaxBlips
      /\ PoolTypeOK(Answer)'
  BY SearchesStep, PoolTypeStep
<1>2. NoLookup \in LookupState
  BY Items DEF NoLookup, LookupState
<1> USE DEF NamesInv, TypeOK
<1>3. lookup' \in LookupState
  <2>1. ASSUME TakeLookup PROVE lookup' \in LookupState
    <3>1. Head(answers) \in Item \X Answer
      BY <2>1, AnswersTail DEF TakeLookup, TakeAnswer, PoolTypeOK
    <3>2. PICK a \in Answer, i \in Item : a = Head(answers)[2] /\ i = Head(answers)[1]
      BY <3>1
    <3>3. {Info[r].case : r \in a.items} \subseteq Case /\ a.items \subseteq Record
      BY NameModeAssumption DEF Answer
    <3> DEFINE g == {Info[r].case : r \in a.items}
    <3>4. \/ lookup' = NoLookup
          \/ lookup' = [NoLookup EXCEPT !.pc = "group", !.name = i, !.items = a.items, !.groups = g]
      BY <2>1, <3>2 DEF TakeLookup
    <3>5. g \subseteq Case
      BY <3>3
    <3> HIDE DEF g
    <3> QED
      BY <1>2, <3>3, <3>4, <3>5 DEF LookupState
  <2>2. ASSUME NEW c \in Case, Taken(c, "node") PROVE lookup' \in LookupState
    BY <2>2 DEF Taken, LookupState
  <2>3. ASSUME UpsertLegalProceeding \/ UpsertWatcherCase PROVE lookup' \in LookupState
    BY <2>3 DEF UpsertLegalProceeding, UpsertWatcherCase, LookupState
  <2>4. ASSUME NamesBegin \/ NamesDie \/ LookupDone PROVE lookup' \in LookupState
    BY <1>2, <2>4 DEF NamesBegin, NamesDie, LookupDone
  <2> QED
    BY <2>1, <2>2, <2>3, <2>4, PoolSteps DEF EachGroup, NamesEnd, rest, Ask, AddCase, vars
<1>4. stops' \in 0..MaxStops
  <2>1. CASE NamesDie
    BY <2>1, NameModeAssumption DEF NamesDie
  <2>2. CASE ~NamesDie
    BY <2>2 DEF Next, RunStep, FetchStep, NamesBegin, NamesEnd, SearchBegin, Ask,
       SearchEnd, Pooled, TakeLookup, EachGroup, UpsertLegalProceeding, UpsertWatcherCase,
       LookupDone, AddCase, vars, rest
  <2> QED
    BY <2>1, <2>2
<1>5. discovered' \subseteq tracked' /\ tracked' \subseteq nodes' /\ nodes' \subseteq Case
  <2>1. CASE UpsertLegalProceeding
    BY <2>1 DEF UpsertLegalProceeding, LookupState
  <2>2. CASE UpsertWatcherCase
    BY <2>2 DEF UpsertWatcherCase, InHand
  <2>3. CASE \E c \in Added : AddCase(c)
    BY <2>3, NameModeAssumption DEF AddCase
  <2> QED
    BY <2>1, <2>2, <2>3 DEF Next, RunStep, FetchStep, NamesBegin, NamesEnd, NamesDie,
       SearchBegin, Ask, SearchEnd, Pooled, TakeLookup, EachGroup, LookupDone, vars, rest
<1> QED
  BY <1>1, <1>3, <1>4, <1>5

\* what the run has in hand,
LEMMA InHandStep ==
  ASSUME NamesInv, [Next]_vars
  PROVE  InHand'
<1> USE DEF NamesInv, TypeOK, InHand, LookupState
<1>1. ASSUME NamesBegin \/ NamesEnd \/ NamesDie PROVE InHand'
  BY <1>1 DEF NamesBegin, NamesEnd, NamesDie, PoolBegin, PoolEnd, PoolDies, Reset, NoLookup, Waiting,
     rest
<1>2. ASSUME NEW f \in Fetcher, FetchStep(f) PROVE InHand'
  <2>1. /\ on' = on /\ lookup' = lookup /\ nodes' = nodes
        /\ Ask(f) \/ on
    BY <1>2 DEF FetchStep, SearchBegin, Ask, SearchEnd, Pooled, Handoff, Fetched, Send,
                FetcherDone, rest, pool
  <2>2. Ask(f) => fetcher' = fetcher
    BY DEF Ask, pool
  <2> QED
    BY <2>1, <2>2
<1>3. ASSUME TakeLookup \/ EachGroup \/ UpsertLegalProceeding \/ UpsertWatcherCase \/ LookupDone
      PROVE InHand'
  <2>1. on /\ on' = on
    BY <1>3 DEF TakeLookup, TakeAnswer, EachGroup, UpsertLegalProceeding, UpsertWatcherCase,
                LookupDone, Dealt, pool
  <2>2. lookup'.pc = "track" => lookup'.case \subseteq nodes'
    <3>1. CASE TakeLookup
      BY <3>1 DEF TakeLookup, NoLookup
    <3>2. CASE EachGroup
      BY <3>2 DEF EachGroup, Taken
    <3>3. CASE UpsertLegalProceeding
      BY <3>3 DEF UpsertLegalProceeding
    <3>4. CASE UpsertWatcherCase \/ LookupDone
      BY <3>4 DEF UpsertWatcherCase, LookupDone, NoLookup
    <3> QED
      BY <1>3, <3>1, <3>2, <3>3, <3>4
  <2> QED
    BY <2>1, <2>2
<1>4. ASSUME (\E c \in Added : AddCase(c)) \/ UNCHANGED vars PROVE InHand'
  BY <1>4 DEF AddCase, vars, pool
<1> QED
  BY <1>1, <1>2, <1>3, <1>4 DEF Next, RunStep

\* and every name.
LEMMA NothingLostStep ==
  ASSUME NamesInv, [Next]_vars
  PROVE  NothingLost(Held)'
<1>1. PICK held : held = Held
  OBVIOUS
<1>2. PICK holding : holding = Held'
  OBVIOUS
<1>3. NothingLost(held) /\ PoolTypeOK(Answer)
  BY <1>1 DEF NamesInv, TypeOK
<1>4. lookup' = lookup => held = holding
  BY <1>1, <1>2 DEF Held
<1>5. ASSUME TakeLookup, TakeAnswer(~Head(answers)[2].ok) PROVE NothingLost(holding)'
  <2>1. Head(answers)[2].ok \in BOOLEAN
    <3>1. Head(answers)[2] \in Answer
      BY <1>3, <1>5, AnswersTail DEF TakeAnswer, PoolTypeOK
    <3> QED
      BY <3>1 DEF Answer
  <2>2. held \subseteq holding /\ (Head(answers)[2].ok => Head(answers)[1] \in holding)
    BY <1>1, <1>2, <1>5 DEF TakeLookup, Held, NoLookup, NamesInv, TypeOK, LookupState
  <2> QED
    BY <1>3, <1>5, <2>1, <2>2, TakeKeeps
<1>6. ASSUME LookupDone, Dealt(lookup.name) PROVE NothingLost(holding)'
  <2>1. held \subseteq holding \cup {lookup.name}
    BY <1>1, <1>2 DEF Held
  <2>2. on
    BY <1>6 DEF LookupDone, NamesInv, InHand
  <2> QED
    BY <1>3, <1>6, <2>1, <2>2, DealtKeeps
<1>7. ASSUME UNCHANGED pool,
             \/ (\E f \in Fetcher : Ask(f)) \/ (\E c \in Added : AddCase(c)) \/ UNCHANGED vars
             \/ EachGroup \/ UpsertLegalProceeding \/ UpsertWatcherCase
      PROVE  NothingLost(holding)'
  <2>1. held \subseteq holding
    BY <1>1, <1>2, <1>7 DEF Ask, AddCase, vars, rest, EachGroup, Taken, UpsertLegalProceeding,
       UpsertWatcherCase, Held, NamesInv, TypeOK, LookupState
  <2> QED
    BY <1>3, <1>7, <2>1, IdleKeeps
<1>8. NothingLost(holding)'
  BY <1>3, <1>4, <1>5, <1>6, <1>7, PoolSteps, BeginKeeps, HandingKeeps, FetchedKeeps, EndKeeps
<1> QED
  BY <1>2, <1>8 DEF NothingLost

-------------------------------------------------------------------------------
(* The theorems.                                                           *)

\* The inductive invariant (runNameMode).
THEOREM NamesInvHolds == Spec => []NamesInv
<1>1. Init => NamesInv
  <2> SUFFICES ASSUME Init PROVE NamesInv
    OBVIOUS
  <2>1. PoolTypeOK(Answer) /\ NothingLost(Held)
    BY PoolInitTyped, PoolInitKeeps DEF Init
  <2>2. NoSearch \in Search /\ NoLookup \in LookupState
    BY SearchBegins, Items DEF NoLookup, LookupState
  <2>3. TypeOK
    BY <2>1, <2>2, DjenClientAssumption, NameModeAssumption DEF Init, TypeOK
  <2>4. InHand /\ Searching
    BY DEF Init, PoolInit, InHand, Searching, SearchOK, NoLookup, Waiting
  <2> QED
    BY <2>1, <2>3, <2>4 DEF NamesInv
<1>2. NamesInv /\ [Next]_vars => NamesInv'
  BY SearchesStep, TypeStep, InHandStep, NothingLostStep DEF NamesInv
<1> QED
  BY <1>1, <1>2, PTL DEF Spec

\* The pool, the searches, the answers and what the run has in its hands keep their
\* types, and a case is watched only once it has its node (registerDiscoveredCase).
THEOREM TypeCorrect == Spec => []TypeOK
<1>1. NamesInv => TypeOK
  BY DEF NamesInv
<1> QED
  BY <1>1, NamesInvHolds, PTL

\* As many records as items, when none is there twice.
LEMMA DistinctCounts ==
  ASSUME NEW S, NEW q \in Seq(S), Distinct(q)
  PROVE  Cardinality(Range(q)) = Len(q)
<1>1. DOMAIN q = 1..Len(q) /\ Len(q) \in Nat
  OBVIOUS
<1>2. IsFiniteSet(1..Len(q)) /\ Cardinality(1..Len(q)) = Len(q)
  BY <1>1, FS_Interval
<1>3. q \in Bijection(1..Len(q), Range(q))
  BY <1>1 DEF Distinct, Bijection, Injection, Surjection, IsInjective, Range
<1>4. ExistsBijection(1..Len(q), Range(q))
  BY <1>3 DEF ExistsBijection
<1> QED
  BY <1>2, <1>4, FS_Bijection

\* A search that ends with items has every record of the name but those given up,
\* or as many as the cap, and none twice, when DJEN lists none twice (paginate,
\* fetchRange).
THEOREM SearchesAreComplete ==
  ASSUME ListedOnce
  PROVE  Spec => []SearchComplete
<1>1. NamesInv => SearchComplete
  <2> SUFFICES ASSUME NamesInv, NEW f \in Fetcher, search[f].result = "items"
               PROVE  LET s == search[f] IN
                        /\ Cardinality(Found(s)) = Len(s.out) /\ Found(s) \cap s.lost = {}
                        /\ Cap = 0 \/ Len(s.out) < Cap => Wanted(fetcher[f].item) = Found(s) \cup s.lost
                        /\ Cap > 0 => Len(s.out) <= Cap
    BY DEF SearchComplete
  <2>1. fetcher[f].pc = "fetch" /\ SearchGood(fetcher[f].item, search[f])
    BY DEF NamesInv, Searching, SearchOK, NoSearch
  <2>2. Complete(fetcher[f].item, search[f])
    BY <2>1 DEF SearchGood
  <2>3. search[f].out \in Seq(Record) /\ Found(search[f]) = Range(search[f].out)
    BY DEF NamesInv, TypeOK, Search, Found, Range
  <2>4. Cardinality(Found(search[f])) = Len(search[f].out)
    BY <2>2, <2>3, DistinctCounts DEF Complete
  <2> QED
    BY <2>2, <2>4 DEF Complete
<1> QED
  BY <1>1, NamesInvHolds, PTL

\* Every record given up that DJEN would have served cost it two refusals
\* (fetchRange).
THEOREM GivenUpAfterTwoRefusals == Spec => []GivenUpAfterTwo
<1>1. NamesInv => GivenUpAfterTwo
  <2> SUFFICES ASSUME NamesInv, NEW f \in Fetcher
               PROVE  2 * Cardinality(search[f].lost \ Unservable) <= blips
    BY DEF GivenUpAfterTwo
  <2>1. CASE fetcher[f].pc = "fetch"
    BY <2>1 DEF NamesInv, Searching, SearchOK, Paid
  <2>2. CASE fetcher[f].pc # "fetch"
    <3>1. search[f].lost \ Unservable = {}
      BY <2>2 DEF NamesInv, Searching, SearchOK, NoSearch
    <3> QED
      BY <3>1, FS_EmptySet, DjenClientAssumption DEF NamesInv, TypeOK
  <2> QED
    BY <2>1, <2>2
<1> QED
  BY <1>1, NamesInvHolds, PTL

\* A run takes on every name, and ends of itself only when it has dealt with all
\* of them, whatever the goroutines do in between (runNameMode): the safety part
\* of EveryNameOnce.
THEOREM RunsAreWorkLists == Spec => Work!Init /\ [][Work!Next]_(Work!vars)
<1>1. Init => Work!Init
  BY DEF Init, PoolInit, Work!Init
<1>2. NamesInv /\ [Next]_vars => [Work!Next]_(Work!vars)
  <2> SUFFICES ASSUME NamesInv, [Next]_vars PROVE Work!Next \/ UNCHANGED Work!vars
    OBVIOUS
  <2> USE DEF Work!Next, Work!vars
  <2>1. stops' = stops \/ NamesDie
    BY DEF Next, RunStep, FetchStep, NamesBegin, NamesEnd, SearchBegin, Ask,
       SearchEnd, Pooled, TakeLookup, EachGroup, UpsertLegalProceeding, UpsertWatcherCase,
       LookupDone, AddCase, vars, rest
  <2>2. ASSUME NamesBegin PROVE Work!Begin
    BY <2>2, Items DEF NamesBegin, PoolBegin, Work!Begin
  <2>3. ASSUME NamesDie PROVE Work!Break
    BY <2>3 DEF NamesDie, PoolDies, Reset, Work!Break
  <2>4. ASSUME NamesEnd PROVE Work!End
    <3>1. NothingLost({}) /\ PoolEnd
      BY <2>4 DEF NamesEnd, NamesInv, Held
    <3>2. on /\ listed \ handled = {}
      BY <3>1, AllDealtAtEnd
    <3> QED
      BY <2>4, <3>2 DEF NamesEnd, rest, PoolEnd, Reset, Work!End
  <2>5. ASSUME NEW i \in Item, on, on' = on, listed' = listed, handled' = handled \cup {i}, stops' = stops
        PROVE  (\E j \in Item : Work!Deal(j)) \/ UNCHANGED Work!vars
    <3>1. CASE i \in listed \ handled
      <4>1. listed' \ handled' = (listed \ handled) \ {i}
        BY <2>5
      <4> QED
        BY <2>5, <3>1, <4>1 DEF Work!Deal
    <3>2. CASE i \notin listed \ handled
      <4>1. listed' \ handled' = listed \ handled
        BY <2>5, <3>2
      <4> QED
        BY <2>5, <4>1
    <3> QED
      BY <3>1, <3>2
  <2>6. ASSUME TakeLookup, TakeAnswer(~Head(answers)[2].ok) PROVE Work!Next \/ UNCHANGED Work!vars
    <3>1. Head(answers)[1] \in Item
      BY <2>6, AnswersTail DEF TakeAnswer, NamesInv, TypeOK, PoolTypeOK
    <3>2. stops' = stops
      BY <2>6 DEF TakeLookup
    <3> QED
      BY <2>5, <2>6, <3>1, <3>2 DEF TakeAnswer
  <2>7. ASSUME LookupDone, Dealt(lookup.name), lookup.name \in Item PROVE Work!Next \/ UNCHANGED Work!vars
    <3>1. on /\ stops' = stops
      BY <2>7 DEF LookupDone, NamesInv, InHand
    <3> QED
      BY <2>5, <2>7, <3>1 DEF Dealt
  <2>8. ASSUME \/ \E f \in Fetcher : Handing(f)
               \/ \E f \in Fetcher, a \in Answer : Fetched(f, a)
               \/ UNCHANGED pool
        PROVE  UNCHANGED <<on, listed, handled>>
    BY <2>8 DEF Handing, Handoff, Send, FetcherDone, Fetched, pool
  <2>9. NamesDie => ~(\/ \E f \in Fetcher : Handing(f)
                      \/ \E f \in Fetcher, a \in Answer : Fetched(f, a)
                      \/ UNCHANGED pool)
    BY DEF NamesDie, PoolDies, Handing, Handoff, Send, FetcherDone, Fetched, pool
  <2> QED
    BY <2>1, <2>2, <2>3, <2>4, <2>6, <2>7, <2>8, <2>9, PoolSteps
<1> QED
  BY <1>1, <1>2, NamesInvHolds, PTL DEF Spec
===============================================================================
