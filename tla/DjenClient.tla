------------------------------ MODULE DjenClient ------------------------------
(***************************************************************************)
(* The DJEN client: SearchByPartyName searches window by window, each      *)
(* window in ranges of PageSize records, and halves a range around a       *)
(* record DJEN refuses to serve.  A search is a record that moves from one *)
(* request to the next; what lies between two requests touches nothing     *)
(* shared and is part of the step that gets the answer.                    *)
(*                                                                         *)
(* DJEN is outside: it serves a page of a listing and its length, refuses  *)
(* every page that holds an unservable record, and now and then any page.  *)
(***************************************************************************)
EXTENDS Integers, Sequences, FiniteSets

CONSTANTS
  Record,      \* communications
  Party,       \* names that are searched
  Listing,     \* [Party -> sequence of windows, each a sequence of records]
  Unservable,  \* records DJEN serves at no page size
  PageSize,    \* itemsPerPage, a power of two
  Cap,         \* items of a search; 0 is all
  MaxRetries,  \* repetitions after a 429 or a broken connection
  MaxBlips     \* refusals, 429s and other errors out of nothing (bound)

ASSUME DjenClientAssumption ==
  /\ Listing \in [Party -> Seq(Seq(Record))]
  /\ Unservable \subseteq Record
  /\ PageSize \in {1, 2, 4, 8, 16, 32}
  /\ {Cap, MaxRetries, MaxBlips} \subseteq Nat

VARIABLE blips \* bound

\* todo: the pages that are left of the range; out, got, page: what the search,
\* the window and the range yielded; lost: history, the records given up.
Page == [offset : Nat, size : Nat, again : BOOLEAN]

Search == [window : Nat, offset : Nat, total : Int, todo : Seq(Page), tries : 0..MaxRetries,
           out : Seq(Record), got : Seq(Record), page : Seq(Record), count : Nat,
           served : BOOLEAN, refused : Nat, lost : SUBSET Record,
           result : {"none", "items", "error"}]

NoSearch == [window |-> 0, offset |-> 0, total |-> -1, todo |-> <<>>, tries |-> 0,
             out |-> <<>>, got |-> <<>>, page |-> <<>>, count |-> 0, served |-> FALSE,
             refused |-> 0, lost |-> {}, result |-> "none"]

Asking(s) == s.result = "none" /\ s.todo # <<>>

Take(s, n) == SubSeq(s, 1, IF n < Len(s) THEN n ELSE Len(s))

-------------------------------------------------------------------------------
(* Between two requests.                                                   *)

\* fetchRange is called for a whole range.
Range0(s, offset) ==
  [s EXCEPT !.offset = offset, !.page = <<>>, !.count = 0, !.served = FALSE, !.refused = 0,
            !.todo = <<[offset |-> offset, size |-> PageSize, again |-> FALSE]>>]

\* SearchByPartyName: the next window, unless the cap is reached.
NextWindow(name, s) ==
  IF s.window = Len(Listing[name]) \/ (Cap > 0 /\ Len(s.out) >= Cap)
  THEN [s EXCEPT !.result = "items", !.todo = <<>>]
  ELSE Range0([s EXCEPT !.window = @ + 1, !.total = -1, !.got = <<>>], 0)

Remaining(s) == IF Cap > 0 THEN Cap - Len(s.out) ELSE 0

\* paginate, after a range: an outage, the next range up to the total, or the
\* window is done.
RangeDoneUpTo(name, s, total) ==
  LET got  == s.got \o s.page
      next == s.offset + PageSize
      more == /\ Len(s.page) + s.refused > 0
              /\ next < total
              /\ Remaining(s) = 0 \/ Len(got) < Remaining(s)
  IN IF s.total = -1 /\ ~s.served THEN [s EXCEPT !.result = "error", !.todo = <<>>]
     ELSE IF more THEN Range0([s EXCEPT !.got = got, !.total = total], next)
     ELSE NextWindow(name, [s EXCEPT !.out = @ \o (IF Remaining(s) = 0 THEN got
                                                   ELSE Take(got, Remaining(s)))])

\* Mutant of RangeDone: the last record counts as read.
RangeDoneShort(name, s) ==
  RangeDoneUpTo(name, s, IF s.total = -1 THEN s.count - 1 ELSE s.total)

\* The count of the first range is the total of the search.
RangeDone(name, s) ==
  RangeDoneUpTo(name, s, IF s.total = -1 THEN s.count ELSE s.total)

PageDone(name, s) ==
  LET t == [s EXCEPT !.todo = Tail(@), !.tries = 0]
  IN IF t.todo = <<>> THEN RangeDone(name, t) ELSE t

-------------------------------------------------------------------------------
(* A request of search s for a name, and what it makes of the search.      *)

p0(s) == Head(s.todo)

Listed(name, s) == LET l == Listing[name][s.window]
                   IN SubSeq(l, p0(s).offset + 1, IF p0(s).offset + p0(s).size < Len(l)
                                                  THEN p0(s).offset + p0(s).size ELSE Len(l))

Holds(q, S) == \E i \in DOMAIN q : q[i] \in S

Blip == blips < MaxBlips /\ blips' = blips + 1

\* The page is served, with the number of records that match.
Served(name, s) ==
  PageDone(name, [s EXCEPT !.page = @ \o Listed(name, s), !.served = TRUE,
                           !.count = IF @ < Len(Listing[name][s.window])
                                     THEN Len(Listing[name][s.window]) ELSE @])

\* Mutant of Halves: both halves start where the range does.
HalvesAtStart(p) ==
  <<[offset |-> p.offset, size |-> p.size \div 2, again |-> FALSE],
    [offset |-> p.offset, size |-> p.size \div 2, again |-> FALSE]>>

Halves(p) ==
  <<[offset |-> p.offset, size |-> p.size \div 2, again |-> FALSE],
    [offset |-> p.offset + p.size \div 2, size |-> p.size \div 2, again |-> FALSE]>>

LastChance(s) == p0(s).size = 1 /\ p0(s).again

GivenUp(name, s) ==
  [s EXCEPT !.refused = @ + 1, !.lost = @ \cup {Listed(name, s)[i] : i \in DOMAIN Listed(name, s)}]

\* Mutant of Refused: a record that is alone is given up at once.
RefusedOnce(name, s) ==
  IF p0(s).size > 1 THEN [s EXCEPT !.todo = Halves(p0(s)) \o Tail(@), !.tries = 0]
  ELSE PageDone(name, GivenUp(name, s))

\* A 5xx: the range is halved; a record that is alone gets one more chance.
Refused(name, s) ==
  IF p0(s).size > 1 THEN [s EXCEPT !.todo = Halves(p0(s)) \o Tail(@), !.tries = 0]
  ELSE IF ~LastChance(s) THEN [s EXCEPT !.todo[1].again = TRUE, !.tries = 0]
  ELSE PageDone(name, GivenUp(name, s))

\* A 429 or no connection, up to MaxRetries times in a row.
Throttled(s) ==
  IF s.tries < MaxRetries THEN [s EXCEPT !.tries = @ + 1]
  ELSE [s EXCEPT !.result = "error", !.todo = <<>>]

\* Another status, or a body that is not JSON.
Broken(s) == [s EXCEPT !.result = "error", !.todo = <<>>]

\* One answer to the request of s, t being what becomes of s.
Request(name, s, t) ==
  LET bad == Holds(Listed(name, s), Unservable) IN
  \/ ~bad /\ t = Served(name, s) /\ UNCHANGED blips
  \/ t = Refused(name, s) /\ IF bad THEN UNCHANGED blips ELSE Blip
  \/ (t = Throttled(s) \/ t = Broken(s)) /\ Blip

-------------------------------------------------------------------------------
(* Properties of a search.                                                 *)

Windows(name) == {Listing[name][w] : w \in DOMAIN Listing[name]}
Wanted(name)  == UNION {{l[i] : i \in DOMAIN l} : l \in Windows(name)}
Found(s)      == {s.out[i] : i \in DOMAIN s.out}
===============================================================================
