------------------------------- MODULE NameMode -------------------------------
(***************************************************************************)
(* DJEN name mode: every politician's name is searched, and the cases it   *)
(* is a party of come to be watched.  The searches are concurrent          *)
(* (FetchPool, with one DjenClient between them), the registrations serial.*)
(* Watcher has what becomes of a registration that races another one.      *)
(***************************************************************************)
EXTENDS FetchPool, DjenClient

CONSTANTS
  Roster,      \* the politicians with a name, as they are listed
  Case,        \* case numbers
  Info,        \* [Record -> what it says]
  Malformed,   \* cases whose number has not 20 digits
  Added,       \* cases the backoffice may add
  MaxStops     \* runs that die (bound)

\* A politician is searched under the legal name only: one search each.
ASSUME NameModeAssumption ==
  /\ Roster \in Seq(Item) /\ Party = Item
  /\ Info \in [Record -> [case : Case, names : SUBSET Item, allowed : BOOLEAN, tribunal : BOOLEAN]]
  /\ Malformed \cup Added \subseteq Case /\ MaxStops \in Nat

VARIABLES
  search,      \* [Fetcher -> search]
  nodes,       \* cases with a LegalProceeding node
  tracked,     \* cases in watcher_tracking
  discovered,  \* those that name mode put there
  lookup,      \* the answer in the hands of the run
  stops        \* bound

vars == <<pool, search, blips, nodes, tracked, discovered, lookup, stops>>

rest == <<nodes, tracked, discovered, lookup, stops>>

NoLookup == [pc |-> "take", name |-> AnyItem, items |-> {}, groups |-> {}, case |-> {}]

LookupState == [pc : {"take", "group", "node", "track"}, name : Item, items : SUBSET Record,
                groups : SUBSET Case, case : SUBSET Case]

Answer == [ok : BOOLEAN, items : SUBSET Record]

TypeOK ==
  /\ PoolTypeOK(Answer)
  /\ search \in [Fetcher -> Search]
  /\ lookup \in LookupState
  /\ blips \in 0..MaxBlips /\ stops \in 0..MaxStops
  \* A case is watched only once it has its node.
  /\ discovered \subseteq tracked /\ tracked \subseteq nodes /\ nodes \subseteq Case

Init ==
  /\ PoolInit
  /\ search = [f \in Fetcher |-> NoSearch]
  /\ blips = 0 /\ stops = 0
  /\ nodes = {} /\ tracked = {} /\ discovered = {} /\ lookup = NoLookup

-------------------------------------------------------------------------------
(* The fetchers.                                                           *)

NamesBegin ==
  /\ PoolBegin(Roster)
  /\ lookup' = NoLookup
  /\ UNCHANGED <<search, blips, nodes, tracked, discovered, stops>>

SearchBegin(f) ==
  /\ Handoff(f)
  /\ search' = [search EXCEPT ![f] = NextWindow(Head(queue), NoSearch)]
  /\ UNCHANGED <<blips, rest>>

Ask(f) ==
  /\ fetcher[f].pc = "fetch" /\ Asking(search[f])
  /\ \E t \in {Served(fetcher[f].item, search[f]), Refused(fetcher[f].item, search[f]),
               Throttled(search[f]), Broken(search[f])} :
       /\ Request(fetcher[f].item, search[f], t)
       /\ search' = [search EXCEPT ![f] = t]
  /\ UNCHANGED <<pool, rest>>

SearchEnd(f) ==
  /\ search[f].result # "none"
  /\ Fetched(f, [ok |-> search[f].result = "items",
                 items |-> IF search[f].result = "items" THEN Range(search[f].out) ELSE {}])
  /\ search' = [search EXCEPT ![f] = NoSearch]
  /\ UNCHANGED <<blips, rest>>

Pooled(A) == A /\ UNCHANGED <<search, blips, rest>>

-------------------------------------------------------------------------------
(* The run.                                                                *)

\* A failed search costs this politician this run; otherwise groupByProcesso.
TakeLookup ==
  LET a == Head(answers)[2] IN
  /\ lookup.pc = "take" /\ TakeAnswer(~Head(answers)[2].ok)
  /\ lookup' = IF ~a.ok THEN NoLookup
               ELSE [NoLookup EXCEPT !.pc = "group", !.name = Head(answers)[1], !.items = a.items,
                                     !.groups = {Info[r].case : r \in a.items}]
  /\ UNCHANGED <<search, blips, nodes, tracked, discovered, stops>>

Group(c) == {Info[r] : r \in {r \in lookup.items : Info[r].case = c}}

\* DJEN matches substrings: the name must be a party of the case.
groupNamesParty(c) == \E i \in Group(c) : lookup.name \in i.names

groupHasAllowedClass(c) == \E i \in Group(c) : i.allowed

\* registerDiscoveredCase: the number is one, and some record names a tribunal.
Registrable(c) == c \notin Malformed /\ \E i \in Group(c) : i.tribunal

Taken(c, pc) ==
  /\ c \in lookup.groups
  /\ lookup' = [lookup EXCEPT
       !.groups = @ \ {c}, !.case = {c},
       !.pc = IF groupNamesParty(c) /\ c \notin tracked /\ groupHasAllowedClass(c) /\ Registrable(c)
              THEN pc ELSE "group"]

\* Mutant of EachGroup: the case is watched before it has its node.
EachGroupTrackFirst ==
  /\ lookup.pc = "group"
  /\ \E c \in Case : Taken(c, "track")
  /\ UNCHANGED <<pool, search, blips, nodes, tracked, discovered, stops>>

EachGroup ==
  /\ lookup.pc = "group"
  /\ \E c \in Case : Taken(c, "node")
  /\ UNCHANGED <<pool, search, blips, nodes, tracked, discovered, stops>>

UpsertLegalProceeding ==
  /\ lookup.pc = "node"
  /\ nodes' = nodes \cup lookup.case
  /\ lookup' = [lookup EXCEPT !.pc = "track"]
  /\ UNCHANGED <<pool, search, blips, tracked, discovered, stops>>

\* ON CONFLICT DO NOTHING.
UpsertWatcherCase ==
  /\ lookup.pc = "track"
  /\ tracked' = tracked \cup lookup.case
  /\ discovered' = discovered \cup (lookup.case \ tracked)
  /\ lookup' = [lookup EXCEPT !.pc = "group"]
  /\ UNCHANGED <<pool, search, blips, nodes, stops>>

LookupDone ==
  /\ lookup.pc = "group" /\ lookup.groups = {}
  /\ Dealt(lookup.name)
  /\ lookup' = NoLookup
  /\ UNCHANGED <<search, blips, nodes, tracked, discovered, stops>>

NamesEnd ==
  /\ lookup.pc = "take" /\ PoolEnd
  /\ UNCHANGED <<search, blips, rest>>

\* A statement fails, and the process ends with searches under way, or is killed.
NamesDie ==
  /\ PoolDies /\ stops < MaxStops
  /\ search' = [f \in Fetcher |-> NoSearch]
  /\ stops' = stops + 1
  /\ lookup' = NoLookup
  /\ UNCHANGED <<blips, nodes, tracked, discovered>>

\* The backoffice registers a case meanwhile.
AddCase(c) ==
  /\ c \notin tracked \cup Malformed
  /\ nodes' = nodes \cup {c} /\ tracked' = tracked \cup {c}
  /\ UNCHANGED <<pool, search, blips, discovered, lookup, stops>>

-------------------------------------------------------------------------------
FetchStep(f) == SearchBegin(f) \/ Ask(f) \/ SearchEnd(f) \/ Pooled(Send(f)) \/ Pooled(FetcherDone(f))

RunStep == TakeLookup \/ EachGroup \/ UpsertLegalProceeding \/ UpsertWatcherCase \/ LookupDone \/ NamesEnd

Next ==
  \/ NamesBegin
  \/ \E f \in Fetcher : FetchStep(f)
  \/ RunStep \/ NamesDie
  \/ \E c \in Added : AddCase(c)

Spec == Init /\ [][Next]_vars

\* cron starts a run again and again, and the process goes on with one that was
\* begun: some goroutine that can take a step takes it.
FairSpec == Spec /\ WF_vars(NamesBegin \/ RunStep \/ \E f \in Fetcher : FetchStep(f))

-------------------------------------------------------------------------------
(* Properties.                                                             *)

\* A search that ends with items has every record that matches, once, except
\* those that were given up, however often DJEN refused pages in between: the
\* halves of a range cover it, and an outage is not an empty answer (paginate,
\* fetchRange).
SearchComplete ==
  \A f \in Fetcher : LET s == search[f] IN
    s.result = "items" =>
      /\ Cardinality(Found(s)) = Len(s.out) /\ Found(s) \cap s.lost = {}
      /\ Cap = 0 \/ Len(s.out) < Cap => Wanted(fetcher[f].item) = Found(s) \cup s.lost
      /\ Cap > 0 => Len(s.out) <= Cap

\* A record DJEN would serve is given up only after it was refused twice on its
\* own page, whatever was refused around it (fetchRange).
GivenUpAfterTwo ==
  \A f \in Fetcher : 2 * Cardinality(search[f].lost \ Unservable) <= blips

Work == INSTANCE WorkList WITH pending <- listed \ handled, breaks <- stops

\* A run deals with every name once and ends of itself only then, and it does
\* end, with more names than the fetchers and the channel hold, failing searches
\* and a serial consumer (runNameMode; the watcher's Run is built the same way):
\* it implements a work list of which only a run that dies breaks off.
EveryNameOnce == Work!Spec

Expected ==
  {Info[r].case : r \in {r \in Record \ Unservable :
     /\ Info[r].allowed /\ Info[r].tribunal /\ Info[r].case \notin Malformed
     /\ \E n \in Info[r].names \cap Range(Roster) : r \in Wanted(n)}}

\* A case of a politician that DJEN serves, with no more communications than the
\* cap takes, is watched in the end: failed searches and runs that die only delay
\* it (runNameMode).
CasesAreFound == \A c \in Expected : <>(c \in tracked)
===============================================================================
