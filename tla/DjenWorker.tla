------------------------------ MODULE DjenWorker ------------------------------
(***************************************************************************)
(* The DJEN worker: case mode (poll a tracked case, diff its roster with   *)
(* the snapshot, write each new defendant) and rematch mode (re-test cited *)
(* persons against the politician index).  One action per database call;   *)
(* between two of them the backoffice may run, and the process may stop.   *)
(* Any database error returns from the run, which is the same as stopping. *)
(***************************************************************************)
EXTENDS PartyStore

CONSTANTS MaxStops   \* how often a run may stop half way (bound)

ASSUME StopsAssumption == MaxStops \in Nat

VARIABLES
  djen,      \* the run in progress
  stops      \* runs stopped half way so far

worker == <<djen, stops>>

AnyEntry == CHOOSE e \in Entry : TRUE

\* pc "cases": between two cases; "party": between two parties of djen.case;
\* "upsert", "edge", "file", "snap": inside the handling of djen.entry;
\* "rematch", "rematchFile": rematch mode, djen.cited still to be tested.
RunState == [pc : {"idle", "cases", "party", "upsert", "edge", "file", "snap",
                   "rematch", "rematchFile"},
             index : SUBSET Politician, case : Case, entry : Entry, name : Name,
             todo : SUBSET Entry, cited : SUBSET (Name \X Case)]

NoRun == [pc |-> "idle", index |-> {}, case |-> AnyCase, entry |-> AnyEntry,
          name |-> AnyName, todo |-> {}, cited |-> {}]

WorkerTypeOK == djen \in RunState /\ stops \in 0..MaxStops

Goto(l) == djen' = [djen EXCEPT !.pc = l]

-------------------------------------------------------------------------------
(* Run, and its case mode.                                                 *)

\* The politician index is read once and used for the whole run.
RunBegin ==
  /\ djen.pc = "idle"
  /\ djen' = [NoRun EXCEPT !.pc = "cases", !.index = politicians]
  /\ UNCHANGED <<store, stops>>

\* rosterFromItems: one entry per roster key, of what DJEN serves this time (it
\* may refuse records, or fail the lookup, which leaves the case for later).
Rosters(c) ==
  {R \in SUBSET published[c] : \A d, e \in R : RosterKey[d] = RosterKey[e] => d = e}

FullRosters(c) ==
  {R \in Rosters(c) : {RosterKey[e] : e \in R} = {RosterKey[e] : e \in published[c]}}

rosterDelta(c, R) == {e \in R : RosterKey[e] \notin SnapshotKeys(c)}

\* Mutant of PollCaseWith: the roster is snapshotted before it is handled.
PollCaseSnapshotFirst(c, R) ==
  /\ djen.pc = "cases"
  /\ djen' = [djen EXCEPT !.pc = "party", !.case = c, !.todo = rosterDelta(c, R)]
  /\ snapshot' = [snapshot EXCEPT ![c] = @ \cup rosterDelta(c, R)]
  /\ UNCHANGED <<published, graph, reviews, requests, tombstones, audited, history, stops>>

PollCaseWith(c, R) ==
  /\ djen.pc = "cases"
  /\ djen' = [djen EXCEPT !.pc = "party", !.case = c, !.todo = rosterDelta(c, R)]
  /\ UNCHANGED <<store, stops>>

PollCase(c) == \E R \in Rosters(c) : PollCaseWith(c, R)

matchPolitician(n) == NormalName[n] \in djen.index

\* Mutant of Classify: no lookup among the tombstones.
ClassifyUnguarded(e) ==
  LET n == PartyName[e] IN
  IF e \notin Passive THEN "snap"
  ELSE IF n \notin Company /\ matchPolitician(n) THEN "file"
  ELSE "upsert"

\* What the passive side of the case makes of entry e, up to its first write:
\* companies and unmatched persons are first looked up among the tombstones.
Classify(e) ==
  LET n == PartyName[e] IN
  IF e \notin Passive THEN "snap"
  ELSE IF n \notin Company /\ matchPolitician(n) THEN "file"
  ELSE IF IsSubjectPurged(n) THEN "snap"
  ELSE "upsert"

\* Mutant of HandleParty: only defendants reach the snapshot.
HandleDefendant(e) ==
  /\ djen.pc = "party"
  /\ e \in djen.todo
  /\ djen' = IF e \in Passive
             THEN [djen EXCEPT !.pc = Classify(e), !.entry = e, !.name = PartyName[e]]
             ELSE [djen EXCEPT !.todo = @ \ {e}]
  /\ UNCHANGED <<store, stops>>

HandleParty(e) ==
  /\ djen.pc = "party"
  /\ e \in djen.todo
  /\ djen' = [djen EXCEPT !.pc = Classify(e), !.entry = e, !.name = PartyName[e]]
  /\ UNCHANGED <<store, stops>>

\* UpsertDjenPerson / UpsertDjenOrganization: MERGE on the id made of the name.
UpsertParty ==
  /\ djen.pc = "upsert"
  /\ nodes' = nodes \cup {djen.name}
  /\ Goto("edge")
  /\ UNCHANGED <<published, politicians, edges, postgres, history, stops>>

\* EnsureDjenDefendantEdge: MATCH the node, MERGE the edge, SET outcome 'cited'.
\* A node that is gone makes it a silent no-op.
EnsureDjenDefendantEdge ==
  LET n == djen.name IN
  /\ djen.pc = "edge"
  /\ edges' = IF n \in nodes THEN MergeEdge(n, djen.case, "cited") ELSE edges
  /\ Goto(IF n \in Company THEN "file" ELSE "snap")
  /\ UNCHANGED <<published, nodes, politicians, postgres, history, stops>>

\* A company files unknown_cnpj after its edge; a politician's name files
\* djen_party_match and writes nothing to the graph.
FileReview ==
  LET n == djen.name IN
  /\ djen.pc = "file"
  /\ CreatePendingReview(IF n \in Company THEN "unknown_cnpj" ELSE "party_match",
                         n, djen.case)
  /\ Goto("snap")
  /\ UNCHANGED <<published, graph, snapshot, requests, tombstones, audited, history, stops>>

\* Every new party is snapshotted, whatever became of it.
SnapshotParty ==
  /\ djen.pc = "snap"
  /\ InsertDjenSnapshotParty(djen.case, djen.entry)
  /\ djen' = [djen EXCEPT !.pc = "party", !.todo = @ \ {djen.entry},
                          !.entry = AnyEntry, !.name = AnyName]
  /\ UNCHANGED <<published, graph, reviews, requests, tombstones, audited, history, stops>>

CaseDone ==
  /\ djen.pc = "party"
  /\ djen.todo = {}
  /\ djen' = [djen EXCEPT !.pc = "cases", !.case = AnyCase]
  /\ UNCHANGED <<store, stops>>

-------------------------------------------------------------------------------
(* Rematch mode, and the end of a run.                                     *)

ListCitedPersons == {p \in (nodes \ Company) \X Case : HasEdge(p[1], p[2])}

RematchBegin ==
  /\ djen.pc = "cases"
  /\ djen' = [djen EXCEPT !.pc = "rematch", !.cited = ListCitedPersons]
  /\ UNCHANGED <<store, stops>>

\* No match, or a review of the pair in any status: nothing to file.
RematchSkip(p) ==
  /\ djen.pc = "rematch"
  /\ p \in djen.cited
  /\ matchPolitician(p[1]) => HasPartyMatchReview(NormalName[p[1]], p[2])
  /\ djen' = [djen EXCEPT !.cited = @ \ {p}]
  /\ UNCHANGED <<store, stops>>

RematchHit(p) ==
  /\ djen.pc = "rematch"
  /\ p \in djen.cited
  /\ matchPolitician(p[1]) /\ ~HasPartyMatchReview(NormalName[p[1]], p[2])
  /\ djen' = [djen EXCEPT !.pc = "rematchFile", !.case = p[2],
                          !.name = p[1], !.cited = @ \ {p}]
  /\ UNCHANGED <<store, stops>>

RematchFile ==
  /\ djen.pc = "rematchFile"
  /\ CreatePendingReview("party_match", djen.name, djen.case)
  /\ djen' = [djen EXCEPT !.pc = "rematch", !.case = AnyCase, !.name = AnyName]
  /\ UNCHANGED <<published, graph, snapshot, requests, tombstones, audited, history, stops>>

RunEnd ==
  /\ djen.pc = "cases" \/ (djen.pc = "rematch" /\ djen.cited = {})
  /\ djen' = NoRun
  /\ UNCHANGED <<store, stops>>

\* The process dies, or a database call fails and the run returns the error.
RunStops ==
  /\ djen.pc # "idle"
  /\ stops < MaxStops
  /\ djen' = NoRun
  /\ stops' = stops + 1
  /\ UNCHANGED store

CaseMode ==
  \/ \E c \in Case : PollCase(c)
  \/ \E e \in Entry : HandleParty(e)
  \/ UpsertParty \/ EnsureDjenDefendantEdge \/ FileReview \/ SnapshotParty \/ CaseDone

RematchMode ==
  \/ RematchBegin
  \/ \E p \in Name \X Case : RematchSkip(p) \/ RematchHit(p)
  \/ RematchFile

WorkerNext == RunBegin \/ CaseMode \/ RematchMode \/ RunEnd \/ RunStops
===============================================================================
