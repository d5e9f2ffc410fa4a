------------------------------ MODULE PartySystem ------------------------------
(***************************************************************************)
(* The DJEN worker and the backoffice over their shared stores.  The       *)
(* worker is a cron job (flock allows one instance), the backoffice an     *)
(* HTTP server: nothing orders the statements of one with those of the     *)
(* other.  DJEN keeps publishing, and TSE / Camara imports add Politicians.*)
(***************************************************************************)
EXTENDS DjenWorker, Backoffice

CONSTANTS Importable,  \* politicians an import may add while the system runs
          Recordable,  \* outcomes an operator may record
          Removable    \* node ids a removal request may name

ASSUME InputAssumption == /\ Importable \subseteq Politician
                          /\ Recordable \subseteq HumanOutcome
                          /\ Removable \subseteq Subject

vars == <<store, worker, office>>

\* A communication naming entry e of case c comes out.
Publish(c, e) ==
  /\ e \notin published[c]
  /\ published' = [published EXCEPT ![c] = @ \cup {e}]
  /\ UNCHANGED <<graph, postgres, history, worker, office>>

ImportPolitician(p) ==
  /\ p \notin politicians
  /\ politicians' = politicians \cup {p}
  /\ UNCHANGED <<published, nodes, edges, postgres, history, worker, office>>

\* The name the worker has cleared against the tombstones and not yet written.
InHand == IF djen.pc = "upsert" THEN {djen.name} ELSE {}

ReviewStep(o) ==
  /\ \/ \E r \in ReviewId : ApproveBegin(o, r) \/ Reject(o, r)
     \/ ApproveEdge(o) \/ ApproveMark(o)
  /\ UNCHANGED worker

OutcomeStep(o) ==
  /\ \E s \in Subject, c \in Case, outcome \in Recordable, evidence \in BOOLEAN :
        SetDefendantOutcome(o, s, c, outcome, evidence)
  /\ UNCHANGED worker

RemovalStep(o) ==
  /\ \/ \E q \in ReqId : \/ \E t \in Removable : CreateRemovalRequest(o, q, t)
                         \/ \E s \in {"manual", "rejected"} : CloseRemoval(o, q, s)
                         \/ PurgeBegin(o, q)
     \/ PurgeProvenance(o) \/ PurgeDelete(o) \/ PurgeAudit(o)
     \/ PurgeTombstone(o, InHand)
     \/ PurgeScrubSnapshot(o) \/ PurgeScrubReviews(o) \/ PurgeResolve(o)
  /\ UNCHANGED worker

OfficeFails(o) == HandlerFails(o) /\ UNCHANGED worker

Init == /\ StoreInit
        /\ djen = NoRun /\ stops = 0
        /\ op = [o \in Op |-> NoOp] /\ failures = 0

WorkerStep == WorkerNext /\ UNCHANGED office

Next ==
  \/ \E c \in Case, e \in Entry : Publish(c, e)
  \/ \E p \in Importable : ImportPolitician(p)
  \/ WorkerStep
  \/ \E o \in Op : ReviewStep(o) \/ OutcomeStep(o) \/ RemovalStep(o) \/ OfficeFails(o)

Spec == Init /\ [][Next]_vars

\* The worker is run every day, polls each due case on its way, and gets the
\* whole roster of a case at least now and then.
PollFully(c) == /\ \E R \in FullRosters(c) : PollCaseWith(c, R)
                /\ UNCHANGED office

Fairness ==
  /\ WF_vars(RunBegin /\ UNCHANGED office)
  /\ \A c \in Case : SF_vars(PollFully(c))
  /\ WF_vars(/\ \/ \E e \in Entry : HandleParty(e)
                \/ UpsertParty \/ EnsureDjenDefendantEdge \/ FileReview
                \/ SnapshotParty \/ CaseDone
                \/ \E p \in Name \X Case : RematchSkip(p) \/ RematchHit(p)
                \/ RematchFile
                \/ djen.pc = "rematch" /\ RunEnd
             /\ UNCHANGED office)

FairSpec == Spec /\ Fairness

-------------------------------------------------------------------------------
(* Safety.                                                                 *)

\* Every stored value has its type.
TypeOK == StoreTypeOK /\ WorkerTypeOK /\ OfficeTypeOK

\* The resurrection guard (handlePersonParty, handleCompanyParty against
\* CreatePurgeTombstones): a name whose key is tombstoned is in the graph only
\* if, at the moment the tombstone was written, it already was in the graph
\* (another spelling under the same key, or re-created since the deletion) or
\* the worker had cleared it and not yet written it.  Nothing else comes back.
OnlyExposedReturn == \A n \in nodes : IsSubjectPurged(n) => n \in exposed

\* SetDefendantOutcome is the only way to a conviction: whatever the worker, an
\* approval or a failure does around it, a defendant shown as convicted is so
\* by a human and with evidence.
ConvictionHasEvidence ==
  \A s \in Subject, c \in Case :
    edges[s][c].outcome = "convicted" => edges[s][c].by /\ edges[s][c].evidence

\* finishEdgeApproval marks the review after the edge is written: an approved
\* party match has its DEFENDANT_IN edge, however approval, rejection, purge
\* and failure interleave.
ApprovedHasEdge ==
  \A r \in ReviewId :
    reviews[r].kind = "party_match" /\ reviews[r].status = "approved"
      => HasEdge(NormalName[reviews[r].name], reviews[r].case)

\* runCaseMode snapshots a party last, so no stop loses one: a defendant that
\* will not show up in a later delta is in the graph, is a match a human was
\* asked about, was purged, or is blocked by a tombstone.
Scrubbed(n) == \E m \in purged : n \in Mentions[m]

NoDefendantLost ==
  \A c \in Case : \A e \in snapshot[c] \cap Passive :
    LET n == PartyName[e] IN
    \/ HasEdge(n, c)
    \/ n \notin Company /\ (HasPartyMatchReview(NormalName[n], c) \/ Scrubbed(n))
    \/ n \in purged
    \/ IsSubjectPurged(n)

\* A purge that reached its end left the tombstone, and nothing takes one back:
\* the order of removalResolve's calls.
PurgedIsTombstoned ==
  \A q \in ReqId : requests[q].status = "purged" =>
    /\ requests[q].target \in purged
    /\ IsSubjectPurged(requests[q].target)

-------------------------------------------------------------------------------
(* Liveness.                                                               *)

\* Every published party is eventually recorded for its case: stopped runs,
\* refused records and scrubbed snapshots only delay it.
PublishedIsRecorded ==
  \A c \in Case, e \in Entry :
    e \in published[c] ~> RosterKey[e] \in SnapshotKeys(c)

-------------------------------------------------------------------------------
(* What a comment says and the code does not do.                           *)

\* outcomes.go: per-defendant outcomes are "the one claim in the database that
\* no worker may ever make": what a human recorded, no worker step replaces.
WorkerKeepsHumanOutcome ==
  [][WorkerStep => \A s \in Subject, c \in Case :
                     edges[s][c].by => edges'[s][c] = edges[s][c]]_vars
===============================================================================
