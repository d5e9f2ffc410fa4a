------------------------------ MODULE Backoffice ------------------------------
(***************************************************************************)
(* The backoffice handlers that change what the DJEN worker also writes:   *)
(* approving and rejecting a party match, recording a defendant's outcome, *)
(* and the removal (LGPD) flow.  A handler is a request in flight: Op is   *)
(* the set of requests that can be in flight together, and a handler that  *)
(* makes several database calls takes one step for each.                   *)
(***************************************************************************)
EXTENDS PartyStore

CONSTANTS Op,          \* backoffice requests that can be in flight at once
          MaxFailures  \* handlers that may be cut short (bound)

ASSUME OpAssumption == MaxFailures \in Nat

VARIABLES op, failures

office == <<op, failures>>

AnyReview == CHOOSE r \in ReviewId : TRUE
AnyReq    == CHOOSE q \in ReqId : TRUE

OpState == [pc : {"idle", "edge", "mark",
                  "provenance", "delete", "audit", "tombstone",
                  "scrubSnapshot", "scrubReviews", "resolve"},
            review : ReviewId, name : Name, case : Case, req : ReqId, target : Subject]

NoOp == [pc |-> "idle", review |-> AnyReview, name |-> AnyName, case |-> AnyCase,
         req |-> AnyReq, target |-> AnySubject]

OfficeTypeOK == op \in [Op -> OpState] /\ failures \in 0..MaxFailures

Advance(o, l) == op' = [op EXCEPT ![o].pc = l]
Finish(o)     == op' = [op EXCEPT ![o] = NoOp]

-------------------------------------------------------------------------------
(* Review queue.                                                           *)

\* Mutant of ApproveBegin: the status is claimed before the edge is written.
ApproveClaimsFirst(o, r) ==
  /\ op[o].pc = "idle"
  /\ reviews[r].kind = "party_match" /\ reviews[r].status = "pending"
  /\ op' = [op EXCEPT ![o] = [NoOp EXCEPT !.pc = "edge", !.review = r,
                                !.name = reviews[r].name, !.case = reviews[r].case]]
  /\ UpdatePendingReviewStatus(r, "approved")
  /\ UNCHANGED <<published, graph, snapshot, requests, tombstones, audited, history, failures>>

\* reviewApprove: load the row and refuse one that is not pending.  Type and
\* payload are taken from this read.
ApproveBegin(o, r) ==
  /\ op[o].pc = "idle"
  /\ reviews[r].kind = "party_match" /\ reviews[r].status = "pending"
  /\ op' = [op EXCEPT ![o] = [NoOp EXCEPT !.pc = "edge", !.review = r,
                                !.name = reviews[r].name, !.case = reviews[r].case]]
  /\ UNCHANGED <<store, failures>>

\* EnsurePoliticianDefendantEdge: without the Politician node the handler
\* reports the error and the review stays pending.  (Nothing deletes one: the
\* branch is the code's, no run reaches it.)
ApproveEdge(o) ==
  LET p == NormalName[op[o].name] IN
  /\ op[o].pc = "edge"
  /\ IF p \in politicians
       THEN /\ edges' = MergeEdge(p, op[o].case, "confirmed")
            /\ Advance(o, "mark")
       ELSE /\ UNCHANGED edges
            /\ Finish(o)
  /\ UNCHANGED <<published, nodes, politicians, postgres, history, failures>>

ApproveMark(o) ==
  /\ op[o].pc = "mark"
  /\ UpdatePendingReviewStatus(op[o].review, "approved")
  /\ Finish(o)
  /\ UNCHANGED <<published, graph, snapshot, requests, tombstones, audited, history, failures>>

\* reviewReject: the row has to exist, its status is not looked at.
Reject(o, r) ==
  /\ op[o].pc = "idle"
  /\ Filed(r)
  /\ UpdatePendingReviewStatus(r, "rejected")
  /\ UNCHANGED <<published, graph, snapshot, requests, tombstones, audited, history, office>>

-------------------------------------------------------------------------------
(* Outcomes.                                                               *)

\* Mutant of SetDefendantOutcome: the evidence is not asked for.
SetOutcomeUnchecked(o, s, c, outcome, evidence) ==
  /\ op[o].pc = "idle"
  /\ HasEdge(s, c)
  /\ edges' = [edges EXCEPT ![s][c] =
                 [outcome |-> outcome, by |-> TRUE, evidence |-> evidence]]
  /\ UNCHANGED <<published, nodes, politicians, postgres, history, office>>

\* SetDefendantOutcome: one statement, refused without the edge, and a
\* conviction without evidence is refused before it.
SetDefendantOutcome(o, s, c, outcome, evidence) ==
  /\ op[o].pc = "idle"
  /\ outcome = "convicted" => evidence
  /\ HasEdge(s, c)
  /\ edges' = [edges EXCEPT ![s][c] =
                 [outcome |-> outcome, by |-> TRUE, evidence |-> evidence]]
  /\ UNCHANGED <<published, nodes, politicians, postgres, history, office>>

-------------------------------------------------------------------------------
(* Removal requests.                                                       *)

CreateRemovalRequest(o, q, t) ==
  /\ op[o].pc = "idle"
  /\ requests[q].status = "none"
  /\ requests' = [requests EXCEPT ![q] = [target |-> t, status |-> "pending"]]
  /\ UNCHANGED <<published, graph, snapshot, reviews, tombstones, audited, history, office>>

\* ResolveRemovalRequest: UPDATE ... WHERE id = q AND status = 'pending'.
ResolveRemovalRequest(q, s) ==
  requests' = IF requests[q].status = "pending"
              THEN [requests EXCEPT ![q].status = s] ELSE requests

\* action=reject and action=manual
CloseRemoval(o, q, s) ==
  /\ op[o].pc = "idle"
  /\ requests[q].status = "pending"
  /\ ResolveRemovalRequest(q, s)
  /\ UNCHANGED <<published, graph, snapshot, reviews, tombstones, audited, history, office>>

\* action=purge: load the request, refuse one that is not pending.
PurgeBegin(o, q) ==
  /\ op[o].pc = "idle"
  /\ requests[q].status = "pending"
  /\ op' = [op EXCEPT ![o] = [NoOp EXCEPT !.pc = "provenance", !.req = q,
                                !.target = requests[q].target]]
  /\ UNCHANGED <<store, failures>>

\* Mutant of PurgeProvenance: the label of the node is not looked at.
PurgeAnyLabel(o) ==
  /\ op[o].pc = "provenance"
  /\ Advance(o, "delete")
  /\ UNCHANGED <<store, failures>>

\* GetNodeProvenance: a missing node or a Politician ends the purge and leaves
\* the request pending.
PurgeProvenance(o) ==
  /\ op[o].pc = "provenance"
  /\ IF op[o].target \in nodes THEN Advance(o, "delete") ELSE Finish(o)
  /\ UNCHANGED <<store, failures>>

PurgeDelete(o) ==
  /\ op[o].pc = "delete"
  /\ DetachDelete(op[o].target)
  /\ purged' = purged \cup {op[o].target}
  /\ Advance(o, "audit")
  /\ UNCHANGED <<published, politicians, postgres, exposed, failures>>

\* LogAudit's error is dropped: the handler goes on without the record.
PurgeAudit(o) ==
  /\ op[o].pc = "audit"
  /\ \/ audited' = audited \cup {op[o].req} /\ UNCHANGED failures
     \/ failures < MaxFailures /\ failures' = failures + 1 /\ UNCHANGED audited
  /\ Advance(o, "tombstone")
  /\ UNCHANGED <<published, graph, snapshot, reviews, requests, tombstones, history>>

\* Mutant of PurgeTombstone: its error is dropped, as LogAudit's is.
PurgeTombstoneBestEffort(o, inHand) ==
  LET k == NameKey[op[o].target] IN
  /\ op[o].pc = "tombstone"
  /\ \/ /\ tombstones' = tombstones \cup {k}
        /\ exposed' = exposed \cup {n \in nodes \cup inHand : NameKey[n] = k}
     \/ UNCHANGED <<tombstones, exposed>>
  /\ Advance(o, "scrubSnapshot")
  /\ UNCHANGED <<published, graph, snapshot, reviews, requests, audited, purged, failures>>

\* CreatePurgeTombstones with the key of the name read before the deletion.
PurgeTombstone(o, inHand) ==
  LET k == NameKey[op[o].target] IN
  /\ op[o].pc = "tombstone"
  /\ tombstones' = tombstones \cup {k}
  /\ exposed' = exposed \cup {n \in nodes \cup inHand : NameKey[n] = k}
  /\ Advance(o, "scrubSnapshot")
  /\ UNCHANGED <<published, graph, snapshot, reviews, requests, audited, purged, failures>>

\* DeletePurgedSubjectName, first statement that matters: rows whose raw name
\* is the name of the node.  (pending_aliases is never written by any code.)
PurgeScrubSnapshot(o) ==
  /\ op[o].pc = "scrubSnapshot"
  /\ snapshot' = [c \in Case |->
       {e \in snapshot[c] : ~(e \in Verbatim /\ PartyName[e] = op[o].target)}]
  /\ Advance(o, "scrubReviews")
  /\ UNCHANGED <<published, graph, reviews, requests, tombstones, audited, history, failures>>

\* ... and its last: every review, in any status, whose payload has the name.
PurgeScrubReviews(o) ==
  /\ op[o].pc = "scrubReviews"
  /\ reviews' = [r \in ReviewId |->
       IF Filed(r) /\ reviews[r].name \in Mentions[op[o].target]
       THEN [FreshRow EXCEPT !.used = TRUE] ELSE reviews[r]]
  /\ Advance(o, "resolve")
  /\ UNCHANGED <<published, graph, snapshot, requests, tombstones, audited, history, failures>>

PurgeResolve(o) ==
  /\ op[o].pc = "resolve"
  /\ ResolveRemovalRequest(op[o].req, "purged")
  /\ Finish(o)
  /\ UNCHANGED <<published, graph, snapshot, reviews, tombstones, audited, history, failures>>

\* A call fails and the handler returns, or the API process is restarted.
HandlerFails(o) ==
  /\ op[o].pc # "idle"
  /\ failures < MaxFailures
  /\ failures' = failures + 1
  /\ Finish(o)
  /\ UNCHANGED store
===============================================================================
