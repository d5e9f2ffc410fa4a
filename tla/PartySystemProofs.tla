-------------------------- MODULE PartySystemProofs --------------------------
(***************************************************************************)
(* Theorems about PartySystem, for any number of cases, roster entries,    *)
(* names, review rows, removal requests and requests in flight, whatever   *)
(* the foldings identify.                                                  *)
(***************************************************************************)
EXTENDS PartySystem, TLAPS

\* The placeholders are values of their sets.
LEMMA Placeholders ==
  /\ AnyName \in Name /\ AnyCase \in Case /\ AnyEntry \in Entry
  /\ AnySubject \in Subject /\ AnyReview \in ReviewId /\ AnyReq \in ReqId
  /\ NoRun \in RunState /\ NoOp \in OpState /\ FreshRow \in Review
  /\ NoRequest \in Request /\ NoEdge \in Edge
<1>1. AnyName \in Name /\ AnyCase \in Case /\ AnyEntry \in Entry
  BY StoreAssumption DEF AnyName, AnyCase, AnyEntry
<1>2. AnySubject \in Subject /\ AnyReview \in ReviewId /\ AnyReq \in ReqId
  BY StoreAssumption DEF AnySubject, AnyReview, AnyReq, Subject
<1>3. NoRun \in RunState
  BY <1>1 DEF NoRun, RunState
<1>4. NoOp \in OpState
  BY <1>1, <1>2 DEF NoOp, OpState
<1>5. FreshRow \in Review /\ NoRequest \in Request /\ NoEdge \in Edge
  BY <1>1, <1>2 DEF FreshRow, Review, ReviewKind, NoRequest, Request, NoEdge, Edge
<1> QED
  BY <1>1, <1>2, <1>3, <1>4, <1>5

\* Writing an edge keeps the type of the edges.
LEMMA EdgesType ==
  ASSUME edges \in [Subject -> [Case -> Edge]],
         NEW s \in Subject, NEW c \in Case, NEW o \in Outcome
  PROVE  MergeEdge(s, c, o) \in [Subject -> [Case -> Edge]]
<1> DEFINE e == edges[s][c]
<1>1. edges[s] \in [Case -> Edge] /\ e \in Edge
  OBVIOUS
<1>2. [e EXCEPT !.outcome = o] \in Edge
  BY <1>1 DEF Edge
<1>3. [edges[s] EXCEPT ![c] = [e EXCEPT !.outcome = o]] \in [Case -> Edge]
  BY <1>1, <1>2
<1> QED
  BY <1>3 DEF MergeEdge

\* Filing a review keeps the type of the reviews.
LEMMA ReviewsType ==
  ASSUME reviews \in [ReviewId -> Review], NEW kind \in ReviewKind,
         NEW n \in Name, NEW c \in Case, CreatePendingReview(kind, n, c)
  PROVE  reviews' \in [ReviewId -> Review]
  BY DEF CreatePendingReview, Review

LEMMA StatusType ==
  ASSUME reviews \in [ReviewId -> Review], NEW r \in ReviewId,
         NEW s \in {"pending", "approved", "rejected"}, UpdatePendingReviewStatus(r, s)
  PROVE  reviews' \in [ReviewId -> Review]
  BY DEF UpdatePendingReviewStatus, Review

-------------------------------------------------------------------------------
(* Type correctness.                                                       *)

LEMMA TypeInit == Init => TypeOK
  BY Placeholders, StopsAssumption, OpAssumption
  DEF Init, StoreInit, TypeOK, StoreTypeOK, WorkerTypeOK, OfficeTypeOK

LEMMA TypeWorker == TypeOK /\ WorkerStep => TypeOK'
<1> SUFFICES ASSUME TypeOK, WorkerNext, UNCHANGED office PROVE TypeOK'
  BY DEF WorkerStep
<1> USE DEF TypeOK, StoreTypeOK, WorkerTypeOK, OfficeTypeOK, office, graph, postgres,
            history, store
<1>1. CASE RunBegin
  BY <1>1, Placeholders DEF RunBegin, NoRun, RunState
<1>2. CASE \E c \in Case : PollCase(c)
  <2>1. PICK c \in Case : \E R \in Rosters(c) : PollCaseWith(c, R)
    BY <1>2 DEF PollCase
  <2>r. PICK R \in Rosters(c) : PollCaseWith(c, R)
    BY <2>1
  <2>2. rosterDelta(c, R) \subseteq Entry
    BY <2>r DEF Rosters, rosterDelta
  <2>3. djen' \in RunState
    BY <2>r, <2>2 DEF PollCaseWith, RunState
  <2> QED
    BY <2>r, <2>3 DEF PollCaseWith
<1>3. CASE \E e \in Entry : HandleParty(e)
  <2>1. PICK e \in Entry : HandleParty(e)
    BY <1>3
  <2>2. PartyName[e] \in Name /\ Classify(e) \in {"snap", "file", "upsert"}
    BY StoreAssumption DEF Classify
  <2>3. djen' \in RunState
    BY <2>1, <2>2 DEF HandleParty, RunState
  <2> QED
    BY <2>1, <2>3 DEF HandleParty
<1>4. CASE UpsertParty
  BY <1>4 DEF UpsertParty, Goto, RunState
<1>5. CASE EnsureDjenDefendantEdge
  <2>1. djen.name \in Subject /\ djen.case \in Case /\ "cited" \in Outcome
    BY DEF RunState, Subject, Outcome, HumanOutcome
  <2>2. edges' \in [Subject -> [Case -> Edge]]
    BY <1>5, <2>1, EdgesType DEF EnsureDjenDefendantEdge
  <2>3. djen' \in RunState
    BY <1>5 DEF EnsureDjenDefendantEdge, Goto, RunState
  <2> QED
    BY <1>5, <2>2, <2>3 DEF EnsureDjenDefendantEdge
<1>6. CASE FileReview
  <2>1. djen.name \in Name /\ djen.case \in Case
    BY DEF RunState
  <2>2. reviews' \in [ReviewId -> Review]
    BY <1>6, <2>1, ReviewsType DEF FileReview, ReviewKind
  <2>3. djen' \in RunState
    BY <1>6 DEF FileReview, Goto, RunState
  <2> QED
    BY <1>6, <2>2, <2>3 DEF FileReview
<1>7. CASE SnapshotParty
  BY <1>7, Placeholders DEF SnapshotParty, InsertDjenSnapshotParty, RunState
<1>8. CASE CaseDone
  BY <1>8, Placeholders DEF CaseDone, RunState
<1>9. CASE RematchBegin
  BY <1>9 DEF RematchBegin, ListCitedPersons, RunState
<1>10. CASE \E p \in Name \X Case : RematchSkip(p) \/ RematchHit(p)
  <2>1. PICK p \in Name \X Case : RematchSkip(p) \/ RematchHit(p)
    BY <1>10
  <2>2. p[1] \in Name /\ p[2] \in Case /\ djen.cited \ {p} \in SUBSET (Name \X Case)
    BY DEF RunState
  <2>3. djen' \in RunState
    <3>1. CASE RematchSkip(p)
      BY <3>1, <2>2 DEF RematchSkip, RunState
    <3>2. CASE RematchHit(p)
      BY <3>2, <2>2 DEF RematchHit, RunState
    <3> QED
      BY <2>1, <3>1, <3>2
  <2> QED
    BY <2>1, <2>3 DEF RematchSkip, RematchHit
<1>11. CASE RematchFile
  <2>1. djen.name \in Name /\ djen.case \in Case
    BY DEF RunState
  <2>2. reviews' \in [ReviewId -> Review]
    BY <1>11, <2>1, ReviewsType DEF RematchFile, ReviewKind
  <2>3. djen' \in RunState
    BY <1>11, Placeholders DEF RematchFile, RunState
  <2> QED
    BY <1>11, <2>2, <2>3 DEF RematchFile
<1>12. CASE RunEnd
  BY <1>12, Placeholders DEF RunEnd
<1>13. CASE RunStops
  BY <1>13, Placeholders, StopsAssumption DEF RunStops
<1> QED
  BY <1>1, <1>2, <1>3, <1>4, <1>5, <1>6, <1>7, <1>8, <1>9, <1>10, <1>11, <1>12, <1>13
  DEF WorkerNext, CaseMode, RematchMode

\* PurgePersonNode has refused a Politician and a missing node: from the
\* deletion on, a purge works on the name of a Person or Organization.
PurgeStage == {"delete", "audit", "tombstone", "scrubSnapshot", "scrubReviews", "resolve"}

PurgeTarget == \A o \in Op : op[o].pc \in PurgeStage => op[o].target \in Name

TypeInv == TypeOK /\ PurgeTarget

LEMMA TypeOffice ==
  ASSUME TypeInv, NEW o \in Op,
         ReviewStep(o) \/ OutcomeStep(o) \/ RemovalStep(o) \/ OfficeFails(o)
  PROVE  TypeOK'
<1> USE DEF TypeInv, TypeOK, StoreTypeOK, WorkerTypeOK, OfficeTypeOK, office, worker, graph,
            postgres, history, store
<1>0. op[o] \in OpState /\ op[o].name \in Name /\ op[o].case \in Case
      /\ op[o].review \in ReviewId /\ op[o].req \in ReqId /\ op[o].target \in Subject
  BY DEF OpState
<1>t. op[o].pc \in {"delete", "tombstone"} => op[o].target \in Name
  BY DEF PurgeTarget, PurgeStage
<1>a. ASSUME NEW l \in {"edge", "mark", "provenance", "delete", "audit", "tombstone",
                        "scrubSnapshot", "scrubReviews", "resolve"}, Advance(o, l)
      PROVE  op' \in [Op -> OpState]
  BY <1>0, <1>a DEF Advance, OpState
<1>b. ASSUME Finish(o) PROVE op' \in [Op -> OpState]
  BY <1>b, Placeholders DEF Finish
<1>1. CASE ReviewStep(o)
  <2>1. CASE \E r \in ReviewId : ApproveBegin(o, r)
    <3>1. PICK r \in ReviewId : ApproveBegin(o, r)
      BY <2>1
    <3>2. op' \in [Op -> OpState]
      BY <3>1, Placeholders DEF ApproveBegin, NoOp, OpState, Review
    <3> QED
      BY <3>1, <3>2, <1>1 DEF ApproveBegin, ReviewStep
  <2>2. CASE \E r \in ReviewId : Reject(o, r)
    BY <1>1, <2>2, StatusType DEF Reject, ReviewStep
  <2>3. CASE ApproveEdge(o)
    <3>1. NormalName[op[o].name] \in Subject /\ "confirmed" \in Outcome
      BY <1>0, StoreAssumption DEF Subject, Outcome
    <3>2. edges' \in [Subject -> [Case -> Edge]]
      BY <1>0, <2>3, <3>1, EdgesType DEF ApproveEdge
    <3>3. op' \in [Op -> OpState]
      BY <1>a, <1>b, <2>3 DEF ApproveEdge
    <3> QED
      BY <1>1, <2>3, <3>2, <3>3 DEF ApproveEdge, ReviewStep
  <2>4. CASE ApproveMark(o)
    <3>1. reviews' \in [ReviewId -> Review]
      BY <1>0, <2>4, StatusType DEF ApproveMark
    <3> QED
      BY <1>1, <1>b, <2>4, <3>1 DEF ApproveMark, ReviewStep
  <2> QED
    BY <1>1, <2>1, <2>2, <2>3, <2>4 DEF ReviewStep
<1>2. CASE OutcomeStep(o)
  <2>1. PICK s \in Subject, c \in Case, outcome \in Recordable, evidence \in BOOLEAN :
           SetDefendantOutcome(o, s, c, outcome, evidence)
    BY <1>2 DEF OutcomeStep
  <2>2. [outcome |-> outcome, by |-> TRUE, evidence |-> evidence] \in Edge
    BY InputAssumption DEF Edge, Outcome
  <2>3. edges' \in [Subject -> [Case -> Edge]]
    BY <2>1, <2>2 DEF SetDefendantOutcome
  <2> QED
    BY <1>2, <2>1, <2>3 DEF SetDefendantOutcome, OutcomeStep
<1>3. CASE RemovalStep(o)
  <2>1. CASE \E q \in ReqId, t \in Removable : CreateRemovalRequest(o, q, t)
    BY <1>3, <2>1, InputAssumption DEF CreateRemovalRequest, RemovalStep, Request
  <2>2. CASE \E q \in ReqId, s \in {"manual", "rejected"} : CloseRemoval(o, q, s)
    BY <1>3, <2>2 DEF CloseRemoval, ResolveRemovalRequest, RemovalStep, Request
  <2>3. CASE \E q \in ReqId : PurgeBegin(o, q)
    <3>1. PICK q \in ReqId : PurgeBegin(o, q)
      BY <2>3
    <3>2. op' \in [Op -> OpState]
      BY <3>1, Placeholders DEF PurgeBegin, NoOp, OpState, Request
    <3> QED
      BY <1>3, <3>1, <3>2 DEF PurgeBegin, RemovalStep
  <2>4. CASE PurgeProvenance(o)
    BY <1>3, <1>a, <1>b, <2>4 DEF PurgeProvenance, RemovalStep
  <2>5. CASE PurgeDelete(o)
    BY <1>t, <1>3, <1>a, <2>5, Placeholders DEF PurgeDelete, DetachDelete, RemovalStep
  <2>6. CASE PurgeAudit(o)
    BY <1>0, <1>3, <1>a, <2>6, OpAssumption DEF PurgeAudit, RemovalStep
  <2>7. CASE PurgeTombstone(o, InHand)
    <3>1. NameKey[op[o].target] \in TombKey
      BY <1>t, <2>7, StoreAssumption DEF PurgeTombstone
    <3>2. InHand \subseteq Name
      BY DEF InHand, RunState
    <3>3. tombstones' \subseteq TombKey /\ exposed' \subseteq Name
      BY <2>7, <3>1, <3>2 DEF PurgeTombstone
    <3> QED
      BY <1>3, <1>a, <2>7, <3>3 DEF PurgeTombstone, RemovalStep
  <2>8. CASE PurgeScrubSnapshot(o)
    BY <1>3, <1>a, <2>8 DEF PurgeScrubSnapshot, RemovalStep
  <2>9. CASE PurgeScrubReviews(o)
    BY <1>3, <1>a, <2>9, Placeholders DEF PurgeScrubReviews, RemovalStep, Review, FreshRow
  <2>10. CASE PurgeResolve(o)
    BY <1>0, <1>3, <1>b, <2>10 DEF PurgeResolve, ResolveRemovalRequest, RemovalStep, Request
  <2> QED
    BY <1>3, <2>1, <2>2, <2>3, <2>4, <2>5, <2>6, <2>7, <2>8, <2>9, <2>10 DEF RemovalStep
<1>4. CASE OfficeFails(o)
  BY <1>4, <1>b, OpAssumption DEF OfficeFails, HandlerFails
<1> QED
  BY <1>1, <1>2, <1>3, <1>4

LEMMA TargetOffice ==
  ASSUME TypeInv, NEW o \in Op,
         ReviewStep(o) \/ OutcomeStep(o) \/ RemovalStep(o) \/ OfficeFails(o)
  PROVE  PurgeTarget'
<1> SUFFICES ASSUME NEW x \in Op, op'[x].pc \in PurgeStage PROVE op'[x].target \in Name
  BY DEF PurgeTarget
<1> USE DEF TypeInv, TypeOK, OfficeTypeOK, PurgeTarget, PurgeStage
<1>1. CASE UNCHANGED op
  BY <1>1
<1>2. ASSUME op[o].pc \in PurgeStage, NEW l \in PurgeStage, Advance(o, l)
      PROVE  op'[x].target \in Name
  BY <1>2 DEF Advance, OpState
<1>3. ASSUME Finish(o) PROVE op'[x].target \in Name
  BY <1>3 DEF Finish, NoOp
<1>4. CASE ReviewStep(o)
  <2>1. CASE \E r \in ReviewId : ApproveBegin(o, r)
    BY <2>1 DEF ApproveBegin, NoOp
  <2>2. CASE \E r \in ReviewId : Reject(o, r)
    BY <1>1, <2>2 DEF Reject, office
  <2>3. CASE ApproveEdge(o)
    BY <1>3, <2>3 DEF ApproveEdge, Advance, OpState
  <2>4. CASE ApproveMark(o)
    BY <1>3, <2>4 DEF ApproveMark
  <2> QED
    BY <1>4, <2>1, <2>2, <2>3, <2>4 DEF ReviewStep
<1>5. CASE OutcomeStep(o)
  BY <1>1, <1>5 DEF OutcomeStep, SetDefendantOutcome, office
<1>6. CASE RemovalStep(o)
  <2>1. CASE \E q \in ReqId : PurgeBegin(o, q)
    BY <2>1 DEF PurgeBegin, NoOp
  <2>2. CASE PurgeProvenance(o)
    BY <1>3, <2>2 DEF PurgeProvenance, Advance, OpState, StoreTypeOK
  <2> QED
    BY <1>1, <1>2, <1>3, <1>6, <2>1, <2>2
    DEF RemovalStep, CreateRemovalRequest, CloseRemoval, PurgeDelete, PurgeAudit, PurgeTombstone,
        PurgeScrubSnapshot, PurgeScrubReviews, PurgeResolve, office
<1>7. CASE OfficeFails(o)
  BY <1>3, <1>7 DEF OfficeFails, HandlerFails
<1> QED
  BY <1>4, <1>5, <1>6, <1>7

LEMMA TypeStep == TypeInv /\ [Next]_vars => TypeInv'
<1> SUFFICES ASSUME TypeInv, [Next]_vars PROVE TypeInv'
  OBVIOUS
<1> USE DEF TypeInv, PurgeTarget, TypeOK, StoreTypeOK, WorkerTypeOK, OfficeTypeOK, office, worker, graph,
            postgres, history, store
<1>1. CASE \E c \in Case, e \in Entry : Publish(c, e)
  BY <1>1 DEF Publish
<1>2. CASE \E p \in Importable : ImportPolitician(p)
  BY <1>2, InputAssumption DEF ImportPolitician
<1>3. CASE WorkerStep
  BY <1>3, TypeWorker DEF WorkerStep
<1>4. CASE \E o \in Op : ReviewStep(o) \/ OutcomeStep(o) \/ RemovalStep(o) \/ OfficeFails(o)
  BY <1>4, TypeOffice, TargetOffice
<1>5. CASE UNCHANGED vars
  BY <1>5 DEF vars
<1> QED
  BY <1>1, <1>2, <1>3, <1>4, <1>5 DEF Next

LEMMA Typing == Spec => []TypeInv
<1>1. Init => TypeInv
  BY TypeInit DEF Init, TypeInv, PurgeTarget, PurgeStage, NoOp
<1> QED
  BY <1>1, TypeStep, PTL DEF Spec

\* Every reachable state is well typed.  A purge deletes and tombstones what
\* its request names, so this rests on the refusal of Politicians (PurgeTarget).
THEOREM TypeCorrect == Spec => []TypeOK
<1>1. TypeInv => TypeOK
  BY DEF TypeInv
<1> QED
  BY <1>1, Typing, PTL

-------------------------------------------------------------------------------
(* The resurrection guard.                                                 *)

\* The guard is a check, then an upsert: the name in between belongs to the
\* invariant.
InHandExposed ==
  djen.pc = "upsert" /\ IsSubjectPurged(djen.name) => djen.name \in exposed

ErasureInv == OnlyExposedReturn /\ InHandExposed

LEMMA ErasureStep == TypeInv /\ ErasureInv /\ [Next]_vars => ErasureInv'
<1> SUFFICES ASSUME TypeInv, ErasureInv, [Next]_vars PROVE ErasureInv'
  OBVIOUS
<1> USE DEF ErasureInv, OnlyExposedReturn, InHandExposed, IsSubjectPurged, history, graph,
            postgres, store
<1>1. CASE UNCHANGED <<nodes, tombstones, exposed, djen>>
  BY <1>1
<1>2. CASE WorkerStep
  <2>1. CASE \E e \in Entry : HandleParty(e)
    <3>1. PICK e \in Entry : HandleParty(e)
      BY <2>1
    <3>2. djen'.pc = "upsert" => djen'.name \notin {n \in Name : NameKey[n] \in tombstones}
      BY <3>1 DEF HandleParty, Classify, TypeInv, TypeOK, WorkerTypeOK, RunState
    <3>3. djen'.name \in Name
      BY <3>1, StoreAssumption DEF HandleParty, TypeInv, TypeOK, WorkerTypeOK, RunState
    <3> QED
      BY <3>1, <3>2, <3>3 DEF HandleParty
  <2>2. CASE UpsertParty
    BY <2>2 DEF UpsertParty, Goto, TypeInv, TypeOK, WorkerTypeOK, RunState
  <2>3. CASE UNCHANGED <<nodes, tombstones, exposed>> /\ djen'.pc # "upsert"
    BY <2>3
  <2>4. CASE RunBegin \/ RunEnd \/ RunStops
    <3>1. NoRun.pc # "upsert" /\ [NoRun EXCEPT !.pc = "cases", !.index = politicians].pc # "upsert"
      BY DEF NoRun
    <3> QED
      BY <2>3, <2>4, <3>1 DEF RunBegin, RunEnd, RunStops
  <2>7. CASE CaseDone \/ RematchBegin \/ RematchFile \/ SnapshotParty
    BY <2>3, <2>7 DEF CaseDone, RematchBegin, RematchFile, SnapshotParty,
                      TypeInv, TypeOK, WorkerTypeOK, RunState
  <2>8. CASE FileReview \/ EnsureDjenDefendantEdge
    BY <2>3, <2>8 DEF FileReview, EnsureDjenDefendantEdge, Goto,
                      TypeInv, TypeOK, WorkerTypeOK, RunState
  <2>5. CASE \E c \in Case : PollCase(c)
    BY <2>3, <2>5 DEF PollCase, PollCaseWith, TypeInv, TypeOK, WorkerTypeOK, RunState
  <2>6. CASE \E p \in Name \X Case : RematchSkip(p) \/ RematchHit(p)
    BY <2>3, <2>6 DEF RematchSkip, RematchHit, TypeInv, TypeOK, WorkerTypeOK, RunState
  <2> QED
    BY <1>2, <2>1, <2>2, <2>4, <2>5, <2>6, <2>7, <2>8 DEF WorkerStep, WorkerNext, CaseMode, RematchMode
<1>3. ASSUME NEW o \in Op, RemovalStep(o) PROVE ErasureInv'
  <2>1. CASE PurgeDelete(o)
    BY <1>3, <2>1 DEF RemovalStep, PurgeDelete, DetachDelete, worker
  <2>2. CASE PurgeTombstone(o, InHand)
    BY <1>3, <2>2 DEF RemovalStep, PurgeTombstone, InHand, worker
  <2> QED
    BY <1>1, <1>3, <2>1, <2>2
    DEF RemovalStep, CreateRemovalRequest, CloseRemoval, PurgeBegin, PurgeProvenance, PurgeAudit,
        PurgeScrubSnapshot, PurgeScrubReviews, PurgeResolve, worker
<1>4. ASSUME NEW o \in Op, ReviewStep(o) \/ OutcomeStep(o) \/ OfficeFails(o) PROVE ErasureInv'
  BY <1>1, <1>4
  DEF ReviewStep, ApproveBegin, ApproveEdge, ApproveMark, Reject, OutcomeStep,
      SetDefendantOutcome, OfficeFails, HandlerFails, worker
<1>5. CASE UNCHANGED vars
  BY <1>1, <1>5 DEF vars, worker
<1>6. CASE (\E c \in Case, e \in Entry : Publish(c, e)) \/ (\E p \in Importable : ImportPolitician(p))
  BY <1>1, <1>6 DEF Publish, ImportPolitician, worker
<1> QED
  BY <1>2, <1>3, <1>4, <1>5, <1>6 DEF Next

\* A tombstoned name is in the graph only if its tombstone came too late for
\* it: no run that starts its check after the tombstone brings anyone back.
THEOREM ErasureHolds == Spec => []OnlyExposedReturn
<1>1. Init => ErasureInv
  BY DEF Init, StoreInit, ErasureInv, OnlyExposedReturn, InHandExposed, NoRun
<1>2. ErasureInv => OnlyExposedReturn
  BY DEF ErasureInv
<1> QED
  BY <1>1, <1>2, Typing, ErasureStep, PTL DEF Spec

-------------------------------------------------------------------------------
(* Outcomes.                                                               *)

\* What one step can do to one DEFENDANT_IN edge: keep it; set the outcome a
\* worker or an approval writes; record what a human submitted, with evidence
\* for a conviction; or lose it with the node of a purged name.
EdgeKept(s, c)     == edges'[s][c] = edges[s][c]
EdgeMerged(s, c)   == \E o \in {"cited", "confirmed"} :
                        edges'[s][c] = [edges[s][c] EXCEPT !.outcome = o]
EdgeRecorded(s, c) == \E o \in HumanOutcome, v \in BOOLEAN :
                        /\ o = "convicted" => v
                        /\ edges'[s][c] = [outcome |-> o, by |-> TRUE, evidence |-> v]
EdgePurged(s, c)   == s \in Name /\ s \in purged' /\ edges'[s][c] = NoEdge

LEMMA EdgeStep ==
  ASSUME TypeInv, [Next]_vars, NEW s \in Subject, NEW c \in Case
  PROVE  EdgeKept(s, c) \/ EdgeMerged(s, c) \/ EdgeRecorded(s, c) \/ EdgePurged(s, c)
<1> USE DEF TypeInv, TypeOK, StoreTypeOK, graph, store
<1>1. CASE UNCHANGED edges
  BY <1>1 DEF EdgeKept
<1>2. ASSUME NEW t \in Subject, NEW d \in Case, NEW o \in {"cited", "confirmed"},
             edges' = MergeEdge(t, d, o)
      PROVE  EdgeKept(s, c) \/ EdgeMerged(s, c)
  BY <1>2 DEF MergeEdge, EdgeKept, EdgeMerged
<1>3. CASE WorkerStep
  <2>1. CASE EnsureDjenDefendantEdge
    <3>1. djen.name \in Subject /\ djen.case \in Case
      BY DEF WorkerTypeOK, RunState, Subject
    <3> QED
      BY <1>1, <1>2, <2>1, <3>1 DEF EnsureDjenDefendantEdge
  <2> QED
    BY <1>1, <1>3, <2>1
    DEF WorkerStep, WorkerNext, CaseMode, RematchMode, RunBegin, PollCase, PollCaseWith,
        HandleParty, UpsertParty, FileReview, SnapshotParty, CaseDone, RematchBegin, RematchSkip,
        RematchHit, RematchFile, RunEnd, RunStops
<1>4. ASSUME NEW o \in Op, ReviewStep(o)
      PROVE  EdgeKept(s, c) \/ EdgeMerged(s, c)
  <2>1. CASE ApproveEdge(o)
    <3>1. NormalName[op[o].name] \in Subject /\ op[o].case \in Case
      BY StoreAssumption DEF OfficeTypeOK, OpState, Subject
    <3> QED
      BY <1>1, <1>2, <2>1, <3>1 DEF ApproveEdge, EdgeKept
  <2> QED
    BY <1>4, <2>1 DEF ReviewStep, ApproveBegin, Reject, ApproveMark, EdgeKept
<1>5. ASSUME NEW o \in Op, OutcomeStep(o)
      PROVE  EdgeKept(s, c) \/ EdgeRecorded(s, c)
  <2>1. PICK t \in Subject, d \in Case, outcome \in Recordable, evidence \in BOOLEAN :
           SetDefendantOutcome(o, t, d, outcome, evidence)
    BY <1>5 DEF OutcomeStep
  <2>2. outcome \in HumanOutcome /\ (outcome = "convicted" => evidence)
    BY <2>1, InputAssumption DEF SetDefendantOutcome
  <2>3. edges'[s][c] = edges[s][c]
        \/ edges'[s][c] = [outcome |-> outcome, by |-> TRUE, evidence |-> evidence]
    BY <2>1 DEF SetDefendantOutcome
  <2> QED
    BY <2>2, <2>3 DEF EdgeKept, EdgeRecorded
<1>6. ASSUME NEW o \in Op, RemovalStep(o)
      PROVE  EdgeKept(s, c) \/ EdgePurged(s, c)
  <2>1. CASE PurgeDelete(o)
    <3>1. op[o].target \in Name
      BY <2>1 DEF PurgeDelete, PurgeTarget, PurgeStage
    <3> QED
      BY <2>1, <3>1 DEF PurgeDelete, DetachDelete, EdgeKept, EdgePurged
  <2> QED
    BY <1>6, <2>1
    DEF RemovalStep, CreateRemovalRequest, CloseRemoval, PurgeBegin, PurgeProvenance, PurgeAudit,
        PurgeTombstone, PurgeScrubSnapshot, PurgeScrubReviews, PurgeResolve, EdgeKept
<1>7. CASE (\E d \in Case, e \in Entry : Publish(d, e)) \/ (\E p \in Importable : ImportPolitician(p))
           \/ (\E o \in Op : OfficeFails(o)) \/ UNCHANGED vars
  BY <1>1, <1>7 DEF Publish, ImportPolitician, OfficeFails, HandlerFails, vars
<1> QED
  BY <1>3, <1>4, <1>5, <1>6, <1>7 DEF Next

\* Whatever the worker, approvals, purges and failures do around it, a defendant
\* shown as convicted was recorded so by a human, with evidence.
THEOREM ConvictionsStand == Spec => []ConvictionHasEvidence
<1>1. Init => ConvictionHasEvidence
  BY DEF Init, StoreInit, ConvictionHasEvidence, NoEdge
<1>2. TypeInv /\ ConvictionHasEvidence /\ [Next]_vars => ConvictionHasEvidence'
  <2> SUFFICES ASSUME TypeInv, ConvictionHasEvidence, [Next]_vars,
                      NEW s \in Subject, NEW c \in Case, edges'[s][c].outcome = "convicted"
               PROVE  edges'[s][c].by /\ edges'[s][c].evidence
    BY DEF ConvictionHasEvidence
  <2>1. edges[s][c] \in Edge
    BY DEF TypeInv, TypeOK, StoreTypeOK
  <2>2. CASE EdgeKept(s, c)
    BY <2>2 DEF EdgeKept, ConvictionHasEvidence
  <2>3. CASE EdgeMerged(s, c)
    BY <2>1, <2>3 DEF EdgeMerged, Edge
  <2>4. CASE EdgeRecorded(s, c)
    BY <2>4 DEF EdgeRecorded
  <2>5. CASE EdgePurged(s, c)
    BY <2>5 DEF EdgePurged, NoEdge
  <2> QED
    BY <2>2, <2>3, <2>4, <2>5, EdgeStep
<1> QED
  BY <1>1, <1>2, Typing, PTL DEF Spec

-------------------------------------------------------------------------------
(* Removal requests.                                                       *)

\* How far a purge has come: it still works on the subject of its request, whose
\* node is deleted before the audit record and tombstoned before the scrub.
PurgeProgress(o) ==
  /\ op[o].pc \in PurgeStage \cup {"provenance"} =>
       /\ requests[op[o].req].status # "none"
       /\ requests[op[o].req].target = op[o].target
  /\ op[o].pc \in PurgeStage \ {"delete"} => op[o].target \in purged
  /\ op[o].pc \in {"scrubSnapshot", "scrubReviews", "resolve"} => IsSubjectPurged(op[o].target)

RemovalInv == PurgedIsTombstoned /\ \A o \in Op : PurgeProgress(o)

\* Purged names and tombstones are never taken back.
LEMMA TombstonesGrow ==
  ASSUME [Next]_vars
  PROVE  purged \subseteq purged' /\ tombstones \subseteq tombstones'
<1> USE DEF history, postgres, store
<1>1. CASE WorkerStep
  BY <1>1
  DEF WorkerStep, WorkerNext, CaseMode, RematchMode, RunBegin, PollCase, PollCaseWith,
      HandleParty, UpsertParty, EnsureDjenDefendantEdge, FileReview, SnapshotParty, CaseDone,
      RematchBegin, RematchSkip, RematchHit, RematchFile, RunEnd, RunStops
<1>2. ASSUME NEW o \in Op, ReviewStep(o) \/ OutcomeStep(o) \/ OfficeFails(o)
      PROVE  UNCHANGED <<purged, tombstones>>
  BY <1>2
  DEF ReviewStep, ApproveBegin, ApproveEdge, ApproveMark, Reject, OutcomeStep,
      SetDefendantOutcome, OfficeFails, HandlerFails
<1>3. ASSUME NEW o \in Op, RemovalStep(o)
      PROVE  purged \subseteq purged' /\ tombstones \subseteq tombstones'
  BY <1>3
  DEF RemovalStep, CreateRemovalRequest, CloseRemoval, PurgeBegin, PurgeProvenance, PurgeDelete,
      PurgeAudit, PurgeTombstone, PurgeScrubSnapshot, PurgeScrubReviews, PurgeResolve
<1>4. CASE (\E d \in Case, e \in Entry : Publish(d, e)) \/ (\E p \in Importable : ImportPolitician(p))
           \/ UNCHANGED vars
  BY <1>4 DEF Publish, ImportPolitician, vars
<1> QED
  BY <1>1, <1>2, <1>3, <1>4 DEF Next

LEMMA RemovalInvStep == TypeInv /\ RemovalInv /\ [Next]_vars => RemovalInv'
<1> SUFFICES ASSUME TypeInv, RemovalInv, [Next]_vars PROVE RemovalInv'
  OBVIOUS
<1> USE DEF RemovalInv, PurgedIsTombstoned, IsSubjectPurged, TypeInv, TypeOK, StoreTypeOK,
            OfficeTypeOK
<1>0. purged \subseteq purged' /\ tombstones \subseteq tombstones'
  BY TombstonesGrow
<1>1. CASE UNCHANGED <<requests, op>>
  BY <1>0, <1>1 DEF PurgeProgress
<1>2. CASE WorkerStep
  BY <1>1, <1>2
  DEF WorkerStep, WorkerNext, CaseMode, RematchMode, RunBegin, PollCase, PollCaseWith,
      HandleParty, UpsertParty, EnsureDjenDefendantEdge, FileReview, SnapshotParty, CaseDone,
      RematchBegin, RematchSkip, RematchHit, RematchFile, RunEnd, RunStops, office, postgres, store
<1>3. ASSUME NEW o \in Op, UNCHANGED requests, \A x \in Op \ {o} : op'[x] = op[x],
             PurgeProgress(o)'
      PROVE  RemovalInv'
  <2>1. \A x \in Op \ {o} : PurgeProgress(x)'
    BY <1>0, <1>3 DEF PurgeProgress
  <2> QED
    BY <1>0, <1>3, <2>1
<1>4. ASSUME NEW o \in Op, Finish(o), UNCHANGED requests PROVE RemovalInv'
  BY <1>3, <1>4 DEF Finish, NoOp, PurgeProgress, PurgeStage
<1>5. ASSUME NEW o \in Op, ReviewStep(o) PROVE RemovalInv'
  <2>1. CASE \E r \in ReviewId : ApproveBegin(o, r)
    <3>1. op'[o].pc = "edge" /\ (\A x \in Op \ {o} : op'[x] = op[x]) /\ UNCHANGED requests
      BY <2>1 DEF ApproveBegin, NoOp, store
    <3> QED
      BY <1>3, <3>1 DEF PurgeProgress, PurgeStage
  <2>2. CASE ApproveEdge(o) /\ Advance(o, "mark")
    <3>1. op'[o].pc = "mark" /\ (\A x \in Op \ {o} : op'[x] = op[x]) /\ UNCHANGED requests
      BY <2>2 DEF ApproveEdge, Advance, OpState, postgres
    <3> QED
      BY <1>3, <3>1 DEF PurgeProgress, PurgeStage
  <2>3. CASE ApproveEdge(o) /\ Finish(o)
    BY <1>4, <2>3 DEF ApproveEdge, postgres
  <2>4. CASE ApproveMark(o)
    BY <1>4, <2>4 DEF ApproveMark
  <2>5. CASE \E r \in ReviewId : Reject(o, r)
    BY <1>1, <2>5 DEF Reject, office
  <2> QED
    BY <1>5, <2>1, <2>2, <2>3, <2>4, <2>5 DEF ReviewStep, ApproveEdge
<1>6. ASSUME NEW o \in Op, OutcomeStep(o) \/ OfficeFails(o) PROVE RemovalInv'
  BY <1>1, <1>4, <1>6
  DEF OutcomeStep, SetDefendantOutcome, OfficeFails, HandlerFails, office, postgres, store
<1>7. ASSUME NEW o \in Op, RemovalStep(o) PROVE RemovalInv'
  <2>1. CASE \E q \in ReqId, t \in Removable : CreateRemovalRequest(o, q, t)
    <3>1. PICK q \in ReqId, t \in Removable : CreateRemovalRequest(o, q, t)
      BY <2>1
    <3>2. requests'[q].status = "pending" /\ (\A x \in ReqId \ {q} : requests'[x] = requests[x])
          /\ requests[q].status = "none" /\ UNCHANGED op
      BY <3>1 DEF CreateRemovalRequest, office
    <3>3. \A x \in Op : PurgeProgress(x)'
      BY <1>0, <3>2 DEF PurgeProgress, OpState
    <3> QED
      BY <1>0, <3>2, <3>3
  <2>2. CASE \E q \in ReqId, s \in {"manual", "rejected"} : CloseRemoval(o, q, s)
    <3>1. PICK q \in ReqId, s \in {"manual", "rejected"} : CloseRemoval(o, q, s)
      BY <2>2
    <3>2. /\ requests'[q].status = s /\ requests'[q].target = requests[q].target
          /\ \A x \in ReqId \ {q} : requests'[x] = requests[x]
          /\ UNCHANGED op
      BY <3>1 DEF CloseRemoval, ResolveRemovalRequest, office, Request
    <3>3. \A x \in Op : PurgeProgress(x)'
      BY <1>0, <3>2 DEF PurgeProgress, OpState
    <3> QED
      BY <1>0, <3>2, <3>3
  <2>3. CASE \E q \in ReqId : PurgeBegin(o, q)
    <3>1. PICK q \in ReqId : PurgeBegin(o, q)
      BY <2>3
    <3>2. /\ op'[o].pc = "provenance" /\ op'[o].req = q /\ op'[o].target = requests[q].target
          /\ \A x \in Op \ {o} : op'[x] = op[x]
          /\ requests[q].status = "pending" /\ UNCHANGED requests
      BY <3>1 DEF PurgeBegin, NoOp, store
    <3> QED
      BY <1>3, <3>2 DEF PurgeProgress, PurgeStage
  <2>4. ASSUME NEW l \in PurgeStage, Advance(o, l)
        PROVE  /\ op'[o].pc = l /\ op'[o].req = op[o].req /\ op'[o].target = op[o].target
               /\ \A x \in Op \ {o} : op'[x] = op[x]
    BY <2>4 DEF Advance, OpState
  <2>5. CASE PurgeProvenance(o) /\ Advance(o, "delete")
    BY <1>3, <2>4, <2>5 DEF PurgeProvenance, PurgeProgress, PurgeStage, store
  <2>6. CASE PurgeProvenance(o) /\ Finish(o)
    BY <1>4, <2>6 DEF PurgeProvenance, store
  <2>7. CASE PurgeDelete(o)
    BY <1>3, <2>4, <2>7 DEF PurgeDelete, PurgeProgress, PurgeStage, postgres
  <2>8. CASE PurgeAudit(o)
    BY <1>0, <1>3, <2>4, <2>8 DEF PurgeAudit, PurgeProgress, PurgeStage
  <2>9. CASE PurgeTombstone(o, InHand)
    BY <1>3, <2>4, <2>9 DEF PurgeTombstone, PurgeProgress, PurgeStage
  <2>10. CASE PurgeScrubSnapshot(o)
    BY <1>0, <1>3, <2>4, <2>10 DEF PurgeScrubSnapshot, PurgeProgress, PurgeStage
  <2>11. CASE PurgeScrubReviews(o)
    BY <1>0, <1>3, <2>4, <2>11 DEF PurgeScrubReviews, PurgeProgress, PurgeStage
  <2>12. CASE PurgeResolve(o)
    <3> DEFINE q == op[o].req
    <3>1. q \in ReqId /\ requests[q].target \in purged /\ IsSubjectPurged(requests[q].target)
      BY <2>12 DEF PurgeResolve, PurgeProgress, PurgeStage, OpState
    <3>2. /\ requests'[q].target = requests[q].target
          /\ requests'[q].status = "none" => requests[q].status = "none"
          /\ \A x \in ReqId \ {q} : requests'[x] = requests[x]
      BY <2>12, <3>1 DEF PurgeResolve, ResolveRemovalRequest, Request
    <3>3. \A x \in Op : PurgeProgress(x)'
      BY <1>0, <2>12, <3>2 DEF PurgeResolve, PurgeProgress, Finish, NoOp, PurgeStage, OpState
    <3> QED
      BY <1>0, <3>1, <3>2, <3>3
  <2> QED
    BY <1>7, <2>1, <2>2, <2>3, <2>5, <2>6, <2>7, <2>8, <2>9, <2>10, <2>11, <2>12
    DEF RemovalStep, PurgeProvenance
<1>8. CASE (\E d \in Case, e \in Entry : Publish(d, e)) \/ (\E p \in Importable : ImportPolitician(p))
           \/ UNCHANGED vars
  BY <1>1, <1>8 DEF Publish, ImportPolitician, vars, office, postgres, store
<1> QED
  BY <1>2, <1>5, <1>6, <1>7, <1>8 DEF Next

LEMMA Removals == Spec => []RemovalInv
<1>1. Init => RemovalInv
  BY DEF Init, StoreInit, RemovalInv, PurgedIsTombstoned, PurgeProgress, PurgeStage, NoOp, NoRequest
<1> QED
  BY <1>1, Typing, RemovalInvStep, PTL DEF Spec

\* A request closed as purged has its subject's node deleted and its key
\* tombstoned for good, whatever the other operators do meanwhile.
THEOREM PurgesTombstone == Spec => []PurgedIsTombstoned
<1>1. RemovalInv => PurgedIsTombstoned
  BY DEF RemovalInv
<1> QED
  BY <1>1, Removals, PTL

-------------------------------------------------------------------------------
(* The review queue.                                                       *)

\* An edge goes only with the node of a purged name.
LEMMA EdgesStay ==
  ASSUME TypeInv, [Next]_vars, NEW s \in Subject, NEW c \in Case, HasEdge(s, c)
  PROVE  HasEdge(s, c)' \/ (s \in Name /\ s \in purged')
<1>1. edges[s][c] \in Edge
  BY DEF TypeInv, TypeOK, StoreTypeOK
<1>2. CASE EdgeKept(s, c)
  BY <1>2 DEF EdgeKept, HasEdge
<1>3. CASE EdgeMerged(s, c)
  BY <1>1, <1>3 DEF EdgeMerged, HasEdge, Edge
<1>4. CASE EdgeRecorded(s, c)
  BY <1>4 DEF EdgeRecorded, HasEdge, HumanOutcome
<1>5. CASE EdgePurged(s, c)
  BY <1>5 DEF EdgePurged
<1> QED
  BY <1>2, <1>3, <1>4, <1>5, EdgeStep

\* What one step can do to one row of pending_review.
RowKept(r)     == reviews'[r] = reviews[r]
RowFiled(r)    == ~reviews[r].used /\ reviews'[r].used /\ reviews'[r].status = "pending"
RowRejected(r) == Filed(r) /\ reviews'[r] = [reviews[r] EXCEPT !.status = "rejected"]
RowApproved(r) == /\ \E o \in Op : op[o].pc = "mark" /\ op[o].review = r
                  /\ Filed(r) /\ reviews'[r] = [reviews[r] EXCEPT !.status = "approved"]
RowScrubbed(r) == /\ reviews'[r].kind = "none" /\ reviews'[r].used
                  /\ \E m \in purged : reviews[r].name \in Mentions[m]

LEMMA RowStep ==
  ASSUME TypeInv, RemovalInv, [Next]_vars, NEW r \in ReviewId
  PROVE  RowKept(r) \/ RowFiled(r) \/ RowRejected(r) \/ RowApproved(r) \/ RowScrubbed(r)
<1> USE DEF TypeInv, TypeOK, StoreTypeOK, postgres, store
<1>1. CASE UNCHANGED reviews
  BY <1>1 DEF RowKept
<1>2. ASSUME NEW kind, NEW n, NEW c, CreatePendingReview(kind, n, c)
      PROVE  RowKept(r) \/ RowFiled(r)
  BY <1>2 DEF CreatePendingReview, RowKept, RowFiled
<1>3. CASE WorkerStep
  <2>1. CASE FileReview
    BY <1>2, <2>1 DEF FileReview
  <2>2. CASE RematchFile
    BY <1>2, <2>2 DEF RematchFile
  <2> QED
    BY <1>1, <1>3, <2>1, <2>2
    DEF WorkerStep, WorkerNext, CaseMode, RematchMode, RunBegin, PollCase, PollCaseWith,
        HandleParty, UpsertParty, EnsureDjenDefendantEdge, SnapshotParty, CaseDone,
        RematchBegin, RematchSkip, RematchHit, RunEnd, RunStops
<1>4. ASSUME NEW o \in Op, ReviewStep(o)
      PROVE  RowKept(r) \/ RowRejected(r) \/ RowApproved(r)
  <2>1. CASE \E x \in ReviewId : Reject(o, x)
    BY <2>1 DEF Reject, UpdatePendingReviewStatus, RowKept, RowRejected
  <2>2. CASE ApproveMark(o)
    BY <2>2 DEF ApproveMark, UpdatePendingReviewStatus, RowKept, RowApproved
  <2> QED
    BY <1>4, <2>1, <2>2 DEF ReviewStep, ApproveBegin, ApproveEdge, RowKept
<1>5. ASSUME NEW o \in Op, RemovalStep(o)
      PROVE  RowKept(r) \/ RowScrubbed(r)
  <2>1. CASE PurgeScrubReviews(o)
    <3>1. op[o].target \in purged
      BY <2>1 DEF RemovalInv, PurgeProgress, PurgeStage, PurgeScrubReviews
    <3> QED
      BY <2>1, <3>1 DEF PurgeScrubReviews, FreshRow, RowKept, RowScrubbed
  <2> QED
    BY <1>5, <2>1
    DEF RemovalStep, CreateRemovalRequest, CloseRemoval, PurgeBegin, PurgeProvenance, PurgeDelete,
        PurgeAudit, PurgeTombstone, PurgeScrubSnapshot, PurgeResolve, RowKept
<1>6. CASE (\E d \in Case, e \in Entry : Publish(d, e)) \/ (\E p \in Importable : ImportPolitician(p))
           \/ (\E o \in Op : OutcomeStep(o) \/ OfficeFails(o)) \/ UNCHANGED vars
  BY <1>1, <1>6
  DEF Publish, ImportPolitician, OutcomeStep, SetDefendantOutcome, OfficeFails, HandlerFails, vars
<1> QED
  BY <1>3, <1>4, <1>5, <1>6 DEF Next

\* An approval in flight: its row, if a purge has not deleted it, is the one
\* that was read, and by the time it is marked the edge is there.
Approving(o) ==
  /\ op[o].pc \in {"edge", "mark"} =>
       /\ reviews[op[o].review].used
       /\ Filed(op[o].review) => /\ reviews[op[o].review].name = op[o].name
                                 /\ reviews[op[o].review].case = op[o].case
  /\ op[o].pc = "mark" => HasEdge(NormalName[op[o].name], op[o].case)

ApprovalInv ==
  /\ ApprovedHasEdge
  /\ \A r \in ReviewId : Filed(r) => reviews[r].used
  /\ \A o \in Op : Approving(o)

LEMMA ApprovalInvStep == TypeInv /\ RemovalInv /\ ApprovalInv /\ [Next]_vars => ApprovalInv'
<1> SUFFICES ASSUME TypeInv, RemovalInv, ApprovalInv, [Next]_vars PROVE ApprovalInv'
  OBVIOUS
<1> USE DEF ApprovalInv, TypeInv, TypeOK, StoreTypeOK, OfficeTypeOK
<1>1. ASSUME NEW n \in Name, NEW c \in Case, HasEdge(NormalName[n], c)
      PROVE  edges'[NormalName[n]][c].outcome # "none"
  BY <1>1, EdgesStay, StoreAssumption DEF Subject, HasEdge
<1>2. ASSUME NEW r \in ReviewId
      PROVE  /\ Filed(r)' => reviews'[r].used
             /\ reviews[r].used => reviews'[r].used
             /\ reviews[r].used /\ Filed(r)' =>
                  /\ Filed(r) /\ reviews'[r].name = reviews[r].name
                  /\ reviews'[r].case = reviews[r].case
             /\ reviews'[r].kind = "party_match" /\ reviews'[r].status = "approved"
                  => edges'[NormalName[reviews'[r].name]][reviews'[r].case].outcome # "none"
  <2>1. CASE RowKept(r)
    <3>1. reviews[r].name \in Name /\ reviews[r].case \in Case
      BY DEF Review
    <3> QED
      BY <1>1, <2>1, <3>1 DEF RowKept, Filed, ApprovedHasEdge
  <2>2. CASE RowFiled(r)
    BY <2>2 DEF RowFiled, Filed
  <2>3. CASE RowRejected(r)
    BY <2>3 DEF RowRejected, Filed, Review
  <2>4. CASE RowApproved(r)
    <3>1. PICK o \in Op : op[o].pc = "mark" /\ op[o].review = r
      BY <2>4 DEF RowApproved
    <3>2. HasEdge(NormalName[reviews[r].name], reviews[r].case)
      BY <2>4, <3>1 DEF RowApproved, Approving
    <3> QED
      BY <1>1, <2>4, <3>2 DEF RowApproved, Filed, Review
  <2>5. CASE RowScrubbed(r)
    BY <2>5 DEF RowScrubbed, Filed
  <2> QED
    BY <2>1, <2>2, <2>3, <2>4, <2>5, RowStep
<1>3. ApprovedHasEdge' /\ \A r \in ReviewId : Filed(r)' => reviews'[r].used
  BY <1>2 DEF ApprovedHasEdge, HasEdge
<1>4. ASSUME NEW o \in Op, op'[o] = op[o] PROVE Approving(o)'
  <2>1. op[o].review \in ReviewId /\ op[o].name \in Name /\ op[o].case \in Case
    BY DEF OpState
  <2> QED
    BY <1>1, <1>2, <1>4, <2>1 DEF Approving, HasEdge
<1>5. ASSUME NEW o \in Op, op'[o].pc \notin {"edge", "mark"} PROVE Approving(o)'
  BY <1>5 DEF Approving
<1>6. CASE UNCHANGED op
  BY <1>3, <1>4, <1>6
<1>7. CASE WorkerStep
  BY <1>6, <1>7 DEF WorkerStep, office
<1>8. ASSUME NEW o \in Op, \A x \in Op \ {o} : op'[x] = op[x], Approving(o)'
      PROVE  ApprovalInv'
  BY <1>3, <1>4, <1>8
<1>9. ASSUME NEW o \in Op, Finish(o) PROVE ApprovalInv'
  BY <1>5, <1>8, <1>9 DEF Finish, NoOp
<1>10. ASSUME NEW o \in Op, ReviewStep(o) PROVE ApprovalInv'
  <2>1. CASE \E r \in ReviewId : ApproveBegin(o, r)
    <3>1. PICK r \in ReviewId : ApproveBegin(o, r)
      BY <2>1
    <3>2. /\ op'[o].pc = "edge" /\ op'[o].review = r /\ op'[o].name = reviews[r].name
          /\ op'[o].case = reviews[r].case /\ UNCHANGED reviews
          /\ \A x \in Op \ {o} : op'[x] = op[x]
      BY <3>1 DEF ApproveBegin, NoOp, store
    <3>3. reviews[r].used
      BY <3>1 DEF ApproveBegin, Filed
    <3> QED
      BY <1>8, <3>2, <3>3 DEF Approving, Filed
  <2>2. CASE ApproveEdge(o) /\ NormalName[op[o].name] \in politicians
    <3>1. /\ op'[o].pc = "mark" /\ op'[o].review = op[o].review /\ op'[o].name = op[o].name
          /\ op'[o].case = op[o].case /\ UNCHANGED reviews
          /\ \A x \in Op \ {o} : op'[x] = op[x]
      BY <2>2 DEF ApproveEdge, Advance, OpState, postgres
    <3>2. op[o].name \in Name /\ op[o].case \in Case
      BY DEF OpState
    <3>3. NormalName[op[o].name] \in Subject
      BY <3>2, StoreAssumption DEF Subject
    <3>4. edges'[NormalName[op[o].name]][op[o].case].outcome = "confirmed"
      BY <2>2, <3>2, <3>3 DEF ApproveEdge, MergeEdge, Edge
    <3> QED
      BY <1>8, <2>2, <3>1, <3>4 DEF Approving, Filed, HasEdge, ApproveEdge
  <2>3. CASE ApproveEdge(o) /\ NormalName[op[o].name] \notin politicians
    BY <1>9, <2>3 DEF ApproveEdge
  <2>4. CASE ApproveMark(o)
    BY <1>9, <2>4 DEF ApproveMark
  <2>5. CASE \E r \in ReviewId : Reject(o, r)
    BY <1>6, <2>5 DEF Reject, office
  <2> QED
    BY <1>10, <2>1, <2>2, <2>3, <2>4, <2>5 DEF ReviewStep
<1>11. ASSUME NEW o \in Op, RemovalStep(o) PROVE ApprovalInv'
  <2>1. ASSUME NEW l \in PurgeStage, Advance(o, l) PROVE ApprovalInv'
    <3>1. op'[o].pc = l /\ \A x \in Op \ {o} : op'[x] = op[x]
      BY <2>1 DEF Advance, OpState
    <3> QED
      BY <1>5, <1>8, <3>1 DEF PurgeStage
  <2>2. CASE \E q \in ReqId : PurgeBegin(o, q)
    <3>1. op'[o].pc = "provenance" /\ \A x \in Op \ {o} : op'[x] = op[x]
      BY <2>2 DEF PurgeBegin, NoOp
    <3> QED
      BY <1>5, <1>8, <3>1
  <2> QED
    BY <1>6, <1>9, <1>11, <2>1, <2>2
    DEF RemovalStep, CreateRemovalRequest, CloseRemoval, PurgeProvenance, PurgeDelete, PurgeAudit,
        PurgeTombstone, PurgeScrubSnapshot, PurgeScrubReviews, PurgeResolve, PurgeStage, office
<1>12. CASE (\E d \in Case, e \in Entry : Publish(d, e)) \/ (\E p \in Importable : ImportPolitician(p))
           \/ (\E o \in Op : OutcomeStep(o) \/ OfficeFails(o)) \/ UNCHANGED vars
  BY <1>6, <1>9, <1>12
  DEF Publish, ImportPolitician, OutcomeStep, SetDefendantOutcome, OfficeFails, HandlerFails, vars,
      office
<1> QED
  BY <1>7, <1>10, <1>11, <1>12 DEF Next

LEMMA Approvals == Spec => []ApprovalInv
<1>1. Init => ApprovalInv
  BY DEF Init, StoreInit, ApprovalInv, ApprovedHasEdge, Approving, Filed, FreshRow, NoOp
<1> QED
  BY <1>1, Typing, Removals, ApprovalInvStep, PTL DEF Spec

\* An approved party match has its edge, however approvals, rejections, purges,
\* worker runs and failures interleave.
THEOREM ApprovalsStand == Spec => []ApprovedHasEdge
<1>1. ApprovalInv => ApprovedHasEdge
  BY DEF ApprovalInv
<1> QED
  BY <1>1, Approvals, PTL

-------------------------------------------------------------------------------
(* Case intake.                                                            *)

\* What became of a defendant: NoDefendantLost says a review of some name with
\* the same folding, which is too weak to survive a scrub; the review is of the
\* very name.
OwnReview(n, c) ==
  \E r \in ReviewId : /\ reviews[r].kind = "party_match"
                      /\ reviews[r].name = n
                      /\ reviews[r].case = c

Settled(n, c) ==
  \/ HasEdge(n, c)
  \/ n \notin Company /\ (OwnReview(n, c) \/ Scrubbed(n))
  \/ n \in purged
  \/ IsSubjectPurged(n)

\* The invariant follows the party the worker has in hand up to its snapshot.
InHandInv ==
  LET n == djen.name IN
  /\ djen.pc \in {"upsert", "edge", "file", "snap"} => n = PartyName[djen.entry]
  /\ djen.pc = "edge" => n \in nodes \/ n \in purged
  /\ djen.pc = "file" /\ n \in Company => HasEdge(n, djen.case) \/ n \in purged
  /\ djen.pc = "snap" /\ djen.entry \in Passive => Settled(n, djen.case)

SnapshotSettled ==
  \A c \in Case : \A e \in snapshot[c] \cap Passive : Settled(PartyName[e], c)

IntakeInv == SnapshotSettled /\ InHandInv

\* Nothing unsettles a defendant.
LEMMA SettledStays ==
  ASSUME TypeInv, RemovalInv, ApprovalInv, [Next]_vars,
         NEW n \in Name, NEW c \in Case, Settled(n, c)
  PROVE  Settled(n, c)'
<1>0. purged \subseteq purged' /\ tombstones \subseteq tombstones'
  BY TombstonesGrow
<1>1. CASE HasEdge(n, c)
  BY <1>1, EdgesStay DEF Settled, Subject
<1>2. CASE n \notin Company /\ OwnReview(n, c)
  <2>1. PICK r \in ReviewId : /\ reviews[r].kind = "party_match"
                              /\ reviews[r].name = n /\ reviews[r].case = c
    BY <1>2 DEF OwnReview
  <2>2. reviews[r] \in Review /\ Filed(r) /\ reviews[r].used
    BY <2>1 DEF TypeInv, TypeOK, StoreTypeOK, ApprovalInv, Filed
  <2>3. CASE RowKept(r)
    BY <1>2, <2>1, <2>3 DEF RowKept, Settled, OwnReview
  <2>4. CASE RowFiled(r)
    BY <2>2, <2>4 DEF RowFiled
  <2>5. CASE RowRejected(r) \/ RowApproved(r)
    <3>1. reviews'[r].kind = "party_match" /\ reviews'[r].name = n /\ reviews'[r].case = c
      BY <2>1, <2>2, <2>5 DEF RowRejected, RowApproved, Review
    <3> QED
      BY <1>2, <3>1 DEF Settled, OwnReview
  <2>6. CASE RowScrubbed(r)
    BY <1>0, <1>2, <2>1, <2>6 DEF RowScrubbed, Settled, Scrubbed
  <2> QED
    BY <2>3, <2>4, <2>5, <2>6, RowStep
<1>3. CASE n \notin Company /\ Scrubbed(n)
  BY <1>0, <1>3 DEF Settled, Scrubbed
<1>4. CASE n \in purged \/ IsSubjectPurged(n)
  BY <1>0, <1>4 DEF Settled, IsSubjectPurged
<1> QED
  BY <1>1, <1>2, <1>3, <1>4 DEF Settled

LEMMA IntakeInvStep ==
  TypeInv /\ RemovalInv /\ ApprovalInv /\ IntakeInv /\ [Next]_vars => IntakeInv'
<1> SUFFICES ASSUME TypeInv, RemovalInv, ApprovalInv, IntakeInv, [Next]_vars PROVE IntakeInv'
  OBVIOUS
<1> USE DEF TypeInv, TypeOK, StoreTypeOK, WorkerTypeOK, IntakeInv
<1>0. purged \subseteq purged' /\ tombstones \subseteq tombstones'
  BY TombstonesGrow
<1>t. /\ djen.name \in Name /\ djen.case \in Case /\ djen.entry \in Entry
      /\ \A e \in Entry : PartyName[e] \in Name
  BY StoreAssumption DEF RunState
<1>1. ASSUME NEW n \in Name, NEW c \in Case, Settled(n, c) PROVE Settled(n, c)'
  BY <1>1, SettledStays
<1>2. ASSUME \A c \in Case : snapshot'[c] \subseteq snapshot[c] PROVE SnapshotSettled'
  BY <1>1, <1>2, <1>t DEF SnapshotSettled
<1>3. ASSUME UNCHANGED djen, nodes' = nodes \/ \E n \in purged' : nodes' = nodes \ {n}
      PROVE  InHandInv'
  <2>1. djen.pc = "edge" => djen.name \in nodes' \/ djen.name \in purged'
    BY <1>0, <1>3 DEF InHandInv
  <2>2. djen.pc = "file" /\ djen.name \in Company
          => HasEdge(djen.name, djen.case)' \/ djen.name \in purged'
    <3> SUFFICES ASSUME djen.pc = "file", djen.name \in Company
                 PROVE  HasEdge(djen.name, djen.case)' \/ djen.name \in purged'
      OBVIOUS
    <3>1. CASE djen.name \in purged
      BY <1>0, <3>1
    <3>2. CASE HasEdge(djen.name, djen.case)
      <4> DEFINE n == djen.name  c == djen.case
      <4>1. edges'[n][c].outcome # "none" \/ n \in purged'
        BY <1>t, <3>2, EdgesStay DEF HasEdge, Subject
      <4> QED
        BY <1>3, <4>1 DEF HasEdge
    <3> QED
      BY <3>1, <3>2 DEF InHandInv
  <2>3. djen.pc = "snap" /\ djen.entry \in Passive => Settled(djen.name, djen.case)'
    <3> SUFFICES ASSUME djen.pc = "snap", djen.entry \in Passive
                 PROVE  Settled(djen.name, djen.case)'
      OBVIOUS
    <3>1. ASSUME NEW n \in Name, NEW c \in Case, n = djen.name, c = djen.case
          PROVE  Settled(djen.name, djen.case)'
      <4>1. Settled(n, c)
        BY <3>1 DEF InHandInv
      <4>2. Settled(n, c)'
        BY <1>1, <4>1
      <4> QED
        BY <1>3, <3>1, <4>2 DEF Settled, HasEdge, OwnReview, Scrubbed, IsSubjectPurged
    <3> QED
      BY <1>t, <3>1
  <2> QED
    BY <1>3, <2>1, <2>2, <2>3 DEF InHandInv
<1>4. CASE WorkerStep
  <2> USE DEF WorkerStep
  <2>1. CASE RunBegin \/ RunEnd \/ RunStops
    <3>0. NoRun.pc = "idle" /\ [NoRun EXCEPT !.pc = "cases", !.index = politicians].pc = "cases"
      BY DEF NoRun
    <3>1. djen'.pc \in {"idle", "cases"} /\ UNCHANGED store
      BY <2>1, <3>0 DEF RunBegin, RunEnd, RunStops
    <3> QED
      BY <1>2, <3>1 DEF InHandInv, store
  <2>2. CASE (\E c \in Case : PollCase(c)) \/ CaseDone \/ RematchBegin
             \/ (\E p \in Name \X Case : RematchSkip(p) \/ RematchHit(p)) \/ RematchFile
    <3>1. djen'.pc \in {"party", "cases", "rematch", "rematchFile"} /\ UNCHANGED snapshot
      BY <2>2 DEF PollCase, PollCaseWith, CaseDone, RematchBegin, RematchSkip, RematchHit,
                  RematchFile, RunState, store
    <3> QED
      BY <1>2, <3>1 DEF InHandInv
  <2>3. CASE \E e \in Entry : HandleParty(e)
    <3>1. PICK e \in Entry : HandleParty(e)
      BY <2>3
    <3>2. djen'.name = PartyName[e] /\ djen'.entry = e /\ djen'.pc = Classify(e)
          /\ djen'.case = djen.case /\ UNCHANGED store
      BY <3>1 DEF HandleParty, RunState
    <3>3. CASE Classify(e) = "upsert"
      BY <1>2, <3>2, <3>3 DEF InHandInv, store
    <3>4. CASE Classify(e) = "file"
      <4>1. PartyName[e] \notin Company
        BY <3>4 DEF Classify
      <4> QED
        BY <1>2, <3>2, <3>4, <4>1 DEF InHandInv, store
    <3>5. CASE Classify(e) = "snap"
      <4>1. e \in Passive => IsSubjectPurged(PartyName[e])
        BY <3>5 DEF Classify
      <4> QED
        BY <1>2, <3>2, <3>5, <4>1 DEF InHandInv, Settled, IsSubjectPurged, store
    <3> QED
      BY <3>3, <3>4, <3>5 DEF Classify
  <2>4. CASE UpsertParty
    <3>1. /\ djen'.pc = "edge" /\ djen'.name = djen.name /\ djen'.entry = djen.entry
          /\ djen.name \in nodes' /\ UNCHANGED snapshot
      BY <2>4 DEF UpsertParty, Goto, RunState, postgres
    <3> QED
      BY <1>2, <2>4, <3>1 DEF InHandInv, UpsertParty
  <2>5. CASE EnsureDjenDefendantEdge
    <3> DEFINE n == djen.name  c == djen.case
    <3>1. /\ djen'.pc = (IF n \in Company THEN "file" ELSE "snap")
          /\ djen'.name = n /\ djen'.entry = djen.entry /\ djen'.case = c
          /\ UNCHANGED <<snapshot, purged>>
      BY <2>5 DEF EnsureDjenDefendantEdge, Goto, RunState, postgres, history
    <3>2. n \in nodes => edges'[n][c].outcome = "cited"
      BY <1>t, <2>5 DEF EnsureDjenDefendantEdge, MergeEdge, Subject, Edge
    <3>3. edges'[n][c].outcome # "none" \/ n \in purged
      BY <2>5, <3>2 DEF EnsureDjenDefendantEdge, InHandInv
    <3>4. n = PartyName[djen.entry]
      BY <2>5 DEF EnsureDjenDefendantEdge, InHandInv
    <3> QED
      BY <1>2, <3>1, <3>3, <3>4 DEF InHandInv, Settled, HasEdge
  <2>6. CASE FileReview
    <3> DEFINE n == djen.name  c == djen.case
    <3>1. /\ djen'.pc = "snap" /\ djen'.name = n /\ djen'.entry = djen.entry /\ djen'.case = c
          /\ UNCHANGED <<snapshot, purged, edges>> /\ n = PartyName[djen.entry]
      BY <2>6 DEF FileReview, Goto, RunState, history, graph, InHandInv
    <3>2. CASE n \in Company
      <4>1. edges'[n][c].outcome # "none" \/ n \in purged'
        BY <2>6, <3>1, <3>2 DEF FileReview, InHandInv, HasEdge
      <4> QED
        BY <1>2, <3>1, <4>1 DEF InHandInv, Settled, HasEdge
    <3>3. CASE n \notin Company
      <4>1. \E r \in ReviewId : /\ reviews'[r].kind = "party_match"
                                /\ reviews'[r].name = n /\ reviews'[r].case = c
        BY <2>6, <3>3 DEF FileReview, CreatePendingReview
      <4> QED
        BY <1>2, <3>1, <3>3, <4>1 DEF InHandInv, Settled, OwnReview
    <3> QED
      BY <3>2, <3>3
  <2>7. CASE SnapshotParty
    <3>1. djen'.pc = "party" /\ djen.pc = "snap"
      BY <2>7 DEF SnapshotParty, RunState
    <3>2. \A c \in Case : \A e \in snapshot'[c] :
             e \in snapshot[c] \/ (c = djen.case /\ e = djen.entry)
      BY <1>t, <2>7 DEF SnapshotParty, InsertDjenSnapshotParty
    <3>3. djen.entry \in Passive => Settled(PartyName[djen.entry], djen.case)
      BY <3>1 DEF InHandInv
    <3>4. ASSUME NEW c \in Case, NEW e \in snapshot'[c] \cap Passive
          PROVE  Settled(PartyName[e], c)'
      <4>1. e \in Entry
        BY StoreAssumption
      <4>2. Settled(PartyName[e], c)
        BY <3>2, <3>3 DEF SnapshotSettled
      <4> QED
        BY <1>1, <1>t, <4>1, <4>2
    <3> QED
      BY <3>1, <3>4 DEF SnapshotSettled, InHandInv
  <2> QED
    BY <1>4, <2>1, <2>2, <2>3, <2>4, <2>5, <2>6, <2>7 DEF WorkerNext, CaseMode, RematchMode
<1>5. ASSUME NEW o \in Op, ReviewStep(o) \/ OutcomeStep(o) \/ OfficeFails(o) PROVE IntakeInv'
  <2>1. UNCHANGED <<djen, nodes, snapshot>>
    BY <1>5
    DEF ReviewStep, ApproveBegin, ApproveEdge, ApproveMark, Reject, OutcomeStep,
        SetDefendantOutcome, OfficeFails, HandlerFails, worker, store, graph, postgres
  <2> QED
    BY <1>2, <1>3, <2>1
<1>6. ASSUME NEW o \in Op, RemovalStep(o) PROVE IntakeInv'
  <2>0. UNCHANGED djen
    BY <1>6 DEF RemovalStep, worker
  <2>1. CASE PurgeDelete(o)
    <3>1. nodes' = nodes \ {op[o].target} /\ op[o].target \in purged' /\ UNCHANGED snapshot
      BY <2>1 DEF PurgeDelete, DetachDelete, postgres
    <3> QED
      BY <1>2, <1>3, <2>0, <3>1
  <2>2. CASE PurgeScrubSnapshot(o)
    <3>1. UNCHANGED nodes /\ \A c \in Case : snapshot'[c] \subseteq snapshot[c]
      BY <2>2 DEF PurgeScrubSnapshot, graph
    <3> QED
      BY <1>2, <1>3, <2>0, <3>1
  <2>3. CASE UNCHANGED <<nodes, snapshot>>
    BY <1>2, <1>3, <2>0, <2>3
  <2> QED
    BY <1>6, <2>1, <2>2, <2>3
    DEF RemovalStep, CreateRemovalRequest, CloseRemoval, PurgeBegin, PurgeProvenance, PurgeAudit,
        PurgeTombstone, PurgeScrubReviews, PurgeResolve, store, graph
<1>7. CASE (\E d \in Case, e \in Entry : Publish(d, e)) \/ (\E p \in Importable : ImportPolitician(p))
           \/ UNCHANGED vars
  <2>1. UNCHANGED <<djen, nodes, snapshot>>
    BY <1>7 DEF Publish, ImportPolitician, vars, worker, store, graph, postgres
  <2> QED
    BY <1>2, <1>3, <2>1
<1> QED
  BY <1>4, <1>5, <1>6, <1>7 DEF Next

\* A run that stops anywhere, and any purge or review decision around it, loses
\* no defendant: who is in the snapshot is settled.
THEOREM NoneLost == Spec => []NoDefendantLost
<1>2. Init => IntakeInv
  BY DEF Init, StoreInit, IntakeInv, SnapshotSettled, InHandInv, NoRun
<1>3. TypeInv /\ IntakeInv => NoDefendantLost
  <2> SUFFICES ASSUME TypeInv, IntakeInv, NEW c \in Case, NEW e \in snapshot[c] \cap Passive
               PROVE  \/ HasEdge(PartyName[e], c)
                      \/ /\ PartyName[e] \notin Company
                         /\ \/ HasPartyMatchReview(NormalName[PartyName[e]], c)
                            \/ Scrubbed(PartyName[e])
                      \/ PartyName[e] \in purged
                      \/ IsSubjectPurged(PartyName[e])
    BY DEF NoDefendantLost
  <2>1. Settled(PartyName[e], c)
    BY DEF IntakeInv, SnapshotSettled
  <2> QED
    BY <2>1 DEF Settled, OwnReview, HasPartyMatchReview
<1> QED
  BY <1>2, <1>3, Typing, Removals, Approvals, IntakeInvStep, PTL DEF Spec
===============================================================================
