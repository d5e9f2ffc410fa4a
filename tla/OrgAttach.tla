------------------------------- MODULE OrgAttach -------------------------------
(***************************************************************************)
(* What operators do to companies: approving an unknown_cnpj review gives  *)
(* the name-only node its CNPJ, or merges it into the node that has it;    *)
(* approving a possible_politician_in_qsa review writes the CONTROLS edge; *)
(* a review can be rejected, and the outcome of a defendant recorded; a    *)
(* purge deletes the node.  Most are several statements without a          *)
(* transaction, and several operators can be at it.                        *)
(***************************************************************************)
EXTENDS OrgStore

CONSTANTS
  Operator,     \* operators at work together
  Erasable,     \* SUBSET Node  nodes a removal request names
  Judged,       \* SUBSET Case  those an operator records outcomes of
  MaxRequests,  \* requests that are begun (bound)
  MaxErrors     \* statements of theirs that fail (bound)

ASSUME AttachAssumption ==
  Erasable \subseteq Node /\ Judged \subseteq Case /\ MaxRequests \in Nat /\ MaxErrors \in Nat

VARIABLES
  op,           \* [Operator -> what the handler is doing]
  requests,     \* requests begun so far
  errors        \* statements that failed so far

operators == <<op, requests, errors>>

OpState == [pc : {"idle", "look", "set", "defendant", "controls", "name", "delete", "link", "mark",
                  "purge", "tomb", "scrub"},
            review : Nat, org : Node, dst : Node, keys : SUBSET (Cnpj \cup NameKey)]

NoOp == [pc |-> "idle", review |-> 0, org |-> AnyNode, dst |-> AnyNode, keys |-> {}]

AttachTypeOK ==
  op \in [Operator -> OpState] /\ requests \in 0..MaxRequests /\ errors \in 0..MaxErrors

AttachInit == op = [o \in Operator |-> NoOp] /\ requests = 0 /\ errors = 0

At(o, l)   == op[o].pc = l
Goto(o, l) == op' = [op EXCEPT ![o].pc = l] /\ UNCHANGED <<requests, errors>>

\* A request comes in.
Asked(o) == At(o, "idle") /\ requests < MaxRequests /\ requests' = requests + 1

\* The handler renders the queue with the error; the review stays as it is.
GiveUp(o) == op' = [op EXCEPT ![o] = NoOp] /\ UNCHANGED <<requests, errors>>

-------------------------------------------------------------------------------
(* reviewApprove, and AttachOrganizationCNPJ.                              *)

\* The status is read here and not looked at again.
Approve(o, i, s) ==
  /\ Asked(o)
  /\ reviews[i].status = "pending"
  /\ op' = [op EXCEPT ![o] = s]
  /\ UNCHANGED <<stores, errors>>

Others(n, c) == Holders(c) \ {n}

ApproveUnknownCNPJ(o, i) ==
  /\ reviews[i].type = "unknown_cnpj"
  /\ Approve(o, i, [NoOp EXCEPT !.pc = "look", !.review = i, !.org = reviews[i].org])

\* Which other node holds the CNPJ the operator typed.
FindHolder(o) ==
  LET found == Others(op[o].org, CnpjOf[reviews[op[o].review].who]) IN
  /\ At(o, "look")
  /\ IF found = {} THEN Goto(o, "set")
     ELSE /\ \E d \in found : op' = [op EXCEPT ![o].pc = "defendant", ![o].dst = d]
          /\ UNCHANGED <<requests, errors>>
  /\ UNCHANGED stores

\* Nobody else held it: the node gains its document.
SetCnpj(o) ==
  LET n == op[o].org IN
  /\ At(o, "set")
  /\ IF n \in orgs
     THEN doc' = [doc EXCEPT ![n] = {CnpjOf[reviews[op[o].review].who]}] /\ Goto(o, "mark")
     ELSE GiveUp(o) /\ UNCHANGED doc
  /\ UNCHANGED <<orgs, name, enriched, edges, decided, reviews, tombstones>>

\* Mutant of MoveEdges: without SET n += properties(r).
MoveEdgesBare(o, t) ==
  LET src == op[o].org
      dst == op[o].dst
      moved == {e \in edges : e.type = t /\ e.org = src}
  IN
  /\ IF {src, dst} \subseteq orgs
     THEN /\ edges' = (edges \ moved) \cup {[e EXCEPT !.org = dst] : e \in moved}
          /\ decided' = decided \ moved
     ELSE UNCHANGED <<edges, decided>>
  /\ UNCHANGED <<nodes, reviews, tombstones>>

\* An edge type is moved by a statement of its own, of which nothing is left
\* when either node is gone.  An edge that dst has already takes the properties
\* of the one that is moved, the outcome with them.
MoveEdges(o, t) ==
  LET src == op[o].org
      dst == op[o].dst
      moved == {e \in edges : e.type = t /\ e.org = src}
      OnDst(S) == {[e EXCEPT !.org = dst] : e \in S}
  IN
  /\ IF {src, dst} \subseteq orgs
     THEN /\ edges' = (edges \ moved) \cup OnDst(moved)
          /\ decided' = (decided \ (moved \cup OnDst(moved))) \cup OnDst(moved \cap decided)
     ELSE UNCHANGED <<edges, decided>>
  /\ UNCHANGED <<nodes, reviews, tombstones>>

\* (No writer creates the IMPLICATED_IN edges that are moved in between.)
MoveDefendantIn(o) == At(o, "defendant") /\ MoveEdges(o, "DEFENDANT_IN") /\ Goto(o, "controls")
MoveControls(o)    == At(o, "controls") /\ MoveEdges(o, "CONTROLS") /\ Goto(o, "name")

CopyName(o) ==
  LET src == op[o].org
      dst == op[o].dst
  IN
  /\ At(o, "name")
  /\ name' = IF {src, dst} \subseteq orgs /\ name[dst] = {}
             THEN [name EXCEPT ![dst] = name[src]] ELSE name
  /\ Goto(o, "delete")
  /\ UNCHANGED <<orgs, doc, enriched, edges, decided, reviews, tombstones>>

\* Mutant of DeleteSource: DETACH DELETE.
DetachSource(o) ==
  /\ At(o, "delete")
  /\ DeleteNode(op[o].org)
  /\ Goto(o, "mark")
  /\ UNCHANGED <<reviews, tombstones>>

\* A plain DELETE, which fails when the node still has an edge.
DeleteSource(o) ==
  /\ At(o, "delete")
  /\ IF Touching(op[o].org) = {}
     THEN DeleteNode(op[o].org) /\ Goto(o, "mark")
     ELSE GiveUp(o) /\ UNCHANGED graph
  /\ UNCHANGED <<reviews, tombstones>>

-------------------------------------------------------------------------------
(* approvePoliticianInQSA, finishEdgeApproval, reviewReject.               *)

\* Mutant of ApprovePoliticianInQSA: the default of reviewApprove, which only
\* resolves the row.
ApproveByDefault(o, i) ==
  /\ reviews[i].type = "politician_in_qsa"
  /\ Approve(o, i, [NoOp EXCEPT !.pc = "mark", !.review = i])

ApprovePoliticianInQSA(o, i) ==
  /\ reviews[i].type = "politician_in_qsa"
  /\ Approve(o, i, [NoOp EXCEPT !.pc = "link", !.review = i, !.org = reviews[i].org])

\* mergeConfirmedPoliticianEdge returns an error when the company is gone.
EnsurePoliticianControls(o) ==
  /\ At(o, "link")
  /\ edges' = EnsureEdge("CONTROLS", op[o].org, reviews[op[o].review].who)
  /\ IF op[o].org \in orgs THEN Goto(o, "mark") ELSE GiveUp(o)
  /\ UNCHANGED <<nodes, decided, reviews, tombstones>>

\* UpdatePendingReviewStatus: nothing is left to update of a scrubbed row.
MarkApproved(o) ==
  /\ At(o, "mark")
  /\ reviews' = [reviews EXCEPT ![op[o].review].status = IF @ = "scrubbed" THEN @ ELSE "approved"]
  /\ GiveUp(o)
  /\ UNCHANGED <<graph, tombstones>>

\* One statement, whatever the status was.
Reject(o, i) ==
  /\ Asked(o)
  /\ reviews[i].status # "scrubbed"
  /\ reviews' = [reviews EXCEPT ![i].status = "rejected"]
  /\ UNCHANGED <<graph, tombstones, op, errors>>

\* What the court decided for a company, with the evidence.
SetDefendantOutcome(o, e) ==
  /\ Asked(o)
  /\ e \in edges /\ e.type = "DEFENDANT_IN" /\ e.to \in Judged
  /\ decided' = decided \cup {e}
  /\ UNCHANGED <<nodes, edges, reviews, tombstones, op, errors>>

-------------------------------------------------------------------------------
(* removalResolve with action purge, as far as companies go.               *)

\* GetNodeProvenance: the keys of the tombstones are what the node says here.
PurgeBegin(o, n) ==
  /\ Asked(o)
  /\ n \in orgs \cap Erasable
  /\ op' = [op EXCEPT ![o] = [NoOp EXCEPT !.pc = "purge", !.org = n,
                                          !.keys = doc[n] \cup name[n]]]
  /\ UNCHANGED <<stores, errors>>

PurgeNode(o) ==
  /\ At(o, "purge")
  /\ DeleteNode(op[o].org)
  /\ Goto(o, "tomb")
  /\ UNCHANGED <<reviews, tombstones>>

CreatePurgeTombstones(o) ==
  /\ At(o, "tomb")
  /\ tombstones' = tombstones \cup op[o].keys
  /\ Goto(o, "scrub")
  /\ UNCHANGED <<graph, reviews>>

\* DeletePurgedSubjectName: the rows that name the company go.
ScrubName(o) ==
  /\ At(o, "scrub")
  /\ reviews' = [i \in DOMAIN reviews |->
                   IF reviews[i].type = "unknown_cnpj" /\ reviews[i].who \in op[o].keys
                   THEN [reviews[i] EXCEPT !.status = "scrubbed"] ELSE reviews[i]]
  /\ GiveUp(o)
  /\ UNCHANGED <<graph, tombstones>>

\* A statement fails, or the server dies.
OperationFails(o) ==
  /\ ~At(o, "idle") /\ errors < MaxErrors
  /\ op' = [op EXCEPT ![o] = NoOp]
  /\ errors' = errors + 1
  /\ UNCHANGED <<stores, requests>>

OperatorStep(o) ==
  \/ FindHolder(o) \/ SetCnpj(o) \/ MoveDefendantIn(o) \/ MoveControls(o)
  \/ CopyName(o) \/ DeleteSource(o)
  \/ EnsurePoliticianControls(o) \/ MarkApproved(o)
  \/ PurgeNode(o) \/ CreatePurgeTombstones(o) \/ ScrubName(o)

AttachNext ==
  \E o \in Operator :
    \/ \E i \in DOMAIN reviews : ApproveUnknownCNPJ(o, i) \/ ApprovePoliticianInQSA(o, i) \/ Reject(o, i)
    \/ \E e \in edges : SetDefendantOutcome(o, e)
    \/ \E n \in Node : PurgeBegin(o, n)
    \/ OperatorStep(o)
    \/ OperationFails(o)
===============================================================================
