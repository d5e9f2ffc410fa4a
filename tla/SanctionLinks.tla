---------------------------- MODULE SanctionLinks ----------------------------
(***************************************************************************)
(* From a sanction to the person it is about.  A registry publishes a full *)
(* CPF, a masked one (six digits out of eleven) or a name only; the worker *)
(* links by the document, scores a masked one, and leaves the rest to the  *)
(* review queue.  Meanwhile politicians are imported and renamed, persons  *)
(* are purged, and operators decide the reviews.                           *)
(*                                                                         *)
(* Companies are in OrgSystem, the sync that delivers the records in       *)
(* SanctionSync.  One worker: a run takes a flock.                         *)
(***************************************************************************)
EXTENDS PoliticianStore, Sequences

CONSTANTS
  Sanction,    \* sanctions of persons
  Rec,         \* [Sanction -> Record], what the registry publishes
  Mask,        \* set of masked CPFs
  Masked,      \* [Cpf -> Mask], the middle digits
  LongName,    \* SUBSET Name of four words or more
  Rows,        \* rows the TSE importer may write: cpf, name, uf, photo
  MaxImports, MaxActs, MaxErrors  \* bounds

Record == [kind : {"cpf", "masked", "name"}, cpf : Cpf, name : Name]

\* Keys of tombstones carry what they are of, a CPF or a name.
ASSUME SanctionLinksAssumption ==
  /\ Cpf \cap Name = {}
  /\ Rec \in [Sanction -> Record]
  /\ Masked \in [Cpf -> Mask]
  /\ LongName \subseteq Name
  /\ Rows \subseteq [cpf : Cpf, name : Name, uf : Uf, photo : BOOLEAN]
  /\ {MaxImports, MaxActs, MaxErrors} \subseteq Nat

VARIABLES
  persons,     \* Person nodes, by CPF
  edges,       \* SANCTIONED_IN
  reviews,     \* possible_politician_sanction rows, in the order of filing
  tombstones,  \* purge_tombstone: CPF keys and name keys
  link,        \* the record in the worker's hands
  op,          \* the operator
  imports, acts, errors,  \* bounds
  exposed      \* history: CPFs whose tombstone came after the worker had asked

store   == <<persons, edges, reviews, tombstones>>
bounds  == <<imports, acts, errors>>
vars    == <<pol, photo, store, link, op, bounds, exposed>>

\* The label of the node the edge leaves is part of the edge, and so is who
\* made it.
Edge   == [label : {"Politician", "Person"}, cpf : Cpf, sanction : Sanction,
           by : {"document", "score", "human"}]
Review == [sanction : Sanction, cpf : Cpf, status : {"pending", "approved", "rejected"}]

\* pc "find": the tombstones were asked; "create", "edge": no node, a node was
\* found; "each": between two matches; "file": no review yet; "score": an
\* automatic link, the tombstones were asked.
LinkState == [pc : {"idle", "find", "create", "edge", "each", "file", "score"},
              sanction : SUBSET Sanction, label : {"Politician", "Person"}, count : Nat,
              matches : SUBSET (Cpf \X Name), at : SUBSET Cpf]
OpState   == [pc : {"idle", "edge", "mark", "tomb"}, review : Nat, cpf : SUBSET Cpf]

NoLink == [pc |-> "idle", sanction |-> {}, label |-> "Person", count |-> 0, matches |-> {}, at |-> {}]
NoOp   == [pc |-> "idle", review |-> 0, cpf |-> {}]

TypeOK ==
  /\ StoreTypeOK
  /\ persons \subseteq Cpf /\ edges \subseteq Edge /\ reviews \in Seq(Review)
  /\ tombstones \subseteq Cpf \cup Name /\ exposed \subseteq Cpf
  /\ link \in LinkState /\ op \in OpState
  \* An edge leaves a node that is there.
  /\ \A e \in edges : IF e.label = "Person" THEN e.cpf \in persons ELSE pol[e.cpf].known

Init ==
  /\ StoreInit
  /\ persons = {} /\ edges = {} /\ reviews = <<>> /\ tombstones = {}
  /\ link = NoLink /\ op = NoOp
  /\ imports = 0 /\ acts = 0 /\ errors = 0 /\ exposed = {}

-------------------------------------------------------------------------------
(* Package matching, in hundredths.                                        *)

AutoLinkThreshold == 85

\* Mutant of Score: the number of candidates is not looked at.
ScoreUncapped(masked, sourceName, subjectName, candidates) ==
  (IF masked THEN 60 ELSE 0)
    + (IF sourceName = subjectName THEN 30 + (IF sourceName \in LongName THEN 5 ELSE 0) ELSE 0)

\* Mutant of Score: one candidate is already several.
ScoreCappedAtOne(masked, sourceName, subjectName, candidates) ==
  LET sum == (IF masked THEN 60 ELSE 0) + (IF sourceName = subjectName THEN 30 ELSE 0)
  IN IF candidates >= 1 /\ sum > 50 THEN 50 ELSE sum

Score(masked, sourceName, subjectName, candidates) ==
  LET sum == (IF masked THEN 60 ELSE 0)
               + (IF sourceName = subjectName
                  THEN 30 + (IF sourceName \in LongName THEN 5 ELSE 0) ELSE 0)
  IN IF candidates > 1 /\ sum > 50 THEN 50 ELSE sum

AutoLink(score) == score >= AutoLinkThreshold

-------------------------------------------------------------------------------
(* The worker.                                                             *)

s0 == CHOOSE s \in link.sanction : TRUE
r0 == Rec[s0]
c0 == CHOOSE c \in link.at : TRUE

IsSubjectPurged(keys) == keys \cap tombstones # {}

Rest == <<pol, photo, op, bounds, exposed>>

\* Mutant of LinkFullCPF: the tombstones are not asked.
LinkFullCPFUnasked(s) ==
  /\ link.pc = "idle" /\ Rec[s].kind = "cpf"
  /\ link' = [NoLink EXCEPT !.pc = "find", !.sanction = {s}, !.at = {Rec[s].cpf}]
  /\ UNCHANGED <<store, Rest>>

\* linkFullCPF: the CPF and the name are asked for.
LinkFullCPF(s) ==
  /\ link.pc = "idle" /\ Rec[s].kind = "cpf"
  /\ ~IsSubjectPurged({Rec[s].cpf, Rec[s].name})
  /\ link' = [NoLink EXCEPT !.pc = "find", !.sanction = {s}, !.at = {Rec[s].cpf}]
  /\ UNCHANGED <<store, Rest>>

\* Mutant of FindSubjectByCPF: the Person first.
FindPersonFirst ==
  /\ link.pc = "find"
  /\ link' = CASE c0 \in persons -> [link EXCEPT !.pc = "edge", !.label = "Person"]
               [] pol[c0].known -> [link EXCEPT !.pc = "edge", !.label = "Politician"]
               [] OTHER -> [link EXCEPT !.pc = "create"]
  /\ UNCHANGED <<store, Rest>>

FindSubjectByCPF ==
  /\ link.pc = "find"
  /\ link' = CASE pol[c0].known -> [link EXCEPT !.pc = "edge", !.label = "Politician"]
               [] ~pol[c0].known /\ c0 \in persons -> [link EXCEPT !.pc = "edge", !.label = "Person"]
               [] OTHER -> [link EXCEPT !.pc = "create"]
  /\ UNCHANGED <<store, Rest>>

UpsertPersonByCPF ==
  /\ link.pc = "create"
  /\ persons' = persons \cup {c0}
  /\ link' = [link EXCEPT !.pc = "edge", !.label = "Person"]
  /\ UNCHANGED <<edges, reviews, tombstones, Rest>>

\* EnsureSanctionedInEdge: MATCH both ends, MERGE the edge; a silent no-op when
\* the node is gone.  An edge there is keeps who made it only in its history.
Linked(label, c, s, by) ==
  IF \/ label = "Person" /\ c \notin persons
     \/ \E e \in edges : e.label = label /\ e.cpf = c /\ e.sanction = s
  THEN edges ELSE edges \cup {[label |-> label, cpf |-> c, sanction |-> s, by |-> by]}

LinkByDocument ==
  /\ link.pc = "edge"
  /\ edges' = Linked(link.label, c0, s0, "document")
  /\ link' = NoLink
  /\ UNCHANGED <<persons, reviews, tombstones, Rest>>

\* MatchPoliticiansByMaskedCPF.
Fits(s) == {c \in Cpf : pol[c].known /\ Masked[c] = Masked[Rec[s].cpf]}

\* linkMaskedCPF: the politicians that fit, with their names, and their number.
LinkMaskedCPF(s) ==
  /\ link.pc = "idle" /\ Rec[s].kind = "masked" /\ Fits(s) # {}
  /\ link' = [NoLink EXCEPT !.pc = "each", !.sanction = {s}, !.count = Cardinality(Fits(s)),
                            !.matches = {<<c, pol[c].name>> : c \in Fits(s)}]
  /\ UNCHANGED <<store, Rest>>

\* linkNameOnly: some politician of that name; it is always filed.
LinkNameOnly(s) ==
  /\ link.pc = "idle" /\ Rec[s].kind = "name"
  /\ \E c \in Cpf :
       /\ pol[c].known /\ pol[c].name = Rec[s].name
       /\ link' = [NoLink EXCEPT !.pc = "each", !.sanction = {s}, !.count = 1,
                                 !.matches = {<<c, Rec[s].name>>}]
  /\ UNCHANGED <<store, Rest>>

\* Mutant of HasSanctionReview: a row that was decided does not count.
HasPendingReview(s, c) ==
  \E i \in DOMAIN reviews : reviews[i].sanction = s /\ reviews[i].cpf = c /\ reviews[i].status = "pending"

\* A row of the pair in any status.
HasSanctionReview(s, c) ==
  \E i \in DOMAIN reviews : reviews[i].sanction = s /\ reviews[i].cpf = c

\* Mutant of EachMatch: an equal name is enough.
EachMatchNamesLink ==
  /\ link.pc = "each" /\ link.matches # {}
  /\ \E m \in link.matches :
       LET auto == r0.name = m[2] /\ link.count = 1
           skip == IF auto THEN IsSubjectPurged({m[2]}) ELSE HasSanctionReview(s0, m[1])
       IN link' = [link EXCEPT !.matches = @ \ {m}, !.at = {m[1]},
                               !.pc = IF skip THEN "each" ELSE IF auto THEN "score" ELSE "file"]
  /\ UNCHANGED <<store, Rest>>

\* One match: at the threshold it is linked, unless its name was purged; below,
\* it is filed, unless it was before.
EachMatch ==
  /\ link.pc = "each" /\ link.matches # {}
  /\ \E m \in link.matches :
       LET auto == r0.kind = "masked" /\ AutoLink(Score(TRUE, r0.name, m[2], link.count))
           skip == IF auto THEN IsSubjectPurged({m[2]}) ELSE HasSanctionReview(s0, m[1])
       IN link' = [link EXCEPT !.matches = @ \ {m}, !.at = {m[1]},
                               !.pc = IF skip THEN "each" ELSE IF auto THEN "score" ELSE "file"]
  /\ UNCHANGED <<store, Rest>>

\* CreatePendingReview.
QueueReview ==
  /\ link.pc = "file"
  /\ reviews' = Append(reviews, [sanction |-> s0, cpf |-> c0, status |-> "pending"])
  /\ link' = [link EXCEPT !.pc = "each"]
  /\ UNCHANGED <<persons, edges, tombstones, Rest>>

LinkByScore ==
  /\ link.pc = "score"
  /\ edges' = Linked("Politician", c0, s0, "score")
  /\ link' = [link EXCEPT !.pc = "each"]
  /\ UNCHANGED <<persons, reviews, tombstones, Rest>>

\* On to the next record of the run.
LinkDone ==
  /\ link.pc = "each" /\ link.matches = {}
  /\ link' = NoLink
  /\ UNCHANGED <<store, Rest>>

\* A statement fails, and the run ends there.  The next record is one of a later
\* run then; in which order records come is left open, within a run as well.
LinkFails ==
  /\ link.pc # "idle" /\ errors < MaxErrors
  /\ errors' = errors + 1
  /\ link' = NoLink
  /\ UNCHANGED <<store, pol, photo, op, imports, acts, exposed>>

Begin(s)   == LinkFullCPF(s) \/ LinkMaskedCPF(s) \/ LinkNameOnly(s)
LinkStep   == FindSubjectByCPF \/ UpsertPersonByCPF \/ LinkByDocument
                \/ EachMatch \/ QueueReview \/ LinkByScore \/ LinkDone

-------------------------------------------------------------------------------
(* The rest of the world.                                                  *)

\* The TSE importer writes a batch: a politician appears, or has a new name.
ImportPolitician(r) ==
  /\ imports < MaxImports
  /\ imports' = imports + 1
  /\ UpsertPoliticiansFromTSE({r}, CHOOSE y \in Year : TRUE)
  /\ UNCHANGED <<store, link, op, acts, errors, exposed>>

\* An operator begins something.
Act == op.pc = "idle" /\ acts < MaxActs /\ acts' = acts + 1

\* approvePoliticianSanction: the edge, then the status.
ApprovePoliticianSanction(i) ==
  /\ Act /\ reviews[i].status = "pending"
  /\ op' = [NoOp EXCEPT !.pc = "edge", !.review = i]
  /\ UNCHANGED <<pol, photo, store, link, imports, errors, exposed>>

ConfirmEdge ==
  LET v == reviews[op.review] IN
  /\ op.pc = "edge"
  /\ edges' = Linked("Politician", v.cpf, v.sanction, "human")
  /\ op' = [op EXCEPT !.pc = "mark"]
  /\ UNCHANGED <<pol, photo, persons, reviews, tombstones, link, bounds, exposed>>

FinishEdgeApproval ==
  /\ op.pc = "mark"
  /\ reviews' = [reviews EXCEPT ![op.review].status = "approved"]
  /\ op' = NoOp
  /\ UNCHANGED <<pol, photo, persons, edges, tombstones, link, bounds, exposed>>

Reject(i) ==
  /\ Act /\ reviews[i].status = "pending"
  /\ reviews' = [reviews EXCEPT ![i].status = "rejected"]
  /\ UNCHANGED <<pol, photo, persons, edges, tombstones, link, op, imports, errors, exposed>>

\* Mutant of PurgePersonNode: DELETE without DETACH.
PurgeNodeOnly(c) ==
  /\ Act /\ c \in persons
  /\ persons' = persons \ {c}
  /\ op' = [NoOp EXCEPT !.pc = "tomb", !.cpf = {c}]
  /\ UNCHANGED <<pol, photo, edges, reviews, tombstones, link, imports, errors, exposed>>

\* removalResolve: the Person node goes, with its edges; a Politician is refused.
PurgePersonNode(c) ==
  /\ Act /\ c \in persons
  /\ persons' = persons \ {c}
  /\ edges' = {e \in edges : ~(e.label = "Person" /\ e.cpf = c)}
  /\ op' = [NoOp EXCEPT !.pc = "tomb", !.cpf = {c}]
  /\ UNCHANGED <<pol, photo, reviews, tombstones, link, imports, errors, exposed>>

\* Then its keys are tombstoned: the CPF and the name it was created with.
PersonName(c) == {Rec[s].name : s \in {s \in Sanction : Rec[s].kind = "cpf" /\ Rec[s].cpf = c}}

CreatePurgeTombstones ==
  /\ op.pc = "tomb"
  /\ tombstones' = tombstones \cup op.cpf \cup UNION {PersonName(c) : c \in op.cpf}
  /\ exposed' = exposed \cup (op.cpf \cap (persons \cup
                   IF link.pc \in {"find", "create"} THEN link.at ELSE {}))
  /\ op' = NoOp
  /\ UNCHANGED <<pol, photo, persons, edges, reviews, link, bounds>>

OperatorFails ==
  /\ op.pc # "idle" /\ errors < MaxErrors
  /\ errors' = errors + 1
  /\ op' = NoOp
  /\ UNCHANGED <<pol, photo, store, link, imports, acts, exposed>>

OperatorStep == ConfirmEdge \/ FinishEdgeApproval \/ CreatePurgeTombstones

Next ==
  \/ \E s \in Sanction : Begin(s)
  \/ LinkStep \/ LinkFails
  \/ \E r \in Rows : ImportPolitician(r)
  \/ \E i \in DOMAIN reviews : ApprovePoliticianSanction(i) \/ Reject(i)
  \/ \E c \in Cpf : PurgePersonNode(c)
  \/ OperatorStep \/ OperatorFails

Spec == Init /\ [][Next]_vars

\* Every week the sync brings every record that is still published.
FairSpec == Spec /\ WF_vars(LinkStep) /\ \A s \in Sanction : SF_vars(Begin(s))

-------------------------------------------------------------------------------
(* Properties.                                                             *)

Shown(c, s) == \E e \in edges : e.label = "Politician" /\ e.cpf = c /\ e.sanction = s

\* A politician is shown with a sanction only on a document, full or masked,
\* or by a human's approval: a name, however exact, links nobody (Score).
LinkHasEvidence ==
  \A e \in edges : e.label = "Politician" =>
    /\ e.by = "document" => Rec[e.sanction].kind = "cpf" /\ Rec[e.sanction].cpf = e.cpf
    /\ e.by = "score" => Rec[e.sanction].kind = "masked" /\ Masked[Rec[e.sanction].cpf] = Masked[e.cpf]
    /\ e.by = "human" => \E i \in DOMAIN reviews : reviews[i].sanction = e.sanction /\ reviews[i].cpf = e.cpf

\* Of the politicians that fit a masked CPF when it was looked up, the worker
\* links at most one, also over several runs while more of them are imported
\* (the cap of Score).
OneLinkPerMask ==
  \A e, f \in edges : e.by = "score" /\ f.by = "score" /\ e.sanction = f.sanction => e = f

\* A pair of sanction and politician is put before a human once: a decided
\* review is not filed again by the next run (queueReview).
FiledOnce ==
  \A i, j \in DOMAIN reviews :
    reviews[i].sanction = reviews[j].sanction /\ reviews[i].cpf = reviews[j].cpf => i = j

\* A purged person comes back only by a worker that had asked the tombstones
\* before they were written (linkFullCPF).
PersonStaysOut == persons \cap tombstones \subseteq exposed

\* A sanction published with the full CPF of a politician is shown on the
\* politician in the end, also when the sanction came first and made a Person
\* of the CPF, unless the name was purged (FindSubjectByCPF).
SanctionReachesPolitician ==
  \A s \in {s \in Sanction : Rec[s].kind = "cpf"} :
    pol[Rec[s].cpf].known ~> (Shown(Rec[s].cpf, s) \/ IsSubjectPurged({Rec[s].cpf, Rec[s].name}))

\* A masked CPF that fits one politician, under the name of the record, is
\* shown in the end (linkMaskedCPF), unless the name was purged.
UniqueMatchIsShown ==
  \A s \in {s \in Sanction : Rec[s].kind = "masked"}, c \in Cpf :
    <>[](Fits(s) = {c} /\ pol[c].name = Rec[s].name)
      => <>(Shown(c, s) \/ IsSubjectPurged({Rec[s].name}))
===============================================================================
