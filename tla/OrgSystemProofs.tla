---------------------------- MODULE OrgSystemProofs ----------------------------
(***************************************************************************)
(* Proofs about OrgSystem: no relation is lost in a merge, what becomes of *)
(* recorded outcomes and of the reviews of companies without a document,   *)
(* an approved edge stays, and an erased company stays out, in every       *)
(* interleaving of the enricher, the operators, the DJEN worker and the    *)
(* sanctions worker.                                                       *)
(***************************************************************************)
EXTENDS OrgSystem, FiniteSetTheorems, SequenceTheorems, TLAPS

-------------------------------------------------------------------------------
(* The invariant.                                                          *)

\* A node's document is that of the company it stands for, so that two nodes with
\* one CNPJ stand for the same company; a node made of a CNPJ has it; a node that
\* is not there has none.
Documents ==
  /\ orgs \subseteq Node /\ doc \in [Node -> SUBSET Cnpj]
  /\ \A n \in Node : /\ doc[n] \subseteq {Entity(n)}
                     /\ n \notin orgs => doc[n] = {}
                     /\ n \in orgs \cap Cnpj => doc[n] # {}

Named(n)  == name[n] = {} \/ \E k \in NameKey : name[n] = {k}
Described == /\ enriched \in [Node -> Freshness] /\ name \in [Node -> SUBSET NameKey]
             /\ \A n \in Node : Named(n)

Anchored(e) == e.org \in orgs /\ (e.type = "OWNED_BY" => e.to \in orgs)
EdgesTyped  == /\ edges \subseteq Edge /\ \A e \in edges : Anchored(e)
               /\ decided \subseteq {e \in edges : e.type = "DEFENDANT_IN"}

\* A row about a name without a CNPJ is about the node of that name.
ReviewsTyped ==
  /\ reviews \in Seq(Review)
  /\ \A i \in DOMAIN reviews : reviews[i].type = "unknown_cnpj" => reviews[i].org = reviews[i].who

TombstonesTyped == tombstones \subseteq Cnpj \cup NameKey

StoresTyped == Documents /\ Described /\ EdgesTyped /\ ReviewsTyped /\ TombstonesTyped

RunTyped ==
  /\ run \in RunState /\ failures \in 0..MaxFailures
  /\ run.pc = "person" => run.socio \in Socio
  /\ run.pc = "company" => run.socio \in Cnpj

\* What an operator is at goes back to a row of its kind.
RowInHand(x, t) == /\ x.review \in DOMAIN reviews /\ reviews[x.review].type = t
                   /\ reviews[x.review].org = x.org
InOrder(x) ==
  /\ x.pc \in {"look", "set", "defendant", "controls", "name", "delete"} => RowInHand(x, "unknown_cnpj")
  /\ x.pc \in {"defendant", "controls", "name", "delete"} => Entity(x.dst) = Entity(x.org)
  /\ x.pc = "link" => RowInHand(x, "politician_in_qsa")
  /\ x.pc = "mark" => x.review \in DOMAIN reviews
OpTyped == AttachTypeOK /\ \A o \in Operator : InOrder(op[o])

DjenState == [pc : {"idle", "upsert", "edge", "file", "snap"}, name : Name, case : Case]
LinkState == [pc : {"idle", "ensure", "edge"}, sanction : Sanction, org : Node]
DiscoveryTyped == djen \in DjenState /\ handled \subseteq Name \X Case /\ link \in LinkState

HistoryTyped == erased \subseteq Cnpj /\ exposed \subseteq Cnpj \cup NameKey /\ unfiled \subseteq Name

Typed == StoresTyped /\ RunTyped /\ OpTyped /\ DiscoveryTyped /\ HistoryTyped

\* A row nobody is about to close: an approval that was carried out marks its row
\* whatever became of the node since.
Open(i) ==
  /\ reviews[i].status \in {"pending", "rejected"}
  /\ \A o \in Operator : op[o].pc = "mark" => op[o].review # i

Queued(m) ==
  \/ doc[m] # {}
  \/ \E i \in DOMAIN reviews : reviews[i].type = "unknown_cnpj" /\ reviews[i].org = m /\ Open(i)
  \/ djen.name = m /\ djen.pc \in {"edge", "file"}
  \/ m \in unfiled \cup tombstones

\* Rows are deleted once the tombstones stand.
ScrubInv == \A o \in Operator : op[o].pc = "scrub" => op[o].keys \subseteq tombstones
QueueInv == ScrubInv /\ \A m \in orgs \cap Name : Queued(m)

\* An approved edge is there from the step that writes it.
EdgeShown(i) ==
  \/ <<"CONTROLS", Entity(reviews[i].org), reviews[i].who>> \in Facts
  \/ Entity(reviews[i].org) \in erased
ApprovalInv ==
  /\ \A i \in DOMAIN reviews :
       reviews[i].type = "politician_in_qsa" /\ reviews[i].status = "approved" => EdgeShown(i)
  /\ \A o \in Operator :
       op[o].pc = "mark" /\ reviews[op[o].review].type = "politician_in_qsa" => EdgeShown(op[o].review)

\* A writer that is past asking, and a purged key, met only with the history's knowledge.
ErasureInv == InFlight \cap tombstones \subseteq exposed /\ ErasedStaysOut

-------------------------------------------------------------------------------
(* The keys.                                                               *)

\* Which sets the nodes, companies and name keys are in.
LEMMA EntityFacts ==
  /\ \A n \in Node : Entity(n) \in Cnpj
  /\ \A c \in Cnpj : Entity(c) = c /\ c \in Node /\ c \notin Name
  /\ \A m \in Name : Entity(m) = CnpjOf[m] /\ m \in Node /\ m \notin Cnpj /\ m \in NameKey
  /\ \A c \in Cnpj : LegalName[c] \in NameKey
  /\ \A s \in Socio : s \notin Node
  /\ \A k \in Case : k \notin Node
  /\ \A s \in Politician : s \in Socio
  /\ AnyNode \in Node /\ AnyCnpj \in Cnpj /\ AnyName \in Name /\ AnyCase \in Case
  /\ AnySanction \in Sanction
<1>1. /\ \A n \in Node : Entity(n) \in Cnpj
      /\ \A c \in Cnpj : Entity(c) = c /\ c \in Node /\ c \notin Name
      /\ \A m \in Name : Entity(m) = CnpjOf[m] /\ m \in Node /\ m \notin Cnpj /\ m \in NameKey
  BY OrgStoreAssumption DEF Entity, Node, NameKey
<1>2. \A c \in Cnpj : LegalName[c] \in NameKey
  BY DEF NameKey
<1>3. /\ \A s \in Socio : s \notin Node
      /\ \A k \in Case : k \notin Node
      /\ \A s \in Politician : s \in Socio
  BY OrgStoreAssumption, EnricherAssumption DEF Node
<1>4. Cnpj # {} /\ Name # {} /\ Case # {} /\ Sanction # {} /\ Node # {}
  BY OrgStoreAssumption DEF Node
<1>5. AnyNode \in Node /\ AnyCnpj \in Cnpj /\ AnyName \in Name /\ AnyCase \in Case
  BY <1>4 DEF AnyNode, AnyCnpj, AnyName, AnyCase
<1>6. AnySanction \in Sanction
  BY <1>4 DEF AnySanction
<1> QED
  BY <1>1, <1>2, <1>3, <1>5, <1>6

-------------------------------------------------------------------------------
(* The stores grow: what every worker does to them, and what an operator    *)
(* does not.                                                               *)

\* A row that is filed is pending.
RowFiled(r) ==
  /\ r \in Review /\ r.status = "pending"
  /\ r.type = "unknown_cnpj" => r.org = r.who
  /\ reviews' = Append(reviews, r)
RowsGrow == UNCHANGED reviews \/ \E r \in Review : RowFiled(r)

NodesGrow == orgs \subseteq orgs' /\ \A n \in orgs : doc[n] \subseteq doc'[n]
Grows == NodesGrow /\ edges \subseteq edges' /\ RowsGrow /\ UNCHANGED tombstones

\* No node made of a name comes up.
NoNewName == orgs' \cap Name \subseteq orgs

\* MERGE on the CNPJ: the nodes it matches stand for that company.
LEMMA EnsureGrows ==
  ASSUME Documents, NEW c \in Cnpj, EnsureOrganizationByCNPJ(c)
  PROVE  /\ Documents' /\ NodesGrow /\ NoNewName
         /\ Merged(c) # {} /\ Merged(c) \subseteq orgs' /\ Merged(c) \subseteq Node
         /\ \A n \in orgs' : (n \in orgs /\ doc'[n] = doc[n]) \/ doc'[n] = {c}
<1>1. Merged(c) # {} /\ Merged(c) \subseteq Node
  BY EntityFacts DEF Documents, Merged, Holders
<1>2. \A n \in Merged(c) : Entity(n) = c /\ (n \in orgs => doc[n] = {c})
  BY EntityFacts DEF Documents, Merged, Holders
<1>3. \A n \in Merged(c) : n \in orgs \/ n = c
  BY DEF Merged, Holders
<1>4. orgs' = orgs \cup Merged(c) /\ doc' = [n \in Node |-> IF n \in Merged(c) THEN {c} ELSE doc[n]]
  BY DEF EnsureOrganizationByCNPJ
<1> DEFINE M == Merged(c)
<1>5. /\ M # {} /\ M \subseteq Node
      /\ \A n \in M : Entity(n) = c /\ (n \in orgs => doc[n] = {c})
      /\ \A n \in M : n \in orgs \/ n = c
      /\ orgs' = orgs \cup M /\ doc' = [n \in Node |-> IF n \in M THEN {c} ELSE doc[n]]
  BY <1>1, <1>2, <1>3, <1>4
<1> HIDE DEF M
<1>6. orgs' \subseteq Node /\ doc' \in [Node -> SUBSET Cnpj]
  BY <1>5 DEF Documents
<1>7. \A n \in Node : /\ doc'[n] \subseteq {Entity(n)}
                      /\ n \notin orgs' => doc'[n] = {}
                      /\ n \in orgs' \cap Cnpj => doc'[n] # {}
  BY <1>5 DEF Documents
<1>8. Documents'
  BY <1>6, <1>7 DEF Documents, Entity
<1>9. NodesGrow
  BY <1>5 DEF Documents, NodesGrow
<1>10. NoNewName
  BY <1>5, EntityFacts DEF NoNewName
<1>11. \A n \in orgs' : (n \in orgs /\ doc'[n] = doc[n]) \/ doc'[n] = {c}
  BY <1>5 DEF Documents
<1> QED
  BY <1>1, <1>4, <1>8, <1>9, <1>10, <1>11

\* Nodes may come: no edge loses its ends.
LEMMA EdgesStay ==
  ASSUME EdgesTyped, UNCHANGED <<edges, decided>>, orgs \subseteq orgs'
  PROVE  EdgesTyped'
BY DEF EdgesTyped, Anchored

\* An edge written from a node matched by its id.
LEMMA EnsureEdgeGrows ==
  ASSUME EdgesTyped, NEW t, NEW n, NEW x, [type |-> t, org |-> n, to |-> x] \in Edge,
         t # "OWNED_BY", UNCHANGED orgs, edges' = EnsureEdge(t, n, x), decided' \subseteq decided
  PROVE  EdgesTyped' /\ edges \subseteq edges'
<1> DEFINE e == [type |-> t, org |-> n, to |-> x]
<1>1. e.org = n /\ e.type # "OWNED_BY" /\ e \in Edge
  OBVIOUS
<1>2. edges' = IF n \in orgs THEN edges \cup {e} ELSE edges
  BY DEF EnsureEdge
<1> HIDE DEF e
<1> QED
  BY <1>1, <1>2 DEF EdgesTyped, Anchored

\* A row filed by a worker is well typed, and so is the queue with it.
LEMMA RowIsFiled ==
  ASSUME ReviewsTyped, NEW r, RowFiled(r)
  PROVE  ReviewsTyped'
<1>1. reviews' = Append(reviews, r) /\ r \in Review /\ reviews \in Seq(Review)
  BY DEF RowFiled, ReviewsTyped
<1>2. reviews' \in Seq(Review) /\ DOMAIN reviews' = 1..(Len(reviews) + 1)
  BY <1>1
<1>3. ASSUME NEW i \in DOMAIN reviews', reviews'[i].type = "unknown_cnpj"
      PROVE  reviews'[i].org = reviews'[i].who
  <2>1. (i \in DOMAIN reviews /\ reviews'[i] = reviews[i]) \/ reviews'[i] = r
    BY <1>1, <1>2
  <2> QED
    BY <1>3, <2>1 DEF ReviewsTyped, RowFiled
<1> QED
  BY <1>2, <1>3 DEF ReviewsTyped

\* A step that writes no store.
LEMMA StoresStay ==
  ASSUME StoresTyped, UNCHANGED stores
  PROVE  StoresTyped' /\ Grows /\ NoNewName
<1>1. UNCHANGED <<orgs, doc, name, enriched, edges, decided, reviews, tombstones>>
  BY DEF stores, graph
<1>2. Documents' /\ Described'
  BY <1>1 DEF StoresTyped, Documents, Described, Named, Entity
<1>3. EdgesTyped' /\ ReviewsTyped' /\ TombstonesTyped'
  BY <1>1 DEF StoresTyped, EdgesTyped, Anchored, ReviewsTyped, TombstonesTyped
<1>4. Grows /\ NoNewName
  BY <1>1 DEF Grows, NodesGrow, RowsGrow, NoNewName
<1> QED
  BY <1>2, <1>3, <1>4 DEF StoresTyped

-------------------------------------------------------------------------------
(* The enricher.                                                           *)

\* What a worker's step does.
WorkerStep == StoresTyped' /\ Grows /\ NoNewName

\* The enricher's run: what it is before, and between two jobs.
LEMMA RunRecords ==
  /\ NoRun \in RunState /\ NoRun.pc = "idle"
  /\ \A q \in SUBSET Job : run \in RunState => /\ NextJob(q) \in RunState
                                               /\ NextJob(q).pc = "next"
<1>1. <<AnyCnpj, 0>> \in Cnpj \X Nat /\ AnyNode \in Node
  BY EntityFacts
<1>2. NoJob \in Job
  BY <1>1 DEF NoJob, Job
<1>3. NoRun \in RunState /\ NoRun.pc = "idle"
  BY <1>1, <1>2 DEF NoRun, RunState
<1>4. ASSUME NEW q \in SUBSET Job, run \in RunState
      PROVE  NextJob(q) \in RunState /\ NextJob(q).pc = "next"
  <2>1. run.visited \in SUBSET Cnpj
    BY <1>4 DEF RunState
  <2>2. NextJob(q) = [NoRun EXCEPT !.pc = "next", !.queue = q, !.visited = run.visited]
    BY DEF NextJob
  <2> QED
    BY <2>1, <2>2, <1>3 DEF RunState
<1> QED
  BY <1>3, <1>4

\* The types of what the enricher has in its hands.
LEMMA RunFields ==
  ASSUME RunTyped
  PROVE  /\ run.queue \subseteq Job /\ run.visited \subseteq Cnpj /\ run.job \in Job
         /\ run.org \in Node /\ run.todo \subseteq Socio \cup Cnpj /\ run.children \subseteq Job
BY DEF RunTyped, RunState

\* The run of the enricher stays well typed.
LEMMA EnricherTyped ==
  ASSUME RunTyped, Documents, EnricherNext
  PROVE  RunTyped'
<1> USE RunFields, RunRecords
<1>1. CASE \E limit \in Limits : RunBegin(limit)
  <2>1. PICK limit \in Limits : RunBegin(limit)
    BY <1>1
  <2>2. PICK S \in Listings(limit) :
          run' = [NoRun EXCEPT !.pc = "next",
                               !.queue = {[cnpj |-> c, depth |-> 0] : c \in UNION {doc[n] : n \in S}}]
    BY <2>1 DEF RunBegin
  <2>3. S \subseteq Node
    BY DEF Listings
  <2> DEFINE K == UNION {doc[n] : n \in S}
             q == {[cnpj |-> c, depth |-> 0] : c \in K}
  <2>4. K \subseteq Cnpj
    BY <2>3 DEF Documents
  <2> HIDE DEF K
  <2>5. q \subseteq Job
    BY <2>4 DEF Job
  <2>6. run' = [NoRun EXCEPT !.pc = "next", !.queue = q]
    BY <2>2 DEF K
  <2> HIDE DEF q
  <2>7. run' \in RunState
    BY <2>5, <2>6 DEF RunState
  <2>8. run'.pc = "next"
    BY <2>6 DEF RunState
  <2> QED
    BY <2>1, <2>7, <2>8 DEF RunBegin, RunTyped
<1>2. ASSUME NEW j \in run.queue, SkipVisited(j) \/ Fetch(j) \/ FetchFails(j)
      PROVE  RunTyped'
  <2>1. CASE SkipVisited(j)
    BY <2>1 DEF SkipVisited, RunTyped, RunState
  <2>2. CASE Fetch(j)
    <3> DEFINE pc2 == IF j.cnpj \in Unknown THEN "next" ELSE "update"
               job2 == IF j.cnpj \in Unknown THEN NoJob ELSE j
    <3>1. run' = [run EXCEPT !.queue = @ \ {j}, !.visited = @ \cup {j.cnpj}, !.pc = pc2, !.job = job2]
      BY <2>2 DEF Fetch
    <3>2. j \in Job /\ j.cnpj \in Cnpj /\ pc2 \in {"next", "update"}
      BY DEF Job
    <3>3. NoRun.job \in Job /\ NoRun.job = NoJob
      BY DEF NoRun, RunState
    <3>4. job2 \in Job
      BY <3>2, <3>3
    <3> HIDE DEF pc2, job2
    <3>5. run' \in RunState /\ run'.pc \in {"next", "update"}
      BY <3>1, <3>2, <3>4 DEF RunTyped, RunState
    <3> QED
      BY <2>2, <3>5 DEF Fetch, RunTyped
  <2>3. CASE FetchFails(j)
    <3>1. j.cnpj \in Cnpj
      BY DEF Job
    <3>2. run' = [run EXCEPT !.queue = @ \ {j}, !.visited = @ \cup {j.cnpj}]
      BY <2>3 DEF FetchFails
    <3>3. run' \in RunState /\ run'.pc = run.pc
      BY <3>1, <3>2 DEF RunTyped, RunState
    <3>4. failures' \in 0..MaxFailures
      BY <2>3, EnricherAssumption DEF FetchFails, RunTyped
    <3> QED
      BY <2>3, <3>3, <3>4 DEF FetchFails, RunTyped
  <2> QED
    BY <1>2, <2>1, <2>2, <2>3
<1>3. CASE RunEnd
  BY <1>3 DEF RunEnd, RunTyped
<1>4. CASE QsaDone
  <2> DEFINE q == run.queue \cup {k \in run.children : k.cnpj \notin run.visited /\ k.depth <= MaxHops}
  <2>1. q \in SUBSET Job
    OBVIOUS
  <2>2. run' = NextJob(q)
    BY <1>4 DEF QsaDone
  <2> HIDE DEF q
  <2> QED
    BY <1>4, <2>1, <2>2 DEF QsaDone, RunTyped
<1>5. ASSUME NEW s \in run.todo, FilePolitician(s)
      PROVE  RunTyped'
  <2>1. run' = [run EXCEPT !.todo = @ \ {s}] /\ run.pc = "qsa" /\ UNCHANGED failures
    BY <1>5 DEF FilePolitician
  <2> QED
    BY <2>1 DEF RunTyped, RunState
<1>6. ASSUME NEW s \in run.todo, CheckSocio(s)
      PROVE  RunTyped'
  <2> DEFINE pc2 == IF s \in Cnpj THEN "company" ELSE "person"
  <2>1. run.pc = "qsa" /\ UNCHANGED failures
    BY <1>6 DEF CheckSocio
  <2>2. CASE IsSubjectPurged(s)
    BY <1>6, <2>1, <2>2 DEF CheckSocio, RunTyped, RunState
  <2>3. CASE ~IsSubjectPurged(s)
    <3>1. run' = [run EXCEPT !.pc = pc2, !.socio = s]
      BY <1>6, <2>3 DEF CheckSocio
    <3>2. pc2 \in {"company", "person"} /\ (pc2 = "company" => s \in Cnpj) /\ (pc2 = "person" => s \in Socio)
      OBVIOUS
    <3> HIDE DEF pc2
    <3> QED
      BY <2>1, <3>1, <3>2 DEF RunTyped, RunState
  <2> QED
    BY <2>2, <2>3
<1>7. CASE EnrichFails \/ RunDies
  <2>1. failures' \in 0..MaxFailures
    BY <1>7, EnricherAssumption DEF EnrichFails, RunDies, RunTyped
  <2>2. run' \in {NoRun, NextJob(run.queue)}
    BY <1>7 DEF EnrichFails, RunDies
  <2>3. run' \in RunState /\ run'.pc \in {"idle", "next"}
    BY <2>2 DEF RunTyped
  <2> QED
    BY <2>1, <2>3 DEF RunTyped
<1>8. CASE \E c \in Singles : RunSingle(c)
  <2>1. PICK c \in Singles : RunSingle(c)
    BY <1>8
  <2> DEFINE q == {[cnpj |-> c, depth |-> 0]}
  <2>2. q \subseteq Job
    BY EnricherAssumption DEF Job
  <2>3. run' = [NoRun EXCEPT !.pc = "next", !.queue = q] /\ UNCHANGED failures
    BY <2>1 DEF RunSingle
  <2> HIDE DEF q
  <2> QED
    BY <2>2, <2>3 DEF RunTyped, RunState
<1>9. CASE Update
  <2>1. run.job.cnpj \in Cnpj
    BY DEF Job
  <2>2. Qsa[run.job.cnpj] \subseteq Socio \cup Cnpj
    BY <2>1, EnricherAssumption
  <2>3. EnsureOrganizationByCNPJ(run.job.cnpj)
    BY <1>9 DEF Update, UpdateOrganizationEnrichment
  <2>4. PICK n \in Merged(run.job.cnpj) :
          run' = [run EXCEPT !.pc = "qsa", !.org = n, !.todo = Qsa[run.job.cnpj]]
    BY <1>9 DEF Update
  <2>5. n \in Node
    BY <2>1, <2>3, EnsureGrows
  <2>6. UNCHANGED failures
    BY <1>9 DEF Update
  <2> QED
    BY <2>2, <2>4, <2>5, <2>6 DEF RunTyped, RunState
<1>10. CASE UpsertQSAPerson
  <2>1. run' \in {[run EXCEPT !.pc = "qsa", !.todo = @ \ {run.socio}, !.socio = AnyCnpj],
                  NextJob(run.queue)} /\ UNCHANGED failures
    BY <1>10 DEF UpsertQSAPerson
  <2>2. CASE run' = NextJob(run.queue)
    BY <2>1, <2>2 DEF RunTyped
  <2>3. CASE run' = [run EXCEPT !.pc = "qsa", !.todo = @ \ {run.socio}, !.socio = AnyCnpj]
    BY <2>1, <2>3, EntityFacts DEF RunTyped, RunState
  <2> QED
    BY <2>1, <2>2, <2>3
<1>11. CASE UpsertQSAOrganization
  <2> DEFINE child  == [cnpj |-> run.socio, depth |-> run.job.depth + 1]
             below  == IF Holders(run.socio) = {} THEN run.children \cup {child} ELSE run.children
  <2>1. run.socio \in Cnpj /\ run.job.depth + 1 \in Nat /\ UNCHANGED failures
    BY <1>11 DEF UpsertQSAOrganization, RunTyped, Job
  <2>2. child \in Job
    BY <2>1 DEF Job
  <2>3. below \subseteq Job
    BY <2>2
  <2>4. run' \in {[run EXCEPT !.pc = "qsa", !.todo = @ \ {run.socio}, !.socio = AnyCnpj,
                              !.children = below],
                  NextJob(run.queue)}
    BY <1>11 DEF UpsertQSAOrganization
  <2> HIDE DEF below
  <2>5. CASE run' = NextJob(run.queue)
    BY <2>1, <2>5 DEF RunTyped
  <2>6. CASE run' = [run EXCEPT !.pc = "qsa", !.todo = @ \ {run.socio}, !.socio = AnyCnpj,
                                !.children = below]
    BY <2>1, <2>3, <2>6, EntityFacts DEF RunTyped, RunState
  <2> QED
    BY <2>4, <2>5, <2>6
<1>12. CASE PeriodPasses
  BY <1>12 DEF PeriodPasses, RunTyped
<1> QED
  BY <1>1, <1>2, <1>3, <1>4, <1>5, <1>6, <1>7, <1>8, <1>9, <1>10, <1>11, <1>12 DEF EnricherNext, EnricherStep

\* Companies and their documents, with the other stores left as they are.
LEMMA NodesWritten ==
  ASSUME StoresTyped, Documents', Described', NodesGrow, NoNewName,
         UNCHANGED <<edges, decided, reviews, tombstones>>
  PROVE  WorkerStep
<1>1. EdgesTyped'
  BY EdgesStay DEF StoresTyped, NodesGrow
<1>2. ReviewsTyped' /\ TombstonesTyped'
  BY DEF StoresTyped, ReviewsTyped, TombstonesTyped
<1>3. Grows
  BY DEF Grows, RowsGrow
<1> QED
  BY <1>1, <1>2, <1>3 DEF WorkerStep, StoresTyped

\* Edges, with the nodes left as they are.
LEMMA EdgesWritten ==
  ASSUME StoresTyped, EdgesTyped', edges \subseteq edges', UNCHANGED <<nodes, reviews, tombstones>>
  PROVE  WorkerStep
<1>1. UNCHANGED <<orgs, doc, name, enriched>>
  BY DEF nodes
<1>2. Documents' /\ Described'
  BY <1>1 DEF StoresTyped, Documents, Described, Named, Entity
<1>3. ReviewsTyped' /\ TombstonesTyped'
  BY DEF StoresTyped, ReviewsTyped, TombstonesTyped
<1>4. Grows /\ NoNewName
  BY <1>1 DEF Grows, NodesGrow, RowsGrow, NoNewName
<1> QED
  BY <1>2, <1>3, <1>4 DEF WorkerStep, StoresTyped

\* A worker that only files a row.
LEMMA RowWritten ==
  ASSUME StoresTyped, NEW r, RowFiled(r), UNCHANGED <<graph, tombstones>>
  PROVE  WorkerStep
<1>1. UNCHANGED <<orgs, doc, name, enriched, edges, decided>>
  BY DEF graph
<1>2. Documents' /\ Described' /\ EdgesTyped'
  BY <1>1 DEF StoresTyped, Documents, Described, Named, Entity, EdgesTyped, Anchored
<1>3. ReviewsTyped' /\ TombstonesTyped'
  BY RowIsFiled DEF StoresTyped, TombstonesTyped
<1>4. r \in Review
  BY DEF RowFiled
<1>5. Grows /\ NoNewName
  BY <1>1, <1>4 DEF Grows, NodesGrow, RowsGrow, NoNewName
<1> QED
  BY <1>2, <1>3, <1>5 DEF WorkerStep, StoresTyped

\* A name or a stamp is written over nodes.
LEMMA DescribedAgain ==
  ASSUME Described, NEW M, NEW k \in NameKey,
         name' = [n \in Node |-> IF n \in M THEN {k} ELSE name[n]],
         enriched' = [n \in Node |-> IF n \in M THEN "fresh" ELSE enriched[n]]
  PROVE  Described'
<1>1. enriched' \in [Node -> Freshness] /\ name' \in [Node -> SUBSET NameKey]
  BY DEF Described, Freshness
<1>2. ASSUME NEW n \in Node
      PROVE  Named(n)'
  <2>1. CASE n \in M
    BY <2>1 DEF Named
  <2>2. CASE n \notin M
    BY <2>2 DEF Named, Described
  <2> QED
    BY <2>1, <2>2
<1> QED
  BY <1>1, <1>2 DEF Described

\* The edges of a company to what is no company.
LEMMA OrgEdges ==
  ASSUME NEW n \in Node
  PROVE  /\ \A s \in Socio : [type |-> "CONTROLS", org |-> n, to |-> s] \in Edge
         /\ \A x \in Node : [type |-> "OWNED_BY", org |-> n, to |-> x] \in Edge
         /\ \A k \in Case : [type |-> "DEFENDANT_IN", org |-> n, to |-> k] \in Edge
         /\ \A s \in Sanction : [type |-> "SANCTIONED_IN", org |-> n, to |-> s] \in Edge
BY DEF Edge

\* The enricher deletes nothing and makes no node of a name.
LEMMA EnricherGrows ==
  ASSUME StoresTyped, RunTyped, EnricherNext
  PROVE  WorkerStep
<1>0. Documents /\ Described /\ EdgesTyped
  BY DEF StoresTyped
<1> USE RunFields
<1>1. CASE UNCHANGED stores
  BY <1>1, StoresStay DEF WorkerStep
<1>2. CASE PeriodPasses
  <2>1. Documents' /\ NodesGrow /\ NoNewName
    BY <1>0, <1>2 DEF PeriodPasses, Documents, NodesGrow, NoNewName, Entity
  <2>2. Described'
    BY <1>0, <1>2 DEF PeriodPasses, Described, Freshness, Named
  <2> QED
    BY <1>2, <2>1, <2>2, NodesWritten DEF PeriodPasses
<1>3. CASE \E c \in Singles : RunSingle(c)
  <2>1. PICK c \in Singles : RunSingle(c)
    BY <1>3
  <2>2. c \in Cnpj
    BY EnricherAssumption
  <2>3. Documents' /\ NodesGrow /\ NoNewName
    BY <1>0, <2>1, <2>2, EnsureGrows DEF RunSingle
  <2>4. Described'
    BY <1>0, <2>1 DEF RunSingle, Described, Named
  <2> QED
    BY <2>1, <2>3, <2>4, NodesWritten DEF RunSingle
<1>4. CASE Update
  <2>1. run.job.cnpj \in Cnpj /\ UpdateOrganizationEnrichment(run.job.cnpj)
    BY <1>4 DEF Job, Update
  <2>2. Documents' /\ NodesGrow /\ NoNewName
    BY <1>0, <2>1, EnsureGrows DEF UpdateOrganizationEnrichment
  <2>3. Described'
    <3> DEFINE M == Merged(run.job.cnpj)
               k == LegalName[run.job.cnpj]
    <3>1. /\ name' = [n \in Node |-> IF n \in M THEN {k} ELSE name[n]]
          /\ enriched' = [n \in Node |-> IF n \in M THEN "fresh" ELSE enriched[n]]
      BY <2>1 DEF UpdateOrganizationEnrichment
    <3>2. k \in NameKey
      BY <2>1, EntityFacts
    <3> HIDE DEF M, k
    <3> QED
      BY <1>0, <3>1, <3>2, DescribedAgain
  <2> QED
    BY <1>4, <2>2, <2>3, NodesWritten DEF Update
<1>5. ASSUME NEW s \in run.todo, FilePolitician(s)
      PROVE  WorkerStep
  <2>1. CASE UNCHANGED reviews
    BY <1>5, <2>1, <1>1 DEF FilePolitician, stores
  <2>2. CASE CreatePendingReview("politician_in_qsa", run.org, s)
    <3> DEFINE r == [type |-> "politician_in_qsa", org |-> run.org, who |-> s, status |-> "pending"]
    <3>1. r \in Review /\ r.status = "pending" /\ r.type = "politician_in_qsa"
      BY <1>5 DEF Review, Status, FilePolitician
    <3>2. reviews' = Append(reviews, r)
      BY <2>2 DEF CreatePendingReview
    <3> HIDE DEF r
    <3>3. RowFiled(r)
      BY <3>1, <3>2 DEF RowFiled
    <3> QED
      BY <1>5, <3>3, RowWritten DEF FilePolitician
  <2> QED
    BY <1>5, <2>1, <2>2 DEF FilePolitician
<1>6. CASE UpsertQSAPerson
  <2>1. run.socio \in Socio /\ UNCHANGED orgs
    BY <1>6 DEF UpsertQSAPerson, RunTyped, nodes
  <2>2. [type |-> "CONTROLS", org |-> run.org, to |-> run.socio] \in Edge
    BY <2>1, OrgEdges
  <2>3. EdgesTyped' /\ edges \subseteq edges'
    BY <1>0, <1>6, <2>1, <2>2, EnsureEdgeGrows DEF UpsertQSAPerson
  <2> QED
    BY <1>6, <2>3, EdgesWritten DEF UpsertQSAPerson
<1>7. CASE UpsertQSAOrganization
  <2>1. CASE run.org \notin orgs
    BY <1>7, <2>1, <1>1 DEF UpsertQSAOrganization, stores, graph
  <2>2. CASE run.org \in orgs
    <3> DEFINE c == run.socio
               new == {[type |-> "OWNED_BY", org |-> run.org, to |-> n] : n \in Merged(c)}
    <3>1. c \in Cnpj /\ EnsureOrganizationByCNPJ(c)
      BY <1>7, <2>2 DEF UpsertQSAOrganization, RunTyped
    <3>2. /\ Documents' /\ NodesGrow /\ NoNewName
          /\ Merged(c) \subseteq orgs' /\ Merged(c) \subseteq Node
      BY <1>0, <3>1, EnsureGrows
    <3>3. Described'
      BY <1>0, <1>7 DEF UpsertQSAOrganization, Described, Named
    <3>4. edges' = edges \cup new /\ UNCHANGED decided
      BY <1>7, <2>2 DEF UpsertQSAOrganization
    <3>5. ASSUME NEW e \in new
          PROVE  e \in Edge /\ Anchored(e)'
      <4>1. PICK n \in Merged(c) : e = [type |-> "OWNED_BY", org |-> run.org, to |-> n]
        OBVIOUS
      <4>2. e \in Edge
        BY <3>2, <4>1, OrgEdges
      <4>3. e.org = run.org /\ e.to = n
        BY <4>1
      <4> QED
        BY <2>2, <3>2, <4>2, <4>3 DEF Anchored, NodesGrow
    <3> HIDE DEF new, c
    <3>6. EdgesTyped'
      BY <1>0, <3>2, <3>4, <3>5 DEF EdgesTyped, Anchored, NodesGrow
    <3>7. ReviewsTyped' /\ TombstonesTyped'
      BY <1>7 DEF UpsertQSAOrganization, StoresTyped, ReviewsTyped, TombstonesTyped
    <3>8. Grows
      BY <1>7, <3>2, <3>4 DEF UpsertQSAOrganization, Grows, RowsGrow
    <3> QED
      BY <3>2, <3>3, <3>6, <3>7, <3>8 DEF WorkerStep, StoresTyped
  <2> QED
    BY <2>1, <2>2
<1>8. \/ PeriodPasses \/ (\E c \in Singles : RunSingle(c)) \/ Update \/ UpsertQSAPerson \/ UpsertQSAOrganization
      \/ (\E s \in run.todo : FilePolitician(s))
      \/ UNCHANGED stores
  BY DEF EnricherNext, EnricherStep, RunBegin, SkipVisited, Fetch, FetchFails, RunEnd, CheckSocio,
         QsaDone, EnrichFails, RunDies
<1> QED
  BY <1>1, <1>2, <1>3, <1>4, <1>5, <1>6, <1>7, <1>8

-------------------------------------------------------------------------------
(* The DJEN worker and the sanctions worker.                               *)

\* The types of what DJEN's and the sanctions worker have in their hands.
LEMMA DiscoveryFields ==
  ASSUME DiscoveryTyped
  PROVE  /\ djen.name \in Name /\ djen.case \in Case /\ link.sanction \in Sanction /\ link.org \in Node
         /\ djen.name \in Node /\ SanctionedCnpj[link.sanction] \in Cnpj
<1>1. djen.name \in Name /\ djen.case \in Case /\ link.sanction \in Sanction /\ link.org \in Node
  BY DEF DiscoveryTyped, DjenState, LinkState
<1> QED
  BY <1>1, EntityFacts, SystemAssumption

\* Their states stay well typed.
LEMMA DiscoveryStep ==
  ASSUME DiscoveryTyped, Documents, Discover \/ DjenStops
  PROVE  DiscoveryTyped'
<1> USE DiscoveryFields
<1>1. NoParty \in DjenState /\ NoLink \in LinkState
  BY EntityFacts DEF NoParty, DjenState, NoLink, LinkState
<1>2. ASSUME NEW m \in Name, NEW k \in Case, HandleCompanyParty(m, k)
      PROVE  DiscoveryTyped'
  <2> DEFINE pc2 == IF IsSubjectPurged(m) THEN "snap" ELSE "upsert"
  <2>1. djen' = [pc |-> pc2, name |-> m, case |-> k] /\ pc2 \in {"snap", "upsert"}
    BY <1>2 DEF HandleCompanyParty
  <2> HIDE DEF pc2
  <2>2. djen' \in DjenState
    BY <2>1 DEF DjenState
  <2> QED
    BY <1>2, <2>2 DEF HandleCompanyParty, DiscoveryTyped
<1>3. CASE DjenStep
  <2>1. djen' \in DjenState
    BY <1>1, <1>3 DEF DjenStep, UpsertCompany, CiteCompany, FileUnknownCNPJ, SnapshotCompany,
                      DiscoveryTyped, DjenState
  <2>2. handled' \subseteq Name \X Case
    BY <1>3 DEF DjenStep, UpsertCompany, CiteCompany, FileUnknownCNPJ, SnapshotCompany, DiscoveryTyped
  <2>3. UNCHANGED link
    BY <1>3 DEF DjenStep, UpsertCompany, CiteCompany, FileUnknownCNPJ, SnapshotCompany
  <2> QED
    BY <2>1, <2>2, <2>3 DEF DiscoveryTyped
<1>4. ASSUME NEW s \in Sanction, LinkCNPJ(s)
      PROVE  DiscoveryTyped'
  <2>1. link' = [NoLink EXCEPT !.pc = "ensure", !.sanction = s]
    BY <1>4 DEF LinkCNPJ
  <2>2. link' \in LinkState
    BY <1>1, <2>1 DEF LinkState
  <2> QED
    BY <1>4, <2>2 DEF LinkCNPJ, DiscoveryTyped
<1>5. CASE LinkEnsure
  <2> DEFINE c == SanctionedCnpj[link.sanction]
  <2>1. EnsureOrganizationByCNPJ(c)
    BY <1>5 DEF LinkEnsure
  <2>2. PICK n \in Merged(c) : link' = [link EXCEPT !.pc = "edge", !.org = n]
    BY <1>5 DEF LinkEnsure
  <2>3. Merged(c) \subseteq Node
    BY <2>1, EnsureGrows
  <2>4. link' \in LinkState
    BY <2>2, <2>3 DEF DiscoveryTyped, LinkState
  <2> QED
    BY <1>5, <2>4 DEF LinkEnsure, DiscoveryTyped
<1>6. CASE LinkEdge
  BY <1>1, <1>6 DEF LinkEdge, DiscoveryTyped
<1>7. CASE DjenStops
  BY <1>1, <1>7 DEF DjenStops, DiscoveryTyped
<1> QED
  BY <1>2, <1>3, <1>4, <1>5, <1>6, <1>7 DEF Discover, LinkStep

\* They delete nothing, and only the upsert of a company party makes a node of a name.
LEMMA DiscoveryGrows ==
  ASSUME StoresTyped, DiscoveryTyped, Discover \/ DjenStops
  PROVE  /\ StoresTyped' /\ Grows
         /\ \/ NoNewName
            \/ UpsertCompany /\ orgs' = orgs \cup {djen.name}
<1>0. Documents /\ Described /\ EdgesTyped
  BY DEF StoresTyped
<1> USE DiscoveryFields
<1>1. CASE UNCHANGED stores
  BY <1>1, StoresStay
<1>2. CASE UpsertCompany
  <2> DEFINE m == djen.name
  <2>1. orgs' = orgs \cup {m} /\ name' = [name EXCEPT ![m] = {m}]
        /\ UNCHANGED <<doc, enriched, edges, decided, reviews, tombstones>>
    BY <1>2 DEF UpsertCompany, UpsertDjenOrganization
  <2>2. m \in Node /\ m \notin Cnpj /\ m \in NameKey
    BY EntityFacts
  <2> HIDE DEF m
  <2>3. Documents' /\ NodesGrow
    BY <1>0, <2>1, <2>2 DEF Documents, NodesGrow, Entity
  <2>4. enriched' \in [Node -> Freshness] /\ name' \in [Node -> SUBSET NameKey]
    BY <1>0, <2>1, <2>2 DEF Described
  <2>5. ASSUME NEW n \in Node
        PROVE  Named(n)'
    <3>1. CASE n = m
      BY <1>0, <2>1, <2>2, <3>1 DEF Described, Named
    <3>2. CASE n # m
      BY <1>0, <2>1, <2>2, <3>2 DEF Described, Named
    <3> QED
      BY <3>1, <3>2
  <2>6. Described'
    BY <2>4, <2>5 DEF Described
  <2>7. EdgesTyped'
    BY <1>0, <2>1, EdgesStay
  <2>8. ReviewsTyped' /\ TombstonesTyped' /\ Grows
    BY <2>1, <2>3 DEF StoresTyped, ReviewsTyped, TombstonesTyped, Grows, RowsGrow
  <2> QED
    BY <1>2, <2>1, <2>3, <2>6, <2>7, <2>8 DEF StoresTyped, m
<1>3. CASE CiteCompany
  <2>1. [type |-> "DEFENDANT_IN", org |-> djen.name, to |-> djen.case] \in Edge
    BY OrgEdges
  <2>2. EdgesTyped' /\ edges \subseteq edges'
    BY <1>0, <1>3, <2>1, EnsureEdgeGrows DEF CiteCompany, nodes
  <2> QED
    BY <1>3, <2>2, EdgesWritten DEF CiteCompany, WorkerStep
<1>4. CASE FileUnknownCNPJ
  <2> DEFINE r == [type |-> "unknown_cnpj", org |-> djen.name, who |-> djen.name, status |-> "pending"]
  <2>1. r \in Review /\ r.status = "pending" /\ r.org = r.who
    BY DEF Review, Status
  <2>2. reviews' = Append(reviews, r)
    BY <1>4 DEF FileUnknownCNPJ, CreatePendingReview
  <2> HIDE DEF r
  <2>3. RowFiled(r)
    BY <2>1, <2>2 DEF RowFiled
  <2> QED
    BY <1>4, <2>3, RowWritten DEF FileUnknownCNPJ, WorkerStep
<1>5. CASE LinkEnsure
  <2>1. EnsureOrganizationByCNPJ(SanctionedCnpj[link.sanction])
    BY <1>5 DEF LinkEnsure
  <2>2. Documents' /\ NodesGrow /\ NoNewName
    BY <1>0, <2>1, EnsureGrows
  <2>3. Described'
    BY <1>0, <1>5 DEF LinkEnsure, Described, Named
  <2> QED
    BY <1>5, <2>2, <2>3, NodesWritten DEF LinkEnsure, WorkerStep
<1>6. CASE LinkEdge
  <2>1. [type |-> "SANCTIONED_IN", org |-> link.org, to |-> link.sanction] \in Edge
    BY OrgEdges
  <2>2. EdgesTyped' /\ edges \subseteq edges'
    BY <1>0, <1>6, <2>1, EnsureEdgeGrows DEF LinkEdge, nodes
  <2> QED
    BY <1>6, <2>2, EdgesWritten DEF LinkEdge, WorkerStep
<1>7. UpsertCompany \/ CiteCompany \/ FileUnknownCNPJ \/ LinkEnsure \/ LinkEdge \/ UNCHANGED stores
  BY DEF Discover, DjenStops, HandleCompanyParty, DjenStep, SnapshotCompany, LinkCNPJ, LinkStep
<1> QED
  BY <1>1, <1>2, <1>3, <1>4, <1>5, <1>6, <1>7

-------------------------------------------------------------------------------
(* The operators.                                                          *)

\* A row keeps its place and what it is about.
RowKept(i) == /\ i \in DOMAIN reviews' /\ reviews'[i].type = reviews[i].type
              /\ reviews'[i].org = reviews[i].org /\ reviews'[i].who = reviews[i].who
RowsKept == \A i \in DOMAIN reviews : RowKept(i)

\* Filing a row leaves the others what they are about.
LEMMA RowsAreKept ==
  ASSUME ReviewsTyped, RowsGrow
  PROVE  RowsKept
<1>1. CASE UNCHANGED reviews
  BY <1>1 DEF RowsKept, RowKept
<1>2. ASSUME NEW r \in Review, RowFiled(r)
      PROVE  RowsKept
  <2>1. reviews' = Append(reviews, r) /\ reviews \in Seq(Review)
    BY <1>2 DEF RowFiled, ReviewsTyped
  <2>2. \A i \in DOMAIN reviews : i \in DOMAIN reviews' /\ reviews'[i] = reviews[i]
    BY <2>1
  <2> QED
    BY <2>2 DEF RowsKept, RowKept
<1> QED
  BY <1>1, <1>2 DEF RowsGrow

\* A handler stays in order while rows keep what they are about.
LEMMA InOrderKept ==
  ASSUME RowsKept, NEW x, InOrder(x)
  PROVE  InOrder(x)'
BY DEF RowsKept, RowKept, InOrder, RowInHand, Entity

\* Operators a step does not concern are where they were.
LEMMA OperatorsStay ==
  ASSUME OpTyped, RowsKept, UNCHANGED op, requests' \in 0..MaxRequests, errors' \in 0..MaxErrors
  PROVE  OpTyped'
<1>1. AttachTypeOK'
  BY DEF OpTyped, AttachTypeOK
<1>2. ASSUME NEW o \in Operator
      PROVE  InOrder(op[o])'
  <2>1. PICK x : x = op[o]
    OBVIOUS
  <2>2. InOrder(x)'
    BY <2>1, InOrderKept DEF OpTyped
  <2> QED
    BY <2>1, <2>2 DEF InOrder, RowInHand
<1> QED
  BY <1>1, <1>2 DEF OpTyped

\* One operator goes on to x.
Moves(o, x) == /\ x \in OpState /\ op' = [op EXCEPT ![o] = x]
               /\ requests' \in 0..MaxRequests /\ errors' \in 0..MaxErrors

\* One handler's move to a state in order leaves all of them in order.
LEMMA OperatorMoves ==
  ASSUME OpTyped, RowsKept, NEW o \in Operator, NEW x, Moves(o, x), InOrder(x)
  PROVE  OpTyped'
<1>0. op \in [Operator -> OpState] /\ op' = [op EXCEPT ![o] = x]
  BY DEF OpTyped, AttachTypeOK, Moves
<1>1. AttachTypeOK'
  BY <1>0 DEF AttachTypeOK, Moves
<1>2. ASSUME NEW q \in Operator
      PROVE  InOrder(op[q])'
  <2>1. PICK y : y = op'[q]
    OBVIOUS
  <2>2. y = x \/ y = op[q]
    BY <1>0, <2>1
  <2>3. InOrder(y)
    BY <2>2 DEF OpTyped
  <2>4. InOrder(y)'
    BY <2>3, InOrderKept
  <2> QED
    BY <2>1, <2>4 DEF InOrder, RowInHand
<1> QED
  BY <1>1, <1>2 DEF OpTyped

\* Giving up ends in the idle state.
LEMMA NoOpMoves ==
  /\ NoOp \in OpState /\ NoOp.pc = "idle" /\ InOrder(NoOp)
  /\ \A o \in Operator : OpTyped /\ GiveUp(o) => Moves(o, NoOp)
<1>1. NoOp \in OpState /\ NoOp.pc = "idle"
  BY EntityFacts DEF NoOp, OpState
<1>2. InOrder(NoOp)
  BY <1>1 DEF InOrder
<1>3. \A o \in Operator : OpTyped /\ GiveUp(o) => Moves(o, NoOp)
  BY <1>1 DEF GiveUp, Moves, OpTyped, AttachTypeOK
<1> QED
  BY <1>1, <1>2, <1>3

\* The types of what an operator has in hand.
LEMMA OpFields ==
  ASSUME OpTyped, NEW o \in Operator
  PROVE  /\ op[o] \in OpState /\ op[o].org \in Node /\ op[o].dst \in Node /\ op[o].review \in Nat
         /\ op[o].keys \subseteq Cnpj \cup NameKey /\ InOrder(op[o])
<1>1. op[o] \in OpState /\ InOrder(op[o])
  BY DEF OpTyped, AttachTypeOK
<1> QED
  BY <1>1 DEF OpState

\* The next statement of the same approval: l is where the handler goes.
LEMMA GotoMoves ==
  ASSUME OpTyped, NEW o \in Operator,
         NEW l \in {"set", "defendant", "controls", "name", "delete", "link", "mark", "purge", "tomb", "scrub"},
         Goto(o, l)
  PROVE  \E x : /\ Moves(o, x) /\ x.pc = l /\ x.review = op[o].review /\ x.org = op[o].org
                /\ x.dst = op[o].dst /\ x.keys = op[o].keys
<1> DEFINE x == [op[o] EXCEPT !.pc = l]
<1>1. op \in [Operator -> OpState] /\ op[o] \in OpState
  BY DEF OpTyped, AttachTypeOK
<1>2. x \in OpState
  BY <1>1 DEF OpState
<1>3. /\ x.pc = l /\ x.review = op[o].review /\ x.org = op[o].org
      /\ x.dst = op[o].dst /\ x.keys = op[o].keys
  BY <1>1 DEF OpState
<1>4. op' = [op EXCEPT ![o] = x] /\ UNCHANGED <<requests, errors>>
  BY DEF Goto
<1> HIDE DEF x
<1>5. Moves(o, x)
  BY <1>2, <1>4 DEF Moves, OpTyped, AttachTypeOK
<1> QED
  BY <1>3, <1>5

\* Moving the edges of a type anchors them at the other holder, which is there.
LEMMA MovedEdges ==
  ASSUME StoresTyped, OpTyped, NEW o \in Operator, NEW t \in {"DEFENDANT_IN", "CONTROLS"}, MoveEdges(o, t)
  PROVE  StoresTyped' /\ RowsKept
<1> DEFINE src == op[o].org
           dst == op[o].dst
           moved == {e \in edges : e.type = t /\ e.org = src}
           OnDst(S) == {[e EXCEPT !.org = dst] : e \in S}
           there == OnDst(moved)
           told == OnDst(moved \cap decided)
<1>1. \/ /\ {src, dst} \subseteq orgs /\ edges' = (edges \ moved) \cup there
         /\ decided' = (decided \ (moved \cup there)) \cup told
      \/ UNCHANGED <<edges, decided>>
  BY DEF MoveEdges
<1>2. UNCHANGED <<orgs, doc, name, enriched, reviews, tombstones>>
  BY DEF MoveEdges, nodes
<1>3. EdgesTyped /\ dst \in Node
  BY OpFields DEF StoresTyped
<1>4. ASSUME NEW f \in there
      PROVE  f \in Edge /\ f.org = dst /\ f.type # "OWNED_BY"
  <2>1. PICK e \in moved : f = [e EXCEPT !.org = dst]
    OBVIOUS
  <2>2. e \in Edge /\ e.type = t /\ e.type # "OWNED_BY"
    BY <1>3 DEF EdgesTyped
  <2> QED
    BY <1>3, <2>1, <2>2 DEF Edge
<1>8. ASSUME NEW f \in told
      PROVE  f \in there /\ f.type = "DEFENDANT_IN"
  <2>1. PICK e \in moved \cap decided : f = [e EXCEPT !.org = dst]
    OBVIOUS
  <2>2. e \in Edge /\ e.type = "DEFENDANT_IN"
    BY <1>3 DEF EdgesTyped
  <2>3. f.type = e.type
    BY <2>1, <2>2 DEF Edge
  <2> QED
    BY <2>1, <2>2, <2>3
<1> HIDE DEF src, dst, there, told
<1>9. edges' \subseteq Edge /\ \A e \in edges' : Anchored(e)'
  BY <1>1, <1>2, <1>3, <1>4 DEF EdgesTyped, Anchored
<1>10. decided' \subseteq {e \in edges' : e.type = "DEFENDANT_IN"}
  BY <1>1, <1>3, <1>8 DEF EdgesTyped
<1>5. EdgesTyped'
  BY <1>9, <1>10 DEF EdgesTyped
<1>6. Documents' /\ Described' /\ ReviewsTyped' /\ TombstonesTyped'
  BY <1>2 DEF StoresTyped, Documents, Described, Named, ReviewsTyped, TombstonesTyped, Entity
<1>7. RowsKept
  BY <1>2 DEF RowsKept, RowKept
<1> QED
  BY <1>5, <1>6, <1>7 DEF StoresTyped

\* Deleting a node takes its edges and document along.
LEMMA DeletedNode ==
  ASSUME StoresTyped, NEW n \in Node, DeleteNode(n), UNCHANGED <<reviews, tombstones>>
  PROVE  StoresTyped' /\ RowsKept
<1>1. /\ orgs' = orgs \ {n} /\ doc' = [doc EXCEPT ![n] = {}] /\ name' = [name EXCEPT ![n] = {}]
      /\ enriched' = [enriched EXCEPT ![n] = "never"] /\ edges' = edges \ Touching(n)
      /\ decided' = decided \ Touching(n)
  BY DEF DeleteNode
<1>2. Documents /\ Described /\ EdgesTyped
  BY DEF StoresTyped
<1>3. Documents'
  BY <1>1, <1>2 DEF Documents, Entity
<1>4. enriched' \in [Node -> Freshness] /\ name' \in [Node -> SUBSET NameKey]
  BY <1>1, <1>2 DEF Described, Freshness
<1>5. ASSUME NEW m \in Node
      PROVE  Named(m)'
  <2>1. name'[m] = {} \/ name'[m] = name[m]
    BY <1>1, <1>2 DEF Described
  <2> QED
    BY <1>2, <2>1 DEF Described, Named
<1>6. EdgesTyped'
  BY <1>1, <1>2 DEF EdgesTyped, Anchored, Touching
<1>7. ReviewsTyped' /\ TombstonesTyped' /\ RowsKept
  BY DEF StoresTyped, ReviewsTyped, TombstonesTyped, RowsKept, RowKept
<1> QED
  BY <1>3, <1>4, <1>5, <1>6, <1>7 DEF StoresTyped, Described

\* A step that only changes the status of rows.
LEMMA RestatedRows ==
  ASSUME StoresTyped, UNCHANGED <<graph, tombstones>>, DOMAIN reviews' = DOMAIN reviews,
         reviews' \in Seq(Review), RowsKept
  PROVE  StoresTyped'
<1>1. UNCHANGED <<orgs, doc, name, enriched, edges, decided>>
  BY DEF graph
<1>2. Documents' /\ Described' /\ EdgesTyped' /\ TombstonesTyped'
  BY <1>1 DEF StoresTyped, Documents, Described, Named, EdgesTyped, Anchored, TombstonesTyped, Entity
<1>3. ReviewsTyped'
  BY DEF StoresTyped, ReviewsTyped, RowsKept, RowKept
<1> QED
  BY <1>2, <1>3 DEF StoresTyped

\* A row with another status is about the same things.
LEMMA RestatedRow ==
  ASSUME NEW r \in Review, NEW st \in Status
  PROVE  /\ [r EXCEPT !.status = st] \in Review /\ [r EXCEPT !.status = st].type = r.type
         /\ [r EXCEPT !.status = st].org = r.org /\ [r EXCEPT !.status = st].who = r.who
         /\ [r EXCEPT !.status = st].status = st /\ r.status \in Status
BY DEF Review

\* Marking approves the operator's row and leaves the others.
LEMMA MarkedRows ==
  ASSUME StoresTyped, OpTyped, NEW o \in Operator, MarkApproved(o)
  PROVE  /\ reviews' \in Seq(Review) /\ DOMAIN reviews' = DOMAIN reviews /\ RowsKept
         /\ op[o].review \in DOMAIN reviews
         /\ \A i \in DOMAIN reviews : i # op[o].review => reviews'[i] = reviews[i]
         /\ \A i \in DOMAIN reviews : \/ reviews'[i].status = reviews[i].status
                                      \/ reviews'[i].status = "approved"
         /\ \A i \in DOMAIN reviews : reviews[i].status = "scrubbed" => reviews'[i].status = "scrubbed"
<1> DEFINE k == op[o].review
           st == IF reviews[k].status = "scrubbed" THEN "scrubbed" ELSE "approved"
           r == [reviews[k] EXCEPT !.status = st]
<1>1. k \in DOMAIN reviews
  BY OpFields DEF MarkApproved, At, InOrder
<1>2. reviews \in Seq(Review) /\ reviews[k] \in Review
  BY <1>1 DEF StoresTyped, ReviewsTyped
<1>3. reviews' = [reviews EXCEPT ![k] = r]
  BY <1>1, <1>2 DEF MarkApproved
<1>4. st \in Status /\ (st = "approved" \/ (st = "scrubbed" /\ reviews[k].status = "scrubbed"))
  BY DEF Status
<1>5. reviews[k].status = "scrubbed" => st = "scrubbed"
  OBVIOUS
<1> HIDE DEF st
<1>6. r \in Review /\ r.type = reviews[k].type /\ r.org = reviews[k].org /\ r.who = reviews[k].who /\ r.status = st
  BY <1>2, <1>4, RestatedRow
<1> HIDE DEF r, k
<1>7. reviews' \in Seq(Review) /\ DOMAIN reviews' = DOMAIN reviews
  BY <1>1, <1>2, <1>3, <1>6
<1>8. \A i \in DOMAIN reviews : (i # k => reviews'[i] = reviews[i]) /\ (i = k => reviews'[i] = r)
  BY <1>1, <1>2, <1>3
<1>9. RowsKept
  BY <1>6, <1>7, <1>8 DEF RowsKept, RowKept
<1> QED
  BY <1>1, <1>4, <1>5, <1>6, <1>7, <1>8, <1>9 DEF k

\* A rejection changes the status of its row, and no other.
LEMMA RejectedRows ==
  ASSUME StoresTyped, NEW o \in Operator, NEW k \in DOMAIN reviews, Reject(o, k)
  PROVE  /\ reviews' \in Seq(Review) /\ DOMAIN reviews' = DOMAIN reviews /\ RowsKept
         /\ reviews'[k].status = "rejected"
         /\ \A i \in DOMAIN reviews : i # k => reviews'[i] = reviews[i]
<1> DEFINE r == [reviews[k] EXCEPT !.status = "rejected"]
<1>1. reviews \in Seq(Review) /\ reviews[k] \in Review /\ "rejected" \in Status
  BY DEF StoresTyped, ReviewsTyped, Status
<1>2. reviews' = [reviews EXCEPT ![k] = r]
  BY DEF Reject
<1>3. /\ r \in Review /\ r.type = reviews[k].type /\ r.org = reviews[k].org
      /\ r.who = reviews[k].who /\ r.status = "rejected"
  BY <1>1, RestatedRow
<1> HIDE DEF r
<1>4. reviews' \in Seq(Review) /\ DOMAIN reviews' = DOMAIN reviews
  BY <1>1, <1>2, <1>3
<1>5. \A i \in DOMAIN reviews : (i # k => reviews'[i] = reviews[i]) /\ (i = k => reviews'[i] = r)
  BY <1>1, <1>2, <1>3
<1>6. RowsKept
  BY <1>3, <1>4, <1>5 DEF RowsKept, RowKept
<1> QED
  BY <1>3, <1>4, <1>5, <1>6

\* A scrub leaves the status of a row, or deletes a row that names what is purged.
LEMMA ScrubbedRows ==
  ASSUME StoresTyped, OpTyped, NEW o \in Operator, ScrubName(o)
  PROVE  /\ reviews' \in Seq(Review) /\ DOMAIN reviews' = DOMAIN reviews /\ RowsKept
         /\ \A i \in DOMAIN reviews : \/ reviews'[i].status = reviews[i].status
                                      \/ /\ reviews'[i].status = "scrubbed"
                                         /\ reviews[i].who \in op[o].keys
<1>1. reviews \in Seq(Review) /\ DOMAIN reviews = 1..Len(reviews)
  BY DEF StoresTyped, ReviewsTyped
<1> DEFINE f(i) == IF reviews[i].type = "unknown_cnpj" /\ reviews[i].who \in op[o].keys
                   THEN [reviews[i] EXCEPT !.status = "scrubbed"] ELSE reviews[i]
<1>2. reviews' = [i \in DOMAIN reviews |-> f(i)]
  BY DEF ScrubName
<1>3. ASSUME NEW i \in DOMAIN reviews
      PROVE  /\ f(i) \in Review /\ f(i).type = reviews[i].type /\ f(i).org = reviews[i].org
             /\ f(i).who = reviews[i].who
             /\ \/ f(i).status = reviews[i].status
                \/ f(i).status = "scrubbed" /\ reviews[i].who \in op[o].keys
  <2>1. reviews[i] \in Review /\ "scrubbed" \in Status
    BY <1>1 DEF Status
  <2> QED
    BY <2>1, RestatedRow
<1> HIDE DEF f
<1>4. DOMAIN reviews' = 1..Len(reviews) /\ Len(reviews) \in Nat
  BY <1>1, <1>2
<1>5. reviews' \in Seq(Review)
  <2>1. reviews' \in [1..Len(reviews) -> Review]
    BY <1>1, <1>2, <1>3
  <2> QED
    BY <1>4, <2>1
<1>6. \A i \in DOMAIN reviews : reviews'[i] = f(i)
  BY <1>2
<1>7. RowsKept
  BY <1>1, <1>3, <1>4, <1>6 DEF RowsKept, RowKept
<1> QED
  BY <1>1, <1>3, <1>4, <1>5, <1>6, <1>7

\* An approval of a row about a name is about the node of that name.
LEMMA NameInHand ==
  ASSUME StoresTyped, NEW x, RowInHand(x, "unknown_cnpj")
  PROVE  /\ x.org \in Name /\ reviews[x.review].who = x.org /\ Entity(x.org) = CnpjOf[x.org]
         /\ CnpjOf[x.org] \in Cnpj
<1>1. reviews[x.review] \in Review /\ reviews[x.review].type = "unknown_cnpj" /\ reviews[x.review].org = x.org
  BY DEF RowInHand, StoresTyped, ReviewsTyped
<1>2. reviews[x.review].who \in Name
  BY <1>1 DEF Review
<1>3. reviews[x.review].org = reviews[x.review].who
  BY DEF RowInHand, StoresTyped, ReviewsTyped
<1> QED
  BY <1>1, <1>2, <1>3, EntityFacts, OrgStoreAssumption

\* The document goes to the node of the name if it is still there; otherwise the
\* handler fails.
LEMMA SetCnpjStores ==
  ASSUME StoresTyped, OpTyped, NEW o \in Operator, SetCnpj(o)
  PROVE  /\ StoresTyped' /\ RowsKept
         /\ op[o].org \in Name /\ UNCHANGED <<orgs, edges>>
         /\ \/ op[o].org \in orgs /\ doc' = [doc EXCEPT ![op[o].org] = {CnpjOf[op[o].org]}] /\ Goto(o, "mark")
            \/ op[o].org \notin orgs /\ UNCHANGED doc /\ GiveUp(o)
<1> DEFINE n == op[o].org
<1>1. RowInHand(op[o], "unknown_cnpj")
  BY OpFields DEF SetCnpj, At, InOrder
<1>2. n \in Name /\ reviews[op[o].review].who = n /\ Entity(n) = CnpjOf[n] /\ CnpjOf[n] \in Cnpj /\ n \in Node
  BY <1>1, NameInHand, EntityFacts
<1>3. \/ n \in orgs /\ doc' = [doc EXCEPT ![n] = {CnpjOf[n]}] /\ Goto(o, "mark")
      \/ n \notin orgs /\ UNCHANGED doc /\ GiveUp(o)
  BY <1>2 DEF SetCnpj
<1>4. UNCHANGED <<orgs, name, enriched, edges, decided, reviews, tombstones>>
  BY DEF SetCnpj
<1> HIDE DEF n
<1>5. Documents
  BY DEF StoresTyped
<1>6. Documents'
  <2>1. CASE UNCHANGED doc
    BY <1>4, <1>5, <2>1 DEF Documents, Entity
  <2>2. CASE n \in orgs /\ doc' = [doc EXCEPT ![n] = {CnpjOf[n]}]
    <3>1. doc' \in [Node -> SUBSET Cnpj]
      BY <1>2, <1>5, <2>2 DEF Documents
    <3>2. \A m \in Node : doc'[m] = IF m = n THEN {CnpjOf[n]} ELSE doc[m]
      BY <1>5, <2>2 DEF Documents
    <3> QED
      BY <1>2, <1>4, <1>5, <2>2, <3>1, <3>2 DEF Documents, Entity
  <2> QED
    BY <1>3, <2>1, <2>2
<1>7. Described' /\ EdgesTyped' /\ ReviewsTyped' /\ TombstonesTyped' /\ RowsKept
  BY <1>4 DEF StoresTyped, Described, Named, EdgesTyped, Anchored, ReviewsTyped, TombstonesTyped,
              RowsKept, RowKept
<1> QED
  BY <1>2, <1>3, <1>4, <1>6, <1>7 DEF StoresTyped, n

\* Copying the name to the other holder keeps one name a node.
LEMMA CopyNameStores ==
  ASSUME StoresTyped, OpTyped, NEW o \in Operator, CopyName(o)
  PROVE  StoresTyped' /\ RowsKept
<1> DEFINE src == op[o].org
           dst == op[o].dst
<1>1. name' = [name EXCEPT ![dst] = name[src]] \/ UNCHANGED name
  BY DEF CopyName
<1>2. UNCHANGED <<orgs, doc, enriched, edges, decided, reviews, tombstones>>
  BY DEF CopyName
<1>3. src \in Node /\ dst \in Node /\ Described
  BY OpFields DEF StoresTyped
<1> HIDE DEF src, dst
<1>4. name' \in [Node -> SUBSET NameKey]
  BY <1>1, <1>3 DEF Described
<1>5. \A n \in Node : name'[n] = name[n] \/ name'[n] = name[src]
  BY <1>1, <1>3 DEF Described
<1>6. \A n \in Node : Named(n)'
  BY <1>3, <1>5 DEF Described, Named
<1>7. Described'
  BY <1>2, <1>3, <1>4, <1>6 DEF Described
<1>8. Documents' /\ EdgesTyped' /\ ReviewsTyped' /\ TombstonesTyped' /\ RowsKept
  BY <1>2 DEF StoresTyped, Documents, Entity, EdgesTyped, Anchored, ReviewsTyped, TombstonesTyped,
              RowsKept, RowKept
<1> QED
  BY <1>7, <1>8 DEF StoresTyped

\* The approved edge is written to a node that is there.
LEMMA LinkedStores ==
  ASSUME StoresTyped, OpTyped, NEW o \in Operator, EnsurePoliticianControls(o)
  PROVE  /\ StoresTyped' /\ RowsKept /\ edges \subseteq edges'
         /\ RowInHand(op[o], "politician_in_qsa")
<1> DEFINE who == reviews[op[o].review].who
<1>1. RowInHand(op[o], "politician_in_qsa") /\ op[o].org \in Node
  BY OpFields DEF EnsurePoliticianControls, At, InOrder
<1>2. who \in Socio
  <2>1. reviews[op[o].review] \in Review /\ reviews[op[o].review].type = "politician_in_qsa"
    BY <1>1 DEF RowInHand, StoresTyped, ReviewsTyped
  <2>2. who \in Politician
    BY <2>1 DEF Review
  <2> QED
    BY <2>2, EntityFacts
<1>3. [type |-> "CONTROLS", org |-> op[o].org, to |-> who] \in Edge
  BY <1>1, <1>2, OrgEdges
<1>4. edges' = EnsureEdge("CONTROLS", op[o].org, who) /\ UNCHANGED <<nodes, decided, reviews, tombstones>>
  BY DEF EnsurePoliticianControls
<1> HIDE DEF who
<1>5. EdgesTyped' /\ edges \subseteq edges'
  BY <1>3, <1>4, EnsureEdgeGrows DEF StoresTyped, nodes
<1>6. StoresTyped' /\ RowsKept
  BY <1>4, <1>5, EdgesWritten DEF WorkerStep, RowsKept, RowKept
<1> QED
  BY <1>1, <1>5, <1>6

OperatorAction(o) ==
  \/ \E i \in DOMAIN reviews : ApproveUnknownCNPJ(o, i) \/ ApprovePoliticianInQSA(o, i) \/ Reject(o, i)
  \/ \E e \in edges : SetDefendantOutcome(o, e)
  \/ \E n \in Node : PurgeBegin(o, n)
  \/ OperatorStep(o)
  \/ OperationFails(o)

\* A request that comes in writes a rejection or an outcome, if anything; a
\* handler that fails or finds something writes nothing.
LEMMA RequestWrites ==
  ASSUME NEW o \in Operator, OperatorAction(o), ~OperatorStep(o) \/ FindHolder(o)
  PROVE  /\ UNCHANGED <<orgs, doc, name, enriched, edges, tombstones>>
         /\ UNCHANGED reviews \/ \E i \in DOMAIN reviews : Reject(o, i)
         /\ UNCHANGED decided \/ \E e \in edges : SetDefendantOutcome(o, e)
<1>1. OperationFails(o) \/ FindHolder(o) \/ (\E n \in Node : PurgeBegin(o, n)) => UNCHANGED stores
  BY DEF OperationFails, FindHolder, PurgeBegin
<1>2. ASSUME NEW i \in DOMAIN reviews, ApproveUnknownCNPJ(o, i) \/ ApprovePoliticianInQSA(o, i)
      PROVE  UNCHANGED stores
  BY <1>2 DEF ApproveUnknownCNPJ, ApprovePoliticianInQSA, Approve
<1>3. ASSUME NEW i \in DOMAIN reviews, Reject(o, i)
      PROVE  UNCHANGED <<graph, tombstones>>
  BY <1>3 DEF Reject
<1>4. ASSUME NEW e \in edges, SetDefendantOutcome(o, e)
      PROVE  UNCHANGED <<nodes, edges, reviews, tombstones>>
  BY <1>4 DEF SetDefendantOutcome
<1>5. \/ UNCHANGED stores \/ \E i \in DOMAIN reviews : Reject(o, i)
      \/ \E e \in edges : SetDefendantOutcome(o, e)
  BY <1>1, <1>2 DEF OperatorAction
<1>6. CASE UNCHANGED stores
  BY <1>6 DEF stores, graph
<1>7. CASE \E i \in DOMAIN reviews : Reject(o, i)
  BY <1>3, <1>7 DEF graph
<1>8. CASE \E e \in edges : SetDefendantOutcome(o, e)
  BY <1>4, <1>8 DEF nodes
<1> QED
  BY <1>5, <1>6, <1>7, <1>8

\* An outcome is recorded on an edge of a defendant.
LEMMA OutcomeStores ==
  ASSUME StoresTyped, NEW o \in Operator, NEW e \in edges, SetDefendantOutcome(o, e)
  PROVE  StoresTyped' /\ RowsKept
<1>1. UNCHANGED <<orgs, doc, name, enriched, edges, reviews, tombstones>>
  BY DEF SetDefendantOutcome, nodes
<1>2. decided' \subseteq {f \in edges : f.type = "DEFENDANT_IN"}
  BY DEF SetDefendantOutcome, StoresTyped, EdgesTyped
<1>3. Documents' /\ Described' /\ EdgesTyped' /\ ReviewsTyped' /\ TombstonesTyped' /\ RowsKept
  BY <1>1, <1>2 DEF StoresTyped, Documents, Described, Named, Entity, EdgesTyped, Anchored, ReviewsTyped,
                    TombstonesTyped, RowsKept, RowKept
<1> QED
  BY <1>3 DEF StoresTyped

\* No statement of an operator leaves the stores ill typed.
LEMMA OperatorStores ==
  ASSUME StoresTyped, OpTyped, NEW o \in Operator, OperatorAction(o)
  PROVE  StoresTyped' /\ RowsKept
<1>0. op[o].org \in Node /\ op[o].keys \subseteq Cnpj \cup NameKey
  BY OpFields
<1>1. CASE UNCHANGED stores
  <2>1. StoresTyped' /\ UNCHANGED reviews
    BY <1>1, StoresStay DEF stores
  <2> QED
    BY <2>1 DEF RowsKept, RowKept
<1>2. CASE SetCnpj(o)
  BY <1>2, SetCnpjStores
<1>3. CASE MoveDefendantIn(o) \/ MoveControls(o)
  BY <1>3, MovedEdges DEF MoveDefendantIn, MoveControls
<1>4. CASE CopyName(o)
  BY <1>4, CopyNameStores
<1>5. CASE DeleteSource(o) /\ ~UNCHANGED graph
  BY <1>0, <1>5, DeletedNode DEF DeleteSource
<1>6. CASE EnsurePoliticianControls(o)
  BY <1>6, LinkedStores
<1>7. CASE MarkApproved(o)
  BY <1>7, MarkedRows, RestatedRows DEF MarkApproved
<1>8. CASE PurgeNode(o)
  BY <1>0, <1>8, DeletedNode DEF PurgeNode
<1>9. CASE CreatePurgeTombstones(o)
  <2>1. UNCHANGED <<orgs, doc, name, enriched, edges, decided, reviews>> /\ tombstones' = tombstones \cup op[o].keys
    BY <1>9 DEF CreatePurgeTombstones, graph
  <2>2. TombstonesTyped'
    BY <1>0, <2>1 DEF StoresTyped, TombstonesTyped
  <2>3. Documents' /\ Described' /\ EdgesTyped' /\ ReviewsTyped' /\ RowsKept
    BY <2>1 DEF StoresTyped, Documents, Described, Named, Entity, EdgesTyped, Anchored, ReviewsTyped,
                RowsKept, RowKept
  <2> QED
    BY <2>2, <2>3 DEF StoresTyped
<1>10. CASE ScrubName(o)
  BY <1>10, ScrubbedRows, RestatedRows DEF ScrubName
<1>11. CASE \E i \in DOMAIN reviews : Reject(o, i)
  BY <1>11, RejectedRows, RestatedRows DEF Reject
<1>12. CASE \E e \in edges : SetDefendantOutcome(o, e)
  BY <1>12, OutcomeStores
<1>13. \/ SetCnpj(o) \/ MoveDefendantIn(o) \/ MoveControls(o) \/ CopyName(o) \/ (DeleteSource(o) /\ ~UNCHANGED graph)
       \/ EnsurePoliticianControls(o) \/ MarkApproved(o) \/ PurgeNode(o) \/ CreatePurgeTombstones(o)
       \/ ScrubName(o) \/ (\E i \in DOMAIN reviews : Reject(o, i))
       \/ (\E e \in edges : SetDefendantOutcome(o, e)) \/ UNCHANGED stores
  <2>1. DeleteSource(o) /\ UNCHANGED graph => UNCHANGED stores
    BY DEF DeleteSource, stores
  <2>2. CASE ~OperatorStep(o) \/ FindHolder(o)
    BY <2>2, RequestWrites DEF stores, graph
  <2> QED
    BY <2>1, <2>2 DEF OperatorStep
<1> QED
  BY <1>1, <1>2, <1>3, <1>4, <1>5, <1>6, <1>7, <1>8, <1>9, <1>10, <1>11, <1>12, <1>13

\* What a step of an operator's handler comes to: to "mark" by the statement that
\* did what was approved, to "scrub" once the tombstones stand.
Comes(o, x) ==
  /\ Moves(o, x) /\ InOrder(x)
  /\ x.pc = "mark" => /\ x.review = op[o].review
                      /\ SetCnpj(o) \/ DeleteSource(o) \/ EnsurePoliticianControls(o)
  /\ x.pc = "scrub" => x.keys = op[o].keys /\ CreatePurgeTombstones(o)

\* What an approval begins with.
LEMMA BegunMoves ==
  ASSUME OpTyped, NEW o \in Operator, NEW i \in Nat, NEW s \in OpState, Approve(o, i, s)
  PROVE  Moves(o, s)
<1>1. requests' \in 0..MaxRequests /\ errors' \in 0..MaxErrors
  BY AttachAssumption DEF Approve, Asked, OpTyped, AttachTypeOK
<1> QED
  BY <1>1 DEF Approve, Moves

\* An approval begins before "mark".
LEMMA ApproveMoves ==
  ASSUME StoresTyped, OpTyped, NEW o \in Operator, NEW i \in DOMAIN reviews,
         ApproveUnknownCNPJ(o, i) \/ ApprovePoliticianInQSA(o, i)
  PROVE  \E x : Comes(o, x)
<1> DEFINE n == reviews[i].org
           l == IF reviews[i].type = "unknown_cnpj" THEN "look" ELSE "link"
           x == [NoOp EXCEPT !.pc = l, !.review = i, !.org = n]
<1>1. i \in Nat /\ reviews[i] \in Review /\ n \in Node
  <2>1. reviews \in Seq(Review)
    BY DEF StoresTyped, ReviewsTyped
  <2>2. reviews[i] \in Review /\ i \in Nat
    BY <2>1
  <2> QED
    BY <2>2, EntityFacts DEF Review
<1>2. NoOp \in OpState
  BY NoOpMoves
<1>3. /\ Approve(o, i, x)
      /\ \/ l = "look" /\ reviews[i].type = "unknown_cnpj"
         \/ l = "link" /\ reviews[i].type = "politician_in_qsa"
  BY DEF ApproveUnknownCNPJ, ApprovePoliticianInQSA
<1> HIDE DEF l
<1>4. x \in OpState /\ x.pc = l /\ x.review = i /\ x.org = n
  BY <1>1, <1>2, <1>3 DEF OpState
<1> HIDE DEF x
<1>5. Moves(o, x)
  BY <1>1, <1>3, <1>4, BegunMoves
<1>6. InOrder(x)
  BY <1>3, <1>4 DEF InOrder, RowInHand
<1> QED
  BY <1>3, <1>4, <1>5, <1>6 DEF Comes

\* So does a purge, which never comes to it.
LEMMA PurgeMoves ==
  ASSUME StoresTyped, OpTyped, NEW o \in Operator, NEW n \in Node, PurgeBegin(o, n)
  PROVE  \E x : Comes(o, x)
<1> DEFINE ks == doc[n] \cup name[n]
           x == [NoOp EXCEPT !.pc = "purge", !.org = n, !.keys = ks]
<1>1. ks \subseteq Cnpj \cup NameKey
  BY DEF StoresTyped, Documents, Described
<1>2. op' = [op EXCEPT ![o] = x]
  BY DEF PurgeBegin
<1> HIDE DEF ks
<1>3. x \in OpState /\ x.pc = "purge"
  BY <1>1, NoOpMoves DEF OpState
<1> HIDE DEF x
<1>4. requests' \in 0..MaxRequests /\ errors' \in 0..MaxErrors
  BY AttachAssumption DEF PurgeBegin, Asked, OpTyped, AttachTypeOK
<1> QED
  BY <1>2, <1>3, <1>4 DEF Comes, Moves, InOrder

\* The other holder stands for the company of the name.
LEMMA FindMoves ==
  ASSUME StoresTyped, OpTyped, NEW o \in Operator, FindHolder(o)
  PROVE  \E x : Comes(o, x)
<1> DEFINE found == Others(op[o].org, CnpjOf[reviews[op[o].review].who])
<1>1. RowInHand(op[o], "unknown_cnpj") /\ op[o] \in OpState
  BY OpFields DEF FindHolder, At, InOrder
<1>2. CASE found = {}
  <2>1. Goto(o, "set")
    BY <1>2 DEF FindHolder
  <2>2. PICK x : Moves(o, x) /\ x.pc = "set" /\ x.review = op[o].review /\ x.org = op[o].org
    BY <2>1, GotoMoves
  <2> QED
    BY <1>1, <2>2 DEF Comes, InOrder, RowInHand
<1>3. CASE found # {}
  <2>1. PICK d \in found : /\ op' = [op EXCEPT ![o].pc = "defendant", ![o].dst = d]
                           /\ UNCHANGED <<requests, errors>>
    BY <1>3 DEF FindHolder
  <2>2. d \in Node /\ Entity(d) = Entity(op[o].org)
    <3>1. reviews[op[o].review].who = op[o].org /\ Entity(op[o].org) = CnpjOf[op[o].org]
      BY <1>1, NameInHand
    <3> QED
      BY <3>1 DEF Others, Holders, StoresTyped, Documents
  <2> DEFINE x == [op[o] EXCEPT !.pc = "defendant", !.dst = d]
  <2>3. op' = [op EXCEPT ![o] = x]
    BY <2>1
  <2>4. /\ x \in OpState /\ x.pc = "defendant" /\ x.dst = d
        /\ x.review = op[o].review /\ x.org = op[o].org
    BY <1>1, <2>2 DEF OpState
  <2> HIDE DEF x
  <2>5. Moves(o, x)
    BY <2>1, <2>3, <2>4 DEF Moves, OpTyped, AttachTypeOK
  <2>6. InOrder(x)
    BY <1>1, <2>2, <2>4 DEF InOrder, RowInHand
  <2> QED
    BY <2>4, <2>5, <2>6 DEF Comes
<1> QED
  BY <1>2, <1>3

\* Each statement of an approval leaves the handler with the same row.
LEMMA StatementMoves ==
  ASSUME StoresTyped, OpTyped, NEW o \in Operator, OperatorStep(o)
  PROVE  \E x : Comes(o, x)
<1> DEFINE Done == \E x : Comes(o, x)
<1>0. InOrder(op[o])
  BY OpFields
<1>1. CASE GiveUp(o)
  BY <1>1, NoOpMoves DEF Comes
<1>2. ASSUME Goto(o, "mark"), SetCnpj(o) \/ DeleteSource(o) \/ EnsurePoliticianControls(o)
      PROVE  Done
  <2>1. op[o].review \in DOMAIN reviews
    BY <1>0, <1>2 DEF SetCnpj, DeleteSource, EnsurePoliticianControls, At, InOrder, RowInHand
  <2>2. PICK x : Moves(o, x) /\ x.pc = "mark" /\ x.review = op[o].review
    BY <1>2, GotoMoves
  <2>3. InOrder(x)
    BY <2>1, <2>2 DEF InOrder
  <2> QED
    BY <1>2, <2>2, <2>3 DEF Comes
<1>3. ASSUME NEW l \in {"controls", "name", "delete"}, Goto(o, l), op[o].pc \in {"defendant", "controls", "name"}
      PROVE  Done
  <2>1. PICK x : /\ Moves(o, x) /\ x.pc = l /\ x.review = op[o].review /\ x.org = op[o].org
                 /\ x.dst = op[o].dst
    BY <1>3, GotoMoves
  <2>2. RowInHand(op[o], "unknown_cnpj") /\ Entity(op[o].dst) = Entity(op[o].org)
    BY <1>0, <1>3 DEF InOrder
  <2>3. InOrder(x)
    BY <2>1, <2>2 DEF InOrder, RowInHand
  <2> QED
    BY <2>1, <2>3 DEF Comes
<1>4. ASSUME NEW l \in {"tomb", "scrub"}, Goto(o, l), l = "scrub" => CreatePurgeTombstones(o)
      PROVE  Done
  <2>1. PICK x : Moves(o, x) /\ x.pc = l /\ x.keys = op[o].keys
    BY <1>4, GotoMoves
  <2> QED
    BY <1>4, <2>1 DEF Comes, InOrder
<1>6. CASE FindHolder(o)
  BY <1>6, FindMoves
<1> HIDE DEF Done
<1>5. Done
  <2>1. CASE SetCnpj(o)
    BY <1>1, <1>2, <2>1 DEF SetCnpj, Done
  <2>2. CASE MoveDefendantIn(o) \/ MoveControls(o) \/ CopyName(o)
    BY <1>3, <2>2 DEF MoveDefendantIn, MoveControls, CopyName, At
  <2>3. CASE DeleteSource(o)
    BY <1>1, <1>2, <2>3 DEF DeleteSource, Done
  <2>4. CASE EnsurePoliticianControls(o)
    BY <1>1, <1>2, <2>4 DEF EnsurePoliticianControls, Done
  <2>5. CASE MarkApproved(o) \/ ScrubName(o)
    BY <1>1, <2>5 DEF MarkApproved, ScrubName, Done
  <2>6. CASE PurgeNode(o) \/ CreatePurgeTombstones(o)
    BY <1>4, <2>6 DEF PurgeNode, CreatePurgeTombstones
  <2> QED
    BY <1>6, <2>1, <2>2, <2>3, <2>4, <2>5, <2>6 DEF OperatorStep, Done
<1> QED
  BY <1>5 DEF Done

\* An operator's step is a move of that operator.
LEMMA OperatorActs ==
  ASSUME StoresTyped, OpTyped, NEW o \in Operator, OperatorAction(o)
  PROVE  \E x : Comes(o, x)
<1>1. CASE \E i \in DOMAIN reviews : ApproveUnknownCNPJ(o, i) \/ ApprovePoliticianInQSA(o, i)
  BY <1>1, ApproveMoves
<1>2. CASE \E n \in Node : PurgeBegin(o, n)
  BY <1>2, PurgeMoves
<1>3. CASE OperatorStep(o)
  BY <1>3, StatementMoves
<1>4. CASE OperationFails(o)
  <2>1. op' = [op EXCEPT ![o] = NoOp] /\ requests' \in 0..MaxRequests /\ errors' \in 0..MaxErrors
    BY <1>4, AttachAssumption DEF OperationFails, OpTyped, AttachTypeOK
  <2> QED
    BY <2>1, NoOpMoves DEF Moves, Comes
<1>5. ASSUME UNCHANGED op, At(o, "idle"), requests' \in 0..MaxRequests, UNCHANGED errors
      PROVE  \E x : Comes(o, x)
  <2>1. PICK x : x = op[o]
    OBVIOUS
  <2>2. x \in OpState /\ InOrder(x) /\ x.pc = "idle"
    BY <1>5, <2>1, OpFields DEF At
  <2>3. op' = [op EXCEPT ![o] = x] /\ errors' \in 0..MaxErrors
    BY <1>5, <2>1 DEF OpTyped, AttachTypeOK
  <2> QED
    BY <1>5, <2>2, <2>3 DEF Comes, Moves
<1>6. CASE \E i \in DOMAIN reviews : Reject(o, i)
  <2>1. UNCHANGED <<op, errors>> /\ At(o, "idle") /\ requests < MaxRequests /\ requests' = requests + 1
    BY <1>6 DEF Reject, Asked
  <2>2. requests' \in 0..MaxRequests
    BY <2>1, AttachAssumption DEF OpTyped, AttachTypeOK
  <2> QED
    BY <1>5, <2>1, <2>2
<1>7. CASE \E e \in edges : SetDefendantOutcome(o, e)
  <2>1. UNCHANGED <<op, errors>> /\ At(o, "idle") /\ requests < MaxRequests /\ requests' = requests + 1
    BY <1>7 DEF SetDefendantOutcome, Asked
  <2>2. requests' \in 0..MaxRequests
    BY <2>1, AttachAssumption DEF OpTyped, AttachTypeOK
  <2> QED
    BY <1>5, <2>1, <2>2
<1> QED
  BY <1>1, <1>2, <1>3, <1>4, <1>6, <1>7 DEF OperatorAction

\* Every handler stays in order.
LEMMA OperatorTyped ==
  ASSUME StoresTyped, OpTyped, NEW o \in Operator, OperatorAction(o)
  PROVE  OpTyped'
<1>1. PICK x : Moves(o, x) /\ InOrder(x)
  BY OperatorActs DEF Comes
<1>2. RowsKept
  BY OperatorStores
<1> QED
  BY <1>1, <1>2, OperatorMoves

-------------------------------------------------------------------------------
(* The system.                                                             *)

\* Who can take a step: one of the four processes, or nobody.
LEMMA StepCases ==
  ASSUME [Next]_vars
  PROVE  \/ ByEnricher(EnricherNext)
         \/ \E o \in Operator : ByOperator(OperatorAction(o))
         \/ ByDiscovery(Discover)
         \/ DjenStops /\ UNCHANGED <<enricher, op, requests>> /\ Remember
         \/ UNCHANGED vars
BY DEF Next, ByOperator, AttachNext, OperatorAction

\* A run that was stopped is all that DjenStops leaves behind.
LEMMA Stopped ==
  ASSUME OpTyped, ReviewsTyped, DjenStops, UNCHANGED <<enricher, op, requests>>
  PROVE  OpTyped'
<1>1. UNCHANGED reviews
  BY DEF DjenStops, stores
<1>2. errors' \in 0..MaxErrors /\ requests' \in 0..MaxRequests
  BY AttachAssumption DEF DjenStops, OpTyped, AttachTypeOK
<1> QED
  BY <1>1, <1>2, OperatorsStay, RowsAreKept DEF RowsGrow

\* The history variables stay well typed.
LEMMA RememberTyped ==
  ASSUME HistoryTyped, OpTyped, DiscoveryTyped, TombstonesTyped, TombstonesTyped', Remember
  PROVE  HistoryTyped'
<1>1. PurgedNow \subseteq Node
  BY OpFields DEF PurgedNow
<1>2. {Entity(n) : n \in PurgedNow} \subseteq Cnpj
  BY <1>1, EntityFacts
<1>3. Overrides \subseteq tombstones
  BY DEF Overrides
<1>4. djen.name \in Name
  BY DiscoveryFields
<1>5. erased' \subseteq Cnpj
  BY <1>2 DEF Remember, HistoryTyped
<1>6. exposed' \subseteq Cnpj \cup NameKey
  BY <1>3 DEF Remember, HistoryTyped, TombstonesTyped
<1>7. unfiled' \subseteq Name
  BY <1>4 DEF Remember, HistoryTyped
<1> QED
  BY <1>5, <1>6, <1>7 DEF HistoryTyped

\* Every step keeps the types.
LEMMA TypedStep ==
  ASSUME Typed, [Next]_vars
  PROVE  Typed'
<1>0. StoresTyped /\ RunTyped /\ OpTyped /\ DiscoveryTyped /\ HistoryTyped /\ Documents /\ ReviewsTyped
      /\ TombstonesTyped
  BY DEF Typed, StoresTyped
<1>1. CASE ByEnricher(EnricherNext)
  <2>1. EnricherNext /\ UNCHANGED <<op, requests, errors, djen, handled, link>> /\ Remember
    BY <1>1 DEF ByEnricher, operators, discovery
  <2>2. StoresTyped' /\ RowsGrow
    BY <1>0, <2>1, EnricherGrows DEF WorkerStep, Grows
  <2>3. RunTyped'
    BY <1>0, <2>1, EnricherTyped
  <2>4. OpTyped'
    BY <1>0, <2>1, <2>2, RowsAreKept, OperatorsStay DEF OpTyped, AttachTypeOK
  <2>5. DiscoveryTyped'
    BY <1>0, <2>1 DEF DiscoveryTyped
  <2>6. HistoryTyped'
    BY <1>0, <2>1, <2>2, RememberTyped DEF StoresTyped
  <2> QED
    BY <2>2, <2>3, <2>4, <2>5, <2>6 DEF Typed
<1>2. CASE \E o \in Operator : ByOperator(OperatorAction(o))
  <2>1. PICK o \in Operator : OperatorAction(o) /\ UNCHANGED <<enricher, djen, link>> /\ Remember
                              /\ handled' \subseteq handled
    BY <1>2 DEF ByOperator
  <2>2. UNCHANGED <<run, failures, djen, link>> /\ handled' \subseteq handled
    BY <2>1 DEF enricher
  <2>3. StoresTyped'
    BY <1>0, <2>1, OperatorStores
  <2>4. OpTyped'
    BY <1>0, <2>1, OperatorTyped
  <2>5. RunTyped' /\ DiscoveryTyped'
    BY <1>0, <2>2 DEF RunTyped, DiscoveryTyped
  <2>6. HistoryTyped'
    BY <1>0, <2>1, <2>3, RememberTyped DEF StoresTyped
  <2> QED
    BY <2>3, <2>4, <2>5, <2>6 DEF Typed
<1>3. CASE ByDiscovery(Discover) \/ (DjenStops /\ UNCHANGED <<enricher, op, requests>> /\ Remember)
  <2>1. (Discover \/ DjenStops) /\ UNCHANGED <<run, failures>> /\ Remember
    BY <1>3 DEF ByDiscovery, enricher
  <2>2. StoresTyped' /\ RowsGrow
    BY <1>0, <2>1, DiscoveryGrows DEF Grows
  <2>3. DiscoveryTyped'
    BY <1>0, <2>1, DiscoveryStep
  <2>4. RunTyped'
    BY <1>0, <2>1 DEF RunTyped
  <2>5. OpTyped'
    <3>1. CASE ByDiscovery(Discover)
      <4>1. UNCHANGED <<op, requests, errors>>
        BY <3>1 DEF ByDiscovery, operators
      <4> QED
        BY <1>0, <2>2, <4>1, RowsAreKept, OperatorsStay DEF OpTyped, AttachTypeOK
    <3>2. CASE DjenStops /\ UNCHANGED <<enricher, op, requests>> /\ Remember
      BY <1>0, <3>2, Stopped
    <3> QED
      BY <1>3, <3>1, <3>2
  <2>6. HistoryTyped'
    BY <1>0, <2>1, <2>2, RememberTyped DEF StoresTyped
  <2> QED
    BY <2>2, <2>3, <2>4, <2>5, <2>6 DEF Typed
<1>4. CASE UNCHANGED vars
  <2>1. UNCHANGED stores /\ UNCHANGED <<run, failures, op, requests, errors, djen, handled, link, erased, exposed, unfiled>>
    BY <1>4 DEF vars, enricher, operators, discovery, history
  <2>2. StoresTyped' /\ RowsGrow
    BY <1>0, <2>1, StoresStay DEF Grows
  <2>3. OpTyped'
    BY <1>0, <2>1, <2>2, RowsAreKept, OperatorsStay DEF OpTyped, AttachTypeOK
  <2>4. RunTyped' /\ DiscoveryTyped' /\ HistoryTyped'
    BY <1>0, <2>1 DEF RunTyped, DiscoveryTyped, HistoryTyped
  <2> QED
    BY <2>2, <2>3, <2>4 DEF Typed
<1> QED
  BY <1>1, <1>2, <1>3, <1>4, StepCases

\* The empty stores are well typed.
LEMMA InitTyped ==
  ASSUME Init
  PROVE  Typed
<1>1. orgs = {} /\ edges = {} /\ decided = {} /\ tombstones = {} /\ reviews = <<>>
      /\ doc = [n \in Node |-> {}] /\ name = [n \in Node |-> {}] /\ enriched = [n \in Node |-> "never"]
  BY DEF Init, StoreInit
<1>2. <<>> \in Seq(Review) /\ DOMAIN reviews = {}
  BY <1>1
<1>3. Documents /\ EdgesTyped /\ ReviewsTyped /\ TombstonesTyped
  BY <1>1, <1>2 DEF Documents, EdgesTyped, ReviewsTyped, TombstonesTyped
<1>4. Described
  BY <1>1 DEF Described, Freshness, Named
<1>5. RunTyped
  BY RunRecords, EnricherAssumption DEF Init, EnricherInit, RunTyped
<1>6. OpTyped
  <2>1. op = [o \in Operator |-> NoOp] /\ requests = 0 /\ errors = 0
    BY DEF Init, AttachInit
  <2>2. AttachTypeOK
    BY <2>1, NoOpMoves, AttachAssumption DEF AttachTypeOK
  <2> QED
    BY <2>1, <2>2, NoOpMoves DEF OpTyped
<1>7. DiscoveryTyped
  BY EntityFacts DEF Init, DiscoveryTyped, NoParty, NoLink, DjenState, LinkState
<1>8. HistoryTyped
  BY DEF Init, HistoryTyped
<1> QED
  BY <1>3, <1>4, <1>5, <1>6, <1>7, <1>8 DEF Typed, StoresTyped

\* The sizes of the sets a document or a name is.
LEMMA AtMostOne ==
  ASSUME NEW x
  PROVE  Cardinality({}) <= 1 /\ Cardinality({x}) <= 1
<1>1. Cardinality({}) = 0
  BY FS_EmptySet
<1>2. Cardinality({x}) = 1
  BY FS_Singleton
<1> QED
  BY <1>1, <1>2

\* The strengthened types imply those the runs check.
LEMMA TypedIsTypeOK ==
  ASSUME Typed
  PROVE  TypeOK
<1>0. Documents /\ Described /\ EdgesTyped /\ ReviewsTyped /\ TombstonesTyped
  BY DEF Typed, StoresTyped
<1>1. ASSUME NEW n \in Node
      PROVE  Cardinality(doc[n]) <= 1 /\ Cardinality(name[n]) <= 1
  <2>1. doc[n] = {} \/ doc[n] = {Entity(n)}
    BY <1>0 DEF Documents
  <2>2. name[n] = {} \/ \E k \in NameKey : name[n] = {k}
    BY <1>0 DEF Described, Named
  <2> QED
    BY <2>1, <2>2, AtMostOne
<1>2. StoreTypeOK
  BY <1>0, <1>1 DEF StoreTypeOK, Documents, Described, EdgesTyped, Anchored, ReviewsTyped, TombstonesTyped
<1>3. EnricherTypeOK /\ AttachTypeOK
  BY DEF Typed, RunTyped, EnricherTypeOK, OpTyped
<1>4. /\ djen \in [pc : {"idle", "upsert", "edge", "file", "snap"}, name : Name, case : Case]
      /\ handled \subseteq Name \X Case
      /\ link \in [pc : {"idle", "ensure", "edge"}, sanction : Sanction, org : Node]
      /\ erased \subseteq Cnpj /\ exposed \subseteq Cnpj \cup NameKey /\ unfiled \subseteq Name
  BY DEF Typed, DiscoveryTyped, DjenState, LinkState, HistoryTyped
<1> QED
  BY <1>2, <1>3, <1>4 DEF TypeOK

\* The strengthened types hold always.
LEMMA SpecTyped == Spec => []Typed
<1>1. Init => Typed
  BY InitTyped
<1>2. Typed /\ [Next]_vars => Typed'
  BY TypedStep
<1> QED
  BY <1>1, <1>2, PTL DEF Spec

\* Every writer of companies leaves the graph, the queue and the tombstones well
\* formed: no edge of a node that is gone, at most one CNPJ and one name a node.
THEOREM TypeCorrect == Spec => []TypeOK
<1>1. Typed => TypeOK
  BY TypedIsTypeOK
<1> QED
  BY <1>1, SpecTyped, PTL

-------------------------------------------------------------------------------
(* Nothing is lost.                                                        *)

Fact(e) == <<e.type, Entity(e.org), IF e.type = "OWNED_BY" THEN Entity(e.to) ELSE e.to>>

\* A fact is what an edge says of the company its node stands for.
LEMMA FactsAre ==
  /\ \A f : f \in Facts <=> \E e \in edges : f = Fact(e)
  /\ \A f : f \in Facts' <=> \E e \in edges' : f = Fact(e)
BY DEF Facts, Fact, Entity

\* More edges, more facts.
LEMMA FactsGrow ==
  ASSUME edges \subseteq edges'
  PROVE  Facts \subseteq Facts'
BY FactsAre

\* The nodes a merge moves an edge between stand for one company.
LEMMA MovedFacts ==
  ASSUME StoresTyped, OpTyped, NEW o \in Operator, NEW t \in {"DEFENDANT_IN", "CONTROLS"}, MoveEdges(o, t),
         op[o].pc \in {"defendant", "controls"}
  PROVE  Facts \subseteq Facts'
<1> DEFINE src == op[o].org
           dst == op[o].dst
           moved == {e \in edges : e.type = t /\ e.org = src}
<1>1. Entity(dst) = Entity(src)
  BY OpFields DEF InOrder
<1>2. edges \subseteq edges'
      \/ edges' = (edges \ moved) \cup {[e EXCEPT !.org = dst] : e \in moved}
  BY DEF MoveEdges
<1>3. ASSUME NEW e \in moved
      PROVE  Fact([e EXCEPT !.org = dst]) = Fact(e)
  <2> DEFINE g == [e EXCEPT !.org = dst]
  <2>1. e \in Edge /\ e.type = t /\ e.org = src
    BY DEF StoresTyped, EdgesTyped
  <2>2. g.type = e.type /\ g.org = dst /\ g.to = e.to
    BY <2>1 DEF Edge
  <2> HIDE DEF g, dst, src
  <2>3. Fact(g) = Fact(e)
    BY <1>1, <2>1, <2>2 DEF Fact
  <2> QED
    BY <2>3 DEF g
<1>4. ASSUME NEW e \in edges, ~(edges \subseteq edges')
      PROVE  \E g \in edges' : Fact(e) = Fact(g)
  <2>1. CASE e \in moved
    BY <1>2, <1>3, <1>4, <2>1
  <2>2. CASE e \notin moved
    BY <1>2, <1>4, <2>2
  <2> QED
    BY <2>1, <2>2
<1> QED
  BY <1>4, FactsAre, FactsGrow

\* No statement of an operator but the deletion of a purge takes a fact away.
LEMMA OperatorFacts ==
  ASSUME StoresTyped, OpTyped, NEW o \in Operator, OperatorAction(o), ~PurgeNode(o)
  PROVE  Facts \subseteq Facts'
<1>1. CASE edges \subseteq edges'
  BY <1>1, FactsGrow
<1>2. CASE MoveDefendantIn(o) \/ MoveControls(o)
  BY <1>2, MovedFacts DEF MoveDefendantIn, MoveControls, At
<1>3. CASE DeleteSource(o)
  <2>1. edges \subseteq edges'
    BY <1>3 DEF DeleteSource, DeleteNode, graph
  <2> QED
    BY <2>1, FactsGrow
<1>4. CASE EnsurePoliticianControls(o)
  BY <1>4, LinkedStores, FactsGrow
<1>5. \/ MoveDefendantIn(o) \/ MoveControls(o) \/ DeleteSource(o) \/ EnsurePoliticianControls(o)
      \/ edges \subseteq edges'
  <2>1. SetCnpj(o) \/ CopyName(o) \/ MarkApproved(o) \/ CreatePurgeTombstones(o) \/ ScrubName(o)
          => UNCHANGED edges
    BY DEF SetCnpj, CopyName, MarkApproved, CreatePurgeTombstones, ScrubName, graph
  <2>2. CASE ~OperatorStep(o) \/ FindHolder(o)
    BY <2>2, RequestWrites
  <2> QED
    BY <2>1, <2>2 DEF OperatorStep
<1> QED
  BY <1>1, <1>2, <1>3, <1>4, <1>5

\* Whoever is no operator deletes nothing.
LEMMA WorkersGrow ==
  ASSUME Typed, [Next]_vars, ~\E o \in Operator : ByOperator(OperatorAction(o))
  PROVE  Grows
<1>1. StoresTyped /\ RunTyped /\ DiscoveryTyped
  BY DEF Typed
<1>2. CASE ByEnricher(EnricherNext)
  BY <1>1, <1>2, EnricherGrows DEF ByEnricher, WorkerStep
<1>3. CASE Discover \/ DjenStops
  BY <1>1, <1>3, DiscoveryGrows
<1>4. CASE UNCHANGED vars
  BY <1>1, <1>4, StoresStay DEF vars
<1> QED
  BY <1>2, <1>3, <1>4, StepCases DEF ByDiscovery

\* The deletion of a purge is seen by the property.
LEMMA PurgeIsRemembered ==
  ASSUME OpTyped, NEW o \in Operator, PurgeNode(o)
  PROVE  op[o].org \in PurgedNow
<1>1. PICK x : Moves(o, x) /\ x.pc = "tomb"
  BY GotoMoves DEF PurgeNode
<1>2. op'[o].pc = "tomb"
  BY <1>1 DEF Moves, OpTyped, AttachTypeOK
<1> QED
  BY <1>2 DEF PurgedNow, PurgeNode

\* The step of FactsKept.
LEMMA FactsStep ==
  ASSUME Typed, [Next]_vars, PurgedNow = {}
  PROVE  Facts \subseteq Facts'
<1>1. CASE ~\E o \in Operator : ByOperator(OperatorAction(o))
  BY <1>1, WorkersGrow, FactsGrow DEF Grows
<1>2. ASSUME NEW o \in Operator, ByOperator(OperatorAction(o))
      PROVE  Facts \subseteq Facts'
  <2>1. OperatorAction(o) /\ StoresTyped /\ OpTyped
    BY <1>2 DEF ByOperator, Typed
  <2>2. ~PurgeNode(o)
    BY <2>1, PurgeIsRemembered
  <2> QED
    BY <2>1, <2>2, OperatorFacts
<1> QED
  BY <1>1, <1>2

\* No merge loses a relation of a company: the nodes it moves edges
\* between stand for the same company, and the node it deletes has none left
\* (AttachOrganizationCNPJ, with every other writer at work in between).
THEOREM NothingIsLost == Spec => FactsKept
<1>1. Typed /\ [Next]_vars => [PurgedNow = {} => Facts \subseteq Facts']_edges
  BY FactsStep
<1> QED
  BY <1>1, SpecTyped, PTL DEF Spec, FactsKept

-------------------------------------------------------------------------------
(* Outcomes.                                                               *)

\* What may become of a recorded outcome.
Follows(e) ==
  \/ \E f \in decided' : Entity(f.org) = Entity(e.org) /\ f.to = e.to
  \/ e.org \in PurgedNow
  \/ djen.pc = "edge" /\ djen.name = e.org /\ djen.case = e.to
  \/ \E f \in edges \ {e} : f.type = "DEFENDANT_IN" /\ Entity(f.org) = Entity(e.org) /\ f.to = e.to

\* No worker touches an outcome but DJEN, of the company it cites.
LEMMA WorkersOutcomes ==
  ASSUME Typed, [Next]_vars, ~\E o \in Operator : ByOperator(OperatorAction(o)), NEW e \in decided
  PROVE  Follows(e)
<1>1. CASE UNCHANGED decided
  BY <1>1 DEF Follows
<1>2. CASE CiteCompany
  <2>1. decided' = decided \ {[type |-> "DEFENDANT_IN", org |-> djen.name, to |-> djen.case]} /\ djen.pc = "edge"
    BY <1>2 DEF CiteCompany
  <2>2. CASE e = [type |-> "DEFENDANT_IN", org |-> djen.name, to |-> djen.case]
    BY <2>1, <2>2 DEF Follows
  <2>3. CASE e # [type |-> "DEFENDANT_IN", org |-> djen.name, to |-> djen.case]
    BY <2>1, <2>3 DEF Follows
  <2> QED
    BY <2>2, <2>3
<1>3. EnricherNext => UNCHANGED decided
  BY DEF EnricherNext, EnricherStep, RunBegin, RunSingle, SkipVisited, Fetch, FetchFails, RunEnd, CheckSocio,
         QsaDone, EnrichFails, RunDies, Update, FilePolitician, UpsertQSAPerson, UpsertQSAOrganization,
         PeriodPasses, stores, graph
<1>4. Discover \/ DjenStops => UNCHANGED decided \/ CiteCompany
  BY DEF Discover, DjenStops, HandleCompanyParty, DjenStep, UpsertCompany, UpsertDjenOrganization, FileUnknownCNPJ,
         SnapshotCompany, LinkCNPJ, LinkStep, LinkEnsure, LinkEdge, stores, graph
<1>5. UNCHANGED vars => UNCHANGED decided
  BY DEF vars, stores, graph
<1> QED
  BY <1>1, <1>2, <1>3, <1>4, <1>5, StepCases DEF ByEnricher, ByDiscovery

\* A merge takes the outcome along, or writes that of the other node over it.
LEMMA MovedOutcomes ==
  ASSUME StoresTyped, OpTyped, NEW o \in Operator, NEW t \in {"DEFENDANT_IN", "CONTROLS"}, MoveEdges(o, t),
         op[o].pc \in {"defendant", "controls"}, NEW e \in decided
  PROVE  Follows(e)
<1> DEFINE src == op[o].org
           dst == op[o].dst
           moved == {g \in edges : g.type = t /\ g.org = src}
           OnDst(S) == {[g EXCEPT !.org = dst] : g \in S}
<1>1. Entity(dst) = Entity(src)
  BY OpFields DEF InOrder
<1>2. e \in edges /\ e.type = "DEFENDANT_IN" /\ edges \subseteq Edge
  BY DEF StoresTyped, EdgesTyped
<1>3. ASSUME NEW g \in moved
      PROVE  LET h == [g EXCEPT !.org = dst] IN h.type = g.type /\ h.org = dst /\ h.to = g.to
  BY <1>2, <1>3 DEF Edge
<1>4. UNCHANGED decided \/ decided' = (decided \ (moved \cup OnDst(moved))) \cup OnDst(moved \cap decided)
  BY DEF MoveEdges
<1>5. CASE e \in decided'
  BY <1>5 DEF Follows
<1>6. CASE e \in moved /\ ~UNCHANGED decided
  <2>1. PICK f : f = [e EXCEPT !.org = dst]
    OBVIOUS
  <2>2. f \in decided'
    BY <1>4, <1>6, <2>1
  <2>3. f.org = dst /\ f.to = e.to /\ e.org = src
    BY <1>3, <1>6, <2>1
  <2> QED
    BY <1>1, <2>2, <2>3 DEF Follows
<1>7. CASE e \in OnDst(moved) /\ e \notin moved
  <2>1. PICK g \in moved : e = [g EXCEPT !.org = dst]
    BY <1>7
  <2>2. g \in edges \ {e} /\ g.org = src
    BY <1>7, <2>1
  <2>3. g.type = e.type /\ e.org = dst /\ g.to = e.to
    BY <1>3, <2>1
  <2> QED
    BY <1>1, <1>2, <2>2, <2>3 DEF Follows
<1> QED
  BY <1>4, <1>5, <1>6, <1>7

\* The step of OutcomesFollow.
LEMMA OutcomesStep ==
  ASSUME Typed, [Next]_vars, NEW e \in decided
  PROVE  Follows(e)
<1>1. CASE ~\E o \in Operator : ByOperator(OperatorAction(o))
  BY <1>1, WorkersOutcomes
<1>2. ASSUME NEW o \in Operator, ByOperator(OperatorAction(o))
      PROVE  Follows(e)
  <2>0. OperatorAction(o) /\ StoresTyped /\ OpTyped
    BY <1>2 DEF ByOperator, Typed
  <2>1. CASE e \in decided'
    BY <2>1 DEF Follows
  <2>2. CASE MoveDefendantIn(o) \/ MoveControls(o)
    BY <2>0, <2>2, MovedOutcomes DEF MoveDefendantIn, MoveControls, At
  <2>3. CASE DeleteSource(o)
    <3>1. UNCHANGED decided
      BY <2>3 DEF DeleteSource, DeleteNode, graph
    <3> QED
      BY <2>1, <3>1
  <2>4. CASE PurgeNode(o)
    <3>1. e.type = "DEFENDANT_IN" /\ e \in Edge /\ op[o].org \in Node
      BY <2>0, OpFields DEF StoresTyped, EdgesTyped
    <3>2. e.to # op[o].org
      BY <3>1, EntityFacts DEF Edge
    <3>3. e \in decided' \/ e.org = op[o].org
      BY <2>4, <3>2 DEF PurgeNode, DeleteNode, Touching
    <3>4. op[o].org \in PurgedNow
      BY <2>0, <2>4, PurgeIsRemembered
    <3> QED
      BY <2>1, <3>3, <3>4 DEF Follows
  <2>5. ASSUME NEW f \in edges, SetDefendantOutcome(o, f)
        PROVE  decided \subseteq decided'
    BY <2>5 DEF SetDefendantOutcome
  <2>6. SetCnpj(o) \/ CopyName(o) \/ EnsurePoliticianControls(o) \/ MarkApproved(o)
        \/ CreatePurgeTombstones(o) \/ ScrubName(o) => UNCHANGED decided
    BY DEF SetCnpj, CopyName, EnsurePoliticianControls, MarkApproved, CreatePurgeTombstones, ScrubName, graph
  <2>7. CASE ~OperatorStep(o) \/ FindHolder(o)
    BY <2>0, <2>1, <2>5, <2>7, RequestWrites
  <2> QED
    BY <2>1, <2>2, <2>3, <2>4, <2>6, <2>7 DEF OperatorStep
<1> QED
  BY <1>1, <1>2

\* An outcome a human recorded follows the company through merges, until a purge,
\* until DJEN cites the company again, or until what the other node of a merge
\* says of the same case is written over it (AttachOrganizationCNPJ).
THEOREM OutcomesAreFollowed == Spec => OutcomesFollow
<1>1. Typed /\ [Next]_vars => [\A e \in decided : Follows(e)]_decided
  BY OutcomesStep
<1>2. Spec => [][\A e \in decided : Follows(e)]_decided
  BY <1>1, SpecTyped, PTL DEF Spec
<1> QED
  BY <1>2 DEF OutcomesFollow, Follows

-------------------------------------------------------------------------------
(* Rows and marks.                                                         *)

\* What becomes of the status of a row.
StatusKept(i)   == i \in DOMAIN reviews /\ reviews'[i].status = reviews[i].status
StatusClosed(i) == /\ i \in DOMAIN reviews /\ reviews[i].status # "scrubbed"
                   /\ \E o \in Operator : op[o].pc = "mark" /\ op[o].review = i
StatusScrubbed(i) == /\ i \in DOMAIN reviews /\ reviews'[i].status = "scrubbed"
                     /\ \E o \in Operator : op[o].pc = "scrub" /\ reviews[i].who \in op[o].keys
StatusThen(i) == \/ StatusKept(i)
                 \/ StatusScrubbed(i)
                 \/ i \in DOMAIN reviews /\ reviews'[i].status = "rejected"
                 \/ StatusClosed(i)
                 \/ i \notin DOMAIN reviews /\ reviews'[i].status = "pending"

\* A filed row is pending, the others keep their status.
LEMMA GrownRows ==
  ASSUME ReviewsTyped, RowsGrow, NEW i \in DOMAIN reviews'
  PROVE  StatusThen(i)
<1>1. CASE UNCHANGED reviews
  BY <1>1 DEF StatusThen, StatusKept
<1>2. ASSUME NEW r \in Review, RowFiled(r)
      PROVE  StatusThen(i)
  <2>1. reviews' = Append(reviews, r) /\ reviews \in Seq(Review) /\ r.status = "pending"
    BY <1>2 DEF RowFiled, ReviewsTyped
  <2>2. (i \in DOMAIN reviews /\ reviews'[i] = reviews[i]) \/ (i \notin DOMAIN reviews /\ reviews'[i] = r)
    BY <2>1
  <2> QED
    BY <2>1, <2>2 DEF StatusThen, StatusKept
<1> QED
  BY <1>1, <1>2 DEF RowsGrow

\* An operator files nothing, approves the row in hand only, and rejects any.
LEMMA OperatorRows ==
  ASSUME StoresTyped, OpTyped, NEW o \in Operator, OperatorAction(o), NEW i \in DOMAIN reviews'
  PROVE  i \in DOMAIN reviews /\ StatusThen(i)
<1>1. CASE UNCHANGED reviews
  BY <1>1 DEF StatusThen, StatusKept
<1>2. CASE MarkApproved(o)
  <2>1. i \in DOMAIN reviews
    BY <1>2, MarkedRows
  <2>2. CASE i # op[o].review
    BY <1>2, <2>1, <2>2, MarkedRows DEF StatusThen, StatusKept
  <2>3. CASE i = op[o].review /\ reviews[i].status = "scrubbed"
    BY <1>2, <2>1, <2>3, MarkedRows DEF StatusThen, StatusKept
  <2>4. CASE i = op[o].review /\ reviews[i].status # "scrubbed"
    BY <1>2, <2>1, <2>4 DEF StatusThen, StatusClosed, MarkApproved, At
  <2> QED
    BY <2>1, <2>2, <2>3, <2>4
<1>3. CASE ScrubName(o)
  <2>1. i \in DOMAIN reviews
    BY <1>3, ScrubbedRows
  <2>2. \/ reviews'[i].status = reviews[i].status
        \/ reviews'[i].status = "scrubbed" /\ reviews[i].who \in op[o].keys
    BY <1>3, <2>1, ScrubbedRows
  <2> QED
    BY <1>3, <2>1, <2>2 DEF StatusThen, StatusKept, StatusScrubbed, ScrubName, At
<1>4. ASSUME NEW k \in DOMAIN reviews, Reject(o, k)
      PROVE  i \in DOMAIN reviews /\ StatusThen(i)
  <2>1. i \in DOMAIN reviews /\ (i = k => reviews'[i].status = "rejected")
    BY <1>4, RejectedRows
  <2>2. i # k => reviews'[i] = reviews[i]
    BY <1>4, <2>1, RejectedRows
  <2> QED
    BY <2>1, <2>2 DEF StatusThen, StatusKept
<1>5. MarkApproved(o) \/ ScrubName(o) \/ UNCHANGED reviews \/ \E k \in DOMAIN reviews : Reject(o, k)
  <2>1. SetCnpj(o) \/ MoveDefendantIn(o) \/ MoveControls(o) \/ CopyName(o) \/ DeleteSource(o)
        \/ EnsurePoliticianControls(o) \/ PurgeNode(o) \/ CreatePurgeTombstones(o) => UNCHANGED reviews
    BY DEF SetCnpj, MoveDefendantIn, MoveControls, MoveEdges, CopyName, DeleteSource,
           EnsurePoliticianControls, PurgeNode, CreatePurgeTombstones
  <2>2. CASE ~OperatorStep(o) \/ FindHolder(o)
    BY <2>2, RequestWrites
  <2> QED
    BY <2>1, <2>2 DEF OperatorStep
<1> QED
  BY <1>1, <1>2, <1>3, <1>4, <1>5

\* What can have happened to a row in a step.
LEMMA RowsThen ==
  ASSUME Typed, [Next]_vars
  PROVE  RowsKept /\ \A i \in DOMAIN reviews' : StatusThen(i)
<1>1. StoresTyped /\ OpTyped /\ ReviewsTyped
  BY DEF Typed, StoresTyped
<1>2. CASE ~\E o \in Operator : ByOperator(OperatorAction(o))
  BY <1>1, <1>2, WorkersGrow, GrownRows, RowsAreKept DEF Grows
<1>3. ASSUME NEW o \in Operator, ByOperator(OperatorAction(o))
      PROVE  RowsKept /\ \A i \in DOMAIN reviews' : StatusThen(i)
  <2>1. OperatorAction(o)
    BY <1>3 DEF ByOperator
  <2> QED
    BY <1>1, <2>1, OperatorStores, OperatorRows
<1> QED
  BY <1>2, <1>3

\* An operator comes to the mark with the row of the approval, by the statement
\* that carried it out.
MarkThen(o) ==
  \/ op'[o] = op[o]
  \/ /\ op'[o].review = op[o].review
     /\ SetCnpj(o) \/ DeleteSource(o) \/ EnsurePoliticianControls(o)

\* How a handler can have come to where it is.
LEMMA OpsThen ==
  ASSUME Typed, [Next]_vars, NEW q \in Operator
  PROVE  op'[q] = op[q] \/ Comes(q, op'[q])
<1>1. StoresTyped /\ OpTyped
  BY DEF Typed
<1>3. ASSUME NEW o \in Operator, ByOperator(OperatorAction(o))
      PROVE  op'[q] = op[q] \/ Comes(q, op'[q])
  <2>1. PICK x : Comes(o, x)
    BY <1>1, <1>3, OperatorActs DEF ByOperator
  <2>2. op' = [op EXCEPT ![o] = x] /\ op \in [Operator -> OpState]
    BY <1>1, <2>1 DEF Comes, Moves, OpTyped, AttachTypeOK
  <2>3. (q # o => op'[q] = op[q]) /\ (q = o => op'[q] = x)
    BY <2>2
  <2> QED
    BY <2>1, <2>3
<1>4. UNCHANGED op \/ \E o \in Operator : ByOperator(OperatorAction(o))
  BY StepCases DEF ByEnricher, ByDiscovery, operators, vars
<1> QED
  BY <1>3, <1>4

\* How a handler can have come to "mark", or to "scrub".
LEMMA MarksThen ==
  ASSUME Typed, [Next]_vars, NEW q \in Operator
  PROVE  /\ op'[q].pc = "mark" => MarkThen(q)
         /\ op'[q].pc = "scrub" => \/ op'[q] = op[q]
                                   \/ op'[q].keys = op[q].keys /\ CreatePurgeTombstones(q)
BY OpsThen DEF Comes, MarkThen

\* No tombstone is taken back.
LEMMA TombstonesStand ==
  ASSUME Typed, [Next]_vars
  PROVE  tombstones \subseteq tombstones'
<1>1. CASE ~\E o \in Operator : ByOperator(OperatorAction(o))
  BY <1>1, WorkersGrow DEF Grows
<1>2. ASSUME NEW o \in Operator, ByOperator(OperatorAction(o))
      PROVE  tombstones \subseteq tombstones'
  <2>1. SetCnpj(o) \/ MoveDefendantIn(o) \/ MoveControls(o) \/ CopyName(o) \/ DeleteSource(o)
        \/ EnsurePoliticianControls(o) \/ MarkApproved(o) \/ PurgeNode(o) \/ CreatePurgeTombstones(o)
        \/ ScrubName(o) => tombstones \subseteq tombstones'
    BY DEF SetCnpj, MoveDefendantIn, MoveControls, MoveEdges, CopyName, DeleteSource, EnsurePoliticianControls,
           MarkApproved, PurgeNode, CreatePurgeTombstones, ScrubName
  <2>2. CASE ~OperatorStep(o) \/ FindHolder(o)
    BY <1>2, <2>2, RequestWrites DEF ByOperator
  <2> QED
    BY <2>1, <2>2 DEF OperatorStep
<1> QED
  BY <1>1, <1>2

-------------------------------------------------------------------------------
(* Approved edges.                                                         *)

\* Only a purge of the company takes away that somebody controls it.
LEMMA ControlsKept ==
  ASSUME Typed, [Next]_vars, NEW c, NEW s
  PROVE  /\ <<"CONTROLS", c, s>> \in Facts => <<"CONTROLS", c, s>> \in Facts' \/ c \in erased'
         /\ erased \subseteq erased'
<1>0. StoresTyped /\ OpTyped
  BY DEF Typed
<1>1. erased \subseteq erased'
  <2>1. Remember \/ UNCHANGED vars
    BY StepCases DEF ByEnricher, ByOperator, ByDiscovery
  <2> QED
    BY <2>1 DEF Remember, vars, history
<1>2. CASE ~\E o \in Operator : PurgeNode(o)
  <2>1. Facts \subseteq Facts'
    <3>1. CASE ~\E o \in Operator : ByOperator(OperatorAction(o))
      BY <3>1, WorkersGrow, FactsGrow DEF Grows
    <3>2. ASSUME NEW o \in Operator, ByOperator(OperatorAction(o))
          PROVE  Facts \subseteq Facts'
      BY <1>0, <1>2, <3>2, OperatorFacts DEF ByOperator
    <3> QED
      BY <3>1, <3>2
  <2> QED
    BY <1>1, <2>1
<1>3. ASSUME NEW o \in Operator, PurgeNode(o), <<"CONTROLS", c, s>> \in Facts
      PROVE  <<"CONTROLS", c, s>> \in Facts' \/ c \in erased'
  <2> DEFINE n == op[o].org
  <2>1. edges' = edges \ Touching(n) /\ n \in Node
    BY <1>0, <1>3, OpFields DEF PurgeNode, DeleteNode
  <2>2. Entity(n) \in erased'
    <3>1. n \in PurgedNow
      BY <1>0, <1>3, PurgeIsRemembered
    <3>2. Remember
      <4>1. ~UNCHANGED vars
        <5>1. op'[o].pc = "tomb" /\ op[o].pc = "purge"
          <6>1. PICK x : Moves(o, x) /\ x.pc = "tomb"
            BY <1>0, <1>3, GotoMoves DEF PurgeNode
          <6> QED
            BY <1>0, <1>3, <6>1 DEF Moves, OpTyped, AttachTypeOK, PurgeNode, At
        <5> QED
          BY <5>1 DEF vars, operators
      <4> QED
        BY <4>1, StepCases DEF ByEnricher, ByOperator, ByDiscovery
    <3> QED
      BY <3>1, <3>2 DEF Remember
  <2>3. PICK e \in edges : <<"CONTROLS", c, s>> = Fact(e)
    BY <1>3, FactsAre
  <2>4. e.type = "CONTROLS" /\ c = Entity(e.org)
    BY <2>3 DEF Fact
  <2>5. e.to \in Socio
    BY <1>0, <2>4 DEF StoresTyped, EdgesTyped, Edge
  <2> HIDE DEF n
  <2>6. e.to # n
    BY <2>1, <2>5, EntityFacts
  <2>7. e \in edges' \/ e.org = n
    BY <2>1, <2>6 DEF Touching
  <2> QED
    BY <2>2, <2>3, <2>4, <2>7, FactsAre
<1> QED
  BY <1>1, <1>2, <1>3

\* An approved edge is lost to a purge alone, and its company is erased then.
LEMMA EdgeShownStays ==
  ASSUME Typed, [Next]_vars, NEW i \in DOMAIN reviews, EdgeShown(i)
  PROVE  EdgeShown(i)'
<1>1. RowKept(i)
  BY RowsThen DEF RowsKept
<1>2. PICK c, s : c = Entity(reviews[i].org) /\ s = reviews[i].who
  OBVIOUS
<1>3. <<"CONTROLS", c, s>> \in Facts' \/ c \in erased'
  BY <1>2, ControlsKept DEF EdgeShown
<1>4. c = Entity(reviews'[i].org) /\ s = reviews'[i].who
  BY <1>1, <1>2 DEF RowKept
<1> QED
  BY <1>3, <1>4 DEF EdgeShown, Entity

\* mergeConfirmedPoliticianEdge came through.
LEMMA LinkedIsShown ==
  ASSUME Typed, NEW o \in Operator, EnsurePoliticianControls(o), op'[o].pc = "mark",
         NEW k, k = op[o].review
  PROVE  EdgeShown(k)'
<1>0. StoresTyped /\ OpTyped
  BY DEF Typed
<1>1. op[o].org \in orgs
  <2>1. ASSUME GiveUp(o)
        PROVE  FALSE
    BY <1>0, <2>1, NoOpMoves DEF Moves, OpTyped, AttachTypeOK
  <2> QED
    BY <2>1 DEF EnsurePoliticianControls
<1>2. reviews[k].org = op[o].org /\ UNCHANGED reviews
  BY <1>0, LinkedStores DEF RowInHand, EnsurePoliticianControls
<1>3. PICK e : e = [type |-> "CONTROLS", org |-> op[o].org, to |-> reviews[k].who]
  OBVIOUS
<1>4. e \in edges'
  BY <1>1, <1>3 DEF EnsurePoliticianControls, EnsureEdge
<1>5. Fact(e) = <<"CONTROLS", Entity(reviews[k].org), reviews[k].who>>
  BY <1>2, <1>3 DEF Fact
<1>6. <<"CONTROLS", Entity(reviews[k].org), reviews[k].who>> \in Facts'
  BY <1>4, <1>5, FactsAre
<1> QED
  BY <1>2, <1>6 DEF EdgeShown, Entity

\* Every step keeps ApprovalInv.
LEMMA ApprovalStep ==
  ASSUME Typed, [Next]_vars, ApprovalInv
  PROVE  ApprovalInv'
<1>0. StoresTyped /\ OpTyped /\ RowsKept
  BY RowsThen DEF Typed
<1>1. ASSUME NEW i \in DOMAIN reviews',
             reviews'[i].type = "politician_in_qsa", reviews'[i].status = "approved"
      PROVE  EdgeShown(i)'
  <2>1. StatusKept(i) \/ StatusClosed(i)
    BY <1>1, RowsThen DEF StatusThen, StatusScrubbed
  <2>2. i \in DOMAIN reviews /\ reviews[i].type = "politician_in_qsa"
    BY <1>0, <1>1, <2>1 DEF StatusKept, StatusClosed, RowsKept, RowKept
  <2>3. EdgeShown(i)
    BY <1>1, <2>1, <2>2 DEF StatusKept, StatusClosed, ApprovalInv
  <2> QED
    BY <2>2, <2>3, EdgeShownStays
<1>2. ASSUME NEW o \in Operator, op'[o].pc = "mark", reviews'[op'[o].review].type = "politician_in_qsa"
      PROVE  EdgeShown(op[o].review)'
  <2>1. PICK k : k = op'[o].review
    OBVIOUS
  <2>2. k = op[o].review
    BY <1>2, <2>1, MarksThen DEF MarkThen
  <2>3. CASE op'[o] = op[o]
    <3>1. k \in DOMAIN reviews
      BY <1>0, <1>2, <2>2, <2>3, OpFields DEF InOrder
    <3>2. reviews[k].type = "politician_in_qsa"
      BY <1>0, <1>2, <2>1, <3>1 DEF RowsKept, RowKept
    <3>3. EdgeShown(k)
      BY <1>2, <2>2, <2>3, <3>2 DEF ApprovalInv
    <3>4. EdgeShown(k)'
      BY <3>1, <3>3, EdgeShownStays
    <3> QED
      BY <2>1, <3>4 DEF EdgeShown
  <2>4. CASE SetCnpj(o) \/ DeleteSource(o)
    <3>1. RowInHand(op[o], "unknown_cnpj")
      BY <1>0, <2>4, OpFields DEF SetCnpj, DeleteSource, At, InOrder
    <3>2. reviews'[k].type = "unknown_cnpj"
      BY <1>0, <2>2, <3>1 DEF RowInHand, RowsKept, RowKept
    <3> QED
      BY <1>2, <2>1, <3>2
  <2>5. CASE EnsurePoliticianControls(o)
    <3>1. EdgeShown(k)'
      BY <1>2, <2>2, <2>5, LinkedIsShown
    <3> QED
      BY <2>1, <3>1 DEF EdgeShown
  <2> QED
    BY <1>2, <2>3, <2>4, <2>5, MarksThen DEF MarkThen
<1> QED
  BY <1>1, <1>2 DEF ApprovalInv

\* ApprovalInv holds always.
LEMMA SpecApproval == Spec => []ApprovalInv
<1>1. Init => ApprovalInv
  <2>1. ASSUME Init
        PROVE  DOMAIN reviews = {} /\ \A o \in Operator : op[o].pc = "idle"
    BY <2>1, NoOpMoves DEF Init, StoreInit, AttachInit
  <2> QED
    BY <2>1 DEF ApprovalInv
<1>2. Typed /\ ApprovalInv /\ [Next]_vars => ApprovalInv'
  BY ApprovalStep
<1> QED
  BY <1>1, <1>2, SpecTyped, PTL DEF Spec

\* A control of a company that a human approved stays shown until the company is
\* erased, whatever merges moved it and whoever deleted nodes in between.
THEOREM ApprovedAreShown == Spec => []ApprovedIsShown
<1>1. ApprovalInv => ApprovedIsShown
  BY DEF ApprovalInv, EdgeShown, ApprovedIsShown
<1> QED
  BY <1>1, SpecApproval, PTL

-------------------------------------------------------------------------------
(* The queue.                                                              *)

\* The documents of the nodes that stay.
LEMMA DocumentsStay ==
  ASSUME Typed, [Next]_vars, NEW m \in orgs \cap orgs', doc[m] # {}
  PROVE  doc'[m] # {}
<1>0. StoresTyped /\ OpTyped /\ Documents
  BY DEF Typed, StoresTyped
<1>1. CASE ~\E o \in Operator : ByOperator(OperatorAction(o))
  BY <1>1, WorkersGrow DEF Grows, NodesGrow
<1>2. ASSUME NEW o \in Operator, ByOperator(OperatorAction(o))
      PROVE  doc'[m] # {}
  <2>0. OperatorAction(o) /\ m \in Node
    BY <1>0, <1>2 DEF ByOperator, Documents
  <2>1. CASE UNCHANGED doc
    BY <2>1
  <2>2. CASE SetCnpj(o)
    <3>1. doc'[m] = doc[m] \/ doc'[m] = {CnpjOf[op[o].org]}
      BY <1>0, <2>0, <2>2, SetCnpjStores DEF Documents
    <3> QED
      BY <3>1
  <2>3. ASSUME DeleteNode(op[o].org)
        PROVE  doc'[m] # {}
    BY <1>0, <2>0, <2>3 DEF DeleteNode, Documents
  <2>4. SetCnpj(o) \/ DeleteNode(op[o].org) \/ UNCHANGED doc
    <3>1. MoveDefendantIn(o) \/ MoveControls(o) \/ CopyName(o) \/ EnsurePoliticianControls(o)
          \/ MarkApproved(o) \/ CreatePurgeTombstones(o) \/ ScrubName(o) => UNCHANGED doc
      BY DEF MoveDefendantIn, MoveControls, MoveEdges, CopyName, EnsurePoliticianControls, MarkApproved,
             CreatePurgeTombstones, ScrubName, graph, nodes
    <3>2. DeleteSource(o) \/ PurgeNode(o) => DeleteNode(op[o].org) \/ UNCHANGED doc
      BY DEF DeleteSource, PurgeNode, graph
    <3>3. CASE ~OperatorStep(o) \/ FindHolder(o)
      BY <2>0, <3>3, RequestWrites
    <3> QED
      BY <3>1, <3>2, <3>3 DEF OperatorStep
  <2> QED
    BY <2>1, <2>2, <2>3, <2>4
<1> QED
  BY <1>1, <1>2

\* Operators create no node.
LEMMA OperatorNodes ==
  ASSUME OpTyped, NEW o \in Operator, OperatorAction(o)
  PROVE  orgs' \subseteq orgs
<1>1. SetCnpj(o) \/ MoveDefendantIn(o) \/ MoveControls(o) \/ CopyName(o) \/ EnsurePoliticianControls(o)
      \/ MarkApproved(o) \/ CreatePurgeTombstones(o) \/ ScrubName(o) => UNCHANGED orgs
  BY DEF SetCnpj, MoveDefendantIn, MoveControls, MoveEdges, CopyName, EnsurePoliticianControls, MarkApproved,
         CreatePurgeTombstones, ScrubName, graph, nodes
<1>2. DeleteSource(o) \/ PurgeNode(o) => orgs' \subseteq orgs
  BY DEF DeleteSource, PurgeNode, DeleteNode, graph
<1>3. CASE ~OperatorStep(o) \/ FindHolder(o)
  BY <1>3, RequestWrites
<1> QED
  BY <1>1, <1>2, <1>3 DEF OperatorStep

\* A node made of a name is there only by DJEN, and is not yet filed then.
LEMMA NewNames ==
  ASSUME Typed, [Next]_vars, NEW m \in orgs' \cap Name, m \notin orgs
  PROVE  Queued(m)'
<1>0. StoresTyped /\ OpTyped /\ RunTyped /\ DiscoveryTyped
  BY DEF Typed
<1>1. CASE ByEnricher(EnricherNext)
  BY <1>0, <1>1, EnricherGrows DEF ByEnricher, WorkerStep, NoNewName
<1>2. ASSUME NEW o \in Operator, ByOperator(OperatorAction(o))
      PROVE  FALSE
  BY <1>0, <1>2, OperatorNodes DEF ByOperator
<1>3. CASE Discover \/ DjenStops
  <2>1. UpsertCompany /\ orgs' = orgs \cup {djen.name}
    BY <1>0, <1>3, DiscoveryGrows DEF NoNewName
  <2>2. djen' = [djen EXCEPT !.pc = "edge"] /\ djen \in DjenState /\ m = djen.name
    BY <1>0, <2>1 DEF UpsertCompany, DiscoveryTyped
  <2>3. djen'.pc = "edge" /\ djen'.name = m
    BY <2>2 DEF DjenState
  <2> QED
    BY <2>3 DEF Queued
<1>4. CASE UNCHANGED vars
  BY <1>4 DEF vars, stores, graph
<1> QED
  BY <1>1, <1>2, <1>3, <1>4, StepCases DEF ByDiscovery

\* An open row of the node's name stays open until the node has its document, or
\* goes when the name is purged.
LEMMA OpenRowStays ==
  ASSUME Typed, ScrubInv, [Next]_vars, NEW m \in orgs \cap orgs',
         NEW i \in DOMAIN reviews, reviews[i].type = "unknown_cnpj", reviews[i].org = m, Open(i)
  PROVE  Queued(m)'
<1>0. StoresTyped /\ OpTyped
  BY DEF Typed
<1>1. RowKept(i)
  BY RowsThen DEF RowsKept
<1>2. StatusThen(i)
  BY <1>1, RowsThen DEF RowKept
<1>3. ASSUME NEW q \in Operator, op'[q].pc = "mark", op'[q].review = i, op'[q] # op[q]
      PROVE  doc'[m] # {}
  <2>1. op[q].review = i /\ (SetCnpj(q) \/ DeleteSource(q) \/ EnsurePoliticianControls(q))
    BY <1>3, MarksThen DEF MarkThen
  <2>2. ~GiveUp(q)
    BY <1>0, <1>3, NoOpMoves DEF Moves, OpTyped, AttachTypeOK
  <2>3. CASE SetCnpj(q) \/ DeleteSource(q)
    <3>1. op[q].org = m
      BY <1>0, <2>1, <2>3, OpFields DEF SetCnpj, DeleteSource, At, InOrder, RowInHand
    <3>2. CASE SetCnpj(q)
      <4>1. m \in Node /\ doc \in [Node -> SUBSET Cnpj]
        BY <1>0 DEF StoresTyped, Documents
      <4>2. doc' = [doc EXCEPT ![m] = {CnpjOf[m]}]
        BY <1>0, <2>2, <3>1, <3>2, SetCnpjStores
      <4> QED
        BY <4>1, <4>2
    <3>3. CASE DeleteSource(q)
      BY <2>2, <3>1, <3>3 DEF DeleteSource, DeleteNode
    <3> QED
      BY <2>3, <3>2, <3>3
  <2>4. CASE EnsurePoliticianControls(q)
    BY <1>0, <2>1, <2>4, LinkedStores DEF RowInHand
  <2> QED
    BY <2>1, <2>3, <2>4
<1>4. CASE doc'[m] # {}
  BY <1>4 DEF Queued
<1>5. CASE doc'[m] = {}
  <2>1. reviews'[i].status \in {"pending", "rejected"} \/ StatusScrubbed(i)
    BY <1>2 DEF StatusThen, StatusKept, StatusClosed, Open
  <2>2. ASSUME NEW q \in Operator, op'[q].pc = "mark", op'[q].review = i
        PROVE  FALSE
    BY <1>3, <1>5, <2>2 DEF Open
  <2>3. CASE reviews'[i].status \in {"pending", "rejected"}
    <3>1. Open(i)'
      BY <2>2, <2>3 DEF Open
    <3>2. reviews'[i].type = "unknown_cnpj" /\ reviews'[i].org = m /\ i \in DOMAIN reviews'
      BY <1>1 DEF RowKept
    <3> QED
      BY <3>1, <3>2 DEF Queued
  <2>4. CASE StatusScrubbed(i)
    <3>1. reviews[i].who = m
      BY <1>0 DEF StoresTyped, ReviewsTyped
    <3>2. m \in tombstones
      BY <2>4, <3>1 DEF StatusScrubbed, ScrubInv
    <3> QED
      BY <3>2, TombstonesStand DEF Queued
  <2> QED
    BY <2>1, <2>3, <2>4
<1> QED
  BY <1>4, <1>5

\* The run that found the company files it, or stops.
LEMMA PartyStays ==
  ASSUME Typed, [Next]_vars, NEW m \in orgs, djen.name = m, djen.pc \in {"edge", "file"}
  PROVE  Queued(m)'
<1>0. StoresTyped /\ OpTyped /\ DiscoveryTyped /\ djen \in DjenState
  BY DEF Typed, DiscoveryTyped
<1>1. CASE UNCHANGED djen
  BY <1>1 DEF Queued
<1>2. CASE CiteCompany
  <2>1. djen'.name = m /\ djen'.pc = "file"
    BY <1>0, <1>2 DEF CiteCompany, DjenState
  <2> QED
    BY <2>1 DEF Queued
<1>3. CASE FileUnknownCNPJ /\ UNCHANGED op
  <2> DEFINE r == [type |-> "unknown_cnpj", org |-> djen.name, who |-> djen.name, status |-> "pending"]
             i == Len(reviews) + 1
  <2>1. reviews' = Append(reviews, r) /\ reviews \in Seq(Review)
    BY <1>0, <1>3 DEF FileUnknownCNPJ, CreatePendingReview, StoresTyped, ReviewsTyped
  <2>2. r.type = "unknown_cnpj" /\ r.org = m /\ r.status = "pending"
    OBVIOUS
  <2> HIDE DEF r
  <2>3. i \in DOMAIN reviews' /\ reviews'[i] = r /\ i \notin DOMAIN reviews
    BY <2>1
  <2>4. PICK k : k = i
    OBVIOUS
  <2>5. \A o \in Operator : op'[o].pc = "mark" => op'[o].review # k
    BY <1>0, <1>3, <2>3, <2>4, OpFields DEF InOrder
  <2>6. Open(k)'
    BY <2>2, <2>3, <2>4, <2>5 DEF Open
  <2> HIDE DEF i
  <2> QED
    BY <2>2, <2>3, <2>4, <2>6 DEF Queued
<1>4. CASE DjenStops /\ Remember
  <2>1. djen' = NoParty /\ unfiled' = unfiled \cup {m}
    BY <1>4 DEF DjenStops, Remember
  <2> QED
    BY <2>1 DEF Queued
<1>5. \/ UNCHANGED djen \/ CiteCompany \/ (FileUnknownCNPJ /\ UNCHANGED op) \/ (DjenStops /\ Remember)
  <2>1. ByEnricher(EnricherNext) \/ (\E o \in Operator : ByOperator(OperatorAction(o))) \/ UNCHANGED vars
          => UNCHANGED djen
    BY DEF ByEnricher, ByOperator, discovery, vars
  <2>2. ByDiscovery(Discover) => Discover /\ UNCHANGED op
    BY DEF ByDiscovery, operators
  <2>3. Discover => UNCHANGED djen \/ CiteCompany \/ FileUnknownCNPJ
    BY DEF Discover, HandleCompanyParty, DjenStep, UpsertCompany, SnapshotCompany, LinkCNPJ, LinkStep,
           LinkEnsure, LinkEdge
  <2> QED
    BY <2>1, <2>2, <2>3, StepCases
<1> QED
  BY <1>1, <1>2, <1>3, <1>4, <1>5

\* Every step keeps QueueInv.
LEMMA QueueStep ==
  ASSUME Typed, [Next]_vars, QueueInv
  PROVE  QueueInv'
<1>1. ASSUME NEW m \in orgs' \cap Name
      PROVE  Queued(m)'
  <2>1. CASE m \notin orgs
    BY <2>1, NewNames
  <2>2. CASE m \in orgs
    <3>1. Queued(m)
      BY <2>2 DEF QueueInv
    <3>2. CASE doc[m] # {}
      BY <2>2, <3>2, DocumentsStay DEF Queued
    <3>3. CASE \E i \in DOMAIN reviews : reviews[i].type = "unknown_cnpj" /\ reviews[i].org = m /\ Open(i)
      BY <2>2, <3>3, OpenRowStays DEF QueueInv
    <3>4. CASE djen.name = m /\ djen.pc \in {"edge", "file"}
      BY <2>2, <3>4, PartyStays
    <3>5. CASE m \in unfiled \cup tombstones
      <4>1. unfiled \subseteq unfiled'
        <5>1. Remember \/ UNCHANGED vars
          BY StepCases DEF ByEnricher, ByOperator, ByDiscovery
        <5> QED
          BY <5>1 DEF Remember, vars, history
      <4> QED
        BY <3>5, <4>1, TombstonesStand DEF Queued
    <3> QED
      BY <3>1, <3>2, <3>3, <3>4, <3>5 DEF Queued
  <2> QED
    BY <2>1, <2>2
<1>2. ScrubInv'
  <2>1. ASSUME NEW q \in Operator, op'[q].pc = "scrub"
        PROVE  op'[q].keys \subseteq tombstones'
    <3>1. CASE op'[q] = op[q]
      BY <2>1, <3>1, TombstonesStand DEF QueueInv, ScrubInv
    <3>2. CASE op'[q].keys = op[q].keys /\ CreatePurgeTombstones(q)
      BY <3>2 DEF CreatePurgeTombstones
    <3> QED
      BY <2>1, <3>1, <3>2, MarksThen
  <2> QED
    BY <2>1 DEF ScrubInv
<1> QED
  BY <1>1, <1>2 DEF QueueInv

\* QueueInv implies the property the run checks.
LEMMA QueuedIsFiled ==
  ASSUME Typed, QueueInv
  PROVE  NameOnlyIsQueued
<1>1. ASSUME NEW m \in orgs \cap Name, NEW i \in DOMAIN reviews,
             reviews[i].type = "unknown_cnpj", reviews[i].org = m, Open(i)
      PROVE  \E k \in Filed("unknown_cnpj", m, m) : reviews[k].status \in {"pending", "rejected"}
  <2>1. reviews[i].who = m
    BY <1>1 DEF Typed, StoresTyped, ReviewsTyped
  <2>2. i \in Filed("unknown_cnpj", m, m)
    BY <1>1, <2>1 DEF Filed
  <2> QED
    BY <1>1, <2>2 DEF Open
<1> QED
  BY <1>1 DEF QueueInv, Queued, NameOnlyIsQueued

\* QueueInv holds always.
LEMMA SpecQueue == Spec => []QueueInv
<1>1. Init => QueueInv
  BY NoOpMoves DEF Init, StoreInit, AttachInit, QueueInv, ScrubInv
<1>2. Typed /\ QueueInv /\ [Next]_vars => QueueInv'
  BY QueueStep
<1> QED
  BY <1>1, <1>2, SpecTyped, PTL DEF Spec

\* A company without a document keeps a row that is pending or that a human
\* rejected, however approvals of its rows and merges interleave, unless its name
\* was purged or the run that found it stopped (handleCompanyParty,
\* approveUnknownCNPJ, UpdatePendingReviewStatus, DeletePurgedSubjectName).
THEOREM NameOnlyAreQueued == Spec => []NameOnlyIsQueued
<1>1. Typed /\ QueueInv => NameOnlyIsQueued
  BY QueuedIsFiled
<1> QED
  BY <1>1, SpecTyped, SpecQueue, PTL

-------------------------------------------------------------------------------
(* Erased companies.                                                       *)

Keys(n) == doc[n] \cup ({n} \cap Name)

\* What the enricher is past asking about, and what DJEN and the sanctions are.
RunKeys   == {j.cnpj : j \in run.queue \cup run.children}
               \cup (IF run.pc = "update" THEN {run.job.cnpj} ELSE {})
               \cup (IF run.pc = "company" THEN {run.socio} ELSE {})
FoundKeys == (IF djen.pc = "upsert" THEN {djen.name} ELSE {})
               \cup (IF link.pc = "ensure" THEN {SanctionedCnpj[link.sanction]} ELSE {})

\* The keys in flight, by the process that holds them.
LEMMA InFlightAre ==
  /\ InFlight = RunKeys \cup FoundKeys
  /\ InFlight' = RunKeys' \cup FoundKeys'
BY DEF InFlight, RunKeys, FoundKeys

\* Only the keys of K are new on a node.
NewKeys(K) == \A n \in orgs' : Keys(n)' \subseteq K \cup (IF n \in orgs THEN Keys(n) ELSE {})

\* A MERGE by CNPJ adds that CNPJ to the keys of the nodes, and no other.
LEMMA EnsureKeys ==
  ASSUME Documents, NEW c \in Cnpj, EnsureOrganizationByCNPJ(c)
  PROVE  NewKeys({c})
<1>1. ASSUME NEW n \in orgs'
      PROVE  Keys(n)' \subseteq {c} \cup (IF n \in orgs THEN Keys(n) ELSE {})
  <2>1. (n \in orgs /\ doc'[n] = doc[n]) \/ doc'[n] = {c}
    BY EnsureGrows
  <2>2. n \in Name => n \in orgs
    BY EnsureGrows DEF NoNewName
  <2> QED
    BY <2>1, <2>2 DEF Keys
<1> QED
  BY <1>1 DEF NewKeys

\* A run that goes on has the keys it had.
LEMMA RunGoesOn ==
  ASSUME RunTyped, Documents,
         \/ \E j \in run.queue : SkipVisited(j) \/ Fetch(j) \/ FetchFails(j)
         \/ RunEnd \/ QsaDone \/ EnrichFails \/ RunDies \/ PeriodPasses \/ Update \/ UpsertQSAPerson
         \/ UpsertQSAOrganization \/ \E s \in run.todo : FilePolitician(s)
  PROVE  RunKeys' \subseteq RunKeys
<1> USE RunFields
<1>0. run \in RunState
  BY DEF RunTyped
<1>1. ASSUME NEW j \in run.queue, SkipVisited(j) \/ FetchFails(j)
      PROVE  RunKeys' \subseteq RunKeys
  <2>1. run'.queue \subseteq run.queue /\ run'.children = run.children /\ run'.pc = run.pc
        /\ run'.job = run.job /\ run'.socio = run.socio
    BY <1>0, <1>1 DEF SkipVisited, FetchFails, RunState
  <2> QED
    BY <2>1 DEF RunKeys
<1>2. ASSUME NEW j \in run.queue, Fetch(j)
      PROVE  RunKeys' \subseteq RunKeys
  <2> DEFINE pc2 == IF j.cnpj \in Unknown THEN "next" ELSE "update"
             job2 == IF j.cnpj \in Unknown THEN NoJob ELSE j
  <2>1. run' = [run EXCEPT !.queue = @ \ {j}, !.visited = @ \cup {j.cnpj}, !.pc = pc2, !.job = job2]
    BY <1>2 DEF Fetch
  <2>2. (pc2 = "update" /\ job2 = j) \/ pc2 = "next"
    OBVIOUS
  <2> HIDE DEF pc2, job2
  <2>3. run'.queue \subseteq run.queue /\ run'.children = run.children /\ run'.pc = pc2 /\ run'.job = job2
    BY <1>0, <2>1 DEF RunState
  <2> QED
    BY <2>2, <2>3 DEF RunKeys
<1>3. ASSUME NEW q \in SUBSET Job, run' = NextJob(q), q \subseteq run.queue \cup run.children
      PROVE  RunKeys' \subseteq RunKeys
  <2>1. run'.queue = q /\ run'.children = {} /\ run'.pc = "next"
    BY <1>3 DEF NextJob, NoRun
  <2> QED
    BY <1>3, <2>1 DEF RunKeys
<1>4. CASE run' = NoRun
  <2>1. run'.queue = {} /\ run'.children = {} /\ run'.pc = "idle"
    BY <1>4 DEF NoRun
  <2> QED
    BY <2>1 DEF RunKeys
<1>5. CASE QsaDone
  <2> DEFINE q == run.queue \cup {k \in run.children : k.cnpj \notin run.visited /\ k.depth <= MaxHops}
  <2>1. q \in SUBSET Job /\ q \subseteq run.queue \cup run.children
    OBVIOUS
  <2>2. run' = NextJob(q)
    BY <1>5 DEF QsaDone
  <2> HIDE DEF q
  <2> QED
    BY <1>3, <2>1, <2>2
<1>6. CASE run' = NextJob(run.queue)
  BY <1>3, <1>6
<1>7. CASE UNCHANGED run
  BY <1>7 DEF RunKeys
<1>8. CASE Update
  <2>1. PICK n \in Merged(run.job.cnpj) :
          run' = [run EXCEPT !.pc = "qsa", !.org = n, !.todo = Qsa[run.job.cnpj]]
    BY <1>8 DEF Update
  <2>2. run'.queue = run.queue /\ run'.children = run.children /\ run'.pc = "qsa"
    BY <1>0, <2>1 DEF RunState
  <2> QED
    BY <2>2 DEF RunKeys
<1>9. CASE UpsertQSAPerson /\ run' # NextJob(run.queue)
  <2>1. run'.queue = run.queue /\ run'.children = run.children /\ run'.pc = "qsa"
    BY <1>0, <1>9 DEF UpsertQSAPerson, RunState
  <2> QED
    BY <2>1 DEF RunKeys
<1>10. CASE UpsertQSAOrganization /\ run' # NextJob(run.queue)
  <2> DEFINE child  == [cnpj |-> run.socio, depth |-> run.job.depth + 1]
             below  == IF Holders(run.socio) = {} THEN run.children \cup {child} ELSE run.children
  <2>1. run' = [run EXCEPT !.pc = "qsa", !.todo = @ \ {run.socio}, !.socio = AnyCnpj, !.children = below]
        /\ run.pc = "company"
    BY <1>10 DEF UpsertQSAOrganization
  <2>2. \A k \in below : k \in run.children \/ k.cnpj = run.socio
    OBVIOUS
  <2> HIDE DEF below
  <2>3. run'.queue = run.queue /\ run'.children = below /\ run'.pc = "qsa"
    BY <1>0, <2>1 DEF RunState
  <2> QED
    BY <2>1, <2>2, <2>3 DEF RunKeys
<1>11. ASSUME NEW s \in run.todo, FilePolitician(s)
       PROVE  RunKeys' \subseteq RunKeys
  <2>1. run'.queue = run.queue /\ run'.children = run.children /\ run'.pc = "qsa"
    BY <1>0, <1>11 DEF FilePolitician, RunState
  <2> QED
    BY <2>1 DEF RunKeys
<1>12. RunEnd \/ RunDies \/ EnrichFails \/ PeriodPasses
         => run' = NoRun \/ run' = NextJob(run.queue) \/ UNCHANGED run
  BY DEF RunEnd, RunDies, EnrichFails, PeriodPasses
<1> QED
  BY <1>1, <1>2, <1>4, <1>5, <1>6, <1>7, <1>8, <1>9, <1>10, <1>11, <1>12

\* Exposed keys stay exposed, and an override exposes its keys at once.
LEMMA ExposedGrows ==
  ASSUME Remember
  PROVE  exposed \subseteq exposed' /\ Overrides \subseteq exposed'
BY DEF Remember

\* Keys in flight and keys of nodes come from those that were, or are told.
LEMMA ErasureKept ==
  ASSUME ErasureInv, Remember, UNCHANGED tombstones, NEW K, NewKeys(K), InFlight' \subseteq InFlight \cup K,
         K \cap tombstones \subseteq exposed'
  PROVE  ErasureInv'
<1>1. InFlight' \cap tombstones' \subseteq exposed'
  BY ExposedGrows DEF ErasureInv
<1>2. ASSUME NEW n \in orgs'
      PROVE  Keys(n)' \cap tombstones' \subseteq exposed'
  <2>1. Keys(n)' \subseteq K \cup (IF n \in orgs THEN Keys(n) ELSE {})
    BY DEF NewKeys
  <2>2. n \in orgs => Keys(n) \cap tombstones \subseteq exposed
    BY DEF ErasureInv, ErasedStaysOut, Keys
  <2> QED
    BY <2>1, <2>2, ExposedGrows
<1>3. ErasedStaysOut'
  BY <1>2 DEF ErasedStaysOut, Keys
<1> QED
  BY <1>1, <1>3 DEF ErasureInv

\* Without a change of nodes or documents nobody comes back.
LEMMA NodesStay ==
  ASSUME UNCHANGED <<orgs, doc>>, NEW K
  PROVE  NewKeys(K)
BY DEF NewKeys, Keys

\* The argument of --cnpj: a key the graph has is one that is told already.
LEMMA SingleIsTold ==
  ASSUME Typed, ErasureInv, Remember, NEW c \in Cnpj, RunSingle(c), c \in tombstones
  PROVE  c \in exposed'
<1>1. Documents
  BY DEF Typed, StoresTyped
<1>2. CASE c \in Present
  <2>1. PICK n \in orgs : c \in doc[n]
    <3>1. CASE c \in orgs
      BY <1>1, <3>1, EntityFacts DEF Documents
    <3> QED
      BY <1>2, <3>1 DEF Present
  <2>2. c \in exposed
    BY <2>1 DEF ErasureInv, ErasedStaysOut
  <2> QED
    BY <2>2, ExposedGrows
<1>3. CASE c \notin Present
  <2>1. run'.queue = {[cnpj |-> c, depth |-> 0]} /\ run.pc = "idle"
    BY DEF RunSingle, NoRun
  <2> DEFINE typed == {x \in Cnpj : run.pc = "idle" /\ x \notin Present
                                     /\ run'.queue = {[cnpj |-> x, depth |-> 0]}}
             given == UNION {doc'[n] : n \in {n \in Name : doc'[n] # doc[n]}}
  <2>2. c \in typed
    BY <1>3, <2>1
  <2>3. Overrides = tombstones \cap (given \cup typed)
    BY DEF Overrides
  <2> HIDE DEF typed, given
  <2>4. c \in Overrides
    BY <2>2, <2>3
  <2> QED
    BY <2>4, ExposedGrows
<1> QED
  BY <1>2, <1>3

\* What the enricher writes it has in flight, or overrides.
LEMMA EnricherErasure ==
  ASSUME Typed, ErasureInv, ByEnricher(EnricherNext)
  PROVE  ErasureInv'
<1>0. /\ StoresTyped /\ RunTyped /\ Documents /\ EnricherNext /\ Remember
      /\ UNCHANGED <<operators, discovery>>
  BY DEF Typed, StoresTyped, ByEnricher
<1>1. UNCHANGED tombstones /\ FoundKeys' = FoundKeys
  BY <1>0, EnricherGrows DEF WorkerStep, Grows, FoundKeys, discovery
<1> USE RunFields
<1>2. ASSUME NEW K, NewKeys(K), RunKeys' \subseteq RunKeys, K \subseteq RunKeys
      PROVE  ErasureInv'
  <2>1. InFlight' \subseteq InFlight \cup K /\ K \cap tombstones \subseteq exposed'
    BY <1>0, <1>1, <1>2, InFlightAre, ExposedGrows DEF ErasureInv
  <2> QED
    BY <1>0, <1>1, <1>2, <2>1, ErasureKept
<1>3. CASE Update
  <2>1. run.job.cnpj \in Cnpj /\ run.job.cnpj \in RunKeys /\ EnsureOrganizationByCNPJ(run.job.cnpj)
    BY <1>0, <1>3 DEF Job, Update, UpdateOrganizationEnrichment, RunKeys
  <2>2. NewKeys({run.job.cnpj})
    BY <1>0, <2>1, EnsureKeys
  <2>3. PICK K : K = {run.job.cnpj}
    OBVIOUS
  <2> QED
    BY <1>0, <1>2, <1>3, <2>1, <2>2, <2>3, RunGoesOn
<1>4. CASE UpsertQSAOrganization /\ run.org \in orgs
  <2>1. run.socio \in Cnpj /\ run.socio \in RunKeys /\ EnsureOrganizationByCNPJ(run.socio)
    BY <1>0, <1>4 DEF UpsertQSAOrganization, RunTyped, RunKeys
  <2>2. NewKeys({run.socio})
    BY <1>0, <2>1, EnsureKeys
  <2>3. PICK K : K = {run.socio}
    OBVIOUS
  <2> QED
    BY <1>0, <1>2, <1>4, <2>1, <2>2, <2>3, RunGoesOn
<1>5. CASE UNCHANGED <<orgs, doc>> /\ RunKeys' \subseteq RunKeys
  BY <1>2, <1>5, NodesStay
<1>6. CASE \E limit \in Limits : RunBegin(limit)
  <2>1. PICK limit \in Limits : RunBegin(limit)
    BY <1>6
  <2>2. PICK S \in Listings(limit) :
          run' = [NoRun EXCEPT !.pc = "next",
                               !.queue = {[cnpj |-> c, depth |-> 0] : c \in UNION {doc[n] : n \in S}}]
    BY <2>1 DEF RunBegin
  <2> DEFINE K == UNION {doc[n] : n \in S}
             q == {[cnpj |-> c, depth |-> 0] : c \in K}
  <2>3. S \subseteq orgs
    BY DEF Listings, NeedsEnrichment
  <2>4. K \cap tombstones \subseteq exposed'
    <3>1. \A n \in orgs : doc[n] \cap tombstones \subseteq exposed
      BY DEF ErasureInv, ErasedStaysOut
    <3> QED
      BY <1>0, <2>3, <3>1, ExposedGrows
  <2>5. {j.cnpj : j \in q} \subseteq K
    OBVIOUS
  <2> HIDE DEF K
  <2>6. run'.queue = q /\ run'.children = {} /\ run'.pc = "next"
    BY <2>2 DEF K, NoRun
  <2> HIDE DEF q
  <2>7. RunKeys' \subseteq K
    BY <2>5, <2>6 DEF RunKeys
  <2>8. NewKeys(K)
    BY <2>1, NodesStay DEF RunBegin, stores, graph
  <2>9. InFlight' \subseteq InFlight \cup K
    BY <1>1, <2>7, InFlightAre
  <2> QED
    BY <1>0, <1>1, <2>4, <2>8, <2>9, ErasureKept
<1>7. CASE \E c \in Singles : RunSingle(c)
  <2>1. PICK c \in Singles : RunSingle(c)
    BY <1>7
  <2>2. c \in Cnpj
    BY EnricherAssumption
  <2> DEFINE K == {c}
  <2>3. K \cap tombstones \subseteq exposed'
    BY <1>0, <2>1, <2>2, SingleIsTold
  <2>4. run'.queue = {[cnpj |-> c, depth |-> 0]} /\ run'.children = {} /\ run'.pc = "next"
    BY <2>1 DEF RunSingle, NoRun
  <2>5. RunKeys' \subseteq K
    BY <2>4 DEF RunKeys
  <2>6. NewKeys(K)
    BY <1>0, <2>1, <2>2, EnsureKeys DEF RunSingle
  <2> HIDE DEF K
  <2>7. InFlight' \subseteq InFlight \cup K
    BY <1>1, <2>5, InFlightAre
  <2> QED
    BY <1>0, <1>1, <2>3, <2>6, <2>7, ErasureKept
<1>8. ASSUME NEW s \in run.todo, CheckSocio(s)
      PROVE  ErasureInv'
  <2>1. run \in RunState /\ UNCHANGED <<orgs, doc>>
    BY <1>0, <1>8 DEF RunTyped, CheckSocio, stores, graph
  <2>2. CASE s \in tombstones
    <3>1. run'.queue = run.queue /\ run'.children = run.children /\ run'.pc = "qsa"
      BY <1>8, <2>1, <2>2 DEF CheckSocio, IsSubjectPurged, RunState
    <3>2. RunKeys' \subseteq RunKeys
      BY <3>1 DEF RunKeys
    <3> QED
      BY <1>5, <2>1, <3>2
  <2>3. CASE s \notin tombstones
    <3> DEFINE K == {s}
               pc2 == IF s \in Cnpj THEN "company" ELSE "person"
    <3>1. run' = [run EXCEPT !.pc = pc2, !.socio = s]
      BY <1>8, <2>3 DEF CheckSocio, IsSubjectPurged
    <3>2. pc2 # "update"
      OBVIOUS
    <3> HIDE DEF pc2
    <3>3. run'.queue = run.queue /\ run'.children = run.children /\ run'.pc # "update" /\ run'.socio = s
      BY <2>1, <3>1, <3>2 DEF RunState
    <3>4. RunKeys' \subseteq RunKeys \cup K
      BY <3>3 DEF RunKeys
    <3>5. K \cap tombstones \subseteq exposed'
      BY <2>3
    <3> HIDE DEF K
    <3>6. InFlight' \subseteq InFlight \cup K
      BY <1>1, <3>4, InFlightAre
    <3> QED
      BY <1>0, <1>1, <2>1, <3>5, <3>6, NodesStay, ErasureKept
  <2> QED
    BY <2>2, <2>3
<1>9. UNCHANGED <<orgs, doc>> \/ Update \/ (UpsertQSAOrganization /\ run.org \in orgs)
        \/ (\E c \in Singles : RunSingle(c))
  BY <1>0 DEF EnricherNext, EnricherStep, PeriodPasses, RunBegin, SkipVisited, Fetch, FetchFails, RunEnd, CheckSocio,
         QsaDone, EnrichFails, RunDies, FilePolitician, UpsertQSAPerson, UpsertQSAOrganization, stores, graph, nodes
<1>10. RunKeys' \subseteq RunKeys \/ (\E limit \in Limits : RunBegin(limit)) \/ (\E c \in Singles : RunSingle(c))
       \/ \E s \in run.todo : CheckSocio(s)
  BY <1>0, RunGoesOn DEF EnricherNext, EnricherStep
<1> QED
  BY <1>3, <1>4, <1>5, <1>6, <1>7, <1>8, <1>9, <1>10

\* What the two other workers write they have in flight.
LEMMA DiscoveryErasure ==
  ASSUME Typed, ErasureInv, Discover \/ DjenStops, UNCHANGED enricher, Remember
  PROVE  ErasureInv'
<1>0. StoresTyped /\ DiscoveryTyped /\ Documents /\ djen \in DjenState /\ link \in LinkState
  BY DEF Typed, StoresTyped, DiscoveryTyped
<1>1. UNCHANGED tombstones /\ RunKeys' = RunKeys
  BY <1>0, DiscoveryGrows DEF Grows, RunKeys, enricher
<1> USE DiscoveryFields
<1>2. ASSUME NEW K, NewKeys(K), FoundKeys' \subseteq FoundKeys \cup K,
             (K \subseteq FoundKeys) \/ (K \cap tombstones = {})
      PROVE  ErasureInv'
  <2>1. InFlight' \subseteq InFlight \cup K /\ K \cap tombstones \subseteq exposed'
    BY <1>1, <1>2, InFlightAre, ExposedGrows DEF ErasureInv
  <2> QED
    BY <1>1, <1>2, <2>1, ErasureKept
<1>3. ASSUME UNCHANGED <<orgs, doc>>, FoundKeys' \subseteq FoundKeys
      PROVE  ErasureInv'
  <2>1. PICK K : K = {}
    OBVIOUS
  <2> QED
    BY <1>2, <1>3, <2>1, NodesStay
<1>4. ASSUME NEW m \in Name, NEW k \in Case, HandleCompanyParty(m, k)
      PROVE  ErasureInv'
  <2>1. UNCHANGED <<orgs, doc, link>>
    BY <1>4 DEF HandleCompanyParty, stores, graph
  <2>2. CASE m \in tombstones
    <3>1. djen'.pc = "snap"
      BY <1>4, <2>2 DEF HandleCompanyParty, IsSubjectPurged
    <3> QED
      BY <1>3, <2>1, <3>1 DEF FoundKeys
  <2>3. CASE m \notin tombstones
    <3> DEFINE K == {m}
    <3>1. djen'.name = m
      BY <1>4 DEF HandleCompanyParty
    <3>2. FoundKeys' \subseteq FoundKeys \cup K
      BY <2>1, <3>1 DEF FoundKeys
    <3>3. K \cap tombstones = {}
      BY <2>3
    <3> HIDE DEF K
    <3> QED
      BY <1>2, <2>1, <3>2, <3>3, NodesStay
  <2> QED
    BY <2>2, <2>3
<1>5. CASE UpsertCompany
  <2> DEFINE K == {djen.name}
  <2>1. orgs' = orgs \cup {djen.name} /\ UNCHANGED <<doc, link>> /\ djen.pc = "upsert" /\ djen'.pc = "edge"
    BY <1>0, <1>5 DEF UpsertCompany, UpsertDjenOrganization, DjenState
  <2>2. djen.name \notin orgs => doc[djen.name] = {}
    BY <1>0 DEF Documents
  <2>3. NewKeys(K)
    BY <2>1, <2>2 DEF NewKeys, Keys
  <2>4. FoundKeys' \subseteq FoundKeys \cup K /\ K \subseteq FoundKeys
    BY <2>1 DEF FoundKeys
  <2> HIDE DEF K
  <2> QED
    BY <1>2, <2>3, <2>4
<1>6. CASE CiteCompany \/ FileUnknownCNPJ \/ SnapshotCompany \/ DjenStops
  <2>1. djen'.pc # "upsert" /\ UNCHANGED <<orgs, doc, link>>
    BY <1>0, <1>6 DEF CiteCompany, FileUnknownCNPJ, SnapshotCompany, DjenStops, NoParty, DjenState,
                      stores, graph, nodes
  <2> QED
    BY <1>3, <2>1 DEF FoundKeys
<1>7. ASSUME NEW s \in Sanction, LinkCNPJ(s)
      PROVE  ErasureInv'
  <2> DEFINE K == {SanctionedCnpj[s]}
  <2>1. UNCHANGED <<orgs, doc, djen>>
    BY <1>7 DEF LinkCNPJ, stores, graph
  <2>2. link'.sanction = s
    BY <1>7 DEF LinkCNPJ, NoLink
  <2>3. FoundKeys' \subseteq FoundKeys \cup K
    BY <2>1, <2>2 DEF FoundKeys
  <2>4. K \cap tombstones = {}
    BY <1>7 DEF LinkCNPJ, IsSubjectPurged
  <2> HIDE DEF K
  <2> QED
    BY <1>2, <2>1, <2>3, <2>4, NodesStay
<1>8. CASE LinkEnsure
  <2> DEFINE c == SanctionedCnpj[link.sanction]
             K == {c}
  <2>1. NewKeys(K)
    BY <1>0, <1>8, EnsureKeys DEF LinkEnsure
  <2>2. link'.pc = "edge" /\ UNCHANGED djen /\ link.pc = "ensure"
    BY <1>0, <1>8 DEF LinkEnsure, LinkState
  <2>3. FoundKeys' \subseteq FoundKeys \cup K /\ K \subseteq FoundKeys
    BY <2>2 DEF FoundKeys
  <2> HIDE DEF K
  <2> QED
    BY <1>2, <2>1, <2>3
<1>9. CASE LinkEdge
  <2>1. link'.pc = "idle" /\ UNCHANGED <<orgs, doc, djen>>
    BY <1>9 DEF LinkEdge, NoLink, nodes
  <2> QED
    BY <1>3, <2>1 DEF FoundKeys
<1> QED
  BY <1>4, <1>5, <1>6, <1>7, <1>8, <1>9 DEF Discover, DjenStep, LinkStep

\* What an operator gives a company is an override; a tombstone exposes what is in flight.
LEMMA OperatorErasure ==
  ASSUME Typed, ErasureInv, NEW o \in Operator, ByOperator(OperatorAction(o))
  PROVE  ErasureInv'
<1>0. /\ StoresTyped /\ OpTyped /\ Documents /\ OperatorAction(o) /\ Remember
      /\ UNCHANGED <<enricher, djen, link>>
  BY DEF Typed, StoresTyped, ByOperator
<1>1. InFlight' = InFlight
  BY <1>0, InFlightAre DEF RunKeys, FoundKeys, enricher
<1>2. CASE CreatePurgeTombstones(o)
  <2>1. UNCHANGED <<orgs, doc>> /\ tombstones \subseteq tombstones'
    BY <1>2 DEF CreatePurgeTombstones, graph
  <2>2. (tombstones' \ tombstones) \cap (InFlight \cup Present) \subseteq exposed' /\ exposed \subseteq exposed'
    BY <1>0 DEF Remember
  <2>3. InFlight' \cap tombstones' \subseteq exposed'
    BY <1>1, <2>2 DEF ErasureInv
  <2>4. ASSUME NEW n \in orgs
        PROVE  Keys(n) \cap tombstones' \subseteq exposed'
    <3>1. Keys(n) \subseteq Present
      BY DEF Keys, Present
    <3>2. Keys(n) \cap tombstones \subseteq exposed
      BY DEF ErasureInv, ErasedStaysOut, Keys
    <3> QED
      BY <2>2, <3>1, <3>2
  <2>5. ErasedStaysOut'
    BY <2>1, <2>4 DEF ErasedStaysOut, Keys
  <2> QED
    BY <2>3, <2>5 DEF ErasureInv
<1>3. ASSUME NEW K, NewKeys(K), UNCHANGED tombstones, K \cap tombstones \subseteq exposed'
      PROVE  ErasureInv'
  BY <1>0, <1>1, <1>3, ErasureKept
<1>4. CASE UNCHANGED <<orgs, doc, tombstones>>
  <2>1. PICK K : K = {}
    OBVIOUS
  <2> QED
    BY <1>3, <1>4, <2>1, NodesStay
<1>5. CASE DeleteNode(op[o].org) /\ UNCHANGED tombstones
  <2>1. PICK K : K = {}
    OBVIOUS
  <2>2. \A n \in orgs' : n \in orgs /\ doc'[n] = doc[n]
    BY <1>0, <1>5 DEF DeleteNode, Documents
  <2>3. NewKeys(K)
    BY <2>2 DEF NewKeys, Keys
  <2> QED
    BY <1>3, <1>5, <2>1, <2>3
<1>6. CASE SetCnpj(o) /\ ~UNCHANGED doc
  <2> DEFINE n == op[o].org
             K == {CnpjOf[n]}
             given == UNION {doc'[m] : m \in {m \in Name : doc'[m] # doc[m]}}
             typed == {c \in Cnpj : run.pc = "idle" /\ c \notin Present
                                     /\ run'.queue = {[cnpj |-> c, depth |-> 0]}}
  <2>1. n \in Name /\ UNCHANGED orgs /\ doc' = [doc EXCEPT ![n] = K]
    BY <1>0, <1>6, SetCnpjStores
  <2>2. doc \in [Node -> SUBSET Cnpj] /\ n \in Node
    BY <1>0, <2>1, EntityFacts DEF Documents
  <2> HIDE DEF n, K
  <2>3. \A m \in Node : (m # n => doc'[m] = doc[m]) /\ (m = n => doc'[m] = K)
    BY <2>1, <2>2
  <2>4. orgs \subseteq Node
    BY <1>0 DEF Documents
  <2>5. NewKeys(K)
    BY <2>1, <2>3, <2>4 DEF NewKeys, Keys
  <2>6. doc'[n] # doc[n]
    <3>1. doc'[n] = doc[n] => doc' = doc
      BY <2>1, <2>2
    <3> QED
      BY <1>6, <3>1
  <2>7. K \subseteq given
    BY <2>1, <2>2, <2>3, <2>6
  <2>8. Overrides = tombstones \cap (given \cup typed)
    BY DEF Overrides
  <2> HIDE DEF given, typed
  <2>9. K \cap tombstones \subseteq exposed' /\ UNCHANGED tombstones
    BY <1>0, <1>6, <2>7, <2>8, ExposedGrows DEF SetCnpj
  <2> QED
    BY <1>3, <2>5, <2>9
<1>7. \/ CreatePurgeTombstones(o) \/ UNCHANGED <<orgs, doc, tombstones>>
      \/ (DeleteNode(op[o].org) /\ UNCHANGED tombstones) \/ (SetCnpj(o) /\ ~UNCHANGED doc)
  <2>1. MoveDefendantIn(o) \/ MoveControls(o) \/ CopyName(o) \/ EnsurePoliticianControls(o)
        \/ MarkApproved(o) \/ ScrubName(o) => UNCHANGED <<orgs, doc, tombstones>>
    BY DEF MoveDefendantIn, MoveControls, MoveEdges, CopyName, EnsurePoliticianControls, MarkApproved,
           ScrubName, graph, nodes
  <2>2. SetCnpj(o) => UNCHANGED <<orgs, tombstones>>
    BY DEF SetCnpj
  <2>3. DeleteSource(o) \/ PurgeNode(o)
          => (DeleteNode(op[o].org) /\ UNCHANGED tombstones) \/ UNCHANGED <<orgs, doc, tombstones>>
    BY DEF DeleteSource, PurgeNode, graph
  <2>4. CASE ~OperatorStep(o) \/ FindHolder(o)
    BY <1>0, <2>4, RequestWrites
  <2> QED
    BY <2>1, <2>2, <2>3, <2>4 DEF OperatorStep
<1> QED
  BY <1>2, <1>4, <1>5, <1>6, <1>7

\* Every step keeps ErasureInv.
LEMMA ErasureStep ==
  ASSUME Typed, [Next]_vars, ErasureInv
  PROVE  ErasureInv'
<1>1. CASE ByEnricher(EnricherNext)
  BY <1>1, EnricherErasure
<1>2. CASE \E o \in Operator : ByOperator(OperatorAction(o))
  BY <1>2, OperatorErasure
<1>3. CASE ByDiscovery(Discover)
  BY <1>3, DiscoveryErasure DEF ByDiscovery
<1>4. CASE DjenStops /\ UNCHANGED <<enricher, op, requests>> /\ Remember
  BY <1>4, DiscoveryErasure
<1>5. CASE UNCHANGED vars
  <2>1. UNCHANGED <<orgs, doc, tombstones, run, djen, link, exposed>>
    BY <1>5 DEF vars, stores, graph, enricher, discovery, history
  <2> QED
    BY <2>1, InFlightAre DEF ErasureInv, ErasedStaysOut, RunKeys, FoundKeys
<1> QED
  BY <1>1, <1>2, <1>3, <1>4, <1>5, StepCases

\* A company that was erased comes back only by a writer that had asked before
\* the tombstone was there, or by an operator's own hand (IsSubjectPurged in
\* upsertOrganization, handleCompanyParty and linkCNPJ).
THEOREM ErasedStayOut == Spec => []ErasedStaysOut
<1>1. Init => ErasureInv
  BY DEF Init, StoreInit, ErasureInv, ErasedStaysOut
<1>2. Typed /\ ErasureInv /\ [Next]_vars => ErasureInv'
  BY ErasureStep
<1>3. ErasureInv => ErasedStaysOut
  BY DEF ErasureInv
<1> QED
  BY <1>1, <1>2, <1>3, SpecTyped, PTL DEF Spec
===============================================================================
