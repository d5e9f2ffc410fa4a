------------------------------- MODULE OrgStore -------------------------------
(***************************************************************************)
(* The companies of the graph, and the statements that write them.         *)
(*                                                                         *)
(* A company has up to two keys, and no writer knows both: DJEN knows the  *)
(* name it was cited under, the sanctions worker and the CNPJ enricher     *)
(* know its CNPJ.  The id of an Organization node is made of the key its   *)
(* first writer knew, so Node is Cnpj \cup Name.  Only the id is unique:   *)
(* nothing in the store keeps two nodes from carrying the same CNPJ.       *)
(***************************************************************************)
EXTENDS Naturals, Sequences, FiniteSets

CONSTANTS
  Cnpj,        \* CNPJs; org_<cnpj> is the id such a node is created with
  Name,        \* company names DJEN publishes; org_djen_<slug> is the id
  CnpjOf,      \* [Name -> Cnpj]  what the operator finds out about a name
  LegalName,   \* [Cnpj -> key]   the tombstone key of its razao_social
  Socio,       \* individuals of the QSA, by name
  Politician,  \* SUBSET Socio    whose masked CPF is a politician's
  Case,        \* proceedings DJEN cites companies in
  Sanction     \* sanctions of companies

ASSUME OrgStoreAssumption ==
  /\ Cnpj \cap Name = {} /\ (Cnpj \cup Name) \cap Case = {}
  /\ IsFiniteSet(Cnpj) /\ IsFiniteSet(Name)
  /\ {} \notin {Cnpj, Name, Case, Sanction}
  /\ CnpjOf \in [Name -> Cnpj]
  /\ DOMAIN LegalName = Cnpj
  /\ Politician \subseteq Socio

VARIABLES
  orgs,        \* Organization nodes present
  doc,         \* [Node -> SUBSET Cnpj]: the CNPJ of the node, {} when it has none
  name,        \* [Node -> set of keys]: its name, {} when it has none
  enriched,    \* [Node -> Freshness]: enriched and enriched_at
  edges,       \* edges of the companies
  decided,     \* the DEFENDANT_IN edges whose outcome a human recorded, not "cited"
  reviews,     \* pending_review, in the order of filing
  tombstones   \* purge_tombstone: CNPJ keys and name keys

graph  == <<orgs, doc, name, enriched, edges, decided>>
nodes  == <<orgs, doc, name, enriched>>
stores == <<graph, reviews, tombstones>>

Node      == Cnpj \cup Name
NameKey   == Name \cup Socio \cup {LegalName[c] : c \in Cnpj}
Freshness == {"never", "fresh", "stale"}

\* DEFENDANT_IN and SANCTIONED_IN leave the company, CONTROLS enters it, and
\* OWNED_BY goes from the company to the node of its shareholder.
Edge == [type : {"DEFENDANT_IN"}, org : Node, to : Case]
          \cup [type : {"SANCTIONED_IN"}, org : Node, to : Sanction]
          \cup [type : {"CONTROLS"}, org : Node, to : Socio]
          \cup [type : {"OWNED_BY"}, org : Node, to : Node]

\* "scrubbed" is a row that a purge deleted: it is there no more.
Status == {"pending", "approved", "rejected", "scrubbed"}
Review == [type : {"unknown_cnpj"}, org : Node, who : Name, status : Status]
            \cup [type : {"politician_in_qsa"}, org : Node, who : Politician, status : Status]

AnyNode == CHOOSE n \in Node : TRUE

StoreTypeOK ==
  /\ orgs \subseteq Node
  /\ doc \in [Node -> SUBSET Cnpj]
  /\ name \in [Node -> SUBSET NameKey]
  /\ \A n \in Node : Cardinality(doc[n]) <= 1 /\ Cardinality(name[n]) <= 1
  /\ \A e \in edges : e.org \in orgs /\ (e.type = "OWNED_BY" => e.to \in orgs)
  /\ enriched \in [Node -> Freshness]
  /\ edges \subseteq Edge
  /\ decided \subseteq {e \in edges : e.type = "DEFENDANT_IN"}
  /\ reviews \in Seq(Review)
  /\ tombstones \subseteq Cnpj \cup NameKey

StoreInit ==
  /\ orgs = {} /\ edges = {} /\ decided = {} /\ tombstones = {} /\ reviews = <<>>
  /\ doc = [n \in Node |-> {}]
  /\ name = [n \in Node |-> {}]
  /\ enriched = [n \in Node |-> "never"]

-------------------------------------------------------------------------------
(* Statements.                                                             *)

Holders(c) == {n \in orgs : c \in doc[n]}

\* MERGE (o:Organization {cnpj: c}): every node that carries c, or a new one.
Merged(c) == IF Holders(c) = {} THEN {c} ELSE Holders(c)

\* EnsureOrganizationByCNPJ.
EnsureOrganizationByCNPJ(c) ==
  /\ orgs' = orgs \cup Merged(c)
  /\ doc' = [n \in Node |-> IF n \in Merged(c) THEN {c} ELSE doc[n]]

\* UpdateOrganizationEnrichment: MERGE on the CNPJ, never on the id.
UpdateOrganizationEnrichment(c) ==
  /\ EnsureOrganizationByCNPJ(c)
  /\ name' = [n \in Node |-> IF n \in Merged(c) THEN {LegalName[c]} ELSE name[n]]
  /\ enriched' = [n \in Node |-> IF n \in Merged(c) THEN "fresh" ELSE enriched[n]]

\* UpsertDjenOrganization: MERGE on the id made of the name.
UpsertDjenOrganization(m) ==
  /\ orgs' = orgs \cup {m}
  /\ name' = [name EXCEPT ![m] = {m}]
  /\ UNCHANGED <<doc, enriched, edges, decided>>

Touching(n) == {e \in edges : e.org = n \/ e.to = n}

\* DELETE of a node that has no edges left, DETACH DELETE of one that may.
DeleteNode(n) ==
  /\ orgs' = orgs \ {n}
  /\ doc' = [doc EXCEPT ![n] = {}]
  /\ name' = [name EXCEPT ![n] = {}]
  /\ enriched' = [enriched EXCEPT ![n] = "never"]
  /\ edges' = edges \ Touching(n)
  /\ decided' = decided \ Touching(n)

\* Mutant of EnsureEdge: MERGE of both ends.
EnsureEdgeBlind(t, n, x) == edges \cup {[type |-> t, org |-> n, to |-> x]}

\* EnsureDjenDefendantEdge, EnsureSanctionedInEdge: MATCH the node by its id,
\* MERGE the edge; a node that is gone makes it a silent no-op.
EnsureEdge(t, n, x) ==
  IF n \in orgs THEN edges \cup {[type |-> t, org |-> n, to |-> x]} ELSE edges

\* Rows are not deduplicated.
CreatePendingReview(t, n, x) ==
  reviews' = Append(reviews, [type |-> t, org |-> n, who |-> x, status |-> "pending"])

Filed(t, n, x) ==
  {i \in DOMAIN reviews : reviews[i].type = t /\ reviews[i].org = n /\ reviews[i].who = x}

IsSubjectPurged(k) == k \in tombstones
===============================================================================
