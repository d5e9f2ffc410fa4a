------------------------------ MODULE OrgSystem ------------------------------
(***************************************************************************)
(* Everything that writes companies, at work together: the enricher, the   *)
(* operators, the DJEN worker (handleCompanyParty) and the sanctions       *)
(* worker (linkCNPJ).                                                      *)
(***************************************************************************)
EXTENDS Enricher, OrgAttach

CONSTANTS
  SanctionedCnpj   \* [Sanction -> Cnpj]

ASSUME SystemAssumption == SanctionedCnpj \in [Sanction -> Cnpj]

VARIABLES
  djen,        \* the company party being handled
  handled,     \* djen_party_snapshot, of company parties
  link         \* the sanction being linked

\* History variables: no action reads them.
VARIABLES
  erased,      \* companies a node of which was purged
  exposed,     \* keys whose tombstone came too late, or that an operator overrode
  unfiled      \* names DJEN wrote a node for in a run that stopped before the review

discovery == <<djen, handled, link>>
history   == <<erased, exposed, unfiled>>
vars      == <<stores, enricher, operators, discovery, history>>

AnyName     == CHOOSE m \in Name : TRUE
AnySanction == CHOOSE s \in Sanction : TRUE
AnyCase     == CHOOSE k \in Case : TRUE
NoParty     == [pc |-> "idle", name |-> AnyName, case |-> AnyCase]
NoLink      == [pc |-> "idle", sanction |-> AnySanction, org |-> AnyNode]

TypeOK ==
  /\ StoreTypeOK /\ EnricherTypeOK /\ AttachTypeOK
  /\ djen \in [pc : {"idle", "upsert", "edge", "file", "snap"}, name : Name, case : Case]
  /\ handled \subseteq Name \X Case
  /\ link \in [pc : {"idle", "ensure", "edge"}, sanction : Sanction, org : Node]
  /\ erased \subseteq Cnpj /\ exposed \subseteq Cnpj \cup NameKey /\ unfiled \subseteq Name

Init ==
  /\ StoreInit /\ EnricherInit /\ AttachInit
  /\ djen = NoParty /\ handled = {} /\ link = NoLink
  /\ erased = {} /\ exposed = {} /\ unfiled = {}

-------------------------------------------------------------------------------
(* handleCompanyParty.                                                     *)

\* A party DJEN has not seen in the case yet; a purged name is only snapshotted.
HandleCompanyParty(m, k) ==
  /\ djen.pc = "idle" /\ <<m, k>> \notin handled
  /\ djen' = [pc |-> IF IsSubjectPurged(m) THEN "snap" ELSE "upsert", name |-> m, case |-> k]
  /\ UNCHANGED <<stores, handled, link>>

UpsertCompany ==
  /\ djen.pc = "upsert"
  /\ UpsertDjenOrganization(djen.name)
  /\ djen' = [djen EXCEPT !.pc = "edge"]
  /\ UNCHANGED <<reviews, tombstones, handled, link>>

\* The outcome is "cited", whatever it was.
CiteCompany ==
  /\ djen.pc = "edge"
  /\ edges' = EnsureEdge("DEFENDANT_IN", djen.name, djen.case)
  /\ decided' = decided \ {[type |-> "DEFENDANT_IN", org |-> djen.name, to |-> djen.case]}
  /\ djen' = [djen EXCEPT !.pc = "file"]
  /\ UNCHANGED <<nodes, reviews, tombstones, handled, link>>

\* Mutant of FileUnknownCNPJ: one row per company is enough.
FileUnknownOnce ==
  /\ djen.pc = "file"
  /\ IF Filed("unknown_cnpj", djen.name, djen.name) = {}
     THEN CreatePendingReview("unknown_cnpj", djen.name, djen.name) ELSE UNCHANGED reviews
  /\ djen' = [djen EXCEPT !.pc = "snap"]
  /\ UNCHANGED <<graph, tombstones, handled, link>>

FileUnknownCNPJ ==
  /\ djen.pc = "file"
  /\ CreatePendingReview("unknown_cnpj", djen.name, djen.name)
  /\ djen' = [djen EXCEPT !.pc = "snap"]
  /\ UNCHANGED <<graph, tombstones, handled, link>>

SnapshotCompany ==
  /\ djen.pc = "snap"
  /\ handled' = handled \cup {<<djen.name, djen.case>>}
  /\ djen' = NoParty
  /\ UNCHANGED <<stores, link>>

DjenStep == UpsertCompany \/ CiteCompany \/ FileUnknownCNPJ \/ SnapshotCompany

-------------------------------------------------------------------------------
(* linkCNPJ.                                                               *)

\* Mutant of LinkCNPJ: the tombstones are not asked.
LinkUnguarded(s) ==
  /\ link.pc = "idle"
  /\ link' = [NoLink EXCEPT !.pc = "ensure", !.sanction = s]
  /\ UNCHANGED <<stores, djen, handled>>

LinkCNPJ(s) ==
  /\ link.pc = "idle" /\ ~IsSubjectPurged(SanctionedCnpj[s])
  /\ link' = [NoLink EXCEPT !.pc = "ensure", !.sanction = s]
  /\ UNCHANGED <<stores, djen, handled>>

LinkEnsure ==
  LET c == SanctionedCnpj[link.sanction] IN
  /\ link.pc = "ensure"
  /\ EnsureOrganizationByCNPJ(c)
  /\ \E n \in Merged(c) : link' = [link EXCEPT !.pc = "edge", !.org = n]
  /\ UNCHANGED <<name, enriched, edges, decided, reviews, tombstones, djen, handled>>

LinkEdge ==
  /\ link.pc = "edge"
  /\ edges' = EnsureEdge("SANCTIONED_IN", link.org, link.sanction)
  /\ link' = NoLink
  /\ UNCHANGED <<nodes, decided, reviews, tombstones, djen, handled>>

\* (A run that stops here is one that never takes the step.)
LinkStep == LinkEnsure \/ LinkEdge

\* The DJEN run that was handling the party stops.
DjenStops ==
  /\ djen.pc # "idle"
  /\ errors < MaxErrors
  /\ errors' = errors + 1
  /\ djen' = NoParty
  /\ UNCHANGED <<stores, handled, link>>

Discover ==
  \/ \E m \in Name, k \in Case : HandleCompanyParty(m, k)
  \/ DjenStep
  \/ \E s \in Sanction : LinkCNPJ(s)
  \/ LinkStep

-------------------------------------------------------------------------------
(* The system.                                                             *)

\* Keys that some writer is past asking the tombstones about.
InFlight ==
  {j.cnpj : j \in run.queue \cup run.children}
    \cup (IF run.pc = "update" THEN {run.job.cnpj} ELSE {})
    \cup (IF run.pc = "company" THEN {run.socio} ELSE {})
    \cup (IF djen.pc = "upsert" THEN {djen.name} ELSE {})
    \cup (IF link.pc = "ensure" THEN {SanctionedCnpj[link.sanction]} ELSE {})

Present == orgs \cup UNION {doc[n] : n \in orgs}

\* An operator typed a purged CNPJ, into the form or as the argument of --cnpj.
Overrides ==
  tombstones \cap ((UNION {doc'[n] : n \in {n \in Name : doc'[n] # doc[n]}})
                     \cup {c \in Cnpj : run.pc = "idle" /\ c \notin Present
                                         /\ run'.queue = {[cnpj |-> c, depth |-> 0]}})

Entity(n) == IF n \in Name THEN CnpjOf[n] ELSE n

PurgedNow == {op[o].org : o \in {o \in Operator : At(o, "purge") /\ op'[o].pc = "tomb"}}

\* ScrubName deletes the snapshots of the name as well (DeletePurgedSubjectName).
Scrubbed == UNION {op[o].keys : o \in {o \in Operator : At(o, "scrub") /\ ~At(o, "scrub")' /\ errors' = errors}}

Remember ==
  /\ erased' = erased \cup {Entity(n) : n \in PurgedNow}
  /\ exposed' = (IF tombstones' # tombstones
                 THEN exposed \cup ((tombstones' \ tombstones) \cap (InFlight \cup Present))
                 ELSE exposed) \cup Overrides
  /\ unfiled' = IF djen.pc \in {"edge", "file"} /\ djen' = NoParty
                THEN unfiled \cup {djen.name} ELSE unfiled

ByEnricher(A)  == A /\ UNCHANGED <<operators, discovery>> /\ Remember
ByOperator(A)  == /\ A /\ handled' = handled \ (Scrubbed \X Case)
                  /\ UNCHANGED <<enricher, djen, link>> /\ Remember
ByDiscovery(A) == A /\ UNCHANGED <<enricher, operators>> /\ Remember

Next ==
  \/ ByEnricher(EnricherNext)
  \/ ByOperator(AttachNext)
  \/ ByDiscovery(Discover)
  \/ DjenStops /\ UNCHANGED <<enricher, op, requests>> /\ Remember

Spec == Init /\ [][Next]_vars

\* cron starts runs over all companies again and again, whatever is started by
\* hand; a run that was begun goes on; periods go by.  Nothing is asked of the
\* operators and of the other workers.
FairSpec ==
  /\ Spec
  /\ SF_vars(ByEnricher(RunBegin(0))) /\ WF_vars(ByEnricher(EnricherStep))
  /\ WF_vars(ByEnricher(PeriodPasses))

-------------------------------------------------------------------------------
(* Properties.                                                             *)

\* What the graph says about companies, whichever node says it.
Facts == {<<e.type, Entity(e.org), IF e.type = "OWNED_BY" THEN Entity(e.to) ELSE e.to>> : e \in edges}

\* No relation of a company is lost but by a purge: a merge moves the edges it
\* knows and refuses to delete a node that has others, also when edges arrive
\* between its statements (AttachOrganizationCNPJ).  What an edge says can be
\* lost: see OutcomesFollow.
FactsKept == [][PurgedNow = {} => Facts \subseteq Facts']_edges

\* An outcome a human recorded follows the company through merges.  It is lost by
\* a purge, when DJEN cites the company once more, and when two nodes of the
\* company are defendants in that case: what is said of the node that goes
\* overwrites what is said of the one that stays (AttachOrganizationCNPJ).
OutcomesFollow ==
  [][\A e \in decided :
       \/ \E f \in decided' : Entity(f.org) = Entity(e.org) /\ f.to = e.to
       \/ e.org \in PurgedNow
       \/ djen.pc = "edge" /\ djen.name = e.org /\ djen.case = e.to
       \/ \E f \in edges \ {e} : f.type = "DEFENDANT_IN" /\ Entity(f.org) = Entity(e.org) /\ f.to = e.to
    ]_decided

\* A company in the graph without a document has a row in the queue by which a
\* human can supply it, or one that a human rejected: no approval marks a review
\* whose node did not gain the document (handleCompanyParty, approveUnknownCNPJ).
\* Two companies have none: one that was found by a run that stopped, and one whose
\* name was purged, with any node that bore the name; its rows are deleted then,
\* and its tombstone keeps DJEN from filing another.
NameOnlyIsQueued ==
  \A m \in orgs \cap Name :
    \/ doc[m] # {}
    \/ \E i \in Filed("unknown_cnpj", m, m) : reviews[i].status \in {"pending", "rejected"}
    \/ djen.name = m /\ djen.pc \in {"edge", "file"}
    \/ m \in unfiled \cup tombstones

\* A politician whose control of a company was approved is shown to control it,
\* wherever merges moved the edge since (approvePoliticianInQSA), unless the
\* company was erased.
ApprovedIsShown ==
  \A i \in DOMAIN reviews :
    reviews[i].type = "politician_in_qsa" /\ reviews[i].status = "approved" =>
      \/ <<"CONTROLS", Entity(reviews[i].org), reviews[i].who>> \in Facts
      \/ Entity(reviews[i].org) \in erased

\* A company that was erased comes back only by a writer that had asked the
\* tombstones before, by a run of the enricher that had it in its queue, or by
\* an operator's own hand (IsSubjectPurged in the three workers).
ErasedStaysOut ==
  \A n \in orgs : (doc[n] \cup ({n} \cap Name)) \cap tombstones \subseteq exposed

Shown(c, s) ==
  \/ \E t \in {"CONTROLS", "OWNED_BY"} : <<t, c, s>> \in Facts
  \/ \E i \in DOMAIN reviews : reviews[i].who = s /\ Entity(reviews[i].org) = c

\* Every shareholder of a company the provider knows is shown in the end, or
\* filed for a human, although a run stamps the company before it gets to them
\* and may fail in between: the stamp goes stale (enrichOne, ReenrichDays).
SociosShown ==
  \A c \in Cnpj \ Unknown : \A s \in Qsa[c] :
    (Holders(c) # {}) ~> (Shown(c, s) \/ Holders(c) = {} \/ s \in tombstones)

\* A run of the enricher ends, also over companies that own each other (Run).
EnricherTerminates == (run.pc # "idle") ~> (run.pc = "idle")
===============================================================================
