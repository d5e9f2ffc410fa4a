------------------------------- MODULE Enricher -------------------------------
(***************************************************************************)
(* The CNPJ enricher: a run lists the companies that need it, looks each   *)
(* one up at the provider, and writes the company and its shareholders     *)
(* (the QSA); a shareholder company that is new to the graph is enriched   *)
(* in the same run, up to maxHops away.  One action per database call.     *)
(* A dry run, which writes nothing, is left out; so are the client's       *)
(* retries: a lookup ends in a record, a 404 or an error.                  *)
(***************************************************************************)
EXTENDS OrgStore

CONSTANTS
  Qsa,         \* [Cnpj -> SUBSET (Socio \cup Cnpj)], what the provider answers
  Unknown,     \* SUBSET Cnpj the provider answers 404 for
  MaxHops,     \* maxHops
  Limits,      \* values of --limit; 0 is all
  Singles,     \* values of --cnpj
  MaxCopies,   \* rows kept of a review filed over and over (bound)
  MaxFailures  \* lookups and database calls that fail (bound)

ASSUME EnricherAssumption ==
  /\ Qsa \in [Cnpj -> SUBSET (Socio \cup Cnpj)]
  /\ Socio \cap Node = {}
  /\ Unknown \subseteq Cnpj
  /\ Singles \subseteq Cnpj
  /\ MaxHops \in Nat /\ Limits \subseteq Nat /\ MaxCopies \in Nat /\ MaxFailures \in Nat

VARIABLES
  run,         \* the run in progress
  failures     \* failures so far

enricher == <<run, failures>>

AnyCnpj == CHOOSE c \in Cnpj : TRUE

\* pc "next": between two jobs; "update": the record was fetched; "qsa": between
\* two shareholders; "person", "company": the tombstones let run.socio through.
Job == [cnpj : Cnpj, depth : Nat]
RunState == [pc : {"idle", "next", "update", "qsa", "person", "company"},
             queue : SUBSET Job, visited : SUBSET Cnpj, job : Job, org : Node,
             todo : SUBSET (Socio \cup Cnpj), socio : Socio \cup Cnpj,
             children : SUBSET Job]

NoJob == [cnpj |-> AnyCnpj, depth |-> 0]
NoRun == [pc |-> "idle", queue |-> {}, visited |-> {}, job |-> NoJob, org |-> AnyNode,
          todo |-> {}, socio |-> AnyCnpj, children |-> {}]

EnricherTypeOK == run \in RunState /\ failures \in 0..MaxFailures

EnricherInit == run = NoRun /\ failures = 0

\* Back to the queue: what enrichOne kept on its stack is gone.
NextJob(q) == [NoRun EXCEPT !.pc = "next", !.queue = q, !.visited = run.visited]

-------------------------------------------------------------------------------
(* Run and rootJobs.                                                       *)

\* ReenrichDays go by.  Only runs that list companies read the stamp.
PeriodPasses ==
  /\ Limits # {} /\ \E n \in orgs : enriched[n] = "fresh"
  /\ enriched' = [n \in Node |-> IF enriched[n] = "fresh" THEN "stale" ELSE enriched[n]]
  /\ UNCHANGED <<orgs, doc, name, edges, decided, reviews, tombstones, run, failures>>

\* Mutant of NeedsEnrichment: no time-based pass.
NeverEnriched(n) == n \in orgs /\ doc[n] # {} /\ enriched[n] = "never"

NeedsEnrichment(n) == n \in orgs /\ doc[n] # {} /\ enriched[n] # "fresh"

\* ListOrganizationsNeedingEnrichment: the never-enriched first, up to the limit.
Listings(limit) ==
  LET due == {n \in Node : NeedsEnrichment(n)} IN
  {S \in SUBSET due :
     /\ Cardinality(S) = IF limit = 0 \/ Cardinality(due) < limit THEN Cardinality(due) ELSE limit
     /\ \A n \in due \ S : enriched[n] = "never" => \A m \in S : enriched[m] = "never"}

RunBegin(limit) ==
  /\ run.pc = "idle"
  /\ \E S \in Listings(limit) :
       run' = [NoRun EXCEPT !.pc = "next",
                            !.queue = {[cnpj |-> c, depth |-> 0] : c \in UNION {doc[n] : n \in S}}]
  /\ UNCHANGED <<stores, failures>>

\* --cnpj: the node is created without a look at the tombstones.
RunSingle(c) ==
  /\ run.pc = "idle"
  /\ EnsureOrganizationByCNPJ(c)
  /\ run' = [NoRun EXCEPT !.pc = "next", !.queue = {[cnpj |-> c, depth |-> 0]}]
  /\ UNCHANGED <<name, enriched, edges, decided, reviews, tombstones, failures>>

\* The queue is first in, first out: the roots, then their children.
Heads == {j \in run.queue : \A k \in run.queue : j.depth <= k.depth}

SkipVisited(j) ==
  /\ run.pc = "next" /\ j \in Heads /\ j.cnpj \in run.visited
  /\ run' = [run EXCEPT !.queue = @ \ {j}]
  /\ UNCHANGED <<stores, failures>>

\* FetchCNPJ found the company, or answered 404.
Fetch(j) ==
  /\ run.pc = "next" /\ j \in Heads /\ j.cnpj \notin run.visited
  /\ run' = [run EXCEPT !.queue = @ \ {j}, !.visited = @ \cup {j.cnpj},
                        !.pc = IF j.cnpj \in Unknown THEN "next" ELSE "update",
                        !.job = IF j.cnpj \in Unknown THEN NoJob ELSE j]
  /\ UNCHANGED <<stores, failures>>

\* A lookup that fails for good: the company is skipped, and the run goes on.
FetchFails(j) ==
  /\ run.pc = "next" /\ j \in Heads /\ j.cnpj \notin run.visited
  /\ failures < MaxFailures
  /\ failures' = failures + 1
  /\ run' = [run EXCEPT !.queue = @ \ {j}, !.visited = @ \cup {j.cnpj}]
  /\ UNCHANGED stores

RunEnd ==
  /\ run.pc = "next" /\ run.queue = {}
  /\ run' = NoRun
  /\ UNCHANGED <<stores, failures>>

-------------------------------------------------------------------------------
(* enrichOne, handleIndividual and handleCompany.                          *)

\* The node is stamped before its shareholders are handled; the id that comes
\* back is that of any node the MERGE matched.
Update ==
  /\ run.pc = "update"
  /\ UpdateOrganizationEnrichment(run.job.cnpj)
  /\ \E n \in Merged(run.job.cnpj) :
       run' = [run EXCEPT !.pc = "qsa", !.org = n, !.todo = Qsa[run.job.cnpj]]
  /\ UNCHANGED <<edges, decided, reviews, tombstones, failures>>

\* A masked CPF that is a politician's is filed, at every pass, and never linked.
FilePolitician(s) ==
  /\ run.pc = "qsa" /\ s \in run.todo \cap Politician
  /\ IF Cardinality(Filed("politician_in_qsa", run.org, s)) < MaxCopies
     THEN CreatePendingReview("politician_in_qsa", run.org, s)
     ELSE UNCHANGED reviews
  /\ run' = [run EXCEPT !.todo = @ \ {s}]
  /\ UNCHANGED <<graph, tombstones, failures>>

\* The tombstones are asked by name for a person, by CNPJ for a company.
CheckSocio(s) ==
  /\ run.pc = "qsa" /\ s \in run.todo \ Politician
  /\ run' = IF IsSubjectPurged(s) THEN [run EXCEPT !.todo = @ \ {s}]
            ELSE [run EXCEPT !.pc = IF s \in Cnpj THEN "company" ELSE "person", !.socio = s]
  /\ UNCHANGED <<stores, failures>>

\* Both upserts MATCH the company by its id: when a merge or a purge deleted it
\* they return no row, which is an error, and enrichOne returns.
UpsertQSAPerson ==
  /\ run.pc = "person"
  /\ run' = IF run.org \in orgs
            THEN [run EXCEPT !.pc = "qsa", !.todo = @ \ {run.socio}, !.socio = AnyCnpj]
            ELSE NextJob(run.queue)
  /\ edges' = EnsureEdge("CONTROLS", run.org, run.socio)
  /\ UNCHANGED <<nodes, decided, reviews, tombstones, failures>>

UpsertQSAOrganization ==
  LET c == run.socio
      new == Holders(c) = {}
      child == [cnpj |-> c, depth |-> run.job.depth + 1]
  IN
  /\ run.pc = "company"
  /\ IF run.org \in orgs
     THEN /\ EnsureOrganizationByCNPJ(c)
          /\ edges' = edges \cup {[type |-> "OWNED_BY", org |-> run.org, to |-> n] : n \in Merged(c)}
          /\ run' = [run EXCEPT !.pc = "qsa", !.todo = @ \ {c}, !.socio = AnyCnpj,
                                !.children = IF new THEN @ \cup {child} ELSE @]
     ELSE /\ run' = NextJob(run.queue)
          /\ UNCHANGED <<orgs, doc, edges>>
  /\ UNCHANGED <<name, enriched, decided, reviews, tombstones, failures>>

\* Mutant of QsaDone: every shareholder company is queued, as a root.
QsaDoneRequeue ==
  /\ run.pc = "qsa" /\ run.todo = {}
  /\ run' = [NextJob(run.queue \cup {[cnpj |-> c, depth |-> 0] : c \in Qsa[run.job.cnpj] \cap Cnpj})
             EXCEPT !.visited = {}]
  /\ UNCHANGED <<stores, failures>>

QsaDone ==
  /\ run.pc = "qsa" /\ run.todo = {}
  /\ run' = NextJob(run.queue \cup {k \in run.children : k.cnpj \notin run.visited
                                                           /\ k.depth <= MaxHops})
  /\ UNCHANGED <<stores, failures>>

\* A database call fails: enrichOne returns, its children are dropped.
EnrichFails ==
  /\ run.pc \in {"update", "qsa", "person", "company"}
  /\ failures < MaxFailures
  /\ failures' = failures + 1
  /\ run' = NextJob(run.queue)
  /\ UNCHANGED stores

\* The process dies or is cancelled.
RunDies ==
  /\ run.pc # "idle"
  /\ failures < MaxFailures
  /\ failures' = failures + 1
  /\ run' = NoRun
  /\ UNCHANGED stores

EnricherStep ==
  \/ \E j \in run.queue : SkipVisited(j) \/ Fetch(j)
  \/ RunEnd \/ Update \/ QsaDone \/ UpsertQSAPerson \/ UpsertQSAOrganization
  \/ \E s \in run.todo : FilePolitician(s) \/ CheckSocio(s)

EnricherNext ==
  \/ PeriodPasses
  \/ \E limit \in Limits : RunBegin(limit)
  \/ \E c \in Singles : RunSingle(c)
  \/ EnricherStep
  \/ \E j \in run.queue : FetchFails(j)
  \/ EnrichFails \/ RunDies
===============================================================================
