----------------------------- MODULE SanctionSync -----------------------------
(***************************************************************************)
(* The sanctions worker and its retraction sweep.                          *)
(*                                                                         *)
(* A run stamps every sanction it is served with its run id; afterwards    *)
(* the records of a registry that are published and carry another stamp    *)
(* are the ones the source stopped reporting, and the sweep unpublishes    *)
(* them, unless it would be too many.  CGU registries are served page by   *)
(* page while the source changes, the TCU lists as one file each.  Counting *)
(* and retracting are two statements.  cron keeps runs apart (flock), a    *)
(* run started by hand is not kept apart: Process is the set of runs that  *)
(* can be going on together.                                               *)
(***************************************************************************)
EXTENDS Integers, Sequences, FiniteSets

CONSTANTS
  Record,       \* sanctions, by SanctionNodeID
  Registry,     \* CEIS, CNEP, CEAF, LENIENCIA and the three TCU lists
  RegistryOf,   \* [Record -> Registry]
  Paged,        \* the CGU registries
  Group,        \* what Run loops over: a CGU registry, or "tcu"
  Members,      \* [Group -> SUBSET Registry]
  Process,      \* sanctions-sync processes that can run together
  RunId,        \* run stamps; enough of them that one is always free
  PageSize,     \* records on a CGU page
  PageLimits,   \* values of --max-pages; 0 is no limit
  MinRecords,   \* RetractionGuard.MinRecords
  FractionNum, FractionDen,   \* RetractionGuard.MaxFraction
  Legacy,       \* records published before runs were stamped (migration 004)
  FirstListed   \* [Registry -> Seq(Record)], the sources at the start

None == "none"   \* last_seen_run is null

ASSUME SyncAssumption ==
  /\ IsFiniteSet(Record)
  /\ RegistryOf \in [Record -> Registry]
  /\ Paged \subseteq Registry
  /\ Members \in [Group -> SUBSET Registry]
  /\ RunId # {} /\ None \notin RunId
  /\ Registry # {}
  /\ PageSize \in Nat \ {0} /\ PageLimits \subseteq Nat
  /\ MinRecords \in Nat /\ FractionNum \in Nat /\ FractionDen \in Nat \ {0}
  /\ Legacy \subseteq Record
  /\ FirstListed \in [Registry -> Seq(Record)]

VARIABLES
  listed,    \* what each source lists, in the order it serves it
  label,     \* publication label of each record: :Sanction, :RetractedSanction
  stamp,     \* last_seen_run
  run        \* the runs going on

\* History variables: no action reads them.
VARIABLES
  seen,      \* records the run has upserted
  steady,    \* records listed ever since the run began
  shrunk     \* registries that lost a record since the run began

records == <<label, stamp>>
history == <<seen, steady, shrunk>>
vars    == <<listed, label, stamp, run, seen, steady, shrunk>>

AnyRun      == CHOOSE i \in RunId : TRUE
AnyRegistry == CHOOSE g \in Registry : TRUE

\* pc "plan": between two groups; "group": between two registries of a group,
\* to be fetched and then swept; "fetch": about to ask for a page; "apply":
\* writing the records of a page; "retract": the counts of run.reg have passed
\* the guard.
RunState == [pc : {"idle", "plan", "group", "fetch", "apply", "retract"},
             id : RunId, sweep : BOOLEAN, limit : Nat, done : SUBSET Group,
             fetch : SUBSET Registry, sweeps : SUBSET Registry,
             reg : Registry, page : Nat, batch : SUBSET Record,
             failed : SUBSET Registry]

NoRun == [pc |-> "idle", id |-> AnyRun, sweep |-> FALSE, limit |-> 0, done |-> {},
          fetch |-> {}, sweeps |-> {}, reg |-> AnyRegistry, page |-> 1, batch |-> {},
          failed |-> {}]

Listed(r) == \E i \in DOMAIN listed[RegistryOf[r]] : listed[RegistryOf[r]][i] = r

TypeOK ==
  /\ listed \in [Registry -> Seq(Record)]
  /\ label \in [Record -> {"absent", "published", "retracted"}]
  /\ stamp \in [Record -> RunId \cup {None}]
  /\ run \in [Process -> RunState]
  /\ seen \in [Process -> SUBSET Record]
  /\ steady \in [Process -> SUBSET Record]
  /\ shrunk \in [Process -> SUBSET Registry]

Init ==
  /\ listed = FirstListed
  /\ label = [r \in Record |-> IF r \in Legacy THEN "published" ELSE "absent"]
  /\ stamp = [r \in Record |-> None]
  /\ run = [w \in Process |-> NoRun]
  /\ seen = [w \in Process |-> {}]
  /\ steady = [w \in Process |-> {}]
  /\ shrunk = [w \in Process |-> {}]

-------------------------------------------------------------------------------
(* The sources.                                                            *)

Without(s, k) == [i \in 1..(Len(s) - 1) |-> IF i < k THEN s[i] ELSE s[i + 1]]

\* A sanction is registered, or reinstated, at the end of the list.
List(r) ==
  /\ ~Listed(r)
  /\ listed' = [listed EXCEPT ![RegistryOf[r]] = Append(@, r)]
  /\ UNCHANGED <<records, run, history>>

\* A sanction is annulled: the records behind it move up.
Delist(r) ==
  LET g == RegistryOf[r] IN
  /\ \E k \in DOMAIN listed[g] :
       /\ listed[g][k] = r
       /\ listed' = [listed EXCEPT ![g] = Without(listed[g], k)]
  /\ steady' = [w \in Process |-> steady[w] \ {r}]
  /\ shrunk' = [w \in Process |-> shrunk[w] \cup {g}]
  /\ UNCHANGED <<records, run, seen>>

-------------------------------------------------------------------------------
(* Run.                                                                    *)

Step(w, u) == run' = [run EXCEPT ![w] = u]

\* newRunID is a nanosecond time stamp, compared for equality only: any value
\* that is neither on a record nor in use will do.
FreshId(i) == /\ \A r \in Record : stamp[r] # i
              /\ \A w \in Process : run[w].pc # "idle" => run[w].id # i

\* Mutant of RunBegin: the run id is lost on its way to the writer.
RunBeginNoId(w, i, sweep, limit) ==
  /\ run[w].pc = "idle"
  /\ Step(w, [NoRun EXCEPT !.pc = "plan", !.id = None, !.sweep = sweep, !.limit = limit])
  /\ seen' = [seen EXCEPT ![w] = {}]
  /\ steady' = [steady EXCEPT ![w] = {r \in Record : Listed(r)}]
  /\ shrunk' = [shrunk EXCEPT ![w] = {}]
  /\ UNCHANGED <<listed, records>>

RunBegin(w, i, sweep, limit) ==
  /\ run[w].pc = "idle"
  /\ FreshId(i)
  /\ Step(w, [NoRun EXCEPT !.pc = "plan", !.id = i, !.sweep = sweep, !.limit = limit])
  /\ seen' = [seen EXCEPT ![w] = {}]
  /\ steady' = [steady EXCEPT ![w] = {r \in Record : Listed(r)}]
  /\ shrunk' = [shrunk EXCEPT ![w] = {}]
  /\ UNCHANGED <<listed, records>>

\* The groups of --registries that planRegistries keeps, in any order.
GroupBegin(w, g) ==
  /\ run[w].pc = "plan"
  /\ g \notin run[w].done
  /\ Step(w, [run[w] EXCEPT !.pc = "group", !.done = @ \cup {g},
                            !.fetch = Members[g], !.sweeps = Members[g]])
  /\ UNCHANGED <<listed, records, history>>

RegistryBegin(w, g) ==
  /\ run[w].pc = "group"
  /\ g \in run[w].fetch
  /\ Step(w, [run[w] EXCEPT !.pc = "fetch", !.fetch = @ \ {g}, !.reg = g, !.page = 1])
  /\ UNCHANGED <<listed, records, history>>

RegistryDone(w) == Step(w, [run[w] EXCEPT !.pc = "group", !.page = 1, !.batch = {}])

\* One page, or the whole file.
Page(g, p) ==
  IF g \in Paged
  THEN {listed[g][i] : i \in DOMAIN listed[g] \cap ((p - 1) * PageSize + 1)..(p * PageSize)}
  ELSE {listed[g][i] : i \in DOMAIN listed[g]}

PastLimit(w) == run[w].reg \in Paged /\ run[w].limit > 0 /\ run[w].page > run[w].limit

\* An empty page ends the registry.
FetchPage(w) ==
  LET recs == Page(run[w].reg, run[w].page) IN
  /\ run[w].pc = "fetch"
  /\ IF PastLimit(w) \/ recs = {}
       THEN RegistryDone(w)
       ELSE Step(w, [run[w] EXCEPT !.pc = "apply", !.batch = recs])
  /\ UNCHANGED <<listed, records, history>>

\* The API gave up on a page: the registry is marked failed, the run goes on.
\* A TCU file that cannot be had fails the run (RunDies).
FetchFails(w) ==
  /\ run[w].pc = "fetch" /\ run[w].reg \in Paged /\ ~PastLimit(w)
  /\ Step(w, [run[w] EXCEPT !.pc = "group", !.page = 1, !.failed = @ \cup {run[w].reg}])
  /\ UNCHANGED <<listed, records, history>>

\* Mutant of Apply: a record that reappears is stamped and stays retracted.
ApplyNoRepublish(w, r) ==
  /\ run[w].pc = "apply"
  /\ r \in run[w].batch
  /\ label' = [label EXCEPT ![r] = IF @ = "retracted" THEN @ ELSE "published"]
  /\ stamp' = [stamp EXCEPT ![r] = run[w].id]
  /\ seen' = [seen EXCEPT ![w] = @ \cup {r}]
  /\ Step(w, [run[w] EXCEPT !.batch = @ \ {r}])
  /\ UNCHANGED <<listed, steady, shrunk>>

\* UpsertSanction: publish, stamp, clear any retraction.
Apply(w, r) ==
  /\ run[w].pc = "apply"
  /\ r \in run[w].batch
  /\ label' = [label EXCEPT ![r] = "published"]
  /\ stamp' = [stamp EXCEPT ![r] = run[w].id]
  /\ seen' = [seen EXCEPT ![w] = @ \cup {r}]
  /\ Step(w, [run[w] EXCEPT !.batch = @ \ {r}])
  /\ UNCHANGED <<listed, steady, shrunk>>

PageDone(w) ==
  /\ run[w].pc = "apply"
  /\ run[w].batch = {}
  /\ IF run[w].reg \in Paged
       THEN Step(w, [run[w] EXCEPT !.pc = "fetch", !.page = @ + 1])
       ELSE RegistryDone(w)
  /\ UNCHANGED <<listed, records, history>>

-------------------------------------------------------------------------------
(* sweep and SweepRetractedSanctions.                                      *)

Held(g)       == {r \in Record : RegistryOf[r] = g /\ label[r] # "absent"}
\* last_seen_run <> $run is null, so not true, for a record never stamped.
Missing(g, i) == {r \in Record : /\ RegistryOf[r] = g /\ label[r] = "published"
                                 /\ stamp[r] # None /\ stamp[r] # i}

Refused(g, i) == \/ Cardinality(Held(g)) < MinRecords
                 \/ Cardinality(Missing(g, i)) * FractionDen > Cardinality(Held(g)) * FractionNum

\* Mutant of MaySweep: "CEIS" is looked for among the lower-case group names.
MaySweepCaseSensitive(w, g) == run[w].sweep /\ run[w].limit = 0

\* Asked for, on a full fetch that did not fail.
MaySweep(w, g) == run[w].sweep /\ run[w].limit = 0 /\ g \notin run[w].failed

\* Mutant of SweepCount: the ceiling is not applied.
SweepCountUnbounded(w, g) ==
  /\ run[w].pc = "group" /\ run[w].fetch = {}
  /\ g \in run[w].sweeps
  /\ IF MaySweep(w, g)
       THEN Step(w, [run[w] EXCEPT !.pc = "retract", !.reg = g, !.sweeps = @ \ {g}])
       ELSE Step(w, [run[w] EXCEPT !.sweeps = @ \ {g}])
  /\ UNCHANGED <<listed, records, history>>

SweepCount(w, g) ==
  /\ run[w].pc = "group" /\ run[w].fetch = {}
  /\ g \in run[w].sweeps
  /\ IF MaySweep(w, g) /\ ~Refused(g, run[w].id)
       THEN Step(w, [run[w] EXCEPT !.pc = "retract", !.reg = g, !.sweeps = @ \ {g}])
       ELSE Step(w, [run[w] EXCEPT !.sweeps = @ \ {g}])
  /\ UNCHANGED <<listed, records, history>>

Retract(w) ==
  /\ run[w].pc = "retract"
  /\ label' = [r \in Record |-> IF r \in Missing(run[w].reg, run[w].id)
                                THEN "retracted" ELSE label[r]]
  /\ Step(w, [run[w] EXCEPT !.pc = "group"])
  /\ UNCHANGED <<listed, stamp, history>>

\* A sweep's error is logged and the run goes on.
SweepFails(w) ==
  /\ run[w].pc = "retract"
  /\ Step(w, [run[w] EXCEPT !.pc = "group"])
  /\ UNCHANGED <<listed, records, history>>

GroupDone(w) ==
  /\ run[w].pc = "group" /\ run[w].fetch = {} /\ run[w].sweeps = {}
  /\ Step(w, [run[w] EXCEPT !.pc = "plan"])
  /\ UNCHANGED <<listed, records, history>>

RunEnd(w) ==
  /\ run[w].pc = "plan"
  /\ Step(w, NoRun)
  /\ UNCHANGED <<listed, records, history>>

\* An error that ends the run, or the process is killed (between two groups that
\* is RunEnd).
RunDies(w) ==
  /\ run[w].pc \notin {"idle", "plan"}
  /\ Step(w, NoRun)
  /\ UNCHANGED <<listed, records, history>>

RunStep(w) ==
  \/ \E i \in RunId, s \in BOOLEAN, l \in PageLimits : RunBegin(w, i, s, l)
  \/ \E g \in Group : GroupBegin(w, g)
  \/ \E g \in Registry : RegistryBegin(w, g) \/ SweepCount(w, g)
  \/ \E r \in Record : Apply(w, r)
  \/ FetchPage(w) \/ FetchFails(w) \/ PageDone(w) \/ Retract(w) \/ SweepFails(w)
  \/ GroupDone(w) \/ RunEnd(w) \/ RunDies(w)

Next ==
  \/ \E r \in Record : List(r) \/ Delist(r)
  \/ \E w \in Process : RunStep(w)

Spec == Init /\ [][Next]_vars

\* cron starts the worker again and again, for every registry and without
\* --max-pages; a run goes on.
Fairness ==
  \A w \in Process :
    /\ SF_vars(\E i \in RunId, s \in BOOLEAN : RunBegin(w, i, s, 0))
    /\ \A g \in Group : SF_vars(run[w].limit = 0 /\ GroupBegin(w, g))
    /\ WF_vars(RunStep(w))

FairSpec == Spec /\ Fairness

-------------------------------------------------------------------------------
(* Properties.                                                             *)

\* What the sweep of process w unpublishes in this step.
Unpublished(w) == {r \in Record : /\ run[w].pc = "retract" /\ run'[w] # run[w]
                                  /\ label[r] = "published" /\ label'[r] = "retracted"}

\* SweepRetractedSanctions unpublishes nothing its own run was served, and
\* RetractionGuard bounds what it may: never more than the ceiling of the records
\* held, nor anything of a small registry.
RetractionBounded ==
  [][\A w \in Process : Unpublished(w) # {} =>
       LET g == run[w].reg IN
       /\ Unpublished(w) \cap seen[w] = {}
       /\ Cardinality(Held(g)) >= MinRecords
       /\ Cardinality(Unpublished(w)) * FractionDen <= Cardinality(Held(g)) * FractionNum]_vars

\* A failed, a partial or a broken-off fetch is never read as a retraction: a
\* record its source has listed since the run began is unpublished only if the
\* source withdrew another one meanwhile (and the pages moved).
StillListedKept ==
  [][\A w \in Process : \A r \in Unpublished(w) \cap steady[w] :
       RegistryOf[r] \in Paged /\ RegistryOf[r] \in shrunk[w]]_vars

\* Retraction is not a one-way door: a record that stays listed comes to be
\* published for good, whatever was retracted before and however the pages move,
\* once runs are no longer broken off.
ListedIsPublished ==
  (<>[][\A w \in Process : ~RunDies(w) /\ ~FetchFails(w)]_vars) =>
    \A r \in Record : <>[]Listed(r) => <>[](label[r] = "published")

===============================================================================
