------------------------------- MODULE Watcher -------------------------------
(***************************************************************************)
(* The DataJud watcher: cases are registered (backoffice, boot seed, DJEN  *)
(* name mode) as a LegalProceeding node and a watcher_tracking row; every  *)
(* run lists the cases that are due, looks them up with several fetchers   *)
(* at once (module FetchPool), derives the state of the case from its      *)
(* docket (module CaseState) and writes, one case after the other.         *)
(*                                                                         *)
(* Retries are part of a lookup: it ends in an answer or an error.         *)
(***************************************************************************)
EXTENDS FetchPool, CaseState

CONSTANTS
  Dockets,     \* what dockets go through, Hidden included
  Registrar,   \* registrations that can be going on together
  AsScandal,   \* whether a registration names a scandal
  Modes,       \* values of --enable-writes
  PollLimits,  \* values of --poll-limit; 0 is all
  MaxStops     \* runs that die

\* The items of a run are case numbers.
Case == Item

Disposition == {"conviction", "acquittal", ""}
Docket == [found : {"yes", "hidden", "failed"}, criminal : BOOLEAN, movs : Seq(Movement)]
\* Not found at the tribunal, or sealed.
Hidden == [found |-> "hidden", criminal |-> FALSE, movs |-> <<>>]
\* The lookup failed for good.
Failed == [found |-> "failed", criminal |-> FALSE, movs |-> <<>>]

ASSUME WatcherAssumption ==
  /\ Dockets \subseteq Docket \ {Failed} /\ Dockets # {}
  /\ Times \subseteq Nat \ {0}
  /\ AsScandal \subseteq BOOLEAN /\ Modes \subseteq BOOLEAN
  /\ PollLimits \subseteq Nat /\ MaxStops \in Nat

\* What each docket supports claiming.
StateOf == [d \in Dockets \cup {Hidden, Failed} |-> deriveCaseState(d.criminal, d.movs)]

VARIABLES
  docket,    \* what DataJud answers for each case
  tracked,   \* watcher_tracking, in order of added_at
  rows,      \* [Case -> row], the columns of a tracked case
  graph,     \* [Case -> LegalProceeding node]
  scandals,  \* cases whose Scandal node exists (each case belongs to one scandal)
  linked,    \* cases with an INVESTIGATES edge
  reg,       \* the registrations going on
  run,       \* the writer of the run
  stops      \* runs that died

stores == <<tracked, rows, graph, scandals, linked>>
pipe   == <<pool, run, stops>>
vars   == <<docket, stores, reg, pipe>>

Row  == [status : {"active", "concluded"}, fresh : BOOLEAN, scandal : BOOLEAN]
Node == [status : {"absent", "ongoing", "concluded"}, phase : {"", "sentenced"},
         disposition : Disposition]

Registration == [pc : {"idle", "found", "scandal", "edge", "track"}, case : Case,
                 scandal : BOOLEAN]
Writer       == [pc : {"take", "edge", "state", "track"}, writes : BOOLEAN, case : Case,
                 answer : Dockets \cup {Hidden, Failed}, row : [Case -> Row]]

NewRow  == [status |-> "active", fresh |-> FALSE, scandal |-> FALSE]
NoNode  == [status |-> "absent", phase |-> "", disposition |-> ""]
NoReg   == [pc |-> "idle", case |-> AnyItem, scandal |-> FALSE]
NoRun   == [pc |-> "take", writes |-> FALSE, case |-> AnyItem,
            answer |-> Hidden, row |-> [c \in Case |-> NewRow]]

TypeOK ==
  /\ PoolTypeOK(Dockets \cup {Hidden, Failed})
  /\ docket \in [Case -> Dockets]
  /\ tracked \in Seq(Case)
  /\ rows \in [Case -> Row]
  /\ graph \in [Case -> Node]
  /\ scandals \subseteq Case /\ linked \subseteq Case
  /\ reg \in [Registrar -> Registration]
  /\ run \in Writer
  /\ stops \in Nat

Init ==
  /\ PoolInit
  /\ docket \in [Case -> Dockets]
  /\ tracked = <<>>
  /\ rows = [c \in Case |-> NewRow]
  /\ graph = [c \in Case |-> NoNode]
  /\ scandals = {} /\ linked = {}
  /\ reg = [r \in Registrar |-> NoReg]
  /\ run = NoRun
  /\ stops = 0

-------------------------------------------------------------------------------
(* The outside.                                                            *)

\* The tribunal files a movement, corrects one, seals or unseals the case.
Proceed(c, st) ==
  /\ docket[c] # st
  /\ docket' = [docket EXCEPT ![c] = st]
  /\ UNCHANGED <<stores, reg, pipe>>

\* Seven days go by since case c was polled.
WeekPasses(c) ==
  /\ rows[c].fresh
  /\ rows' = [rows EXCEPT ![c].fresh = FALSE]
  /\ UNCHANGED <<docket, tracked, graph, scandals, linked, reg, pipe>>

-------------------------------------------------------------------------------
(* registerWatcherCase, and registerDiscoveredCase for scandal = FALSE.    *)

\* DJEN name mode skips a case that is tracked; this is some time before it
\* registers it (module NameMode).
IsCaseTracked(r, c) ==
  /\ reg[r].pc = "idle"
  /\ c \notin Range(tracked)
  /\ reg' = [reg EXCEPT ![r] = [pc |-> "found", case |-> c, scandal |-> FALSE]]
  /\ UNCHANGED <<docket, stores, pipe>>

\* Mutant of UpsertKnown: registration writes a status.
UpsertResets(c) == IF graph[c].status = "absent" THEN [NoNode EXCEPT !.status = "ongoing"]
                                                 ELSE [graph[c] EXCEPT !.status = "ongoing"]

\* UpsertLegalProceedingByCase with nothing but the number: what is known stays.
UpsertKnown(c) == IF graph[c].status = "absent" THEN [NoNode EXCEPT !.status = "ongoing"]
                                                ELSE graph[c]

\* Mutant of RegisterCase: the scandal is taken for granted.
RegisterNoScandal(r, c, scandal) ==
  /\ IF scandal THEN reg[r].pc = "idle" ELSE reg[r].pc = "found" /\ reg[r].case = c
  /\ graph' = [graph EXCEPT ![c] = UpsertKnown(c)]
  /\ reg' = [reg EXCEPT ![r] = [pc |-> IF scandal THEN "edge" ELSE "track",
                                case |-> c, scandal |-> scandal]]
  /\ UNCHANGED <<docket, tracked, rows, scandals, linked, pipe>>

RegisterCase(r, c, scandal) ==
  /\ IF scandal THEN reg[r].pc = "idle" ELSE reg[r].pc = "found" /\ reg[r].case = c
  /\ graph' = [graph EXCEPT ![c] = UpsertKnown(c)]
  /\ reg' = [reg EXCEPT ![r] = [pc |-> IF scandal THEN "scandal" ELSE "track",
                                case |-> c, scandal |-> scandal]]
  /\ UNCHANGED <<docket, tracked, rows, scandals, linked, pipe>>

UpsertScandal(r) ==
  /\ reg[r].pc = "scandal"
  /\ scandals' = scandals \cup {reg[r].case}
  /\ reg' = [reg EXCEPT ![r].pc = "edge"]
  /\ UNCHANGED <<docket, tracked, rows, graph, linked, pipe>>

\* Both ends are matched: without one of them, no edge and no error.
EnsureInvestigatesEdge(c) ==
  linked' = IF c \in scandals /\ graph[c].status # "absent" THEN linked \cup {c} ELSE linked

RegisterEdge(r) ==
  /\ reg[r].pc = "edge"
  /\ EnsureInvestigatesEdge(reg[r].case)
  /\ reg' = [reg EXCEPT ![r].pc = "track"]
  /\ UNCHANGED <<docket, tracked, rows, graph, scandals, pipe>>

\* ON CONFLICT DO NOTHING.
UpsertWatcherCase(r) ==
  LET c == reg[r].case IN
  /\ reg[r].pc = "track"
  /\ IF c \in Range(tracked)
       THEN UNCHANGED <<tracked, rows>>
       ELSE /\ tracked' = Append(tracked, c)
            /\ rows' = [rows EXCEPT ![c] = [NewRow EXCEPT !.scandal = reg[r].scandal]]
  /\ reg' = [reg EXCEPT ![r] = NoReg]
  /\ UNCHANGED <<docket, graph, scandals, linked, pipe>>

\* A statement failed, or the server went down: the registration can be repeated.
RegisterFails(r) ==
  /\ reg[r].pc # "idle"
  /\ reg' = [reg EXCEPT ![r] = NoReg]
  /\ UNCHANGED <<docket, stores, pipe>>

-------------------------------------------------------------------------------
(* Run: the list and the fetchers.                                         *)

\* ListWatcherCasesForPoll: active cases always, concluded ones weekly.
Due(c) == rows[c].status = "active" \/ ~rows[c].fresh

\* Those of q that are in S, in their order.
Only(q, S) ==
  LET only[n \in 0..Len(q)] ==
        IF n = 0 THEN <<>> ELSE only[n - 1] \o (IF q[n] \in S THEN <<q[n]>> ELSE <<>>)
  IN only[Len(q)]

ListWatcherCasesForPoll == Only(tracked, {c \in Case : Due(c)})

RunBegin(writes, limit) ==
  LET all == ListWatcherCasesForPoll
      n   == IF limit = 0 \/ limit > Len(all) THEN Len(all) ELSE limit
  IN
  /\ PoolBegin(SubSeq(all, 1, n))
  /\ run' = [NoRun EXCEPT !.writes = writes, !.row = rows]
  /\ UNCHANGED <<docket, stores, reg, stops>>

\* SearchByCaseNumber.
Lookup(f, ok) ==
  /\ Fetched(f, IF ok THEN docket[fetcher[f].item] ELSE Failed)
  /\ UNCHANGED <<docket, stores, reg, run, stops>>

-------------------------------------------------------------------------------
(* Run: the writer.                                                        *)

c1 == Head(answers)[1]
a1 == Head(answers)[2]

\* Mutant of TrackingPoll: the row takes the derived phase.
TrackingPollPhase(c, status) ==
  rows' = [rows EXCEPT ![c].status = StateOf[run.answer].phase,
                       ![c].fresh = TRUE]

\* UpdateWatcherTrackingPoll; the status goes back as it was listed.
TrackingPoll(c, status) == rows' = [rows EXCEPT ![c].status = status, ![c].fresh = TRUE]

\* An error, a hidden case or a read-only run: nothing goes to the graph, and the
\* poll of a hidden case is recorded if that works.
Skip ==
  /\ run.pc = "take" /\ TakeAnswer(TRUE)
  /\ a1.found # "yes" \/ ~run.writes
  /\ \/ rows' = rows
     \/ a1 = Hidden /\ run.writes /\ TrackingPoll(c1, run.row[c1].status)
  /\ UNCHANGED <<docket, tracked, graph, scandals, linked, reg, run, stops>>

\* applyCaseWrites begins: UpsertLegalProceedingByCase with status "ongoing".
UpsertProceeding ==
  /\ run.pc = "take" /\ TakeAnswer(FALSE)
  /\ a1.found = "yes" /\ run.writes
  /\ graph' = [graph EXCEPT ![c1].status = "ongoing"]
  /\ run' = [run EXCEPT !.pc = IF run.row[c1].scandal THEN "edge" ELSE "state",
                        !.case = c1, !.answer = a1]
  /\ UNCHANGED <<docket, tracked, rows, scandals, linked, reg, stops>>

PollEdge ==
  /\ run.pc = "edge"
  /\ EnsureInvestigatesEdge(run.case)
  /\ run' = [run EXCEPT !.pc = "state"]
  /\ UNCHANGED <<docket, tracked, rows, graph, scandals, reg, pool, stops>>

\* The disposition is recomputed, a phase and a conclusion are only ever set.
UpdateProceedingCaseState ==
  LET c  == run.case
      st == StateOf[run.answer]
  IN
  /\ run.pc = "state"
  /\ graph' = [graph EXCEPT ![c].phase = IF st.phase # "" THEN st.phase ELSE @,
                            ![c].disposition = st.disposition,
                            ![c].status = IF st.concluded THEN "concluded" ELSE @]
  /\ run' = [run EXCEPT !.pc = "track"]
  /\ UNCHANGED <<docket, tracked, rows, scandals, linked, reg, pool, stops>>

UpdateWatcherTrackingPoll ==
  /\ run.pc = "track"
  /\ TrackingPoll(run.case, IF StateOf[run.answer].concluded
                            THEN "concluded" ELSE run.row[run.case].status)
  /\ run' = [run EXCEPT !.pc = "take", !.case = AnyItem, !.answer = Hidden]
  /\ Dealt(run.case)
  /\ UNCHANGED <<docket, tracked, graph, scandals, linked, reg, stops>>

RunEnd ==
  /\ run.pc = "take" /\ PoolEnd
  /\ run' = NoRun
  /\ UNCHANGED <<docket, stores, reg, stops>>

\* A write failed, or the process was stopped.
RunDies ==
  /\ PoolDies /\ stops < MaxStops
  /\ run' = NoRun
  /\ stops' = stops + 1
  /\ UNCHANGED <<docket, stores, reg>>

-------------------------------------------------------------------------------
RegisterNext ==
  \E r \in Registrar :
    \/ \E c \in Case : FALSE \in AsScandal /\ IsCaseTracked(r, c)
    \/ \E c \in Case, scandal \in AsScandal : RegisterCase(r, c, scandal)
    \/ UpsertScandal(r) \/ RegisterEdge(r) \/ UpsertWatcherCase(r) \/ RegisterFails(r)

\* What a fetcher does but the lookup leaves everything else alone.
Pooled(A) == A /\ UNCHANGED <<docket, stores, reg, run, stops>>

FetchNext ==
  \E f \in Fetcher : \/ Pooled(Handoff(f)) \/ Pooled(Send(f)) \/ Pooled(FetcherDone(f))
                     \/ Lookup(f, TRUE) \/ Lookup(f, FALSE)

WriteNext ==
  \/ Skip \/ UpsertProceeding \/ PollEdge \/ UpdateProceedingCaseState
  \/ UpdateWatcherTrackingPoll \/ RunEnd

Next ==
  \/ \E c \in Case, st \in Dockets : Proceed(c, st)
  \/ \E c \in Case : WeekPasses(c)
  \/ RegisterNext
  \/ \E writes \in Modes, limit \in PollLimits : RunBegin(writes, limit)
  \/ FetchNext \/ WriteNext \/ RunDies

Spec == Init /\ [][Next]_vars

\* The goroutines of a run go on; cron starts a writing run over all cases every
\* day, whatever is started by hand in between; time passes; and the lookups of a
\* case do not fail in every writing run.
Fairness ==
  /\ \A f \in Fetcher :
       /\ WF_vars(Pooled(Handoff(f))) /\ WF_vars(Lookup(f, TRUE) \/ Lookup(f, FALSE))
       /\ WF_vars(Pooled(Send(f))) /\ WF_vars(Pooled(FetcherDone(f)))
  /\ WF_vars(WriteNext)
  /\ SF_vars(RunBegin(TRUE, 0))
  /\ \A c \in Case : WF_vars(WeekPasses(c))
  /\ \A c \in Case :
       SF_vars(\E f \in Fetcher : run.writes /\ fetcher[f].item = c /\ Lookup(f, TRUE))

FairSpec == Spec /\ Fairness
-------------------------------------------------------------------------------
(* Properties.                                                             *)

\* registerWatcherCase writes the tracking row last: a case that will be polled
\* has its node, and the edge to the scandal it was registered with, whatever
\* registrations failed half way or ran together.
TrackedIsPublished ==
  \A c \in Range(tracked) : /\ graph[c].status # "absent"
                            /\ rows[c].scandal => c \in linked

\* A concluded proceeding is shown as ongoing again only by a poll of that very
\* case: neither the boot seed nor a second registration resets what was derived.
OnlyPollsReopen ==
  [][\A c \in Case : graph[c].status = "concluded" /\ graph'[c].status = "ongoing"
       => /\ answers # <<>> /\ c1 = c
          /\ run'.case = c /\ run'.answer = a1]_vars

\* Recomputed, not latched: once a docket stays as it is, the graph comes to show
\* what the latest of its rulings says, whatever it showed before and in whatever
\* order the tribunal lists them, for concluded cases too, and its conclusion
\* (deriveCaseState, ListWatcherCasesForPoll).  Dated dockets only: see
\* LatestRulingStands.
Dated(st) == \A i \in DOMAIN st.movs : st.movs[i].time # 0

GraphCatchesUp ==
  \A c \in Case, st \in {st \in Dockets : st.found = "yes" /\ Dated(st)} :
    <>[](docket[c] = st /\ c \in Range(tracked)) =>
      /\ <>[](graph[c].disposition = Standing(st.criminal, st.movs))
      /\ (\E i \in DOMAIN st.movs : "final" \in st.movs[i].signs) => []<>(graph[c].status = "concluded")

\* "The LAST dispositive movement in chronological order wins, so an appeal that
\* reverses a conviction clears it (defamation-grade if it latched)"
\* (workers/datajud/worker.go:320), with rulings that are dated.
LatestRulingStands ==
  [][run.pc = "state" /\ run'.pc = "track" =>
       graph'[run.case].disposition = Standing(run.answer.criminal, run.answer.movs)]_vars
===============================================================================
