-------------------------- MODULE SanctionSyncProofs --------------------------
(***************************************************************************)
(* Theorems about SanctionSync, for any sources, registries, page sizes,   *)
(* limits and ceilings, when runs do not overlap.                          *)
(***************************************************************************)
EXTENDS SanctionSync, FiniteSetTheorems, TLAPS

LEMMA NoRunType == NoRun \in RunState
<1>1. AnyRun \in RunId /\ AnyRegistry \in Registry
  BY SyncAssumption DEF AnyRun, AnyRegistry
<1> QED
  BY <1>1 DEF NoRun, RunState

\* Taking a place out of a sequence.
LEMMA WithoutType ==
  ASSUME NEW s \in Seq(Record), NEW k \in DOMAIN s
  PROVE  Without(s, k) \in Seq(Record)
<1>1. Len(s) \in Nat /\ DOMAIN s = 1..Len(s) /\ Len(s) - 1 \in Nat
  OBVIOUS
<1>2. \A i \in 1..(Len(s) - 1) : (IF i < k THEN s[i] ELSE s[i + 1]) \in Record
  BY <1>1
<1> QED
  BY <1>1, <1>2 DEF Without

LEMMA WithoutKeeps ==
  ASSUME NEW s \in Seq(Record), NEW k \in DOMAIN s, NEW i \in DOMAIN s, s[i] # s[k]
  PROVE  \E j \in DOMAIN Without(s, k) : Without(s, k)[j] = s[i]
<1>1. Len(s) \in Nat /\ DOMAIN s = 1..Len(s) /\ i # k
  OBVIOUS
<1>2. CASE i < k
  <2>1. i \in DOMAIN Without(s, k) /\ Without(s, k)[i] = s[i]
    BY <1>1, <1>2 DEF Without
  <2> QED
    BY <2>1
<1>3. CASE i > k
  <2>1. i - 1 \in DOMAIN Without(s, k) /\ Without(s, k)[i - 1] = s[i]
    BY <1>1, <1>3 DEF Without
  <2> QED
    BY <2>1
<1> QED
  BY <1>1, <1>2, <1>3

LEMMA PageType ==
  ASSUME listed \in [Registry -> Seq(Record)], NEW g \in Registry, NEW p \in Nat
  PROVE  Page(g, p) \subseteq Record
<1>1. \A i \in DOMAIN listed[g] : listed[g][i] \in Record
  OBVIOUS
<1> QED
  BY <1>1 DEF Page

-------------------------------------------------------------------------------
(* Type correctness.                                                       *)

LEMMA TypeInit == Init => TypeOK
  BY NoRunType, SyncAssumption DEF Init, TypeOK

LEMMA TypeSource == ASSUME TypeOK, NEW r \in Record, List(r) \/ Delist(r) PROVE TypeOK'
<1> DEFINE g == RegistryOf[r]
<1>1. g \in Registry /\ listed[g] \in Seq(Record)
  BY SyncAssumption DEF TypeOK
<1>2. CASE List(r)
  <2>1. Append(listed[g], r) \in Seq(Record)
    BY <1>1
  <2> QED
    BY <1>2, <2>1, <1>1 DEF List, TypeOK, records, history
<1>3. CASE Delist(r)
  <2>1. PICK k \in DOMAIN listed[g] : listed' = [listed EXCEPT ![g] = Without(listed[g], k)]
    BY <1>3 DEF Delist
  <2>2. listed' \in [Registry -> Seq(Record)]
    BY <2>1, <1>1, WithoutType DEF TypeOK
  <2> QED
    BY <1>3, <1>1, <2>2 DEF Delist, TypeOK, records
<1> QED
  BY <1>2, <1>3

\* What a step of a run leaves of the types is a matter of its new state.
LEMMA TypeStep ==
  ASSUME TypeOK, NEW w \in Process, RunStep(w)
  PROVE  TypeOK'
<1> USE DEF TypeOK, Step, records, history
<1>0. run[w] \in RunState /\ run[w].reg \in Registry /\ run[w].page \in Nat
  BY DEF RunState
<1>1. CASE \E i \in RunId, s \in BOOLEAN, l \in PageLimits : RunBegin(w, i, s, l)
  <2>1. PICK i \in RunId, s \in BOOLEAN, l \in PageLimits : RunBegin(w, i, s, l)
    BY <1>1
  <2>2. [NoRun EXCEPT !.pc = "plan", !.id = i, !.sweep = s, !.limit = l] \in RunState
    BY NoRunType, SyncAssumption DEF RunState
  <2>3. {r \in Record : Listed(r)} \in SUBSET Record
    OBVIOUS
  <2> QED
    BY <2>1, <2>2, <2>3 DEF RunBegin
<1>2. CASE \E g \in Group : GroupBegin(w, g)
  <2>1. PICK g \in Group : GroupBegin(w, g)
    BY <1>2
  <2>2. Members[g] \subseteq Registry
    BY SyncAssumption
  <2>3. run'[w] \in RunState
    BY <2>1, <2>2, <1>0 DEF GroupBegin, RunState
  <2> QED
    BY <2>1, <2>3 DEF GroupBegin
<1>3. CASE \E g \in Registry : RegistryBegin(w, g)
  <2>1. PICK g \in Registry : RegistryBegin(w, g)
    BY <1>3
  <2>2. run'[w] \in RunState
    BY <2>1, <1>0 DEF RegistryBegin, RunState
  <2> QED
    BY <2>1, <2>2 DEF RegistryBegin
<1>4. CASE \E g \in Registry : SweepCount(w, g)
  <2>1. PICK g \in Registry : SweepCount(w, g)
    BY <1>4
  <2>2. /\ [run[w] EXCEPT !.pc = "retract", !.reg = g, !.sweeps = @ \ {g}] \in RunState
        /\ [run[w] EXCEPT !.sweeps = @ \ {g}] \in RunState
    BY <1>0 DEF RunState
  <2>3. CASE MaySweep(w, g) /\ ~Refused(g, run[w].id)
    BY <2>1, <2>2, <2>3 DEF SweepCount
  <2>4. CASE ~(MaySweep(w, g) /\ ~Refused(g, run[w].id))
    BY <2>1, <2>2, <2>4 DEF SweepCount
  <2> QED
    BY <2>3, <2>4
<1>5. CASE \E r \in Record : Apply(w, r)
  <2>1. PICK r \in Record : Apply(w, r)
    BY <1>5
  <2>2. run'[w] \in RunState /\ run[w].id \in RunId
    BY <2>1, <1>0 DEF Apply, RunState
  <2> QED
    BY <2>1, <2>2 DEF Apply
<1>6. CASE FetchPage(w)
  <2>1. Page(run[w].reg, run[w].page) \subseteq Record
    BY <1>0, PageType
  <2>2. /\ [run[w] EXCEPT !.pc = "group", !.page = 1, !.batch = {}] \in RunState
        /\ [run[w] EXCEPT !.pc = "apply", !.batch = Page(run[w].reg, run[w].page)] \in RunState
    BY <2>1, <1>0 DEF RunState
  <2>3. CASE PastLimit(w) \/ Page(run[w].reg, run[w].page) = {}
    BY <1>6, <2>2, <2>3 DEF FetchPage, RegistryDone
  <2>4. CASE ~(PastLimit(w) \/ Page(run[w].reg, run[w].page) = {})
    BY <1>6, <2>2, <2>4 DEF FetchPage
  <2> QED
    BY <2>3, <2>4
<1>7. CASE FetchFails(w)
  <2>1. run'[w] \in RunState
    BY <1>7, <1>0 DEF FetchFails, RunState
  <2> QED
    BY <1>7, <2>1 DEF FetchFails
<1>8. CASE PageDone(w)
  <2>1. run[w].page + 1 \in Nat
    BY <1>0
  <2>2. /\ [run[w] EXCEPT !.pc = "fetch", !.page = @ + 1] \in RunState
        /\ [run[w] EXCEPT !.pc = "group", !.page = 1, !.batch = {}] \in RunState
    BY <1>0, <2>1 DEF RunState
  <2>3. CASE run[w].reg \in Paged
    BY <1>8, <2>2, <2>3 DEF PageDone
  <2>4. CASE run[w].reg \notin Paged
    BY <1>8, <2>2, <2>4 DEF PageDone, RegistryDone
  <2> QED
    BY <2>3, <2>4
<1>9. CASE Retract(w)
  <2>1. run'[w] \in RunState
    BY <1>9, <1>0 DEF Retract, RunState
  <2> QED
    BY <1>9, <2>1 DEF Retract
<1>10. CASE SweepFails(w)
  <2>1. run'[w] \in RunState
    BY <1>10, <1>0 DEF SweepFails, RunState
  <2> QED
    BY <1>10, <2>1 DEF SweepFails
<1>11. CASE GroupDone(w)
  <2>1. run'[w] \in RunState
    BY <1>11, <1>0 DEF GroupDone, RunState
  <2> QED
    BY <1>11, <2>1 DEF GroupDone
<1>12. CASE RunEnd(w) \/ RunDies(w)
  BY <1>12, NoRunType DEF RunEnd, RunDies
<1> QED
  BY <1>1, <1>2, <1>3, <1>4, <1>5, <1>6, <1>7, <1>8, <1>9, <1>10, <1>11, <1>12 DEF RunStep

LEMMA TypeNext == TypeOK /\ [Next]_vars => TypeOK'
<1>1. TypeOK /\ UNCHANGED vars => TypeOK'
  BY DEF TypeOK, vars
<1> QED
  BY <1>1, TypeSource, TypeStep DEF Next

\* Every state of the sanctions worker and of its sources is well typed.
THEOREM TypeCorrect == Spec => []TypeOK
  BY TypeInit, TypeNext, PTL DEF Spec

-------------------------------------------------------------------------------
(* Inductive invariants, for one run at a time.                            *)

SingleRun == \A w, x \in Process : w = x

\* A record a run was served carries its stamp.
StampInv ==
  \A w \in Process : run[w].pc # "idle" => \A r \in seen[w] : stamp[r] = run[w].id

\* A sweep that is about to retract has passed the guard.
GuardInv ==
  \A w \in Process : run[w].pc = "retract" => ~Refused(run[w].reg, run[w].id)

SteadyInv == \A w \in Process : \A r \in steady[w] : Listed(r)

\* The pages of a paged registry may have moved under the run.
Drifted(w, g) == g \in Paged /\ g \in shrunk[w]

\* The steady records of registry g have been served.
Complete(w, g) == \A r \in steady[w] : RegistryOf[r] = g => r \in seen[w]

\* They have been, or are about to be.
InHand(w, g) == \A r \in steady[w] : RegistryOf[r] = g => r \in seen[w] \cup run[w].batch

\* Those on the first n places have been, or are about to be.
Covered(w, g, n) ==
  \A i \in DOMAIN listed[g] :
    i <= n /\ listed[g][i] \in steady[w] => listed[g][i] \in seen[w] \cup run[w].batch

\* The fetch of registry g is over, the sweep is still to come.
Fetched(w, g) == /\ g \in run[w].sweeps \ run[w].fetch
                 /\ run[w].pc \in {"fetch", "apply"} => g # run[w].reg

\* A registry fetched in full has been served every steady record, a paged one
\* up to the page the run has come to.
Cover(w) ==
  /\ run[w].page # 0
  /\ run[w].pc # "apply" => run[w].batch = {}
  /\ run[w].pc \in {"group", "fetch", "apply", "retract"} =>
       \A g \in Registry :
         Fetched(w, g) /\ run[w].limit = 0 /\ g \notin run[w].failed =>
           Drifted(w, g) \/ Complete(w, g)
  /\ run[w].pc = "fetch" /\ run[w].reg \in Paged =>
       Drifted(w, run[w].reg) \/ Covered(w, run[w].reg, (run[w].page - 1) * PageSize)
  /\ run[w].pc = "apply" /\ run[w].reg \in Paged =>
       Drifted(w, run[w].reg) \/ Covered(w, run[w].reg, run[w].page * PageSize)
  /\ run[w].pc = "apply" /\ run[w].reg \notin Paged => InHand(w, run[w].reg)
  /\ run[w].pc = "retract" => Drifted(w, run[w].reg) \/ Complete(w, run[w].reg)

CoverInv == \A w \in Process : Cover(w)

\* The step of a run that has begun: the run keeps its id, and what it does next
\* is settled by the action.
LEMMA Moves ==
  ASSUME TypeOK, NEW w \in Process
  PROVE  /\ \A g \in Group : GroupBegin(w, g) =>
              run'[w].id = run[w].id /\ run'[w].pc = "group"
         /\ \A g \in Registry : RegistryBegin(w, g) =>
              run'[w].id = run[w].id /\ run'[w].pc = "fetch"
         /\ \A g \in Registry : SweepCount(w, g) => run'[w].id = run[w].id
         /\ \A r \in Record : Apply(w, r) => run'[w].id = run[w].id /\ run'[w].pc = "apply"
         /\ FetchPage(w) => run'[w].id = run[w].id /\ run'[w].pc \in {"group", "apply"}
         /\ PageDone(w) => run'[w].id = run[w].id /\ run'[w].pc \in {"group", "fetch"}
         /\ FetchFails(w) \/ Retract(w) \/ SweepFails(w)
              => run'[w].id = run[w].id /\ run'[w].pc = "group"
         /\ GroupDone(w) => run'[w].id = run[w].id /\ run'[w].pc = "plan"
         /\ RunEnd(w) \/ RunDies(w) => run'[w].pc = "idle"
<1> USE DEF TypeOK, Step, RunState
<1>1. \A g \in Group : GroupBegin(w, g) => run'[w].id = run[w].id /\ run'[w].pc = "group"
  BY DEF GroupBegin
<1>2. \A g \in Registry : RegistryBegin(w, g) =>
        run'[w].id = run[w].id /\ run'[w].pc = "fetch"
  BY DEF RegistryBegin
<1>3. ASSUME NEW g \in Registry, SweepCount(w, g) PROVE run'[w].id = run[w].id
  <2>1. CASE MaySweep(w, g) /\ ~Refused(g, run[w].id)
    BY <1>3, <2>1 DEF SweepCount
  <2>2. CASE ~(MaySweep(w, g) /\ ~Refused(g, run[w].id))
    BY <1>3, <2>2 DEF SweepCount
  <2> QED
    BY <2>1, <2>2
<1>4. \A r \in Record : Apply(w, r) => run'[w].id = run[w].id /\ run'[w].pc = "apply"
  BY DEF Apply
<1>5. ASSUME FetchPage(w) PROVE run'[w].id = run[w].id /\ run'[w].pc \in {"group", "apply"}
  <2>1. CASE PastLimit(w) \/ Page(run[w].reg, run[w].page) = {}
    <3>1. RegistryDone(w)
      BY <1>5, <2>1 DEF FetchPage
    <3>2. run'[w] = [run[w] EXCEPT !.pc = "group", !.page = 1, !.batch = {}]
      BY <3>1 DEF RegistryDone
    <3> QED
      BY <3>2
  <2>2. CASE ~(PastLimit(w) \/ Page(run[w].reg, run[w].page) = {})
    BY <1>5, <2>2 DEF FetchPage
  <2> QED
    BY <2>1, <2>2
<1>6. ASSUME PageDone(w) PROVE run'[w].id = run[w].id /\ run'[w].pc \in {"group", "fetch"}
  <2>1. CASE run[w].reg \in Paged
    BY <1>6, <2>1 DEF PageDone
  <2>2. CASE run[w].reg \notin Paged
    <3>1. RegistryDone(w)
      BY <1>6, <2>2 DEF PageDone
    <3>2. run'[w] = [run[w] EXCEPT !.pc = "group", !.page = 1, !.batch = {}]
      BY <3>1 DEF RegistryDone
    <3> QED
      BY <3>2
  <2> QED
    BY <2>1, <2>2
<1>7. FetchFails(w) \/ Retract(w) \/ SweepFails(w)
        => run'[w].id = run[w].id /\ run'[w].pc = "group"
  BY DEF FetchFails, Retract, SweepFails
<1>8. GroupDone(w) => run'[w].id = run[w].id /\ run'[w].pc = "plan"
  BY DEF GroupDone
<1>9. RunEnd(w) \/ RunDies(w) => run'[w].pc = "idle"
  BY DEF RunEnd, RunDies, NoRun
<1> QED
  BY <1>1, <1>2, <1>3, <1>4, <1>5, <1>6, <1>7, <1>8, <1>9

LEMMA StampNext ==
  ASSUME SingleRun, TypeOK, StampInv, [Next]_vars
  PROVE  StampInv'
<1> SUFFICES ASSUME NEW w \in Process, run'[w].pc # "idle"
             PROVE  \A r \in seen'[w] : stamp'[r] = run'[w].id
  BY DEF StampInv
<1> USE DEF TypeOK, Step, records, history
<1>1. CASE \E r \in Record : List(r) \/ Delist(r)
  BY <1>1 DEF StampInv, List, Delist
<1>2. CASE RunStep(w)
  <2>1. CASE \E i \in RunId, s \in BOOLEAN, l \in PageLimits : RunBegin(w, i, s, l)
    BY <2>1 DEF RunBegin
  <2>2. CASE \E r \in Record : Apply(w, r)
    <3>1. PICK r \in Record : Apply(w, r)
      BY <2>2
    <3>2. run'[w].id = run[w].id /\ run[w].pc # "idle" /\ seen'[w] = seen[w] \cup {r}
      BY <3>1 DEF Apply, RunState
    <3>3. stamp' = [stamp EXCEPT ![r] = run[w].id]
      BY <3>1 DEF Apply
    <3> QED
      BY <3>2, <3>3 DEF StampInv
  <2>3. CASE RunEnd(w) \/ RunDies(w)
    BY <2>3 DEF RunEnd, RunDies, NoRun
  <2>4. CASE \/ \E g \in Group : GroupBegin(w, g)
             \/ \E g \in Registry : RegistryBegin(w, g) \/ SweepCount(w, g)
             \/ FetchPage(w) \/ FetchFails(w) \/ PageDone(w) \/ Retract(w)
             \/ SweepFails(w) \/ GroupDone(w)
    <3>1. run[w].pc # "idle" /\ UNCHANGED <<seen, stamp>>
      BY <2>4 DEF GroupBegin, RegistryBegin, SweepCount, FetchPage, FetchFails, PageDone,
                  Retract, SweepFails, GroupDone
    <3>2. run'[w].id = run[w].id
      BY <2>4, Moves
    <3> QED
      BY <3>1, <3>2 DEF StampInv
  <2> QED
    BY <1>2, <2>1, <2>2, <2>3, <2>4 DEF RunStep
<1>3. CASE UNCHANGED vars
  BY <1>3 DEF StampInv, vars
<1> QED
  BY <1>1, <1>2, <1>3 DEF Next, SingleRun

LEMMA GuardNext ==
  ASSUME SingleRun, TypeOK, GuardInv, [Next]_vars
  PROVE  GuardInv'
<1> SUFFICES ASSUME NEW w \in Process, run'[w].pc = "retract"
             PROVE  ~Refused(run[w].reg, run[w].id)'
  BY DEF GuardInv
<1> USE DEF TypeOK, Step, records, history
<1>0. ASSUME UNCHANGED records, run'[w].reg = run[w].reg, run'[w].id = run[w].id,
             ~Refused(run[w].reg, run[w].id)
      PROVE  ~Refused(run[w].reg, run[w].id)'
  BY <1>0 DEF Refused, Held, Missing
<1>1. CASE (\E r \in Record : List(r) \/ Delist(r)) \/ UNCHANGED vars
  BY <1>0, <1>1 DEF GuardInv, List, Delist, vars
<1>2. CASE RunStep(w)
  <2>1. CASE \E g \in Registry : SweepCount(w, g)
    <3>1. PICK g \in Registry : SweepCount(w, g)
      BY <2>1
    <3>2. CASE MaySweep(w, g) /\ ~Refused(g, run[w].id)
      <4>1. run'[w].reg = g /\ run'[w].id = run[w].id /\ UNCHANGED records
        BY <3>1, <3>2 DEF SweepCount, RunState
      <4> QED
        BY <3>2, <4>1 DEF Refused, Held, Missing
    <3>3. CASE ~(MaySweep(w, g) /\ ~Refused(g, run[w].id))
      <4>1. run'[w].pc = "group"
        BY <3>1, <3>3 DEF SweepCount, RunState
      <4> QED
        BY <4>1
    <3> QED
      BY <3>2, <3>3
  <2>2. CASE \/ \E i \in RunId, s \in BOOLEAN, l \in PageLimits : RunBegin(w, i, s, l)
             \/ \E g \in Group : GroupBegin(w, g)
             \/ \E g \in Registry : RegistryBegin(w, g)
             \/ \E r \in Record : Apply(w, r)
             \/ FetchPage(w) \/ FetchFails(w) \/ PageDone(w) \/ Retract(w)
             \/ SweepFails(w) \/ GroupDone(w) \/ RunEnd(w) \/ RunDies(w)
    <3>1. CASE \E i \in RunId, s \in BOOLEAN, l \in PageLimits : RunBegin(w, i, s, l)
      BY <3>1, NoRunType DEF RunBegin, RunState
    <3>2. CASE ~\E i \in RunId, s \in BOOLEAN, l \in PageLimits : RunBegin(w, i, s, l)
      BY <2>2, <3>2, Moves
    <3> QED
      BY <3>1, <3>2
  <2> QED
    BY <1>2, <2>1, <2>2 DEF RunStep
<1> QED
  BY <1>1, <1>2 DEF Next, SingleRun

LEMMA SteadyNext ==
  ASSUME TypeOK, SteadyInv, [Next]_vars
  PROVE  SteadyInv'
<1> USE DEF TypeOK, SteadyInv
<1>1. ASSUME NEW x \in Record, List(x) PROVE SteadyInv'
  <2> DEFINE g == RegistryOf[x]
  <2>1. g \in Registry /\ listed[g] \in Seq(Record)
    BY SyncAssumption
  <2>2. \A r \in Record : Listed(r) => Listed(r)'
    <3> SUFFICES ASSUME NEW r \in Record, Listed(r) PROVE Listed(r)'
      OBVIOUS
    <3>1. PICK i \in DOMAIN listed[RegistryOf[r]] : listed[RegistryOf[r]][i] = r
      BY DEF Listed
    <3>2. CASE RegistryOf[r] = g
      <4>1. i \in DOMAIN Append(listed[g], x) /\ Append(listed[g], x)[i] = r
        BY <2>1, <3>1, <3>2
      <4>2. listed'[g] = Append(listed[g], x)
        BY <1>1, <2>1 DEF List
      <4> QED
        BY <3>2, <4>1, <4>2 DEF Listed
    <3>3. CASE RegistryOf[r] # g
      <4>1. listed'[RegistryOf[r]] = listed[RegistryOf[r]]
        BY <1>1, <3>3, SyncAssumption DEF List
      <4> QED
        BY <3>1, <4>1 DEF Listed
    <3> QED
      BY <3>2, <3>3
  <2>3. UNCHANGED steady
    BY <1>1 DEF List, history
  <2> QED
    BY <2>2, <2>3
<1>2. ASSUME NEW x \in Record, Delist(x) PROVE SteadyInv'
  <2> DEFINE g == RegistryOf[x]
  <2>1. g \in Registry /\ listed[g] \in Seq(Record)
    BY SyncAssumption
  <2>k. PICK k \in DOMAIN listed[g] : /\ listed[g][k] = x
                                      /\ listed' = [listed EXCEPT ![g] = Without(listed[g], k)]
    BY <1>2 DEF Delist
  <2>2. \A r \in Record \ {x} : Listed(r) => Listed(r)'
    <3> SUFFICES ASSUME NEW r \in Record \ {x}, Listed(r) PROVE Listed(r)'
      OBVIOUS
    <3>1. PICK i \in DOMAIN listed[RegistryOf[r]] : listed[RegistryOf[r]][i] = r
      BY DEF Listed
    <3>2. CASE RegistryOf[r] = g
      <4>0. i \in DOMAIN listed[g] /\ listed[g][i] # listed[g][k] /\ listed[g][i] = r
        BY <2>k, <3>1, <3>2
      <4>1. \E j \in DOMAIN Without(listed[g], k) : Without(listed[g], k)[j] = listed[g][i]
        BY <2>1, <4>0, WithoutKeeps
      <4>2. listed'[g] = Without(listed[g], k)
        BY <2>1, <2>k
      <4> QED
        BY <3>2, <4>0, <4>1, <4>2 DEF Listed
    <3>3. CASE RegistryOf[r] # g
      <4>1. listed'[RegistryOf[r]] = listed[RegistryOf[r]]
        BY <2>k, <3>3, SyncAssumption
      <4> QED
        BY <3>1, <4>1 DEF Listed
    <3> QED
      BY <3>2, <3>3
  <2>3. steady' = [w \in Process |-> steady[w] \ {x}]
    BY <1>2 DEF Delist
  <2> QED
    BY <2>2, <2>3
<1>3. ASSUME NEW w \in Process, RunStep(w) PROVE SteadyInv'
  <2>1. UNCHANGED listed
    BY <1>3 DEF RunStep, RunBegin, GroupBegin, RegistryBegin, SweepCount, Apply, FetchPage,
                FetchFails, PageDone, Retract, SweepFails, GroupDone, RunEnd, RunDies
  <2>2. \A r \in Record : Listed(r) => Listed(r)'
    BY <2>1 DEF Listed
  <2>3. CASE UNCHANGED steady
    BY <2>2, <2>3
  <2>4. CASE \E i \in RunId, s \in BOOLEAN, l \in PageLimits : RunBegin(w, i, s, l)
    <3>1. steady' = [steady EXCEPT ![w] = {r \in Record : Listed(r)}]
      BY <2>4 DEF RunBegin
    <3> QED
      BY <2>2, <3>1
  <2>5. UNCHANGED steady \/ \E i \in RunId, s \in BOOLEAN, l \in PageLimits : RunBegin(w, i, s, l)
    BY <1>3 DEF RunStep, GroupBegin, RegistryBegin, SweepCount, Apply, FetchPage, history,
                FetchFails, PageDone, Retract, SweepFails, GroupDone, RunEnd, RunDies
  <2> QED
    BY <2>3, <2>4, <2>5
<1>4. CASE UNCHANGED vars
  BY <1>4 DEF Listed, vars
<1> QED
  BY <1>1, <1>2, <1>3, <1>4 DEF Next

LEMMA PageArithmetic ==
  ASSUME NEW p \in Nat \ {0}, NEW s \in Nat \ {0}
  PROVE  (p - 1) * s \in Nat /\ p * s = (p - 1) * s + s
<1>1. p - 1 \in Nat
  OBVIOUS
<1>2. (p - 1) * s \in Nat
  BY <1>1
<1>3. p * s = (p - 1) * s + s
  OBVIOUS
<1> QED
  BY <1>2, <1>3

\* A registry grows at its end, where no steady record can appear.
LEMMA CoverList ==
  ASSUME TypeOK, SteadyInv, NEW w \in Process, Cover(w), NEW x \in Record, List(x)
  PROVE  Cover(w)'
<1>1. UNCHANGED <<run, seen, steady, shrunk>>
  BY DEF List, history
<1>2. ASSUME NEW g \in Registry, NEW n, Covered(w, g, n)
      PROVE  Covered(w, g, n)'
  <2> SUFFICES ASSUME NEW i \in DOMAIN listed'[g], i <= n, listed'[g][i] \in steady[w]
               PROVE  listed'[g][i] \in seen[w] \cup run[w].batch
    BY <1>1 DEF Covered
  <2>1. CASE g = RegistryOf[x]
    <3>1. listed[g] \in Seq(Record) /\ listed'[g] = Append(listed[g], x)
      BY <2>1 DEF TypeOK, List
    <3>2. CASE i \in DOMAIN listed[g]
      BY <1>2, <3>1, <3>2 DEF Covered
    <3>3. CASE i \notin DOMAIN listed[g]
      <4>1. listed'[g][i] = x
        BY <3>1, <3>3
      <4> QED
        BY <4>1 DEF SteadyInv, List
    <3> QED
      BY <3>2, <3>3
  <2>2. CASE g # RegistryOf[x]
    <3>1. listed'[g] = listed[g]
      BY <2>2 DEF TypeOK, List
    <3> QED
      BY <1>2, <3>1 DEF Covered
  <2> QED
    BY <2>1, <2>2
<1>3. run[w].reg \in Registry
  BY DEF TypeOK, RunState
<1>4. \A g \in Registry : /\ Fetched(w, g)' = Fetched(w, g) /\ Drifted(w, g)' = Drifted(w, g)
                          /\ Complete(w, g)' = Complete(w, g) /\ InHand(w, g)' = InHand(w, g)
  BY <1>1 DEF Fetched, Drifted, Complete, InHand
<1>5. /\ Covered(w, run[w].reg, (run[w].page - 1) * PageSize)
           => Covered(w, run[w].reg, (run[w].page - 1) * PageSize)'
      /\ Covered(w, run[w].reg, run[w].page * PageSize)
           => Covered(w, run[w].reg, run[w].page * PageSize)'
  BY <1>1, <1>2, <1>3
<1> QED
  BY <1>1, <1>3, <1>4, <1>5 DEF Cover

\* A withdrawal makes a paged registry drift, and costs a steady record.
LEMMA CoverDelist ==
  ASSUME TypeOK, NEW w \in Process, Cover(w), NEW x \in Record, Delist(x)
  PROVE  Cover(w)'
<1> DEFINE d == RegistryOf[x]
<1>1. UNCHANGED <<run, seen>> /\ steady'[w] \subseteq steady[w]
  BY DEF Delist
<1>2. shrunk'[w] = shrunk[w] \cup {d}
  BY DEF Delist
<1>3. run[w].reg \in Registry
  BY DEF TypeOK, RunState
<1>4. \A g \in Registry : /\ Fetched(w, g)' = Fetched(w, g)
                          /\ Drifted(w, g) => Drifted(w, g)'
                          /\ Complete(w, g) => Complete(w, g)'
                          /\ InHand(w, g) => InHand(w, g)'
  BY <1>1, <1>2 DEF Fetched, Drifted, Complete, InHand
<1>5. ASSUME NEW g \in Paged, NEW n, Drifted(w, g) \/ Covered(w, g, n)
      PROVE  (Drifted(w, g) \/ Covered(w, g, n))'
  <2>1. CASE g = d
    BY <1>2, <2>1 DEF Drifted
  <2>2. CASE g # d
    <3>1. listed'[g] = listed[g]
      BY <2>2, SyncAssumption DEF TypeOK, Delist
    <3>2. Covered(w, g, n) => Covered(w, g, n)'
      BY <1>1, <3>1 DEF Covered
    <3> QED
      BY <1>5, <1>2, <3>2 DEF Drifted
  <2> QED
    BY <2>1, <2>2
<1>6. run[w].reg \in Paged =>
        /\ Drifted(w, run[w].reg) \/ Covered(w, run[w].reg, (run[w].page - 1) * PageSize)
             => (Drifted(w, run[w].reg) \/ Covered(w, run[w].reg, (run[w].page - 1) * PageSize))'
        /\ Drifted(w, run[w].reg) \/ Covered(w, run[w].reg, run[w].page * PageSize)
             => (Drifted(w, run[w].reg) \/ Covered(w, run[w].reg, run[w].page * PageSize))'
  BY <1>1, <1>5
<1> QED
  BY <1>1, <1>3, <1>4, <1>6 DEF Cover

\* An empty page ends a registry whose steady records have all been served.
LEMMA EmptyPage ==
  ASSUME TypeOK, SteadyInv, NEW w \in Process, Cover(w), run[w].pc = "fetch",
         Page(run[w].reg, run[w].page) = {}
  PROVE  Drifted(w, run[w].reg) \/ Complete(w, run[w].reg)
<1> DEFINE g == run[w].reg
           q == (run[w].page - 1) * PageSize
<1>0. /\ g \in Registry /\ listed[g] \in Seq(Record) /\ run[w].batch = {}
      /\ run[w].page \in Nat \ {0} /\ PageSize \in Nat \ {0}
  BY SyncAssumption DEF TypeOK, RunState, Cover
<1>1. q \in Nat /\ run[w].page * PageSize = q + PageSize
  BY <1>0, PageArithmetic
<1> SUFFICES ASSUME ~Drifted(w, g), NEW r \in steady[w], RegistryOf[r] = g
             PROVE  r \in seen[w]
  BY DEF Complete
<1>2. PICK i \in DOMAIN listed[g] : listed[g][i] = r
  BY DEF SteadyInv, Listed
<1>3. CASE g \in Paged
  <2>1. Covered(w, g, q)
    BY <1>3 DEF Cover
  <2>2. CASE i <= q
    BY <1>0, <1>2, <2>1, <2>2 DEF Covered
  <2>3. CASE ~(i <= q)
    <3>1. DOMAIN listed[g] = 1..Len(listed[g]) /\ Len(listed[g]) \in Nat
      BY <1>0
    <3>2. q + 1 \in DOMAIN listed[g]
      BY <1>1, <1>2, <2>3, <3>1
    <3>3. q + 1 \in (q + 1)..(q + PageSize)
      BY <1>0, <1>1
    <3>4. listed[g][q + 1] \in Page(g, run[w].page)
      BY <1>1, <1>3, <3>2, <3>3 DEF Page
    <3> QED
      BY <3>4
  <2> QED
    BY <2>2, <2>3
<1>4. CASE g \notin Paged
  BY <1>2, <1>4 DEF Page
<1> QED
  BY <1>3, <1>4

\* What has been served and the page in hand reach to the end of the page.
LEMMA NextPage ==
  ASSUME TypeOK, SteadyInv, NEW w \in Process, Cover(w), run[w].pc = "fetch",
         NEW b, b = Page(run[w].reg, run[w].page)
  PROVE  /\ run[w].reg \in Paged =>
              \/ Drifted(w, run[w].reg)
              \/ \A i \in DOMAIN listed[run[w].reg] :
                   i <= run[w].page * PageSize /\ listed[run[w].reg][i] \in steady[w]
                     => listed[run[w].reg][i] \in seen[w] \cup b
         /\ run[w].reg \notin Paged =>
              \A r \in steady[w] : RegistryOf[r] = run[w].reg => r \in seen[w] \cup b
<1> DEFINE g == run[w].reg
           q == (run[w].page - 1) * PageSize
<1>0. /\ g \in Registry /\ listed[g] \in Seq(Record) /\ run[w].batch = {}
      /\ run[w].page \in Nat \ {0} /\ PageSize \in Nat \ {0}
  BY SyncAssumption DEF TypeOK, RunState, Cover
<1>1. q \in Nat /\ run[w].page * PageSize = q + PageSize
  BY <1>0, PageArithmetic
<1>2. ASSUME g \in Paged, ~Drifted(w, g), NEW i \in DOMAIN listed[g],
             i <= run[w].page * PageSize, listed[g][i] \in steady[w]
      PROVE  listed[g][i] \in seen[w] \cup b
  <2>1. Covered(w, g, q)
    BY <1>2 DEF Cover
  <2>2. CASE i <= q
    BY <1>0, <1>2, <2>1, <2>2 DEF Covered
  <2>3. CASE ~(i <= q)
    <3>1. DOMAIN listed[g] = 1..Len(listed[g]) /\ Len(listed[g]) \in Nat
      BY <1>0
    <3>2. i \in (q + 1)..(q + PageSize)
      BY <1>0, <1>1, <1>2, <2>3, <3>1
    <3> QED
      BY <1>1, <1>2, <3>2 DEF Page
  <2> QED
    BY <2>2, <2>3
<1>3. ASSUME g \notin Paged, NEW r \in steady[w], RegistryOf[r] = g
      PROVE  r \in seen[w] \cup b
  <2>1. PICK i \in DOMAIN listed[g] : listed[g][i] = r
    BY <1>3 DEF SteadyInv, Listed
  <2> QED
    BY <1>3, <2>1 DEF Page
<1> QED
  BY <1>2, <1>3

\* A step of the run itself.
LEMMA CoverRun ==
  ASSUME TypeOK, SteadyInv, NEW w \in Process, Cover(w), RunStep(w)
  PROVE  Cover(w)'
<1> DEFINE u == run[w]
           g == run[w].reg
<1>0. u \in RunState /\ g \in Registry /\ u.page \in Nat /\ u.page # 0
  BY DEF TypeOK, RunState, Cover
<1> USE DEF Step
\* The registries fetched before keep what they have when the run only moves on.
<1>f. ASSUME UNCHANGED <<listed, steady, shrunk>>, seen[w] \subseteq seen'[w], NEW h \in Registry
      PROVE  /\ Drifted(w, h)' = Drifted(w, h)
             /\ Complete(w, h) => Complete(w, h)'
  BY <1>f DEF Drifted, Complete
<1>1. CASE \E i \in RunId, s \in BOOLEAN, l \in PageLimits : RunBegin(w, i, s, l)
  <2>1. run'[w].pc = "plan" /\ run'[w].batch = {} /\ run'[w].page = 1
    BY <1>1, NoRunType DEF TypeOK, RunBegin, NoRun
  <2> QED
    BY <2>1 DEF Cover
<1>2. CASE \E h \in Group : GroupBegin(w, h)
  <2>1. PICK h \in Group : GroupBegin(w, h)
    BY <1>2
  <2>2. /\ run'[w].pc = "group" /\ run'[w].batch = u.batch /\ run'[w].page = u.page
        /\ run'[w].sweeps = run'[w].fetch /\ u.pc = "plan"
    BY <1>0, <2>1 DEF TypeOK, GroupBegin, RunState
  <2> QED
    BY <2>2 DEF Cover, Fetched
<1>3. CASE \E h \in Registry : RegistryBegin(w, h)
  <2>1. PICK h \in Registry : RegistryBegin(w, h)
    BY <1>3
  <2>2. /\ run'[w].pc = "fetch" /\ run'[w].batch = u.batch /\ run'[w].page = 1
        /\ run'[w].fetch = u.fetch \ {h} /\ run'[w].sweeps = u.sweeps /\ run'[w].reg = h
        /\ run'[w].limit = u.limit /\ run'[w].failed = u.failed /\ u.pc = "group"
    BY <1>0, <2>1 DEF TypeOK, RegistryBegin, RunState
  <2>3. UNCHANGED <<listed, steady, shrunk, seen>>
    BY <2>1 DEF RegistryBegin, history
  <2>4. (1 - 1) * PageSize = 0
    BY SyncAssumption
  <2>5. Covered(w, run[w].reg, (run[w].page - 1) * PageSize)'
    <3>1. \A i \in DOMAIN listed[h] : ~(i <= 0)
      BY DEF TypeOK
    <3> QED
      BY <2>2, <2>3, <2>4, <3>1 DEF Covered
  <2>6. \A k \in Registry : Fetched(w, k)' => Fetched(w, k)
    BY <2>2 DEF Fetched
  <2> QED
    BY <2>2, <2>3, <2>5, <2>6, <1>f DEF Cover
<1>4. CASE \E h \in Registry : SweepCount(w, h)
  <2>1. PICK h \in Registry : SweepCount(w, h)
    BY <1>4
  <2>2. /\ u.pc = "group" /\ u.fetch = {} /\ h \in u.sweeps
        /\ UNCHANGED <<listed, steady, shrunk, seen>>
    BY <2>1 DEF SweepCount, history
  <2>3. CASE MaySweep(w, h) /\ ~Refused(h, u.id)
    <3>u. run'[w] = [u EXCEPT !.pc = "retract", !.reg = h, !.sweeps = @ \ {h}]
      BY <2>1, <2>3 DEF TypeOK, SweepCount
    <3>1. /\ run'[w].pc = "retract" /\ run'[w].batch = u.batch /\ run'[w].page = u.page
          /\ run'[w].fetch = u.fetch /\ run'[w].sweeps = u.sweeps \ {h} /\ run'[w].reg = h
          /\ run'[w].limit = u.limit /\ run'[w].failed = u.failed
      BY <1>0, <3>u DEF RunState
    <3>2. \A k \in Registry : Fetched(w, k)' => Fetched(w, k)
      BY <2>2, <3>1 DEF Fetched
    <3>3. Drifted(w, h) \/ Complete(w, h)
      BY <2>2, <2>3 DEF Cover, Fetched, MaySweep
    <3> QED
      BY <2>2, <3>1, <3>2, <3>3, <1>f DEF Cover
  <2>4. CASE ~(MaySweep(w, h) /\ ~Refused(h, u.id))
    <3>u. run'[w] = [u EXCEPT !.sweeps = @ \ {h}]
      BY <2>1, <2>4 DEF TypeOK, SweepCount
    <3>1. /\ run'[w].pc = "group" /\ run'[w].batch = u.batch /\ run'[w].page = u.page
          /\ run'[w].fetch = u.fetch /\ run'[w].sweeps = u.sweeps \ {h}
          /\ run'[w].limit = u.limit /\ run'[w].failed = u.failed
      BY <1>0, <2>2, <3>u DEF RunState
    <3>2. \A k \in Registry : Fetched(w, k)' => Fetched(w, k)
      BY <2>2, <3>1 DEF Fetched
    <3> QED
      BY <2>2, <3>1, <3>2, <1>f DEF Cover
  <2> QED
    BY <2>3, <2>4
<1>5. CASE \E r \in Record : Apply(w, r)
  <2>1. PICK r \in Record : Apply(w, r)
    BY <1>5
  <2>2. /\ u.pc = "apply" /\ run'[w].pc = "apply" /\ run'[w].batch = u.batch \ {r}
        /\ run'[w].page = u.page /\ run'[w].fetch = u.fetch /\ run'[w].sweeps = u.sweeps
        /\ run'[w].reg = u.reg /\ run'[w].limit = u.limit /\ run'[w].failed = u.failed
    BY <1>0, <2>1 DEF TypeOK, Apply, RunState
  <2>3. UNCHANGED <<listed, steady, shrunk>> /\ seen'[w] = seen[w] \cup {r}
    BY <2>1 DEF TypeOK, Apply
  <2>4. seen[w] \cup u.batch \subseteq seen'[w] \cup run'[w].batch
    BY <2>2, <2>3
  <2>5. \A k \in Registry : Fetched(w, k)' = Fetched(w, k)
    BY <2>2 DEF Fetched
  <2>6. /\ InHand(w, g) => InHand(w, run[w].reg)'
        /\ Covered(w, g, u.page * PageSize) => Covered(w, run[w].reg, run[w].page * PageSize)'
    BY <2>2, <2>3, <2>4 DEF InHand, Covered
  <2> QED
    BY <1>0, <2>2, <2>3, <2>5, <2>6, <1>f DEF Cover
<1>6. CASE FetchPage(w)
  <2>1. u.pc = "fetch" /\ UNCHANGED <<listed, steady, shrunk, seen>>
    BY <1>6 DEF FetchPage, history
  <2>2. CASE PastLimit(w) \/ Page(g, u.page) = {}
    <3>1. RegistryDone(w)
      BY <1>6, <2>2 DEF FetchPage
    <3>2. /\ run'[w].pc = "group" /\ run'[w].batch = {} /\ run'[w].page = 1
          /\ run'[w].fetch = u.fetch /\ run'[w].sweeps = u.sweeps
          /\ run'[w].limit = u.limit /\ run'[w].failed = u.failed
      BY <1>0, <3>1 DEF TypeOK, RegistryDone, RunState
    <3>3. \A k \in Registry \ {g} : Fetched(w, k)' => Fetched(w, k)
      BY <2>1, <3>2 DEF Fetched
    <3>4. PastLimit(w) => u.limit # 0
      BY <1>0 DEF PastLimit, RunState
    <3>5. u.limit = 0 => Drifted(w, g) \/ Complete(w, g)
      BY <2>1, <2>2, <3>4, EmptyPage
    <3> QED
      BY <2>1, <3>2, <3>3, <3>5, <1>f DEF Cover
  <2>3. CASE ~(PastLimit(w) \/ Page(g, u.page) = {})
    <3>u. run'[w] = [u EXCEPT !.pc = "apply", !.batch = Page(g, u.page)]
      BY <1>6, <2>3 DEF TypeOK, FetchPage
    <3>1. /\ run'[w].pc = "apply" /\ run'[w].batch = Page(g, u.page) /\ run'[w].page = u.page
          /\ run'[w].fetch = u.fetch /\ run'[w].sweeps = u.sweeps /\ run'[w].reg = u.reg
          /\ run'[w].limit = u.limit /\ run'[w].failed = u.failed
      BY <1>0, <3>u DEF RunState
    <3>2. \A k \in Registry : Fetched(w, k)' => Fetched(w, k)
      BY <2>1, <3>1 DEF Fetched
    <3>3. /\ g \in Paged => Drifted(w, g) \/ Covered(w, run[w].reg, run[w].page * PageSize)'
          /\ g \notin Paged => InHand(w, run[w].reg)'
      BY <2>1, <3>1, NextPage DEF Covered, InHand
    <3> QED
      BY <1>0, <2>1, <3>1, <3>2, <3>3, <1>f DEF Cover
  <2> QED
    BY <2>2, <2>3
<1>7. CASE FetchFails(w)
  <2>1. /\ u.pc = "fetch" /\ run'[w].pc = "group" /\ run'[w].batch = u.batch
        /\ run'[w].page = 1 /\ run'[w].fetch = u.fetch /\ run'[w].sweeps = u.sweeps
        /\ run'[w].limit = u.limit /\ run'[w].failed = u.failed \cup {g}
    BY <1>0, <1>7 DEF TypeOK, FetchFails, RunState
  <2>2. UNCHANGED <<listed, steady, shrunk, seen>>
    BY <1>7 DEF FetchFails, history
  <2>3. \A k \in Registry \ {g} : Fetched(w, k)' => Fetched(w, k)
    BY <2>1 DEF Fetched
  <2> QED
    BY <2>1, <2>2, <2>3, <1>f DEF Cover
<1>8. CASE PageDone(w)
  <2>1. u.pc = "apply" /\ u.batch = {} /\ UNCHANGED <<listed, steady, shrunk, seen>>
    BY <1>8 DEF PageDone, history
  <2>2. CASE g \in Paged
    <3>u. run'[w] = [u EXCEPT !.pc = "fetch", !.page = @ + 1]
      BY <1>8, <2>2 DEF TypeOK, PageDone
    <3>1. /\ run'[w].pc = "fetch" /\ run'[w].batch = u.batch /\ run'[w].page = u.page + 1
          /\ run'[w].fetch = u.fetch /\ run'[w].sweeps = u.sweeps /\ run'[w].reg = u.reg
          /\ run'[w].limit = u.limit /\ run'[w].failed = u.failed
      BY <1>0, <3>u DEF RunState
    <3>2. \A k \in Registry : Fetched(w, k)' => Fetched(w, k)
      BY <2>1, <3>1 DEF Fetched
    <3>3. (u.page + 1) - 1 = u.page /\ u.page + 1 # 0
      BY <1>0
    <3>4. Covered(w, g, u.page * PageSize)
            => Covered(w, run[w].reg, (run[w].page - 1) * PageSize)'
      BY <2>1, <3>1, <3>3 DEF Covered
    <3> QED
      BY <1>0, <2>1, <2>2, <3>1, <3>2, <3>3, <3>4, <1>f DEF Cover
  <2>3. CASE g \notin Paged
    <3>1. RegistryDone(w)
      BY <1>8, <2>3 DEF PageDone
    <3>2. /\ run'[w].pc = "group" /\ run'[w].batch = {} /\ run'[w].page = 1
          /\ run'[w].fetch = u.fetch /\ run'[w].sweeps = u.sweeps
          /\ run'[w].limit = u.limit /\ run'[w].failed = u.failed
      BY <1>0, <3>1 DEF TypeOK, RegistryDone, RunState
    <3>3. \A k \in Registry \ {g} : Fetched(w, k)' => Fetched(w, k)
      BY <2>1, <3>2 DEF Fetched
    <3>4. Complete(w, g)
      BY <2>1, <2>3 DEF Cover, InHand, Complete
    <3> QED
      BY <2>1, <3>2, <3>3, <3>4, <1>f DEF Cover
  <2> QED
    BY <2>2, <2>3
<1>9. CASE Retract(w) \/ SweepFails(w)
  <2>1. /\ u.pc = "retract" /\ run'[w].pc = "group" /\ run'[w].batch = u.batch
        /\ run'[w].page = u.page /\ run'[w].fetch = u.fetch /\ run'[w].sweeps = u.sweeps
        /\ run'[w].limit = u.limit /\ run'[w].failed = u.failed
    BY <1>0, <1>9 DEF TypeOK, Retract, SweepFails, RunState
  <2>2. UNCHANGED <<listed, steady, shrunk, seen>>
    BY <1>9 DEF Retract, SweepFails, history
  <2>3. \A k \in Registry : Fetched(w, k)' => Fetched(w, k)
    BY <2>1 DEF Fetched
  <2> QED
    BY <1>0, <2>1, <2>2, <2>3, <1>f DEF Cover
<1>10. CASE GroupDone(w)
  <2>1. /\ u.pc = "group" /\ run'[w].pc = "plan" /\ run'[w].batch = u.batch
        /\ run'[w].page = u.page
    BY <1>0, <1>10 DEF TypeOK, GroupDone, RunState
  <2> QED
    BY <1>0, <2>1 DEF Cover
<1>11. CASE RunEnd(w) \/ RunDies(w)
  <2>1. run'[w].pc = "idle" /\ run'[w].batch = {} /\ run'[w].page = 1
    BY <1>11 DEF TypeOK, RunEnd, RunDies, NoRun
  <2> QED
    BY <2>1 DEF Cover
<1> QED
  BY <1>1, <1>2, <1>3, <1>4, <1>5, <1>6, <1>7, <1>8, <1>9, <1>10, <1>11 DEF RunStep

LEMMA CoverNext ==
  ASSUME SingleRun, TypeOK, SteadyInv, CoverInv, [Next]_vars
  PROVE  CoverInv'
<1> SUFFICES ASSUME NEW w \in Process PROVE Cover(w)'
  BY DEF CoverInv
<1>0. Cover(w)
  BY DEF CoverInv
<1>1. CASE \E r \in Record : List(r) \/ Delist(r)
  BY <1>0, <1>1, CoverList, CoverDelist
<1>2. CASE RunStep(w)
  BY <1>0, <1>2, CoverRun
<1>3. CASE UNCHANGED vars
  BY <1>0, <1>3 DEF vars, Cover, Fetched, Drifted, Complete, InHand, Covered
<1> QED
  BY <1>1, <1>2, <1>3 DEF Next, SingleRun

-------------------------------------------------------------------------------
(* The theorems.                                                           *)

SyncInv == TypeOK /\ StampInv /\ GuardInv /\ SteadyInv /\ CoverInv

LEMMA SyncInvHolds == ASSUME SingleRun PROVE Spec => []SyncInv
<1>1. Init => SyncInv
  <2>1. Init => TypeOK
    BY TypeInit
  <2>2. Init => StampInv /\ GuardInv /\ SteadyInv /\ CoverInv
    BY DEF Init, NoRun, StampInv, GuardInv, SteadyInv, CoverInv, Cover
  <2> QED
    BY <2>1, <2>2 DEF SyncInv
<1>2. SyncInv /\ [Next]_vars => SyncInv'
  BY TypeNext, StampNext, GuardNext, SteadyNext, CoverNext DEF SyncInv
<1> QED
  BY <1>1, <1>2, PTL DEF Spec

\* What a step can unpublish in the name of a run: only its own Retract does.
LEMMA OnlyRetract ==
  ASSUME SingleRun, TypeOK, [Next]_vars, NEW w \in Process, Unpublished(w) # {}
  PROVE  /\ run[w].pc = "retract"
         /\ Unpublished(w) = Missing(run[w].reg, run[w].id)
<1>1. PICK r \in Record : /\ run[w].pc = "retract" /\ run'[w] # run[w]
                          /\ label[r] = "published" /\ label'[r] = "retracted"
  BY DEF Unpublished
<1>2. UNCHANGED label \/ Retract(w)
  <2>1. CASE \E x \in Record : List(x) \/ Delist(x)
    BY <2>1 DEF List, Delist, records
  <2>2. CASE RunStep(w)
    BY <1>1, <2>2 DEF RunStep, RunBegin, GroupBegin, RegistryBegin, SweepCount, Apply, FetchPage,
                      FetchFails, PageDone, SweepFails, GroupDone, RunEnd, RunDies, records
  <2>3. CASE UNCHANGED vars
    BY <2>3 DEF vars
  <2> QED
    BY <2>1, <2>2, <2>3 DEF Next, SingleRun
<1>3. Retract(w)
  BY <1>1, <1>2
<1>4. label' = [x \in Record |-> IF x \in Missing(run[w].reg, run[w].id)
                                 THEN "retracted" ELSE label[x]]
  BY <1>3 DEF Retract
<1>5. \A x \in Record : x \in Missing(run[w].reg, run[w].id) => label[x] = "published"
  BY DEF Missing
<1>6. Missing(run[w].reg, run[w].id) \subseteq Record
  BY DEF Missing
<1>7. Unpublished(w) = Missing(run[w].reg, run[w].id)
  BY <1>1, <1>4, <1>5, <1>6 DEF Unpublished
<1> QED
  BY <1>1, <1>7

\* When runs do not overlap, no sweep retracts a record its own run was served or
\* exceeds the ceiling of RetractionGuard, although counting and retracting are two
\* statements.
THEOREM SweepsAreBounded == ASSUME SingleRun PROVE Spec => RetractionBounded
<1> DEFINE Bounded(w) ==
      LET g == run[w].reg IN
      /\ Unpublished(w) \cap seen[w] = {}
      /\ Cardinality(Held(g)) >= MinRecords
      /\ Cardinality(Unpublished(w)) * FractionDen <= Cardinality(Held(g)) * FractionNum
<1>1. SyncInv /\ [Next]_vars => [\A w \in Process : Unpublished(w) # {} => Bounded(w)]_vars
  <2> SUFFICES ASSUME SyncInv, [Next]_vars, NEW w \in Process, Unpublished(w) # {}
               PROVE  Bounded(w)
    OBVIOUS
  <2>1. run[w].pc = "retract" /\ Unpublished(w) = Missing(run[w].reg, run[w].id)
    BY OnlyRetract DEF SyncInv
  <2>2. ~Refused(run[w].reg, run[w].id)
    BY <2>1 DEF SyncInv, GuardInv
  <2>3. Held(run[w].reg) \subseteq Record /\ Unpublished(w) \subseteq Record
    BY DEF Held, Unpublished
  <2>4. Cardinality(Held(run[w].reg)) \in Nat /\ Cardinality(Unpublished(w)) \in Nat
    BY <2>3, SyncAssumption, FS_Subset, FS_CardinalityType
  <2>5. /\ Cardinality(Held(run[w].reg)) * FractionNum \in Nat
        /\ Cardinality(Unpublished(w)) * FractionDen \in Nat
    BY <2>4, SyncAssumption
  <2>6. Unpublished(w) \cap seen[w] = {}
    BY <2>1 DEF SyncInv, StampInv, Missing
  <2> QED
    BY <2>1, <2>2, <2>4, <2>5, <2>6, SyncAssumption DEF Refused
<1> QED
  BY <1>1, SyncInvHolds, PTL DEF Spec, RetractionBounded

\* When runs do not overlap, a record its source has listed since the run began is
\* unpublished only by a drift of the pages of its registry: failed, partial and
\* broken-off fetches retract nothing.
THEOREM SteadyAreKept == ASSUME SingleRun PROVE Spec => StillListedKept
<1>1. SyncInv /\ [Next]_vars =>
        [\A w \in Process : \A r \in Unpublished(w) \cap steady[w] :
           RegistryOf[r] \in Paged /\ RegistryOf[r] \in shrunk[w]]_vars
  <2> SUFFICES ASSUME SyncInv, [Next]_vars, NEW w \in Process,
                      NEW r \in Unpublished(w) \cap steady[w]
               PROVE  RegistryOf[r] \in Paged /\ RegistryOf[r] \in shrunk[w]
    OBVIOUS
  <2>1. run[w].pc = "retract" /\ r \in Missing(run[w].reg, run[w].id)
    BY OnlyRetract DEF SyncInv
  <2>2. RegistryOf[r] = run[w].reg /\ stamp[r] # run[w].id
    BY <2>1 DEF Missing
  <2>3. r \notin seen[w]
    BY <2>1, <2>2 DEF SyncInv, StampInv
  <2>4. Drifted(w, run[w].reg) \/ Complete(w, run[w].reg)
    BY <2>1 DEF SyncInv, CoverInv, Cover
  <2> QED
    BY <2>2, <2>3, <2>4 DEF Drifted, Complete
<1> QED
  BY <1>1, SyncInvHolds, PTL DEF Spec, StillListedKept
===============================================================================
