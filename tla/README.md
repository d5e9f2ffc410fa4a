# A verification project for corruption.center

TLA+ modules of the parts of corruption.center where a mistake would be a wrong public
claim about a person: who is shown as a defendant, what a purge takes back and keeps
back, which sanctions are shown and on whom, who owns which company, which photo
a name keeps, and what the graph says about a case. TLC checks them on small instances,
TLAPS proves every invariant and action property of the passing runs for every value of
the constants.

`PROJECT.json` lists components, runs, mutants, hazards, findings and theorems, and maps
every definition to the lines it models.

```
tlc -workers 2 -config PartySafety.cfg MCPartySystem      # any run: see PROJECT.json
tlapm PartySystemProofs.tla                               # any proof module
```

## 1. Inventory

The backend is a Go API (public JSON API and a server-rendered backoffice) and a set of
worker processes, all but the TSE importer started by cron (`deploy/cron`). They share two stores and nothing else:
Memgraph holds the published graph, Postgres the bookkeeping (review queue, snapshots,
tracking, removal requests, tombstones, audit log). No transaction spans two statements.
`run-compose-worker.sh` holds an flock per worker, so cron never runs one worker twice at
a time; `README.md` of the repository also has workers run by hand, without the lock.

| Component | State | Operations | Hard because | Correct when | Module |
| --- | --- | --- | --- | --- | --- |
| DJEN worker (`workers/djen`) | `djen_party_snapshot`, Person/Organization nodes, `DEFENDANT_IN` edges, reviews, tracking rows | case mode, rematch mode, name mode | each party is several statements; the backoffice writes the same nodes; runs stop half way; the same name folds to four different keys; name mode is concurrent | no defendant is lost, no purged one comes back, no human decision is overwritten, only a politician's own cases are watched | DjenWorker, NameMode |
| DJEN client | a search | page, halve refused ranges, retry | 5xx may be a bad record, a blip or an outage | nothing is skipped silently | DjenClient |
| Backoffice reviews (`api/backoffice.go`) | `pending_review`, edges | approve, reject | check and update are separate; two operators | approved means the edge is there; a decision stands | Backoffice, OrgAttach, SanctionLinks |
| Outcomes (`outcomes.go`) | properties of `DEFENDANT_IN` | record an outcome | the worker merges the same edge | a conviction is human and has evidence | Backoffice |
| Removal (`removalResolve`, `tombstone.go`) | `removal_request`, `purge_tombstone`, `audit_log` | create, purge, reject, resolve by hand | seven statements in two stores; workers run meanwhile | a purge that says it is done is done, and stays | Backoffice, and the purge in OrgAttach and SanctionLinks |
| Sanctions worker (`workers/sanctions`, `retraction.go`) | `:SanctionRecord` nodes, labels and stamps | fetch registries, stamp, sweep | the source moves while it is paged; fetches fail; count and retraction are separate | what the source lists is published, what it withdrew is not, and no bad fetch empties a registry | SanctionSync |
| Sanction linking (`worker.go` link*, `matching`) | `SANCTIONED_IN` edges, reviews | link by CNPJ, CPF, masked CPF, name | scores, several candidates, persons and politicians of one CPF | no automatic link without a document; what identifies somebody is shown | SanctionLinks, OrgSystem |
| CNPJ enricher, organization merge | Organization nodes, stamps, edges | breadth-first walk over shareholders, attach or merge by CNPJ | stamped before the work is done; merge in several statements while three workers write the same nodes | no shareholder, no edge and no recorded outcome is lost; an erased company stays out | OrgStore, Enricher, OrgAttach, OrgSystem |
| DataJud watcher (`workers/datajud`) | `watcher_tracking`, `LegalProceeding` nodes | list, fetch concurrently, write serially, derive the case state | goroutines over bounded channels; two-statement writes; weekly polls; movements in any order | no case is lost, a reversed conviction clears | Watcher, FetchPool, CaseState |
| Case registration, boot seed | nodes, `Scandal`, `INVESTIGATES`, tracking rows | seed form, `SeedBaseline`, approved candidates, name mode | four statements in two stores, repeated at every boot | what is tracked is in the graph, nothing derived is reset | Watcher |
| TSE, Câmara, Senado | Politician nodes, `tse_import_log`, zip cache | download, import, sync | numbers repeat between states; resumed transfers; pages that move; runs that die between the graph and the log | a year that is logged is imported; whoever sits is active | Importers |
| Photos | `photo_url` and its source | TSE mode, Wikidata mode | joins data of different years; one failure ends a run | what a better source put stands (whose face it is, nothing verifies) | Photos |
| Migrations | `schema_migrations` of both stores | apply in order | crash between applying and recording; two starts | each is applied once | not modelled |
| Public API, pages, frontend | none | read and render | - | - | not modelled |

## 2. Modules

```
PartyStore            the shared stores, and how they key one party
  DjenWorker          case and rematch mode             (EXTENDS PartyStore)
  Backoffice          the handlers' statements          (EXTENDS PartyStore)
    PartySystem       both, DJEN's publications and imports; the properties
      MCPartySystem       instances          PartySystemProofs   theorems
SanctionSync          sources, runs, stamps, sweeps; the properties
  MCSanctionSync          instances          SanctionSyncProofs  theorems
OrgStore              company nodes by name and by CNPJ, their edges and reviews
  Enricher, OrgAttach     the worker; the operators     (EXTEND OrgStore)
    OrgSystem         both, DJEN and the sanctions worker; the properties
      MCOrgSystem         instances          OrgSystemProofs     theorems
PoliticianStore       politician nodes and photos: one upsert per source
  Importers           TSE, Câmara, Senado               (EXTENDS PoliticianStore)
    Photos            the photos worker; the properties
      MCPhotos            instances          PhotosProofs        theorems
  SanctionLinks       CPF, mask, name and score         (EXTENDS PoliticianStore)
    MCSanctionLinks       instances          SanctionLinksProofs theorems
WorkList              abstract: a pass deals with every item once, and ends
  FetchPool           goroutines and channels; implements WorkList
                                             FetchPoolProofs     lemmas
    Watcher           registration, polls, writes; with CaseState (dockets)
      MCWatcher           instances          WatcherProofs       theorems
    NameMode          searches and registrations; with DjenClient (one search)
      MCNameMode          instances          NameModeProofs      theorems
```

Every action is one database statement, or one step of a goroutine between two blocking
operations; that is the grain at which the processes interleave. `pc` fields say which
statement comes next. A value read earlier and used later is a field of the process
(`djen.index`, `op[o].target`, `run.row`), so it can be stale.

**PartyStore.** A roster entry is a raw name and a side. Four functions of it decide what
happens: `stripEOutros` + `nameSlug` (the node: `PartyName`), `partyKey` (the snapshot key:
`RosterKey`), `normalizeName` (the politician index: `NormalName`) and `TombstoneKeyName`
(`NameKey`). They are constants, so the theorems hold whatever they identify;
`MCPartySystem` gives them the values the code gives for five spellings: a plain name, the
same with the ` E OUTROS (2)` marker, the same with an accent, the same on the active side,
and a company. `Mentions` stands for the `ILIKE '%name%'` over review payloads in the
scrub: the payload's other fields are left out, so a name can only be mentioned by a review
filed for that or another name.

**DjenWorker.** `RunBegin` reads the politician index once. `PollCase` takes any part of
what DJEN published (it refuses records, and a failed lookup leaves the case for later).
`HandleParty` classifies; `UpsertParty`, `EnsureDjenDefendantEdge`, `FileReview` and
`SnapshotParty` are the calls of handlePersonParty, handleCompanyParty and runCaseMode in
their order. `RunStops` is a crash or a returned error. Which cases are due does not
matter to these properties: any case may be polled.

**Backoffice.** `Op` is the set of requests in flight. Single-statement handlers are one
action (`Reject`, `SetDefendantOutcome`, `CloseRemoval`); approval and purge take a step per
statement. `HandlerFails` is a call that fails or a restart. The ELSE of `ApproveEdge` is
the code's error path; no action deletes a politician, so no run reaches it.

**SanctionSync.** `listed` is what each source serves, in order; `List` and `Delist` change
it while a run reads page after page. A page is applied record by record (`Apply`), any
fetch can fail (`FetchFails`), `--max-pages` cuts a registry short, and `SweepCount` and
`Retract` are the two statements of a sweep.

**SanctionLinks.** A record has a full CPF, a masked one or a name. `LinkFullCPF` asks the
tombstones and `FindSubjectByCPF` prefers the politician; `Fits` is the politicians of a
mask, counted before each is scored (`Score`, in hundredths, with the cap for several
candidates); `QueueReview` asks `HasSanctionReview` first. Politicians are imported and
renamed in between; an operator approves in two statements, rejects, or purges a Person.

**OrgStore, Enricher, OrgAttach, OrgSystem.** A company has a node of its name (DJEN) or of
its CNPJ (sanctions, enricher), or one that was given its document. `Merged(c)` is what a
MERGE by CNPJ matches: every holder, or a new node. An approval reads the status of the
review, then `AttachOrganizationCNPJ` looks for another holder (`FindHolder`), then sets
the document or moves the edges, one type per statement, and deletes the source only when
it has none left. `decided` is the `DEFENDANT_IN` edges with an outcome an operator
recorded; `MoveEdges` overwrites it as `SET n += properties(r)` does. `Reject` is one
statement, whatever the status was. A purge deletes the rows of the name: `"scrubbed"`
stands for a row that is gone. The enricher stamps a company
(`UpdateOrganizationEnrichment`), then handles its shareholders one call at a time; an
`OWNED_BY` parent becomes a job of the same run, up to `MaxHops`. OrgSystem adds the
statements of DJEN's company party and of the sanctions link.

**PoliticianStore, Importers, Photos.** A politician is keyed by CPF, a senator matched by
name and state. The TSE importer resumes a `.tmp` file piece by piece, renames it, parses it
(`Winners`, by `candidateKey`, the latest turn), writes batches, and logs the year last.
The Chamber is paged while its seats change. The photos worker lists its targets once,
per mode, and looks up and writes each. A picture is modelled by whom it shows (`of`): the
default URL has the year and the number alone, so TSE may answer with the photo of anybody
who had the number that year, in any state (`Behind`).

**FetchPool, WorkList.** The same pattern twice in the code: a producer (folded into
`Handoff`, the channel is unbuffered), fetchers, a channel with room for one answer per
fetcher, and a run that takes answers. WorkList is what such a pass promises. The
refinement is `Work!Spec` in NameMode: its pending items are those listed and not dealt
with, and only a run that dies (`stops`) counts as a pass broken off, so a run that ends
with a name left refutes it. The fairness of WorkList is checked as part of it.

**Watcher, CaseState.** A registration is the four statements of `registerWatcherCase`, or
the two of `registerDiscoveredCase` after its earlier `IsCaseTracked`. A docket is a list of
movements, each what its name and code say (`Signs`) and a date or none; `Hidden` is not
found or sealed. `movementsChronological` inserts as `sort.SliceStable` does on fewer
than 20 movements; `Standing` is the reference: the latest of the dated rulings. Each
case belongs to one scandal. TPU verification and the probe come before the list and
change nothing; they are left out.

**DjenClient, NameMode.** A search is a record that moves from request to request: the
recursion of `fetchRange` is its list of pages to do (`todo`), halved in place. DJEN serves
a page, refuses it (always when it holds an unservable record, now and then otherwise),
throttles or fails. NameMode runs the searches in a FetchPool, and registers the cases of a
lookup, group by group, two statements each.

## 3. Runs

| Run | Question | Result |
| --- | --- | --- |
| `party_safety` | Two operators, two removal requests, a review, outcomes, an import, a failure, and a run that polls two spellings under one tombstone key | a purged name comes back only if the tombstone came too late for it (`OnlyExposedReturn`); a request closed as purged is tombstoned (`PurgedIsTombstoned`); no approval lacks its edge (`ApprovedHasEdge`), no conviction its evidence (`ConvictionHasEvidence`) |
| `party_live` | A person, a company and a non-defendant, a run that stops: is every published party eventually recorded, and accounted for? | yes (`PublishedIsRecorded`, `NoDefendantLost`) |
| `sanction_sync` | Listing, withdrawal, failed pages, limits and deaths over a paged registry with a record from before the stamps | a sweep is bounded and retracts nothing it saw (`RetractionBounded`), and a record that stayed listed only when the pages moved (`StillListedKept`); what is listed is published in the end (`ListedIsPublished`) |
| `sanction_links` | Three sanctions and two homonyms under one mask, imported and renamed meanwhile | no link without evidence, at most one by score, no pair filed twice, no purged person back (`LinkHasEvidence`, `OneLinkPerMask`, `FiledOnce`, `PersonStaysOut`); a CPF or a unique mask reaches its politician (`SanctionReachesPolitician`, `UniqueMatchIsShown`) |
| `org_merge` | Two operators attach, merge, approve, reject, purge and record an outcome while DJEN, the sanctions worker and the enricher write the same company | a merge loses no relation (`FactsKept`) and takes a recorded outcome along, unless the other node is cited in the same case (`OutcomesFollow`), a company without a document has a row that is pending or was rejected, until its name is purged (`NameOnlyIsQueued`), what was approved is shown (`ApprovedIsShown`), an erased company stays out (`ErasedStaysOut`) |
| `org_enrich` | Companies that own each other, a merge meanwhile, and a run that fails after the stamp | every shareholder is shown in the end, every run ends (`SociosShown`, `EnricherTerminates`) |
| `watcher_cases` | Two registrations of a case racing with each other and with polls of a docket that is decided, reversed on appeal (newest movement first) and hidden | what is tracked is published, only a poll reopens a case, the graph follows the latest ruling (`TrackedIsPublished`, `OnlyPollsReopen`, `GraphCatchesUp`) |
| `djen_names` | Three names, two fetchers, an unservable record, refusals, 429s, a run that dies | a search that succeeds is complete (`SearchComplete`), gives nothing up lightly (`GivenUpAfterTwo`), the pool implements WorkList (`EveryNameOnce`), the cases of a politician with no more communications than the cap are watched (`CasesAreFound`) |
| `politicians` | Two elections in any order, a download that is resumed after a fault (also over a republished file), both houses and the photos worker together | photos of the importer are of the latest election (`LatestLikeness`); a photo gives way only to a house, or to a later election (`PhotoPrecedence`) |
| `politicians_live` | Two elections, numbers that repeat between states, a fault (a broken transfer that is resumed, also into a spliced file, or a run that dies), a listing that moves | what is logged is imported (`LoggedIsImported`); while imports keep being started every year is, or it or an earlier one has a spliced file in the cache (`YearsAreImported`); deputies are active (`DeputiesAreActive`) |

Two runs are disagreements between the code and what it says of itself, with the quotation
in `PROJECT.json`:

| Run | The code |
| --- | --- |
| `party_outcome` | a poll that sees another spelling sets a conviction an operator recorded back to `cited` |
| `watcher_undated` | a movement without a date stops the sort: in a docket listed newest first, the conviction in front of which it stands outlives the acquittal that reversed it |

Every property of a passing run has a mutant: an operator beside the definition it replaces,
marked "Mutant of", with the mistake named. They are never used by the specifications.

### Findings without a run

Met while modelling; the models have most of these behaviours, and the properties are
stated so that they allow for them.

DJEN and the backoffice:
- A purge that completes between the tombstone lookup (`workers/djen/worker.go:343`) and the
  upsert is undone by the upsert. `OnlyExposedReturn` says that nobody else comes back.
- The scrub compares raw spellings (`db/psql/tombstone.go:96`): a purged name stays in
  `djen_party_snapshot` under its `E OUTROS` spelling, and the next poll stores it again.
- Case mode files a match without looking for a decided review of the same pair
  (`workers/djen/worker.go:286`); another spelling of a rejected match is filed again.
- The status of a removal request is read before the purge and not checked again
  (`api/backoffice.go:718`): rejected by another operator meanwhile, it stays rejected, and
  its subject is gone.
- A purge completes although its audit record failed (`PurgeAudit`), and a decided review can
  be decided again (`ApproveMark`, `Reject`).
- `paginate` fixes the total at the first range: a record published during a search that
  pushes others to a later page is missed until the next run. A count that DJEN leaves
  out (0) ends the search after the first range, contrary to the comment at
  `client.go:214`. An error in a later window discards the items of the earlier ones.
- The cap of 300 items counts from 2021 on, so the newest communications of a name with
  many are never read (`SearchComplete` asks for completeness below the cap).

Sanctions:
- Records from before the stamps have a null `last_seen_run`, which
  `s.last_seen_run <> $run` does not select (`retraction.go:143`): they are never retracted,
  although :26-27 says that anything the run did not see is. `Legacy` has such a record.
- A record that moves to a page already read is retracted until the next run: the
  exception in `StillListedKept`.
- A purge of a person tombstones the name, and thereby silently stops the sanctions by
  masked CPF of a politician of that name. A rejected review does not stop an automatic
  link when the name comes to match later, and an automatic link stays when more
  candidates are imported.

Companies:
- `AttachOrganizationCNPJ` looks for another holder and sets the document in two
  statements (`org_cnpj.go:39`): a worker can create the holder in between, and two
  Organizations wear one CNPJ, which :15 says must not happen.
- A purge tombstones the company's name as the graph has it then; an enriched company
  has its legal name, not the one DJEN would bring. `--cnpj` and `enrichOne` do not ask the
  tombstones at all (the `exposed` of OrgSystem).
- When a company is merged or purged between DJEN's upsert and its edge, the edge's
  MATCH finds nothing, silently, and the party is then in the snapshot.
- A merge writes the properties of the edge that goes over those of the edge that stays
  (`org_cnpj.go:73-77`): where both nodes are defendants in one case, `convicted` becomes
  the `cited` of the other, while `outcome_source` stays `human` and the evidence of the
  conviction stays next to it. DJEN's `EnsureDjenDefendantEdge` resets the outcome of a
  company, as of a person, when it cites it once more. These are the exceptions in
  `OutcomesFollow`.
- A company whose name was purged is off the queue for good: `tombstone.go:119-120` deletes
  its row, also the row of another node of that name, and the tombstone keeps DJEN from
  filing another. The node itself can still be there, or come, without a document: when
  the purge was of the company's other node, or its tombstone came too late.
- For an `unknown_cnpj` row that cannot be approved the operator is told to "reject it and
  let DJEN re-queue the company" (`api/backoffice.go:357`). DJEN does not, for that case: the
  company is in its snapshot. It files another row when the company turns up in another.
- A `possible_politician_in_qsa` review whose company was merged away can never be
  approved, and one is filed again at every pass.

The docket: `UpsertProceeding` first takes a conclusion back; a run that dies there leaves
the case ongoing until the next poll.

Politicians and photos:
- The default photo URL is `{year}/{sq}` (`workers/photos/client_tse.go:43`), numbers repeat
  between states in the older files (`importer.go:103-107`), and what is verified is that the
  answer is an image: a politician can get the face of somebody with the same number, although
  `client_tse.go:34-35` says that "a wrong template can never produce bad data". With the
  `{uf}` of `--tse-url-template` those who changed state since still can
  (`workers/photos/worker.go:193`). The runs have both faces; no property says whose it is.
- The importer writes the source `tse`, the photos worker `tse_<year>`; a sync that replaces a
  photo keeps its old attribution and year; an older election imported later overwrites
  name, party and state, though not the photo.
- A year without an election id is logged as a success and never gets its photos. A
  complete `.tmp` is answered 416 (`Resumed`).
- A transfer that is resumed after TSE republished the file splices two versions; the zip
  stays in the cache, the year fails at it again and again, and the run exits there
  (`workers/tse/cmd/main.go:167-174`), so a run over all years never gets to a later one. It
  is the exception in `YearsAreImported`.
- With `--limit` the photos worker takes the same unanswerable targets again and again, and
  one failing lookup ends its run.
- `active` is never reset, and the Senate matches by name and state only.

### Bounds

The runs have from a few hundred to a few million states; each bound is there so
that the case it is about happens and no more.

- Party: one case, since the worker handles one after the other and every property is about
  one case at a time. Two requests in flight and two removal requests: two operators on
  the same item, and on different ones. One review row; when it is used up the worker
  waits at `FileReview`, so `party_safety` does not check deadlock. `party_live` has as many
  rows as the run can use, and the stop that `party_safety` leaves out (`MaxStops` 0). The
  theorems of PartySystemProofs state all these properties without a bound.
- Sanctions: pages of one record and two records: a page boundary, a withdrawal before and
  after it, a share exactly at the ceiling of 1/2 and above it. Three stamps for two
  records, so `FreshId` always finds one. One worker; the TCU list, a file, stays empty.
  The theorems cover registries of any size.
- Links: two politicians under one mask, two names, and one sanction of each kind; two
  imports, so that one is imported or renamed before and one after a lookup.
- Companies: one CNPJ with its DJEN name, one case, two operators, two requests of theirs
  (approvals, rejections, purges, outcomes) and one error for the merge; two CNPJs that own
  each other, one hop and one failure for the walk.
- Watcher: one case and two registrars, one fetcher (`djen_names` has the pool); dockets of one
  and of three movements.
- `djen_names`: pages of two records and three records in a window, so a window is more
  than a range, its last range is not full and the unservable record shares its page; a
  cap of 3 that falls between the windows; one repetition after a 429 and two blips, so
  that a record can be given up wrongly and a search can fail; two fetchers, three names.
- Politicians: two politicians with the same number in two states, two elections, two
  pieces per download, one republication, one fault; one change of the listing in
  `politicians_live`, which leaves the photos worker out. `Attempts` is 2 where the code has
  6: with one fault that is one interrupted transfer and the attempt that resumes it, at
  the piece it had reached, of the same version or of the next.
- `MaxStops`, `MaxFailures`, `MaxErrors`, `MaxFaults` are at most 1: one interruption at any
  statement (`MaxFailures` 0 in `org_merge`, where the operators' statements fail).

Symmetry is used for sets whose members no constant function tells apart, and never in runs
with a liveness property.

### Fairness

- `party_live`: the worker is started every day (WF of `RunBegin`), goes on to its end (WF of its
  steps) and gets the whole roster of a case now and then (SF of `PollFully`): the case
  list is ordered so that every case has its turn, and DJEN's refusals are transient.
  Nothing is assumed of the backoffice.
- `sanction_sync`: unlimited runs are begun again and again (SF), read each group (SF), and go
  on (WF). A registry that fails for ever is never read, and then nothing is promised.
- `sanction_links`: the sync brings each record every week (SF of `Begin`), and the worker goes
  on with it (WF). Failures are bounded. Nothing is assumed of importers and operators.
- `org_enrich`: unlimited runs are begun again and again (SF), a run that was begun goes on and
  the re-enrichment period goes by (WF).
- `watcher_cases`: cron starts a writing, unlimited run every day, whatever is run by hand between
  (SF); weeks pass; the goroutines go on; and the lookups of a case do not fail in every
  writing run (SF).
- `djen_names`: one weak fairness for everything the worker does: it is started again, and
  when some goroutine can take a step, one of them does. Blips and deaths are bounded.
- `politicians_live`: the Chamber sync is started every week and goes on (WF of its steps); a
  run of the importer that was begun goes on (WF). Nothing starts the importer: it is
  "manually triggered" (`docs/sources_workers.md`), so `YearsAreImported` has as its premise
  that an operator keeps starting imports of all years. Nothing is asked of the Senate sync
  and of the photos worker, and nothing makes TSE republish, deputies change or requests
  fail.

"Every day" and "every week" are the lines of `deploy/cron/crontab.dev.example` and the
schedules of `docs/sources_workers.md`; `crontab.prod.example` has only the Câmara and Senado
syncs and the DataJud watcher.

A context is never cancelled in these processes (`context.Background()`); a run that returns
early on an error ends the process, and with it the fetchers it leaves blocked.

## 4. Proofs

**PartySystemProofs**: no bound on anything, from `StoreAssumption`, `StopsAssumption`,
`OpAssumption` and `InputAssumption`, which say only that the constants have their types,
that names and politicians are different nodes and that a name mentions itself.

- `TypeCorrect`. `TypeOK` is not inductive: a purge deletes `op[o].target`, which is a name
  and not a politician only because `PurgeProvenance` looked. `PurgeTarget` says so for every
  later stage.
- `ErasureHolds` (`OnlyExposedReturn`). The upsert comes a statement after the tombstone
  lookup. `InHandExposed`: a name the worker holds cleared is not tombstoned, or is exposed.
- `ConvictionsStand`. From `EdgeStep`: a step changes an edge in one of four ways.
- `PurgesTombstone`. `PurgeProgress(o)`: a purge past its deletion has its target in `purged`, past its
  tombstone has the key, and it works on the target its request names.
- `ApprovalsStand`. `ApprovalInv`: a handler at "mark" has its edge written. It rests on
  `RemovalInv`, for a purge deletes edges, but never a politician's.
- `NoneLost`. `IntakeInv`: every snapshotted defendant is settled, and the one the worker is
  about to snapshot is settled by the statement before; `SettledStays`: settled is for good,
  by the graph, a review, the purge or the tombstone.

**SanctionSyncProofs**: any sources, registries, page size, limits and ceilings.

- `TypeCorrect`, with any number of runs together.
- With `SingleRun` (no two processes: what the flock guarantees; with a run started by hand
  beside cron's, restamping between another run's count and retraction, the ceiling fails): `SweepsAreBounded`, `SteadyAreKept`. The invariant `SyncInv`
  has four parts beside the types. `StampInv`: what the run has seen carries its stamp.
  `GuardInv`: between count and retraction the counts still pass the guard, as nobody else
  writes. `SteadyInv`: steady records are listed. `CoverInv`: a steady record of a registry
  that did not shrink is either seen, or on a page not yet read, or in the batch being
  applied, or its registry is barred from the sweep; it is what makes "the last page was
  empty" mean "everything was read", and `PageArithmetic`, `EmptyPage` and `NextPage` are its
  arithmetic. Listing appends, so it moves no page.

**SanctionLinksProofs**: any politicians, masks, names and records, from the assumptions of
the two modules (a name is no CPF). `LinksInv` is the four properties and what they rest on:
`Hands`, `AllKnown` and `InHandEvidence` (what the worker holds at each `pc` is one record, one
known politician, with the document the label asks for), `Scored`, `InHandExposed`.

- `TypeCorrect`, `LinksHaveEvidence`, `PersonsStayOut`.
- `MasksLinkOne`. `Alone`: a candidate that was scored alone is the one politician the mask was
  linked to so far, though others may have been imported since it was counted.
- `PairsAreFiledOnce`. `FirstOfPair`: at "file" no row of the pair is there, as only this worker files.

**FetchPoolProofs** has the lemmas both pools use, for any number of items and fetchers.
`NothingLost(held)`: an item that was listed and not dealt with is in the queue, at a fetcher,
among the answers, or in `held`, the hands of the run.

**NameModeProofs**. `NamesInv`: the types, `InHand`, `NothingLost` and `Searching`, which says of
every search that its pages to do lie end to end up to the end of the range (`Tiled`), that it has
every record before them but those given up (`ReadUpTo`), and that each of those cost two
refusals (`Paid`).

- `TypeCorrect`, `GivenUpAfterTwoRefusals`.
- `SearchesAreComplete`, when DJEN lists no record of a name twice (`ListedOnce`: a
  communication has one date, hence one window, and one place in it). The property asks for
  items without repetition, which a listing with repetitions cannot give.
- `RunsAreWorkLists`: every step of the specification is one of WorkList or a stutter. It is the
  safety part of `EveryNameOnce`.

**WatcherProofs**. `WatcherInv`: the types, `NothingLost`, and `InOrder`: a registration past a
statement has its effect, whoever else registers the case.

- `TypeCorrect`, `TrackedArePublished`, `PollsReopen`, `RunsAreWorkLists`.
- `DatedRulingsStand`: `LatestRulingStands`, which `watcher_undated` refutes, holds of every docket
  whose movements have dates, of any length and in any order. The insertion sort of
  CaseState (on longer dockets the library also merges, stably) is shown to be a
  permutation, sorted and stable, by induction over the movements inserted; the lemma
  `Induct` is induction over a set of numbers, for the library's theorems take an operator.

**PhotosProofs**, with the importers: any files, elections, years and listings.

- `TypeCorrect`.
- `LoggedAreImported`. `NobodyDropped`: while batches are written, everybody elected in the file is
  in the graph or in the batches left. It uses that a `candidateKey` has one CPF.
- `LikenessIsLatest`. `NothingPassed`: a politician without a photo was offered none.
- `PrecedenceHolds` (`PhotoPrecedence`). No invariant is behind it but the types: every
  statement that writes a photo looks at the one that is there, so it does not matter how
  long before the worker listed and looked up.

**OrgSystemProofs**: the enricher, any operators, DJEN and the sanctions worker, without a bound.
`Typed` says more than `TypeOK`: no node wears the CNPJ of another company (`Documents`), so
that two holders of one CNPJ stand for one company; and an operator's handler has, at
each statement, the node it had found (`InOrder`).

- `TypeCorrect`.
- `NothingIsLost` (`FactsKept`). A merge moves edges between nodes of one company; `DeleteSource`
  deletes a node only when the same statement finds it without edges, whatever was attached since.
- `OutcomesAreFollowed` (`OutcomesFollow`). A merge moves an outcome with its edge to a node of
  the same company; `Documents` says that it is.
- `NameOnlyAreQueued`. `QueueInv`: the row of a company without a document is pending or
  rejected, and at nobody's "mark": an approval that reaches "mark" has given the
  document or merged the company away. `ScrubInv`: rows are scrubbed only under names with
  a tombstone, and that of a purge is written a statement before.
- `ApprovedAreShown`. `ApprovalInv`: also the handler at "mark" has its edge. Only a purge takes
  a `CONTROLS` away, and then the company is among the erased.
- `ErasedStayOut`. `ErasureInv`: every key a process has cleared and not written yet (`InFlight`)
  that is tombstoned by now is exposed.

From `OrgStoreAssumption`, `EnricherAssumption`, `AttachAssumption` and `SystemAssumption`:
CNPJs, names and shareholders are different, and there is at least one CNPJ, name, case and
sanction (the idle processes hold some value).

TLC evaluated the inductive invariants before they were proved, on the instances of the
runs and, for the companies, on one with a second name.

**Only model-checked**: liveness and fairness, which the prover does not do:
`PublishedIsRecorded`, `ListedIsPublished`, `SanctionReachesPolitician`, `UniqueMatchIsShown`,
`GraphCatchesUp`, `CasesAreFound`, `SociosShown`, `EnricherTerminates`, `YearsAreImported`,
`DeputiesAreActive`, and of `EveryNameOnce` that each pass ends.


## 5. Not modelled

- Migrations: whether a repetition after a crash is harmless is in the text of each
  migration (`IF NOT EXISTS`, `MERGE`), which a model would have to take for granted.
- The read-only API, the pages and the frontend: no state of their own.
- Formats: CSV columns, the registries' JSON and ZIP, HTML. Dry runs, which write nothing.
- Delays: rate limits and backoffs only put steps apart, which the interleaving does anyway.
  The retries of the DataJud, BrasilAPI and Câmara clients are part of a lookup that ends in
  an answer or an error.
- Expenses of the Câmara sync, links between scandals, the listing of the review queue,
  and the count of skipped records in the statistics of a run.

HTTP, SQL and Cypher are modelled by what a statement does; a statement is atomic.

## 6. Plan

Next:

1. Theorems for the steps under the liveness properties: what the enricher has still to walk,
   that a poll which finds a docket writes what it found, that a year is taken until it
   is logged. TLC then has only the fairness left to check.
2. An abstract specification of a company (the facts about it, and whether it was erased) that
   OrgSystem implements, from `FactsKept` and `ErasedStaysOut`.
3. The seven hazards of `PROJECT.json` without a property: a row snapshotted under its raw
   spelling, a pair filed again after a decision, a request purged and rejected, null stamps, the
   two holders of a CNPJ, the face of another, repeated migrations. They are behaviours of the code listed above;
   a property for each would need a line of the repository that promises the contrary.
