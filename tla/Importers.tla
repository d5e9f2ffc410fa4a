------------------------------ MODULE Importers ------------------------------
(***************************************************************************)
(* The importers of politicians: the TSE importer with its downloads, and  *)
(* the syncs of the Chamber and of the Senate.  One action per request,    *)
(* per transfer and per statement.  --persist-db is set; a sync that the   *)
(* TSE importer triggers takes the same steps as one cron starts.  The     *)
(* rows of scraper_jobs and of the two sync logs, which nothing reads      *)
(* back, are left out.                                                     *)
(***************************************************************************)
EXTENDS PoliticianStore, Sequences

CONSTANTS
  Sq,          \* SQ_CANDIDATO numbers
  NoCpf,       \* TSE's markers for no value
  File,        \* [Year -> Seq(Row)], the rows of consulta_cand, file after file
  Photographed,\* SUBSET Year: the elections divulgacandcontas has
  Chunks,      \* pieces a zip is transferred in
  Attempts,    \* downloadRetries
  BatchSize,   \* --batch-size
  Listings,    \* set of Seq(Deputy): what GET /deputados may list
  Items,       \* deputies per page
  SenateList,  \* SUBSET Senator: the sitting titulares
  MaxRepublished, MaxFaults, MaxSwaps  \* bounds

Row     == [uf : Uf, sq : Sq, turn : 1..2, elected : BOOLEAN, tracked : BOOLEAN,
            cpf : Cpf \cup {NoCpf}, name : Name]
Deputy  == [cpf : Cpf \cup {NoCpf}, name : Name, uf : Uf, photo : BOOLEAN]
Senator == [name : Name, uf : Uf, photo : BOOLEAN]

\* SQ is unique per UF per year.
ASSUME ImportersAssumption ==
  /\ NoCpf \notin Cpf
  /\ File \in [Year -> Seq(Row)]
  /\ \A y \in Year : \A i, j \in DOMAIN File[y] :
       File[y][i].uf = File[y][j].uf /\ File[y][i].sq = File[y][j].sq
         => File[y][i].cpf = File[y][j].cpf
  /\ Photographed \subseteq Year
  /\ Listings \subseteq Seq(Deputy) /\ SenateList \subseteq Senator
  /\ {Chunks, Attempts, BatchSize, Items} \subseteq Nat \ {0}
  /\ {MaxRepublished, MaxFaults, MaxSwaps} \subseteq Nat

VARIABLES
  log,         \* the years tse_import_log has as a success; not the other statuses
  tse,         \* the TSE importer
  part,        \* [Year -> Seq]: the .tmp file, the version each piece came from
  zip,         \* [Year -> Seq]: the downloaded file
  version,     \* version of the files TSE publishes
  seats,       \* what GET /deputados lists
  swaps,       \* changes of it
  cam,         \* the Chamber sync
  sen,         \* the Senate sync
  faults       \* failures so far

tseVars   == <<log, tse, part, zip>>
houses    == <<cam, sen>>
world     == <<version, seats, swaps>>
importers == <<tseVars, houses, world, faults>>

Record == [cpf : Cpf, name : Name, uf : Uf, photo : BOOLEAN]

NoTse == [pc |-> "idle", todo |-> {}, attempt |-> 0, records |-> {}]
NoCam == [pc |-> "idle", page |-> 0, listed |-> <<>>, full |-> FALSE, records |-> {}]
NoSen == [pc |-> "idle", records |-> {}]

ImportersTypeOK ==
  /\ log \subseteq Year
  /\ tse.pc \in {"idle", "year", "get", "rename", "parse", "upsert"}
  /\ tse.todo \subseteq Year /\ tse.attempt \in 0..Attempts
  /\ tse.records \subseteq Record /\ cam.records \subseteq Record
  /\ \A y \in Year : {Len(part[y]), Len(zip[y])} \subseteq 0..Chunks
  /\ cam.pc \in {"idle", "page", "detail", "upsert"}
  /\ sen.pc \in {"idle", "upsert"}
  /\ seats \in Listings /\ faults \in 0..MaxFaults

ImportersInit ==
  /\ log = {} /\ tse = NoTse
  /\ part = [y \in Year |-> <<>>] /\ zip = [y \in Year |-> <<>>] /\ version = 0
  /\ seats \in Listings /\ swaps = 0 /\ cam = NoCam /\ sen = NoSen /\ faults = 0

-------------------------------------------------------------------------------
(* The winners of a consulta_cand file.                                    *)

\* Mutant of candidateKey: the number alone.
candidateKeySQ(r) == r.sq

candidateKey(r) == <<r.uf, r.sq>>

\* scanConsultaRow: elected, to an office that is tracked.
Scanned(r) == r.elected /\ r.tracked

\* keepLatestTurn, over the rows in their order: of the rows of a key, the
\* first of the latest turn.
Winners(rows) ==
  LET S == {i \in DOMAIN rows : Scanned(rows[i])} IN
  {rows[i] : i \in {i \in S : \A j \in S \ {i} : candidateKey(rows[j]) = candidateKey(rows[i]) =>
      \/ rows[i].turn > rows[j].turn
      \/ rows[i].turn = rows[j].turn /\ i < j}}

\* buildResult: a winner without a CPF is left out.
BuildResult(y, photos) ==
  {[cpf |-> r.cpf, name |-> r.name, uf |-> r.uf, photo |-> photos] :
     r \in {r \in Winners(File[y]) : r.cpf # NoCpf}}

-------------------------------------------------------------------------------
(* The TSE importer.                                                       *)

Fault == faults < MaxFaults /\ faults' = faults + 1

\* resolveYears: one year, a range, or all of them, in order.
YearRanges == {{y \in Year : a <= y /\ y <= b} : a, b \in Year} \ {{}}

TseBegin(ys) ==
  /\ tse.pc = "idle"
  /\ tse' = [NoTse EXCEPT !.pc = "year", !.todo = ys]
  /\ UNCHANGED <<pol, photo, log, part, zip, houses, world, faults>>

\* The year being imported, and the state after it.
y0 == CHOOSE y \in tse.todo : \A z \in tse.todo : y <= z
NextYear == IF tse.todo = {y0} THEN NoTse
            ELSE [NoTse EXCEPT !.pc = "year", !.todo = tse.todo \ {y0}]

\* IsTSEYearSuccessful: the year was imported before.
SkipYear ==
  /\ tse.pc = "year" /\ y0 \in log
  /\ tse' = NextYear
  /\ UNCHANGED <<pol, photo, log, part, zip, houses, world, faults>>

\* CreateJob, then the year is marked as running.
StartYear ==
  /\ tse.pc = "year" /\ y0 \notin log
  /\ tse' = [tse EXCEPT !.pc = IF zip[y0] = <<>> THEN "get" ELSE "parse"]
  /\ UNCHANGED <<pol, photo, log, part, zip, houses, world, faults>>

\* The year is marked as failed and the process ends, later years and all.
MarkFailed == tse' = NoTse /\ UNCHANGED log

\* What the transfer leaves on disk when k pieces arrive: resumed (206), or
\* from the start (200); a Range past the end is refused (416).
Resumed(k) ==
  LET new(n) == [i \in 1..n |-> version] IN
  {f \in {part[y0] \o new(k), new(k)} : Len(part[y0]) < Chunks /\ Len(f) <= Chunks}

\* resumeDownload, to the end.
Download ==
  /\ tse.pc = "get" /\ tse.attempt < Attempts
  /\ \E k \in 1..Chunks : \E f \in Resumed(k) : Len(f) = Chunks /\ part' = [part EXCEPT ![y0] = f]
  /\ tse' = [tse EXCEPT !.pc = "rename", !.attempt = 0]
  /\ UNCHANGED <<pol, photo, log, zip, houses, world, faults>>

Rename ==
  /\ tse.pc = "rename"
  /\ zip' = [zip EXCEPT ![y0] = part[y0]]
  /\ part' = [part EXCEPT ![y0] = <<>>]
  /\ tse' = [tse EXCEPT !.pc = "parse"]
  /\ UNCHANGED <<pol, photo, log, houses, world, faults>>

\* The transfer breaks off, or is refused; the next attempt resumes it.
Interrupted ==
  /\ tse.pc = "get" /\ tse.attempt < Attempts
  /\ \/ /\ Fault
        /\ \E k \in 0..(Chunks - 1) : \E f \in Resumed(k) : part' = [part EXCEPT ![y0] = f]
     \/ Len(part[y0]) = Chunks /\ UNCHANGED <<part, faults>>
  /\ tse' = [tse EXCEPT !.attempt = @ + 1]
  /\ UNCHANGED <<pol, photo, log, zip, houses, world>>

\* Mutant of GiveUp: the .tmp file is left for the next run.
GiveUpKeepTmp ==
  /\ tse.pc = "get" /\ tse.attempt = Attempts
  /\ MarkFailed
  /\ UNCHANGED <<pol, photo, part, zip, houses, world, faults>>

GiveUp ==
  /\ tse.pc = "get" /\ tse.attempt = Attempts
  /\ part' = [part EXCEPT ![y0] = <<>>]
  /\ MarkFailed
  /\ UNCHANGED <<pol, photo, zip, houses, world, faults>>

\* A zip with pieces of two versions.
Mixed(f) == \E i, j \in DOMAIN f : f[i] # f[j]

\* ResolveElectionID and ImportYearFromZipFiles; the zip is removed.  Without
\* the election id (a failure, or no election) the year has no photos.
Import ==
  /\ tse.pc = "parse" /\ ~Mixed(zip[y0])
  /\ \/ tse' = [tse EXCEPT !.pc = "upsert", !.records = BuildResult(y0, y0 \in Photographed)]
        /\ UNCHANGED faults
     \/ tse' = [tse EXCEPT !.pc = "upsert", !.records = BuildResult(y0, FALSE)]
        /\ Fault
  /\ zip' = [zip EXCEPT ![y0] = <<>>]
  /\ UNCHANGED <<pol, photo, log, part, houses, world>>

\* A zip that does not open, too little disk or memory.  The zip stays.
ImportFails ==
  /\ tse.pc = "parse"
  /\ IF Mixed(zip[y0]) THEN UNCHANGED faults ELSE Fault
  /\ MarkFailed
  /\ UNCHANGED <<pol, photo, part, zip, houses, world>>

\* UpsertPoliticiansFromTSE, batch by batch, in the order of a map.
Batches(S) == {B \in SUBSET S : Cardinality(B) = IF Cardinality(S) < BatchSize
                                                 THEN Cardinality(S) ELSE BatchSize}

UpsertBatch ==
  /\ tse.pc = "upsert" /\ tse.records # {}
  /\ \E B \in Batches(tse.records) :
       /\ UpsertPoliticiansFromTSE(B, y0)
       /\ tse' = [tse EXCEPT !.records = @ \ B]
  /\ UNCHANGED <<log, part, zip, houses, world, faults>>

UpsertFails ==
  /\ tse.pc = "upsert" /\ tse.records # {}
  /\ Fault
  /\ MarkFailed
  /\ UNCHANGED <<pol, photo, part, zip, houses, world>>

LogSuccess ==
  /\ tse.pc = "upsert" /\ tse.records = {}
  /\ log' = log \cup {y0}
  /\ tse' = NextYear
  /\ UNCHANGED <<pol, photo, part, zip, houses, world, faults>>

\* The process dies, or exits on an error of Postgres.
TseDies ==
  /\ tse.pc # "idle"
  /\ Fault
  /\ tse' = NoTse
  /\ UNCHANGED <<pol, photo, log, part, zip, houses, world>>

TseStep == SkipYear \/ StartYear \/ Download \/ Rename \/ Interrupted \/ GiveUp \/ Import
             \/ (ImportFails /\ Mixed(zip[y0])) \/ UpsertBatch \/ LogSuccess

\* TSE publishes the files anew.
Republish ==
  /\ version < MaxRepublished
  /\ version' = version + 1
  /\ UNCHANGED <<pol, photo, tseVars, houses, seats, swaps, faults>>

-------------------------------------------------------------------------------
(* The Chamber: SyncCurrentDeputies, then the write.                       *)

Swap ==
  /\ swaps < MaxSwaps
  /\ \E s \in Listings \ {seats} : seats' = s
  /\ swaps' = swaps + 1
  /\ UNCHANGED <<pol, photo, tseVars, houses, version, faults>>

CamBegin ==
  /\ cam.pc = "idle"
  /\ cam' = [NoCam EXCEPT !.pc = "page"]
  /\ UNCHANGED <<pol, photo, tseVars, sen, world, faults>>

\* Mutant of LastPage: a page that is just full ends the listing.
LastPageFull(n) == n <= Items

LastPage(n) == n < Items

\* fetchDeputiesPage: the page as it is now, whatever the earlier pages were.
CamPage ==
  LET from == (cam.page) * Items + 1
      page == SubSeq(seats, from, IF from + Items - 1 < Len(seats) THEN from + Items - 1 ELSE Len(seats))
  IN
  /\ cam.pc = "page"
  /\ cam' = IF page = <<>> THEN [cam EXCEPT !.pc = "upsert"]
            ELSE [cam EXCEPT !.pc = "detail", !.listed = page, !.page = @ + 1,
                             !.full = ~LastPage(Len(page))]
  /\ UNCHANGED <<pol, photo, tseVars, sen, world, faults>>

\* fetchDeputyDetail: a deputy who left since, or has no CPF, is skipped.
CamDetail ==
  LET d == Head(cam.listed) IN
  /\ cam.pc = "detail"
  /\ cam' = [cam EXCEPT
       !.listed = Tail(@),
       !.records = IF d.cpf # NoCpf /\ \E i \in DOMAIN seats : seats[i] = d
                   THEN @ \cup {[cpf |-> d.cpf, name |-> d.name, uf |-> d.uf, photo |-> d.photo]} ELSE @,
       !.pc = IF Len(cam.listed) > 1 THEN "detail" ELSE IF cam.full THEN "page" ELSE "upsert"]
  /\ UNCHANGED <<pol, photo, tseVars, sen, world, faults>>

CamUpsert ==
  /\ cam.pc = "upsert" /\ cam.records # {}
  /\ \E B \in Batches(cam.records) :
       /\ UpsertPoliticiansFromCamara(B)
       /\ cam' = [cam EXCEPT !.records = @ \ B]
  /\ UNCHANGED <<tseVars, sen, world, faults>>

CamEnd ==
  /\ cam.pc = "upsert" /\ cam.records = {}
  /\ cam' = NoCam
  /\ UNCHANGED <<pol, photo, tseVars, sen, world, faults>>

\* Any failed request or write ends the run.
CamFails ==
  /\ cam.pc # "idle"
  /\ Fault
  /\ cam' = NoCam
  /\ UNCHANGED <<pol, photo, tseVars, sen, world>>

CamStep == CamPage \/ CamDetail \/ CamUpsert \/ CamEnd

-------------------------------------------------------------------------------
(* The Senate: SyncCurrentSenators, one answer, then the write.            *)

\* (A run that lists nobody writes nothing and is left out.)
SenBegin ==
  /\ sen.pc = "idle" /\ SenateList # {}
  /\ sen' = [sen EXCEPT !.pc = "upsert", !.records = SenateList]
  /\ UNCHANGED <<pol, photo, tseVars, cam, world, faults>>

SenUpsert ==
  /\ sen.pc = "upsert" /\ sen.records # {}
  /\ \E B \in Batches(sen.records) :
       /\ UpsertPoliticiansFromSenado(B)
       /\ sen' = [sen EXCEPT !.records = @ \ B]
  /\ UNCHANGED <<tseVars, cam, world, faults>>

SenEnd ==
  /\ sen.pc = "upsert" /\ sen.records = {}
  /\ sen' = NoSen
  /\ UNCHANGED <<pol, photo, tseVars, cam, world, faults>>

SenFails ==
  /\ sen.pc # "idle"
  /\ Fault
  /\ sen' = NoSen
  /\ UNCHANGED <<pol, photo, tseVars, cam, world>>

SenStep == SenUpsert \/ SenEnd

ImportersNext ==
  \/ \E ys \in YearRanges : TseBegin(ys)
  \/ TseStep \/ UpsertFails \/ (ImportFails /\ ~Mixed(zip[y0])) \/ TseDies \/ Republish
  \/ Swap \/ CamBegin \/ CamStep \/ CamFails
  \/ SenBegin \/ SenStep \/ SenFails
===============================================================================
