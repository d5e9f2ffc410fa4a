----------------------------- MODULE PhotosProofs -----------------------------
(***************************************************************************)
(* Proofs about Photos: a year logged as imported is imported, the photo   *)
(* of the importer is of the latest election, and a photo gives way only   *)
(* to whom it should, in every interleaving of the importers, the photos   *)
(* worker and their failures.                                              *)
(***************************************************************************)
EXTENDS Photos, FiniteSetTheorems, SequenceTheorems, WellFoundedInduction, TLAPS

-------------------------------------------------------------------------------
(* Years and winners.                                                      *)

\* A set of numbers with elements has a least one.
LEMMA LeastIn ==
  ASSUME NEW S \in SUBSET Nat, S # {}
  PROVE  \E n \in S : \A m \in S : n <= m
<1> DEFINE T == {0..n : n \in S}
           R == StrictSubsetOrdering(Nat)
<1>1. T \subseteq FiniteSubsetsOf(Nat) /\ T # {}
  <2>1. \A n \in Nat : 0..n \subseteq Nat /\ IsFiniteSet(0..n)
    BY FS_Interval
  <2> QED
    BY <2>1 DEF FiniteSubsetsOf
<1>2. PICK x \in T : \A y \in T : ~(<<y, x>> \in R)
  <2> HIDE DEF T, R
  <2> QED
    BY <1>1, FS_StrictSubsetOrderingWellFounded, WFMin DEF R
<1>3. PICK n \in S : x = 0..n
  OBVIOUS
<1>4. ASSUME NEW m \in S, m < n PROVE FALSE
  <2>1. (0..m) \subseteq x /\ n \in x /\ n \notin 0..m
    BY <1>3, <1>4
  <2>2. <<0..m, x>> \in R
    BY <2>1, <1>1, <1>3 DEF StrictSubsetOrdering
  <2> QED
    BY <2>2, <1>2
<1> QED
  BY <1>4

-------------------------------------------------------------------------------
(* The invariant.                                                          *)

TseState == [pc : {"idle", "year", "get", "rename", "parse", "upsert"}, todo : SUBSET Year,
             attempt : 0..Attempts, records : SUBSET Record]
CamState == [pc : {"idle", "page", "detail", "upsert"}, page : Nat, listed : Seq(Deputy),
             full : BOOLEAN, records : SUBSET Record]
SenState == [pc : {"idle", "upsert"}, records : SUBSET Senator]
RunState == [pc : {"idle", "list", "next", "set"}, mode : {"tse", "orgs", "politicians"},
             year : Year \cup {0}, targets : SUBSET Subject, at : SUBSET Subject,
             of : SUBSET Subject]

\* A downloaded file is the versions its pieces are of.
Files == {f \in Seq(Nat) : Len(f) <= Chunks}

ImportersTyped ==
  /\ log \subseteq Year /\ faults \in 0..MaxFaults
  /\ part \in [Year -> Files] /\ zip \in [Year -> Files] /\ version \in Nat
  /\ seats \in Listings
  /\ tse \in TseState /\ cam \in CamState /\ sen \in SenState
  /\ tse.pc # "idle" => tse.todo # {}
  /\ cam.pc = "detail" => cam.listed # <<>>

PhotosTyped ==
  /\ StoreTypeOK /\ ImportersTyped 
  /\ ph \in RunState /\ offered \subseteq Cpf \X Year
  /\ ph.mode = "tse" /\ ph.pc # "idle" => ph.year \in Year

\* A row of year y has somebody who is in the graph, or is about to be written.
Held(y, i) ==
  Scanned(File[y][i]) /\ File[y][i].cpf # NoCpf =>
    \/ pol[File[y][i].cpf].known
    \/ \E r \in tse.records : r.cpf = File[y][i].cpf

\* Who was elected in the year that is being written is in the graph or will be.
NobodyDropped == tse.pc = "upsert" => \A i \in DOMAIN File[y0] : Held(y0, i)

\* The importer was not offered a photo it passed by.
NothingPassed == \A c \in Cpf : photo[c].src = "none" => \A y \in Year : <<c, y>> \notin offered

-------------------------------------------------------------------------------
(* Types.                                                                  *)

\* A run of the importer has a year in hand.
LEMMA YearInHand ==
  ASSUME ImportersTyped, tse.pc # "idle"
  PROVE  y0 \in tse.todo /\ y0 \in Year /\ y0 \in Nat
<1>1. tse.todo \in SUBSET Nat /\ tse.todo # {} /\ tse.todo \subseteq Year
  BY PoliticianStoreAssumption DEF ImportersTyped, TseState
<1>2. \E y \in tse.todo : \A z \in tse.todo : y <= z
  BY <1>1, LeastIn
<1>3. y0 \in tse.todo
  BY <1>2 DEF y0
<1> QED
  BY <1>1, <1>3

\* The initial records are of their types.
LEMMA Initial ==
  /\ AnyName \in Name /\ AnyUf \in Uf
  /\ Unknown \in Politician /\ NoPhoto \in Photo
  /\ NoTse \in TseState /\ NoCam \in CamState /\ NoSen \in SenState /\ NoRun \in RunState
  /\ <<>> \in Files
<1>1. AnyName \in Name /\ AnyUf \in Uf
  BY PoliticianStoreAssumption DEF AnyName, AnyUf
<1>2. Attempts \in Nat /\ Chunks \in Nat
  BY ImportersAssumption
<1>3. <<>> \in Files
  BY <1>2 DEF Files
<1>4. <<>> \in Seq(Deputy)
  OBVIOUS
<1> QED
  BY <1>1, <1>2, <1>3, <1>4
  DEF Unknown, Politician, NoPhoto, Photo, NoTse, TseState, NoCam, CamState, NoSen, SenState,
      NoRun, RunState

\* What the importer goes on to is well typed.
LEMMA NextYearTyped ==
  ASSUME ImportersTyped, tse.pc # "idle"
  PROVE  NextYear \in TseState /\ (NextYear.pc # "idle" => NextYear.todo # {})
<1>1. NoTse \in TseState
  BY Initial
<1>2. tse.todo \subseteq Year /\ y0 \in tse.todo
  BY YearInHand DEF ImportersTyped, TseState
<1> QED
  BY <1>1, <1>2 DEF NextYear, TseState, NoTse

\* Whatever a transfer leaves on disk is a file.
LEMMA ResumedTyped ==
  ASSUME ImportersTyped, tse.pc # "idle", NEW k \in 0..Chunks
  PROVE  Resumed(k) \subseteq Files
<1>1. Chunks \in Nat /\ version \in Nat /\ k \in Nat
  BY ImportersAssumption DEF ImportersTyped
<1>2. part[y0] \in Seq(Nat)
  BY YearInHand DEF ImportersTyped, Files
<1>3. [i \in 1..k |-> version] \in Seq(Nat)
  BY <1>1
<1>4. PICK n : n = [i \in 1..k |-> version]
  OBVIOUS
<1>5. n \in Seq(Nat) /\ part[y0] \o n \in Seq(Nat)
  BY <1>2, <1>3, <1>4
<1> SUFFICES ASSUME NEW f \in Resumed(k) PROVE f \in Files
  OBVIOUS
<1>6. f \in {part[y0] \o n, n} /\ Len(f) <= Chunks
  BY <1>4 DEF Resumed
<1> QED
  BY <1>5, <1>6 DEF Files

\* What is written of a year: records of its file.
LEMMA WinnersTyped ==
  ASSUME NEW y \in Year, NEW b \in BOOLEAN, NEW r \in BuildResult(y, b)
  PROVE  r \in Record
<1>1. File[y] \in Seq(Row)
  BY ImportersAssumption
<1>2. PICK i \in DOMAIN File[y] : /\ File[y][i].cpf # NoCpf
                                  /\ r = [cpf |-> File[y][i].cpf, name |-> File[y][i].name,
                                          uf |-> File[y][i].uf, photo |-> b]
  BY DEF BuildResult, Winners
<1>3. File[y][i] \in Row
  BY <1>1, <1>2
<1> QED
  BY <1>2, <1>3 DEF Row, Record

\* The statements of the importers write politicians and photos.
LEMMA StatementsTyped ==
  ASSUME StoreTypeOK
  PROVE  /\ \A rows \in SUBSET Record, y \in Year : UpsertPoliticiansFromTSE(rows, y) => StoreTypeOK'
         /\ \A rows \in SUBSET Record : UpsertPoliticiansFromCamara(rows) => StoreTypeOK'
         /\ \A rows \in SUBSET Senator : UpsertPoliticiansFromSenado(rows) => StoreTypeOK'
<1>1. /\ \A c \in Cpf : pol[c] \in Politician
      /\ \A x \in Subject : photo[x] \in Photo
  BY DEF StoreTypeOK
<1>2. ASSUME NEW rows \in SUBSET Record, NEW c, {r \in rows : r.cpf = c} # {}
      PROVE  (CHOOSE r \in {r \in rows : r.cpf = c} : TRUE) \in Record
  BY <1>2
<1>3. ASSUME NEW rows \in SUBSET Record, NEW y \in Year, UpsertPoliticiansFromTSE(rows, y)
      PROVE  StoreTypeOK'
  <2>1. ASSUME NEW c \in Cpf
        PROVE  pol'[c] \in Politician
    <3> DEFINE At == {r \in rows : r.cpf = c}
               r == CHOOSE r \in At : TRUE
    <3>1. pol'[c] = IF At = {} THEN pol[c]
                    ELSE [pol[c] EXCEPT !.known = TRUE, !.name = r.name, !.state = r.uf]
      BY <1>3 DEF UpsertPoliticiansFromTSE
    <3>2. At # {} => r.name \in Name /\ r.uf \in Uf
      BY <1>2 DEF Record
    <3> HIDE DEF At, r
    <3> QED
      BY <3>1, <3>2, <1>1 DEF Politician
  <2>3. pol' \in [Cpf -> Politician]
    BY <1>3, <2>1 DEF UpsertPoliticiansFromTSE
  <2>2. photo' \in [Subject -> Photo]
    BY <1>1, <1>3 DEF UpsertPoliticiansFromTSE, Photo
  <2> QED
    BY <2>2, <2>3 DEF StoreTypeOK
<1>4. ASSUME NEW rows \in SUBSET Record, UpsertPoliticiansFromCamara(rows)
      PROVE  StoreTypeOK'
  <2>1. pol' \in [Cpf -> Politician]
    BY <1>1, <1>2, <1>4 DEF UpsertPoliticiansFromCamara, Politician, Record
  <2>2. photo' \in [Subject -> Photo]
    BY <1>1, <1>4 DEF UpsertPoliticiansFromCamara, Photo
  <2> QED
    BY <2>1, <2>2 DEF StoreTypeOK
<1>5. ASSUME NEW rows \in SUBSET Senator, UpsertPoliticiansFromSenado(rows)
      PROVE  StoreTypeOK'
  <2>1. pol' \in [Cpf -> Politician]
    BY <1>1, <1>5 DEF UpsertPoliticiansFromSenado, Politician
  <2>2. photo' \in [Subject -> Photo]
    <3> DEFINE S == Senators({r \in rows : r.photo})
    <3>1. photo' = [x \in Subject |->
            IF x \in S THEN [photo[x] EXCEPT !.src = "senado", !.of = {x}] ELSE photo[x]]
      BY <1>5 DEF UpsertPoliticiansFromSenado
    <3> HIDE DEF S
    <3>2. ASSUME NEW x \in Subject
          PROVE  [photo[x] EXCEPT !.src = "senado", !.of = {x}] \in Photo
      BY <1>1 DEF Photo
    <3> QED
      BY <3>1, <3>2, <1>1
  <2> QED
    BY <2>1, <2>2 DEF StoreTypeOK
<1> QED
  BY <1>3, <1>4, <1>5

\* A page of the listing holds deputies.
LEMMA PageTyped ==
  ASSUME seats \in Listings, NEW m \in Nat \ {0}, NEW n \in Int, n <= Len(seats)
  PROVE  SubSeq(seats, m, n) \in Seq(Deputy)
<1>1. seats \in Seq(Deputy)
  BY ImportersAssumption
<1>2. \A i \in m..n : seats[i] \in Deputy
  BY <1>1
<1> QED
  BY <1>2, SubSeqProperties

\* The steps of the TSE importer keep the types.
LEMMA TseTyped ==
  ASSUME StoreTypeOK, ImportersTyped,
         \/ \E ys \in YearRanges : TseBegin(ys)
         \/ TseStep \/ UpsertFails \/ (ImportFails /\ ~Mixed(zip[y0])) \/ TseDies
  PROVE  StoreTypeOK' /\ ImportersTyped'
<1>1. /\ tse \in TseState /\ log \subseteq Year /\ part \in [Year -> Files] /\ zip \in [Year -> Files]
      /\ Attempts \in Nat /\ faults \in 0..MaxFaults /\ MaxFaults \in Nat
  BY ImportersAssumption DEF ImportersTyped
<1>2. NoTse \in TseState /\ <<>> \in Files /\ NoTse.pc = "idle"
  BY Initial DEF NoTse
<1>3. Fault => faults' \in 0..MaxFaults
  BY <1>1 DEF Fault
<1>4. ASSUME tse' \in TseState, tse'.pc # "idle" => tse'.todo # {}, log' \subseteq Year,
             part' \in [Year -> Files], zip' \in [Year -> Files], faults' \in 0..MaxFaults,
             UNCHANGED <<houses, world>>, StoreTypeOK'
      PROVE  StoreTypeOK' /\ ImportersTyped'
  BY <1>4 DEF ImportersTyped, houses, world
<1>5. UNCHANGED <<pol, photo>> => StoreTypeOK'
  BY DEF StoreTypeOK
<1>6. ASSUME NEW ys \in YearRanges, TseBegin(ys)
      PROVE  StoreTypeOK' /\ ImportersTyped'
  <2>1. ys \subseteq Year /\ ys # {}
    BY <1>6 DEF YearRanges
  <2>2. tse' \in TseState /\ tse'.todo # {}
    BY <1>6, <1>2, <2>1 DEF TseBegin, NoTse, TseState
  <2> QED
    BY <1>6, <1>1, <1>4, <1>5, <2>2 DEF TseBegin, houses, world
<1>7. ASSUME tse.pc # "idle", tse.todo # {}, y0 \in Year, NextYear \in TseState,
             NextYear.pc # "idle" => NextYear.todo # {},
             SkipYear \/ StartYear \/ LogSuccess
      PROVE  StoreTypeOK' /\ ImportersTyped'
  <2>1. tse' \in TseState /\ (tse'.pc # "idle" => tse'.todo # {}) /\ log' \subseteq Year
    BY <1>1, <1>7 DEF SkipYear, StartYear, LogSuccess, TseState
  <2> QED
    BY <1>1, <1>4, <1>5, <1>7, <2>1 DEF SkipYear, StartYear, LogSuccess, houses, world
<1>8. ASSUME tse.pc # "idle", tse.todo # {}, y0 \in Year, \A k \in 0..Chunks : Resumed(k) \subseteq Files,
             Download \/ Interrupted
      PROVE  StoreTypeOK' /\ ImportersTyped'
  <2>1. Chunks \in Nat /\ (Chunks - 1) \in Nat
    BY ImportersAssumption
  <2>2. tse' \in TseState /\ tse'.todo # {}
    <3>1. CASE Download
      <4>1. tse' = [tse EXCEPT !.pc = "rename", !.attempt = 0]
        BY <3>1 DEF Download
      <4>2. 0 \in 0..Attempts /\ tse \in TseState /\ tse.todo # {}
        BY <1>1, <1>8
      <4> QED
        BY <4>1, <4>2 DEF TseState
    <3>2. CASE Interrupted
      <4>1. tse' = [tse EXCEPT !.attempt = @ + 1] /\ tse.attempt < Attempts
        BY <3>2 DEF Interrupted
      <4>2. tse.attempt \in 0..Attempts
        BY <1>1 DEF TseState
      <4>3. tse.attempt + 1 \in 0..Attempts
        BY <4>1, <4>2, <1>1
      <4> QED
        BY <4>1, <4>3, <1>1, <1>8 DEF TseState
    <3> QED
      BY <3>1, <3>2, <1>8
  <2>3. part' \in [Year -> Files]
    BY <1>1, <1>8, <2>1 DEF Download, Interrupted
  <2>4. faults' \in 0..MaxFaults
    BY <1>1, <1>3, <1>8 DEF Download, Interrupted
  <2> QED
    BY <1>1, <1>4, <1>5, <1>8, <2>2, <2>3, <2>4 DEF Download, Interrupted, houses, world
<1>9. ASSUME tse.pc # "idle", tse.todo # {}, y0 \in Year, Rename \/ GiveUp
      PROVE  StoreTypeOK' /\ ImportersTyped'
  <2>1. tse' \in TseState /\ (tse'.pc # "idle" => tse'.todo # {}) /\ log' = log
    BY <1>1, <1>2, <1>9 DEF Rename, GiveUp, MarkFailed, TseState
  <2>2. part' \in [Year -> Files] /\ zip' \in [Year -> Files]
    BY <1>1, <1>2, <1>9 DEF Rename, GiveUp
  <2> QED
    BY <1>1, <1>4, <1>5, <1>9, <2>1, <2>2 DEF Rename, GiveUp, houses, world
<1>10. ASSUME tse.pc # "idle", tse.todo # {}, y0 \in Year, Import
       PROVE  StoreTypeOK' /\ ImportersTyped'
  <2>1. PICK b \in BOOLEAN : tse' = [tse EXCEPT !.pc = "upsert", !.records = BuildResult(y0, b)]
    <3> DEFINE Built(b) == [tse EXCEPT !.pc = "upsert", !.records = BuildResult(y0, b)]
               shown == y0 \in Photographed
    <3>1. tse' = Built(shown) \/ tse' = Built(FALSE)
      BY <1>10 DEF Import
    <3>2. shown \in BOOLEAN
      OBVIOUS
    <3> HIDE DEF shown, Built
    <3>3. \E b \in BOOLEAN : tse' = Built(b)
      BY <3>1, <3>2
    <3> QED
      BY <3>3 DEF Built
  <2>2. BuildResult(y0, b) \subseteq Record
    BY <1>10, WinnersTyped
  <2>3. tse' \in TseState /\ tse'.todo # {}
    BY <1>1, <1>10, <2>1, <2>2 DEF TseState
  <2>4. faults' \in 0..MaxFaults /\ zip' \in [Year -> Files]
    BY <1>1, <1>2, <1>3, <1>10 DEF Import
  <2> QED
    BY <1>1, <1>4, <1>5, <1>10, <2>3, <2>4 DEF Import, houses, world
<1>11. ASSUME tse.pc # "idle", tse.todo # {}, y0 \in Year, UpsertBatch
       PROVE  StoreTypeOK' /\ ImportersTyped'
  <2>1. PICK B \in Batches(tse.records) : UpsertPoliticiansFromTSE(B, y0) /\ tse' = [tse EXCEPT !.records = @ \ B]
    BY <1>11 DEF UpsertBatch
  <2>2. tse' \in TseState /\ tse'.todo # {}
    BY <1>1, <1>11, <2>1 DEF TseState
  <2>3. B \subseteq Record
    BY <1>1, <2>1 DEF Batches, TseState
  <2>4. StoreTypeOK'
    BY <1>11, <2>1, <2>3, StatementsTyped
  <2> QED
    BY <1>1, <1>4, <1>11, <2>2, <2>4 DEF UpsertBatch, houses, world
<1>12. ASSUME ImportFails \/ UpsertFails \/ TseDies
       PROVE  StoreTypeOK' /\ ImportersTyped'
  BY <1>1, <1>2, <1>3, <1>4, <1>5, <1>12
  DEF ImportFails, UpsertFails, TseDies, MarkFailed, houses, world
<1>13. tse.pc # "idle" => /\ tse.todo # {} /\ y0 \in Year /\ NextYear \in TseState
                          /\ NextYear.pc # "idle" => NextYear.todo # {}
                          /\ \A k \in 0..Chunks : Resumed(k) \subseteq Files
  BY YearInHand, NextYearTyped, ResumedTyped DEF ImportersTyped
<1>14. (\E ys \in YearRanges : TseBegin(ys)) \/ tse.pc # "idle"
  BY DEF TseStep, SkipYear, StartYear, Download, Rename, Interrupted, GiveUp, Import, ImportFails,
     UpsertBatch, LogSuccess, UpsertFails, TseDies
<1>15. CASE tse.pc # "idle" /\ ~(\E ys \in YearRanges : TseBegin(ys))
  BY <1>7, <1>8, <1>9, <1>10, <1>11, <1>12, <1>13, <1>15 DEF TseStep
<1> QED
  BY <1>6, <1>14, <1>15

\* The steps of the Chamber and of the Senate sync, and of the world, keep the types.
LEMMA HousesTyped ==
  ASSUME StoreTypeOK, ImportersTyped,
         Republish \/ Swap \/ CamBegin \/ CamStep \/ CamFails \/ SenBegin \/ SenStep \/ SenFails
  PROVE  StoreTypeOK' /\ ImportersTyped'
<1>1. /\ cam \in CamState /\ sen \in SenState /\ seats \in Listings /\ seats \in Seq(Deputy)
      /\ version \in Nat /\ faults \in 0..MaxFaults /\ MaxFaults \in Nat /\ Items \in Nat /\ Items > 0
      /\ SenateList \subseteq Senator
  BY ImportersAssumption DEF ImportersTyped
<1>2. NoCam \in CamState /\ NoCam.pc = "idle" /\ NoSen \in SenState
  BY Initial DEF NoCam
<1>3. Fault => faults' \in 0..MaxFaults
  BY <1>1 DEF Fault
<1>4. ASSUME cam' \in CamState, cam'.pc = "detail" => cam'.listed # <<>>, sen' \in SenState,
             seats' \in Listings, version' \in Nat, faults' \in 0..MaxFaults,
             UNCHANGED tseVars, StoreTypeOK'
      PROVE  StoreTypeOK' /\ ImportersTyped'
  BY <1>4 DEF ImportersTyped, tseVars
<1>5. UNCHANGED <<pol, photo>> => StoreTypeOK'
  BY DEF StoreTypeOK
<1>6. CASE Republish \/ Swap
  BY <1>6, <1>1, <1>4, <1>5 DEF Republish, Swap, houses, ImportersTyped
<1>7. CASE CamBegin \/ CamEnd \/ CamFails
  <2>1. cam' \in CamState /\ cam'.pc # "detail"
    BY <1>7, <1>2 DEF CamBegin, CamEnd, CamFails, CamState
  <2> QED
    BY <1>7, <2>1, <1>1, <1>3, <1>4, <1>5 DEF CamBegin, CamEnd, CamFails, world
<1>8. CASE CamPage
  <2> DEFINE from == cam.page * Items + 1
             to == IF from + Items - 1 < Len(seats) THEN from + Items - 1 ELSE Len(seats)
             page == SubSeq(seats, from, to)
  <2>1. cam.page \in Nat /\ cam.page + 1 \in Nat
    BY <1>1 DEF CamState
  <2>2. from \in Nat \ {0} /\ to \in Int /\ to <= Len(seats)
    BY <1>1, <2>1
  <2> HIDE DEF from, to
  <2>3. page \in Seq(Deputy)
    BY <1>1, <2>2, PageTyped
  <2>4. cam' = IF page = <<>> THEN [cam EXCEPT !.pc = "upsert"]
               ELSE [cam EXCEPT !.pc = "detail", !.listed = page, !.page = @ + 1,
                                !.full = ~LastPage(Len(page))]
    BY <1>8 DEF CamPage, from, to
  <2>5. (~LastPage(Len(page))) \in BOOLEAN
    <3>1. Len(page) \in Nat
      BY <2>3
    <3>2. LastPage(Len(page)) \in BOOLEAN
      BY <3>1, <1>1 DEF LastPage
    <3> QED
      BY <3>2
  <2> HIDE DEF page
  <2>6. cam' \in CamState /\ (cam'.pc = "detail" => cam'.listed # <<>>)
    BY <1>1, <2>1, <2>3, <2>4, <2>5 DEF CamState
  <2>7. UNCHANGED <<pol, photo, tseVars, sen, world, faults>>
    BY <1>8 DEF CamPage
  <2> QED
    BY <2>6, <2>7, <1>1, <1>4, <1>5 DEF world
<1>9. CASE CamDetail
  <2> DEFINE d == Head(cam.listed)
             kept == IF d.cpf # NoCpf /\ \E i \in DOMAIN seats : seats[i] = d
                     THEN cam.records \cup {[cpf |-> d.cpf, name |-> d.name, uf |-> d.uf, photo |-> d.photo]}
                     ELSE cam.records
             pc2 == IF Len(cam.listed) > 1 THEN "detail" ELSE IF cam.full THEN "page" ELSE "upsert"
             rest == Tail(cam.listed)
  <2>1. /\ cam.listed \in Seq(Deputy) /\ cam.listed # <<>> /\ cam.records \subseteq Record
    BY <1>9, <1>1 DEF CamDetail, CamState, ImportersTyped
  <2>2. /\ d \in Deputy /\ rest \in Seq(Deputy) /\ Len(rest) = Len(cam.listed) - 1
        /\ Len(cam.listed) \in Nat
    BY <2>1, HeadTailProperties
  <2>3. kept \subseteq Record
    BY <2>1, <2>2 DEF Deputy, Record
  <2>4. /\ pc2 \in {"idle", "page", "detail", "upsert"}
        /\ pc2 = "detail" => rest # <<>>
    <3> HIDE DEF rest, d, kept
    <3>1. Len(cam.listed) > 1 => Len(rest) # 0
      <4>1. Len(rest) = Len(cam.listed) - 1 /\ Len(cam.listed) \in Nat
        BY <2>2
      <4>2. \A n \in Nat : n > 1 => n - 1 # 0
        OBVIOUS
      <4> HIDE DEF pc2
      <4> QED
        BY <4>1, <4>2
    <3>2. rest = <<>> => Len(rest) = 0
      OBVIOUS
    <3> QED
      BY <3>1, <3>2
  <2>5. cam' = [cam EXCEPT !.listed = rest, !.records = kept, !.pc = pc2]
    BY <1>9 DEF CamDetail
  <2> HIDE DEF d, kept, pc2, rest
  <2>6. cam' \in CamState /\ (cam'.pc = "detail" => cam'.listed # <<>>)
    BY <1>1, <2>2, <2>3, <2>4, <2>5 DEF CamState
  <2>7. UNCHANGED <<pol, photo, tseVars, sen, world, faults>>
    BY <1>9 DEF CamDetail
  <2> QED
    BY <2>6, <2>7, <1>1, <1>4, <1>5 DEF world
<1>10. CASE CamUpsert
  <2>1. PICK B \in Batches(cam.records) : UpsertPoliticiansFromCamara(B) /\ cam' = [cam EXCEPT !.records = @ \ B]
    BY <1>10 DEF CamUpsert
  <2>2. B \subseteq cam.records /\ cam.records \subseteq Record
    BY <1>1, <2>1 DEF Batches, CamState
  <2>3. StoreTypeOK'
    BY <2>1, <2>2, StatementsTyped
  <2>4. cam' \in CamState /\ cam'.pc = "upsert"
    BY <1>1, <1>10, <2>1 DEF CamUpsert, CamState
  <2>5. UNCHANGED <<tseVars, sen, world, faults>>
    BY <1>10 DEF CamUpsert
  <2> QED
    BY <2>3, <2>4, <2>5, <1>1, <1>4 DEF world
<1>11. CASE SenBegin \/ SenEnd \/ SenFails
  <2>1. sen' \in SenState
    BY <1>11, <1>1, <1>2 DEF SenBegin, SenEnd, SenFails, SenState
  <2>2. UNCHANGED <<cam, pol, photo, tseVars, world>> /\ faults' \in 0..MaxFaults
    BY <1>11, <1>1, <1>3 DEF SenBegin, SenEnd, SenFails
  <2> QED
    BY <2>1, <2>2, <1>1, <1>4, <1>5 DEF world, ImportersTyped
<1>12. CASE SenUpsert
  <2>1. PICK B \in Batches(sen.records) : UpsertPoliticiansFromSenado(B) /\ sen' = [sen EXCEPT !.records = @ \ B]
    BY <1>12 DEF SenUpsert
  <2>2. B \subseteq Senator
    BY <1>1, <2>1 DEF Batches, SenState
  <2>3. StoreTypeOK'
    BY <2>1, <2>2, StatementsTyped
  <2>4. sen' \in SenState
    BY <1>1, <2>1 DEF SenState
  <2>5. UNCHANGED <<tseVars, cam, world, faults>>
    BY <1>12 DEF SenUpsert
  <2> QED
    BY <2>3, <2>4, <2>5, <1>1, <1>4 DEF world, ImportersTyped
<1> QED
  BY <1>6, <1>7, <1>8, <1>9, <1>10, <1>11, <1>12 DEF CamStep, SenStep

\* What a lookup finds are subjects.
LEMMA FoundTyped ==
  ASSUME NEW x, ph.mode = "tse" => ph.year \in Year
  PROVE  Found(x) \subseteq Subject
<1>1. \A y, sq : y \in Year => Behind(y, sq) \subseteq Cpf
  <2> SUFFICES ASSUME NEW y \in Year, NEW sq, NEW c \in Behind(y, sq) PROVE c \in Cpf
    OBVIOUS
  <2>1. PICK i \in DOMAIN File[y] : c = File[y][i].cpf /\ c # NoCpf
    BY DEF Behind
  <2>2. File[y][i] \in Row
    BY <2>1, ImportersAssumption
  <2> QED
    BY <2>1, <2>2 DEF Row
<1> QED
  BY <1>1, PhotosAssumption DEF Found, Subject

\* The steps of the photos worker keep the types.
LEMMA WorkerTyped ==
  ASSUME PhotosTyped, (\E y \in PhotoYears : PhotosBegin(y)) \/ PhotosStep \/ PhotosFail
  PROVE  /\ StoreTypeOK' /\ ImportersTyped' /\ ph' \in RunState
         /\ ph'.mode = "tse" /\ ph'.pc # "idle" => ph'.year \in Year
<1>1. /\ ph \in RunState /\ StoreTypeOK /\ ImportersTyped /\ PhotoYears \subseteq Year
      /\ ph.mode = "tse" /\ ph.pc # "idle" => ph.year \in Year
  BY PhotosAssumption DEF PhotosTyped
<1>2. NoRun \in RunState /\ NoRun.mode = "tse" /\ NoRun.pc = "idle"
  BY Initial DEF NoRun
<1>3. UNCHANGED importers => ImportersTyped'
  BY <1>1 DEF ImportersTyped, importers, tseVars, houses, world
<1>4. UNCHANGED <<pol, photo>> => StoreTypeOK'
  BY <1>1 DEF StoreTypeOK
<1>5. ASSUME NEW y \in PhotoYears, PhotosBegin(y)
      PROVE  /\ StoreTypeOK' /\ ImportersTyped' /\ ph' \in RunState
             /\ ph'.mode = "tse" /\ ph'.pc # "idle" => ph'.year \in Year
  <2>1. y \in Year /\ ph' = [NoRun EXCEPT !.pc = "list", !.year = y]
    BY <1>1, <1>5 DEF PhotosBegin
  <2>2. ph' \in RunState /\ ph'.year \in Year
    BY <1>2, <2>1 DEF RunState
  <2> QED
    BY <1>3, <1>4, <1>5, <2>2 DEF PhotosBegin
<1>6. CASE PhotosList
  <2>1. Targets \subseteq Subject
    BY DEF Targets, ListOrganizationsNeedingPhoto, ListPoliticiansNeedingPhoto, Subject
  <2>2. ph' = [ph EXCEPT !.pc = "next", !.targets = Targets] /\ ph.pc = "list"
    BY <1>6 DEF PhotosList
  <2>3. ph' \in RunState /\ (ph'.mode = "tse" => ph'.year \in Year)
    BY <1>1, <2>1, <2>2 DEF RunState
  <2> QED
    BY <1>3, <1>4, <1>6, <2>3 DEF PhotosList
<1>7. CASE PhotosLookup
  <2>1. PICK x \in ph.targets :
          \/ ph' = [ph EXCEPT !.targets = @ \ {x}]
          \/ \E face \in Found(x) :
               ph' = [ph EXCEPT !.pc = "set", !.targets = @ \ {x}, !.at = {x}, !.of = {face}]
    BY <1>7 DEF PhotosLookup
  <2>2. ph.pc = "next"
    BY <1>7 DEF PhotosLookup
  <2>3. x \in Subject /\ Found(x) \subseteq Subject
    BY <1>1, <2>2, FoundTyped DEF RunState
  <2>4. ph' \in RunState /\ ph'.mode = ph.mode /\ ph'.year = ph.year
    <3>1. CASE ph' = [ph EXCEPT !.targets = @ \ {x}]
      BY <1>1, <3>1 DEF RunState
    <3>2. ASSUME NEW face \in Found(x),
                 ph' = [ph EXCEPT !.pc = "set", !.targets = @ \ {x}, !.at = {x}, !.of = {face}]
          PROVE  ph' \in RunState /\ ph'.mode = ph.mode /\ ph'.year = ph.year
      <4>1. {x} \subseteq Subject /\ {face} \subseteq Subject
        BY <2>3
      <4> QED
        BY <1>1, <3>2, <4>1 DEF RunState
    <3> QED
      BY <2>1, <3>1, <3>2
  <2> QED
    BY <1>1, <1>3, <1>4, <1>7, <2>2, <2>4 DEF PhotosLookup
<1>8. CASE PhotosSet
  <2>1. PICK x \in ph.at : SetPhoto(x, IF ph.mode = "tse" THEN "tse_year" ELSE "commons", ph.of)
    BY <1>8 DEF PhotosSet
  <2> DEFINE src == IF ph.mode = "tse" THEN "tse_year" ELSE "commons"
  <2>2. src \in {"tse_year", "commons"} /\ x \in Subject /\ ph.of \subseteq Subject
    BY <1>1 DEF RunState
  <2>3. SetPhoto(x, src, ph.of)
    BY <2>1
  <2> HIDE DEF src
  <2>4. photo' \in [Subject -> Photo]
    <3>1. photo \in [Subject -> Photo]
      BY <1>1 DEF StoreTypeOK
    <3>2. [photo[x] EXCEPT !.src = src, !.of = ph.of] \in Photo
      <4>1. \A p \in Photo, of \in SUBSET Subject : [p EXCEPT !.src = "tse_year", !.of = of] \in Photo
        BY DEF Photo
      <4>2. \A p \in Photo, of \in SUBSET Subject : [p EXCEPT !.src = "commons", !.of = of] \in Photo
        BY DEF Photo
      <4>3. photo[x] \in Photo
        BY <2>2, <3>1
      <4> QED
        BY <4>1, <4>2, <4>3, <2>2
    <3>3. photo' = photo \/ photo' = [photo EXCEPT ![x] = [photo[x] EXCEPT !.src = src, !.of = ph.of]]
      BY <2>2, <2>3, <3>1 DEF SetPhoto
    <3> QED
      BY <3>1, <3>2, <3>3
  <2>5. ph.pc = "set" /\ ph' = [ph EXCEPT !.pc = "next", !.at = {}, !.of = {}]
    BY <1>8 DEF PhotosSet
  <2>6. ph' \in RunState /\ (ph'.mode = "tse" => ph'.year \in Year)
    BY <1>1, <2>5 DEF RunState
  <2> QED
    BY <1>1, <1>3, <1>8, <2>4, <2>6 DEF PhotosSet, StoreTypeOK
<1>9. CASE PhotosNextMode
  <2>1. CASE ph.mode = "tse"
    <3>1. ph' = [ph EXCEPT !.pc = "list", !.mode = "orgs"]
      BY <1>9, <2>1 DEF PhotosNextMode
    <3> QED
      BY <1>1, <1>3, <1>4, <1>9, <3>1 DEF PhotosNextMode, RunState
  <2>2. CASE ph.mode = "orgs"
    <3>1. ph' = [ph EXCEPT !.pc = "list", !.mode = "politicians"]
      BY <1>9, <2>2 DEF PhotosNextMode
    <3> QED
      BY <1>1, <1>3, <1>4, <1>9, <3>1 DEF PhotosNextMode, RunState
  <2>3. CASE ph.mode = "politicians"
    <3>1. ph' = NoRun
      BY <1>9, <2>3 DEF PhotosNextMode
    <3> QED
      BY <1>2, <1>3, <1>4, <1>9, <3>1 DEF PhotosNextMode
  <2> QED
    BY <1>1, <2>1, <2>2, <2>3 DEF RunState
<1>10. CASE PhotosFail
  <2>1. faults' \in 0..MaxFaults
    BY <1>1, <1>10, ImportersAssumption DEF PhotosFail, Fault, ImportersTyped
  <2>2. ImportersTyped'
    BY <1>1, <1>10, <2>1 DEF PhotosFail, ImportersTyped, tseVars, houses, world
  <2> QED
    BY <1>2, <1>4, <1>10, <2>2 DEF PhotosFail
<1> QED
  BY <1>5, <1>6, <1>7, <1>8, <1>9, <1>10 DEF PhotosStep

\* What is offered is of the year in hand, to whom the batch has.
LEMMA OfferedTyped ==
  ASSUME ImportersTyped
  PROVE  Offered \subseteq Cpf \X Year
<1>1. tse.pc = "upsert" => y0 \in Year
  BY YearInHand
<1>2. tse.records \subseteq Record
  BY DEF ImportersTyped, TseState
<1> QED
  BY <1>1, <1>2 DEF Offered, Record

\* Every step keeps the types.
LEMMA PhotosTypedStep ==
  ASSUME PhotosTyped, [Next]_vars
  PROVE  PhotosTyped'
<1>1. CASE Importing(ImportersNext)
  <2>1. StoreTypeOK' /\ ImportersTyped'
    BY <1>1, TseTyped, HousesTyped DEF Importing, ImportersNext, PhotosTyped
  <2>2. ph' = ph /\ offered' \subseteq Cpf \X Year
    BY <1>1, OfferedTyped DEF Importing, PhotosTyped
  <2> QED
    BY <2>1, <2>2 DEF PhotosTyped
<1>2. CASE (\E y \in PhotoYears : Showing(PhotosBegin(y))) \/ Showing(PhotosStep) \/ Showing(PhotosFail)
  BY <1>2, WorkerTyped DEF Showing, PhotosTyped
<1>3. CASE UNCHANGED vars
  BY <1>3 DEF vars, importers, tseVars, houses, world, PhotosTyped, StoreTypeOK, ImportersTyped
<1> QED
  BY <1>1, <1>2, <1>3 DEF Next

-------------------------------------------------------------------------------
(* Who writes what.                                                        *)

\* Four statements write the politicians and the photos; the other steps leave them.
LEMMA Writes ==
  ASSUME [Next]_vars
  PROVE  \/ UpsertBatch /\ offered' = offered \cup Offered
         \/ CamUpsert /\ UNCHANGED offered
         \/ SenUpsert /\ UNCHANGED offered
         \/ PhotosSet /\ UNCHANGED offered
         \/ UNCHANGED <<pol, photo, offered>>
<1>1. tse' = tse \/ tse.pc # "upsert" \/ tse'.pc # "upsert" => Offered = {}
  BY DEF Offered
<1>2. CASE Importing(ImportersNext)
  <2>1. offered' = offered \cup Offered
    BY <1>2 DEF Importing
  <2>2. CASE \/ \E ys \in YearRanges : TseBegin(ys)
             \/ SkipYear \/ StartYear \/ Download \/ Rename \/ Interrupted \/ GiveUp \/ Import
             \/ ImportFails
    <3>1. UNCHANGED <<pol, photo>> /\ tse.pc # "upsert"
      BY <2>2 DEF TseBegin, SkipYear, StartYear, Download, Rename, Interrupted, GiveUp, Import, ImportFails
    <3> QED
      BY <3>1, <2>1, <1>1
  <2>3. CASE LogSuccess \/ UpsertFails \/ TseDies
    <3>1. UNCHANGED <<pol, photo>> /\ tse'.pc # "upsert"
      <4>1. NextYear.pc # "upsert" /\ NoTse.pc # "upsert"
        BY DEF NextYear, NoTse
      <4> QED
        BY <2>3, <4>1 DEF LogSuccess, UpsertFails, TseDies, MarkFailed
    <3> QED
      BY <3>1, <2>1, <1>1
  <2>4. CASE \/ Republish \/ Swap \/ CamBegin \/ CamPage \/ CamDetail \/ CamEnd \/ CamFails
             \/ SenBegin \/ SenEnd \/ SenFails
    <3>1. UNCHANGED <<pol, photo, tse>>
      BY <2>4 DEF Republish, Swap, CamBegin, CamPage, CamDetail, CamEnd, CamFails,
                  SenBegin, SenEnd, SenFails, tseVars
    <3> QED
      BY <3>1, <2>1, <1>1
  <2>5. CASE CamUpsert \/ SenUpsert
    <3>1. tse' = tse
      BY <2>5 DEF CamUpsert, SenUpsert, tseVars
    <3> QED
      BY <3>1, <2>1, <2>5, <1>1
  <2>6. CASE UpsertBatch
    BY <2>6, <2>1
  <2> QED
    BY <1>2, <2>2, <2>3, <2>4, <2>5, <2>6 DEF Importing, ImportersNext, TseStep, CamStep, SenStep
<1>3. CASE (\E y \in PhotoYears : Showing(PhotosBegin(y))) \/ Showing(PhotosStep) \/ Showing(PhotosFail)
  BY <1>3 DEF Showing, PhotosBegin, PhotosStep, PhotosList, PhotosLookup, PhotosNextMode, PhotosFail
<1>4. CASE UNCHANGED vars
  BY <1>4 DEF vars
<1> QED
  BY <1>2, <1>3, <1>4 DEF Next

\* Nobody is forgotten.
LEMMA Recorded ==
  ASSUME PhotosTyped, [Next]_vars, NEW c \in Cpf
  PROVE  pol[c].known => pol'[c].known
<1>1. pol[c] \in Politician
  BY DEF PhotosTyped, StoreTypeOK
<1>2. ASSUME NEW B, UpsertPoliticiansFromTSE(B, y0)
      PROVE  pol[c].known => pol'[c].known
  BY <1>1, <1>2 DEF UpsertPoliticiansFromTSE, Politician
<1>3. ASSUME NEW B, UpsertPoliticiansFromCamara(B)
      PROVE  pol[c].known => pol'[c].known
  BY <1>1, <1>3 DEF UpsertPoliticiansFromCamara
<1>4. ASSUME NEW B, UpsertPoliticiansFromSenado(B)
      PROVE  pol[c].known => pol'[c].known
  <2> DEFINE S == Senators(B)
  <2>1. pol'[c] = IF c \in S THEN [pol[c] EXCEPT !.active = TRUE] ELSE pol[c]
    BY <1>4 DEF UpsertPoliticiansFromSenado
  <2> HIDE DEF S
  <2> QED
    BY <1>1, <2>1 DEF Politician
<1>5. CASE PhotosSet \/ UNCHANGED <<pol, photo, offered>>
  BY <1>5 DEF PhotosSet
<1> QED
  BY <1>2, <1>3, <1>4, <1>5, Writes DEF UpsertBatch, CamUpsert, SenUpsert

\* Whose record is written is in the graph.
LEMMA BatchRecorded ==
  ASSUME PhotosTyped, NEW B, UpsertPoliticiansFromTSE(B, y0), NEW r \in B, r.cpf \in Cpf
  PROVE  pol'[r.cpf].known
<1> DEFINE At(c) == {q \in B : q.cpf = c}
           one(c) == CHOOSE q \in At(c) : TRUE
<1>1. pol[r.cpf] \in Politician
  BY DEF PhotosTyped, StoreTypeOK
<1>2. pol'[r.cpf] = IF At(r.cpf) = {} THEN pol[r.cpf]
                    ELSE [pol[r.cpf] EXCEPT !.known = TRUE, !.name = one(r.cpf).name, !.state = one(r.cpf).uf]
  BY DEF UpsertPoliticiansFromTSE
<1>3. At(r.cpf) # {}
  OBVIOUS
<1> HIDE DEF At, one
<1> QED
  BY <1>1, <1>2, <1>3 DEF Politician

\* What a photo can become, and what the importer offered meanwhile.
Stays(c) ==
  /\ photo'[c] = photo[c]
  /\ \A y \in Year : <<c, y>> \in offered' => <<c, y>> \in offered \/ ~TakePhoto(photo[c], y)
Taken(c, y) ==
  /\ TakePhoto(photo[c], y) /\ photo'[c] = [src |-> "tse", year |-> y, of |-> {c}]
  /\ <<c, y>> \in offered'
  /\ \A z \in Year : <<c, z>> \in offered' => <<c, z>> \in offered \/ z = y
Pictured(c) ==
  \/ Stays(c)
  \/ \E y \in Year : Taken(c, y)
  \/ photo'[c].src \in {"camara", "senado"}
  \/ photo[c].src = "none" /\ photo'[c].src \in {"tse_year", "commons"}

\* Where the photo of a politician can come from in a step.
LEMMA PicturedStep ==
  ASSUME PhotosTyped, [Next]_vars, NEW c \in Cpf
  PROVE  Pictured(c)
<1>1. photo \in [Subject -> Photo] /\ c \in Subject /\ photo[c] \in Photo
  BY DEF PhotosTyped, StoreTypeOK, Subject
<1>2. CASE UpsertBatch /\ offered' = offered \cup Offered
  <2>1. PICK B \in Batches(tse.records) : UpsertPoliticiansFromTSE(B, y0) /\ tse' = [tse EXCEPT !.records = @ \ B]
    BY <1>2 DEF UpsertBatch
  <2>2. tse \in TseState /\ tse.pc = "upsert" /\ y0 \in Year
    BY <1>2, YearInHand DEF UpsertBatch, PhotosTyped, ImportersTyped
  <2>3. B \subseteq tse.records /\ tse'.records = tse.records \ B /\ tse'.pc = "upsert"
    BY <2>1, <2>2 DEF Batches, TseState
  <2> DEFINE sees == \E r \in B : r.cpf = c /\ r.photo
  <2>4. Offered = {<<r.cpf, y0>> : r \in {r \in B : r.photo}}
    <3>1. tse.records \ tse'.records = B
      BY <2>3
    <3> QED
      BY <2>2, <2>3, <3>1 DEF Offered
  <2>5. \A y \in Year : <<c, y>> \in Offered <=> sees /\ y = y0
    BY <2>4
  <2>6. photo'[c] = IF sees /\ TakePhoto(photo[c], y0)
                    THEN [src |-> "tse", year |-> y0, of |-> {c}] ELSE photo[c]
    BY <2>1, <1>1 DEF UpsertPoliticiansFromTSE
  <2> HIDE DEF sees
  <2> QED
    BY <1>2, <2>2, <2>5, <2>6 DEF Pictured, Stays, Taken
<1>3. CASE CamUpsert /\ UNCHANGED offered
  <2>1. PICK B : UpsertPoliticiansFromCamara(B)
    BY <1>3 DEF CamUpsert
  <2> DEFINE sees == \E r \in B : r.cpf = c /\ r.photo
  <2>2. photo'[c] = IF sees THEN [photo[c] EXCEPT !.src = "camara", !.of = {c}] ELSE photo[c]
    BY <2>1, <1>1 DEF UpsertPoliticiansFromCamara
  <2> HIDE DEF sees
  <2> QED
    BY <1>1, <1>3, <2>2 DEF Pictured, Stays, Taken, Photo
<1>4. CASE SenUpsert /\ UNCHANGED offered
  <2>1. PICK B : UpsertPoliticiansFromSenado(B)
    BY <1>4 DEF SenUpsert
  <2> DEFINE sees == c \in Senators({r \in B : r.photo})
  <2>2. photo'[c] = IF sees THEN [photo[c] EXCEPT !.src = "senado", !.of = {c}] ELSE photo[c]
    BY <2>1, <1>1 DEF UpsertPoliticiansFromSenado
  <2> HIDE DEF sees
  <2> QED
    BY <1>1, <1>4, <2>2 DEF Pictured, Stays, Taken, Photo
<1>5. CASE PhotosSet /\ UNCHANGED offered
  <2>1. PICK x \in ph.at : SetPhoto(x, IF ph.mode = "tse" THEN "tse_year" ELSE "commons", ph.of)
    BY <1>5 DEF PhotosSet
  <2> DEFINE src == IF ph.mode = "tse" THEN "tse_year" ELSE "commons"
  <2>3. SetPhoto(x, src, ph.of)
    BY <2>1
  <2>4. src \in {"tse_year", "commons"}
    OBVIOUS
  <2> HIDE DEF src
  <2>5. CASE x # c
    <3>1. photo'[c] = photo[c]
      BY <2>3, <2>5, <1>1 DEF SetPhoto
    <3> QED
      BY <3>1, <1>5 DEF Pictured, Stays, Taken
  <2>6. CASE x = c
    <3>1. \/ photo'[c] = photo[c]
          \/ photo[c].src = "none" /\ photo'[c] = [photo[c] EXCEPT !.src = src, !.of = ph.of]
      BY <2>3, <2>6, <1>1 DEF SetPhoto
    <3>2. photo'[c] = photo[c] \/ (photo[c].src = "none" /\ photo'[c].src = src)
      BY <3>1, <1>1 DEF Photo
    <3> QED
      BY <3>2, <2>4, <1>5 DEF Pictured, Stays, Taken
  <2> QED
    BY <2>5, <2>6
<1>6. CASE UNCHANGED <<pol, photo, offered>>
  BY <1>6 DEF Pictured, Stays, Taken
<1> QED
  BY <1>2, <1>3, <1>4, <1>5, <1>6, Writes

-------------------------------------------------------------------------------
(* What is logged is imported.                                             *)

\* Of the elected rows of a key one wins, and it has the key's CPF (keepLatestTurn,
\* buildResult).
LEMMA EveryoneWins ==
  ASSUME NEW y \in Year, NEW b \in BOOLEAN, NEW i \in DOMAIN File[y],
         Scanned(File[y][i]), File[y][i].cpf # NoCpf
  PROVE  \E r \in BuildResult(y, b) : r.cpf = File[y][i].cpf
<1> DEFINE S == {j \in DOMAIN File[y] : Scanned(File[y][j])}
           K == {j \in S : candidateKey(File[y][j]) = candidateKey(File[y][i])}
           F(t) == {j \in K : File[y][j].turn = t}
           t0 == IF F(2) = {} THEN 1 ELSE 2
<1>1. File[y] \in Seq(Row) /\ S \subseteq DOMAIN File[y] /\ i \in K
  BY ImportersAssumption
<1>2. DOMAIN File[y] \in SUBSET Nat /\ \A j \in DOMAIN File[y] : File[y][j] \in Row
  BY <1>1
<1>3. \A j \in K : File[y][j].turn \in {1, 2}
  BY <1>2 DEF Row
<1>4. F(t0) \in SUBSET Nat /\ F(t0) # {} /\ \A j \in K : File[y][j].turn <= t0
  <2>1. F(2) = {} => i \in F(1) /\ \A j \in K : File[y][j].turn = 1
    BY <1>1, <1>3
  <2>2. F(1) \subseteq Nat /\ F(2) \subseteq Nat
    BY <1>2
  <2> HIDE DEF F
  <2>3. F(t0) \subseteq Nat /\ F(t0) # {}
    BY <2>1, <2>2
  <2>4. \A j \in K : File[y][j].turn <= t0
    BY <1>3, <2>1
  <2> QED
    BY <2>3, <2>4
<1>5. t0 \in {1, 2}
  OBVIOUS
<1> HIDE DEF t0
<1>6. PICK w \in F(t0) : \A j \in F(t0) : w <= j
  BY <1>4, LeastIn
<1>7. w \in K /\ File[y][w].turn = t0 /\ w \in S
  BY <1>6
<1>8. ASSUME NEW j \in S \ {w}, candidateKey(File[y][j]) = candidateKey(File[y][w])
      PROVE  \/ File[y][w].turn > File[y][j].turn
             \/ File[y][w].turn = File[y][j].turn /\ w < j
  <2>1. j \in K /\ File[y][j].turn \in {1, 2} /\ File[y][j].turn <= t0
    BY <1>3, <1>4, <1>7, <1>8
  <2>2. CASE File[y][j].turn = t0
    <3>1. j \in F(t0)
      BY <2>1, <2>2
    <3>2. w <= j /\ w # j /\ w \in Nat /\ j \in Nat
      BY <3>1, <1>2, <1>6, <1>8
    <3> QED
      BY <3>2, <2>2, <1>7
  <2>3. CASE File[y][j].turn # t0
    BY <2>1, <2>3, <1>5, <1>7
  <2> QED
    BY <2>2, <2>3
<1>9. File[y][w] \in Winners(File[y])
  BY <1>7, <1>8 DEF Winners
<1>10. File[y][w].cpf = File[y][i].cpf
  BY <1>1, <1>7, ImportersAssumption DEF candidateKey
<1> DEFINE r == [cpf |-> File[y][w].cpf, name |-> File[y][w].name, uf |-> File[y][w].uf, photo |-> b]
<1>11. r \in BuildResult(y, b)
  BY <1>9, <1>10 DEF BuildResult
<1> QED
  BY <1>10, <1>11

\* A year comes to be written, or logged, by one step of the importer each.
LEMMA YearSteps ==
  ASSUME PhotosTyped, [Next]_vars
  PROVE  /\ tse'.pc = "upsert" => Import \/ UpsertBatch \/ tse' = tse
         /\ log' = log \/ LogSuccess
<1>1. NextYear.pc # "upsert" /\ NoTse.pc # "upsert"
  BY DEF NextYear, NoTse
<1>2. ASSUME NEW ys, TseBegin(ys)
      PROVE  tse'.pc # "upsert" /\ log' = log
  BY <1>2 DEF TseBegin, NoTse
<1>3. CASE SkipYear \/ StartYear \/ Download \/ Rename \/ Interrupted \/ GiveUp \/ ImportFails
           \/ UpsertFails \/ TseDies
  <2>1. log' = log
    BY <1>3 DEF SkipYear, StartYear, Download, Rename, Interrupted, GiveUp, ImportFails, UpsertFails,
                TseDies, MarkFailed
  <2>2. CASE SkipYear \/ GiveUp \/ ImportFails \/ UpsertFails \/ TseDies
    BY <2>1, <2>2, <1>1 DEF SkipYear, GiveUp, ImportFails, UpsertFails, TseDies, MarkFailed
  <2>3. CASE StartYear \/ Download \/ Rename
    <3> DEFINE pc2 == IF zip[y0] = <<>> THEN "get" ELSE "parse"
    <3>2. \/ tse' = [tse EXCEPT !.pc = pc2]
          \/ tse' = [tse EXCEPT !.pc = "rename", !.attempt = 0]
          \/ tse' = [tse EXCEPT !.pc = "parse"]
      BY <2>3 DEF StartYear, Download, Rename
    <3>3. pc2 # "upsert" /\ tse \in TseState
      BY DEF PhotosTyped, ImportersTyped
    <3> HIDE DEF pc2
    <3>1. tse'.pc # "upsert"
      BY <3>2, <3>3 DEF TseState
    <3> QED
      BY <2>1, <3>1
  <2>4. CASE Interrupted
    <3>1. tse.pc # "upsert" /\ tse' = [tse EXCEPT !.attempt = @ + 1]
      BY <2>4 DEF Interrupted
    <3>2. tse'.pc = "upsert" => tse' = tse
      BY <3>1
    <3> QED
      BY <2>1, <3>2
  <2> QED
    BY <1>3, <2>2, <2>3, <2>4
<1>4. CASE Import \/ UpsertBatch \/ LogSuccess
  BY <1>1, <1>4 DEF Import, UpsertBatch, LogSuccess
<1>5. CASE Republish \/ Swap \/ CamBegin \/ CamStep \/ CamFails \/ SenBegin \/ SenStep \/ SenFails
  BY <1>5 DEF Republish, Swap, CamBegin, CamStep, CamPage, CamDetail, CamUpsert, CamEnd, CamFails,
              SenBegin, SenStep, SenUpsert, SenEnd, SenFails, tseVars
<1>6. CASE (\E y \in PhotoYears : Showing(PhotosBegin(y))) \/ Showing(PhotosStep) \/ Showing(PhotosFail)
  BY <1>6 DEF Showing, PhotosBegin, PhotosStep, PhotosList, PhotosLookup, PhotosSet, PhotosNextMode,
              PhotosFail, importers, tseVars
<1>7. CASE UNCHANGED vars
  BY <1>7 DEF vars, importers, tseVars
<1> QED
  BY <1>2, <1>3, <1>4, <1>5, <1>6, <1>7 DEF Next, Importing, ImportersNext, TseStep

ImportedInv == NobodyDropped /\ LoggedIsImported

\* Every step keeps ImportedInv.
LEMMA ImportedStep ==
  ASSUME PhotosTyped, ImportedInv, [Next]_vars
  PROVE  ImportedInv'
<1>1. \A y \in Year : File[y] \in Seq(Row)
  BY ImportersAssumption
<1>2. \A y \in Year : \A i \in DOMAIN File[y] : File[y][i].cpf # NoCpf => File[y][i].cpf \in Cpf
  <2>1. \A y \in Year : \A i \in DOMAIN File[y] : File[y][i] \in Row
    BY <1>1
  <2> QED
    BY <2>1 DEF Row
<1>3. \A c \in Cpf : pol[c].known => pol'[c].known
  BY Recorded
<1>4. tse \in TseState /\ log \subseteq Year /\ (tse.pc # "idle" => y0 \in Year)
  BY YearInHand DEF PhotosTyped, ImportersTyped
<1>5. NobodyDropped'
  <2> SUFFICES ASSUME tse'.pc = "upsert", NEW i \in DOMAIN File[y0']
               PROVE  Held(y0, i)'
    BY DEF NobodyDropped
  <2>1. CASE Import
    <3>1. tse.pc = "parse" /\ tse'.todo = tse.todo /\ \E b \in BOOLEAN : tse'.records = BuildResult(y0, b)
      <4> DEFINE shown == y0 \in Photographed
      <4>1. shown \in BOOLEAN
        OBVIOUS
      <4> HIDE DEF shown
      <4>2. tse.pc = "parse" /\ \/ tse' = [tse EXCEPT !.pc = "upsert", !.records = BuildResult(y0, shown)]
                                \/ tse' = [tse EXCEPT !.pc = "upsert", !.records = BuildResult(y0, FALSE)]
        BY <2>1 DEF Import, shown
      <4>3. tse'.todo = tse.todo /\ (tse'.records = BuildResult(y0, shown) \/ tse'.records = BuildResult(y0, FALSE))
        BY <4>2, <1>4 DEF TseState
      <4> QED
        BY <4>1, <4>2, <4>3
    <3>2. y0' = y0 /\ y0 \in Year
      BY <3>1, <1>4 DEF y0
    <3> QED
      BY <3>1, <3>2, EveryoneWins DEF Held
  <2>2. CASE UpsertBatch
    <3>1. PICK B \in Batches(tse.records) : UpsertPoliticiansFromTSE(B, y0) /\ tse' = [tse EXCEPT !.records = @ \ B]
      BY <2>2 DEF UpsertBatch
    <3>2. tse.pc = "upsert" /\ tse'.todo = tse.todo /\ tse'.records = tse.records \ B
      BY <2>2, <3>1, <1>4 DEF UpsertBatch, TseState
    <3>3. y0' = y0 /\ y0 \in Year
      BY <3>2, <1>4 DEF y0
    <3>4. Held(y0, i)
      BY <3>2, <3>3 DEF ImportedInv, NobodyDropped
    <3> SUFFICES ASSUME Scanned(File[y0][i]), File[y0][i].cpf # NoCpf
                 PROVE  \/ pol'[File[y0][i].cpf].known
                        \/ \E r \in tse'.records : r.cpf = File[y0][i].cpf
      BY <3>3 DEF Held
    <3>5. File[y0][i].cpf \in Cpf
      BY <1>2, <3>3
    <3>6. CASE pol[File[y0][i].cpf].known
      BY <3>6, <3>5, <1>3
    <3>7. ASSUME NEW r \in tse.records, r.cpf = File[y0][i].cpf
          PROVE  pol'[File[y0][i].cpf].known \/ \E q \in tse'.records : q.cpf = File[y0][i].cpf
      <4>1. CASE r \in B
        BY <4>1, <3>1, <3>5, <3>7, BatchRecorded
      <4>2. CASE r \notin B
        BY <4>2, <3>2, <3>7
      <4> QED
        BY <4>1, <4>2
    <3> QED
      BY <3>4, <3>6, <3>7 DEF Held
  <2>3. CASE tse' = tse
    <3>1. y0' = y0 /\ y0 \in Year /\ tse.pc = "upsert"
      BY <2>3, <1>4 DEF y0
    <3>2. Held(y0, i)
      BY <3>1 DEF ImportedInv, NobodyDropped
    <3> QED
      BY <3>1, <3>2, <2>3, <1>2, <1>3 DEF Held
  <2> QED
    BY <2>1, <2>2, <2>3, YearSteps
<1>6. LoggedIsImported'
  <2> SUFFICES ASSUME NEW y \in log', NEW i \in DOMAIN File[y],
                      Scanned(File[y][i]), File[y][i].cpf # NoCpf
               PROVE  pol'[File[y][i].cpf].known
    BY DEF LoggedIsImported
  <2>1. CASE y \in log
    BY <2>1, <1>2, <1>3, <1>4 DEF ImportedInv, LoggedIsImported
  <2>2. CASE y \notin log
    <3>1. LogSuccess
      BY <2>2, YearSteps
    <3>2. y = y0 /\ tse.pc = "upsert" /\ tse.records = {} /\ y0 \in Year
      BY <3>1, <2>2, <1>4 DEF LogSuccess
    <3> QED
      BY <3>2, <1>2, <1>3 DEF ImportedInv, NobodyDropped, Held
  <2> QED
    BY <2>1, <2>2
<1> QED
  BY <1>5, <1>6 DEF ImportedInv

-------------------------------------------------------------------------------
(* The latest likeness.                                                    *)

LatestInv == NothingPassed /\ LatestLikeness

\* Every step keeps LatestInv.
LEMMA LatestStep ==
  ASSUME PhotosTyped, LatestInv, [Next]_vars
  PROVE  LatestInv'
<1>1. \A c \in Cpf : Pictured(c) /\ photo[c] \in Photo
  BY PicturedStep DEF PhotosTyped, StoreTypeOK, Subject
<1>2. offered \subseteq offered'
  BY Writes
<1>3. Year \subseteq Nat /\ \A c \in Cpf : photo[c].year \in Nat
  <2>1. \A c \in Cpf : photo[c] \in Photo
    BY <1>1
  <2>2. \A p \in Photo : p.year \in Year \cup {0}
    BY DEF Photo
  <2>3. Year \subseteq Nat
    BY PoliticianStoreAssumption
  <2>4. \A y \in Year \cup {0} : y \in Nat
    BY <2>3
  <2>5. ASSUME NEW c \in Cpf PROVE photo[c].year \in Nat
    BY <2>1, <2>2, <2>4
  <2> QED
    BY <2>3, <2>5
<1>4. ASSUME NEW c \in Cpf, photo'[c].src = "none", NEW y \in Year, <<c, y>> \in offered'
      PROVE  FALSE
  <2>1. photo'[c] = photo[c] /\ (<<c, y>> \in offered \/ ~TakePhoto(photo[c], y))
    <3>1. \A z \in Year : Taken(c, z) => photo'[c].src = "tse"
      BY DEF Taken
    <3> QED
      BY <3>1, <1>1, <1>4 DEF Pictured, Stays
  <2> QED
    BY <2>1, <1>4 DEF TakePhoto, LatestInv, NothingPassed
<1>5. ASSUME NEW c \in Cpf, photo'[c].src = "tse"
      PROVE  <<c, photo'[c].year>> \in offered' /\ \A y \in Year : <<c, y>> \in offered' => y <= photo'[c].year
  <2>1. CASE Stays(c)
    <3>1. <<c, photo[c].year>> \in offered /\ \A y \in Year : <<c, y>> \in offered => y <= photo[c].year
      BY <1>5, <2>1 DEF Stays, LatestInv, LatestLikeness
    <3>2. \A y \in Year : ~TakePhoto(photo[c], y) => y <= photo[c].year
      <4>1. photo[c].year \in Nat
        BY <1>3
      <4> QED
        BY <4>1, <1>3, <1>5, <2>1 DEF TakePhoto, Stays
    <3> QED
      BY <2>1, <3>1, <3>2, <1>2 DEF Stays
  <2>2. ASSUME NEW y \in Year, Taken(c, y)
        PROVE  <<c, photo'[c].year>> \in offered' /\ \A z \in Year : <<c, z>> \in offered' => z <= photo'[c].year
    <3>1. photo'[c].year = y
      BY <2>2 DEF Taken
    <3>2. ASSUME NEW z \in Year, <<c, z>> \in offered PROVE z <= y
      <4>1. photo[c].src = "tse" /\ y > photo[c].year
        BY <2>2, <3>2 DEF Taken, TakePhoto, LatestInv, NothingPassed
      <4>2. z <= photo[c].year
        BY <3>2, <4>1 DEF LatestInv, LatestLikeness
      <4>3. photo[c].year \in Nat /\ y \in Nat /\ z \in Nat
        BY <1>3
      <4> QED
        BY <4>1, <4>2, <4>3
    <3> QED
      BY <2>2, <3>1, <3>2, <1>3 DEF Taken
  <2> QED
    <3>1. photo'[c].src \notin {"camara", "senado", "commons", "tse_year"}
      BY <1>5
    <3> QED
      BY <1>1, <1>5, <3>1, <2>1, <2>2 DEF Pictured
<1> QED
  BY <1>4, <1>5 DEF LatestInv, NothingPassed, LatestLikeness

-------------------------------------------------------------------------------
(* Theorems.                                                               *)

PhotosInv == PhotosTyped /\ ImportedInv /\ LatestInv

\* The inductive invariant (the importers and the photos worker).
THEOREM PhotosInvHolds == Spec => []PhotosInv
<1>1. Init => PhotosInv
  <2> SUFFICES ASSUME Init PROVE PhotosInv
    OBVIOUS
  <2>1. StoreTypeOK
    BY Initial DEF Init, StoreInit, StoreTypeOK
  <2>2. ImportersTyped
    <3>1. 0 \in 0..MaxFaults
      BY ImportersAssumption
    <3> QED
      BY <3>1, Initial DEF Init, ImportersInit, ImportersTyped, NoTse, NoCam
  <2>3. PhotosTyped
    BY <2>1, <2>2, Initial DEF Init, PhotosTyped, NoRun
  <2>4. ImportedInv
    BY DEF Init, ImportersInit, ImportedInv, NobodyDropped, LoggedIsImported, NoTse
  <2>5. \A c \in Cpf : photo[c].src = "none" /\ ~pol[c].known
    BY DEF Init, StoreInit, NoPhoto, Subject, Unknown
  <2>6. LatestInv
    BY <2>5 DEF Init, LatestInv, NothingPassed, LatestLikeness
  <2> QED
    BY <2>3, <2>4, <2>6 DEF PhotosInv
<1>2. PhotosInv /\ [Next]_vars => PhotosInv'
  BY PhotosTypedStep, ImportedStep, LatestStep DEF PhotosInv
<1> QED
  BY <1>1, <1>2, PTL DEF Spec

\* The stores, the importers and the photos worker keep their types.
THEOREM TypeCorrect == Spec => []TypeOK
<1>1. PhotosInv => TypeOK
  <2> SUFFICES ASSUME PhotosTyped PROVE TypeOK
    BY DEF PhotosInv
  <2>1. \A f \in Files : Len(f) \in 0..Chunks
    BY ImportersAssumption DEF Files
  <2>2. ImportersTypeOK
    BY <2>1 DEF PhotosTyped, ImportersTyped, ImportersTypeOK, TseState, CamState, SenState
  <2> QED
    BY <2>2 DEF PhotosTyped, RunState, TypeOK
<1> QED
  BY <1>1, PhotosInvHolds, PTL

\* A year is logged as imported, and from then on skipped, only when everybody
\* elected in it whose CPF is published is in the graph (main of the importer,
\* keepLatestTurn).
THEOREM LoggedAreImported == Spec => []LoggedIsImported
<1>1. PhotosInv => LoggedIsImported
  BY DEF PhotosInv, ImportedInv
<1> QED
  BY <1>1, PhotosInvHolds, PTL

\* In whatever order years are imported, a photo of the importer is of the latest
\* election it was offered one of (UpsertPoliticiansFromTSE).
THEOREM LikenessIsLatest == Spec => []LatestLikeness
<1>1. PhotosInv => LatestLikeness
  BY DEF PhotosInv, LatestInv
<1> QED
  BY <1>1, PhotosInvHolds, PTL

\* A photo gives way only to one of the houses, and one of the importer to one of a
\* later election, however late the photos worker writes what it looked up
\* (SetPoliticianPhotoByCPF, UpsertPoliticiansFromTSE).
THEOREM PrecedenceHolds == Spec => PhotoPrecedence
<1>1. PhotosInv /\ [Next]_vars =>
        [\A c \in Cpf : photo'[c] # photo[c] =>
           \/ photo[c].src = "none"
           \/ photo'[c].src \in {"camara", "senado"}
           \/ photo[c].src = "tse" /\ photo'[c].src = "tse" /\ photo'[c].year > photo[c].year]_photo
  <2> SUFFICES ASSUME PhotosTyped, [Next]_vars, NEW c \in Cpf, photo'[c] # photo[c]
               PROVE  \/ photo[c].src = "none"
                      \/ photo'[c].src \in {"camara", "senado"}
                      \/ photo[c].src = "tse" /\ photo'[c].src = "tse" /\ photo'[c].year > photo[c].year
    BY DEF PhotosInv
  <2>1. Pictured(c)
    BY PicturedStep
  <2>2. ~Stays(c)
    BY DEF Stays
  <2>3. ASSUME NEW y \in Year, Taken(c, y)
        PROVE  \/ photo[c].src = "none"
               \/ photo[c].src = "tse" /\ photo'[c].src = "tse" /\ photo'[c].year > photo[c].year
    BY <2>3 DEF Taken, TakePhoto
  <2> QED
    BY <2>1, <2>2, <2>3 DEF Pictured
<1> QED
  BY <1>1, PhotosInvHolds, PTL DEF Spec, PhotoPrecedence
===============================================================================
