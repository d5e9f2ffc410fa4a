-------------------------------- MODULE Photos --------------------------------
(***************************************************************************)
(* The photos worker, and the politicians and their photos with everything *)
(* that writes them at work together.  A run takes the TSE mode and then   *)
(* the Wikidata mode; in each it lists the nodes without a photo once, and *)
(* for every one of them asks the source and writes.                       *)
(***************************************************************************)
EXTENDS Importers

CONSTANTS
  OnCommons,   \* SUBSET Subject for which the lookup finds one entity with an image
  Faceless,    \* SUBSET Cpf of whom TSE serves no image
  PhotoYears   \* values of --year

ASSUME PhotosAssumption ==
  OnCommons \subseteq Subject /\ Faceless \subseteq Cpf /\ PhotoYears \subseteq Year

VARIABLES
  ph,          \* the run
  offered      \* history: <<cpf, year>> imported with a photo

vars == <<pol, photo, importers, ph, offered>>

\* pc "list_*": before the listing; "next": between two targets; "set": an image
\* was found for ph.at.
NoRun == [pc |-> "idle", mode |-> "tse", year |-> 0, targets |-> {}, at |-> {}, of |-> {}]

TypeOK ==
  /\ StoreTypeOK /\ ImportersTypeOK
  /\ ph.pc \in {"idle", "list", "next", "set"} /\ ph.mode \in {"tse", "orgs", "politicians"}
  /\ ph.targets \subseteq Subject /\ ph.at \subseteq Subject /\ ph.of \subseteq Subject
  /\ offered \subseteq Cpf \X Year

Init == StoreInit /\ ImportersInit /\ ph = NoRun /\ offered = {}

-------------------------------------------------------------------------------

\* parseConsultaCPFtoSQ, buildCPFtoSQFromZip: the first SQ of a CPF, whether
\* the candidate was elected or not.
CpfToSq(y, c) ==
  {File[y][i].sq : i \in {i \in DOMAIN File[y] :
     File[y][i].cpf = c /\ \A j \in 1..(i - 1) : File[y][j].cpf # c}}

\* Whose photos {year}/{sq} can mean, the default template: numbers repeat between
\* states, and what verifyImageURL verifies is that the answer is an image.
\* (--tse-url-template may add the state; nothing in the repository sets it.)
Behind(y, sq) ==
  {File[y][i].cpf : i \in {i \in DOMAIN File[y] : File[y][i].sq = sq}} \ (Faceless \cup {NoCpf})

\* runTSE begins: the probe found an image, the metadata is there.
PhotosBegin(y) ==
  /\ ph.pc = "idle"
  /\ ph' = [NoRun EXCEPT !.pc = "list", !.year = y]
  /\ UNCHANGED <<pol, photo, importers>>

Targets == IF ph.mode = "orgs" THEN ListOrganizationsNeedingPhoto ELSE ListPoliticiansNeedingPhoto

PhotosList ==
  /\ ph.pc = "list"
  /\ ph' = [ph EXCEPT !.pc = "next", !.targets = Targets]
  /\ UNCHANGED <<pol, photo, importers>>

\* Whose image the source can answer with.
Found(x) ==
  IF ph.mode = "tse" THEN UNION {Behind(ph.year, sq) : sq \in CpfToSq(ph.year, x)}
  ELSE {x} \cap OnCommons

\* One of them is what the server answers with.
PhotosLookup ==
  /\ ph.pc = "next"
  /\ \E x \in ph.targets :
       \/ Found(x) = {} /\ ph' = [ph EXCEPT !.targets = @ \ {x}]
       \/ \E face \in Found(x) :
            ph' = [ph EXCEPT !.pc = "set", !.targets = @ \ {x}, !.at = {x}, !.of = {face}]
  /\ UNCHANGED <<pol, photo, importers>>

PhotosSet ==
  /\ ph.pc = "set"
  /\ \E x \in ph.at : SetPhoto(x, IF ph.mode = "tse" THEN "tse_year" ELSE "commons", ph.of)
  /\ ph' = [ph EXCEPT !.pc = "next", !.at = {}, !.of = {}]
  /\ UNCHANGED <<pol, importers>>

\* From one mode to the next.
PhotosNextMode ==
  /\ ph.pc = "next" /\ ph.targets = {}
  /\ ph' = CASE ph.mode = "tse" -> [ph EXCEPT !.pc = "list", !.mode = "orgs"]
             [] ph.mode = "orgs" -> [ph EXCEPT !.pc = "list", !.mode = "politicians"]
             [] OTHER -> NoRun
  /\ UNCHANGED <<pol, photo, importers>>

\* No probe image, a failed request or statement: the run ends there.
PhotosFail ==
  /\ ph.pc # "idle"
  /\ Fault
  /\ ph' = NoRun
  /\ UNCHANGED <<pol, photo, tseVars, houses, world>>

PhotosStep == PhotosList \/ PhotosLookup \/ PhotosSet \/ PhotosNextMode

-------------------------------------------------------------------------------
(* The system.                                                             *)

\* The batch of the importer that was just written.
Offered == IF tse.pc = "upsert" /\ tse'.pc = "upsert"
           THEN {<<r.cpf, y0>> : r \in {r \in tse.records \ tse'.records : r.photo}} ELSE {}

Importing(A) == A /\ offered' = offered \cup Offered /\ UNCHANGED ph
Showing(A)   == A /\ UNCHANGED offered

Next ==
  \/ Importing(ImportersNext)
  \/ \E y \in PhotoYears : Showing(PhotosBegin(y))
  \/ Showing(PhotosStep) \/ Showing(PhotosFail)

Spec == Init /\ [][Next]_vars

\* A run of the importer that was begun goes on, and cron starts the Chamber sync
\* every week.  Nothing starts the importer, which is triggered by hand: that is
\* said where it is needed.  Nothing is asked of the Senate sync and of the
\* photos worker, and nothing makes TSE republish, deputies change or requests fail.
FairSpec ==
  /\ Spec
  /\ WF_vars(Importing(TseStep)) /\ WF_vars(Importing(CamBegin \/ CamStep))

-------------------------------------------------------------------------------
(* Properties.                                                             *)

\* A year is logged as imported, and from then on skipped, only when everybody
\* elected in it whose CPF is published is in the graph, also when numbers
\* repeat between states, a run died half way or was repeated (candidateKey,
\* keepLatestTurn, the order of the writes in main).
LoggedIsImported ==
  \A y \in log :
    \A i \in DOMAIN File[y] :
      Scanned(File[y][i]) /\ File[y][i].cpf # NoCpf => pol[File[y][i].cpf].known

\* In whatever order the years are imported, a photo the importer put is of the
\* latest election it had one of (UpsertPoliticiansFromTSE).
LatestLikeness ==
  \A c \in Cpf : photo[c].src = "tse" =>
    <<c, photo[c].year>> \in offered /\ \A y \in Year : <<c, y>> \in offered => y <= photo[c].year

\* A photo gives way only to one of the houses, and one of the importer to one of a
\* later election: the photos worker, which listed its targets long before, takes
\* nothing from who was given a photo since, nor do the importers take what a house
\* or the worker put (SetPoliticianPhotoByCPF, UpsertPoliticiansFromTSE).
PhotoPrecedence ==
  [][\A c \in Cpf : photo'[c] # photo[c] =>
       \/ photo[c].src = "none"
       \/ photo'[c].src \in {"camara", "senado"}
       \/ photo[c].src = "tse" /\ photo'[c].src = "tse" /\ photo'[c].year > photo[c].year]_photo

\* When an operator keeps starting imports of all years, every year is imported in
\* the end, in spite of interrupted downloads, left over .tmp files and runs that
\* die; unless a download was spliced from two versions of the file, which stays
\* cached and stops every such run before that year (downloadFileIfMissing, main).
YearsAreImported ==
  \A y \in Year :
    []<><<Importing(TseBegin(Year))>>_vars =>
      <>(y \in log) \/ <>(\E z \in Year : z <= y /\ Mixed(zip[z]))

\* A deputy who keeps the seat is shown as active in the end, although the
\* listing moves while its pages are read (SyncCurrentDeputies).
DeputiesAreActive ==
  \A c \in Cpf : <>[](\E i \in DOMAIN seats : seats[i].cpf = c) => <>(pol[c].active)
===============================================================================
