--------------------------- MODULE PoliticianStore ---------------------------
(***************************************************************************)
(* The politicians of the graph, keyed by CPF, and the statements that     *)
(* write them.  Each importer writes what its source knows; a statement    *)
(* of theirs takes a whole batch (UNWIND).                                 *)
(*                                                                         *)
(* A record keeps what the statements read or the properties tell apart.   *)
(* Aliases, profile URLs, party, role and the ids of the two houses are    *)
(* written beside the name and are left out.                               *)
(***************************************************************************)
EXTENDS Naturals, FiniteSets

CONSTANTS
  Cpf,         \* CPFs of politicians
  Name,        \* names, folded
  Uf,          \* states
  Year,        \* election years
  Company      \* CNPJs of companies in the graph

ASSUME PoliticianStoreAssumption ==
  /\ IsFiniteSet(Cpf) /\ Cpf \cap Company = {}
  /\ Year \subseteq Nat \ {0} /\ Year # {}
  /\ Name # {} /\ Uf # {}

VARIABLES
  pol,         \* [Cpf -> Politician]
  photo        \* [Subject -> Photo]

AnyName == CHOOSE n \in Name : TRUE
AnyUf   == CHOOSE u \in Uf : TRUE

Politician == [known : BOOLEAN, name : Name, state : Uf, active : BOOLEAN]
Unknown    == [known |-> FALSE, name |-> AnyName, state |-> AnyUf, active |-> FALSE]

\* photo_source and photo_year, and whom the photo at photo_url shows.  The
\* photos worker signs what it takes from TSE "tse_<year>", not "tse".
Subject == Cpf \cup Company
Photo   == [src : {"none", "tse", "tse_year", "camara", "senado", "commons"},
            year : Year \cup {0}, of : SUBSET Subject]
NoPhoto == [src |-> "none", year |-> 0, of |-> {}]

StoreTypeOK ==
  /\ pol \in [Cpf -> Politician]
  /\ photo \in [Subject -> Photo]

StoreInit ==
  /\ pol = [c \in Cpf |-> Unknown]
  /\ photo = [x \in Subject |-> NoPhoto]

-------------------------------------------------------------------------------
(* UpsertPoliticiansFromTSE.                                               *)

\* Mutant of TakePhoto: the last import wins.
TakePhotoLast(p, y) == p.src \in {"none", "tse"}

\* Where there is none, or an older one of its own.
TakePhoto(p, y) == p.src = "none" \/ (p.src = "tse" /\ y > p.year)

\* rows: at most one row per CPF, each with cpf, name, uf and photo.
UpsertPoliticiansFromTSE(rows, y) ==
  LET At(c) == {r \in rows : r.cpf = c} IN
  /\ pol' = [c \in Cpf |->
       IF At(c) = {} THEN pol[c]
       ELSE LET r == CHOOSE r \in At(c) : TRUE
            IN [pol[c] EXCEPT !.known = TRUE, !.name = r.name, !.state = r.uf]]
  /\ photo' = [x \in Subject |->
       IF (\E r \in rows : r.cpf = x /\ r.photo) /\ TakePhoto(photo[x], y)
       THEN [src |-> "tse", year |-> y, of |-> {x}] ELSE photo[x]]

\* UpsertPoliticiansFromCamara: an empty photo is no photo; the year of the
\* photo it replaces stays (and so does its attribution).
UpsertPoliticiansFromCamara(rows) ==
  LET At(c) == {r \in rows : r.cpf = c} IN
  /\ pol' = [c \in Cpf |->
       IF At(c) = {} THEN pol[c]
       ELSE LET r == CHOOSE r \in At(c) : TRUE
            IN [known |-> TRUE, name |-> r.name, state |-> r.uf, active |-> TRUE]]
  /\ photo' = [x \in Subject |->
       IF \E r \in rows : r.cpf = x /\ r.photo
       THEN [photo[x] EXCEPT !.src = "camara", !.of = {x}] ELSE photo[x]]

\* The Senate publishes no CPF: a row is every politician of that name and state.
Senators(rows) == {c \in Cpf : pol[c].known /\ \E r \in rows : r.name = pol[c].name /\ r.uf = pol[c].state}

UpsertPoliticiansFromSenado(rows) ==
  /\ pol' = [c \in Cpf |->
       IF c \in Senators(rows) THEN [pol[c] EXCEPT !.active = TRUE] ELSE pol[c]]
  /\ photo' = [x \in Subject |->
       IF x \in Senators({r \in rows : r.photo})
       THEN [photo[x] EXCEPT !.src = "senado", !.of = {x}] ELSE photo[x]]

-------------------------------------------------------------------------------
(* The photos worker's statements.                                         *)

ListPoliticiansNeedingPhoto   == {c \in Cpf : pol[c].known /\ photo[c].src = "none"}
ListOrganizationsNeedingPhoto == {o \in Company : photo[o].src = "none"}

\* Mutant of SetPhoto: the listing said that there was none.
SetPhotoListed(x, src, of) == photo' = [photo EXCEPT ![x].src = src, ![x].of = of]

\* SetPoliticianPhotoByCPF, SetOrganizationPhotoByCNPJ: only where there is none.
SetPhoto(x, src, of) ==
  photo' = IF photo[x].src = "none"
           THEN [photo EXCEPT ![x].src = src, ![x].of = of] ELSE photo
===============================================================================
