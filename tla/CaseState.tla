------------------------------ MODULE CaseState ------------------------------
(***************************************************************************)
(* What the movements of a docket support claiming about a case            *)
(* (deriveCaseState).  A movement is what its name and its code say, in    *)
(* the patterns the code looks for, and its date; 0 is none, or one that   *)
(* does not parse.                                                         *)
(***************************************************************************)
EXTENDS Integers, Sequences, SequencesExt, FiniteSetsExt

CONSTANT Times         \* dates; 0 is not one

\* "improceden" contains "proceden".
Signs    == {"final", "improceden", "absolvi", "extincao", "condena", "proceden"}
Movement == [signs : SUBSET Signs, time : Times \cup {0}]

\* The switch of deriveCaseState: the first case that applies.
Ruling(m) ==
  IF m.signs \cap {"improceden", "absolvi"} # {} THEN "acquittal"
  ELSE IF "extincao" \in m.signs THEN "extinction"
  ELSE IF m.signs \cap {"condena", "proceden"} # {} THEN "conviction" ELSE "none"

\* The comparison of the sort: undated movements are before and after none.
Before(m, n) == m.time # 0 /\ n.time # 0 /\ m.time < n.time

\* sort.SliceStable on fewer than 20 movements is an insertion sort: a movement
\* goes back past those it is before, up to the first it is not.
Insert(s, m) == InsertAt(s, 1 + Max({0} \cup {i \in DOMAIN s : ~Before(m, s[i])}), m)

\* Mutant of movementsChronological: the order of the answer.
movementsAsListed(movs) == movs

movementsChronological(movs) ==
  LET sorted[n \in 0..Len(movs)] == IF n = 0 THEN <<>> ELSE Insert(sorted[n - 1], movs[n])
  IN sorted[Len(movs)]

Rulings(s) == {i \in DOMAIN s : Ruling(s[i]) # "none"}

\* A ruling overwrites the one before; an extinction clears it, and leaves the phase.
deriveCaseState(criminal, movs) ==
  LET ordered == movementsChronological(movs)
      rulings == IF criminal THEN Rulings(ordered) ELSE {}
      last    == Ruling(ordered[Max(rulings)])
  IN [phase       |-> IF \E i \in rulings : Ruling(ordered[i]) # "extinction" THEN "sentenced" ELSE "",
      disposition |-> IF rulings = {} \/ last = "extinction" THEN "" ELSE last,
      concluded   |-> \E i \in DOMAIN movs : "final" \in movs[i].signs]

\* The reference: what the latest of the dated rulings said, and of several on
\* that date the one listed last.
Standing(criminal, movs) ==
  LET rulings == {i \in Rulings(movs) : movs[i].time # 0}
      latest  == {i \in rulings : \A j \in rulings : movs[j].time <= movs[i].time}
      last    == Ruling(movs[Max(latest)])
  IN IF ~criminal \/ rulings = {} \/ last = "extinction" THEN "" ELSE last
===============================================================================
