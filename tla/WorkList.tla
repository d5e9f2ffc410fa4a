------------------------------ MODULE WorkList ------------------------------
(***************************************************************************)
(* What a pass over a list of items promises, whoever does the work: it    *)
(* takes some items on, deals with each of them once, in any order, and    *)
(* does not end of itself before the last one.                             *)
(***************************************************************************)
EXTENDS Naturals

CONSTANT Item

VARIABLES
  on,          \* a pass is going on
  pending,     \* the items it has not dealt with
  breaks       \* passes that were broken off

vars == <<on, pending, breaks>>

Init == on = FALSE /\ pending = {} /\ breaks = 0

Begin == ~on /\ on' = TRUE /\ pending' \in SUBSET Item /\ UNCHANGED breaks

Deal(i) == on /\ i \in pending /\ pending' = pending \ {i} /\ UNCHANGED <<on, breaks>>

End == on /\ pending = {} /\ on' = FALSE /\ UNCHANGED <<pending, breaks>>

\* The process is gone, and its list with it.
Break == on /\ on' = FALSE /\ pending' = {} /\ breaks' = breaks + 1

Next == Begin \/ (\E i \in Item : Deal(i)) \/ End \/ Break

\* A pass may break at any time; one that goes on comes to its end.
Spec == Init /\ [][Next]_vars /\ WF_vars(End \/ \E i \in Item : Deal(i))
=============================================================================
