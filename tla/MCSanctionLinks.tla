--------------------------- MODULE MCSanctionLinks ---------------------------
(***************************************************************************)
(* Instances of SanctionLinks for TLC.                                     *)
(***************************************************************************)
EXTENDS SanctionLinks

CONSTANTS ana, bia, nAna, nBia, uf, m1, sFull, sMask, sName

\* Ana and Bia share the six middle digits.
MCMasked == [c \in Cpf |-> m1]
MCRec == [s \in Sanction |->
  IF s = sFull THEN [kind |-> "cpf", cpf |-> ana, name |-> nAna]
  ELSE IF s = sMask THEN [kind |-> "masked", cpf |-> ana, name |-> nAna]
  ELSE [kind |-> "name", cpf |-> ana, name |-> nAna]]

\* Bia takes the name of Ana in a later election.
MCRows == {[cpf |-> c, name |-> n, uf |-> uf, photo |-> FALSE] : c \in Cpf, n \in Name}
            \ {[cpf |-> ana, name |-> nBia, uf |-> uf, photo |-> FALSE]}
===============================================================================
