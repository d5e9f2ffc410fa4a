----------------------------- MODULE MCOrgSystem -----------------------------
(***************************************************************************)
(* Instances of OrgSystem for TLC.                                         *)
(***************************************************************************)
EXTENDS OrgSystem, TLC

CONSTANTS c1, c2, m1, l2

MCCnpjOf    == [m \in Name |-> c1]
MCLegalName == [c \in Cnpj |-> IF c = c1 THEN m1 ELSE l2]
MCSanctionedCnpj == [s \in Sanction |-> c1]
\* c1 and c2 own each other, and c2 has the other shareholders.
MCQsaOwned == [c \in Cnpj |-> IF c = c1 THEN {c2} ELSE {c1} \cup Socio]
\* c1 has one shareholder, a politician.
MCQsaPol == [c \in Cnpj |-> Socio]
MCSymmetry == Permutations(Operator)
===============================================================================
