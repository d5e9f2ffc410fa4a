---------------------------- MODULE MCSanctionSync ----------------------------
(***************************************************************************)
(* An instance of SanctionSync for TLC: CEIS served in pages, and a TCU    *)
(* list served as a file, which stays empty.                               *)
(***************************************************************************)
EXTENDS SanctionSync

CONSTANTS a, b, ceis, irregular, cgu, tcu

MCRegistryOf  == [r \in Record |-> ceis]
MCMembers     == [g \in Group |-> IF g = tcu THEN {irregular} ELSE {ceis}]
MCFirstListed == [g \in Registry |-> IF g = ceis THEN <<a, b>> ELSE <<>>]
===============================================================================
