---------------------------- MODULE MCPartySystem ----------------------------
(***************************************************************************)
(* Instances of PartySystem for TLC.  The spellings are the ones the       *)
(* foldings tell apart:                                                    *)
(*   jose     "JOSE DA SILVA"                                              *)
(*   others   "JOSE DA SILVA E OUTROS (2)"  same name, another roster key  *)
(*   accent   "JOSÉ DA SILVA"               same roster key, another node  *)
(*   plain    "JOSE DA SILVA", polo A       not a defendant                *)
(*   acme     "ACME LTDA"                   a company                      *)
(***************************************************************************)
EXTENDS PartySystem, TLC

CONSTANTS jose, others, accent, plain, acme,        \* entries
          nJose, nAccent, nAcme,                    \* names
          pJose, pAcme,                             \* normalized names
          kJose, kAcme                              \* tombstone keys

MCPartyName == [e \in Entry |-> CASE e = accent -> nAccent
                                  [] e = acme   -> nAcme
                                  [] OTHER      -> nJose]
MCRosterKey == [e \in Entry |-> IF e = accent THEN jose ELSE e]
MCPassive   == Entry \ {plain}
MCVerbatim  == Entry \ {others}
MCCompany   == Name \cap {nAcme}
MCNormalName == [n \in Name |-> IF n = nAcme THEN pAcme ELSE pJose]
MCNameKey    == [n \in Name |-> IF n = nAcme THEN kAcme ELSE kJose]
MCMentions   == [n \in Name |-> {n}]

\* Review rows and requests in flight are interchangeable: the row NoOp holds
\* sits in a field that nobody reads while the handler is idle.
MCSymmetry == Permutations(ReviewId) \cup Permutations(Op)
===============================================================================
