------------------------------- MODULE MCPhotos -------------------------------
(***************************************************************************)
(* Instances of Photos for TLC.                                            *)
(***************************************************************************)
EXTENDS Photos

CONSTANTS ana, bia, nAna, nBia, BA, PE

R(uf, turn, elected, tracked, cpf, name) ==
  [uf |-> uf, sq |-> 1, turn |-> turn, elected |-> elected, tracked |-> tracked, cpf |-> cpf, name |-> name]

\* Ana and Bia have the same number in two states; in 2010 Ana runs, and
\* wins, in Bia's state.
MCFile == [y \in Year |->
  IF y = 2006 THEN <<R(BA, 1, TRUE, TRUE, ana, nAna), R(BA, 2, TRUE, TRUE, ana, nAna),
                     R(PE, 1, FALSE, TRUE, bia, nBia), R(PE, 2, TRUE, TRUE, bia, nBia)>>
  ELSE <<R(BA, 1, TRUE, FALSE, NoCpf, nBia), R(PE, 1, TRUE, TRUE, ana, nAna)>>]

D(cpf, name, uf) == [cpf |-> cpf, name |-> name, uf |-> uf, photo |-> cpf \notin Faceless]
MCListings == {<<D(ana, nAna, BA)>>, <<D(bia, nBia, PE), D(ana, nAna, BA)>>}
MCSenate == {[name |-> nBia, uf |-> PE, photo |-> TRUE]}
===============================================================================
