------------------------------ MODULE MCNameMode ------------------------------
(***************************************************************************)
(* Instances of NameMode for TLC.                                          *)
(***************************************************************************)
EXTENDS NameMode

CONSTANTS ana, bia, eva, a1, a2, a3, a4, b1, k1, k2, k3

MCRoster == <<ana, bia, eva>>

\* Ana has three records in the first window, more than a range, and one in the
\* second; Bia one, in a case that is Ana's.
MCListing == [p \in Party |-> CASE p = ana -> <<<<a1, a2, a3>>, <<a4>>>>
                                [] p = bia -> <<<<>>, <<b1>>>>
                                [] OTHER -> <<<<>>, <<>>>>]

\* a1 is of somebody whose name contains Ana's; a4 is a civil case.
MCInfo == [r \in Record |->
  CASE r = a1 -> [case |-> k3, names |-> {}, allowed |-> TRUE, tribunal |-> TRUE]
    [] r = a4 -> [case |-> k2, names |-> {ana}, allowed |-> FALSE, tribunal |-> TRUE]
    [] r = b1 -> [case |-> k1, names |-> {ana}, allowed |-> TRUE, tribunal |-> FALSE]
    [] OTHER  -> [case |-> k1, names |-> {ana}, allowed |-> TRUE, tribunal |-> TRUE]]
===============================================================================
