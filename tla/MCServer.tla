------------------------------ MODULE MCServer ------------------------------
(***************************************************************************)
(* Small instances of Server for TLC: two or three connections, one after  *)
(* another or at once.                                                     *)
(***************************************************************************)
EXTENDS Server, TLC

CONSTANTS c1, c2, c3

ClientSymmetry == Permutations(Clients)
=============================================================================
