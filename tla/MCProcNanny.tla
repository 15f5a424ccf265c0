---------------------------- MODULE MCProcNanny ----------------------------
(***************************************************************************)
(* A small instance of ProcNanny for TLC: a server and two clients.        *)
(***************************************************************************)
EXTENDS ProcNanny

CONSTANTS c1, c2
=============================================================================
