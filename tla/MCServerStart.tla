--------------------------- MODULE MCServerStart ---------------------------
(***************************************************************************)
(* A small instance of ServerStart for TLC: two servers, or three.         *)
(***************************************************************************)
EXTENDS ServerStart

CONSTANTS s1, s2, s3
=============================================================================
