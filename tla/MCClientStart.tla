--------------------------- MODULE MCClientStart ---------------------------
(***************************************************************************)
(* A small instance of ClientStart for TLC: two clients that are sent a    *)
(* configuration of one line or of two.                                    *)
(***************************************************************************)
EXTENDS ClientStart

CONSTANTS i1, i2

MCTexts == {<<1>>, <<2, 3>>}
=============================================================================
