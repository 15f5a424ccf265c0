------------------------------ MODULE MCFraming ------------------------------
(***************************************************************************)
(* A small instance of Framing for TLC: messages of four units, an EGGZIT *)
(* of one and a configuration or line of two, then zeros.                  *)
(***************************************************************************)
EXTENDS Framing

MCTextLength == [config |-> 2, EGGZIT |-> 1, line |-> 2]
=============================================================================
