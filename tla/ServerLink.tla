----------------------------- MODULE ServerLink -----------------------------
(***************************************************************************)
(* What one client may expect of the server at the other end of its        *)
(* connection: a first configuration, then others, none older than the one *)
(* before, then at most one EGGZIT and nothing after it.  The server may   *)
(* also vanish.  This is the server that MonitorPool is written against.   *)
(***************************************************************************)
EXTENDS Integers, Sequences

CONSTANTS Configs, EGGZIT

VARIABLES
  messages,   \* all the server has written to this client
  up          \* whether the server still holds its end of the connection

vars == <<messages, up>>

Init == messages = <<>> /\ up = TRUE

Send ==
  /\ up /\ UNCHANGED up
  /\ \E c \in Configs :
       /\ messages # <<>> => messages[Len(messages)] <= c
       /\ messages' = Append(messages, c)

Quit ==
  /\ up /\ messages # <<>> /\ up' = FALSE
  /\ messages' = Append(messages, EGGZIT)

Vanish == up /\ up' = FALSE /\ UNCHANGED messages

Next == Send \/ Quit \/ Vanish

Spec == Init /\ [][Next]_vars
=============================================================================
