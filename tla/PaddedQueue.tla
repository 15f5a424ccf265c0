----------------------------- MODULE PaddedQueue -----------------------------
(***************************************************************************)
(* What one end of the connection may take the other's messages for when   *)
(* no text is cut: a queue from which it takes them one at a time, except  *)
(* that a short read leaves the padding of a message as something to read, *)
(* and a read that begins in that padding hides the message behind it.     *)
(* This is the socket Server and MonitorPool are written against.          *)
(***************************************************************************)
EXTENDS Naturals, Sequences

CONSTANT REST       \* padding that is left of a message; a text that is empty

VARIABLES
  count,   \* how many messages were written; they are numbered
  queue,   \* the messages not read yet
  taken,   \* those the reader has acted upon
  exact    \* whether it acts only upon reads of a whole buffer

vars == <<count, queue, taken, exact>>

Init == count = 0 /\ queue = <<>> /\ taken = <<>> /\ exact \in BOOLEAN

Send == count' = count + 1 /\ queue' = Append(queue, count') /\ UNCHANGED <<taken, exact>>

Begins == queue # <<>> /\ Head(queue) # REST /\ UNCHANGED <<count, exact>>

Whole == Begins /\ queue' = Tail(queue) /\ taken' = Append(taken, Head(queue))

\* The text without all of its padding, which a reader that wants all throws away
\* unless it is the first.
Part ==
  /\ Begins /\ queue' = <<REST>> \o Tail(queue)
  /\ \/ (~exact \/ taken = <<>>) /\ taken' = Append(taken, Head(queue))
     \/ exact /\ UNCHANGED taken

Behind == queue # <<>> /\ Head(queue) = REST /\ UNCHANGED <<count, exact>>

Padding == Behind /\ queue' = Tail(queue) /\ UNCHANGED taken

Hidden ==
  /\ Behind /\ Len(queue) > 1 /\ queue' = <<REST>> \o Tail(Tail(queue))
  /\ \/ UNCHANGED taken
     \/ exact /\ taken' = Append(taken, REST)

Next == Send \/ Whole \/ Part \/ Padding \/ Hidden

Spec == Init /\ [][Next]_vars
=============================================================================
