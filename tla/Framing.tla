------------------------------- MODULE Framing -------------------------------
(***************************************************************************)
(* One direction of the connection.  A message is a text in a buffer of    *)
(* BUFFER_SIZE bytes that was filled with zeros, all of which is written;  *)
(* TCP carries bytes, and neither end looks at how many of them its        *)
(* write() or read() moved except where it is said below.  A unit is as    *)
(* many bytes as never come apart.                                         *)
(***************************************************************************)
EXTENDS Integers, Sequences, SequencesExt

CONSTANTS
  BUFFER_SIZE,   \* units in a message, 10000 bytes in the code
  TextLength,    \* how many of them are text, for each kind of message
  MaxUnits,      \* units that fit into the sockets' buffers
  MaxMessages,   \* how many messages are written
  REST           \* an empty text

Kinds == DOMAIN TextLength

ASSUME SizeAssumption ==
  /\ BUFFER_SIZE \in Nat /\ MaxUnits \in Nat /\ MaxMessages \in Nat
  /\ TextLength \in [Kinds -> 1 .. BUFFER_SIZE - 1]
  /\ {"config", "EGGZIT", "line"} \subseteq Kinds
ASSUME RestAssumption == REST \notin Nat

VARIABLES
  reader,    \* the end that reads: "client" or "server"
  cuts,      \* whether writes and reads may end within a text
  sent,      \* the kinds of the messages written, in order
  wire,      \* the units written and not read
  taken,     \* the texts the reader has acted upon
  over,      \* whether the reader has ended
  ended,     \* whether the writer has ended or closed its end
  short_read, short_write   \* history: a read, a write moved less than a message

vars == <<reader, cuts, sent, wire, taken, over, ended, short_read, short_write>>

Units == [message : 1 .. MaxMessages, at : 1 .. BUFFER_SIZE]

IsText(u) == u.at <= TextLength[sent[u.message]]

TypeOK ==
  /\ reader \in {"client", "server"} /\ cuts \in BOOLEAN
  /\ sent \in Seq(Kinds) /\ Len(sent) <= MaxMessages
  /\ wire \in Seq(Units) /\ Len(wire) <= MaxUnits
  /\ taken \in Seq(Seq(Units))
  /\ {over, ended, short_read, short_write} \subseteq BOOLEAN

Init ==
  /\ reader \in {"client", "server"} /\ cuts \in BOOLEAN
  /\ sent = <<>> /\ wire = <<>> /\ taken = <<>>
  /\ over = FALSE /\ ended = FALSE /\ short_read = FALSE /\ short_write = FALSE

-----------------------------------------------------------------------------
(***************************************************************************)
(* write() takes what fits: all, some or, as O_NONBLOCK is set, nothing.   *)
(* The server does not look; a client ends if nothing fits (log_message).  *)
(***************************************************************************)
Message(i) == [at \in 1 .. BUFFER_SIZE |-> [message |-> i, at |-> at]]

\* Mutant of Frame: only the text is written, not the buffer it is in.
FrameText(kind) == SubSeq(Message(Len(sent) + 1), 1, TextLength[kind])

Frame(kind) == Message(Len(sent) + 1)

\* Mutant of Fits: what does not fit is written all the same.
FitsAlways(kind) == Len(Frame(kind))

Fits(kind) == Min({Len(Frame(kind)), MaxUnits - Len(wire)})

\* Nothing follows an EGGZIT, behind which the server closes its end.
write(kind) ==
  /\ ~ended /\ Len(sent) < MaxMessages /\ (kind = "line" <=> reader = "server")
  /\ cuts \/ Fits(kind) \notin 1 .. TextLength[kind]
  /\ sent' = Append(sent, kind)
  /\ wire' = wire \o SubSeq(Frame(kind), 1, Fits(kind))
  /\ short_write' = (short_write \/ Fits(kind) < Len(Frame(kind)))
  /\ ended' = (kind = "EGGZIT" \/ (kind = "line" /\ Fits(kind) = 0))
  /\ UNCHANGED <<reader, cuts, taken, over, short_read>>

-----------------------------------------------------------------------------
(***************************************************************************)
(* read() returns what has arrived, up to the size of the buffer.  What is *)
(* looked at is the string at its start.                                   *)
(***************************************************************************)
Blank(buffer) == SelectInSeq(buffer, LAMBDA u : ~IsText(u))

\* Mutant of String: the whole buffer is copied.
Buffer(buffer) == buffer

String(buffer) == IF Blank(buffer) = 0 THEN buffer ELSE SubSeq(buffer, 1, Blank(buffer) - 1)

\* Mutant of Chunk: a short read leaves what it has seen on the wire, like MSG_PEEK.
ChunkPeeks(n) ==
  /\ ~over /\ n \in 1 .. BUFFER_SIZE /\ n <= Len(wire) /\ (cuts \/ ~IsText(wire[n]))
  /\ wire' = IF n < BUFFER_SIZE THEN wire ELSE SubSeq(wire, n + 1, Len(wire))
  /\ short_read' = (short_read \/ n < BUFFER_SIZE)
  /\ UNCHANGED <<reader, cuts, sent, ended, short_write>>

Chunk(n) ==
  /\ ~over /\ n \in 1 .. BUFFER_SIZE /\ n <= Len(wire) /\ (cuts \/ ~IsText(wire[n]))
  /\ wire' = SubSeq(wire, n + 1, Len(wire))
  /\ short_read' = (short_read \/ n < BUFFER_SIZE)
  /\ UNCHANGED <<reader, cuts, sent, ended, short_write>>

Text(i) == SubSeq(Message(i), 1, TextLength[sent[i]])
Taken(kind) == {Text(i) : i \in {j \in DOMAIN sent : sent[j] = kind}}

\* The server logs any text: its buffer is filled with zeros before each read.
ServerReads(n) ==
  /\ reader = "server" /\ Chunk(n)
  /\ taken' = LET text == String(SubSeq(wire, 1, n))
              IN  IF text = <<>> THEN taken ELSE Append(taken, text)
  /\ UNCHANGED over

\* Mutant of Suffices: room for the zero behind a string is left.
SufficesLess(n) == taken = <<>> \/ n = BUFFER_SIZE - 1

\* Mutant of Suffices: any read will do, as for the first one.
AnySuffices(n) == n > 0

\* The first read takes what has come; the later ones only a full buffer.
Suffices(n) == taken = <<>> \/ n = BUFFER_SIZE

\* read_config() exits on an empty text, and may crash on what is left of one.
ClientReads(n) ==
  /\ reader = "client" /\ Suffices(n) /\ Chunk(n)
  /\ LET text == String(SubSeq(wire, 1, n))
     IN  /\ taken' = Append(taken, text)
         /\ over' \in IF text \in Taken("config") THEN {FALSE}
                      ELSE IF text = <<>> \/ text \in Taken("EGGZIT") THEN {TRUE}
                      ELSE BOOLEAN

ThrowsAway(n) ==
  /\ reader = "client" /\ ~Suffices(n) /\ Chunk(n) /\ UNCHANGED <<taken, over>>

read == \E n \in 1 .. BUFFER_SIZE : ServerReads(n) \/ ClientReads(n) \/ ThrowsAway(n)

Next == read \/ \E kind \in Kinds : write(kind)

Spec == Init /\ [][Next]_vars

\* The server reads in every round, the client once a second.
FairSpec == Spec /\ WF_vars(read)

-----------------------------------------------------------------------------
(***************************************************************************)
(* What holds of the texts.                                                *)
(***************************************************************************)
\* As long as every write and read has moved a whole message, the reader acts upon
\* the messages, each once, in order and none missed.
Intact == ~short_read /\ ~short_write =>
            /\ taken = [i \in 1 .. Len(taken) |-> Text(i)]
            /\ Len(wire) = BUFFER_SIZE * (Len(sent) - Len(taken))

\* However reads are cut, no text runs on into the next message: the zeros part
\* them.  Only a write that was cut short can let two texts touch.
Apart == ~short_write => \A t \in DOMAIN taken : \A i, j \in DOMAIN taken[t] :
                            taken[t][i].message = taken[t][j].message

\* However short the reads are, as long as they cut no text what is acted upon is empty
\* or the whole text of a message, and of no message twice or after a later one.
WholeInOrder ==
  ~cuts /\ ~short_write =>
    /\ \A t \in DOMAIN taken : taken[t] # <<>> => \E i \in DOMAIN sent : taken[t] = Text(i)
    /\ \A s, t \in DOMAIN taken : s < t /\ taken[s] # <<>> /\ taken[t] # <<>>
                                    => taken[s][1].message < taken[t][1].message

\* An EGGZIT that was written ends the client, unless a write or a read was short.
Delivered == Contains(sent, "EGGZIT") ~> over \/ short_read \/ short_write

\* A message is in the queue while its text is, then its padding is what is left.
\* The messages behind the first one on the wire are all there.
Tokens ==
  IF wire = <<>> THEN <<>>
  ELSE LET first == wire[1]
       IN  [t \in 1 .. Len(sent) - first.message + 1 |->
             IF t = 1 /\ first.at # 1 THEN REST ELSE first.message + t - 1]

TakenTokens == [t \in DOMAIN taken |-> IF taken[t] = <<>> THEN REST ELSE taken[t][1].message]

Queue == INSTANCE PaddedQueue WITH
           count <- Len(sent), queue <- Tokens, taken <- TakenTokens, exact <- reader = "client"

\* As long as no text is cut and every write is whole, either end sees PaddedQueue.
KeepsQueue == Queue!Init /\ [][~cuts /\ ~short_write' => [Queue!Next]_(Queue!vars)]_vars

-----------------------------------------------------------------------------
\* "If its not a kill signal we have a new config": what the client acts upon is a
\* text that the server has sent, provided that no text is cut.
TakesConfigs ==
  reader = "client" /\ ~cuts => \A t \in DOMAIN taken : taken[t] \in Taken("config") \cup Taken("EGGZIT")
=============================================================================
