--------------------------- MODULE Framing_proofs ---------------------------
(***************************************************************************)
(* What Framing guarantees for messages of any size and texts of any       *)
(* length, proved with TLAPS.                                              *)
(***************************************************************************)
EXTENDS Framing, SequenceTheorems, WellFoundedInduction, TLAPS

-----------------------------------------------------------------------------
(***************************************************************************)
(* Places in the stream.                                                   *)
(***************************************************************************)
\* How many units were written up to this one, when every write was whole.
Offset(u) == BUFFER_SIZE * (u.message - 1) + u.at

LEMMA Distribute ==
  ASSUME NEW b \in Int, NEW p \in Int, NEW q \in Int
  PROVE  b * (p - 1) - b * (q - 1) = b * (p - q) /\ b * p - b * q = b * (p - q)
OBVIOUS

\* A multiple of b within less than b of a place between 0 and b.
LEMMA Multiple ==
  ASSUME NEW b \in Nat, NEW n \in Int, b * n > -b, b * n <= b
  PROVE  n = 0 \/ n = 1
<1>1. CASE n >= 2
  <2>1. b * n >= b * 2
    BY <1>1
  <2> QED BY <2>1
<1>2. CASE n <= -1
  <2>1. b * n <= b * (-1)
    BY <1>2
  <2> QED BY <2>1
<1> QED BY <1>1, <1>2

\* Two places less than a message apart are in one message or in two that follow.
LEMMA Following ==
  ASSUME NEW u \in Units, NEW v \in Units, NEW d \in 0 .. BUFFER_SIZE - 1,
         Offset(v) = Offset(u) + d
  PROVE  \/ v.message = u.message /\ v.at = u.at + d
         \/ v.message = u.message + 1 /\ v.at = u.at + d - BUFFER_SIZE
<1> DEFINE b == BUFFER_SIZE
           n == v.message - u.message
<1>1. /\ u.message \in Nat /\ v.message \in Nat /\ b \in Nat /\ n \in Int /\ d \in Int
      /\ u.at \in 1 .. b /\ v.at \in 1 .. b
  BY SizeAssumption DEF SizeAssumption, Units
<1>2. b * (v.message - 1) + v.at = b * (u.message - 1) + u.at + d
  BY DEF Offset
<1>3. b * n = u.at + d - v.at
  <2> DEFINE p == b * (v.message - 1)
             q == b * (u.message - 1)
  <2>1. p - q = b * n /\ p \in Int /\ q \in Int
    <3>1. b \in Int /\ v.message \in Int /\ u.message \in Int
      BY <1>1
    <3>2. p - q = b * (v.message - u.message)
      BY <3>1, Distribute, Zenon
    <3>3. p \in Int /\ q \in Int
      BY <3>1
    <3> QED BY <3>2, <3>3
  <2>2. p + v.at = q + u.at + d
    BY <1>2
  <2>3. \A r, x, y \in Int : p - q = r /\ p + y = q + x + d => r = x + d - y
    <3> HIDE DEF p, q
    <3> QED BY <1>1, <2>1
  <2>4. b * n \in Int /\ u.at \in Int /\ v.at \in Int
    BY <1>1
  <2> HIDE DEF p, q, b, n
  <2> QED BY <2>1, <2>2, <2>3, <2>4
<1>4. v.message = u.message + n
  BY <1>1
<1> HIDE DEF n
<1>5. b * n > -b /\ b * n <= b
  <2> HIDE DEF b
  <2> QED BY <1>1, <1>3 DEF b
<1>6. n = 0 \/ n = 1
  BY <1>1, <1>5, Multiple
<1>7. (n = 0 => b * n = 0) /\ (n = 1 => b * n = b)
  BY <1>1
<1>8. CASE n = 0
  BY <1>1, <1>3, <1>4, <1>7, <1>8
<1>9. CASE n = 1
  BY <1>1, <1>3, <1>4, <1>7, <1>9
<1> QED BY <1>6, <1>8, <1>9

\* The units of a message, at their places.
LEMMA MessageUnits ==
  ASSUME NEW i \in 1 .. MaxMessages
  PROVE  /\ Message(i) \in Seq(Units) /\ Len(Message(i)) = BUFFER_SIZE
         /\ \A a \in 1 .. BUFFER_SIZE : Message(i)[a].message = i /\ Message(i)[a].at = a
         /\ \A a \in 1 .. BUFFER_SIZE : Offset(Message(i)[a]) = BUFFER_SIZE * (i - 1) + a
BY SizeAssumption DEF SizeAssumption, Message, Units, Offset

-----------------------------------------------------------------------------
(***************************************************************************)
(* The string at the start of a buffer.                                    *)
(***************************************************************************)
LEMMA Least ==
  ASSUME NEW I \in SUBSET Nat, I # {}
  PROVE  Min(I) \in I /\ \A i \in I : Min(I) <= i
<1> DEFINE R == {ss \in Nat \X Nat : ss[1] < ss[2]}
<1>1. IsWellFoundedOn(R, Nat)
  BY NatLessThanWellFounded, Zenon DEF OpToRel
<1> HIDE DEF R
<1>2. PICK x \in I : \A y \in I : <<y, x>> \notin R
  BY <1>1, WFMin
<1>3. \A y \in I : x <= y
  <2>1. ASSUME NEW y \in I PROVE x <= y
    <3>1. <<y, x>> \in Nat \X Nat /\ <<y, x>>[1] = y /\ <<y, x>>[2] = x
      OBVIOUS
    <3>2. ~(<<y, x>>[1] < <<y, x>>[2])
      BY <1>2, <3>1, Zenon DEF R
    <3> QED BY <3>1, <3>2
  <2> QED BY <2>1
<1> QED BY <1>3 DEF Min

LEMMA StringStarts ==
  ASSUME NEW buffer \in Seq(Units)
  PROVE  /\ String(buffer) \in Seq(Units)
         /\ Len(String(buffer)) \in 0 .. Len(buffer)
         /\ \A i \in 1 .. Len(String(buffer)) :
              String(buffer)[i] = buffer[i] /\ IsText(buffer[i])
         /\ Len(String(buffer)) < Len(buffer) => ~IsText(buffer[Len(String(buffer)) + 1])
<1> DEFINE I == {i \in 1 .. Len(buffer) : ~IsText(buffer[i])}
<1>1. Blank(buffer) = IF I # {} THEN Min(I) ELSE 0
  BY DEF Blank, SelectInSeq
<1>2. CASE I = {}
  BY <1>1, <1>2 DEF String
<1>3. CASE I # {}
  <2> DEFINE k == Min(I)
  <2>1. k \in I /\ \A i \in I : k <= i
    <3>1. I \in SUBSET Nat
      OBVIOUS
    <3> HIDE DEF I
    <3> QED BY <1>3, <3>1, Least
  <2>0. String(buffer) = IF k = 0 THEN buffer ELSE SubSeq(buffer, 1, k - 1)
    BY <1>1, <1>3 DEF String
  <2> HIDE DEF k
  <2>2. k \in 1 .. Len(buffer) /\ ~IsText(buffer[k]) /\ \A i \in 1 .. k - 1 : IsText(buffer[i])
    BY <2>1
  <2>3. String(buffer) = SubSeq(buffer, 1, k - 1)
    BY <2>0, <2>2
  <2>4. /\ SubSeq(buffer, 1, k - 1) \in Seq(Units) /\ Len(SubSeq(buffer, 1, k - 1)) = k - 1
        /\ \A i \in 1 .. k - 1 : SubSeq(buffer, 1, k - 1)[i] = buffer[i]
    BY <2>2
  <2> QED BY <2>2, <2>3, <2>4
<1> QED BY <1>2, <1>3

-----------------------------------------------------------------------------
(***************************************************************************)
(* What a write and a read do to the wire.                                 *)
(***************************************************************************)
LEMMA WriteEffect ==
  ASSUME TypeOK, NEW kind \in Kinds, write(kind)
  PROVE  /\ Len(sent) \in Nat /\ Len(sent) + 1 \in 1 .. MaxMessages
         /\ sent' \in Seq(Kinds) /\ Len(sent') = Len(sent) + 1
         /\ \A j \in 1 .. Len(sent) : sent'[j] = sent[j]
         /\ Fits(kind) \in 0 .. BUFFER_SIZE
         /\ wire' \in Seq(Units) /\ Len(wire') = Len(wire) + Fits(kind)
         /\ Len(wire') <= MaxUnits
         /\ \A j \in 1 .. Len(wire) : wire'[j] = wire[j]
         /\ \A j \in 1 .. Fits(kind) : wire'[Len(wire) + j] = Message(Len(sent) + 1)[j]
         /\ ~short_write' => ~short_write /\ Fits(kind) = BUFFER_SIZE
<1> DEFINE i == Len(sent) + 1
           n == Fits(kind)
           s == SubSeq(Message(i), 1, n)
<1>1. /\ sent \in Seq(Kinds) /\ Len(sent) \in Nat /\ i \in 1 .. MaxMessages
      /\ wire \in Seq(Units) /\ Len(wire) \in Nat /\ MaxUnits - Len(wire) \in Nat
      /\ BUFFER_SIZE \in Nat
  BY SizeAssumption DEF SizeAssumption, TypeOK, write
<1>2. sent' \in Seq(Kinds) /\ Len(sent') = i /\ \A j \in 1 .. Len(sent) : sent'[j] = sent[j]
  BY <1>1, AppendProperties DEF write
<1>3. /\ Message(i) \in Seq(Units) /\ Len(Message(i)) = BUFFER_SIZE
  BY <1>1, MessageUnits
<1>4. n \in {BUFFER_SIZE, MaxUnits - Len(wire)} /\ n <= BUFFER_SIZE /\ n <= MaxUnits - Len(wire)
  <2>1. n = Min({BUFFER_SIZE, MaxUnits - Len(wire)})
    BY <1>3 DEF Fits, Frame
  <2>2. {BUFFER_SIZE, MaxUnits - Len(wire)} \in SUBSET Nat
    BY <1>1
  <2> HIDE DEF n
  <2> QED BY <2>1, <2>2, Least
<1>5. n \in 0 .. BUFFER_SIZE
  BY <1>1, <1>4
<1>6. /\ s \in Seq(Units) /\ Len(s) = n
      /\ \A j \in 1 .. n : s[j] = Message(i)[j]
  <2> HIDE DEF i, n
  <2> QED BY <1>1, <1>3, <1>5
<1>7. wire' = wire \o s
  BY DEF write, Frame
<1>8. ~short_write' => ~short_write /\ n = BUFFER_SIZE
  <2>1. short_write' = (short_write \/ n < Len(Message(i)))
    BY DEF write, Frame
  <2>2. short_write \in BOOLEAN
    BY DEF TypeOK
  <2> HIDE DEF i, n
  <2>3. ~short_write' => ~short_write /\ ~(n < BUFFER_SIZE)
    BY <1>3, <2>1, <2>2
  <2> QED BY <1>1, <1>5, <2>3
<1> HIDE DEF i, n, s
<1>9. /\ wire' \in Seq(Units) /\ Len(wire') = Len(wire) + n
      /\ \A j \in 1 .. Len(wire) : wire'[j] = wire[j]
      /\ \A j \in 1 .. n : wire'[Len(wire) + j] = s[j]
  <2>1. /\ wire \o s \in Seq(Units) /\ Len(wire \o s) = Len(wire) + n
        /\ \A j \in 1 .. Len(wire) + n :
             (wire \o s)[j] = IF j <= Len(wire) THEN wire[j] ELSE s[j - Len(wire)]
    BY <1>1, <1>6, ConcatProperties
  <2>2. \A j \in 1 .. Len(wire) : (wire \o s)[j] = wire[j]
    BY <1>1, <1>5, <2>1
  <2>3. ASSUME NEW j \in 1 .. n PROVE (wire \o s)[Len(wire) + j] = s[j]
    <3>1. Len(wire) + j \in 1 .. Len(wire) + n /\ ~(Len(wire) + j <= Len(wire))
          /\ (Len(wire) + j) - Len(wire) = j
      BY <1>1, <1>5
    <3> QED BY <2>1, <3>1
  <2> QED BY <1>7, <2>1, <2>2, <2>3
<1>10. Len(wire') <= MaxUnits
  BY <1>1, <1>4, <1>9, SizeAssumption DEF SizeAssumption
<1> QED BY <1>1, <1>2, <1>5, <1>6, <1>8, <1>9, <1>10 DEF i, n

LEMMA ChunkEffect ==
  ASSUME TypeOK, NEW n, Chunk(n)
  PROVE  /\ n \in 1 .. BUFFER_SIZE /\ n <= Len(wire) /\ Len(wire) \in Nat /\ BUFFER_SIZE \in Nat
         /\ wire' \in Seq(Units) /\ Len(wire') = Len(wire) - n
         /\ \A j \in 1 .. Len(wire) - n : wire'[j] = wire[n + j]
         /\ SubSeq(wire, 1, n) \in Seq(Units) /\ Len(SubSeq(wire, 1, n)) = n
         /\ \A j \in 1 .. n : SubSeq(wire, 1, n)[j] = wire[j]
<1>1. /\ wire \in Seq(Units) /\ Len(wire) \in Nat /\ n \in 1 .. BUFFER_SIZE /\ n <= Len(wire)
      /\ wire' = SubSeq(wire, n + 1, Len(wire)) /\ BUFFER_SIZE \in Nat
  BY SizeAssumption DEF SizeAssumption, TypeOK, Chunk
<1>2. /\ wire' \in Seq(Units) /\ Len(wire') = Len(wire) - n
      /\ \A j \in 1 .. Len(wire) - n : wire'[j] = wire[n + j]
  BY <1>1
<1>3. /\ SubSeq(wire, 1, n) \in Seq(Units) /\ Len(SubSeq(wire, 1, n)) = n
      /\ \A j \in 1 .. n : SubSeq(wire, 1, n)[j] = wire[j]
  BY <1>1
<1> QED BY <1>1, <1>2, <1>3

\* A step is a write, or a read of which the reader takes the string or nothing.
LEMMA Reads ==
  ASSUME TypeOK, NEW n, ServerReads(n) \/ ClientReads(n) \/ ThrowsAway(n)
  PROVE  /\ Chunk(n) /\ UNCHANGED <<reader, cuts, sent, ended, short_write>>
         /\ over' \in BOOLEAN
         /\ taken' \in {taken, Append(taken, String(SubSeq(wire, 1, n)))}
BY DEF ServerReads, ClientReads, ThrowsAway, Chunk, TypeOK

-----------------------------------------------------------------------------
(***************************************************************************)
(* Type correctness.                                                       *)
(***************************************************************************)
LEMMA FramingTypeInit == Init => TypeOK
<1> SUFFICES ASSUME Init PROVE TypeOK
  OBVIOUS
<1>1. sent \in Seq(Kinds) /\ wire \in Seq(Units) /\ taken \in Seq(Seq(Units))
  BY DEF Init
<1>2. Len(sent) <= MaxMessages /\ Len(wire) <= MaxUnits
  BY SizeAssumption DEF SizeAssumption, Init
<1> QED BY <1>1, <1>2 DEF Init, TypeOK

LEMMA FramingTypeNext == TypeOK /\ [Next]_vars => TypeOK'
<1> SUFFICES ASSUME TypeOK, [Next]_vars PROVE TypeOK'
  OBVIOUS
<1>1. ASSUME NEW kind \in Kinds, write(kind) PROVE TypeOK'
  <2>1. /\ sent' \in Seq(Kinds) /\ Len(sent') <= MaxMessages
        /\ wire' \in Seq(Units) /\ Len(wire') <= MaxUnits
    BY <1>1, WriteEffect
  <2>2. /\ UNCHANGED <<reader, cuts, taken, over, short_read>>
        /\ short_write' \in BOOLEAN /\ ended' \in BOOLEAN
    BY <1>1 DEF write, TypeOK
  <2> QED BY <2>1, <2>2 DEF TypeOK
<1>2. ASSUME NEW n, ServerReads(n) \/ ClientReads(n) \/ ThrowsAway(n) PROVE TypeOK'
  <2>1. Chunk(n) /\ over' \in BOOLEAN /\ UNCHANGED <<reader, cuts, sent, ended, short_write>>
    BY <1>2, Reads
  <2>2. wire' \in Seq(Units) /\ Len(wire') <= MaxUnits
    BY <2>1, ChunkEffect, SizeAssumption DEF SizeAssumption, TypeOK
  <2>3. String(SubSeq(wire, 1, n)) \in Seq(Units)
    BY <2>1, ChunkEffect, StringStarts
  <2>4. taken' \in Seq(Seq(Units))
    <3>1. taken \in Seq(Seq(Units))
      BY DEF TypeOK
    <3>2. Append(taken, String(SubSeq(wire, 1, n))) \in Seq(Seq(Units))
      BY <2>3, <3>1, AppendProperties
    <3> QED BY <1>2, <3>1, <3>2, Reads
  <2>5. short_read' \in BOOLEAN
    BY <2>1 DEF Chunk, TypeOK
  <2> QED BY <2>1, <2>2, <2>4, <2>5 DEF TypeOK
<1>3. CASE UNCHANGED vars
  BY <1>3 DEF vars, TypeOK
<1> QED BY <1>1, <1>2, <1>3 DEF Next, read

\* Every reachable state is well typed: no write puts more on the wire than fits, and
\* what the reader takes are sequences of units.
THEOREM FramingTypeCorrect == Spec => []TypeOK
<1>1. Init => TypeOK
  BY FramingTypeInit
<1>2. TypeOK /\ [Next]_vars => TypeOK'
  BY FramingTypeNext
<1> QED BY <1>1, <1>2, PTL DEF Spec

-----------------------------------------------------------------------------
(***************************************************************************)
(* The stream.  As long as every write was whole the wire is the end of    *)
(* one stream of messages; what was read without a cut of a text begins    *)
(* behind a text; a client takes the first thing it reads.                 *)
(***************************************************************************)
Consecutive == \A j \in 1 .. Len(wire) : Offset(wire[j]) = BUFFER_SIZE * Len(sent) - Len(wire) + j
Untouched   == reader = "client" /\ taken = <<>> => Len(wire) = BUFFER_SIZE * Len(sent)
BehindText  == ~cuts /\ wire # <<>> => wire[1].at = 1 \/ ~IsText(wire[1])
TakesAll    == ~short_read => /\ Len(taken) <= Len(sent)
                              /\ \A i \in 1 .. Len(taken) : taken[i] = Text(i)
                              /\ Len(wire) = BUFFER_SIZE * (Len(sent) - Len(taken))
OneText     == \A t \in 1 .. Len(taken) : \A i, j \in 1 .. Len(taken[t]) :
                 taken[t][i].message = taken[t][j].message

StreamInv ==
  /\ \A j \in 1 .. Len(wire) : wire[j].message <= Len(sent)
  /\ ~short_write => Consecutive /\ Untouched /\ BehindText /\ TakesAll /\ OneText

LEMMA OneMore ==
  ASSUME NEW b \in Int, NEW p \in Int
  PROVE  b * (p + 1) = b * p + b /\ b * (p - 1) = b * p - b /\ b * p \in Int
OBVIOUS

\* A unit is known by its place.
LEMMA Located ==
  ASSUME NEW u \in Units, NEW i \in 1 .. MaxMessages, NEW a \in 1 .. BUFFER_SIZE,
         Offset(u) = BUFFER_SIZE * (i - 1) + a
  PROVE  u.message = i /\ u.at = a
<1> DEFINE v == Message(i)[a]
<1>1. v \in Units /\ v.message = i /\ v.at = a /\ Offset(v) = BUFFER_SIZE * (i - 1) + a
  BY MessageUnits DEF Message, Units
<1> HIDE DEF v
<1>2. u.at \in 1 .. BUFFER_SIZE /\ BUFFER_SIZE \in Nat /\ 0 \in 0 .. BUFFER_SIZE - 1
  BY SizeAssumption DEF SizeAssumption, Units
<1>3. Offset(u) = Offset(v) + 0
  <2>1. BUFFER_SIZE * (i - 1) + a \in Int
    BY <1>2
  <2> QED BY <1>1, <2>1
<1>4. \/ u.message = v.message /\ u.at = v.at + 0
      \/ u.message = v.message + 1 /\ u.at = v.at + 0 - BUFFER_SIZE
  BY <1>1, <1>2, <1>3, Following, Zenon
<1> QED BY <1>1, <1>2, <1>4

\* The text of a message that was written.
LEMMA TextUnits ==
  ASSUME TypeOK, NEW m \in 1 .. Len(sent)
  PROVE  /\ TextLength[sent[m]] \in 1 .. BUFFER_SIZE - 1 /\ BUFFER_SIZE \in Nat
         /\ Text(m) \in Seq(Units) /\ Len(Text(m)) = TextLength[sent[m]]
         /\ \A a \in 1 .. TextLength[sent[m]] : Text(m)[a] = Message(m)[a]
<1> DEFINE T == TextLength[sent[m]]
<1>1. T \in 1 .. BUFFER_SIZE - 1 /\ BUFFER_SIZE \in Nat /\ m \in 1 .. MaxMessages
  BY SizeAssumption DEF SizeAssumption, TypeOK
<1>2. Text(m) = SubSeq(Message(m), 1, T)
  BY DEF Text
<1>3. Message(m) \in Seq(Units) /\ Len(Message(m)) = BUFFER_SIZE
  BY <1>1, MessageUnits
<1> HIDE DEF T
<1>4. /\ SubSeq(Message(m), 1, T) \in Seq(Units) /\ Len(SubSeq(Message(m), 1, T)) = T
      /\ \A a \in 1 .. T : SubSeq(Message(m), 1, T)[a] = Message(m)[a]
  BY <1>1, <1>3
<1> QED BY <1>1, <1>2, <1>4 DEF T

\* A buffer that begins with a text and a unit of its padding gives that text.
LEMMA WholeText ==
  ASSUME TypeOK, NEW m \in 1 .. Len(sent), NEW buffer \in Seq(Units),
         Len(buffer) > TextLength[sent[m]],
         \A a \in 1 .. TextLength[sent[m]] + 1 : buffer[a].message = m /\ buffer[a].at = a
  PROVE  String(buffer) = Text(m) /\ Len(Text(m)) = TextLength[sent[m]]
<1> DEFINE T == TextLength[sent[m]]
           k == Len(String(buffer))
<1>1. /\ T \in 1 .. BUFFER_SIZE - 1 /\ BUFFER_SIZE \in Nat
      /\ Text(m) \in Seq(Units) /\ Len(Text(m)) = T
      /\ \A a \in 1 .. T : Text(m)[a] = Message(m)[a]
  BY TextUnits
<1>2. /\ String(buffer) \in Seq(Units) /\ k \in 0 .. Len(buffer)
      /\ \A i \in 1 .. k : String(buffer)[i] = buffer[i] /\ IsText(buffer[i])
      /\ k < Len(buffer) => ~IsText(buffer[k + 1])
  BY StringStarts
<1>3. \A a \in 1 .. T + 1 : IsText(buffer[a]) <=> a <= T
  BY DEF IsText
<1>4. Len(buffer) \in Nat
  OBVIOUS
<1> HIDE DEF T, k
<1>5. k = T
  <2>1. CASE k < T
    <3>1. k + 1 \in 1 .. T + 1 /\ k + 1 <= T /\ k < Len(buffer)
      BY <1>1, <1>2, <1>4, <2>1 DEF T
    <3> QED BY <1>2, <1>3, <3>1
  <2>2. CASE k > T
    <3>1. T + 1 \in 1 .. T + 1 /\ T + 1 \in 1 .. k /\ ~(T + 1 <= T)
      BY <1>1, <1>2, <2>2
    <3> QED BY <1>2, <1>3, <3>1
  <2> QED BY <1>1, <1>2, <2>1, <2>2
<1>6. ASSUME NEW a \in 1 .. T PROVE buffer[a] = Message(m)[a]
  <2>1. a \in 1 .. Len(buffer) /\ a \in 1 .. T + 1 /\ a \in 1 .. BUFFER_SIZE
    BY <1>1, <1>4 DEF T
  <2>2. buffer[a] \in Units /\ buffer[a].message = m /\ buffer[a].at = a
    BY <2>1 DEF T
  <2> QED BY <2>1, <2>2 DEF Units, Message
<1>7. Len(String(buffer)) = Len(Text(m)) /\ \A a \in 1 .. Len(String(buffer)) : String(buffer)[a] = Text(m)[a]
  BY <1>1, <1>2, <1>5, <1>6 DEF k
<1> QED BY <1>1, <1>2, <1>7, SeqEqual DEF T

LEMMA WireUnits ==
  ASSUME TypeOK
  PROVE  /\ Len(wire) \in Nat /\ Len(sent) \in Nat /\ BUFFER_SIZE \in Nat /\ MaxMessages \in Nat
         /\ wire = <<>> <=> Len(wire) = 0
         /\ \A j \in 1 .. Len(wire) : /\ wire[j] \in Units
                                      /\ wire[j].message \in 1 .. MaxMessages
                                      /\ wire[j].at \in 1 .. BUFFER_SIZE
         /\ BUFFER_SIZE * Len(sent) \in Nat
<1>1. /\ wire \in Seq(Units) /\ sent \in Seq(Kinds) /\ BUFFER_SIZE \in Nat /\ MaxMessages \in Nat
  BY SizeAssumption DEF SizeAssumption, TypeOK
<1>2. Len(sent) \in Nat /\ Len(wire) \in Nat /\ (wire = <<>> <=> Len(wire) = 0)
  BY <1>1
<1>3. \A j \in 1 .. Len(wire) : wire[j] \in Units
  BY <1>1
<1>4. \A u \in Units : u.message \in 1 .. MaxMessages /\ u.at \in 1 .. BUFFER_SIZE
  BY DEF Units
<1> QED BY <1>1, <1>2, <1>3, <1>4

\* Two units of the wire less than a message apart.
LEMMA Ahead ==
  ASSUME TypeOK, Consecutive, NEW i \in 1 .. Len(wire), NEW j \in i .. Len(wire),
         j - i < BUFFER_SIZE
  PROVE  \/ wire[j].message = wire[i].message /\ wire[j].at = wire[i].at + (j - i)
         \/ /\ wire[j].message = wire[i].message + 1
            /\ wire[j].at = wire[i].at + (j - i) - BUFFER_SIZE
<1>1. /\ j \in 1 .. Len(wire) /\ j - i \in 0 .. BUFFER_SIZE - 1
      /\ wire[i] \in Units /\ wire[j] \in Units
  BY WireUnits
<1>2. Offset(wire[j]) = Offset(wire[i]) + (j - i)
  <2> DEFINE all == BUFFER_SIZE * Len(sent)
  <2>1. Offset(wire[j]) = all - Len(wire) + j /\ Offset(wire[i]) = all - Len(wire) + i
    BY <1>1 DEF Consecutive
  <2>2. all \in Int /\ Len(wire) \in Int /\ i \in Int /\ j \in Int
    BY <1>1, WireUnits
  <2> HIDE DEF all
  <2> QED BY <2>1, <2>2
<1> QED BY <1>1, <1>2, Following

\* The unit on the wire as far behind the first as there are units left in its message.
LEMMA LastUnit ==
  ASSUME TypeOK, Consecutive, NEW e \in 1 .. Len(wire), wire[1].at + (e - 1) = BUFFER_SIZE
  PROVE  wire[e].at = BUFFER_SIZE
<1>1. /\ 1 \in 1 .. Len(wire) /\ e \in 1 .. Len(wire) /\ e \in Int /\ BUFFER_SIZE \in Nat
      /\ wire[1].at \in 1 .. BUFFER_SIZE /\ wire[e].at \in 1 .. BUFFER_SIZE
  BY WireUnits
<1> DEFINE x == wire[1].at
           y == wire[e].at
<1>2. x + (e - 1) = BUFFER_SIZE
  OBVIOUS
<1>3. e - 1 < BUFFER_SIZE
  <2> HIDE DEF x, y
  <2> QED BY <1>1, <1>2 DEF x
<1>4. y = x + (e - 1) \/ y = x + (e - 1) - BUFFER_SIZE
  BY <1>1, <1>3, Ahead
<1> HIDE DEF x, y
<1>5. x \in 1 .. BUFFER_SIZE /\ y \in 1 .. BUFFER_SIZE
  BY <1>1 DEF x, y
<1>6. y = BUFFER_SIZE
  BY <1>1, <1>2, <1>4, <1>5
<1> QED BY <1>6 DEF y

\* Between the text at the start of a read and the next one there is a zero.
LEMMA Parted ==
  ASSUME TypeOK, StreamInv, ~short_write, NEW n, Chunk(n)
  PROVE  LET text == String(SubSeq(wire, 1, n))
         IN  \A i, j \in 1 .. Len(text) : text[i].message = text[j].message
<1> DEFINE buffer == SubSeq(wire, 1, n)
           text == String(buffer)
           k == Len(text)
<1>1. /\ n \in 1 .. BUFFER_SIZE /\ n <= Len(wire) /\ BUFFER_SIZE \in Nat /\ Len(wire) \in Nat
      /\ buffer \in Seq(Units) /\ Len(buffer) = n
      /\ \A j \in 1 .. n : buffer[j] = wire[j]
  BY ChunkEffect
<1>2. /\ k \in 0 .. Len(buffer)
      /\ \A i \in 1 .. k : text[i] = buffer[i] /\ IsText(buffer[i])
  BY <1>1, StringStarts
<1> HIDE DEF buffer, text, k
<1>3. \A i \in 1 .. k : i \in 1 .. n /\ i \in 1 .. Len(wire) /\ text[i] = wire[i] /\ IsText(wire[i])
  BY <1>1, <1>2
<1>4. ASSUME NEW i \in 1 .. k PROVE text[i].message = wire[1].message
  <2>1. /\ i \in 1 .. Len(wire) /\ 1 \in 1 .. Len(wire) /\ i - 1 < BUFFER_SIZE /\ i \in 1 .. n
    BY <1>1, <1>3
  <2>2. Consecutive /\ \A j \in 1 .. Len(wire) : wire[j].message <= Len(sent)
    BY DEF StreamInv
  <2>3. \/ wire[i].message = wire[1].message /\ wire[i].at = wire[1].at + (i - 1)
        \/ /\ wire[i].message = wire[1].message + 1
           /\ wire[i].at = wire[1].at + (i - 1) - BUFFER_SIZE
    BY <2>1, <2>2, Ahead
  <2>4. CASE wire[i].at = wire[1].at + (i - 1) - BUFFER_SIZE
    <3> DEFINE e == BUFFER_SIZE - wire[1].at + 1
    <3>1. wire[1].at \in 1 .. BUFFER_SIZE /\ wire[i].at \in 1 .. BUFFER_SIZE
      BY <2>1, WireUnits
    <3>2. e \in 1 .. i /\ e \in 1 .. k /\ e \in 1 .. Len(wire) /\ e - 1 < BUFFER_SIZE
      BY <1>1, <1>2, <2>1, <2>4, <3>1
    <3>3. wire[1].at + (e - 1) = BUFFER_SIZE
      BY <1>1, <3>1
    <3> HIDE DEF e
    <3>4. wire[e].at = BUFFER_SIZE
      BY <2>1, <2>2, <3>2, <3>3, LastUnit
    <3>5. wire[e].at = BUFFER_SIZE /\ wire[e].message \in 1 .. Len(sent)
      <4> DEFINE m == wire[e].message
      <4>1. m \in 1 .. MaxMessages /\ m <= Len(sent)
        BY <2>2, <3>2, WireUnits
      <4>2. Len(sent) \in Nat /\ MaxMessages \in Nat
        BY WireUnits
      <4> HIDE DEF m
      <4>3. m \in 1 .. Len(sent)
        BY <4>1, <4>2
      <4> QED BY <3>4, <4>3 DEF m
    <3>6. IsText(wire[e])
      BY <1>3, <3>2
    <3>7. TextLength[sent[wire[e].message]] \in 1 .. BUFFER_SIZE - 1
      BY <3>5, TextUnits
    <3>8. FALSE
      BY <1>1, <3>5, <3>6, <3>7 DEF IsText
    <3> QED BY <3>8
  <2> QED BY <1>3, <2>3, <2>4
<1>5. \A i, j \in 1 .. k : text[i].message = text[j].message
  BY <1>4
<1> QED BY <1>5 DEF k, text, buffer

-----------------------------------------------------------------------------
(***************************************************************************)
(* Writes and reads keep the stream.                                       *)
(***************************************************************************)
LEMMA StreamWrite ==
  ASSUME TypeOK, TypeOK', StreamInv, NEW kind \in Kinds, write(kind)
  PROVE  StreamInv'
<1> DEFINE W == Len(wire)
           L == Len(sent)
           X == BUFFER_SIZE * Len(sent)
           n == Fits(kind)
<1>1. /\ L \in Nat /\ L + 1 \in 1 .. MaxMessages /\ W \in Nat /\ BUFFER_SIZE \in Nat
      /\ n \in 0 .. BUFFER_SIZE /\ X \in Nat
      /\ sent' \in Seq(Kinds) /\ Len(sent') = L + 1 /\ \A j \in 1 .. L : sent'[j] = sent[j]
      /\ Len(wire') = W + n
      /\ \A j \in 1 .. W : wire'[j] = wire[j]
      /\ \A j \in 1 .. n : wire'[W + j] = Message(L + 1)[j]
      /\ ~short_write' => ~short_write /\ n = BUFFER_SIZE
  BY WriteEffect, WireUnits
<1>2. UNCHANGED <<reader, cuts, taken, short_read>>
  BY DEF write
<1>3. /\ \A a \in 1 .. BUFFER_SIZE : Message(L + 1)[a].message = L + 1 /\ Message(L + 1)[a].at = a
      /\ \A a \in 1 .. BUFFER_SIZE : Offset(Message(L + 1)[a]) = BUFFER_SIZE * (L + 1 - 1) + a
  <2> DEFINE m == L + 1
  <2>1. m \in 1 .. MaxMessages
    BY <1>1
  <2> HIDE DEF m
  <2>2. /\ \A a \in 1 .. BUFFER_SIZE : Message(m)[a].message = m /\ Message(m)[a].at = a
        /\ \A a \in 1 .. BUFFER_SIZE : Offset(Message(m)[a]) = BUFFER_SIZE * (m - 1) + a
    BY <2>1, MessageUnits
  <2> QED BY <2>2 DEF m
<1>4. BUFFER_SIZE * (L + 1) = X + BUFFER_SIZE /\ BUFFER_SIZE * (L + 1 - 1) = X
  <2>1. L + 1 - 1 = L
    BY <1>1
  <2> QED BY <1>1, <2>1, OneMore
<1>5. /\ \A j \in 1 .. W : wire[j].message \in 1 .. L
      /\ ~short_write => Consecutive /\ Untouched /\ BehindText /\ TakesAll /\ OneText
  BY <1>1, WireUnits DEF StreamInv
<1> HIDE DEF W, L, X, n
<1>6. ASSUME NEW j \in 1 .. Len(wire')
      PROVE  \/ j \in 1 .. W /\ wire'[j] = wire[j]
             \/ \E a \in 1 .. n : j = W + a /\ wire'[j] = Message(L + 1)[a]
  <2>1. CASE j <= W
    BY <1>1, <2>1
  <2>2. CASE ~(j <= W)
    <3>1. j - W \in 1 .. n /\ j = W + (j - W)
      BY <1>1, <2>2
    <3> QED BY <1>1, <3>1
  <2> QED BY <2>1, <2>2
<1>7. \A j \in 1 .. Len(wire') : wire'[j].message <= Len(sent')
  <2> TAKE j \in 1 .. Len(wire')
  <2>1. CASE j \in 1 .. W /\ wire'[j] = wire[j]
    BY <1>1, <1>5, <2>1
  <2>2. ASSUME NEW a \in 1 .. n, wire'[j] = Message(L + 1)[a] PROVE wire'[j].message <= Len(sent')
    BY <1>1, <1>3, <2>2
  <2> QED BY <1>6, <2>1, <2>2
<1>8. ASSUME ~short_write'
      PROVE  (Consecutive /\ Untouched /\ BehindText /\ TakesAll /\ OneText)'
  <2>1. Consecutive /\ Untouched /\ BehindText /\ TakesAll /\ OneText /\ n = BUFFER_SIZE
    BY <1>1, <1>5, <1>8
  <2>2. BUFFER_SIZE * Len(sent') = X + BUFFER_SIZE /\ Len(wire') = W + BUFFER_SIZE
    BY <1>1, <1>4, <2>1
  <2>3. Consecutive'
    <3>1. ASSUME NEW j \in 1 .. Len(wire')
          PROVE  Offset(wire'[j]) = BUFFER_SIZE * Len(sent') - Len(wire') + j
      <4>1. CASE j \in 1 .. W /\ wire'[j] = wire[j]
        <5>1. Offset(wire'[j]) = X - W + j
          BY <2>1, <4>1 DEF Consecutive, X, W
        <5> QED BY <1>1, <2>2, <5>1
      <4>2. ASSUME NEW a \in 1 .. n, j = W + a, wire'[j] = Message(L + 1)[a]
            PROVE  Offset(wire'[j]) = BUFFER_SIZE * Len(sent') - Len(wire') + j
        <5>1. Offset(Message(L + 1)[a]) = BUFFER_SIZE * (L + 1 - 1) + a
          BY <1>1, <1>3, <4>2
        <5>2. Offset(wire'[j]) = X + a
          BY <1>4, <4>2, <5>1, Zenon
        <5>3. a \in Int /\ W \in Int /\ X \in Int /\ BUFFER_SIZE \in Int
          BY <1>1
        <5> DEFINE x == BUFFER_SIZE * Len(sent')
                   y == Len(wire')
                   o == Offset(wire'[j])
        <5>4. x = X + BUFFER_SIZE /\ y = W + BUFFER_SIZE /\ o = X + a
          BY <2>2, <5>2
        <5> HIDE DEF x, y, o
        <5>5. o = x - y + j
          BY <4>2, <5>3, <5>4
        <5> QED BY <5>5 DEF x, y, o
      <4> QED BY <1>6, <4>1, <4>2
    <3> QED BY <3>1 DEF Consecutive
  <2>4. Untouched'
    BY <1>2, <2>1, <2>2 DEF Untouched, W, X
  <2>5. BehindText'
    <3>1. CASE W = 0
      <4>1. 1 \in 1 .. n /\ W + 1 = 1
        <5>1. BUFFER_SIZE # 0
          BY SizeAssumption DEF SizeAssumption
        <5> QED BY <1>1, <2>1, <3>1, <5>1
      <4>2. wire'[1].at = 1
        BY <1>1, <1>3, <2>1, <4>1
      <4> QED BY <4>2 DEF BehindText
    <3>2. CASE W # 0
      <4>1. 1 \in 1 .. W /\ wire # <<>> /\ wire'[1] = wire[1]
        BY <1>1, <3>2, WireUnits DEF W
      <4>2. IsText(wire[1])' <=> IsText(wire[1])
        BY <1>1, <1>5, <4>1 DEF IsText
      <4> QED BY <1>2, <2>1, <4>1, <4>2 DEF BehindText
    <3> QED BY <3>1, <3>2
  <2>6. TakesAll'
    <3>1. SUFFICES ASSUME ~short_read
                   PROVE  /\ Len(taken) <= Len(sent')
                          /\ \A i \in 1 .. Len(taken) : taken[i] = Text(i)'
                          /\ Len(wire') = BUFFER_SIZE * (Len(sent') - Len(taken))
      BY <1>2 DEF TakesAll
    <3>2. /\ Len(taken) <= L /\ \A i \in 1 .. Len(taken) : taken[i] = Text(i)
          /\ W = BUFFER_SIZE * (L - Len(taken)) /\ Len(taken) \in Nat
      BY <2>1, <3>1 DEF TakesAll, L, W, TypeOK
    <3>3. \A i \in 1 .. Len(taken) : Text(i)' = Text(i)
      <4> TAKE i \in 1 .. Len(taken)
      <4>1. sent'[i] = sent[i]
        BY <1>1, <3>2
      <4> QED BY <4>1, Zenon DEF Text, Message
    <3>4. /\ BUFFER_SIZE * (L - Len(taken) + 1) = W + BUFFER_SIZE
          /\ Len(sent') - Len(taken) = L - Len(taken) + 1
      BY <1>1, <3>2, OneMore
    <3>5. Len(wire') = BUFFER_SIZE * (Len(sent') - Len(taken))
      BY <2>2, <3>4, Zenon
    <3>6. Len(taken) <= Len(sent')
      BY <1>1, <3>2
    <3>7. \A i \in 1 .. Len(taken) : taken[i] = Text(i)'
      BY <3>2, <3>3, Zenon
    <3> QED BY <3>5, <3>6, <3>7, Zenon
  <2>7. OneText'
    BY <1>2, <2>1 DEF OneText
  <2> QED BY <2>3, <2>4, <2>5, <2>6, <2>7
<1> QED BY <1>7, <1>8 DEF StreamInv

\* A read of a whole message takes the next text.
LEMMA TakesNext ==
  ASSUME TypeOK, StreamInv, ~short_write, ~short_read, BUFFER_SIZE <= Len(wire)
  PROVE  /\ Len(taken) + 1 \in 1 .. Len(sent)
         /\ String(SubSeq(wire, 1, BUFFER_SIZE)) = Text(Len(taken) + 1)
         /\ Text(Len(taken) + 1) # <<>>
<1> DEFINE W == Len(wire)
           L == Len(sent)
           t == Len(taken)
           buffer == SubSeq(wire, 1, BUFFER_SIZE)
<1>1. /\ W \in Nat /\ L \in Nat /\ BUFFER_SIZE \in Nat /\ t \in Nat /\ L <= MaxMessages
      /\ MaxMessages \in Nat /\ BUFFER_SIZE > 0
      /\ \A j \in 1 .. W : wire[j] \in Units
      /\ W = BUFFER_SIZE * (L - t) /\ t <= L
      /\ \A j \in 1 .. W : Offset(wire[j]) = BUFFER_SIZE * L - W + j
  BY WireUnits, SizeAssumption DEF SizeAssumption, TypeOK, StreamInv, TakesAll, Consecutive
<1>2. t + 1 \in 1 .. L /\ t + 1 \in 1 .. MaxMessages
  <2>1. t # L
    <3>1. t = L => W = 0
      <4>1. t = L => L - t = 0
        BY <1>1
      <4>2. BUFFER_SIZE * 0 = 0
        BY <1>1
      <4> QED BY <1>1, <4>1, <4>2, Zenon
    <3> QED BY <1>1, <3>1
  <2> HIDE DEF W, L, t
  <2> QED BY <1>1, <2>1
<1>3. BUFFER_SIZE * L - W = BUFFER_SIZE * t
  <2> DEFINE p == BUFFER_SIZE * L
             q == BUFFER_SIZE * t
  <2> HIDE DEF W, L, t
  <2>1. p - q = BUFFER_SIZE * (L - t) /\ p \in Int /\ q \in Int
    BY <1>1, Distribute
  <2>2. p - q = W
    BY <1>1, <2>1
  <2> HIDE DEF p, q
  <2>3. p - W = q
    BY <1>1, <2>1, <2>2
  <2> QED BY <2>3 DEF p, q
<1>4. ASSUME NEW a \in 1 .. BUFFER_SIZE PROVE wire[a].message = t + 1 /\ wire[a].at = a
  <2>1. a \in 1 .. W /\ wire[a] \in Units
    BY <1>1
  <2>2. t + 1 - 1 = t
    BY <1>1
  <2>3. Offset(wire[a]) = BUFFER_SIZE * (t + 1 - 1) + a
    BY <1>1, <1>3, <2>1, <2>2, Zenon
  <2> DEFINE m == t + 1
  <2>4. m \in 1 .. MaxMessages /\ Offset(wire[a]) = BUFFER_SIZE * (m - 1) + a
    BY <1>2, <2>3
  <2> HIDE DEF m
  <2>5. wire[a].message = m /\ wire[a].at = a
    BY <2>1, <2>4, Located
  <2> QED BY <2>5 DEF m
<1>5. /\ buffer \in Seq(Units) /\ Len(buffer) = BUFFER_SIZE
      /\ \A a \in 1 .. BUFFER_SIZE : buffer[a] = wire[a]
  BY <1>1 DEF TypeOK
<1>6. TextLength[sent[t + 1]] \in 1 .. BUFFER_SIZE - 1
  BY <1>2, TextUnits
<1> HIDE DEF W, L, t, buffer
<1>7. /\ Len(buffer) > TextLength[sent[t + 1]]
      /\ \A a \in 1 .. TextLength[sent[t + 1]] + 1 : buffer[a].message = t + 1 /\ buffer[a].at = a
  BY <1>1, <1>4, <1>5, <1>6
<1>8. t + 1 \in 1 .. Len(sent)
  BY <1>2 DEF L
<1>9. String(buffer) = Text(t + 1) /\ Len(Text(t + 1)) = TextLength[sent[t + 1]]
  BY <1>5, <1>7, <1>8, WholeText
<1>10. Text(t + 1) # <<>>
  <2>1. Len(Text(t + 1)) # 0 /\ Len(<<>>) = 0
    BY <1>6, <1>9
  <2> QED BY <2>1, Zenon
<1> QED BY <1>8, <1>9, <1>10 DEF t, buffer

\* What a read leaves begins with a unit that is not text or with a new message, if the
\* last unit that was read is not text.
LEMMA LeftBehind ==
  ASSUME TypeOK, StreamInv, ~short_write, NEW n \in 1 .. Len(wire), n < Len(wire), ~IsText(wire[n])
  PROVE  wire[n + 1].at = 1 \/ ~IsText(wire[n + 1])
<1>1. /\ n + 1 \in n .. Len(wire) /\ n + 1 - n < BUFFER_SIZE /\ n + 1 - n = 1
      /\ n + 1 \in 1 .. Len(wire) /\ BUFFER_SIZE \in Nat
  BY WireUnits, SizeAssumption DEF SizeAssumption
<1>2. \/ wire[n + 1].message = wire[n].message /\ wire[n + 1].at = wire[n].at + 1
      \/ wire[n + 1].at = wire[n].at + 1 - BUFFER_SIZE
  <2>1. Consecutive
    BY DEF StreamInv
  <2> DEFINE m == n + 1
  <2>2. m \in n .. Len(wire) /\ m - n < BUFFER_SIZE /\ m - n = 1
    BY <1>1
  <2> HIDE DEF m
  <2>3. \/ wire[m].message = wire[n].message /\ wire[m].at = wire[n].at + 1
        \/ wire[m].at = wire[n].at + 1 - BUFFER_SIZE
    BY <2>1, <2>2, Ahead
  <2> QED BY <2>3 DEF m
<1>3. /\ wire[n].at \in 1 .. BUFFER_SIZE /\ wire[n + 1].at \in 1 .. BUFFER_SIZE
      /\ wire[n].message \in 1 .. Len(sent)
  BY <1>1, WireUnits DEF StreamInv
<1>4. CASE wire[n + 1].message = wire[n].message /\ wire[n + 1].at = wire[n].at + 1
  <2> DEFINE T == TextLength[sent[wire[n].message]]
  <2>1. T \in Int
    <3> DEFINE m == wire[n].message
    <3>1. m \in 1 .. Len(sent)
      BY <1>3
    <3> HIDE DEF m
    <3>2. TextLength[sent[m]] \in 1 .. BUFFER_SIZE - 1
      BY <3>1, TextUnits
    <3> QED BY <3>2 DEF m
  <2>2. (IsText(wire[n]) <=> wire[n].at <= T) /\ (IsText(wire[n + 1]) <=> wire[n + 1].at <= T)
    BY <1>4 DEF IsText
  <2> DEFINE u == wire[n]
             v == wire[n + 1]
  <2>3. u.at \in Int /\ v.at = u.at + 1 /\ ~IsText(u)
    BY <1>3, <1>4
  <2>4. IsText(v) <=> v.at <= T
    BY <2>2
  <2>5. ~(u.at <= T)
    BY <2>2, <2>3
  <2> HIDE DEF T, u, v
  <2>6. ~IsText(v)
    BY <2>1, <2>3, <2>4, <2>5
  <2> QED BY <2>6 DEF v
<1>5. CASE wire[n + 1].at = wire[n].at + 1 - BUFFER_SIZE
  <2> DEFINE x == wire[n].at
             y == wire[n + 1].at
  <2>1. x \in 1 .. BUFFER_SIZE /\ y \in 1 .. BUFFER_SIZE /\ y = x + 1 - BUFFER_SIZE
    BY <1>3, <1>5
  <2> HIDE DEF x, y
  <2>2. y = 1
    BY <1>1, <2>1
  <2> QED BY <2>2 DEF y
<1> QED BY <1>2, <1>4, <1>5

LEMMA StreamRead ==
  ASSUME TypeOK, TypeOK', StreamInv, NEW n, ServerReads(n) \/ ClientReads(n) \/ ThrowsAway(n)
  PROVE  StreamInv'
<1> DEFINE W == Len(wire)
           X == BUFFER_SIZE * Len(sent)
           text == String(SubSeq(wire, 1, n))
<1>1. /\ Chunk(n) /\ UNCHANGED <<reader, cuts, sent, short_write>>
      /\ taken' \in {taken, Append(taken, text)}
  BY Reads
<1>2. /\ n \in 1 .. BUFFER_SIZE /\ n <= W /\ W \in Nat /\ BUFFER_SIZE \in Nat
      /\ Len(wire') = W - n
      /\ \A j \in 1 .. W - n : wire'[j] = wire[n + j]
  BY <1>1, ChunkEffect
<1>3. X \in Nat /\ text \in Seq(Units) /\ taken \in Seq(Seq(Units)) /\ wire' \in Seq(Units)
  BY <1>1, ChunkEffect, StringStarts, WireUnits DEF TypeOK
<1> HIDE DEF W, X, text
<1>4. \A j \in 1 .. Len(wire') : wire'[j].message <= Len(sent')
  <2> TAKE j \in 1 .. Len(wire')
  <2>1. n + j \in 1 .. W /\ wire'[j] = wire[n + j]
    BY <1>2
  <2>2. wire[n + j].message <= Len(sent)
    BY <2>1 DEF StreamInv, W
  <2> QED BY <1>1, <2>1, <2>2
<1>5. ASSUME ~short_write'
      PROVE  (Consecutive /\ Untouched /\ BehindText /\ TakesAll /\ OneText)'
  <2>1. ~short_write /\ Consecutive /\ Untouched /\ BehindText /\ TakesAll /\ OneText
    BY <1>1, <1>5 DEF StreamInv
  <2>2. Consecutive'
    <3>1. ASSUME NEW j \in 1 .. Len(wire')
          PROVE  Offset(wire'[j]) = BUFFER_SIZE * Len(sent') - Len(wire') + j
      <4>1. n + j \in 1 .. W /\ wire'[j] = wire[n + j]
        BY <1>2
      <4>2. Offset(wire'[j]) = X - W + (n + j)
        BY <2>1, <4>1 DEF Consecutive, X, W
      <4>3. BUFFER_SIZE * Len(sent') = X
        BY <1>1 DEF X
      <4>4. X - W + (n + j) = X - Len(wire') + j
        BY <1>2, <1>3
      <4> QED BY <4>2, <4>3, <4>4, Zenon
    <3> QED BY <3>1 DEF Consecutive
  <2>3. Untouched'
    <3>1. reader = "client" => taken' # <<>>
      <4>1. CASE ServerReads(n)
        BY <4>1 DEF ServerReads
      <4>2. CASE ClientReads(n)
        <5>1. taken' = Append(taken, text)
          BY <4>2 DEF ClientReads, text
        <5> QED BY <1>3, <5>1, AppendProperties
      <4>3. CASE ThrowsAway(n)
        BY <4>3 DEF ThrowsAway, Suffices
      <4> QED BY <4>1, <4>2, <4>3
    <3> QED BY <1>1, <3>1 DEF Untouched
  <2>4. BehindText'
    <3>1. SUFFICES ASSUME ~cuts, wire' # <<>> PROVE wire'[1].at = 1 \/ ~IsText(wire'[1])
      BY <1>1 DEF BehindText, IsText
    <3>2. n \in 1 .. Len(wire) /\ n < Len(wire) /\ wire'[1] = wire[n + 1]
      <4>1. Len(wire') # 0
        BY <1>3, <3>1, EmptySeq
      <4> QED BY <1>2, <4>1 DEF W
    <3>3. ~IsText(wire[n])
      BY <1>1, <3>1 DEF Chunk
    <3> QED BY <2>1, <3>2, <3>3, LeftBehind
  <2>5. TakesAll'
    <3>1. CASE short_read'
      BY <3>1 DEF TakesAll
    <3>2. CASE ~short_read'
      <4>1. ~short_read /\ n = BUFFER_SIZE
        <5>1. short_read' = (short_read \/ n < BUFFER_SIZE) /\ short_read \in BOOLEAN
          BY <1>1 DEF Chunk, TypeOK
        <5>2. ~short_read /\ ~(n < BUFFER_SIZE)
          BY <3>2, <5>1
        <5> QED BY <1>2, <5>2
      <4>2. Len(taken) + 1 \in 1 .. Len(sent) /\ text = Text(Len(taken) + 1) /\ text # <<>>
        BY <1>2, <2>1, <4>1, TakesNext DEF W, text
      <4>3. taken' = Append(taken, text)
        <5>1. CASE ServerReads(n)
          BY <4>2, <5>1 DEF ServerReads, text
        <5>2. CASE ClientReads(n)
          BY <5>2 DEF ClientReads, text
        <5>3. CASE ThrowsAway(n)
          BY <4>1, <5>3 DEF ThrowsAway, Suffices
        <5> QED BY <5>1, <5>2, <5>3
      <4>4. /\ Len(taken') = Len(taken) + 1 /\ Len(taken) \in Nat
            /\ \A i \in 1 .. Len(taken) : taken'[i] = taken[i]
            /\ taken'[Len(taken) + 1] = text
        BY <1>3, <4>3, AppendProperties, LenProperties
      <4>5. /\ \A i \in 1 .. Len(taken) : taken[i] = Text(i)
            /\ W = BUFFER_SIZE * (Len(sent) - Len(taken))
        BY <2>1, <4>1 DEF TakesAll, W
      <4>6. \A i \in 1 .. Len(taken') : taken'[i] = Text(i)'
        <5>1. \A i : Text(i)' = Text(i)
          BY <1>1, Zenon DEF Text, Message
        <5>2. ASSUME NEW i \in 1 .. Len(taken') PROVE taken'[i] = Text(i)
          <6>1. i \in 1 .. Len(taken) \/ i = Len(taken) + 1
            BY <4>4
          <6> QED BY <4>2, <4>4, <4>5, <6>1
        <5> QED BY <5>1, <5>2
      <4>7. Len(wire') = BUFFER_SIZE * (Len(sent') - Len(taken'))
        <5> DEFINE d == Len(sent) - Len(taken)
        <5>1. Len(sent') - Len(taken') = d - 1 /\ d \in Int
          BY <1>1, <4>2, <4>4
        <5> HIDE DEF d
        <5>2. BUFFER_SIZE * (d - 1) = BUFFER_SIZE * d - BUFFER_SIZE
          BY <1>2, <5>1, OneMore
        <5>3. BUFFER_SIZE * d = W
          BY <4>5 DEF d
        <5> QED BY <1>2, <4>1, <5>1, <5>2, <5>3
      <4>8. Len(taken') <= Len(sent')
        BY <1>1, <4>2, <4>4
      <4> QED BY <4>6, <4>7, <4>8 DEF TakesAll
    <3> QED BY <3>1, <3>2
  <2>6. OneText'
    <3>1. CASE taken' = taken
      BY <2>1, <3>1 DEF OneText
    <3>2. CASE taken' = Append(taken, text)
      <4>1. \A i, j \in 1 .. Len(text) : text[i].message = text[j].message
        BY <1>1, <2>1, Parted DEF text
      <4>2. /\ Len(taken') = Len(taken) + 1 /\ Len(taken) \in Nat
            /\ \A i \in 1 .. Len(taken) : taken'[i] = taken[i]
            /\ taken'[Len(taken) + 1] = text
        BY <1>3, <3>2, AppendProperties, LenProperties
      <4>3. \A t \in 1 .. Len(taken') : t \in 1 .. Len(taken) \/ t = Len(taken) + 1
        BY <4>2
      <4> QED BY <2>1, <4>1, <4>2, <4>3 DEF OneText
    <3> QED BY <1>1, <3>1, <3>2
  <2> QED BY <2>2, <2>3, <2>4, <2>5, <2>6
<1> QED BY <1>4, <1>5 DEF StreamInv

LEMMA StreamInit == Init => StreamInv
<1> SUFFICES ASSUME Init PROVE StreamInv
  OBVIOUS
<1>1. sent = <<>> /\ wire = <<>> /\ taken = <<>> /\ Len(wire) = 0 /\ Len(sent) = 0 /\ Len(taken) = 0
  BY DEF Init
<1>2. BUFFER_SIZE * 0 = 0 /\ 0 - 0 = 0
  BY SizeAssumption DEF SizeAssumption
<1>3. \A i : i \notin 1 .. 0
  OBVIOUS
<1>4. Consecutive /\ BehindText /\ OneText
  BY <1>1, <1>3 DEF Consecutive, BehindText, OneText
<1>5. Untouched /\ TakesAll
  BY <1>1, <1>2, <1>3 DEF Untouched, TakesAll
<1> QED BY <1>1, <1>3, <1>4, <1>5 DEF StreamInv

LEMMA StreamNext == TypeOK /\ TypeOK' /\ StreamInv /\ [Next]_vars => StreamInv'
<1> SUFFICES ASSUME TypeOK, TypeOK', StreamInv, [Next]_vars PROVE StreamInv'
  OBVIOUS
<1>1. ASSUME NEW kind \in Kinds, write(kind) PROVE StreamInv'
  BY <1>1, StreamWrite
<1>2. ASSUME NEW n, ServerReads(n) \/ ClientReads(n) \/ ThrowsAway(n) PROVE StreamInv'
  BY <1>2, StreamRead
<1>3. CASE UNCHANGED vars
  <2>1. UNCHANGED vars
    BY <1>3
  <2>2. /\ \A u : IsText(u)' = IsText(u)
        /\ \A i : Text(i)' = Text(i)
    BY <2>1, Zenon DEF vars, IsText, Text, Message
  <2>3. Consecutive' = Consecutive /\ Untouched' = Untouched /\ OneText' = OneText
    BY <2>1 DEF vars, Consecutive, Untouched, OneText
  <2>4. BehindText => BehindText'
    BY <2>1, <2>2 DEF vars, BehindText
  <2>5. TakesAll => TakesAll'
    BY <2>1, <2>2 DEF vars, TakesAll
  <2> QED BY <2>1, <2>3, <2>4, <2>5 DEF vars, StreamInv
<1> QED BY <1>1, <1>2, <1>3 DEF Next, read

\* Every reachable wire is the end of the stream: the invariant the theorems follow from.
THEOREM StreamHolds == Spec => []StreamInv
<1>1. Init => StreamInv
  BY StreamInit
<1>2. TypeOK /\ TypeOK' /\ StreamInv /\ [Next]_vars => StreamInv'
  BY StreamNext
<1> QED BY <1>1, <1>2, FramingTypeCorrect, PTL DEF Spec

\* As long as each write() and read() moves BUFFER_SIZE bytes the other end logs or acts
\* upon every message once and in order, for any size of messages and length of texts.
THEOREM IntactHolds == Spec => []Intact
<1>1. TypeOK /\ StreamInv => Intact
  <2> SUFFICES ASSUME TypeOK, StreamInv, ~short_read, ~short_write
               PROVE  /\ taken = [i \in 1 .. Len(taken) |-> Text(i)]
                      /\ Len(wire) = BUFFER_SIZE * (Len(sent) - Len(taken))
    BY DEF Intact
  <2>1. TakesAll
    BY DEF StreamInv
  <2>2. DOMAIN taken = 1 .. Len(taken) /\ taken \in Seq(Seq(Units))
    BY DEF TypeOK
  <2>3. taken = [i \in 1 .. Len(taken) |-> taken[i]]
    BY <2>2
  <2> QED BY <2>1, <2>3 DEF TakesAll
<1> QED BY <1>1, FramingTypeCorrect, StreamHolds, PTL

\* However read() cuts the stream no text that strstr() or strcmp() sees runs on into the
\* next message, unless a write() was cut.
THEOREM ApartHolds == Spec => []Apart
<1>1. TypeOK /\ StreamInv => Apart
  <2> SUFFICES ASSUME TypeOK, StreamInv, ~short_write,
                      NEW t \in DOMAIN taken, NEW i \in DOMAIN taken[t], NEW j \in DOMAIN taken[t]
               PROVE  taken[t][i].message = taken[t][j].message
    BY DEF Apart
  <2>1. t \in 1 .. Len(taken) /\ taken[t] \in Seq(Units)
    BY DEF TypeOK
  <2>2. i \in 1 .. Len(taken[t]) /\ j \in 1 .. Len(taken[t])
    BY <2>1
  <2> QED BY <2>1, <2>2 DEF StreamInv, OneText
<1> QED BY <1>1, FramingTypeCorrect, StreamHolds, PTL

-----------------------------------------------------------------------------
(***************************************************************************)
(* The queue that the stream implements: from the message m on, of which x *)
(* is left, up to the last of L messages.                                  *)
(***************************************************************************)
Token == Nat \cup {REST}
Line(x, m, L) == [t \in 1 .. L - m + 1 |-> IF t = 1 THEN x ELSE m + t - 1]

LEMMA LineShape ==
  ASSUME NEW L \in Nat, NEW m \in 1 .. L, NEW x \in Token
  PROVE  /\ Line(x, m, L) \in Seq(Token) /\ Len(Line(x, m, L)) = L - m + 1
         /\ Line(x, m, L) # <<>> /\ Head(Line(x, m, L)) = x
<1>1. L - m + 1 \in Nat /\ 1 \in 1 .. L - m + 1
  OBVIOUS
<1>2. \A t \in 1 .. L - m + 1 : m + t - 1 \in Nat
  OBVIOUS
<1>3. Line(x, m, L) \in [1 .. L - m + 1 -> Token]
  BY <1>2 DEF Line, Token
<1>4. Line(x, m, L) \in Seq(Token) /\ Len(Line(x, m, L)) = L - m + 1
  BY <1>1, <1>3
<1>5. Line(x, m, L)[1] = x
  BY <1>1 DEF Line
<1> QED BY <1>1, <1>4, <1>5

LEMMA LineTail ==
  ASSUME NEW L \in Nat, NEW m \in 1 .. L, NEW x \in Token
  PROVE  Tail(Line(x, m, L)) = IF m = L THEN <<>> ELSE Line(m + 1, m + 1, L)
<1> DEFINE q == Line(x, m, L)
<1>1. q \in Seq(Token) /\ Len(q) = L - m + 1 /\ q # <<>>
  BY LineShape
<1>2. \A t \in 1 .. L - m + 1 : q[t] = IF t = 1 THEN x ELSE m + t - 1
  BY DEF Line
<1> HIDE DEF q
<1>3. /\ Tail(q) \in Seq(Token) /\ Len(Tail(q)) = L - m
      /\ \A t \in 1 .. L - m : Tail(q)[t] = q[t + 1]
  BY <1>1, HeadTailProperties
<1>4. CASE m = L
  <2>0. L - m = 0
    BY <1>4
  <2>1. Len(Tail(q)) = 0
    BY <1>3, <2>0, Zenon
  <2>2. Tail(q) = <<>>
    BY <1>3, <2>1, EmptySeq
  <2> QED BY <1>4, <2>2 DEF q
<1>5. CASE m # L
  <2> DEFINE r == Line(m + 1, m + 1, L)
  <2>1. m + 1 \in 1 .. L /\ m + 1 \in Token /\ L - (m + 1) + 1 = L - m
    BY <1>5 DEF Token
  <2>2. r \in Seq(Token) /\ Len(r) = L - m
    BY <2>1, LineShape
  <2>3. \A t \in 1 .. L - m : r[t] = m + t
    BY <2>1 DEF Line
  <2>4. \A t \in 1 .. L - m : q[t + 1] = m + t
    BY <1>2
  <2> HIDE DEF r
  <2>5. Tail(q) = r
    BY <1>3, <2>2, <2>3, <2>4, SeqEqual
  <2> QED BY <1>5, <2>5 DEF q, r
<1> QED BY <1>4, <1>5

LEMMA LineAppend ==
  ASSUME NEW L \in Nat, NEW m \in 1 .. L, NEW x \in Token
  PROVE  Append(Line(x, m, L), L + 1) = Line(x, m, L + 1)
<1> DEFINE q == Line(x, m, L)
           r == Line(x, m, L + 1)
<1>1. q \in Seq(Token) /\ Len(q) = L - m + 1 /\ L + 1 \in Token
  <2>1. L + 1 \in Token
    BY DEF Token
  <2> QED BY <2>1, LineShape, Zenon
<1>2. r \in Seq(Token) /\ Len(r) = L - m + 2
  <2>1. L + 1 \in Nat /\ m \in 1 .. L + 1 /\ L + 1 - m + 1 = L - m + 2
    OBVIOUS
  <2> QED BY <2>1, LineShape
<1>3. \A t \in 1 .. L - m + 1 : q[t] = IF t = 1 THEN x ELSE m + t - 1
  BY DEF Line
<1>4. \A t \in 1 .. L - m + 2 : r[t] = IF t = 1 THEN x ELSE m + t - 1
  BY DEF Line
<1> HIDE DEF q, r
<1>5. /\ Append(q, L + 1) \in Seq(Token) /\ Len(Append(q, L + 1)) = L - m + 2
      /\ \A t \in 1 .. L - m + 1 : Append(q, L + 1)[t] = q[t]
      /\ Append(q, L + 1)[L - m + 2] = L + 1
  BY <1>1, AppendProperties
<1>6. ASSUME NEW t \in 1 .. L - m + 2 PROVE Append(q, L + 1)[t] = r[t]
  <2>1. CASE t = L - m + 2
    BY <1>4, <1>5, <2>1
  <2>2. CASE t \in 1 .. L - m + 1
    <3>1. Append(q, L + 1)[t] = q[t]
      BY <1>5, <2>2
    <3>2. q[t] = IF t = 1 THEN x ELSE m + t - 1
      BY <1>3, <2>2
    <3>3. r[t] = IF t = 1 THEN x ELSE m + t - 1
      BY <1>4
    <3> QED BY <3>1, <3>2, <3>3, Zenon
  <2>3. t = L - m + 2 \/ t \in 1 .. L - m + 1
    OBVIOUS
  <2> QED BY <2>1, <2>2, <2>3, Zenon
<1>7. Append(q, L + 1) = r
  BY <1>2, <1>5, <1>6, SeqEqual
<1> QED BY <1>7 DEF q, r

LEMMA LineSwap ==
  ASSUME NEW L \in Nat, NEW m \in 1 .. L, NEW x \in Token, NEW y \in Token
  PROVE  <<y>> \o Tail(Line(x, m, L)) = Line(y, m, L)
<1> DEFINE q == Line(x, m, L)
           r == Line(y, m, L)
<1>1. q \in Seq(Token) /\ Len(q) = L - m + 1 /\ q # <<>> /\ r \in Seq(Token) /\ Len(r) = L - m + 1
  BY LineShape
<1>2. \A t \in 1 .. L - m + 1 : /\ q[t] = IF t = 1 THEN x ELSE m + t - 1
                               /\ r[t] = IF t = 1 THEN y ELSE m + t - 1
  BY DEF Line
<1> HIDE DEF q, r
<1>3. /\ Tail(q) \in Seq(Token) /\ Len(Tail(q)) = L - m
      /\ \A t \in 1 .. L - m : Tail(q)[t] = q[t + 1]
  BY <1>1, HeadTailProperties
<1>4. <<y>> \in Seq(Token) /\ Len(<<y>>) = 1 /\ <<y>>[1] = y
  OBVIOUS
<1> DEFINE p == <<y>> \o Tail(q)
<1>5. /\ p \in Seq(Token) /\ Len(p) = 1 + (L - m)
      /\ \A t \in 1 .. 1 + (L - m) : p[t] = IF t <= 1 THEN <<y>>[t] ELSE Tail(q)[t - 1]
  BY <1>3, <1>4, ConcatProperties
<1> HIDE DEF p
<1>6. ASSUME NEW t \in 1 .. L - m + 1 PROVE p[t] = r[t]
  <2>1. CASE t = 1
    BY <1>2, <1>4, <1>5, <2>1
  <2>2. CASE t # 1
    <3>1. t - 1 \in 1 .. L - m /\ t - 1 + 1 = t /\ ~(t <= 1) /\ t \in 1 .. 1 + (L - m)
      BY <2>2
    <3>2. p[t] = q[t]
      BY <1>3, <1>5, <3>1
    <3> QED BY <1>2, <2>2, <3>2
  <2> QED BY <2>1, <2>2
<1>7. p = r
  BY <1>1, <1>5, <1>6, SeqEqual
<1> QED BY <1>7 DEF p, q, r

\* The queue behind a unit at which a read begins.
From(u) == Line(IF u.at = 1 THEN u.message ELSE REST, u.message, Len(sent))

LEMMA TokensFrom ==
  /\ wire # <<>> => (TypeOK /\ wire[1].message <= Len(sent) => Tokens = From(wire[1]))
  /\ wire' # <<>> => (TypeOK' /\ wire'[1].message <= Len(sent') => Tokens' = From(wire[1])')
<1>1. ASSUME NEW L \in Nat, NEW u \in Units
      PROVE  [t \in 1 .. L - u.message + 1 |-> IF t = 1 /\ u.at # 1 THEN REST ELSE u.message + t - 1]
               = Line(IF u.at = 1 THEN u.message ELSE REST, u.message, L)
  <2>1. u.message \in Int
    BY SizeAssumption DEF SizeAssumption, Units
  <2>2. u.message + 1 - 1 = u.message
    BY <2>1
  <2> QED BY <2>2 DEF Line
<1>2. wire # <<>> /\ TypeOK => wire[1] \in Units /\ Len(sent) \in Nat
  BY DEF TypeOK
<1>3. wire' # <<>> /\ TypeOK' => wire'[1] \in Units /\ Len(sent') \in Nat
  BY DEF TypeOK
<1> QED BY <1>1, <1>2, <1>3, Zenon DEF Tokens, From

\* The unit behind one on the wire, which ends with the last message.
LEMMA NextUnit ==
  ASSUME TypeOK, StreamInv, ~short_write, NEW n \in 1 .. Len(wire)
  PROVE  /\ wire[n].at # BUFFER_SIZE =>
              n < Len(wire) /\ wire[n + 1].message = wire[n].message /\ wire[n + 1].at = wire[n].at + 1
         /\ wire[n].at = BUFFER_SIZE /\ n < Len(wire) =>
              wire[n + 1].message = wire[n].message + 1 /\ wire[n + 1].at = 1
         /\ n = Len(wire) => wire[n].message = Len(sent)
<1>1. /\ Len(wire) \in Nat /\ Len(sent) \in Nat /\ BUFFER_SIZE \in Nat /\ MaxMessages \in Nat
      /\ Len(sent) <= MaxMessages
      /\ Consecutive /\ wire[n].message \in 1 .. Len(sent) /\ wire[n].at \in 1 .. BUFFER_SIZE
      /\ wire[n] \in Units
  BY WireUnits DEF StreamInv, TypeOK
<1>2. ASSUME n = Len(wire) PROVE wire[n].message = Len(sent) /\ wire[n].at = BUFFER_SIZE
  <2> DEFINE u == wire[n]
             L == Len(sent)
             X == BUFFER_SIZE * L
  <2>1. u \in Units /\ L \in 1 .. MaxMessages /\ BUFFER_SIZE \in 1 .. BUFFER_SIZE
    BY <1>1
  <2>2. Offset(u) = X - Len(wire) + Len(wire)
    BY <1>1, <1>2 DEF Consecutive
  <2>3. BUFFER_SIZE * (L - 1) = X - BUFFER_SIZE /\ X \in Int
    BY <1>1, OneMore
  <2> DEFINE Y == BUFFER_SIZE * (L - 1)
  <2> HIDE DEF X, Y, u
  <2>4. Offset(u) = Y + BUFFER_SIZE
    BY <1>1, <2>2, <2>3 DEF Y
  <2> HIDE DEF L
  <2>5. u.message = L /\ u.at = BUFFER_SIZE
    BY <2>1, <2>4, Located DEF Y
  <2> QED BY <2>5 DEF u, L
<1>3. ASSUME n < Len(wire)
      PROVE  /\ wire[n].at # BUFFER_SIZE => /\ wire[n + 1].message = wire[n].message
                                             /\ wire[n + 1].at = wire[n].at + 1
             /\ wire[n].at = BUFFER_SIZE => /\ wire[n + 1].message = wire[n].message + 1
                                             /\ wire[n + 1].at = 1
  <2> DEFINE m == n + 1
             u == wire[n]
             v == wire[n + 1]
  <2>1. m \in n .. Len(wire) /\ m \in 1 .. Len(wire) /\ m - n = 1 /\ m - n < BUFFER_SIZE
    BY <1>1, <1>3, SizeAssumption DEF SizeAssumption
  <2>2. \/ v.message = u.message /\ v.at = u.at + 1
        \/ v.message = u.message + 1 /\ v.at = u.at + 1 - BUFFER_SIZE
    <3> HIDE DEF m
    <3>1. \/ wire[m].message = wire[n].message /\ wire[m].at = wire[n].at + (m - n)
          \/ wire[m].message = wire[n].message + 1 /\ wire[m].at = wire[n].at + (m - n) - BUFFER_SIZE
      BY <1>1, <2>1, Ahead
    <3> QED BY <2>1, <3>1 DEF m
  <2>3. v.at \in 1 .. BUFFER_SIZE /\ u.at \in 1 .. BUFFER_SIZE
    BY <1>1, <2>1, WireUnits
  <2> HIDE DEF u, v
  <2>4. /\ u.at # BUFFER_SIZE => v.message = u.message /\ v.at = u.at + 1
        /\ u.at = BUFFER_SIZE => v.message = u.message + 1 /\ v.at = 1
    BY <1>1, <2>2, <2>3
  <2> QED BY <2>4 DEF u, v
<1>4. n < Len(wire) \/ n = Len(wire)
  BY <1>1
<1> QED BY <1>2, <1>3, <1>4, Zenon

\* What a client reads first is the start of the stream.
LEMMA FirstRead ==
  ASSUME TypeOK, StreamInv, ~short_write, wire # <<>>, reader = "client", taken = <<>>
  PROVE  wire[1].at = 1
<1> DEFINE u == wire[1]
           one == 1
<1>1. 1 \in 1 .. Len(wire) /\ u \in Units /\ u.message \in 1 .. Len(sent) /\ Len(sent) <= MaxMessages
  BY WireUnits DEF StreamInv, TypeOK
<1>2. /\ Consecutive /\ Len(wire) = BUFFER_SIZE * Len(sent) /\ BUFFER_SIZE * Len(sent) \in Nat
      /\ BUFFER_SIZE \in Nat /\ BUFFER_SIZE > 0 /\ MaxMessages \in Nat /\ Len(sent) \in Nat
  BY WireUnits, SizeAssumption DEF SizeAssumption, StreamInv, Untouched
<1>3. Offset(u) = 1
  <2> DEFINE X == BUFFER_SIZE * Len(sent)
  <2>1. Offset(u) = X - Len(wire) + 1
    BY <1>1, <1>2 DEF Consecutive
  <2> HIDE DEF X, u
  <2> QED BY <1>2, <2>1 DEF X
<1>4. BUFFER_SIZE * (1 - 1) = 0
  BY <1>2
<1> HIDE DEF u
<1>5. one \in 1 .. MaxMessages /\ one \in 1 .. BUFFER_SIZE /\ Offset(u) = BUFFER_SIZE * (one - 1) + one
  BY <1>1, <1>2, <1>3, <1>4
<1> HIDE DEF one
<1>6. u.at = one
  BY <1>1, <1>5, Located, Zenon
<1> QED BY <1>6 DEF u, one

\* The text that a read without a cut sees: that of the message it begins with, or none.
LEMMA TextRead ==
  ASSUME TypeOK, StreamInv, ~short_write, ~cuts, NEW n, Chunk(n)
  PROVE  LET u == wire[1]
             text == String(SubSeq(wire, 1, n))
         IN  /\ u.at # 1 => text = <<>>
             /\ u.at = 1 => /\ text = Text(u.message)
                            /\ text # <<>> /\ text[1].message = u.message
<1> DEFINE u == wire[1]
           m == u.message
           T == TextLength[sent[m]]
           buffer == SubSeq(wire, 1, n)
           text == String(buffer)
<1>1. /\ n \in 1 .. BUFFER_SIZE /\ n <= Len(wire) /\ Len(wire) \in Nat /\ BUFFER_SIZE \in Nat
      /\ buffer \in Seq(Units) /\ Len(buffer) = n
      /\ \A j \in 1 .. n : buffer[j] = wire[j]
  BY ChunkEffect
<1>2. /\ 1 \in 1 .. Len(wire) /\ 1 \in 1 .. n /\ wire # <<>> /\ Consecutive /\ BehindText
      /\ m \in 1 .. Len(sent) /\ u.at \in 1 .. BUFFER_SIZE
  BY <1>1, WireUnits DEF StreamInv
<1>3. ASSUME u.at # 1 PROVE text = <<>>
  <2>1. ~IsText(buffer[1])
    BY <1>1, <1>2, <1>3 DEF BehindText
  <2>2. /\ text \in Seq(Units) /\ Len(text) \in 0 .. Len(buffer)
        /\ \A i \in 1 .. Len(text) : text[i] = buffer[i] /\ IsText(buffer[i])
    BY <1>1, StringStarts
  <2> HIDE DEF text, buffer
  <2>3. Len(text) = 0
    <3>1. 1 \notin 1 .. Len(text)
      BY <2>1, <2>2
    <3> QED BY <1>1, <2>2, <3>1
  <2> QED BY <2>2, <2>3, EmptySeq
<1>4. ASSUME u.at = 1
      PROVE  text = Text(m) /\ text # <<>> /\ text[1].message = m
  <2>1. ASSUME NEW a \in 1 .. n PROVE wire[a].message = m /\ wire[a].at = a
    <3>1. a \in 1 .. Len(wire) /\ a - 1 < BUFFER_SIZE
      BY <1>1
    <3>2. \/ wire[a].message = m /\ wire[a].at = u.at + (a - 1)
          \/ wire[a].at = u.at + (a - 1) - BUFFER_SIZE
      BY <1>1, <1>2, <3>1, Ahead
    <3>3. wire[a].at \in 1 .. BUFFER_SIZE
      BY <3>1, WireUnits
    <3> HIDE DEF u, m
    <3>4. u.at + (a - 1) = a /\ u.at + (a - 1) - BUFFER_SIZE < 1
      BY <1>1, <1>4
    <3> QED BY <1>1, <3>2, <3>3, <3>4
  <2>2. T \in 1 .. BUFFER_SIZE - 1 /\ Len(Text(m)) = T /\ Text(m)[1] = Message(m)[1]
    <3> HIDE DEF m
    <3> QED BY <1>2, TextUnits
  <2>3. T < n
    <3>1. ~IsText(wire[n])
      BY DEF Chunk
    <3>2. wire[n].message = m /\ wire[n].at = n
      BY <1>1, <2>1
    <3> HIDE DEF u, m
    <3>3. ~(n <= T)
      BY <3>1, <3>2 DEF IsText
    <3> QED BY <1>1, <2>2, <3>3
  <2>4. text = Text(m)
    <3> HIDE DEF u, m, buffer, text
    <3>1. /\ Len(buffer) > TextLength[sent[m]]
          /\ \A a \in 1 .. TextLength[sent[m]] + 1 : buffer[a].message = m /\ buffer[a].at = a
      BY <1>1, <2>1, <2>2, <2>3
    <3>2. String(buffer) = Text(m)
      BY <1>1, <1>2, <3>1, WholeText
    <3> QED BY <3>2 DEF text
  <2>5. Message(m)[1].message = m
    <3>1. 1 \in 1 .. BUFFER_SIZE
      BY <1>1
    <3> QED BY <3>1 DEF Message
  <2>6. text # <<>>
    <3>1. Len(text) # 0 /\ Len(<<>>) = 0
      BY <2>2, <2>4
    <3> QED BY <3>1, Zenon
  <2> QED BY <1>1, <2>1, <2>2, <2>4, <2>5, <2>6
<1> QED BY <1>3, <1>4

-----------------------------------------------------------------------------
(***************************************************************************)
(* What the reader acts upon as long as no text and no write is cut, and   *)
(* however short its reads are.                                            *)
(***************************************************************************)
Earlier(text, u) == text[1].message < u.message \/ (text[1].message = u.message /\ u.at # 1)

OrderInv ==
  ~cuts /\ ~short_write =>
    /\ \A t \in 1 .. Len(taken) : taken[t] # <<>> =>
         /\ taken[t][1].message \in 1 .. Len(sent) /\ taken[t] = Text(taken[t][1].message)
         /\ wire # <<>> => Earlier(taken[t], wire[1])
    /\ \A s, t \in 1 .. Len(taken) : s < t /\ taken[s] # <<>> /\ taken[t] # <<>>
                                       => taken[s][1].message < taken[t][1].message

LEMMA OrderWrite ==
  ASSUME TypeOK, TypeOK', StreamInv, OrderInv, NEW kind \in Kinds, write(kind)
  PROVE  OrderInv'
<1> DEFINE L == Len(sent)
           W == Len(wire)
<1>1. /\ L \in Nat /\ W \in Nat /\ Len(sent') = L + 1
      /\ \A j \in 1 .. L : sent'[j] = sent[j]
      /\ \A j \in 1 .. W : wire'[j] = wire[j]
      /\ \A j \in 1 .. Fits(kind) : wire'[W + j] = Message(L + 1)[j]
      /\ Len(wire') = W + Fits(kind) /\ Fits(kind) \in 0 .. BUFFER_SIZE
      /\ ~short_write' => ~short_write
  BY WriteEffect, WireUnits
<1>2. UNCHANGED <<cuts, taken>>
  BY DEF write
<1> HIDE DEF L, W
<1>3. SUFFICES ASSUME ~cuts, ~short_write' PROVE OrderInv'
  BY <1>2 DEF OrderInv
<1>4. /\ \A t \in 1 .. Len(taken) : taken[t] # <<>> =>
           /\ taken[t][1].message \in 1 .. L /\ taken[t] = Text(taken[t][1].message)
           /\ wire # <<>> => Earlier(taken[t], wire[1])
      /\ \A s, t \in 1 .. Len(taken) : s < t /\ taken[s] # <<>> /\ taken[t] # <<>>
                                         => taken[s][1].message < taken[t][1].message
  BY <1>1, <1>3 DEF OrderInv, L
<1>5. \A i \in 1 .. L : Text(i)' = Text(i)
  <2> TAKE i \in 1 .. L
  <2>1. sent'[i] = sent[i]
    BY <1>1
  <2> QED BY <2>1, Zenon DEF Text, Message
<1>6. ASSUME NEW t \in 1 .. Len(taken), taken[t] # <<>>, wire' # <<>>
      PROVE  Earlier(taken[t], wire'[1])
  <2>1. CASE wire # <<>>
    <3>1. 1 \in 1 .. W
      BY <1>1, <2>1, WireUnits DEF W
    <3>2. wire'[1] = wire[1]
      BY <1>1, <3>1
    <3> QED BY <1>4, <1>6, <2>1, <3>2
  <2>2. CASE wire = <<>>
    <3>1. Len(wire') # 0
      <4>1. wire' \in Seq(Units)
        BY DEF TypeOK
      <4> QED BY <1>6, <4>1, EmptySeq
    <3>2. W = 0
      BY <2>2, WireUnits DEF W
    <3>3. 1 \in 1 .. Fits(kind) /\ 1 \in 1 .. BUFFER_SIZE /\ W + 1 = 1
      <4> DEFINE f == Fits(kind)
      <4>1. f \in 0 .. BUFFER_SIZE /\ Len(wire') = W + f /\ BUFFER_SIZE \in Nat
        BY <1>1, WireUnits
      <4> HIDE DEF f
      <4>2. 1 \in 1 .. f /\ 1 \in 1 .. BUFFER_SIZE /\ W + 1 = 1
        BY <3>1, <3>2, <4>1
      <4> QED BY <4>2 DEF f
    <3>4. wire'[1] = Message(L + 1)[1]
      BY <1>1, <3>3
    <3>5. wire'[1].message = L + 1
      BY <3>3, <3>4 DEF Message
    <3>6. taken[t][1].message \in 1 .. L
      BY <1>4, <1>6
    <3> QED BY <1>1, <3>5, <3>6 DEF Earlier
  <2> QED BY <2>1, <2>2
<1>7. ASSUME NEW t \in 1 .. Len(taken), taken[t] # <<>>
      PROVE  taken[t][1].message \in 1 .. Len(sent') /\ taken[t] = Text(taken[t][1].message)'
  <2> DEFINE m == taken[t][1].message
  <2>1. m \in 1 .. L /\ taken[t] = Text(m)
    BY <1>4, <1>7
  <2>2. taken[t] = Text(m)'
    <3>1. taken'[t] = taken[t]
      BY <1>2
    <3>2. \A i : Text(i)' = SubSeq(Message(i), 1, TextLength[sent'[i]])
      BY Zenon DEF Text, Message
    <3>3. sent'[m] = sent[m]
      BY <1>1, <2>1
    <3> QED BY <2>1, <3>1, <3>2, <3>3, Zenon DEF Text
  <2>3. m \in 1 .. Len(sent')
    <3> HIDE DEF m
    <3> QED BY <1>1, <2>1
  <2> QED BY <2>2, <2>3
<1> QED BY <1>2, <1>4, <1>6, <1>7 DEF OrderInv, Earlier

LEMMA OrderRead ==
  ASSUME TypeOK, TypeOK', StreamInv, OrderInv,
         NEW n, ServerReads(n) \/ ClientReads(n) \/ ThrowsAway(n)
  PROVE  OrderInv'
<1> DEFINE u == wire[1]
           v == wire[n]
           w == wire[n + 1]
           N == Len(taken)
           text == String(SubSeq(wire, 1, n))
<1>1. /\ Chunk(n) /\ UNCHANGED <<cuts, sent, short_write>>
      /\ taken' \in {taken, Append(taken, text)}
  BY Reads
<1>2. SUFFICES ASSUME ~cuts, ~short_write PROVE OrderInv'
  BY <1>1 DEF OrderInv
<1>3. /\ n \in 1 .. Len(wire) /\ 1 \in 1 .. Len(wire) /\ n - 1 < BUFFER_SIZE /\ Len(wire) \in Nat
      /\ Len(wire') = Len(wire) - n
      /\ \A j \in 1 .. Len(wire) - n : wire'[j] = wire[n + j]
      /\ text \in Seq(Units) /\ N \in Nat /\ taken \in Seq(Seq(Units)) /\ BUFFER_SIZE \in Nat
  <2>1. /\ n \in 1 .. BUFFER_SIZE /\ n <= Len(wire) /\ Len(wire) \in Nat /\ BUFFER_SIZE \in Nat
        /\ Len(wire') = Len(wire) - n
        /\ \A j \in 1 .. Len(wire) - n : wire'[j] = wire[n + j]
        /\ SubSeq(wire, 1, n) \in Seq(Units)
    BY <1>1, ChunkEffect
  <2>2. text \in Seq(Units)
    BY <2>1, StringStarts
  <2>3. N \in Nat /\ taken \in Seq(Seq(Units))
    BY DEF TypeOK
  <2>4. n \in 1 .. Len(wire) /\ 1 \in 1 .. Len(wire) /\ n - 1 < BUFFER_SIZE
    BY <2>1
  <2> HIDE DEF text, N
  <2> QED BY <2>1, <2>2, <2>3, <2>4
<1>4. /\ wire # <<>> /\ u.message \in 1 .. Len(sent) /\ Consecutive
      /\ u.at \in 1 .. BUFFER_SIZE /\ v.at \in 1 .. BUFFER_SIZE /\ v.message \in Int
  <2>1. /\ u.message \in 1 .. MaxMessages /\ v.message \in 1 .. MaxMessages
        /\ u.at \in 1 .. BUFFER_SIZE /\ v.at \in 1 .. BUFFER_SIZE
        /\ Len(sent) \in Nat /\ MaxMessages \in Nat
    BY <1>3, WireUnits
  <2>2. u.message <= Len(sent) /\ Consecutive
    BY <1>2, <1>3 DEF StreamInv
  <2>3. wire # <<>>
    BY <1>3, WireUnits
  <2> HIDE DEF u, v
  <2> QED BY <2>1, <2>2, <2>3
<1>5. /\ u.at # 1 => text = <<>>
      /\ u.at = 1 => text = Text(u.message) /\ text # <<>> /\ text[1].message = u.message
  BY <1>1, <1>2, TextRead
<1>6. /\ \A t \in 1 .. N : taken[t] # <<>> =>
           /\ taken[t][1].message \in 1 .. Len(sent) /\ taken[t] = Text(taken[t][1].message)
           /\ Earlier(taken[t], u)
      /\ \A s, t \in 1 .. N : s < t /\ taken[s] # <<>> /\ taken[t] # <<>>
                                => taken[s][1].message < taken[t][1].message
  BY <1>2, <1>4 DEF OrderInv
<1>7. \A i : Text(i)' = Text(i)
  BY <1>1, Zenon DEF Text, Message
<1>8. wire' # <<>> => /\ wire'[1] = w
                      /\ w.message > u.message \/ (w.message = u.message /\ w.at # 1)
  <2> SUFFICES ASSUME wire' # <<>>
               PROVE  wire'[1] = w /\ (w.message > u.message \/ (w.message = u.message /\ w.at # 1))
    OBVIOUS
  <2>1. n < Len(wire)
    <3>1. wire' \in Seq(Units)
      BY DEF TypeOK
    <3> QED BY <1>3, <3>1, EmptySeq
  <2>2. wire'[1] = w
    BY <1>3, <2>1
  <2>3. v.message = u.message \/ v.message = u.message + 1
    BY <1>3, <1>4, Ahead
  <2>4. \/ w.message = v.message /\ w.at = v.at + 1
        \/ w.message = v.message + 1
    BY <1>2, <1>3, <2>1, NextUnit
  <2> HIDE DEF u, v, w
  <2>5. w.message > u.message \/ (w.message = u.message /\ w.at # 1)
    BY <1>4, <2>3, <2>4
  <2> QED BY <2>2, <2>5
<1> HIDE DEF u, v, w, N, text
\* What was earlier than the unit that a read begins with is earlier than the next one.
<1>9. ASSUME NEW old, old[1].message \in 1 .. Len(sent), old[1].message <= u.message, wire' # <<>>
      PROVE  Earlier(old, w)
  <2>1. w.message \in Int
    <3>1. wire' \in Seq(Units)
      BY DEF TypeOK
    <3>2. wire'[1] \in Units
      BY <1>9, <3>1
    <3> QED BY <1>8, <1>9, <3>2, SizeAssumption DEF SizeAssumption, Units
  <2>2. w.message > u.message \/ (w.message = u.message /\ w.at # 1)
    BY <1>8, <1>9
  <2>3. old[1].message \in Int /\ u.message \in Int
    BY <1>4, <1>9
  <2> QED BY <1>9, <2>1, <2>2, <2>3 DEF Earlier
<1>10. \A t \in 1 .. N : taken[t] # <<>> => taken[t][1].message <= u.message
  BY <1>4, <1>6 DEF Earlier
<1>11. CASE taken' = taken
  <2>1. \A t \in 1 .. N : taken[t] # <<>> /\ wire' # <<>> => Earlier(taken[t], wire'[1])
    BY <1>6, <1>8, <1>9, <1>10
  <2> QED BY <1>1, <1>6, <1>7, <1>11, <2>1 DEF OrderInv, Earlier, N
<1>12. CASE taken' = Append(taken, text)
  <2>1. /\ Len(taken') = N + 1
        /\ \A t \in 1 .. N : taken'[t] = taken[t]
        /\ taken'[N + 1] = text
    BY <1>3, <1>12, AppendProperties DEF N
  <2>2. \A t \in 1 .. N + 1 : t \in 1 .. N \/ t = N + 1
    BY <1>3
  <2>3. text # <<>> => /\ u.at = 1 /\ text[1].message = u.message /\ text = Text(u.message)
                       /\ text[1].message \in 1 .. Len(sent) /\ text[1].message <= u.message
    BY <1>4, <1>5
  <2>4. ASSUME NEW t \in 1 .. N + 1, taken'[t] # <<>>
        PROVE  /\ taken'[t][1].message \in 1 .. Len(sent')
               /\ taken'[t] = Text(taken'[t][1].message)
               /\ wire' # <<>> => Earlier(taken'[t], wire'[1])
    <3>1. /\ taken'[t][1].message \in 1 .. Len(sent) /\ taken'[t] = Text(taken'[t][1].message)
          /\ taken'[t][1].message <= u.message
      BY <1>6, <1>10, <2>1, <2>2, <2>3, <2>4
    <3> DEFINE old == taken'[t]
    <3>2. old[1].message \in 1 .. Len(sent) /\ old[1].message <= u.message
      BY <3>1
    <3> HIDE DEF old
    <3>3. wire' # <<>> => Earlier(old, w)
      BY <1>9, <3>2
    <3>4. wire' # <<>> => wire'[1] = w
      BY <1>8
    <3>5. Len(sent') = Len(sent)
      BY <1>1
    <3> QED BY <3>1, <3>3, <3>4, <3>5 DEF old
  <2>5. ASSUME NEW s \in 1 .. N + 1, NEW t \in 1 .. N + 1, s < t, taken'[s] # <<>>, taken'[t] # <<>>
        PROVE  taken'[s][1].message < taken'[t][1].message
    <3>1. s \in 1 .. N
      BY <1>3, <2>5
    <3>2. CASE t \in 1 .. N
      BY <1>6, <2>1, <2>5, <3>1, <3>2
    <3>3. CASE t = N + 1
      <4>1. u.at = 1 /\ taken'[t][1].message = u.message
        BY <2>1, <2>3, <2>5, <3>3
      <4>2. taken'[s] = taken[s] /\ Earlier(taken[s], u)
        BY <1>6, <2>1, <2>5, <3>1
      <4>3. taken[s][1].message < u.message
        BY <4>1, <4>2, Zenon DEF Earlier
      <4> QED BY <4>1, <4>2, <4>3, Zenon
    <3> QED BY <2>2, <3>2, <3>3
  <2>6. \A t \in 1 .. Len(taken') : taken'[t] # <<>> =>
          /\ taken'[t][1].message \in 1 .. Len(sent')
          /\ taken'[t] = SubSeq(Message(taken'[t][1].message), 1,
                                TextLength[sent'[taken'[t][1].message]])
          /\ wire' # <<>> => Earlier(taken'[t], wire'[1])
    BY <1>1, <2>1, <2>4, Zenon DEF Text
  <2>7. \A s, t \in 1 .. Len(taken') : s < t /\ taken'[s] # <<>> /\ taken'[t] # <<>>
                                     => taken'[s][1].message < taken'[t][1].message
    BY <2>1, <2>5, Zenon
  <2> QED BY <2>6, <2>7, Zenon DEF OrderInv, Earlier, Text, Message
<1> QED BY <1>1, <1>11, <1>12

\* However short the reads: if no text and no write is cut, whatever strstr() or
\* read_config() sees that is not empty is the whole text of a message, and no message is
\* acted upon twice or out of order.
THEOREM WholeInOrderHolds == Spec => []WholeInOrder
<1>1. Init => OrderInv
  <2> SUFFICES ASSUME Init PROVE OrderInv
    OBVIOUS
  <2>1. taken = <<>> /\ Len(taken) = 0
    BY DEF Init
  <2>2. \A i : i \notin 1 .. 0
    OBVIOUS
  <2> QED BY <2>1, <2>2 DEF OrderInv
<1>2. TypeOK /\ TypeOK' /\ StreamInv /\ OrderInv /\ [Next]_vars => OrderInv'
  <2> SUFFICES ASSUME TypeOK, TypeOK', StreamInv, OrderInv, [Next]_vars PROVE OrderInv'
    OBVIOUS
  <2>1. ASSUME NEW kind \in Kinds, write(kind) PROVE OrderInv'
    BY <2>1, OrderWrite
  <2>2. ASSUME NEW n, ServerReads(n) \/ ClientReads(n) \/ ThrowsAway(n) PROVE OrderInv'
    BY <2>2, OrderRead
  <2>3. CASE UNCHANGED vars
    <3>1. UNCHANGED vars
      BY <2>3
    <3>2. UNCHANGED <<cuts, short_write, taken, sent, wire>>
      BY <3>1 DEF vars
    <3> QED BY <3>2 DEF OrderInv, Earlier, Text
  <2> QED BY <2>1, <2>2, <2>3 DEF Next, read
<1>3. TypeOK /\ OrderInv => WholeInOrder
  <2> SUFFICES ASSUME TypeOK, OrderInv PROVE WholeInOrder
    OBVIOUS
  <2>1. DOMAIN taken = 1 .. Len(taken) /\ DOMAIN sent = 1 .. Len(sent)
    BY DEF TypeOK
  <2> QED BY <2>1 DEF OrderInv, WholeInOrder
<1> QED BY <1>1, <1>2, <1>3, FramingTypeCorrect, StreamHolds, PTL DEF Spec

-----------------------------------------------------------------------------
(***************************************************************************)
(* The queue before and after a read.                                      *)
(***************************************************************************)
LEMMA QueueRead ==
  ASSUME TypeOK, StreamInv, wire # <<>>
  PROVE  LET u == wire[1]
             x == IF u.at = 1 THEN u.message ELSE REST
         IN  /\ Len(sent) \in Nat /\ u.message \in 1 .. Len(sent) /\ x \in Token
             /\ Tokens = Line(x, u.message, Len(sent))
             /\ Tokens \in Seq(Token) /\ Tokens # <<>> /\ Head(Tokens) = x
             /\ Len(Tokens) = Len(sent) - u.message + 1
             /\ x = REST <=> u.at # 1
<1> DEFINE u == wire[1]
           x == IF u.at = 1 THEN u.message ELSE REST
<1>1. Len(sent) \in Nat /\ 1 \in 1 .. Len(wire) /\ u.message \in 1 .. Len(sent)
  BY WireUnits DEF StreamInv
<1>2. x \in Token /\ (x = REST <=> u.at # 1)
  BY <1>1, RestAssumption DEF RestAssumption, Token
<1>3. Tokens = Line(x, u.message, Len(sent))
  BY <1>1, TokensFrom DEF From
<1> HIDE DEF u, x
<1>4. /\ Line(x, u.message, Len(sent)) \in Seq(Token) /\ Line(x, u.message, Len(sent)) # <<>>
      /\ Head(Line(x, u.message, Len(sent))) = x
      /\ Len(Line(x, u.message, Len(sent))) = Len(sent) - u.message + 1
  <2> DEFINE m == u.message
             L == Len(sent)
  <2>1. L \in Nat /\ m \in 1 .. L
    BY <1>1
  <2> HIDE DEF m, L
  <2>2. /\ Line(x, m, L) \in Seq(Token) /\ Line(x, m, L) # <<>> /\ Head(Line(x, m, L)) = x
        /\ Len(Line(x, m, L)) = L - m + 1
    BY <1>2, <2>1, LineShape
  <2> QED BY <2>2 DEF m, L
<1> QED BY <1>1, <1>2, <1>3, <1>4 DEF u, x

\* What a read without a cut leaves of the queue, by the unit it ends with.
LEMMA QueueLeft ==
  ASSUME TypeOK, TypeOK', StreamInv, StreamInv', ~short_write, ~cuts, NEW n, Chunk(n)
  PROVE  LET u == wire[1]
         IN  \/ Tokens' = Tail(Tokens) /\ (n = BUFFER_SIZE <=> u.at = 1)
             \/ Tokens' = <<REST>> \o Tail(Tokens) /\ n # BUFFER_SIZE
             \/ /\ Tokens' = <<REST>> \o Tail(Tail(Tokens)) /\ u.at # 1 /\ Len(Tokens) > 1
<1> DEFINE u == wire[1]
           v == wire[n]
           m == u.message
           W == Len(wire)
           L == Len(sent)
           x == IF u.at = 1 THEN m ELSE REST
<1>1. /\ n \in 1 .. BUFFER_SIZE /\ n <= W /\ W \in Nat /\ BUFFER_SIZE \in Nat
      /\ Len(wire') = W - n
      /\ \A j \in 1 .. W - n : wire'[j] = wire[n + j]
      /\ sent' = sent /\ wire' \in Seq(Units)
  BY ChunkEffect DEF Chunk
<1>2. /\ 1 \in 1 .. W /\ n \in 1 .. W /\ wire # <<>> /\ Consecutive
      /\ u.at \in 1 .. BUFFER_SIZE /\ v.at \in 1 .. BUFFER_SIZE
      /\ v.message \in 1 .. L
  BY <1>1, WireUnits DEF StreamInv
<1>3. /\ L \in Nat /\ m \in 1 .. L /\ x \in Token
      /\ Tokens = Line(x, m, L) /\ Len(Tokens) = L - m + 1
  BY <1>2, QueueRead
<1>4. \/ v.message = m /\ v.at = u.at + (n - 1)
      \/ v.message = m + 1 /\ v.at = u.at + (n - 1) - BUFFER_SIZE
  <2>1. n \in 1 .. W /\ n - 1 < BUFFER_SIZE
    BY <1>1
  <2> QED BY <1>2, <2>1, Ahead
<1>5. /\ v.at # BUFFER_SIZE =>
           n < W /\ wire[n + 1].message = v.message /\ wire[n + 1].at = v.at + 1
      /\ v.at = BUFFER_SIZE /\ n < W =>
           wire[n + 1].message = v.message + 1 /\ wire[n + 1].at = 1
      /\ n = W => v.message = L
  BY <1>2, NextUnit
<1>6. n < W => /\ wire'[1] = wire[n + 1] /\ wire[n + 1].message \in 1 .. L
               /\ Tokens' = Line(IF wire[n + 1].at = 1 THEN wire[n + 1].message ELSE REST,
                                 wire[n + 1].message, L)
  <2> SUFFICES ASSUME n < W
               PROVE  /\ wire'[1] = wire[n + 1] /\ wire[n + 1].message \in 1 .. L
                      /\ Tokens' = Line(IF wire[n + 1].at = 1 THEN wire[n + 1].message ELSE REST,
                                        wire[n + 1].message, L)
    OBVIOUS
  <2>1. wire'[1] = wire[n + 1] /\ n + 1 \in 1 .. W
    BY <1>1
  <2>2. wire' # <<>>
    <3>1. Len(wire') # 0 /\ Len(<<>>) = 0
      BY <1>1
    <3> QED BY <3>1, Zenon
  <2>3. wire[n + 1].message \in 1 .. L
    BY <2>1, WireUnits DEF StreamInv
  <2>4. Tokens' = From(wire[1])'
    <3>1. wire'[1].message <= Len(sent')
      BY <1>1, <2>1, <2>3
    <3> QED BY <2>2, <3>1, TokensFrom, Zenon
  <2> QED BY <1>1, <2>1, <2>3, <2>4 DEF From
<1>7. n = W => Tokens' = <<>>
  <2>1. n = W => Len(wire') = 0
    BY <1>1
  <2>2. n = W => wire' = <<>>
    BY <1>1, <2>1, EmptySeq
  <2> QED BY <2>2 DEF Tokens
<1>8. REST \in Token
  BY DEF Token
<1> DEFINE w == wire[n + 1]
<1>9. n < W \/ n = W
  BY <1>1
<1> HIDE DEF u, v, m, W, L, w, x
<1>10. CASE v.message = m /\ v.at = BUFFER_SIZE
  <2>1. Tail(Line(x, m, L)) = IF m = L THEN <<>> ELSE Line(m + 1, m + 1, L)
    BY <1>3, LineTail
  <2>2. CASE n = W
    <3>1. m = L
      BY <1>5, <1>10, <2>2
    <3> QED BY <1>1, <1>2, <1>3, <1>4, <1>7, <1>10, <2>1, <2>2, <3>1 DEF u
  <2>3. CASE n < W
    <3>1. w.message = m + 1 /\ w.at = 1 /\ w.message \in 1 .. L
      BY <1>5, <1>6, <1>10, <2>3 DEF w
    <3>2. Tokens' = Line(m + 1, m + 1, L)
      BY <1>6, <2>3, <3>1 DEF w
    <3>3. m # L
      BY <1>3, <3>1
    <3>4. n = BUFFER_SIZE <=> u.at = 1
      BY <1>1, <1>2, <1>3, <1>4, <1>10
    <3> QED BY <1>3, <2>1, <3>2, <3>3, <3>4 DEF u
  <2> QED BY <1>9, <2>2, <2>3
<1>11. CASE v.message = m /\ v.at # BUFFER_SIZE
  <2>1. n < W /\ w.message = m /\ w.at = v.at + 1
    BY <1>5, <1>11 DEF w
  <2>2. w.at # 1
    BY <1>2, <2>1
  <2>3. Tokens' = Line(REST, m, L)
    BY <1>6, <2>1, <2>2 DEF w
  <2>4. <<REST>> \o Tail(Line(x, m, L)) = Line(REST, m, L)
    BY <1>3, <1>8, LineSwap
  <2>5. n # BUFFER_SIZE
    BY <1>1, <1>2, <1>3, <1>4, <1>11
  <2> QED BY <1>3, <2>3, <2>4, <2>5
<1>12. CASE v.message # m
  <2>1. v.message = m + 1 /\ v.at = u.at + (n - 1) - BUFFER_SIZE
    BY <1>4, <1>12
  <2>2. v.at # BUFFER_SIZE /\ u.at # 1
    BY <1>1, <1>2, <2>1
  <2>3. n < W /\ w.message = m + 1 /\ w.at = v.at + 1
    BY <1>5, <2>1, <2>2 DEF w
  <2>4. w.at # 1
    BY <1>2, <2>3
  <2>5. Tokens' = Line(REST, m + 1, L)
    BY <1>6, <2>3, <2>4 DEF w
  <2>6. m + 1 \in 1 .. L /\ m # L /\ Len(Tokens) > 1
    BY <1>2, <1>3, <2>1
  <2> DEFINE k == m + 1
  <2>7. k \in Token
    BY <1>3 DEF Token
  <2>8. Tail(Line(x, m, L)) = Line(k, k, L)
    BY <1>3, <2>6, LineTail
  <2>9. <<REST>> \o Tail(Line(k, k, L)) = Line(REST, k, L)
    <3>1. k \in 1 .. L
      BY <2>6
    <3> HIDE DEF k
    <3> QED BY <1>3, <1>8, <2>7, <3>1, LineSwap
  <2> QED BY <1>3, <2>2, <2>5, <2>6, <2>8, <2>9 DEF u
<1> QED BY <1>10, <1>11, <1>12

\* What the reader acts upon, as PaddedQueue numbers it.
Number(text) == IF text = <<>> THEN REST ELSE text[1].message

LEMMA TakenNumbers ==
  ASSUME TypeOK
  PROVE  /\ TakenTokens = <<>> <=> taken = <<>>
         /\ \A text \in Seq(Units) :
              taken' = Append(taken, text) => TakenTokens' = Append(TakenTokens, Number(text))
<1> DEFINE N == Len(taken)
<1>1. taken \in Seq(Seq(Units)) /\ N \in Nat /\ DOMAIN taken = 1 .. N
  BY DEF TypeOK
<1>2. \A text \in Seq(Units) : Number(text) \in Token
  <2> SUFFICES ASSUME NEW text \in Seq(Units), text # <<>> PROVE text[1].message \in Nat
    BY DEF Number, Token
  <2>1. text[1] \in Units
    OBVIOUS
  <2>2. \A u \in Units : u.message \in Nat
    BY SizeAssumption DEF SizeAssumption, Units
  <2> QED BY <2>1, <2>2
<1>3. TakenTokens = [t \in 1 .. N |-> Number(taken[t])]
  BY <1>1 DEF TakenTokens, Number
<1>4. \A t \in 1 .. N : taken[t] \in Seq(Units)
  BY <1>1
<1>5. TakenTokens \in Seq(Token) /\ Len(TakenTokens) = N
  <2>1. [t \in 1 .. N |-> Number(taken[t])] \in [1 .. N -> Token]
    BY <1>2, <1>4
  <2> HIDE DEF N
  <2> QED BY <1>1, <1>3, <2>1
<1>6. TakenTokens = <<>> <=> taken = <<>>
  BY <1>1, <1>5, EmptySeq
<1>7. ASSUME NEW text \in Seq(Units), taken' = Append(taken, text)
      PROVE  TakenTokens' = Append(TakenTokens, Number(text))
  <2> DEFINE p == Append(TakenTokens, Number(text))
             q == TakenTokens'
  <2>1. /\ p \in Seq(Token) /\ Len(p) = N + 1
        /\ \A t \in 1 .. N : p[t] = Number(taken[t])
        /\ p[N + 1] = Number(text)
    <3>1. /\ p \in Seq(Token) /\ Len(p) = N + 1
          /\ \A t \in 1 .. N : p[t] = TakenTokens[t]
          /\ p[N + 1] = Number(text)
      BY <1>2, <1>5, AppendProperties
    <3>2. \A t \in 1 .. N : TakenTokens[t] = Number(taken[t])
      BY <1>3
    <3> QED BY <3>1, <3>2
  <2>2. /\ taken' \in Seq(Seq(Units)) /\ Len(taken') = N + 1
        /\ \A t \in 1 .. N : taken'[t] = taken[t]
        /\ taken'[N + 1] = text
    BY <1>1, <1>7, AppendProperties
  <2>3. q = [t \in 1 .. N + 1 |-> Number(taken'[t])]
    <3>1. DOMAIN taken' = 1 .. N + 1
      BY <2>2
    <3> QED BY <3>1 DEF TakenTokens, Number
  <2> HIDE DEF N, p, q
  <2>4. \A t \in 1 .. N + 1 : t \in 1 .. N \/ t = N + 1
    BY <1>1
  <2>5. \A t \in 1 .. N + 1 : q[t] = Number(taken'[t])
    BY <2>3
  <2>6. \A t \in 1 .. N + 1 : q[t] = p[t]
    BY <2>1, <2>2, <2>4, <2>5
  <2>7. q \in Seq(Token) /\ Len(q) = N + 1
    <3>1. \A t \in 1 .. N + 1 : Number(taken'[t]) \in Token
      BY <1>2, <1>4, <2>2, <2>4
    <3>2. q \in [1 .. N + 1 -> Token] /\ N + 1 \in Nat
      BY <1>1, <2>3, <3>1
    <3> QED BY <3>2
  <2>8. q = p
    BY <2>1, <2>6, <2>7, SeqEqual
  <2> QED BY <2>8 DEF p, q
<1> QED BY <1>6, <1>7

LEMMA SendsNext ==
  ASSUME TypeOK, TypeOK', StreamInv, StreamInv', NEW kind \in Kinds, write(kind), ~short_write'
  PROVE  Queue!Send
<1> DEFINE L == Len(sent)
           W == Len(wire)
<1>1. /\ L \in Nat /\ L + 1 \in 1 .. MaxMessages /\ W \in Nat /\ BUFFER_SIZE \in Nat /\ BUFFER_SIZE > 0
      /\ Len(sent') = L + 1 /\ Len(wire') = W + BUFFER_SIZE
      /\ \A j \in 1 .. W : wire'[j] = wire[j]
      /\ \A j \in 1 .. BUFFER_SIZE : wire'[W + j] = Message(L + 1)[j]
  <2>1. BUFFER_SIZE \in Nat /\ BUFFER_SIZE > 0
    BY SizeAssumption DEF SizeAssumption
  <2>2. Fits(kind) = BUFFER_SIZE
    BY WriteEffect
  <2> QED BY <2>1, <2>2, WriteEffect, WireUnits
<1>2. UNCHANGED <<reader, taken>>
  BY DEF write
<1>3. wire' # <<>>
  <2>1. Len(wire') # 0 /\ Len(<<>>) = 0
    BY <1>1
  <2> QED BY <2>1, Zenon
<1>4. 1 \in 1 .. Len(wire') /\ wire'[1].message <= Len(sent')
  BY <1>1 DEF StreamInv
<1>5. Tokens' = From(wire[1])'
  BY <1>3, <1>4, TokensFrom, Zenon
<1> HIDE DEF L, W
<1>6. Tokens' = Append(Tokens, L + 1)
  <2>1. CASE wire = <<>>
    <3>1. W = 0 /\ Tokens = <<>>
      BY <2>1, WireUnits DEF W, Tokens
    <3>2. wire'[1] = Message(L + 1)[1] /\ 1 \in 1 .. BUFFER_SIZE
      BY <1>1, <3>1
    <3>3. wire'[1].message = L + 1 /\ wire'[1].at = 1
      BY <3>2 DEF Message
    <3> DEFINE k == L + 1
    <3>4. k \in Nat /\ k \in 1 .. k /\ k \in Token /\ k - k + 1 = 1
      BY <1>1 DEF Token
    <3>5. Tokens' = Line(k, k, k)
      BY <1>1, <1>5, <3>3, Zenon DEF From
    <3> HIDE DEF k
    <3>6. Line(k, k, k) = <<k>>
      <4>1. /\ Line(k, k, k) \in Seq(Token) /\ Len(Line(k, k, k)) = 1
            /\ Line(k, k, k) # <<>> /\ Head(Line(k, k, k)) = k
        BY <3>4, LineShape
      <4> DEFINE q == Line(k, k, k)
      <4>2. q[1] = k
        BY <4>1
      <4> HIDE DEF q
      <4>3. q = <<k>>
        BY <3>4, <4>1, <4>2 DEF q
      <4> QED BY <4>3 DEF q
    <3>7. Append(<<>>, k) = <<k>>
      OBVIOUS
    <3> QED BY <3>1, <3>5, <3>6, <3>7 DEF k
  <2>2. CASE wire # <<>>
    <3> DEFINE u == wire[1]
               m == u.message
               x == IF u.at = 1 THEN m ELSE REST
    <3>1. L \in Nat /\ m \in 1 .. L /\ x \in Token /\ Tokens = Line(x, m, L)
      BY <2>2, QueueRead DEF L
    <3>2. wire'[1] = wire[1]
      <4>1. 1 \in 1 .. W
        BY <1>1, <2>2, WireUnits DEF W
      <4> QED BY <1>1, <4>1
    <3>3. Tokens' = Line(x, m, L + 1)
      BY <1>1, <1>5, <3>2, Zenon DEF From
    <3> HIDE DEF u, m, x
    <3>4. Append(Line(x, m, L), L + 1) = Line(x, m, L + 1)
      BY <3>1, LineAppend
    <3> QED BY <3>1, <3>3, <3>4
  <2> QED BY <2>1, <2>2
<1>7. TakenTokens' = TakenTokens
  BY <1>2 DEF TakenTokens
<1>8. Len(sent)' = Len(sent) + 1 /\ (reader = "client")' = (reader = "client")
  BY <1>1, <1>2 DEF L
<1> QED BY <1>6, <1>7, <1>8 DEF Queue!Send, L

LEMMA ReadsNext ==
  ASSUME TypeOK, TypeOK', StreamInv, StreamInv', ~short_write, ~cuts,
         NEW n, ServerReads(n) \/ ClientReads(n) \/ ThrowsAway(n)
  PROVE  [Queue!Next]_(Queue!vars)
<1> DEFINE u == wire[1]
           text == String(SubSeq(wire, 1, n))
           x == IF u.at = 1 THEN u.message ELSE REST
<1>1. Chunk(n) /\ UNCHANGED <<reader, cuts, sent, ended, short_write>>
  BY Reads
<1>2. text \in Seq(Units) /\ wire # <<>>
  <2>1. 1 \in 1 .. Len(wire)
    BY <1>1, ChunkEffect
  <2>2. wire # <<>>
    BY <2>1, WireUnits
  <2>3. text \in Seq(Units)
    BY <1>1, ChunkEffect, StringStarts
  <2> QED BY <2>2, <2>3
<1>3. Number(text) = x
  BY <1>1, TextRead, Zenon DEF Number
<1>4. /\ Tokens \in Seq(Token) /\ Tokens # <<>> /\ Head(Tokens) = x
      /\ x = REST <=> u.at # 1
  BY <1>2, QueueRead
<1>5. \/ Tokens' = Tail(Tokens) /\ (n = BUFFER_SIZE <=> u.at = 1)
      \/ Tokens' = <<REST>> \o Tail(Tokens) /\ n # BUFFER_SIZE
      \/ Tokens' = <<REST>> \o Tail(Tail(Tokens)) /\ u.at # 1 /\ Len(Tokens) > 1
  BY <1>1, QueueLeft
<1>6. /\ TakenTokens = <<>> <=> taken = <<>>
      /\ taken' = Append(taken, text) => TakenTokens' = Append(TakenTokens, x)
      /\ taken' = taken => TakenTokens' = TakenTokens
  BY <1>2, <1>3, TakenNumbers DEF TakenTokens
<1>7. /\ reader = "client" => u.at = 1 \/ taken # <<>>
      /\ text = <<>> <=> u.at # 1
  <2>1. text = <<>> <=> u.at # 1
    BY <1>1, TextRead
  <2>2. reader = "client" => u.at = 1 \/ taken # <<>>
    BY <1>2, FirstRead
  <2> QED BY <2>1, <2>2
<1>8. \/ reader = "server" /\ u.at = 1 /\ taken' = Append(taken, text)
      \/ reader = "server" /\ u.at # 1 /\ taken' = taken
      \/ reader = "client" /\ (taken = <<>> \/ n = BUFFER_SIZE) /\ taken' = Append(taken, text)
      \/ reader = "client" /\ taken # <<>> /\ n # BUFFER_SIZE /\ taken' = taken
  BY <1>7 DEF ServerReads, ClientReads, ThrowsAway, Suffices
<1>9. Len(sent)' = Len(sent) /\ (reader = "client")' = (reader = "client")
  BY <1>1
<1> HIDE DEF u, text, x
<1>10. CASE u.at = 1
  <2>1. Queue!Begins
    BY <1>4, <1>9, <1>10 DEF Queue!Begins
  <2>2. CASE Tokens' = Tail(Tokens) /\ n = BUFFER_SIZE
    <3>1. TakenTokens' = Append(TakenTokens, Head(Tokens))
      BY <1>4, <1>6, <1>8, <1>10, <2>2
    <3> QED BY <2>1, <2>2, <3>1 DEF Queue!Next, Queue!Whole
  <2>3. CASE Tokens' = <<REST>> \o Tail(Tokens) /\ n # BUFFER_SIZE
    <3>1. \/ /\ reader # "client" \/ TakenTokens = <<>>
             /\ TakenTokens' = Append(TakenTokens, Head(Tokens))
          \/ reader = "client" /\ TakenTokens' = TakenTokens
      BY <1>4, <1>6, <1>8, <1>10, <2>3
    <3> QED BY <2>1, <2>3, <3>1 DEF Queue!Next, Queue!Part
  <2> QED BY <1>5, <1>10, <2>2, <2>3
<1>11. CASE u.at # 1
  <2>1. Queue!Behind /\ x = REST
    BY <1>4, <1>9, <1>11 DEF Queue!Behind
  <2>2. \/ taken' = taken
        \/ reader = "client" /\ n = BUFFER_SIZE /\ taken' = Append(taken, text)
    BY <1>7, <1>8, <1>11
  <2>3. CASE Tokens' = Tail(Tokens) /\ n # BUFFER_SIZE
    BY <1>6, <2>1, <2>2, <2>3 DEF Queue!Next, Queue!Padding
  <2>4. CASE Tokens' = <<REST>> \o Tail(Tokens) /\ n # BUFFER_SIZE
    <3>1. <<Head(Tokens)>> \o Tail(Tokens) = Tokens
      BY <1>4
    <3>2. Tokens' = Tokens /\ TakenTokens' = TakenTokens
      BY <1>4, <1>6, <2>1, <2>2, <2>4, <3>1
    <3> QED BY <1>9, <3>2 DEF Queue!vars
  <2>5. CASE Tokens' = <<REST>> \o Tail(Tail(Tokens)) /\ Len(Tokens) > 1
    BY <1>6, <2>1, <2>2, <2>5 DEF Queue!Next, Queue!Hidden
  <2> QED BY <1>5, <1>11, <2>3, <2>4, <2>5
<1> QED BY <1>10, <1>11

\* Either end of the connection may be modelled as it is in Server and MonitorPool: with
\* messages of any size the stream implements the queue of whole messages of which short
\* reads hide some, unless a text or a write is cut.
THEOREM QueueKept == Spec => KeepsQueue
<1>1. Init => Queue!Init
  <2> SUFFICES ASSUME Init PROVE Queue!Init
    OBVIOUS
  <2>1. Len(sent) = 0 /\ wire = <<>> /\ taken = <<>>
    BY DEF Init
  <2>2. Tokens = <<>>
    BY <2>1 DEF Tokens
  <2>3. TakenTokens = <<>>
    BY <2>1 DEF TakenTokens
  <2> QED BY <2>1, <2>2, <2>3 DEF Queue!Init
<1>2. TypeOK /\ TypeOK' /\ StreamInv /\ StreamInv' /\ [Next]_vars
        => [~cuts /\ ~short_write' => [Queue!Next]_(Queue!vars)]_vars
  <2> SUFFICES ASSUME TypeOK, TypeOK', StreamInv, StreamInv', [Next]_vars, ~cuts, ~short_write'
               PROVE  [Queue!Next]_(Queue!vars) \/ UNCHANGED vars
    OBVIOUS
  <2>1. ASSUME NEW kind \in Kinds, write(kind) PROVE [Queue!Next]_(Queue!vars)
    BY <2>1, SendsNext DEF Queue!Next
  <2>2. ASSUME NEW n, ServerReads(n) \/ ClientReads(n) \/ ThrowsAway(n)
        PROVE  [Queue!Next]_(Queue!vars)
    <3>1. ~short_write
      BY <2>2, Reads
    <3> QED BY <2>2, <3>1, ReadsNext
  <2> QED BY <2>1, <2>2 DEF Next, read
<1> QED BY <1>1, <1>2, FramingTypeCorrect, StreamHolds, PTL DEF Spec, KeepsQueue
=============================================================================
