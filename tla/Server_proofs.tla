---------------------------- MODULE Server_proofs ----------------------------
(***************************************************************************)
(* What Server guarantees for any clients, edits and signals, proved with  *)
(* TLAPS.                                                                  *)
(***************************************************************************)
EXTENDS Server, Functions, SequenceTheorems, FiniteSetTheorems, TLAPS

Message == Configs \cup {EGGZIT}

\* The last message a client was sent, for one that was sent any.
Newest(c) == sent[c][Len(sent[c])]

-----------------------------------------------------------------------------
(***************************************************************************)
(* Type correctness.                                                       *)
(***************************************************************************)
LEMMA LastOfAppend ==
  ASSUME NEW S, NEW s \in Seq(S), NEW e \in S
  PROVE  /\ Append(s, e) \in Seq(S) /\ Append(s, e) # <<>>
         /\ Append(s, e)[Len(Append(s, e))] = e
<1>1. /\ Append(s, e) \in Seq(S) /\ Len(Append(s, e)) = Len(s) + 1
      /\ Append(s, e)[Len(s) + 1] = e
  BY AppendProperties
<1>2. Append(s, e) # <<>>
  BY <1>1, EmptySeq, LenProperties
<1> QED BY <1>1, <1>2

\* A sequence without its last element, which Append puts back.
LEMMA LessByLast ==
  ASSUME NEW S, NEW s \in Seq(S), s # <<>>
  PROVE  /\ SubSeq(s, 1, Len(s) - 1) \in Seq(S) /\ s[Len(s)] \in S
         /\ Append(SubSeq(s, 1, Len(s) - 1), s[Len(s)]) = s
<1> DEFINE t == SubSeq(s, 1, Len(s) - 1)
<1>1. Len(s) \in Nat \ {0} /\ s[Len(s)] \in S
  BY EmptySeq, LenProperties
<1>2. /\ t \in Seq(S) /\ Len(t) = Len(s) - 1
      /\ \A i \in 1 .. Len(s) - 1 : t[i] = s[i]
  BY <1>1, SubSeqProperties
<1> HIDE DEF t
<1>3. /\ Append(t, s[Len(s)]) \in Seq(S) /\ Len(Append(t, s[Len(s)])) = Len(s)
      /\ \A i \in 1 .. Len(s) : Append(t, s[Len(s)])[i] = s[i]
  BY <1>1, <1>2, AppendProperties
<1>4. Append(t, s[Len(s)]) = s
  BY <1>3, SeqEqual
<1> QED BY <1>1, <1>2, <1>4 DEF t

\* What write() does: one more message, or none and perhaps the end of the server.
LEMMA WriteType ==
  ASSUME TypeOK, NEW c \in Clients, NEW message \in Message, Write(c, message)
  PROVE  /\ sent' \in [Clients -> Seq(Message)]
         /\ peer' \in [Clients -> {"none", "open", "gone", "reset", "closed"}]
         /\ pc' \in {pc, "died"}
         /\ \A d \in Clients : d # c => sent'[d] = sent[d] /\ peer'[d] = peer[d]
         /\ peer'[c] = "open" => peer[c] = "open"
         /\ peer[c] \in {"open", "gone", "reset"} /\ peer'[c] \in {"open", "reset"}
         /\ \/ /\ peer[c] \in {"open", "gone"} /\ UNCHANGED pc
               /\ sent'[c] # <<>> /\ sent'[c][Len(sent'[c])] = message
               /\ sent'[c] = Append(sent[c], message)
            \/ peer[c] = "reset" /\ UNCHANGED <<sent, peer>>
<1>1. sent \in [Clients -> Seq(Message)]
      /\ peer \in [Clients -> {"none", "open", "gone", "reset", "closed"}]
  BY DEF TypeOK, Message
<1>2. CASE /\ peer[c] \in {"open", "gone"} /\ UNCHANGED pc
           /\ sent' = [sent EXCEPT ![c] = Append(@, message)]
           /\ peer' = [peer EXCEPT ![c] = IF @ = "gone" THEN "reset" ELSE @]
  <2>1. sent[c] \in Seq(Message)
    BY <1>1
  <2>2. /\ Append(sent[c], message) \in Seq(Message) /\ Append(sent[c], message) # <<>>
        /\ Append(sent[c], message)[Len(Append(sent[c], message))] = message
    BY <2>1, LastOfAppend
  <2>3. sent'[c] = Append(sent[c], message)
    BY <1>1, <1>2
  <2> QED BY <1>1, <1>2, <2>2, <2>3
<1>3. CASE peer[c] = "reset" /\ pc' \in {pc, "died"} /\ UNCHANGED <<sent, peer>>
  BY <1>1, <1>3
<1> QED BY <1>2, <1>3 DEF Write

\* The two clients main() writes to.
LEMMA HeadOfBacklog ==
  ASSUME TypeOK, backlog # <<>>
  PROVE  Head(backlog) \in Clients /\ Tail(backlog) \in Seq(Clients)
BY HeadTailProperties DEF TypeOK

LEMMA GroupMember ==
  ASSUME TypeOK, NEW i \in 1 .. client_socket_group_count
  PROVE  client_socket_group[i] \in Clients
BY DEF TypeOK, client_socket_group_count

LEMMA ServerTypeInit == Init => TypeOK
<1> SUFFICES ASSUME Init PROVE TypeOK
  OBVIOUS
<1>1. 0 \in Configs /\ 0 \in 0 .. MaxHups /\ 0 \in 0 .. MaxLines /\ 0 \in 0 .. MaxTears
      /\ 1 \in 1 .. MAX_SOCKETS + 1
  BY BoundsAssumption DEF BoundsAssumption, Configs
<1>2. client_socket_group_count = 0 /\ client_socket_group_count <= MAX_SOCKETS
  BY BoundsAssumption DEF BoundsAssumption, Init, client_socket_group_count
<1>3. sent \in [Clients -> Seq(Configs \cup {EGGZIT})]
      /\ lines \in [Clients -> Seq({"info", "killed", "rest"})]
      /\ written \in 0 .. MaxLines
  BY <1>1 DEF Init
<1>4. client_socket_group \in Seq(Clients) /\ backlog \in Seq(Clients)
      /\ node_name_attained \subseteq 1 .. client_socket_group_count
  BY DEF Init
<1>5. peer \in [Clients -> {"none", "open", "gone", "reset", "closed"}]
  BY DEF Init
<1>6. kill_count \in Nat /\ kills \in Nat
  BY DEF Init
<1> QED BY <1>1, <1>2, <1>3, <1>4, <1>5, <1>6, Zenon DEF Init, TypeOK

LEMMA ServerTypeNext == TypeOK /\ [Next]_vars => TypeOK'
<1> SUFFICES ASSUME TypeOK, [Next]_vars PROVE TypeOK'
  OBVIOUS
<1> USE DEF disk, signals, sockets, log, clients, client_socket_group_count
<1>b. /\ MAX_SOCKETS \in Nat /\ MaxEdits \in Nat /\ MaxHups \in Nat /\ MaxLines \in Nat
      /\ MaxTears \in Nat
  BY BoundsAssumption DEF BoundsAssumption
<1>1. CASE Edit
  BY <1>1, <1>b DEF Edit, TypeOK, Configs
<1>2. CASE sighup_handler
  BY <1>2, <1>b DEF sighup_handler, TypeOK
<1>3. CASE sigint_handler
  BY <1>3 DEF sigint_handler, TypeOK
<1>4. ASSUME NEW c \in Clients, Connect(c) PROVE TypeOK'
  <2>1. backlog' \in Seq(Clients)
    BY <1>4, AppendProperties DEF Connect, TypeOK
  <2> QED BY <1>4, <2>1 DEF Connect, TypeOK
<1>5. ASSUME NEW c \in Clients, NEW line \in {"info", "killed"}, log_message(c, line)
      PROVE  TypeOK'
  <2>1. lines[c] \in Seq({"info", "killed", "rest"})
    BY DEF TypeOK
  <2>2. Append(lines[c], line) \in Seq({"info", "killed", "rest"})
    BY <2>1, AppendProperties
  <2>3. lines' \in [Clients -> Seq({"info", "killed", "rest"})]
    BY <1>5, <2>2 DEF log_message, TypeOK
  <2>4. written' \in 0 .. MaxLines /\ kills' \in Nat
    BY <1>5, <1>b DEF log_message, TypeOK
  <2> QED BY <1>5, <2>3, <2>4 DEF log_message, TypeOK
<1>6. ASSUME NEW c \in Clients, ClientEnds(c) PROVE TypeOK'
  BY <1>6 DEF ClientEnds, TypeOK
<1>d. ASSUME NEW c \in Clients, Discard(c) PROVE TypeOK'
  <2>1. /\ lines' \in [Clients -> Seq({"info", "killed", "rest"})]
        /\ lost' \in Nat
    BY <1>d, LessByLast DEF Discard, TypeOK
  <2> QED BY <1>d, <2>1 DEF Discard, TypeOK
<1>7. CASE Accept
  <2> DEFINE c == Head(backlog)
  <2>1. c \in Clients /\ Tail(backlog) \in Seq(Clients)
    BY <1>7, HeadOfBacklog DEF Accept
  <2>2. Write(c, config) /\ config \in Message
    BY <1>7 DEF Accept, TypeOK, Message
  <2>3. client_socket_group \in Seq(Clients)
    BY DEF TypeOK
  <2>4. /\ client_socket_group' \in Seq(Clients)
        /\ Len(client_socket_group') = Len(client_socket_group) + 1
    BY <1>7, <2>1, <2>3, AppendProperties DEF Accept
  <2>5. /\ sent' \in [Clients -> Seq(Message)]
        /\ peer' \in [Clients -> {"none", "open", "gone", "reset", "closed"}]
        /\ pc' \in {pc, "died"}
    BY <2>1, <2>2, WriteType
  <2>6. Len(client_socket_group') <= MAX_SOCKETS /\ Len(client_socket_group) \in Nat
    BY <1>7, <1>b, <2>3, <2>4, LenProperties DEF Accept
  <2>7. node_name_attained' \subseteq 1 .. Len(client_socket_group')
    BY <1>7, <2>4, <2>6 DEF Accept, TypeOK
  <2>8. backlog' \in Seq(Clients)
    BY <1>7, <2>1 DEF Accept
  <2>9. UNCHANGED <<disk, signals, k, config, raw, reread_config, log, lines, clients>>
    BY <1>7 DEF Accept
  <2> QED BY <2>4, <2>5, <2>6, <2>7, <2>8, <2>9 DEF TypeOK, Message
<1>8. CASE Overrun \/ EndAccept \/ Reread \/ EndSend \/ EndRead \/ EndExit \/ Summary
  BY <1>8 DEF Overrun, EndAccept, Reread, EndSend, EndRead, EndExit, Summary, TypeOK
<1>9. CASE ReadRaw
  BY <1>9 DEF ReadRaw, TypeOK
<1>15. CASE Parse
  <2>1. UNCHANGED <<disk, signals, raw, reread_config, sockets, log, lines, clients>>
    BY <1>15 DEF Parse
  <2>2. config' \in Configs /\ k' \in 1 .. MAX_SOCKETS + 1 /\ pc' \in {"died", "send"}
    BY <1>15, <1>b DEF Parse, TypeOK
  <2> QED BY <2>1, <2>2 DEF TypeOK
<1>10. CASE Send
  <2> DEFINE c == client_socket_group[k]
  <2>1. k \in 1 .. client_socket_group_count /\ k' \in 1 .. MAX_SOCKETS + 1
    BY <1>10, <1>b, LenProperties DEF Send, TypeOK
  <2>2. c \in Clients /\ Write(c, config) /\ config \in Message
    BY <1>10, <2>1, GroupMember DEF Send, TypeOK, Message
  <2>3. /\ sent' \in [Clients -> Seq(Message)]
        /\ peer' \in [Clients -> {"none", "open", "gone", "reset", "closed"}]
        /\ pc' \in {pc, "died"}
    BY <2>2, WriteType
  <2> QED BY <1>10, <2>1, <2>3 DEF Send, TypeOK, Message
<1>11. CASE Check
  BY <1>11, <1>b DEF Check, TypeOK
<1>12. CASE Read
  <2> DEFINE c == client_socket_group[k]
             L == {"info", "killed", "rest"}
  <2>1. k \in 1 .. client_socket_group_count /\ k' \in 1 .. MAX_SOCKETS + 1
    BY <1>12, <1>b, LenProperties DEF Read, TypeOK
  <2>2. c \in Clients /\ lines[c] \in Seq(L) /\ lines \in [Clients -> Seq(L)]
    BY <2>1, GroupMember DEF TypeOK
  <2>3. NothingToRead(lines[c]) \/ ReadMessage(c) \/ ReadPadding(c)
    BY <1>12 DEF Read
  <2>4. lines[c] # <<>> => Tail(lines[c]) \in Seq(L)
    BY <2>2, HeadTailProperties
  <2>5. lines[c] # <<>> => <<"rest">> \o Tail(lines[c]) \in Seq(L)
    <3>1. <<"rest">> \in Seq(L)
      OBVIOUS
    <3> QED BY <2>4, <3>1, ConcatProperties
  <2>6. Len(lines[c]) > 1 => <<"rest">> \o Tail(Tail(lines[c])) \in Seq(L)
    <3> DEFINE s == lines[c]
               t == Tail(s)
    <3>1. SUFFICES ASSUME Len(s) > 1 PROVE <<"rest">> \o Tail(t) \in Seq(L)
      OBVIOUS
    <3>2. s \in Seq(L) /\ s # <<>> /\ Len(s) \in Nat
      BY <2>2, <3>1, EmptySeq, LenProperties
    <3>3. t \in Seq(L) /\ Len(t) = Len(s) - 1
      BY <3>2, HeadTailProperties
    <3>4. Len(t) > 0
      BY <3>1, <3>2, <3>3
    <3> HIDE DEF t, s
    <3>5. t # <<>>
      BY <3>3, <3>4, EmptySeq
    <3>6. Tail(t) \in Seq(L) /\ <<"rest">> \in Seq(L)
      BY <3>3, <3>5, HeadTailProperties
    <3> QED BY <3>6, ConcatProperties
  <2>7. lines' \in [Clients -> Seq(L)]
    BY <2>2, <2>3, <2>4, <2>5, <2>6 DEF NothingToRead, ReadMessage, ReadPadding
  <2>9. tears' \in 0 .. MaxTears
    <3>1. tears' = tears \/ (tears < MaxTears /\ tears' = tears + 1)
      BY <2>3 DEF NothingToRead, ReadMessage, ReadPadding, Tear
    <3> QED BY <3>1, <1>b DEF TypeOK
  <2>8. kill_count' \in Nat /\ node_name_attained' \subseteq 1 .. Len(client_socket_group)
    <3>1. kill_count \in Nat /\ node_name_attained \subseteq 1 .. Len(client_socket_group)
      BY DEF TypeOK
    <3>2. \/ kill_count' = kill_count /\ node_name_attained' = node_name_attained
          \/ kill_count' = kill_count + 1 /\ node_name_attained' = node_name_attained \cup {k}
      BY <2>3 DEF NothingToRead, ReadMessage, ReadPadding, TakeText
    <3>3. kill_count' \in Nat
      BY <3>1, <3>2
    <3>4. UNCHANGED client_socket_group /\ k \in 1 .. Len(client_socket_group)
      BY <1>12, <2>1 DEF Read
    <3>5. node_name_attained' \subseteq 1 .. Len(client_socket_group)
      BY <3>1, <3>2, <3>4, Zenon
    <3> QED BY <3>3, <3>5
  <2> QED BY <1>12, <2>1, <2>7, <2>8, <2>9 DEF Read, TypeOK
<1>13. CASE Exit
  <2> DEFINE c == client_socket_group[k]
  <2>1. k \in 1 .. client_socket_group_count /\ k' \in 1 .. MAX_SOCKETS + 1
    BY <1>13, <1>b, LenProperties DEF Exit, TypeOK
  <2>2. c \in Clients /\ sent[c] \in Seq(Message) /\ EGGZIT \in Message
    BY <2>1, GroupMember DEF TypeOK, Message
  <2>3. Append(sent[c], EGGZIT) \in Seq(Message)
    BY <2>2, AppendProperties
  <2>4. /\ sent' \in [Clients -> Seq(Message)]
        /\ peer' \in [Clients -> {"none", "open", "gone", "reset", "closed"}]
        /\ lines' \in [Clients -> Seq({"info", "killed", "rest"})]
        /\ pc' \in {pc, "died"}
    <3>1. /\ sent \in [Clients -> Seq(Message)]
          /\ peer \in [Clients -> {"none", "open", "gone", "reset", "closed"}]
          /\ lines \in [Clients -> Seq({"info", "killed", "rest"})]
          /\ <<>> \in Seq({"info", "killed", "rest"})
      BY DEF TypeOK, Message
    <3>2. \/ /\ sent' = [sent EXCEPT ![c] = Append(@, EGGZIT)]
             /\ peer' = [peer EXCEPT ![c] = "closed"]
             /\ lines' = [lines EXCEPT ![c] = <<>>]
             /\ UNCHANGED pc
          \/ pc' \in {pc, "died"} /\ UNCHANGED <<sent, peer, lines>>
      BY <1>13 DEF Exit
    <3> HIDE DEF c
    <3> QED BY <2>2, <2>3, <3>1, <3>2
  <2> QED BY <1>13, <2>1, <2>4 DEF Exit, TypeOK, Message
<1>14. CASE UNCHANGED vars
  BY <1>14 DEF vars, TypeOK
<1> QED
  BY <1>1, <1>2, <1>3, <1>4, <1>5, <1>6, <1>d, <1>7, <1>8, <1>9, <1>10, <1>11, <1>12, <1>13, <1>14, <1>15
  DEF Next, Environment, main

\* Every state the server can reach is well typed, for any clients and bounds.
THEOREM ServerTypeCorrect == Spec => []TypeOK
<1>1. Init => TypeOK
  BY ServerTypeInit
<1>2. TypeOK /\ [Next]_vars => TypeOK'
  BY ServerTypeNext
<1> QED BY <1>1, <1>2, PTL DEF Spec

-----------------------------------------------------------------------------
(***************************************************************************)
(* Reloads.  The flag is reset before the file is read, so what the file   *)
(* held at the last SIGHUP is in force, will be read, or will be asked for *)
(* again.                                                                  *)
(***************************************************************************)
ReloadInv ==
  /\ NoLostReload /\ asked <= file
  /\ pc = "parse" /\ ~reread_config => raw >= asked

LEMMA ReloadNext == TypeOK /\ ReloadInv /\ [Next]_vars => ReloadInv'
<1> SUFFICES ASSUME TypeOK, ReloadInv, [Next]_vars PROVE ReloadInv'
  OBVIOUS
<1> USE DEF disk, signals, sockets, log, clients, Stopped, NoLostReload, ReloadInv
<1>t. file \in Int /\ asked \in Int /\ config \in Int /\ raw \in Int
  BY BoundsAssumption DEF TypeOK, Configs, BoundsAssumption
<1>1. CASE Edit
  BY <1>1, <1>t DEF Edit
<1>2. CASE sighup_handler
  BY <1>2, <1>t DEF sighup_handler
<1>3. CASE \/ sigint_handler
           \/ \E c \in Clients : \/ Connect(c) \/ ClientEnds(c) \/ Discard(c)
                                 \/ \E line \in {"info", "killed"} : log_message(c, line)
  BY <1>3 DEF sigint_handler, Connect, ClientEnds, Discard, log_message
<1>4. CASE Accept \/ Send \/ Exit
  <2>1. pc' \in {pc, "died"} /\ UNCHANGED <<reread_config, config, raw, asked, file>>
    BY <1>4 DEF Accept, Send, Exit, Write
  <2> QED BY <1>4, <2>1 DEF Accept, Send, Exit
<1>5. CASE \/ Overrun \/ EndAccept \/ Reread \/ EndSend \/ Check \/ Read \/ EndRead
           \/ EndExit \/ Summary
  BY <1>5 DEF Overrun, EndAccept, Reread, EndSend, Check, Read, EndRead, EndExit, Summary
<1>6. CASE ReadRaw \/ Parse
  BY <1>6, <1>t DEF ReadRaw, Parse
<1>7. CASE UNCHANGED vars
  BY <1>7 DEF vars
<1> QED BY <1>1, <1>2, <1>3, <1>4, <1>5, <1>6, <1>7 DEF Next, Environment, main

\* No SIGHUP is lost, wherever in the round it comes and whatever is edited meanwhile.
THEOREM NoLostReloadHolds == Spec => []NoLostReload
<1>1. Init => ReloadInv
  BY DEF Init, ReloadInv, NoLostReload
<1>2. TypeOK /\ ReloadInv /\ [Next]_vars => ReloadInv'
  BY ReloadNext
<1>3. ReloadInv => NoLostReload
  BY DEF ReloadInv
<1> QED BY <1>1, <1>2, <1>3, ServerTypeCorrect, PTL DEF Spec

-----------------------------------------------------------------------------
(***************************************************************************)
(* What each client was sent.  A client that was sent anything and is      *)
(* still there is in the group, so that a broadcast reaches it.            *)
(***************************************************************************)
Member(c) == \E i \in 1 .. client_socket_group_count : client_socket_group[i] = c

SentInv(c) ==
  /\ peer[c] = "none" => sent[c] = <<>>
  /\ sent[c] # <<>> /\ peer[c] = "open" => Member(c)
  /\ sent[c] # <<>> /\ peer[c] = "open" /\ ~Stopped =>
       \/ Newest(c) = config
       \/ pc = "send" /\ \E i \in k .. client_socket_group_count : client_socket_group[i] = c

StepInv == \A c \in Clients : SentInv(c)

LEMMA StepNext == TypeOK /\ TypeOK' /\ StepInv /\ [Next]_vars => StepInv'
<1> SUFFICES ASSUME TypeOK, TypeOK', StepInv, [Next]_vars, NEW d \in Clients
             PROVE  SentInv(d)'
  BY DEF StepInv
<1>0. SentInv(d)
  BY DEF StepInv
<1> USE DEF disk, signals, sockets, log, clients, client_socket_group_count
<1>t. /\ Len(client_socket_group) \in Nat /\ k \in Nat /\ k >= 1
      /\ peer \in [Clients -> {"none", "open", "gone", "reset", "closed"}]
      /\ client_socket_group \in Seq(Clients)
  BY BoundsAssumption, LenProperties DEF TypeOK, BoundsAssumption
<1>1. CASE \/ Edit \/ sighup_handler \/ sigint_handler
           \/ \E c \in Clients, line \in {"info", "killed"} : log_message(c, line)
  BY <1>0, <1>1 DEF Edit, sighup_handler, sigint_handler, log_message, SentInv, Member, Newest,
     Stopped
<1>2. ASSUME NEW c \in Clients, Connect(c) \/ ClientEnds(c) \/ Discard(c) PROVE SentInv(d)'
  BY <1>0, <1>2, <1>t DEF Connect, ClientEnds, Discard, SentInv, Member, Newest, Stopped
<1>3. CASE Accept
  <2> DEFINE c == Head(backlog)
  <2>1. c \in Clients /\ Write(c, config) /\ config \in Message /\ pc = "accept"
    BY <1>3, HeadOfBacklog DEF Accept, TypeOK, Message
  <2>2. /\ client_socket_group' = Append(client_socket_group, c)
        /\ UNCHANGED <<config, k>>
    BY <1>3 DEF Accept
  <2>3. /\ Len(client_socket_group') = Len(client_socket_group) + 1
        /\ client_socket_group'[Len(client_socket_group) + 1] = c
        /\ \A i \in 1 .. Len(client_socket_group) : client_socket_group'[i] = client_socket_group[i]
    BY <2>1, <2>2, <1>t, AppendProperties
  <2>4. Member(d) => Member(d)'
    BY <2>3, <1>t DEF Member
  <2>5. \E i \in 1 .. Len(client_socket_group') : client_socket_group'[i] = c
    <3>1. Len(client_socket_group) + 1 \in 1 .. Len(client_socket_group')
      BY <2>3, <1>t
    <3> HIDE DEF c
    <3> QED BY <2>3, <3>1
  <2>6. /\ \A e \in Clients : e # c => sent'[e] = sent[e] /\ peer'[e] = peer[e]
        /\ peer'[c] # "none" /\ pc' \in {pc, "died"}
        /\ \/ UNCHANGED pc /\ sent'[c] # <<>> /\ sent'[c][Len(sent'[c])] = config
           \/ peer[c] = "reset" /\ UNCHANGED <<sent, peer>>
    BY <2>1, WriteType
  <2> HIDE DEF c
  <2>7. CASE d = c
    <3>1. CASE UNCHANGED pc /\ sent'[c] # <<>> /\ sent'[c][Len(sent'[c])] = config
      BY <2>2, <2>5, <2>6, <2>7, <3>1 DEF SentInv, Newest, Member
    <3>2. CASE peer[c] = "reset" /\ UNCHANGED <<sent, peer>>
      BY <2>6, <2>7, <3>2 DEF SentInv
    <3> QED BY <2>6, <3>1, <3>2
  <2>8. CASE d # c
    BY <1>0, <2>1, <2>2, <2>4, <2>6, <2>8 DEF SentInv, Newest, Stopped
  <2> QED BY <2>7, <2>8
<1>4. CASE Send
  <2> DEFINE c == client_socket_group[k]
  <2>1. k \in 1 .. client_socket_group_count
    BY <1>4, <1>t DEF Send
  <2>2. c \in Clients /\ Write(c, config) /\ config \in Message /\ pc = "send" /\ k' = k + 1
        /\ UNCHANGED <<config, client_socket_group>>
    BY <1>4, <2>1, GroupMember DEF Send, TypeOK, Message
  <2>3. /\ \A e \in Clients : e # c => sent'[e] = sent[e] /\ peer'[e] = peer[e]
        /\ peer'[c] # "none" /\ pc' \in {pc, "died"}
        /\ peer'[c] = "open" => peer[c] = "open"
        /\ \/ UNCHANGED pc /\ sent'[c] # <<>> /\ sent'[c][Len(sent'[c])] = config
           \/ peer[c] = "reset" /\ UNCHANGED <<sent, peer>>
    BY <2>2, WriteType
  <2>4. Member(d)' <=> Member(d)
    BY <2>2 DEF Member
  <2>5. CASE d = c
    <3>1. Member(d)
      BY <2>1, <2>5 DEF Member
    <3> QED BY <2>2, <2>3, <2>4, <2>5, <3>1 DEF SentInv, Newest
  <2>6. CASE d # c
    <3>1. (\E i \in k .. Len(client_socket_group) : client_socket_group[i] = d)
            => \E i \in k' .. Len(client_socket_group') : client_socket_group'[i] = d
      BY <2>2, <2>6, <1>t
    <3> HIDE DEF c
    <3> QED BY <1>0, <2>2, <2>3, <2>4, <2>6, <3>1 DEF SentInv, Newest, Stopped
  <2> QED BY <2>5, <2>6
<1>5. CASE Parse
  <2>1. Member(d)' <=> Member(d)
    BY <1>5 DEF Parse, Member
  <2>2. /\ UNCHANGED <<sent, peer, client_socket_group>> /\ k' = 1
        /\ pc' = "send" \/ pc' = "died"
    BY <1>5 DEF Parse
  <2> QED BY <1>0, <2>1, <2>2 DEF SentInv, Newest, Member, Stopped
<1>6. CASE EndSend
  BY <1>0, <1>6, <1>t DEF EndSend, SentInv, Newest, Member, Stopped
<1>7. CASE Exit
  <2> DEFINE c == client_socket_group[k]
  <2>1. k \in 1 .. client_socket_group_count
    BY <1>7, <1>t DEF Exit
  <2>2. c \in Clients
    BY <2>1, GroupMember
  <2>3. /\ UNCHANGED <<config, client_socket_group>> /\ pc = "exit"
        /\ \/ /\ UNCHANGED pc /\ sent' = [sent EXCEPT ![c] = Append(@, EGGZIT)]
              /\ peer' = [peer EXCEPT ![c] = "closed"]
           \/ pc' \in {pc, "died"} /\ UNCHANGED <<sent, peer>>
    BY <1>7 DEF Exit
  <2>4. Member(d)' <=> Member(d)
    BY <2>3 DEF Member
  <2> HIDE DEF c
  <2>5. sent \in [Clients -> Seq(Configs \cup {EGGZIT})]
    BY DEF TypeOK
  <2> QED BY <1>0, <1>t, <2>2, <2>3, <2>4, <2>5 DEF SentInv, Newest, Stopped
<1>8. CASE \/ Overrun \/ EndAccept \/ Reread \/ ReadRaw \/ Check \/ Read \/ EndRead \/ EndExit \/ Summary
  BY <1>0, <1>8
  DEF Overrun, EndAccept, Reread, ReadRaw, Check, Read, EndRead, EndExit, Summary, SentInv,
      Newest, Member, Stopped
<1>9. CASE UNCHANGED vars
  BY <1>0, <1>9 DEF vars, SentInv, Newest, Member, Stopped
<1> QED
  BY <1>1, <1>2, <1>3, <1>4, <1>5, <1>6, <1>7, <1>8, <1>9 DEF Next, Environment, main

\* Between two broadcasts every client that is still there was last sent the
\* configuration in force, however it connected, and in a broadcast those it passed.
THEOREM InStepHolds == Spec => []InStep
<1>1. Init => StepInv
  BY DEF Init, StepInv, SentInv
<1>2. TypeOK /\ TypeOK' /\ StepInv /\ [Next]_vars => StepInv'
  BY StepNext
<1>3. StepInv => InStep
  BY DEF StepInv, SentInv, InStep, Served, Newest
<1> QED BY <1>1, <1>2, <1>3, ServerTypeCorrect, PTL DEF Spec

-----------------------------------------------------------------------------
(***************************************************************************)
(* The goodbye.  The loop of the shutdown leaves behind it only clients    *)
(* that were told and closed, or had answered with a reset.                *)
(***************************************************************************)
Over(c) == peer[c] \in {"closed", "reset"}

GoodbyeInv ==
  /\ \A c \in Clients : peer[c] = "closed" => Told(c)
  /\ pc = "exit" => \A i \in 1 .. k - 1 : i <= client_socket_group_count => Over(client_socket_group[i])
  /\ pc \in {"summary", "done"} =>
       \A i \in 1 .. client_socket_group_count : Over(client_socket_group[i])

LEMMA GoodbyeNext == TypeOK /\ GoodbyeInv /\ [Next]_vars => GoodbyeInv'
<1> SUFFICES ASSUME TypeOK, GoodbyeInv, [Next]_vars PROVE GoodbyeInv'
  OBVIOUS
<1> USE DEF disk, signals, sockets, log, clients, client_socket_group_count
<1>t. /\ Len(client_socket_group) \in Nat /\ k \in Nat /\ k >= 1
      /\ peer \in [Clients -> {"none", "open", "gone", "reset", "closed"}]
      /\ \A i \in 1 .. Len(client_socket_group) : client_socket_group[i] \in Clients
  BY BoundsAssumption, LenProperties, GroupMember DEF TypeOK, BoundsAssumption
<1>1. CASE \/ Edit \/ sighup_handler \/ sigint_handler
           \/ \E c \in Clients, line \in {"info", "killed"} : log_message(c, line)
  BY <1>1 DEF Edit, sighup_handler, sigint_handler, log_message, GoodbyeInv, Over, Told
<1>2. ASSUME NEW c \in Clients, Connect(c) \/ ClientEnds(c) \/ Discard(c) PROVE GoodbyeInv'
  BY <1>2, <1>t DEF Connect, ClientEnds, Discard, GoodbyeInv, Over, Told
<1>3. CASE Accept \/ Send
  <2>1. PICK c \in Clients : Write(c, config) /\ config \in Message /\ pc \in {"accept", "send"}
    <3>1. ASSUME Accept PROVE Head(backlog) \in Clients
      BY <3>1, HeadOfBacklog DEF Accept
    <3>2. ASSUME Send PROVE client_socket_group[k] \in Clients
      BY <3>2, <1>t DEF Send
    <3> QED BY <1>3, <3>1, <3>2 DEF Accept, Send, TypeOK, Message
  <2>2. \A d \in Clients : peer'[d] = "closed" => peer[d] = "closed" /\ sent'[d] = sent[d]
    BY <2>1, WriteType
  <2>3. pc' \in {"accept", "send", "died"}
    BY <2>1, WriteType
  <2> QED BY <2>2, <2>3 DEF GoodbyeInv, Told
<1>4. CASE Exit
  <2>1. k \in 1 .. client_socket_group_count
    BY <1>4, <1>t DEF Exit
  <2>2. PICK c \in Clients :
          /\ c = client_socket_group[k] /\ k' = k + 1 /\ UNCHANGED client_socket_group
          /\ \/ /\ UNCHANGED pc /\ peer[c] \in {"open", "gone"}
                /\ sent' = [sent EXCEPT ![c] = Append(@, EGGZIT)]
                /\ peer' = [peer EXCEPT ![c] = "closed"]
             \/ pc' \in {"exit", "died"} /\ peer[c] = "reset" /\ UNCHANGED <<sent, peer>>
    BY <1>4, <2>1, <1>t DEF Exit
  <2>3. sent \in [Clients -> Seq(Message)]
    BY DEF TypeOK, Message
  <2>4. /\ sent[c] \in Seq(Message) /\ EGGZIT \in Message
        /\ Append(sent[c], EGGZIT) # <<>>
        /\ Append(sent[c], EGGZIT)[Len(Append(sent[c], EGGZIT))] = EGGZIT
    BY <2>3, LastOfAppend DEF Message
  <2>5. \A d \in Clients : peer'[d] = "closed" => Told(d)'
    BY <2>2, <2>3, <2>4, <1>t DEF GoodbyeInv, Told
  <2>6. Over(c)' /\ \A d \in Clients : Over(d) => Over(d)'
    BY <2>2, <1>t DEF Over
  <2>7. \A i \in 1 .. k' - 1 : i <= Len(client_socket_group') => Over(client_socket_group[i])'
    BY <1>4, <2>2, <2>6, <1>t DEF GoodbyeInv, Exit
  <2>8. pc' \notin {"summary", "done"}
    BY <1>4, <2>2 DEF Exit
  <2> QED BY <2>5, <2>7, <2>8 DEF GoodbyeInv
<1>5. CASE EndExit
  BY <1>5, <1>t DEF EndExit, GoodbyeInv, Over, Told
<1>6. CASE \/ Overrun \/ EndAccept \/ Reread \/ ReadRaw \/ Parse \/ EndSend \/ Check \/ Read \/ EndRead
           \/ Summary \/ UNCHANGED vars
  BY <1>6, <1>t
  DEF Overrun, EndAccept, Reread, ReadRaw, Parse, EndSend, Check, Read, EndRead, Summary, vars,
      GoodbyeInv, Over, Told
<1> QED
  BY <1>1, <1>2, <1>3, <1>4, <1>5, <1>6 DEF Next, Environment, main

\* A server that has ended on SIGINT has told every client it served, save those
\* whose own end was gone before.
THEOREM GoodbyeHolds == Spec => []Goodbye
<1>1. Init => StepInv /\ GoodbyeInv
  BY DEF Init, StepInv, SentInv, GoodbyeInv, Told
<1>2. TypeOK /\ TypeOK' /\ StepInv /\ GoodbyeInv /\ [Next]_vars => StepInv' /\ GoodbyeInv'
  BY StepNext, GoodbyeNext
<1>3. TypeOK /\ StepInv /\ GoodbyeInv => Goodbye
  <2> SUFFICES ASSUME TypeOK, StepInv, GoodbyeInv, pc \in {"summary", "done"},
                      NEW c \in Clients, sent[c] # <<>>
               PROVE  peer[c] \in {"gone", "reset"} \/ Told(c)
    BY DEF Goodbye, Served
  <2>1. peer[c] # "none" /\ (peer[c] = "open" => Member(c))
    BY DEF StepInv, SentInv
  <2>2. Member(c) => Over(c)
    BY DEF GoodbyeInv, Member
  <2> QED BY <2>1, <2>2 DEF GoodbyeInv, Over, TypeOK
<1> QED BY <1>1, <1>2, <1>3, ServerTypeCorrect, PTL DEF Spec

-----------------------------------------------------------------------------
(***************************************************************************)
(* The array of sockets.  A connection is in the backlog or in the array,  *)
(* once: the two together grow only when a client that never connected     *)
(* does, and the array keeps what it has accepted for ever.                *)
(***************************************************************************)
Admitted == client_socket_group \o backlog
Started  == {c \in Clients : peer[c] # "none"}

AdmittedInv ==
  /\ \A i \in 1 .. Len(Admitted) : peer[Admitted[i]] # "none"
  /\ \A i, j \in 1 .. Len(Admitted) : Admitted[i] = Admitted[j] => i = j
  /\ pc = "overrun" => Len(Admitted) > MAX_SOCKETS

\* Accepting a connection moves it from the one to the other.
LEMMA AcceptMoves ==
  ASSUME TypeOK, Accept
  PROVE  Admitted' = Admitted
<1> DEFINE b == backlog  g == client_socket_group
<1>1. b \in Seq(Clients) /\ g \in Seq(Clients) /\ b # <<>>
  BY DEF TypeOK, Accept
<1>2. Head(b) \in Clients /\ Tail(b) \in Seq(Clients)
  BY <1>1, HeadTailProperties
<1>3. b = <<Head(b)>> \o Tail(b)
  BY <1>1
<1>4. Append(g, Head(b)) = g \o <<Head(b)>> /\ <<Head(b)>> \in Seq(Clients)
  BY <1>1, <1>2
<1>5. (g \o <<Head(b)>>) \o Tail(b) = g \o (<<Head(b)>> \o Tail(b))
  BY <1>1, <1>2, <1>4, ConcatAssociative
<1>6. Admitted' = Append(g, Head(b)) \o Tail(b)
  BY DEF Accept, Admitted
<1> QED BY <1>3, <1>4, <1>5, <1>6 DEF Admitted

LEMMA AdmittedNext == TypeOK /\ AdmittedInv /\ [Next]_vars => AdmittedInv'
<1> SUFFICES ASSUME TypeOK, AdmittedInv, [Next]_vars PROVE AdmittedInv'
  OBVIOUS
<1> USE DEF disk, signals, sockets, log, clients
<1>t. /\ client_socket_group \in Seq(Clients) /\ backlog \in Seq(Clients)
      /\ peer \in [Clients -> {"none", "open", "gone", "reset", "closed"}]
      /\ Admitted \in Seq(Clients) /\ Len(Admitted) \in Nat
      /\ Len(Admitted) = Len(client_socket_group) + Len(backlog)
      /\ \A i \in 1 .. Len(Admitted) : Admitted[i] \in Clients
  BY ConcatProperties, LenProperties DEF TypeOK, Admitted
<1>i. /\ \A i \in 1 .. Len(Admitted) : peer[Admitted[i]] # "none"
      /\ \A i, j \in 1 .. Len(Admitted) : Admitted[i] = Admitted[j] => i = j
      /\ pc = "overrun" => Len(Admitted) > MAX_SOCKETS
  BY DEF AdmittedInv
<1>1. ASSUME UNCHANGED Admitted, pc' = "overrun" => pc = "overrun",
             \A c \in Clients : peer[c] # "none" => peer'[c] # "none"
      PROVE  AdmittedInv'
  <2>1. \A i \in 1 .. Len(Admitted') : peer'[Admitted'[i]] # "none"
    BY <1>1, <1>i, <1>t
  <2>2. \A i, j \in 1 .. Len(Admitted') : Admitted'[i] = Admitted'[j] => i = j
    BY <1>1, <1>i
  <2>3. pc' = "overrun" => Len(Admitted') > MAX_SOCKETS
    BY <1>1, <1>i
  <2> QED BY <2>1, <2>2, <2>3 DEF AdmittedInv
<1>2. ASSUME NEW c \in Clients, Connect(c) PROVE AdmittedInv'
  <2>1. peer[c] = "none" /\ peer' = [peer EXCEPT ![c] = "open"] /\ pc # "overrun" /\ UNCHANGED pc
    BY <1>2 DEF Connect, Stopped
  <2>2. Admitted' = Append(Admitted, c)
    <3>1. backlog' = Append(backlog, c) /\ UNCHANGED client_socket_group
      BY <1>2 DEF Connect
    <3>2. client_socket_group \o Append(backlog, c) = Append(client_socket_group \o backlog, c)
      BY <1>t
    <3> QED BY <3>1, <3>2 DEF Admitted
  <2>3. /\ Len(Admitted') = Len(Admitted) + 1 /\ Admitted'[Len(Admitted) + 1] = c
        /\ \A i \in 1 .. Len(Admitted) : Admitted'[i] = Admitted[i] /\ Admitted[i] # c
    <3>1. /\ Len(Admitted') = Len(Admitted) + 1 /\ Admitted'[Len(Admitted) + 1] = c
          /\ \A i \in 1 .. Len(Admitted) : Admitted'[i] = Admitted[i]
      BY <2>2, <1>t, AppendProperties
    <3>2. \A i \in 1 .. Len(Admitted) : Admitted[i] # c
      BY <2>1, <1>i
    <3> QED BY <3>1, <3>2
  <2>4. \A i \in 1 .. Len(Admitted') : i \in 1 .. Len(Admitted) \/ i = Len(Admitted) + 1
    BY <2>3, <1>t
  <2>5. \A i \in 1 .. Len(Admitted') : peer'[Admitted'[i]] # "none"
    BY <2>1, <2>3, <2>4, <1>i, <1>t
  <2>6. \A i, j \in 1 .. Len(Admitted') : Admitted'[i] = Admitted'[j] => i = j
    BY <2>3, <2>4, <1>i
  <2> QED BY <2>1, <2>5, <2>6 DEF AdmittedInv
<1>3. CASE Accept
  <2>1. Head(backlog) \in Clients /\ Write(Head(backlog), config) /\ config \in Message
        /\ pc = "accept"
    BY <1>3, HeadOfBacklog DEF Accept, TypeOK, Message
  <2>2. pc' \in {pc, "died"} /\ \A c \in Clients : peer[c] # "none" => peer'[c] # "none"
    BY <2>1, WriteType
  <2> QED BY <1>1, <1>3, <2>1, <2>2, AcceptMoves
<1>4. CASE Send
  <2>1. k \in 1 .. client_socket_group_count
    BY <1>4, <1>t, LenProperties DEF Send, TypeOK, client_socket_group_count
  <2>2. client_socket_group[k] \in Clients /\ Write(client_socket_group[k], config)
        /\ config \in Message /\ pc = "send" /\ UNCHANGED <<client_socket_group, backlog>>
    BY <1>4, <2>1, GroupMember DEF Send, TypeOK, Message
  <2>3. pc' \in {pc, "died"} /\ \A c \in Clients : peer[c] # "none" => peer'[c] # "none"
    BY <2>2, WriteType
  <2> QED BY <1>1, <2>2, <2>3 DEF Admitted
<1>5. CASE Exit
  <2>1. /\ pc = "exit" /\ pc' \in {pc, "died"} /\ UNCHANGED <<client_socket_group, backlog>>
        /\ \A c \in Clients : peer[c] # "none" => peer'[c] # "none"
    BY <1>5, <1>t DEF Exit
  <2> QED BY <1>1, <2>1 DEF Admitted
<1>6. CASE Overrun
  <2>1. /\ backlog # <<>> /\ Len(client_socket_group) = MAX_SOCKETS
        /\ UNCHANGED <<client_socket_group, backlog, peer>>
    BY <1>6 DEF Overrun, client_socket_group_count
  <2>2. Len(backlog) > 0
    BY <2>1, <1>t, EmptySeq, LenProperties
  <2>3. Len(Admitted) > MAX_SOCKETS
    BY <2>1, <2>2, <1>t, BoundsAssumption DEF BoundsAssumption
  <2>4. UNCHANGED Admitted
    BY <2>1 DEF Admitted
  <2> QED BY <2>1, <2>3, <2>4, <1>i DEF AdmittedInv
<1>7. CASE \E c \in Clients : ClientEnds(c)
  <2>1. /\ UNCHANGED <<pc, client_socket_group, backlog>>
        /\ \A c \in Clients : peer[c] # "none" => peer'[c] # "none"
    BY <1>7, <1>t DEF ClientEnds
  <2> QED BY <1>1, <2>1 DEF Admitted
<1>8. CASE \/ Edit \/ sighup_handler \/ sigint_handler \/ EndAccept \/ Reread \/ ReadRaw \/ Parse
           \/ EndSend \/ Check \/ Read \/ EndRead \/ EndExit \/ Summary \/ UNCHANGED vars
           \/ \E c \in Clients : Discard(c) \/ \E line \in {"info", "killed"} : log_message(c, line)
  <2>1. /\ UNCHANGED <<client_socket_group, backlog, peer>>
        /\ pc' = "overrun" => pc = "overrun"
    BY <1>8
    DEF Edit, sighup_handler, sigint_handler, EndAccept, Reread, ReadRaw, Parse, EndSend, Check,
        Read, EndRead, EndExit, Summary, Discard, log_message, vars
  <2> QED BY <1>1, <2>1 DEF Admitted
<1> QED
  BY <1>2, <1>3, <1>4, <1>5, <1>6, <1>7, <1>8 DEF Next, Environment, main

\* The array is overrun only once more clients have been started than it has places,
\* because every place it has given belongs to another client.
THEOREM FitsHolds == Spec => []Fits
<1>1. Init => AdmittedInv
  <2> SUFFICES ASSUME Init PROVE AdmittedInv
    OBVIOUS
  <2>1. Admitted = <<>> /\ Len(Admitted) = 0
    BY DEF Init, Admitted
  <2> QED BY <2>1 DEF Init, AdmittedInv
<1>2. TypeOK /\ AdmittedInv /\ [Next]_vars => AdmittedInv'
  BY AdmittedNext
<1>3. TypeOK /\ AdmittedInv => Fits
  <2> SUFFICES ASSUME TypeOK, AdmittedInv, pc = "overrun"
               PROVE  ~(Cardinality(Started) <= MAX_SOCKETS)
    BY DEF Fits, Started
  <2> DEFINE n == Len(Admitted)
  <2>1. Admitted \in Seq(Clients) /\ n \in Nat /\ n > MAX_SOCKETS
    BY ConcatProperties, LenProperties DEF TypeOK, AdmittedInv, Admitted
  <2>2. IsFiniteSet(Started) /\ Cardinality(Started) \in Nat
    BY ClientsAssumption, FS_Subset, FS_CardinalityType DEF ClientsAssumption, Started
  <2>3. Admitted \in Injection(1 .. n, Started)
    <3>1. DOMAIN Admitted = 1 .. n /\ \A i \in 1 .. n : Admitted[i] \in Started
      BY <2>1, LenProperties DEF AdmittedInv, Started
    <3>2. Admitted \in [1 .. n -> Started]
      BY <2>1, <3>1
    <3>3. IsInjective(Admitted)
      BY <3>1 DEF AdmittedInv, IsInjective
    <3> QED BY <3>2, <3>3 DEF Injection
  <2>4. Cardinality(1 .. n) <= Cardinality(Started)
    BY <2>2, <2>3, FS_Injection
  <2>5. Cardinality(1 .. n) = n
    <3>1. n \in Int /\ 1 \in Int
      BY <2>1
    <3> HIDE DEF n
    <3>2. Cardinality(1 .. n) = IF 1 > n THEN 0 ELSE n - 1 + 1
      BY <3>1, FS_Interval
    <3> QED BY <2>1, <3>2
  <2> QED BY <2>1, <2>2, <2>4, <2>5, BoundsAssumption DEF BoundsAssumption
<1> QED BY <1>1, <1>2, <1>3, ServerTypeCorrect, PTL DEF Spec

-----------------------------------------------------------------------------
(***************************************************************************)
(* Kills are counted once.  What is unread is a finite set of places in    *)
(* the lines of the clients; a read takes a place away or moves the places *)
(* of one client by one.                                                   *)
(***************************************************************************)
Kind == {"info", "killed", "rest"}
Lines == [Clients -> Seq(Kind)]
Places(L) == UNION {{<<c, i>> : i \in KilledAt(L[c])} : c \in Clients}
SameBut(L, M, c) == \A d \in Clients : d # c => M[d] = L[d]

CountInv ==
  /\ IsFiniteSet(Places(lines))
  /\ kill_count + Cardinality(Places(lines)) + lost <= kills
  /\ tears = 0 => \A c \in Clients : \A i \in 1 .. Len(lines[c]) : lines[c][i] # "rest"
  /\ pc = "exit" => kill_program
  /\ tears = 0 /\ ~kill_program /\ ~Stopped
       => kill_count + Cardinality(Places(lines)) + lost = kills

\* The places of one client move by one; none is new and none is lost.
Moved(U, V, c) ==
  /\ U \subseteq Clients \X Nat /\ V \subseteq Clients \X Nat
  /\ \A d \in Clients, i \in Nat :
       <<d, i>> \in U => (IF d = c THEN <<d, i + 1>> ELSE <<d, i>>) \in V
  /\ \A d \in Clients, j \in Nat : <<d, j>> \in V =>
       \E i \in Nat : <<d, i>> \in U /\ j = (IF d = c THEN i + 1 ELSE i)

LEMMA MovedPlaces ==
  ASSUME NEW U, NEW V, NEW c, Moved(U, V, c), IsFiniteSet(V)
  PROVE  IsFiniteSet(U) /\ Cardinality(U) = Cardinality(V)
<1> USE DEF Moved
<1> DEFINE f == [x \in U |-> IF x[1] = c THEN <<x[1], x[2] + 1>> ELSE x]
<1>1. \A x \in U : x[1] \in Clients /\ x[2] \in Nat /\ x = <<x[1], x[2]>>
  OBVIOUS
<1>2. f \in [U -> V]
  BY <1>1
<1>3. ASSUME NEW x \in U, NEW y \in U, f[x] = f[y]
      PROVE  x = y
  <2>1. x[1] = y[1] /\ x[2] = y[2]
    BY <1>1, <1>3
  <2> QED BY <1>1, <2>1
<1>4. f \in Injection(U, V)
  BY <1>2, <1>3 DEF Injection, IsInjective
<1>5. /\ IsFiniteSet(U)
      /\ Cardinality(U) = Cardinality(V) <=> f \in Surjection(U, V)
  BY <1>4, FS_Injection
<1>6. f \in Surjection(U, V)
  <2>1. ASSUME NEW y \in V PROVE \E x \in U : f[x] = y
    <3>1. PICK d \in Clients, j \in Nat : y = <<d, j>>
      OBVIOUS
    <3>2. PICK i \in Nat : <<d, i>> \in U /\ j = (IF d = c THEN i + 1 ELSE i)
      BY <3>1
    <3> QED BY <3>1, <3>2
  <2> QED BY <1>2, <2>1 DEF Surjection
<1> QED BY <1>5, <1>6

LEMMA SamePlaces ==
  ASSUME NEW U, NEW V, U \subseteq Clients \X Nat, V \subseteq Clients \X Nat,
         \A d \in Clients, i \in Nat : <<d, i>> \in U <=> <<d, i>> \in V
  PROVE  U = V
<1>1. ASSUME NEW x \in Clients \X Nat PROVE x \in U <=> x \in V
  <2>1. PICK d \in Clients, i \in Nat : x = <<d, i>>
    OBVIOUS
  <2> QED BY <2>1
<1> QED BY <1>1

LEMMA PlacesOf ==
  ASSUME NEW L \in Lines
  PROVE  /\ Places(L) \subseteq Clients \X Nat
         /\ \A c \in Clients, i \in Nat :
              <<c, i>> \in Places(L) <=> i \in 1 .. Len(L[c]) /\ L[c][i] = "killed"
<1>1. \A c \in Clients : L[c] \in Seq(Kind)
  BY DEF Lines
<1>2. \A c \in Clients : DOMAIN L[c] = 1 .. Len(L[c]) /\ Len(L[c]) \in Nat
  BY <1>1
<1> QED BY <1>2 DEF Places, KilledAt

\* What Tail leaves, and what a blank before it.
LEMMA TailPlaces ==
  ASSUME NEW S, NEW q \in Seq(S), q # <<>>, NEW e \in S
  PROVE  /\ Len(q) \in Nat \ {0} /\ Head(q) = q[1]
         /\ Tail(q) \in Seq(S) /\ Len(Tail(q)) = Len(q) - 1
         /\ \A i \in 1 .. Len(q) - 1 : Tail(q)[i] = q[i + 1]
         /\ <<e>> \o Tail(q) \in Seq(S) /\ Len(<<e>> \o Tail(q)) = Len(q)
         /\ (<<e>> \o Tail(q))[1] = e
         /\ \A i \in 2 .. Len(q) : (<<e>> \o Tail(q))[i] = q[i]
<1>1. /\ Len(q) \in Nat \ {0} /\ Head(q) = q[1]
      /\ Tail(q) \in Seq(S) /\ Len(Tail(q)) = Len(q) - 1
      /\ \A i \in 1 .. Len(q) - 1 : Tail(q)[i] = q[i + 1]
  OBVIOUS
<1> QED BY <1>1

\* The first place of one client taken away.
LEMMA FirstPlace ==
  ASSUME NEW L \in Lines, NEW c \in Clients, L[c] # <<>>, IsFiniteSet(Places(L))
  PROVE  LET V == Places(L) \ {<<c, 1>>}
         IN  /\ IsFiniteSet(V) /\ Cardinality(Places(L)) \in Nat
             /\ Cardinality(V) = IF L[c][1] = "killed" THEN Cardinality(Places(L)) - 1
                                                      ELSE Cardinality(Places(L))
             /\ V \subseteq Clients \X Nat
             /\ \A d \in Clients, i \in Nat :
                  <<d, i>> \in V <=> /\ i \in 1 .. Len(L[d]) /\ L[d][i] = "killed"
                                    /\ ~(d = c /\ i = 1)
<1> DEFINE V == Places(L) \ {<<c, 1>>}
<1>1. /\ \A d \in Clients, i \in Nat :
           <<d, i>> \in Places(L) <=> i \in 1 .. Len(L[d]) /\ L[d][i] = "killed"
      /\ Places(L) \subseteq Clients \X Nat
  BY PlacesOf
<1>2. Cardinality(Places(L)) \in Nat
  BY FS_CardinalityType
<1>3. /\ IsFiniteSet(V)
      /\ Cardinality(V) = IF <<c, 1>> \in Places(L) THEN Cardinality(Places(L)) - 1
                                                   ELSE Cardinality(Places(L))
  BY FS_RemoveElement
<1>4. L[c] \in Seq(Kind) /\ Len(L[c]) \in Nat \ {0}
  BY DEF Lines
<1>5. <<c, 1>> \in Places(L) <=> L[c][1] = "killed"
  BY <1>1, <1>4
<1>6. /\ V \subseteq Clients \X Nat
      /\ \A d \in Clients, i \in Nat :
           <<d, i>> \in V <=> /\ i \in 1 .. Len(L[d]) /\ L[d][i] = "killed"
                             /\ ~(d = c /\ i = 1)
  BY <1>1
<1> QED BY <1>2, <1>3, <1>5, <1>6

\* A message read in one piece: the other places of its client move by one.
LEMMA DropPlaces ==
  ASSUME NEW L \in Lines, NEW M \in Lines, NEW c \in Clients, SameBut(L, M, c),
         L[c] # <<>>, M[c] = Tail(L[c]), IsFiniteSet(Places(L))
  PROVE  /\ IsFiniteSet(Places(M))
         /\ Cardinality(Places(M)) = Cardinality(Places(L) \ {<<c, 1>>})
<1> DEFINE V == Places(L) \ {<<c, 1>>}
           U == Places(M)
<1>1. /\ IsFiniteSet(V) /\ V \subseteq Clients \X Nat
      /\ \A d \in Clients, i \in Nat :
           <<d, i>> \in V <=> /\ i \in 1 .. Len(L[d]) /\ L[d][i] = "killed"
                             /\ ~(d = c /\ i = 1)
  BY FirstPlace
<1>2. /\ U \subseteq Clients \X Nat
      /\ \A d \in Clients, i \in Nat :
           <<d, i>> \in U <=> i \in 1 .. Len(M[d]) /\ M[d][i] = "killed"
  BY PlacesOf
<1>3. L[c] \in Seq(Kind) /\ Len(L[c]) \in Nat \ {0}
  BY DEF Lines
<1>4. Len(M[c]) = Len(L[c]) - 1 /\ \A i \in 1 .. Len(L[c]) - 1 : M[c][i] = L[c][i + 1]
  BY <1>3, TailPlaces
<1>5. \A d \in Clients : d # c => M[d] = L[d]
  BY DEF SameBut
<1> HIDE DEF U, V
<1>6. \A d \in Clients, i \in Nat :
        <<d, i>> \in U => (IF d = c THEN <<d, i + 1>> ELSE <<d, i>>) \in V
  <2>1. ASSUME NEW i \in Nat, <<c, i>> \in U PROVE <<c, i + 1>> \in V
    <3>1. i \in 1 .. Len(M[c]) /\ M[c][i] = "killed"
      BY <1>2, <2>1
    <3>2. /\ i + 1 \in Nat /\ i + 1 \in 1 .. Len(L[c]) /\ i + 1 # 1
          /\ L[c][i + 1] = "killed"
      BY <1>3, <1>4, <3>1
    <3> QED BY <1>1, <3>2
  <2>2. ASSUME NEW d \in Clients, d # c, NEW i \in Nat, <<d, i>> \in U PROVE <<d, i>> \in V
    BY <1>1, <1>2, <1>5, <2>2
  <2> QED BY <2>1, <2>2
<1>7. \A d \in Clients, j \in Nat : <<d, j>> \in V =>
        \E i \in Nat : <<d, i>> \in U /\ j = (IF d = c THEN i + 1 ELSE i)
  <2>1. ASSUME NEW j \in Nat, <<c, j>> \in V
        PROVE  \E i \in Nat : <<c, i>> \in U /\ j = i + 1
    <3>1. j \in 1 .. Len(L[c]) /\ L[c][j] = "killed" /\ j # 1
      BY <1>1, <2>1
    <3>2. PICK i \in Nat : i \in 1 .. Len(L[c]) - 1 /\ j = i + 1
      <4>1. j - 1 \in 1 .. Len(L[c]) - 1 /\ j = (j - 1) + 1
        BY <1>3, <3>1
      <4> QED BY <1>3, <4>1
    <3>3. i \in 1 .. Len(M[c]) /\ M[c][i] = "killed"
      BY <1>3, <1>4, <3>1, <3>2
    <3> QED BY <1>2, <3>2, <3>3
  <2>2. ASSUME NEW d \in Clients, d # c, NEW j \in Nat, <<d, j>> \in V PROVE <<d, j>> \in U
    BY <1>1, <1>2, <1>5, <2>2
  <2> QED BY <2>1, <2>2
<1>8. Moved(U, V, c)
  BY <1>1, <1>2, <1>6, <1>7, Zenon DEF Moved
<1>9. IsFiniteSet(U) /\ Cardinality(U) = Cardinality(V)
  BY <1>1, <1>8, MovedPlaces, Zenon
<1> QED BY <1>9 DEF U, V

\* A message cut in two: its place is now one of padding.
LEMMA BlankPlaces ==
  ASSUME NEW L \in Lines, NEW M \in Lines, NEW c \in Clients, SameBut(L, M, c),
         L[c] # <<>>, M[c] = <<"rest">> \o Tail(L[c]), IsFiniteSet(Places(L))
  PROVE  Places(M) = Places(L) \ {<<c, 1>>}
<1> DEFINE V == Places(L) \ {<<c, 1>>}
           U == Places(M)
<1>1. /\ IsFiniteSet(V) /\ V \subseteq Clients \X Nat
      /\ \A d \in Clients, i \in Nat :
           <<d, i>> \in V <=> /\ i \in 1 .. Len(L[d]) /\ L[d][i] = "killed"
                             /\ ~(d = c /\ i = 1)
  BY FirstPlace
<1>2. /\ U \subseteq Clients \X Nat
      /\ \A d \in Clients, i \in Nat :
           <<d, i>> \in U <=> i \in 1 .. Len(M[d]) /\ M[d][i] = "killed"
  BY PlacesOf
<1>3. L[c] \in Seq(Kind) /\ Len(L[c]) \in Nat \ {0} /\ "rest" \in Kind
  BY DEF Lines, Kind
<1>4. Len(M[c]) = Len(L[c]) /\ M[c][1] = "rest" /\ \A i \in 2 .. Len(L[c]) : M[c][i] = L[c][i]
  BY <1>3, TailPlaces
<1>5. \A d \in Clients : d # c => M[d] = L[d]
  BY DEF SameBut
<1> HIDE DEF U, V
<1>6. ASSUME NEW i \in Nat PROVE <<c, i>> \in U <=> <<c, i>> \in V
  BY <1>1, <1>2, <1>3, <1>4
<1>7. ASSUME NEW d \in Clients, d # c, NEW i \in Nat PROVE <<d, i>> \in U <=> <<d, i>> \in V
  BY <1>1, <1>2, <1>5, <1>7
<1>8. \A d \in Clients, i \in Nat : <<d, i>> \in U <=> <<d, i>> \in V
  BY <1>6, <1>7
<1>9. U = V
  BY <1>1, <1>2, <1>8, SamePlaces, Zenon
<1> QED BY <1>9 DEF U, V

\* A line that a client writes.
LEMMA AppendPlaces ==
  ASSUME NEW L \in Lines, NEW M \in Lines, NEW c \in Clients, SameBut(L, M, c),
         NEW e \in Kind, M[c] = Append(L[c], e), IsFiniteSet(Places(L))
  PROVE  /\ IsFiniteSet(Places(M))
         /\ Cardinality(Places(M)) = IF e = "killed" THEN Cardinality(Places(L)) + 1
                                                    ELSE Cardinality(Places(L))
<1> DEFINE n == Len(L[c]) + 1
<1>1. /\ Places(L) \subseteq Clients \X Nat /\ Places(M) \subseteq Clients \X Nat
      /\ \A d \in Clients, i \in Nat :
           <<d, i>> \in Places(L) <=> i \in 1 .. Len(L[d]) /\ L[d][i] = "killed"
      /\ \A d \in Clients, i \in Nat :
           <<d, i>> \in Places(M) <=> i \in 1 .. Len(M[d]) /\ M[d][i] = "killed"
  BY PlacesOf
<1>2. L[c] \in Seq(Kind) /\ Len(L[c]) \in Nat /\ n \in Nat
  BY DEF Lines
<1>3. Len(M[c]) = n /\ M[c][n] = e /\ \A i \in 1 .. Len(L[c]) : M[c][i] = L[c][i]
  BY <1>2, AppendProperties
<1>4. <<c, n>> \notin Places(L)
  BY <1>1, <1>2
<1>5. ASSUME NEW d \in Clients, NEW i \in Nat, ~(d = c /\ i = n)
      PROVE  <<d, i>> \in Places(L) <=> <<d, i>> \in Places(M)
  <2>1. CASE d = c
    <3>1. i \in 1 .. n <=> i \in 1 .. Len(L[c])
      BY <1>2, <1>5, <2>1
    <3>2. i \in 1 .. Len(L[c]) => M[c][i] = L[c][i]
      BY <1>3
    <3>3. /\ <<c, i>> \in Places(L) <=> i \in 1 .. Len(L[c]) /\ L[c][i] = "killed"
          /\ <<c, i>> \in Places(M) <=> i \in 1 .. n /\ M[c][i] = "killed"
      BY <1>1, <1>3
    <3> QED BY <2>1, <3>1, <3>2, <3>3
  <2>2. CASE d # c
    BY <1>1, <1>5, <2>2 DEF SameBut
  <2> QED BY <2>1, <2>2
<1>6. <<c, n>> \in Places(M) <=> e = "killed"
  BY <1>1, <1>2, <1>3
<1>7. CASE e = "killed"
  <2> DEFINE W == Places(L) \cup {<<c, n>>}
  <2>1. IsFiniteSet(W) /\ Cardinality(W) = Cardinality(Places(L)) + 1
    BY <1>4, FS_AddElement
  <2>2. W \subseteq Clients \X Nat
    BY <1>1, <1>2
  <2>3. \A d \in Clients, i \in Nat : <<d, i>> \in Places(M) <=> <<d, i>> \in W
    BY <1>5, <1>6, <1>7
  <2> HIDE DEF W
  <2>4. Places(M) = W
    BY <1>1, <2>2, <2>3, SamePlaces, Zenon
  <2> QED BY <1>7, <2>1, <2>4
<1>8. CASE e # "killed"
  <2>1. \A d \in Clients, i \in Nat : <<d, i>> \in Places(M) <=> <<d, i>> \in Places(L)
    BY <1>4, <1>5, <1>6, <1>8
  <2>2. Places(M) = Places(L)
    BY <1>1, <2>1, SamePlaces, Zenon
  <2> QED BY <1>8, <2>2
<1> QED BY <1>7, <1>8

LEMMA LinesType ==
  TypeOK => /\ lines \in Lines /\ tears \in Nat /\ kill_count \in Nat /\ kills \in Nat
            /\ lost \in Nat
BY BoundsAssumption DEF BoundsAssumption, TypeOK, Lines, Kind

LEMMA CountInit == Init => CountInv
<1> SUFFICES ASSUME Init PROVE CountInv
  OBVIOUS
<1>1. lines \in Lines /\ \A c \in Clients : Len(lines[c]) = 0
  BY DEF Init, Lines
<1>2. /\ Places(lines) \subseteq Clients \X Nat
      /\ \A c \in Clients, i \in Nat :
           <<c, i>> \in Places(lines) <=> i \in 1 .. Len(lines[c]) /\ lines[c][i] = "killed"
  BY <1>1, PlacesOf
<1>3. \A i \in Nat : i \notin 1 .. 0
  OBVIOUS
<1>4. Places(lines) = {}
  <2>1. ASSUME NEW x \in Places(lines) PROVE FALSE
    <3>1. PICK c \in Clients, i \in Nat : x = <<c, i>>
      BY <1>2
    <3> QED BY <1>1, <1>2, <1>3, <3>1
  <2> QED BY <2>1
<1>5. IsFiniteSet(Places(lines)) /\ Cardinality(Places(lines)) = 0
  BY <1>4, FS_EmptySet
<1> QED BY <1>1, <1>5 DEF CountInv, Init

\* A read of a line: one place less if it reports a kill, which is then counted.
LEMMA CountMessage ==
  ASSUME TypeOK, TypeOK', CountInv, UNCHANGED <<pc, kills, lost, kill_program>>,
         NEW c \in Clients, ReadMessage(c)
  PROVE  CountInv'
<1> DEFINE q == lines[c]
           V == Places(lines) \ {<<c, 1>>}
<1>1. /\ lines \in Lines /\ lines' \in Lines /\ kill_count \in Nat /\ tears \in Nat
      /\ kills \in Nat /\ lost \in Nat /\ IsFiniteSet(Places(lines))
  <2>1. lines' \in Lines
    BY DEF TypeOK, Lines, Kind
  <2> QED BY <2>1, LinesType DEF CountInv
<1>2. q \in Seq(Kind) /\ q # <<>> /\ "rest" \in Kind
  BY <1>1 DEF Lines, Kind, ReadMessage
<1>3. Len(q) \in Nat \ {0} /\ Head(q) = q[1]
  BY <1>2, TailPlaces
<1>4. kill_count' = IF q[1] = "killed" THEN kill_count + 1 ELSE kill_count
  BY <1>3 DEF ReadMessage, TakeText
<1>5. /\ SameBut(lines, lines', c)
      /\ \/ lines'[c] = Tail(q) /\ tears' = tears
         \/ lines'[c] = <<"rest">> \o Tail(q) /\ tears' = tears + 1
  BY <1>1 DEF ReadMessage, Tear, Lines, SameBut
<1>6. /\ Cardinality(Places(lines)) \in Nat
      /\ Cardinality(V) = IF q[1] = "killed" THEN Cardinality(Places(lines)) - 1
                                            ELSE Cardinality(Places(lines))
      /\ IsFiniteSet(V)
  BY <1>1, <1>2, FirstPlace
<1>7. IsFiniteSet(Places(lines')) /\ Cardinality(Places(lines')) = Cardinality(V)
  <2>1. CASE lines'[c] = Tail(q)
    BY <1>1, <1>2, <1>5, <2>1, DropPlaces
  <2>2. CASE lines'[c] = <<"rest">> \o Tail(q)
    BY <1>1, <1>2, <1>5, <1>6, <2>2, BlankPlaces
  <2> QED BY <1>5, <2>1, <2>2
<1>8. kill_count' + Cardinality(Places(lines')) = kill_count + Cardinality(Places(lines))
  BY <1>1, <1>4, <1>6, <1>7
<1>9. ASSUME tears' = 0, NEW d \in Clients, NEW i \in 1 .. Len(lines'[d])
      PROVE  lines'[d][i] # "rest"
  <2>1. tears = 0 /\ lines'[c] = Tail(q)
    BY <1>1, <1>5, <1>9
  <2>2. \A e \in Clients : \A j \in 1 .. Len(lines[e]) : lines[e][j] # "rest"
    BY <2>1 DEF CountInv
  <2>3. CASE d # c
    BY <1>5, <1>9, <2>2, <2>3 DEF SameBut
  <2>4. CASE d = c
    <3>1. Len(Tail(q)) = Len(q) - 1 /\ \A j \in 1 .. Len(q) - 1 : Tail(q)[j] = q[j + 1]
      BY <1>2, TailPlaces
    <3>2. i \in 1 .. Len(q) - 1
      BY <1>9, <2>1, <2>4, <3>1
    <3>3. i + 1 \in 1 .. Len(q)
      BY <1>3, <3>2
    <3>4. lines'[d][i] = q[i + 1]
      BY <2>1, <2>4, <3>1, <3>2, Zenon
    <3> QED BY <2>2, <3>3, <3>4
  <2> QED BY <2>3, <2>4
<1>10. tears' = 0 => tears = 0
  BY <1>1, <1>5
<1> QED BY <1>7, <1>8, <1>9, <1>10 DEF CountInv, Stopped

\* A read of padding, which at most hides one more report.
LEMMA CountPadding ==
  ASSUME TypeOK, TypeOK', CountInv, UNCHANGED <<pc, kills, lost, kill_program>>,
         NEW c \in Clients, ReadPadding(c)
  PROVE  CountInv'
<1> DEFINE q == lines[c]
           V == Places(lines) \ {<<c, 1>>}
<1>1. /\ lines \in Lines /\ lines' \in Lines /\ kill_count \in Nat /\ tears \in Nat
      /\ kills \in Nat /\ lost \in Nat /\ IsFiniteSet(Places(lines))
  <2>1. lines' \in Lines
    BY DEF TypeOK, Lines, Kind
  <2> QED BY <2>1, LinesType DEF CountInv
<1>2. q \in Seq(Kind) /\ q # <<>> /\ "rest" \in Kind /\ q[1] = "rest" /\ Len(q) \in Nat \ {0}
  <2>1. q \in Seq(Kind) /\ q # <<>> /\ "rest" \in Kind /\ Head(q) = "rest"
    BY <1>1 DEF Lines, Kind, ReadPadding
  <2> QED BY <2>1, TailPlaces
<1>3. tears # 0 /\ tears' = tears /\ kill_count' = kill_count
  BY <1>2 DEF ReadPadding, log, CountInv
<1>4. /\ SameBut(lines, lines', c)
      /\ \/ lines'[c] = Tail(q)
         \/ Len(q) > 1 /\ lines'[c] = <<"rest">> \o Tail(Tail(q))
  BY <1>1 DEF ReadPadding, Lines, SameBut
<1>5. /\ Cardinality(Places(lines)) \in Nat /\ IsFiniteSet(V)
      /\ Cardinality(V) = Cardinality(Places(lines))
  BY <1>1, <1>2, FirstPlace
<1>6. /\ IsFiniteSet(Places(lines')) /\ Cardinality(Places(lines')) \in Nat
      /\ Cardinality(Places(lines')) <= Cardinality(Places(lines))
  <2>1. CASE lines'[c] = Tail(q)
    BY <1>1, <1>2, <1>4, <1>5, <2>1, DropPlaces
  <2>2. CASE Len(q) > 1 /\ lines'[c] = <<"rest">> \o Tail(Tail(q))
    <3> DEFINE N == [lines EXCEPT ![c] = Tail(q)]
               W == Places(N) \ {<<c, 1>>}
    <3>1. Tail(q) \in Seq(Kind) /\ Len(Tail(q)) = Len(q) - 1
      BY <1>2, TailPlaces
    <3>2. N \in Lines /\ SameBut(lines, N, c) /\ SameBut(N, lines', c) /\ N[c] = Tail(q)
      BY <1>1, <1>4, <3>1 DEF Lines, SameBut
    <3>3. Tail(q) # <<>>
      <4> DEFINE l == Len(q)
                 m == Len(Tail(q))
      <4>0. l \in Nat /\ l > 1 /\ m = l - 1
        BY <1>2, <2>2, <3>1
      <4> HIDE DEF l, m
      <4>3. m # 0
        BY <4>0
      <4>1. Len(Tail(q)) # 0
        BY <4>3 DEF m
      <4>2. Len(<<>>) = 0
        OBVIOUS
      <4> QED BY <4>1, <4>2, Zenon
    <3> HIDE DEF N
    <3>4. IsFiniteSet(Places(N)) /\ Cardinality(Places(N)) = Cardinality(Places(lines))
      BY <1>1, <1>2, <1>5, <3>2, DropPlaces
    <3>5. Places(lines') = W
      BY <1>1, <2>2, <3>2, <3>3, <3>4, BlankPlaces
    <3>6. IsFiniteSet(W) /\ Cardinality(W) <= Cardinality(Places(N)) /\ Cardinality(W) \in Nat
      BY <3>4, FS_Subset, FS_CardinalityType
    <3> QED BY <3>4, <3>5, <3>6
  <2> QED BY <1>4, <2>1, <2>2
<1> QED BY <1>1, <1>3, <1>5, <1>6 DEF CountInv

\* What leaves one of two summands for the other leaves the sum as it is.
LEMMA SameSum ==
  ASSUME NEW a \in Nat, NEW b \in Nat, NEW c \in Nat, NEW d \in Nat, NEW e \in Nat,
         d + b = e + c
  PROVE  a + b + d = a + c + e
OBVIOUS

\* A line thrown away by a reset: one place less, and one report lost if it was one.
LEMMA CountDiscard ==
  ASSUME TypeOK, TypeOK', CountInv, NEW c \in Clients, Discard(c)
  PROVE  CountInv'
<1> DEFINE q == lines[c]
           e == q[Len(q)]
<1>1. /\ lines \in Lines /\ lines' \in Lines /\ kill_count \in Nat /\ tears \in Nat
      /\ kills \in Nat /\ lost \in Nat /\ IsFiniteSet(Places(lines))
  <2>1. lines' \in Lines
    BY DEF TypeOK, Lines, Kind
  <2> QED BY <2>1, LinesType DEF CountInv
<1>2. /\ q \in Seq(Kind) /\ q # <<>>
      /\ SameBut(lines, lines', c) /\ lines'[c] = SubSeq(q, 1, Len(q) - 1)
      /\ UNCHANGED <<pc, kill_program, kill_count, kills, tears>>
      /\ lost' = IF e = "killed" THEN lost + 1 ELSE lost
  BY <1>1 DEF Discard, Lines, SameBut, signals, log
<1>3. e \in Kind /\ q = Append(lines'[c], e)
  BY <1>2, LessByLast
<1> HIDE DEF e
<1>4. /\ lines'[c] \in Seq(Kind) /\ Len(q) = Len(lines'[c]) + 1 /\ Len(lines'[c]) \in Nat
      /\ \A i \in 1 .. Len(lines'[c]) : lines'[c][i] = q[i]
  <2>1. lines'[c] \in Seq(Kind)
    BY <1>1 DEF Lines
  <2> QED BY <1>3, <2>1, AppendProperties, LenProperties
<1>5. \A d \in Clients : \A i \in 1 .. Len(lines'[d]) :
        i \in 1 .. Len(lines[d]) /\ lines'[d][i] = lines[d][i]
  <2> TAKE d \in Clients
  <2>1. CASE d = c
    BY <1>4, <2>1
  <2>2. CASE d # c
    BY <1>2, <2>2 DEF SameBut
  <2> QED BY <2>1, <2>2
<1>6. Places(lines') \subseteq Places(lines)
  <2>1. /\ Places(lines) \subseteq Clients \X Nat /\ Places(lines') \subseteq Clients \X Nat
        /\ \A d \in Clients, i \in Nat :
             <<d, i>> \in Places(lines) <=> i \in 1 .. Len(lines[d]) /\ lines[d][i] = "killed"
        /\ \A d \in Clients, i \in Nat :
             <<d, i>> \in Places(lines') <=> i \in 1 .. Len(lines'[d]) /\ lines'[d][i] = "killed"
    BY <1>1, PlacesOf
  <2>2. ASSUME NEW x \in Places(lines') PROVE x \in Places(lines)
    <3>1. PICK d \in Clients, i \in Nat : x = <<d, i>>
      BY <2>1
    <3> QED BY <1>5, <2>1, <3>1
  <2> QED BY <2>2
<1>7. IsFiniteSet(Places(lines')) /\ Cardinality(Places(lines')) \in Nat
  BY <1>1, <1>6, FS_Subset, FS_CardinalityType
<1>8. Cardinality(Places(lines)) = IF e = "killed" THEN Cardinality(Places(lines')) + 1
                                                  ELSE Cardinality(Places(lines'))
  <2>1. SameBut(lines', lines, c) /\ lines[c] = Append(lines'[c], e)
    BY <1>2, <1>3 DEF SameBut
  <2> QED BY <1>1, <1>3, <1>7, <2>1, AppendPlaces
<1>9. lost' + Cardinality(Places(lines')) = lost + Cardinality(Places(lines))
  BY <1>1, <1>2, <1>7, <1>8
<1>10. kill_count' + Cardinality(Places(lines')) + lost' = kill_count + Cardinality(Places(lines)) + lost
  <2>1. \A m, n \in Nat : lost' + n = lost + m => kill_count + n + lost' = kill_count + m + lost
    BY <1>1, <1>2, SameSum
  <2>2. Cardinality(Places(lines)) \in Nat
    BY <1>1, FS_CardinalityType
  <2> QED BY <1>2, <1>7, <1>9, <2>1, <2>2, Zenon
<1> QED BY <1>2, <1>5, <1>7, <1>10 DEF CountInv, Stopped

LEMMA CountNext == TypeOK /\ TypeOK' /\ CountInv /\ [Next]_vars => CountInv'
<1> SUFFICES ASSUME TypeOK, TypeOK', CountInv, [Next]_vars PROVE CountInv'
  OBVIOUS
<1> USE DEF disk, signals, sockets, log, clients
<1>t. /\ lines \in Lines /\ lines' \in Lines /\ kill_count \in Nat /\ tears \in Nat
      /\ kills \in Nat /\ lost \in Nat
      /\ IsFiniteSet(Places(lines)) /\ Cardinality(Places(lines)) \in Nat
  <2>1. lines' \in Lines
    BY DEF TypeOK, Lines, Kind
  <2> QED BY <2>1, LinesType, FS_CardinalityType DEF CountInv
\* A step that reads and counts nothing, and does not come to "exit" but by SIGINT.
<1>q. ASSUME UNCHANGED <<lines, kill_count, kills, lost, tears>>, kill_program => kill_program',
             Stopped => Stopped', pc' = "exit" => pc = "exit" \/ kill_program
      PROVE  CountInv'
  BY <1>q DEF CountInv
<1>1. CASE Edit
  BY <1>1, <1>q DEF Edit, Stopped
<1>2. CASE sighup_handler
  BY <1>2, <1>q DEF sighup_handler, Stopped
<1>3. CASE sigint_handler
  BY <1>3, <1>q DEF sigint_handler, Stopped
<1>4. ASSUME NEW c \in Clients, Connect(c) PROVE CountInv'
  BY <1>4, <1>q DEF Connect, Stopped
<1>5. ASSUME NEW c \in Clients, NEW line \in {"info", "killed"}, log_message(c, line)
      PROVE  CountInv'
  <2>1. /\ SameBut(lines, lines', c) /\ lines'[c] = Append(lines[c], line) /\ line \in Kind
        /\ UNCHANGED <<pc, kill_count, tears, lost, kill_program>>
        /\ kills' = IF line = "killed" THEN kills + 1 ELSE kills
    BY <1>5, <1>t DEF log_message, Lines, SameBut, Kind
  <2>2. /\ IsFiniteSet(Places(lines'))
        /\ Cardinality(Places(lines')) = IF line = "killed" THEN Cardinality(Places(lines)) + 1
                                                           ELSE Cardinality(Places(lines))
    BY <1>t, <2>1, AppendPlaces
  <2>3. ASSUME \A e \in Clients : \A j \in 1 .. Len(lines[e]) : lines[e][j] # "rest",
               NEW d \in Clients, NEW i \in 1 .. Len(lines'[d])
        PROVE  lines'[d][i] # "rest"
    <3>1. CASE d = c
      <4>1. lines[c] \in Seq(Kind)
        BY <1>t DEF Lines
      <4>2. /\ Len(lines'[c]) = Len(lines[c]) + 1 /\ Len(lines[c]) \in Nat
            /\ lines'[c][Len(lines[c]) + 1] = line
            /\ \A j \in 1 .. Len(lines[c]) : lines'[c][j] = lines[c][j]
        BY <2>1, <4>1
      <4> QED BY <1>5, <2>3, <3>1, <4>2
    <3>2. CASE d # c
      BY <2>1, <2>3, <3>2 DEF SameBut
    <3> QED BY <3>1, <3>2
  <2>4. /\ Cardinality(Places(lines')) - Cardinality(Places(lines)) = kills' - kills
        /\ kills \in Nat /\ kill_count \in Nat /\ lost \in Nat
        /\ Cardinality(Places(lines)) \in Nat /\ Cardinality(Places(lines')) \in Nat
    <3>1. kills \in Nat /\ kill_count \in Nat /\ lost \in Nat
      BY DEF TypeOK
    <3>2. Cardinality(Places(lines)) \in Nat /\ Cardinality(Places(lines')) \in Nat
      BY <1>t, <2>2, FS_CardinalityType
    <3> QED BY <2>1, <2>2, <3>1, <3>2
  <2>5. kill_count' = kill_count /\ lost' = lost /\ kills' \in Nat
    <3>1. kill_count' = kill_count /\ lost' = lost
      BY <2>1
    <3>2. kills' \in Nat
      BY DEF TypeOK
    <3> QED BY <3>1, <3>2
  <2>6. /\ kill_count + Cardinality(Places(lines)) + lost <= kills
             => kill_count' + Cardinality(Places(lines')) + lost' <= kills'
        /\ kill_count + Cardinality(Places(lines)) + lost = kills
             => kill_count' + Cardinality(Places(lines')) + lost' = kills'
    BY <2>4, <2>5
  <2> QED BY <2>1, <2>2, <2>3, <2>6 DEF CountInv, Stopped
<1>6. ASSUME NEW c \in Clients, ClientEnds(c) PROVE CountInv'
  BY <1>6, <1>q DEF ClientEnds, Stopped
<1>d. ASSUME NEW c \in Clients, Discard(c) PROVE CountInv'
  BY <1>d, CountDiscard
<1>w. ASSUME NEW c \in Clients, NEW m, Write(c, m) PROVE pc' \in {pc, "died"}
  BY <1>w DEF Write
<1>7. CASE Accept
  <2>1. Head(backlog) \in Clients
    BY <1>7, HeadOfBacklog DEF Accept
  <2> QED BY <1>7, <1>q, <1>w, <2>1 DEF Accept, Stopped
<1>8. CASE Overrun
  BY <1>8, <1>q DEF Overrun, Stopped
<1>9. CASE EndAccept
  BY <1>9, <1>q DEF EndAccept, Stopped
<1>10. CASE Reread
  BY <1>10, <1>q DEF Reread, Stopped
<1>11. CASE ReadRaw
  BY <1>11, <1>q DEF ReadRaw, Stopped
<1>12. CASE Parse
  BY <1>12, <1>q DEF Parse, Stopped
<1>13. CASE Send
  <2>1. client_socket_group[k] \in Clients
    BY <1>13, GroupMember DEF Send, TypeOK, client_socket_group_count
  <2> QED BY <1>13, <1>q, <1>w, <2>1 DEF Send, Stopped
<1>14. CASE EndSend
  BY <1>14, <1>q DEF EndSend, Stopped
<1>15. CASE Check
  BY <1>15, <1>q DEF Check, Stopped
<1>16. CASE Read
  <2> DEFINE c == client_socket_group[k]
  <2>1. c \in Clients
    BY <1>16, GroupMember DEF Read, TypeOK, client_socket_group_count
  <2>2. UNCHANGED <<pc, kills, lost, kill_program>>
    BY <1>16 DEF Read
  <2> HIDE DEF c
  <2>3. CASE NothingToRead(lines[c])
    BY <1>q, <2>2, <2>3 DEF NothingToRead, Stopped
  <2>4. CASE ReadMessage(c)
    BY <2>1, <2>2, <2>4, CountMessage
  <2>5. CASE ReadPadding(c)
    BY <2>1, <2>2, <2>5, CountPadding
  <2> QED BY <1>16, <2>3, <2>4, <2>5 DEF Read, c
<1>17. CASE EndRead
  BY <1>17, <1>q DEF EndRead, Stopped
<1>18. CASE Exit
  <2> DEFINE c == client_socket_group[k]
  <2>1. c \in Clients
    BY <1>18, GroupMember DEF Exit, TypeOK, client_socket_group_count
  <2>2. /\ pc = "exit" /\ pc' \in {pc, "died"} /\ UNCHANGED <<kills, lost, kill_program, kill_count, tears>>
        /\ lines' = lines \/ lines' = [lines EXCEPT ![c] = <<>>]
    BY <1>18 DEF Exit
  <2> HIDE DEF c
  <2>3. CASE lines' = lines
    BY <1>q, <2>2, <2>3 DEF Stopped
  <2>4. CASE lines' = [lines EXCEPT ![c] = <<>>]
    <3>1. lines'[c] = <<>> /\ SameBut(lines, lines', c)
      BY <1>t, <2>1, <2>4 DEF Lines, SameBut
    <3>2. Places(lines') \subseteq Places(lines)
      <4>1. \A d \in Clients : KilledAt(lines'[d]) \subseteq KilledAt(lines[d])
        BY <3>1 DEF KilledAt, SameBut
      <4> QED BY <4>1 DEF Places
    <3>3. /\ IsFiniteSet(Places(lines')) /\ Cardinality(Places(lines')) \in Nat
          /\ Cardinality(Places(lines')) <= Cardinality(Places(lines))
      BY <1>t, <3>2, FS_Subset, FS_CardinalityType
    <3>4. kill_program' = TRUE
      BY <2>2 DEF CountInv, TypeOK
    <3>5. tears' = 0 => \A d \in Clients : \A i \in 1 .. Len(lines'[d]) : lines'[d][i] # "rest"
      BY <2>2, <3>1 DEF CountInv, SameBut
    <3> QED BY <1>t, <2>2, <3>3, <3>4, <3>5 DEF CountInv
  <2> QED BY <2>2, <2>3, <2>4
<1>19. CASE EndExit
  BY <1>19, <1>q DEF EndExit, Stopped
<1>20. CASE Summary
  BY <1>20, <1>q DEF Summary, Stopped
<1>21. CASE UNCHANGED vars
  BY <1>21, <1>q DEF vars, Stopped
<1> QED BY <1>1, <1>2, <1>3, <1>4, <1>5, <1>6, <1>d, <1>7, <1>8, <1>9, <1>10, <1>11, <1>12, <1>13,
           <1>14, <1>15, <1>16, <1>17, <1>18, <1>19, <1>20, <1>21 DEF Next, Environment, main

\* No kill is counted twice, however the messages are cut; and as long as none has been
\* cut each report the server has received is counted or still to be read, so that what
\* is missing is what the resets of clients that ended threw away: the TAGKILL branch of
\* the read loop counts each report once.
THEOREM CountsOnceHolds == Spec => []CountsOnce
<1>1. Init => CountInv
  BY CountInit
<1>2. TypeOK /\ TypeOK' /\ CountInv /\ [Next]_vars => CountInv'
  BY CountNext
<1>3. CountInv => CountsOnce
  <2>1. UnreadKills = Places(lines)
    BY DEF UnreadKills, Places
  <2> QED BY <2>1 DEF CountInv, CountsOnce
<1> QED BY <1>1, <1>2, <1>3, ServerTypeCorrect, PTL DEF Spec
=============================================================================
