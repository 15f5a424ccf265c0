-------------------------- MODULE ServerLink_proofs --------------------------
(***************************************************************************)
(* Each client sees the server that ServerLink describes, proved by step   *)
(* simulation for any clients, edits and signals.                          *)
(***************************************************************************)
EXTENDS Server_proofs

Up(c) == peer[c] # "closed" /\ ~Stopped
Linked(c) == [Link(c)!Next]_(Link(c)!vars)

-----------------------------------------------------------------------------
(***************************************************************************)
(* What the server holds.  The configuration in force never is newer than  *)
(* the file, and nothing that was sent is newer than it or, as long as the *)
(* socket is open, an EGGZIT; a client that is in the group was sent its   *)
(* first configuration unless it had gone by then.                         *)
(***************************************************************************)
Sendable(c) ==
  /\ Member(c) => peer[c] # "none"
  /\ Member(c) /\ peer[c] \in {"open", "gone"} => sent[c] # <<>>
  /\ sent[c] # <<>> /\ peer[c] # "closed" => Newest(c) \in Configs /\ Newest(c) <= config

LinkInv ==
  /\ config <= file /\ raw <= file /\ (pc = "parse" => config <= raw)
  /\ \A c \in Clients : Sendable(c)

\* Every step keeps this: only Parse changes the configuration, to a newer one.
LEMMA LinkNext == TypeOK /\ LinkInv /\ [Next]_vars => LinkInv'
<1> SUFFICES ASSUME TypeOK, LinkInv, [Next]_vars PROVE LinkInv'
  OBVIOUS
<1> USE DEF disk, signals, sockets, log, clients, client_socket_group_count
<1>t. /\ file \in Int /\ config \in Int /\ raw \in Int /\ config \in Configs
      /\ Len(client_socket_group) \in Nat /\ client_socket_group \in Seq(Clients)
      /\ peer \in [Clients -> {"none", "open", "gone", "reset", "closed"}]
  BY BoundsAssumption, LenProperties DEF TypeOK, Configs, BoundsAssumption
<1>i. /\ config <= file /\ raw <= file /\ (pc = "parse" => config <= raw)
      /\ \A c \in Clients : Sendable(c)
  BY DEF LinkInv
<1>1. CASE \/ Edit \/ sighup_handler \/ sigint_handler
           \/ \E c \in Clients, line \in {"info", "killed"} : log_message(c, line)
  BY <1>1, <1>i, <1>t
  DEF Edit, sighup_handler, sigint_handler, log_message, LinkInv, Sendable, Member, Newest
<1>2. ASSUME NEW c \in Clients, Connect(c) \/ ClientEnds(c) \/ Discard(c) PROVE LinkInv'
  BY <1>2, <1>i, <1>t DEF Connect, ClientEnds, Discard, LinkInv, Sendable, Member, Newest
<1>3. CASE Accept
  <2>1. PICK c \in Clients : /\ Write(c, config) /\ config \in Message
                             /\ client_socket_group' = Append(client_socket_group, c)
                             /\ UNCHANGED <<file, raw, config>> /\ pc = "accept"
    BY <1>3, HeadOfBacklog DEF Accept, TypeOK, Message
  <2>5. pc' # "parse"
    BY <2>1 DEF Write
  <2>2. /\ Len(client_socket_group') = Len(client_socket_group) + 1
        /\ client_socket_group'[Len(client_socket_group) + 1] = c
        /\ \A i \in 1 .. Len(client_socket_group) : client_socket_group'[i] = client_socket_group[i]
    BY <2>1, <1>t, AppendProperties
  <2>3. ASSUME NEW d \in Clients, d # c PROVE Member(d)' => Member(d)
    BY <2>2, <2>3, <1>t DEF Member
  <2>4. ASSUME NEW d \in Clients PROVE Sendable(d)'
    <3>1. CASE d = c
      <4>1. /\ peer'[c] # "none" /\ peer'[c] # "closed" /\ peer[c] # "closed"
            /\ Sendable(c)
            /\ \/ sent'[c] # <<>> /\ sent'[c][Len(sent'[c])] = config
               \/ peer[c] = "reset" /\ UNCHANGED <<sent, peer>>
        BY <2>1, <1>i, WriteType
      <4>2. CASE sent'[c] # <<>> /\ sent'[c][Len(sent'[c])] = config
        BY <2>1, <3>1, <4>1, <4>2, <1>t DEF Sendable, Newest
      <4>3. CASE peer[c] = "reset" /\ UNCHANGED <<sent, peer>>
        BY <2>1, <3>1, <4>1, <4>3 DEF Sendable, Newest
      <4> QED BY <4>1, <4>2, <4>3
    <3>2. CASE d # c
      <4>1. sent'[d] = sent[d] /\ peer'[d] = peer[d] /\ Sendable(d)
        BY <2>1, <3>2, <1>i, WriteType
      <4> QED BY <2>1, <2>3, <3>2, <4>1 DEF Sendable, Newest
    <3> QED BY <3>1, <3>2
  <2> QED BY <2>1, <2>4, <2>5, <1>i DEF LinkInv
<1>4. CASE Send
  <2>k. k \in 1 .. client_socket_group_count
    BY <1>4, <1>t DEF Send, TypeOK
  <2>1. PICK c \in Clients : /\ Write(c, config) /\ config \in Message
                             /\ UNCHANGED <<file, raw, config, client_socket_group>> /\ pc = "send"
    BY <1>4, <2>k, GroupMember DEF Send, TypeOK, Message
  <2>3. pc' # "parse"
    BY <2>1 DEF Write
  <2>2. ASSUME NEW d \in Clients PROVE Sendable(d)'
    <3>1. CASE d = c
      <4>1. /\ peer'[c] # "none" /\ peer'[c] # "closed" /\ peer[c] # "closed"
            /\ Sendable(c)
            /\ \/ sent'[c] # <<>> /\ sent'[c][Len(sent'[c])] = config
               \/ peer[c] = "reset" /\ UNCHANGED <<sent, peer>>
        BY <2>1, <1>i, WriteType
      <4>2. CASE sent'[c] # <<>> /\ sent'[c][Len(sent'[c])] = config
        BY <2>1, <3>1, <4>1, <4>2, <1>t DEF Sendable, Newest
      <4>3. CASE peer[c] = "reset" /\ UNCHANGED <<sent, peer>>
        BY <2>1, <3>1, <4>1, <4>3 DEF Sendable, Newest
      <4> QED BY <4>1, <4>2, <4>3
    <3>2. CASE d # c
      <4>1. sent'[d] = sent[d] /\ peer'[d] = peer[d] /\ Sendable(d)
        BY <2>1, <3>2, <1>i, WriteType
      <4> QED BY <2>1, <4>1 DEF Sendable, Newest, Member
    <3> QED BY <3>1, <3>2
  <2> QED BY <2>1, <2>2, <2>3, <1>i DEF LinkInv
<1>5. CASE ReadRaw
  BY <1>5, <1>i, <1>t DEF ReadRaw, LinkInv, Sendable, Newest, Member, TypeOK, Configs
<1>8. CASE Parse
  BY <1>8, <1>i, <1>t DEF Parse, LinkInv, Sendable, Newest, Member, TypeOK, Configs
<1>6. CASE Exit
  <2>k. k \in 1 .. client_socket_group_count
    BY <1>6, <1>t DEF Exit, TypeOK
  <2>1. PICK c \in Clients :
          /\ UNCHANGED <<file, raw, config, client_socket_group>> /\ pc' # "parse"
          /\ \/ /\ sent' = [sent EXCEPT ![c] = Append(@, EGGZIT)]
                /\ peer' = [peer EXCEPT ![c] = "closed"]
             \/ UNCHANGED <<sent, peer>>
    BY <1>6, <2>k, GroupMember DEF Exit
  <2>2. sent \in [Clients -> Seq(Configs \cup {EGGZIT})]
    BY DEF TypeOK
  <2>3. ASSUME NEW d \in Clients PROVE Sendable(d)'
    BY <2>1, <2>2, <1>i, <1>t DEF Sendable, Newest, Member
  <2> QED BY <2>1, <2>3, <1>i DEF LinkInv
<1>7. CASE \/ Overrun \/ EndAccept \/ Reread \/ EndSend \/ Check \/ Read \/ EndRead
           \/ EndExit \/ Summary \/ UNCHANGED vars
  BY <1>7, <1>i
  DEF Overrun, EndAccept, Reread, EndSend, Check, Read, EndRead, EndExit, Summary, vars,
      LinkInv, Sendable, Newest, Member
<1> QED
  BY <1>1, <1>2, <1>3, <1>4, <1>5, <1>6, <1>7, <1>8 DEF Next, Environment, main

-----------------------------------------------------------------------------
(***************************************************************************)
(* Step simulation.                                                        *)
(***************************************************************************)
\* A step that writes nothing to a client keeps its link or ends it.
LEMMA Silent ==
  ASSUME NEW c \in Clients, sent'[c] = sent[c], Up(c)' => Up(c)
  PROVE  Linked(c)
<1>1. CASE Up(c)' <=> Up(c)
  BY <1>1 DEF Linked, Link!vars, Up, Stopped
<1>2. CASE Up(c) /\ ~Up(c)'
  BY <1>2 DEF Linked, Link!Next, Link!Vanish, Up, Stopped
<1> QED BY <1>1, <1>2

\* A write of the configuration in force is one the client may expect.
LEMMA Configured ==
  ASSUME TypeOK, LinkInv, NEW c \in Clients, Write(c, config), ~Stopped,
         NEW d \in Clients
  PROVE  Linked(d)
<1>1. config \in Message /\ config \in Configs
  BY DEF TypeOK, Message
<1>2. CASE d = c /\ peer[c] \in {"open", "gone"} /\ sent'[c] = Append(sent[c], config)
           /\ UNCHANGED pc /\ peer'[c] \in {"open", "reset"}
  <2>1. sent[c] # <<>> => sent[c][Len(sent[c])] <= config
    BY <1>2 DEF LinkInv, Sendable, Newest
  <2>2. Link(c)!Send
    BY <1>1, <1>2, <2>1 DEF Link!Send, Stopped
  <2> QED BY <1>2, <2>2 DEF Linked, Link!Next
<1>3. CASE sent'[d] = sent[d] /\ peer'[d] = peer[d]
  <2>1. Up(d)' => Up(d)
    BY <1>3 DEF Up
  <2> QED BY <1>3, <2>1, Silent
<1> QED BY <1>1, <1>2, <1>3, WriteType

LEMMA LinkStep ==
  ASSUME TypeOK, LinkInv, [Next]_vars, NEW d \in Clients
  PROVE  Linked(d)
<1> USE DEF disk, signals, sockets, log, clients, client_socket_group_count
<1>t. /\ Len(client_socket_group) \in Nat
      /\ peer \in [Clients -> {"none", "open", "gone", "reset", "closed"}]
      /\ sent \in [Clients -> Seq(Configs \cup {EGGZIT})]
  BY LenProperties DEF TypeOK
<1>1. CASE \/ Edit \/ sighup_handler \/ sigint_handler
           \/ \E c \in Clients, line \in {"info", "killed"} : log_message(c, line)
  BY <1>1, Silent DEF Edit, sighup_handler, sigint_handler, log_message, Up, Stopped
<1>2. ASSUME NEW c \in Clients, Connect(c) \/ ClientEnds(c) \/ Discard(c) PROVE Linked(d)
  BY <1>2, <1>t, Silent DEF Connect, ClientEnds, Discard, Up, Stopped
<1>3. CASE Accept
  <2>1. /\ Head(backlog) \in Clients /\ Write(Head(backlog), config) /\ ~Stopped
    BY <1>3, HeadOfBacklog DEF Accept, Stopped
  <2> QED BY <2>1, Configured
<1>4. CASE Send
  <2>1. k \in 1 .. client_socket_group_count
    BY <1>4, <1>t DEF Send, TypeOK
  <2>2. client_socket_group[k] \in Clients /\ Write(client_socket_group[k], config) /\ ~Stopped
    BY <1>4, <2>1, GroupMember DEF Send, Stopped
  <2> QED BY <2>2, Configured
<1>5. CASE Exit
  <2>1. k \in 1 .. client_socket_group_count
    BY <1>5, <1>t DEF Exit, TypeOK
  <2>2. PICK c \in Clients : /\ c = client_socket_group[k] /\ ~Stopped
          /\ \/ /\ peer[c] \in {"open", "gone"} /\ UNCHANGED pc
                /\ sent' = [sent EXCEPT ![c] = Append(@, EGGZIT)]
                /\ peer' = [peer EXCEPT ![c] = "closed"]
             \/ UNCHANGED <<sent, peer>>
    BY <1>5, <2>1, GroupMember DEF Exit, Stopped
  <2>3. CASE d = c /\ peer[c] \in {"open", "gone"} /\ sent'[d] = Append(sent[d], EGGZIT)
             /\ peer'[d] = "closed"
    <3>1. Member(d)
      BY <2>1, <2>2, <2>3 DEF Member
    <3>2. sent[d] # <<>>
      BY <2>3, <3>1 DEF LinkInv, Sendable
    <3>3. Link(d)!Quit
      BY <2>2, <2>3, <3>2 DEF Link!Quit, Stopped
    <3> QED BY <3>3 DEF Linked, Link!Next
  <2>4. CASE sent'[d] = sent[d] /\ peer'[d] = peer[d]
    BY <2>2, <2>4, Silent DEF Up
  <2> QED BY <2>2, <2>3, <2>4, <1>t
<1>6. CASE \/ Overrun \/ EndAccept \/ Reread \/ ReadRaw \/ Parse \/ EndSend \/ Check \/ Read \/ EndRead
           \/ EndExit \/ Summary \/ UNCHANGED vars
  <2>1. UNCHANGED <<sent, peer>> /\ (Stopped => Stopped')
    BY <1>6 DEF Overrun, EndAccept, Reread, ReadRaw, Parse, EndSend, Check, Read, EndRead, EndExit,
       Summary, vars, Stopped
  <2> QED BY <2>1, Silent DEF Up
<1> QED
  BY <1>1, <1>2, <1>3, <1>4, <1>5, <1>6 DEF Next, Environment, main

\* Every client sees the server ServerLink describes: a first configuration, then
\* none older than the one before, and one EGGZIT at most and last.
THEOREM LinkKept == Spec => Keeps
<1>1. Init => LinkInv
  BY DEF Init, LinkInv, Sendable, Member, client_socket_group_count, Newest
<1>2. TypeOK /\ LinkInv /\ [Next]_vars => LinkInv'
  BY LinkNext
<1>3. Init => \A c \in Clients : Link(c)!Init
  BY DEF Init, Link!Init, Stopped
<1>4. TypeOK /\ LinkInv /\ [Next]_vars
        => [\A c \in Clients : [Link(c)!Next]_(Link(c)!vars)]_vars
  BY LinkStep DEF Linked
<1> QED BY <1>1, <1>2, <1>3, <1>4, ServerTypeCorrect, PTL DEF Spec, Keeps

=============================================================================
