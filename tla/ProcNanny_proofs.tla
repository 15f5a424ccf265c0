--------------------------- MODULE ProcNanny_proofs ---------------------------
(***************************************************************************)
(* The composition of the server with its clients takes steps of Server    *)
(* only, so what is proved of the server holds in it; and what a client    *)
(* has read is the beginning of what it was sent, so that the clients of a *)
(* server that is in step with them go by its configuration.               *)
(***************************************************************************)
EXTENDS ProcNanny, ServerLink_proofs

\* Every step of the composition is one of the server or of its environment, and
\* if it is a client's the messages are left alone.
LEMMA ClientStep ==
  ASSUME NEW c \in Clients, Round(c) \/ Event(c)
  PROVE  [Next]_vars /\ sent' = sent
<1>1. ASSUME NEW how, End(c, how)
      PROVE  [Next]_vars /\ sent' = sent
  BY <1>1 DEF End, ClientEnds, Next, Environment, vars, sockets
<1>2. CASE Receive(c)
  <2>1. ASSUME NEW message, Take(c, message)
        PROVE  [Next]_vars /\ sent' = sent
    BY <2>1, <1>1 DEF Take, vars, sockets
  <2> QED BY <1>2, <2>1 DEF Receive, vars, sockets
<1>3. CASE Refused(c) \/ Stop(c) \/ Crash(c)
  BY <1>1, <1>3 DEF Refused, Stop, Crash
<1>4. CASE Start(c)
  BY <1>4 DEF Start, Connect, Next, Environment
<1>5. CASE Killed(c) \/ Watches(c)
  BY <1>5 DEF Killed, Watches, log_message, Next, Environment, vars, sockets
<1> QED BY <1>2, <1>3, <1>4, <1>5 DEF Round, Event

LEMMA ServerStep == [NannyNext]_nanny => [Next]_vars
<1>1. ServerSide => Next
  BY DEF ServerSide, Next, Environment
<1>2. UNCHANGED nanny => UNCHANGED vars
  BY DEF nanny
<1> QED BY <1>1, <1>2, ClientStep DEF NannyNext

\* The composition implements Server: all that is proved of the server, its link to
\* each client included, holds of it too.
THEOREM NannyRunsServer == Nanny => Spec
<1>1. NannyInit => Init
  BY DEF NannyInit
<1>2. [NannyNext]_nanny => [Next]_vars
  BY ServerStep
<1> QED BY <1>1, <1>2, PTL DEF Nanny, Spec

\* The invariants of the server the proofs below take from it.
ServerInv == TypeOK /\ LinkInv

LEMMA ServerInvHolds == Nanny => []ServerInv
<1>1. Init => TypeOK
  BY ServerTypeInit
<1>2. Init => LinkInv
  BY DEF Init, LinkInv, Sendable, Member, client_socket_group_count, Newest
<1>3. TypeOK /\ [Next]_vars => TypeOK'
  BY ServerTypeNext
<1>4. TypeOK /\ LinkInv /\ [Next]_vars => LinkInv'
  BY LinkNext
<1> QED BY <1>1, <1>2, <1>3, <1>4, NannyRunsServer, PTL DEF Spec, ServerInv

-----------------------------------------------------------------------------
(***************************************************************************)
(* What a client has read.                                                 *)
(***************************************************************************)
Prefix(s, t) == Len(s) <= Len(t) /\ \A i \in 1 .. Len(s) : t[i] = s[i]

\* The server only ever adds to what it has written to a client.
LEMMA SentGrows ==
  ASSUME TypeOK, LinkInv, [Next]_vars, NEW c \in Clients
  PROVE  Prefix(sent[c], sent'[c])
<1>1. Linked(c) /\ sent[c] \in Seq(Message)
  BY LinkStep DEF TypeOK, Message
<1>2. sent'[c] = sent[c] \/ \E m \in Message : sent'[c] = Append(sent[c], m)
  BY <1>1 DEF Linked, Link!Next, Link!Send, Link!Quit, Link!Vanish, Link!vars, Message
<1>3. ASSUME NEW m \in Message, sent'[c] = Append(sent[c], m)
      PROVE  Prefix(sent[c], sent'[c])
  BY <1>1, <1>3, AppendProperties DEF Prefix
<1> QED BY <1>1, <1>2, <1>3 DEF Prefix

\* The server closes its end of a connection or leaves it; it does not open one.
LEMMA ServerKeepsPeers ==
  ASSUME TypeOK, NEW c \in Clients,
         main \/ Edit \/ sighup_handler \/ sigint_handler \/ \E d \in Clients : Discard(d)
  PROVE  /\ peer[c] = "open" => peer'[c] \in {"open", "closed"}
         /\ peer[c] \in {"none", "closed"} => peer'[c] = peer[c]
<1> USE DEF disk, signals, sockets, log, clients
<1>1. ASSUME NEW d \in Clients, NEW m, Write(d, m)
      PROVE  /\ peer[c] = "open" => peer'[c] \in {"open", "closed"}
             /\ peer[c] \in {"none", "closed"} => peer'[c] = peer[c]
  BY <1>1 DEF Write, TypeOK
<1>2. CASE Accept
  <2>1. Head(backlog) \in Clients /\ Write(Head(backlog), config)
    BY <1>2, HeadOfBacklog DEF Accept
  <2> QED BY <2>1, <1>1
<1>3. CASE Send
  <2>1. client_socket_group[k] \in Clients
    BY <1>3 DEF Send, TypeOK, client_socket_group_count
  <2> QED BY <1>3, <2>1, <1>1 DEF Send
<1>4. CASE Exit
  <2>1. client_socket_group[k] \in Clients
    BY <1>4 DEF Exit, TypeOK, client_socket_group_count
  <2> QED BY <1>4, <2>1 DEF Exit, TypeOK
<1>5. CASE ~(Accept \/ Send \/ Exit)
  BY <1>5 DEF main, Overrun, EndAccept, Reread, ReadRaw, Parse, EndSend, Check, Read, EndRead,
              EndExit, Summary, Edit, sighup_handler, sigint_handler, Discard
<1> QED BY <1>2, <1>3, <1>4, <1>5

Active(c) == stage[c] \in {"waiting", "running", "stopping"}

\* A client that runs goes by the message it read last, and its end is open.
Hears(c) ==
  /\ stage[c] = "off" => peer[c] = "none"
  /\ Active(c) => peer[c] \in {"open", "closed"}
  /\ stage[c] = "running" => heard[c] > 0 /\ parsed[c] = sent[c][heard[c]]

HeardInv == \A c \in Clients : Hears(c)

-----------------------------------------------------------------------------
ClientTypeOK ==
  /\ stage \in [Clients -> {"off", "waiting", "running", "stopping", "ended", "died"}]
  /\ heard \in [Clients -> Nat] /\ \A c \in Clients : heard[c] <= Len(sent[c])
  /\ parsed \in [Clients -> Configs]
  /\ total_processes_killed \in [Clients -> Nat]
  /\ cut \subseteq Clients

LEMMA NannyTypeNext ==
  ASSUME ServerInv, ClientTypeOK, [NannyNext]_nanny
  PROVE  ClientTypeOK'
<1> USE DEF ClientTypeOK, client
<1>1. CASE ServerSide
  <2>1. \A c \in Clients : Prefix(sent[c], sent'[c])
    BY <1>1, ServerStep, SentGrows DEF ServerInv, NannyNext
  <2>2. \A c \in Clients : heard'[c] <= Len(sent'[c])
    <3> SUFFICES ASSUME NEW c \in Clients PROVE heard[c] <= Len(sent'[c])
      BY <1>1 DEF ServerSide
    <3>1. Len(sent[c]) <= Len(sent'[c]) /\ heard[c] <= Len(sent[c])
      BY <2>1 DEF Prefix
    <3>2. sent[c] \in Seq(Message) /\ sent'[c] \in Seq(Message)
      BY <1>1, ServerStep, ServerTypeNext DEF ServerInv, NannyNext, TypeOK, Message
    <3> QED BY <3>1, <3>2
  <2>3. cut' \subseteq Clients
    BY <1>1 DEF ServerSide, Resets
  <2> QED BY <1>1, <2>2, <2>3 DEF ServerSide
<1>2. ASSUME NEW c \in Clients, Round(c) \/ Event(c)
      PROVE  ClientTypeOK'
  <2>1. sent' = sent
    BY <1>2, ClientStep
  <2>2. CASE Receive(c)
    <3>1. /\ heard' = [heard EXCEPT ![c] = @ + 1] /\ heard[c] < Len(sent[c])
          /\ sent[c] \in Seq(Message)
      BY <2>2 DEF Receive, Unheard, ServerInv, TypeOK, Message
    <3>2. sent[c][heard[c] + 1] \in Message
      BY <3>1
    <3>3. /\ heard' \in [Clients -> Nat]
          /\ \A d \in Clients : heard'[d] <= Len(sent'[d])
      BY <2>1, <3>1
    <3>4. CASE sent[c][heard[c] + 1] = EGGZIT
      BY <2>2, <3>3, <3>4 DEF Receive
    <3>5. CASE sent[c][heard[c] + 1] # EGGZIT
      <4> DEFINE m == sent[c][heard[c] + 1]
      <4>1. m \in Configs
        BY <3>2, <3>5 DEF Message
      <4>2. Take(c, m)
        BY <2>2, <3>5 DEF Receive
      <4> HIDE DEF m
      <4> QED BY <3>3, <4>1, <4>2 DEF Take, End
    <3> QED BY <3>4, <3>5
  <2>3. CASE Refused(c) \/ Stop(c) \/ Crash(c)
    BY <2>1, <2>3 DEF Refused, Stop, Crash, End
  <2>4. CASE Start(c)
    BY <2>1, <2>4 DEF Start
  <2>5. CASE Killed(c) \/ Watches(c)
    <3>1. /\ stage' = stage \/ stage' = [stage EXCEPT ![c] = "died"]
          /\ \/ total_processes_killed' = total_processes_killed
             \/ total_processes_killed' = [total_processes_killed EXCEPT ![c] = @ + 1]
          /\ UNCHANGED <<heard, parsed, cut>>
      BY <2>5 DEF Killed, Watches
    <3>2. stage' \in [Clients -> {"off", "waiting", "running", "stopping", "ended", "died"}]
      BY <3>1
    <3>3. total_processes_killed' \in [Clients -> Nat]
      BY <3>1
    <3>4. UNCHANGED <<sent, heard, parsed, cut>>
      BY <2>1, <3>1
    <3> QED BY <3>2, <3>3, <3>4
  <2> QED BY <1>2, <2>2, <2>3, <2>4, <2>5 DEF Round, Event
<1>3. CASE UNCHANGED nanny
  BY <1>3 DEF nanny, vars, sockets
<1> QED BY <1>1, <1>2, <1>3 DEF NannyNext

\* A client that runs goes by the last message it read: nothing it was sent is
\* changed after, and no message is taken for a configuration that is not one.
LEMMA HeardNext ==
  ASSUME ServerInv, ClientTypeOK, ClientTypeOK', HeardInv, [NannyNext]_nanny
  PROVE  HeardInv'
<1> USE DEF ClientTypeOK, client, Active
<1>1. CASE ServerSide
  <2> SUFFICES ASSUME NEW c \in Clients PROVE Hears(c)'
    BY DEF HeardInv
  <2>1. Prefix(sent[c], sent'[c]) /\ sent[c] \in Seq(Message)
    BY <1>1, ServerStep, SentGrows DEF ServerInv, NannyNext, TypeOK, Message
  <2>2. UNCHANGED <<stage, heard, parsed>>
    BY <1>1 DEF ServerSide
  <2>3. /\ peer[c] = "open" => peer'[c] \in {"open", "closed"}
        /\ peer[c] \in {"none", "closed"} => peer'[c] = peer[c]
    BY <1>1, ServerKeepsPeers DEF ServerSide, ServerInv
  <2>4. heard[c] > 0 => sent'[c][heard[c]] = sent[c][heard[c]]
    BY <2>1 DEF Prefix
  <2> QED BY <2>2, <2>3, <2>4 DEF HeardInv, Hears
<1>2. ASSUME NEW c \in Clients, Round(c) \/ Event(c)
      PROVE  HeardInv'
  <2> USE DEF HeardInv, Hears
  <2>1. sent' = sent
    BY <1>2, ClientStep
  <2>p. peer \in [Clients -> {"none", "open", "gone", "reset", "closed"}]
    BY DEF ServerInv, TypeOK
  <2>e. ASSUME NEW how \in {"ended", "died"}, End(c, how),
               \A d \in Clients \ {c} : heard'[d] = heard[d] /\ parsed'[d] = parsed[d]
        PROVE  HeardInv'
    <3>1. \A d \in Clients \ {c} : stage'[d] = stage[d]
      BY <2>e DEF End
    <3>3. ClientEnds(c) \/ UNCHANGED vars
      BY <2>e DEF End
    <3>4. \A d \in Clients \ {c} : peer'[d] = peer[d]
      <4>1. ClientEnds(c) => \A d \in Clients \ {c} : peer'[d] = peer[d]
        BY <2>p DEF ClientEnds
      <4>2. UNCHANGED vars => peer' = peer
        BY DEF vars, sockets
      <4> QED BY <3>3, <4>1, <4>2
    <3>2. stage'[c] = how
      BY <2>e DEF End
    <3> QED BY <2>1, <2>e, <3>1, <3>2, <3>4
  <2>2. CASE Receive(c)
    <3>1. /\ heard' = [heard EXCEPT ![c] = @ + 1] /\ Active(c)
      BY <2>2 DEF Receive
    <3>2. CASE sent[c][heard[c] + 1] = EGGZIT
      BY <2>1, <2>2, <3>2 DEF Receive, vars, sockets
    <3>3. CASE sent[c][heard[c] + 1] # EGGZIT
      <4> DEFINE m == sent[c][heard[c] + 1]
      <4>1. Take(c, m)
        BY <2>2, <3>3 DEF Receive
      <4>2. CASE m \in unusable
        BY <2>e, <3>1, <4>1, <4>2 DEF Take
      <4>3. CASE m \notin unusable
        <5>1. /\ parsed' = [parsed EXCEPT ![c] = m] /\ stage' = [stage EXCEPT ![c] = "running"]
              /\ UNCHANGED vars
          BY <4>1, <4>3 DEF Take
        <5>2. heard'[c] > 0 /\ parsed'[c] = sent'[c][heard'[c]]
          BY <2>1, <3>1, <5>1
        <5>3. peer' = peer
          BY <5>1 DEF vars, sockets
        <5> QED BY <2>1, <3>1, <5>1, <5>2, <5>3
      <4> QED BY <4>2, <4>3
    <3> QED BY <3>2, <3>3
  <2>3. CASE Refused(c) \/ Stop(c) \/ Crash(c)
    BY <2>3, <2>e DEF Refused, Stop, Crash
  <2>4. CASE Start(c)
    BY <2>1, <2>4, <2>p DEF Start, Connect
  <2>5. CASE Killed(c) \/ Watches(c)
    <3>1. /\ peer' = peer /\ UNCHANGED <<heard, parsed>>
          /\ stage' = stage \/ stage' = [stage EXCEPT ![c] = "died"]
      BY <2>5 DEF Killed, Watches, log_message, vars, sockets
    <3> QED BY <2>1, <3>1
  <2> QED BY <1>2, <2>2, <2>3, <2>4, <2>5 DEF Round, Event
<1>3. CASE UNCHANGED nanny
  BY <1>3 DEF nanny, vars, sockets, HeardInv, Hears
<1> QED BY <1>1, <1>2, <1>3 DEF NannyNext

LEMMA NannyTypeInit == NannyInit => ClientTypeOK /\ HeardInv
<1> SUFFICES ASSUME NannyInit PROVE ClientTypeOK /\ HeardInv
  OBVIOUS
<1>1. 0 \in Configs
  BY BoundsAssumption DEF BoundsAssumption, Configs
<1>2. \A c \in Clients : Len(sent[c]) = 0
  BY DEF NannyInit, Init
<1>3. ClientTypeOK
  BY <1>1, <1>2 DEF NannyInit, ClientTypeOK
<1>4. HeardInv
  BY DEF NannyInit, Init, HeardInv, Hears, Active
<1> QED BY <1>3, <1>4

\* Every variable of the composition has its type in every state.
THEOREM NannyTypeCorrect == Nanny => []NannyTypeOK
<1>1. NannyInit => ClientTypeOK
  BY NannyTypeInit
<1>2. ServerInv /\ ClientTypeOK /\ [NannyNext]_nanny => ClientTypeOK'
  BY NannyTypeNext
<1>3. ServerInv /\ ClientTypeOK => NannyTypeOK
  BY DEF ServerInv, ClientTypeOK, NannyTypeOK
<1> QED BY <1>1, <1>2, <1>3, ServerInvHolds, PTL DEF Nanny

\* A client that has read all it was sent goes by its server's configuration.
THEOREM AgreementHolds == Nanny => []Agreement
<1>1. NannyInit => ClientTypeOK /\ HeardInv
  BY NannyTypeInit
<1>2. ServerInv /\ ClientTypeOK /\ [NannyNext]_nanny => ClientTypeOK'
  BY NannyTypeNext
<1>3. ServerInv /\ ClientTypeOK /\ ClientTypeOK' /\ HeardInv /\ [NannyNext]_nanny => HeardInv'
  BY HeardNext
<1>4. Nanny => []InStep
  BY NannyRunsServer, InStepHolds
<1>5. ServerInv /\ ClientTypeOK /\ HeardInv /\ InStep => Agreement
  <2> SUFFICES ASSUME ServerInv, ClientTypeOK, HeardInv, InStep, NEW c \in Clients,
                      stage[c] = "running", heard[c] = Len(sent[c]), ~Hung(c), ~Stopped
               PROVE  parsed[c] = config \/ pc = "send"
    BY DEF Agreement
  <2>1. /\ peer[c] = "open" /\ heard[c] > 0 /\ parsed[c] = sent[c][Len(sent[c])]
    BY DEF HeardInv, Hears, Active, Hung
  <2>2. c \in Served
    BY <2>1 DEF Served
  <2> QED BY <2>1, <2>2 DEF InStep
<1> QED BY <1>1, <1>2, <1>3, <1>4, <1>5, ServerInvHolds, PTL DEF Nanny

-----------------------------------------------------------------------------
(***************************************************************************)
(* What a client is sent as a whole: each configuration at least as new as *)
(* those before it, nothing behind an EGGZIT, and that only after SIGINT.  *)
(***************************************************************************)
Ordered(s) ==
  \A i, j \in 1 .. Len(s) : i < j => s[i] # EGGZIT /\ (s[j] = EGGZIT \/ s[i] <= s[j])

OrderInv ==
  /\ pc = "exit" => kill_program
  /\ \A c \in Clients : /\ Ordered(sent[c])
                        /\ \A i \in 1 .. Len(sent[c]) : sent[c][i] = EGGZIT => kill_program

\* A message that is put behind ordered ones, the last of which is a configuration
\* no newer than it, leaves them ordered.
LEMMA OrderedAppend ==
  ASSUME NEW s \in Seq(Message), NEW m \in Message, Ordered(s),
         s # <<>> => s[Len(s)] # EGGZIT /\ (m = EGGZIT \/ s[Len(s)] <= m)
  PROVE  Ordered(Append(s, m))
<1> DEFINE t == Append(s, m)
<1>1. /\ Len(s) \in Nat /\ Len(t) = Len(s) + 1 /\ t[Len(s) + 1] = m
      /\ \A i \in 1 .. Len(s) : t[i] = s[i]
  BY AppendProperties, LenProperties
<1> HIDE DEF t
<1> SUFFICES ASSUME NEW i \in 1 .. Len(t), NEW j \in 1 .. Len(t), i < j
             PROVE  t[i] # EGGZIT /\ (t[j] = EGGZIT \/ t[i] <= t[j])
  BY DEF Ordered, t
<1>2. i \in 1 .. Len(s) /\ t[i] = s[i]
  BY <1>1
<1>3. CASE j \in 1 .. Len(s)
  BY <1>1, <1>2, <1>3 DEF Ordered
<1>4. CASE j = Len(s) + 1 /\ i = Len(s)
  <2>1. s # <<>>
    BY <1>2, <1>4
  <2> QED BY <1>1, <1>2, <1>4, <2>1
<1>5. CASE j = Len(s) + 1 /\ i < Len(s)
  <2>1. Len(s) \in 1 .. Len(s) /\ s # <<>>
    BY <1>1, <1>2, <1>5
  <2>2. s[i] # EGGZIT /\ s[i] <= s[Len(s)] /\ s[Len(s)] # EGGZIT
    BY <1>2, <1>5, <2>1 DEF Ordered
  <2>3. s[i] \in Message /\ s[Len(s)] \in Message
    BY <1>2, <2>1
  <2>4. m = EGGZIT \/ s[i] <= m
    <3>1. CASE m = EGGZIT
      BY <3>1
    <3>2. CASE m # EGGZIT
      <4>1. s[i] \in Int /\ s[Len(s)] \in Int /\ m \in Int
        BY <2>2, <2>3, <3>2, BoundsAssumption DEF Message, Configs, BoundsAssumption
      <4> QED BY <2>1, <2>2, <3>2, <4>1
    <3> QED BY <3>1, <3>2
  <2> QED BY <1>1, <1>2, <1>5, <2>2, <2>4
<1> QED BY <1>1, <1>2, <1>3, <1>4, <1>5

\* Each step of the server adds at most one message to what a client was sent, and an
\* EGGZIT only in the phase that follows SIGINT.
LEMMA OnlyExitTells ==
  ASSUME TypeOK, [Next]_vars, NEW c \in Clients
  PROVE  \/ sent'[c] = sent[c]
         \/ \E m \in Configs : sent'[c] = Append(sent[c], m)
         \/ pc = "exit" /\ sent'[c] = Append(sent[c], EGGZIT)
<1> USE DEF disk, signals, sockets, log, clients
<1>1. config \in Message /\ config \in Configs /\ sent \in [Clients -> Seq(Message)]
  BY DEF TypeOK, Message
<1>2. ASSUME NEW d \in Clients, Write(d, config)
      PROVE  sent'[c] = sent[c] \/ \E m \in Configs : sent'[c] = Append(sent[c], m)
  BY <1>1, <1>2, WriteType
<1>3. CASE Accept
  BY <1>2, <1>3, HeadOfBacklog DEF Accept
<1>4. CASE Send
  <2>1. client_socket_group[k] \in Clients
    BY <1>4, GroupMember DEF Send, TypeOK, client_socket_group_count
  <2> QED BY <1>2, <1>4, <2>1 DEF Send
<1>5. CASE Exit
  <2>1. client_socket_group[k] \in Clients
    BY <1>5, GroupMember DEF Exit, TypeOK, client_socket_group_count
  <2> QED BY <1>1, <1>5, <2>1 DEF Exit
<1>6. CASE ~(Accept \/ Send \/ Exit)
  BY <1>6 DEF Next, Environment, main, Overrun, EndAccept, Reread, ReadRaw, Parse, EndSend, Check,
              Read, EndRead, EndExit, Summary, Edit, sighup_handler, sigint_handler, Connect,
              ClientEnds, Discard, log_message, vars
<1> QED BY <1>3, <1>4, <1>5, <1>6

\* Nothing but SIGINT leads to the phase in which EGGZIT is sent.
LEMMA OnlySigintExits ==
  ASSUME TypeOK, [Next]_vars, pc = "exit" => kill_program
  PROVE  (kill_program => kill_program') /\ (pc' = "exit" => kill_program')
<1> USE DEF disk, signals, sockets, log, clients
<1>1. CASE main
  <2>1. UNCHANGED kill_program
    BY <1>1 DEF main, Accept, Overrun, EndAccept, Reread, ReadRaw, Parse, Send, EndSend, Check,
                Read, EndRead, Exit, EndExit, Summary
  <2>2. pc' = "exit" => pc = "exit" \/ kill_program
    BY <1>1 DEF main, Accept, Overrun, EndAccept, Reread, ReadRaw, Parse, Send, EndSend, Check,
                Read, EndRead, Exit, EndExit, Summary, Write
  <2> QED BY <2>1, <2>2
<1>2. CASE ~main
  BY <1>2 DEF Next, Environment, Edit, sighup_handler, sigint_handler, Connect, ClientEnds,
              Discard, log_message, vars
<1> QED BY <1>1, <1>2

LEMMA OrderNext == TypeOK /\ LinkInv /\ OrderInv /\ [Next]_vars => OrderInv'
<1> SUFFICES ASSUME TypeOK, LinkInv, OrderInv, [Next]_vars PROVE OrderInv'
  OBVIOUS
<1>1. (kill_program => kill_program') /\ (pc' = "exit" => kill_program')
  BY OnlySigintExits DEF OrderInv
<1> SUFFICES ASSUME NEW c \in Clients
             PROVE  /\ Ordered(sent'[c])
                    /\ \A i \in 1 .. Len(sent'[c]) : sent'[c][i] = EGGZIT => kill_program'
  BY <1>1 DEF OrderInv, Ordered
<1>2. /\ sent[c] \in Seq(Message) /\ Ordered(sent[c])
      /\ \A i \in 1 .. Len(sent[c]) : sent[c][i] = EGGZIT => kill_program
  BY DEF OrderInv, TypeOK, Message
<1>3. CASE sent'[c] = sent[c]
  BY <1>1, <1>2, <1>3
<1>4. ASSUME NEW m \in Message, sent'[c] = Append(sent[c], m), sent'[c] # sent[c],
             m = EGGZIT => kill_program
      PROVE  /\ Ordered(sent'[c])
             /\ \A i \in 1 .. Len(sent'[c]) : sent'[c][i] = EGGZIT => kill_program'
  <2>1. Linked(c)
    BY LinkStep
  <2>2. peer[c] # "closed"
    BY <1>4, <2>1 DEF Linked, Link!Next, Link!Send, Link!Quit, Link!Vanish, Link!vars
  <2>3. sent[c] # <<>> => Newest(c) \in Configs
    BY <2>2 DEF LinkInv, Sendable
  <2>4. sent[c] # <<>> => sent[c][Len(sent[c])] # EGGZIT
    BY <2>3, MessageAssumption DEF Newest, MessageAssumption
  <2>5. sent[c] # <<>> => m = EGGZIT \/ sent[c][Len(sent[c])] <= m
    <3>1. /\ Len(Append(sent[c], m)) = Len(sent[c]) + 1
          /\ Append(sent[c], m)[Len(sent[c]) + 1] = m
      BY <1>2, AppendProperties
    <3>2. CASE Link(c)!Send
      <4>1. PICK d \in Configs : /\ sent[c] # <<>> => sent[c][Len(sent[c])] <= d
                                 /\ sent'[c] = Append(sent[c], d)
        BY <3>2 DEF Link!Send
      <4>2. d \in Message /\ Append(sent[c], d)[Len(sent[c]) + 1] = d
        BY <1>2, AppendProperties DEF Message
      <4> QED BY <1>4, <3>1, <4>1, <4>2
    <3>3. CASE Link(c)!Quit
      <4>1. sent'[c] = Append(sent[c], EGGZIT) /\ EGGZIT \in Message
        BY <3>3 DEF Link!Quit, Message
      <4>2. Append(sent[c], EGGZIT)[Len(sent[c]) + 1] = EGGZIT
        BY <1>2, <4>1, AppendProperties
      <4> QED BY <1>4, <3>1, <4>1, <4>2
    <3>4. CASE Link(c)!Vanish \/ UNCHANGED <<sent[c], Up(c)>>
      BY <1>4, <3>4 DEF Link!Vanish
    <3> QED BY <1>4, <2>1, <3>2, <3>3, <3>4 DEF Linked, Link!Next, Link!vars
  <2>6. Ordered(sent'[c])
    BY <1>2, <1>4, <2>4, <2>5, OrderedAppend
  <2>7. ASSUME NEW i \in 1 .. Len(sent'[c]), sent'[c][i] = EGGZIT
        PROVE  kill_program'
    <3>1. /\ Len(sent'[c]) = Len(sent[c]) + 1 /\ sent'[c][Len(sent[c]) + 1] = m
          /\ \A l \in 1 .. Len(sent[c]) : sent'[c][l] = sent[c][l]
          /\ Len(sent[c]) \in Nat
      BY <1>2, <1>4, AppendProperties, LenProperties
    <3>2. i \in 1 .. Len(sent[c]) \/ i = Len(sent[c]) + 1
      BY <3>1
    <3> QED BY <1>1, <1>2, <1>4, <2>7, <3>1, <3>2
  <2> QED BY <2>6, <2>7
<1>5. CASE sent'[c] # sent[c] /\ \E m \in Configs : sent'[c] = Append(sent[c], m)
  BY <1>4, <1>5, MessageAssumption DEF Message, MessageAssumption
<1>6. CASE sent'[c] # sent[c] /\ pc = "exit" /\ sent'[c] = Append(sent[c], EGGZIT)
  BY <1>4, <1>6 DEF Message, OrderInv
<1> QED BY <1>3, <1>5, <1>6, OnlyExitTells

LEMMA OrderHolds == Nanny => []OrderInv
<1>1. Init => OrderInv
  BY DEF Init, OrderInv, Ordered
<1>2. ServerInv /\ OrderInv /\ [Next]_vars => OrderInv'
  BY OrderNext DEF ServerInv
<1> QED BY <1>1, <1>2, ServerInvHolds, NannyRunsServer, PTL DEF Spec

\* No client goes back to an older configuration than the one it has, however edits,
\* SIGHUPs, broadcasts and its own connecting interleave.
NeverBack == [][\A c \in Clients : stage[c] = "running" => parsed[c] <= parsed'[c]]_nanny

\* A client that runs takes what it reads next, which is no older than what it has.
LEMMA TakesNewer ==
  ASSUME ServerInv, ClientTypeOK, HeardInv, OrderInv, [NannyNext]_nanny,
         NEW c \in Clients, stage[c] = "running"
  PROVE  parsed[c] <= parsed'[c]
<1>1. parsed[c] \in Int
  BY BoundsAssumption DEF ClientTypeOK, Configs, BoundsAssumption
<1>2. CASE parsed'[c] = parsed[c]
  BY <1>1, <1>2
<1>3. ASSUME NEW d \in Clients, Receive(d), parsed'[c] # parsed[c]
      PROVE  parsed[c] <= parsed'[c]
  <2> DEFINE m == sent[d][heard[d] + 1]
  <2>1. m # EGGZIT /\ Take(d, m) /\ heard[d] < Len(sent[d])
    BY <1>3 DEF Receive, Unheard
  <2>2. parsed' = [parsed EXCEPT ![d] = m]
    BY <1>3, <2>1 DEF Take
  <2>3. d = c /\ parsed'[c] = m
    BY <1>3, <2>2 DEF ClientTypeOK
  <2>4. /\ heard[c] \in Nat /\ heard[c] > 0 /\ parsed[c] = sent[c][heard[c]]
        /\ sent[c] \in Seq(Message)
    BY DEF HeardInv, Hears, ClientTypeOK, ServerInv, TypeOK, Message
  <2>5. heard[c] \in 1 .. Len(sent[c]) /\ heard[c] + 1 \in 1 .. Len(sent[c])
    BY <2>1, <2>3, <2>4
  <2>6. Ordered(sent[c])
    BY DEF OrderInv
  <2> QED BY <2>1, <2>3, <2>4, <2>5, <2>6 DEF Ordered
<1>4. ASSUME NEW d \in Clients, Round(d) \/ Event(d), ~Receive(d)
      PROVE  UNCHANGED parsed
  BY <1>4 DEF Round, Event, Refused, Stop, Start, Killed, Watches, Crash, client
<1>5. CASE ServerSide \/ UNCHANGED nanny
  BY <1>1, <1>5 DEF ServerSide, nanny, client
<1> QED BY <1>2, <1>3, <1>4, <1>5 DEF NannyNext

\* No client goes back to an older configuration than the one it has.
THEOREM NeverBackHolds == Nanny => NeverBack
<1>1. NannyInit => ClientTypeOK /\ HeardInv
  BY NannyTypeInit
<1>2. ServerInv /\ ClientTypeOK /\ [NannyNext]_nanny => ClientTypeOK'
  BY NannyTypeNext
<1>3. ServerInv /\ ClientTypeOK /\ ClientTypeOK' /\ HeardInv /\ [NannyNext]_nanny => HeardInv'
  BY HeardNext
<1>4. ServerInv /\ ClientTypeOK /\ HeardInv /\ OrderInv /\ [NannyNext]_nanny
        => [\A c \in Clients : stage[c] = "running" => parsed[c] <= parsed'[c]]_nanny
  BY TakesNewer
<1> QED BY <1>1, <1>2, <1>3, <1>4, ServerInvHolds, OrderHolds, PTL DEF Nanny, NeverBack

\* A client stops in an orderly way, with the report of all it has killed, only if the
\* user has sent SIGINT to its server: no other message is taken for an EGGZIT.
StopsOnSigint == \A c \in Clients : stage[c] = "stopping" => kill_program

LEMMA StopsNext ==
  ASSUME ServerInv, ClientTypeOK, OrderInv, StopsOnSigint, [NannyNext]_nanny
  PROVE  StopsOnSigint'
<1> SUFFICES ASSUME NEW c \in Clients, stage'[c] = "stopping" PROVE kill_program'
  BY DEF StopsOnSigint
<1>1. kill_program => kill_program'
  BY ServerStep, OnlySigintExits DEF ServerInv, OrderInv
<1>2. CASE stage[c] = "stopping"
  BY <1>1, <1>2 DEF StopsOnSigint
<1>3. ASSUME stage[c] # "stopping", NEW d \in Clients, Receive(d)
      PROVE  kill_program
  <2>1. CASE sent[d][heard[d] + 1] = EGGZIT
    <3>1. heard[d] \in Nat /\ heard[d] < Len(sent[d]) /\ sent[d] \in Seq(Message)
      BY <1>3 DEF Receive, Unheard, ClientTypeOK, ServerInv, TypeOK, Message
    <3>2. heard[d] + 1 \in 1 .. Len(sent[d])
      BY <3>1
    <3> QED BY <2>1, <3>2 DEF OrderInv
  <2>2. CASE sent[d][heard[d] + 1] # EGGZIT
    <3>1. Take(d, sent[d][heard[d] + 1])
      BY <1>3, <2>2 DEF Receive
    <3>2. stage' \in {[stage EXCEPT ![d] = "died"], [stage EXCEPT ![d] = "running"]}
      BY <3>1 DEF Take, End
    <3> QED BY <1>3, <3>2 DEF ClientTypeOK
  <2> QED BY <2>1, <2>2
<1>4. ASSUME stage[c] # "stopping", NEW d \in Clients, Round(d) \/ Event(d), ~Receive(d)
      PROVE  FALSE
  <2>1. \/ stage' = stage
        \/ \E how \in {"ended", "died", "waiting"} : stage' = [stage EXCEPT ![d] = how]
    BY <1>4 DEF Round, Event, Refused, Stop, Start, Killed, Watches, Crash, End, client
  <2> QED BY <1>4, <2>1 DEF ClientTypeOK
<1>5. CASE stage[c] # "stopping" /\ (ServerSide \/ UNCHANGED nanny)
  BY <1>5 DEF ServerSide, nanny, client
<1> QED BY <1>1, <1>2, <1>3, <1>4, <1>5 DEF NannyNext

\* A client stops in an orderly way only if the user has sent SIGINT to its server.
THEOREM StopsOnSigintHolds == Nanny => []StopsOnSigint
<1>1. NannyInit => ClientTypeOK /\ StopsOnSigint
  BY NannyTypeInit DEF NannyInit, StopsOnSigint
<1>2. ServerInv /\ ClientTypeOK /\ [NannyNext]_nanny => ClientTypeOK'
  BY NannyTypeNext
<1>3. ServerInv /\ ClientTypeOK /\ OrderInv /\ StopsOnSigint /\ [NannyNext]_nanny => StopsOnSigint'
  BY StopsNext
<1> QED BY <1>1, <1>2, <1>3, ServerInvHolds, OrderHolds, PTL DEF Nanny
=============================================================================
