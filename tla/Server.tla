------------------------------- MODULE Server -------------------------------
(***************************************************************************)
(* The procnanny server (procnanny.server/main.c): one process that busily *)
(* accepts clients, re-reads its configuration file when SIGHUP asked for  *)
(* it, sends it to every client, logs what the clients write, and ends all *)
(* of them on SIGINT.  The signals arrive between any two of its steps.    *)
(*                                                                         *)
(* A step is one system call on one socket.  The clients are here only     *)
(* what the server sees of them: MonitorPool is what they do.              *)
(***************************************************************************)
EXTENDS Integers, Sequences, FiniteSets

CONSTANTS
  Clients,      \* connections, one for each client that is ever started
  MAX_SOCKETS,  \* length of client_socket_group (32 in main.c)
  MaxEdits,     \* how often the configuration file is edited
  MaxHups,      \* how often the user sends SIGHUP
  MaxLines,     \* how many lines the clients write
  MaxTears,     \* how many reads return only part of a message
  EGGZIT        \* the message that ends a client

\* A configuration is the number of the edit that wrote it.
Configs == 0 .. MaxEdits

ASSUME ClientsAssumption == IsFiniteSet(Clients)
ASSUME BoundsAssumption  == /\ MAX_SOCKETS \in Nat /\ MaxEdits \in Nat
                            /\ MaxHups \in Nat /\ MaxLines \in Nat /\ MaxTears \in Nat
ASSUME MessageAssumption == EGGZIT \notin Configs

VARIABLES
  file,            \* the configuration on disk
  unusable,        \* those that read_config() cannot take: missing, empty or malformed
  hups, asked,     \* SIGHUPs so far; history: what was on disk at the last one
  pc, k,           \* where the server is, and the index of the loop it is in
  config, reread_config, kill_program, kill_count,
  raw,             \* the text of the configuration, which read_config() reads first
  client_socket_group,
  node_name_attained,  \* the indexes whose node has killed something
  backlog,         \* connections the server has not accepted
  peer,            \* the other end of each connection
  sent,            \* what the server has written to each client
  lines,           \* what it has not yet read of what each client wrote
  tears,           \* reads that returned only part of a message
  written, kills,  \* history: lines the clients wrote; how many report a kill,
  lost             \* and how many of these a reset threw away before they were read

disk    == <<file, unusable>>
signals == <<hups, asked, kill_program>>
sockets == <<client_socket_group, backlog, peer, sent>>
log     == <<kill_count, node_name_attained, tears>>
clients == <<written, kills, lost>>
vars    == <<disk, signals, pc, k, config, raw, reread_config, sockets, log, lines, clients>>

client_socket_group_count == Len(client_socket_group)

TypeOK ==
  /\ file \in Configs /\ unusable \subseteq Configs
  /\ hups \in 0 .. MaxHups /\ asked \in Configs
  /\ pc \in {"accept", "reread", "load", "parse", "send", "check", "read", "exit", "summary",
             "done", "died", "overrun"}
  /\ k \in 1 .. MAX_SOCKETS + 1
  /\ config \in Configs /\ raw \in Configs /\ reread_config \in BOOLEAN
  /\ kill_program \in BOOLEAN /\ tears \in 0 .. MaxTears
  /\ kill_count \in Nat /\ kills \in Nat /\ lost \in Nat
  /\ client_socket_group \in Seq(Clients) /\ client_socket_group_count <= MAX_SOCKETS
  /\ node_name_attained \subseteq 1 .. client_socket_group_count
  /\ backlog \in Seq(Clients)
  /\ peer \in [Clients -> {"none", "open", "gone", "reset", "closed"}]
  /\ sent \in [Clients -> Seq(Configs \cup {EGGZIT})]
  /\ lines \in [Clients -> Seq({"info", "killed", "rest"})]
  /\ written \in 0 .. MaxLines

Init ==
  /\ file = 0 /\ unusable = {} /\ hups = 0 /\ asked = 0
  /\ pc = "accept" /\ k = 1
  /\ config = 0 /\ raw = 0 /\ reread_config = FALSE /\ kill_program = FALSE
  /\ kill_count = 0 /\ tears = 0
  /\ client_socket_group = <<>> /\ node_name_attained = {} /\ backlog = <<>>
  /\ peer = [c \in Clients |-> "none"]
  /\ sent = [c \in Clients |-> <<>>]
  /\ lines = [c \in Clients |-> <<>>]
  /\ written = 0 /\ kills = 0 /\ lost = 0

Stopped == pc \in {"done", "died", "overrun"}

-----------------------------------------------------------------------------
(***************************************************************************)
(* The user: edits the file, and sends signals to the server.  The handler *)
(* of SIGHUP parses the file into a variable that main() does not use, and *)
(* ends the server when it cannot.                                         *)
(***************************************************************************)
Edit ==
  /\ file < MaxEdits /\ file' = file + 1
  /\ unusable' \in {unusable, unusable \cup {file + 1}}
  /\ UNCHANGED <<signals, pc, k, config, raw, reread_config, sockets, log, lines, clients>>

sighup_handler ==
  /\ ~Stopped /\ hups < MaxHups /\ hups' = hups + 1
  /\ reread_config' = TRUE
  /\ IF file \in unusable
     THEN pc' = "died" /\ UNCHANGED asked
     ELSE asked' = file /\ UNCHANGED pc
  /\ UNCHANGED <<disk, kill_program, k, config, raw, sockets, log, lines, clients>>

sigint_handler ==
  /\ ~Stopped /\ ~kill_program /\ kill_program' = TRUE
  /\ UNCHANGED <<disk, hups, asked, pc, k, config, raw, reread_config, sockets, log, lines, clients>>

-----------------------------------------------------------------------------
(***************************************************************************)
(* The clients.  A client connects, waits for its first configuration, and *)
(* then writes a line when it begins to monitor or has killed a process.   *)
(* When it ends with messages unread its end answers with a reset at once, *)
(* and what it wrote and the server has not received may be lost with it.  *)
(***************************************************************************)
Connect(c) ==
  /\ ~Stopped /\ peer[c] = "none"
  /\ peer' = [peer EXCEPT ![c] = "open"] /\ backlog' = Append(backlog, c)
  /\ UNCHANGED <<disk, signals, pc, k, config, raw, reread_config, client_socket_group, sent,
                 log, lines, clients>>

log_message(c, line) ==
  /\ peer[c] = "open" /\ sent[c] # <<>> /\ written < MaxLines
  /\ written' = written + 1
  /\ kills' = IF line = "killed" THEN kills + 1 ELSE kills
  /\ lines' = [lines EXCEPT ![c] = Append(@, line)]
  /\ UNCHANGED <<disk, signals, pc, k, config, raw, reread_config, sockets, log, lost>>

ClientEnds(c) ==
  /\ peer[c] = "open" /\ \E end \in {"gone", "reset"} : peer' = [peer EXCEPT ![c] = end]
  /\ UNCHANGED <<disk, signals, pc, k, config, raw, reread_config, client_socket_group, backlog,
                 sent, log, lines, clients>>

\* The reset throws away the latest lines first: the earlier ones were delivered.
Discard(c) ==
  /\ peer[c] = "reset" /\ lines[c] # <<>>
  /\ lines' = [lines EXCEPT ![c] = SubSeq(@, 1, Len(@) - 1)]
  /\ lost' = IF lines[c][Len(lines[c])] = "killed" THEN lost + 1 ELSE lost
  /\ UNCHANGED <<disk, signals, pc, k, config, raw, reread_config, sockets, log, written, kills>>

-----------------------------------------------------------------------------
(***************************************************************************)
(* write() on the socket of a client that has ended is answered by a reset.*)
(* After the reset it fails, which the server does not look at, or raises  *)
(* SIGPIPE, which it does not catch.                                       *)
(***************************************************************************)
Write(c, message) ==
  \/ /\ peer[c] \in {"open", "gone"} /\ UNCHANGED pc
     /\ sent' = [sent EXCEPT ![c] = Append(@, message)]
     /\ peer' = [peer EXCEPT ![c] = IF @ = "gone" THEN "reset" ELSE @]
  \/ peer[c] = "reset" /\ pc' \in {pc, "died"} /\ UNCHANGED <<sent, peer>>

\* Mutant of Accept: the socket is not stored when a re-read is pending.
AcceptLater ==
  /\ pc = "accept" /\ backlog # <<>> /\ backlog' = Tail(backlog)
  /\ LET c == Head(backlog)
     IN  /\ client_socket_group_count < MAX_SOCKETS
         /\ Write(c, config)
         /\ client_socket_group' = IF reread_config THEN client_socket_group
                                   ELSE Append(client_socket_group, c)
  /\ UNCHANGED <<disk, signals, k, config, raw, reread_config, log, lines, clients>>

\* Each pending connection is sent the configuration in force and stored.
Accept ==
  /\ pc = "accept" /\ backlog # <<>> /\ backlog' = Tail(backlog)
  /\ LET c == Head(backlog)
     IN  /\ client_socket_group_count < MAX_SOCKETS
         /\ Write(c, config)
         /\ client_socket_group' = Append(client_socket_group, c)
  /\ UNCHANGED <<disk, signals, k, config, raw, reread_config, log, lines, clients>>

\* Mutant of Overrun: the sockets are stored from index 1 on.
OverrunEarly ==
  /\ pc = "accept" /\ backlog # <<>> /\ client_socket_group_count + 1 = MAX_SOCKETS
  /\ pc' = "overrun"
  /\ UNCHANGED <<disk, signals, k, config, raw, reread_config, sockets, log, lines, clients>>

\* There is no bound check: the next socket is stored past the end of the array.
Overrun ==
  /\ pc = "accept" /\ backlog # <<>> /\ client_socket_group_count = MAX_SOCKETS
  /\ pc' = "overrun"
  /\ UNCHANGED <<disk, signals, k, config, raw, reread_config, sockets, log, lines, clients>>

EndAccept ==
  /\ pc = "accept" /\ backlog = <<>> /\ pc' = "reread"
  /\ UNCHANGED <<disk, signals, k, config, raw, reread_config, sockets, log, lines, clients>>

\* Mutant of Reread: the signal to end is looked at only after a reload.
RereadOrRead ==
  /\ pc = "reread" /\ reread_config' = FALSE /\ k' = 1
  /\ pc' = IF reread_config THEN "load" ELSE "read"
  /\ UNCHANGED <<disk, signals, config, raw, sockets, log, lines, clients>>

Reread ==
  /\ pc = "reread" /\ reread_config' = FALSE
  /\ pc' = IF reread_config THEN "load" ELSE "check"
  /\ UNCHANGED <<disk, signals, k, config, raw, sockets, log, lines, clients>>

(***************************************************************************)
(* read_config() opens the file twice: for the text, which is what the     *)
(* clients are sent, and to parse it, which ends the server if it cannot.  *)
(* The new configuration is compared with the old one by their addresses,  *)
(* which differ, so that every reload is a broadcast.                      *)
(***************************************************************************)
ReadRaw ==
  /\ pc = "load"
  /\ \/ raw' = file /\ pc' = "parse"
     \/ file \in unusable /\ pc' = "died" /\ UNCHANGED raw
  /\ UNCHANGED <<disk, signals, k, config, reread_config, sockets, log, lines, clients>>

Parse ==
  /\ pc = "parse" /\ k' = 1
  /\ IF file \in unusable THEN pc' = "died" /\ UNCHANGED config
                         ELSE config' = raw /\ pc' = "send"
  /\ UNCHANGED <<disk, signals, raw, reread_config, sockets, log, lines, clients>>

Send ==
  /\ pc = "send" /\ k <= client_socket_group_count /\ k' = k + 1
  /\ Write(client_socket_group[k], config)
  /\ UNCHANGED <<disk, signals, config, raw, reread_config, client_socket_group, backlog, log,
                 lines, clients>>

\* Mutant of EndSend: the flag is reset when the broadcast is over.
EndSendResets ==
  /\ pc = "send" /\ k > client_socket_group_count /\ pc' = "check"
  /\ reread_config' = FALSE
  /\ UNCHANGED <<disk, signals, k, config, raw, sockets, log, lines, clients>>

\* Mutant of EndSend: the loop over the clients ends one too early.
EndSendEarly ==
  /\ pc = "send" /\ k >= client_socket_group_count /\ pc' = "check"
  /\ UNCHANGED <<disk, signals, k, config, raw, reread_config, sockets, log, lines, clients>>

EndSend ==
  /\ pc = "send" /\ k > client_socket_group_count /\ pc' = "check"
  /\ UNCHANGED <<disk, signals, k, config, raw, reread_config, sockets, log, lines, clients>>

Check ==
  /\ pc = "check" /\ k' = 1
  /\ pc' = IF kill_program THEN "exit" ELSE "read"
  /\ UNCHANGED <<disk, signals, config, raw, reread_config, sockets, log, lines, clients>>

-----------------------------------------------------------------------------
(***************************************************************************)
(* The server reads each socket once a round, up to one message.  The text *)
(* is at the head of a message; what a short read leaves is its padding,   *)
(* and behind padding strstr() and fprintf() do not see the next text.  A  *)
(* report is a text with "killed" in it: no program is named so here.      *)
(***************************************************************************)
\* Mutant of TakeText: the name is stored with the index of the next client.
TakeTextNext(line) ==
  IF line = "killed"
  THEN /\ kill_count' = kill_count + 1
       /\ node_name_attained' = node_name_attained \cup {k + 1}
  ELSE UNCHANGED <<kill_count, node_name_attained>>

TakeText(line) ==
  IF line = "killed"
  THEN /\ kill_count' = kill_count + 1
       /\ node_name_attained' = node_name_attained \cup {k}
  ELSE UNCHANGED <<kill_count, node_name_attained>>

NothingToRead(q) == q = <<>> /\ UNCHANGED <<log, lines>>

Tear == tears < MaxTears /\ tears' = tears + 1

\* Mutant of ReadMessage: what a short read left is taken for a new line.
ReadTwice(c) ==
  /\ lines[c] # <<>> /\ Head(lines[c]) # "rest"
  /\ \/ lines' = [lines EXCEPT ![c] = Tail(@)] /\ UNCHANGED tears
     \/ Tear /\ UNCHANGED lines
  /\ TakeText(Head(lines[c]))

ReadMessage(c) ==
  /\ lines[c] # <<>> /\ Head(lines[c]) # "rest"
  /\ \/ lines' = [lines EXCEPT ![c] = Tail(@)] /\ UNCHANGED tears
     \/ Tear /\ lines' = [lines EXCEPT ![c] = <<"rest">> \o Tail(@)]
  /\ TakeText(Head(lines[c]))

ReadPadding(c) ==
  /\ lines[c] # <<>> /\ Head(lines[c]) = "rest"
  /\ \/ lines' = [lines EXCEPT ![c] = Tail(@)]
     \/ Len(lines[c]) > 1 /\ lines' = [lines EXCEPT ![c] = <<"rest">> \o Tail(Tail(@))]
  /\ UNCHANGED log

Read ==
  /\ pc = "read" /\ k <= client_socket_group_count /\ k' = k + 1
  /\ LET c == client_socket_group[k]
     IN  NothingToRead(lines[c]) \/ ReadMessage(c) \/ ReadPadding(c)
  /\ UNCHANGED <<disk, signals, pc, config, raw, reread_config, sockets, clients>>

EndRead ==
  /\ pc = "read" /\ k > client_socket_group_count /\ pc' = "accept"
  /\ UNCHANGED <<disk, signals, k, config, raw, reread_config, sockets, log, lines, clients>>

-----------------------------------------------------------------------------
(***************************************************************************)
(* After SIGINT each client is sent EGGZIT and its socket closed, which    *)
(* throws away what it wrote.  The reads that follow are of closed sockets *)
(* and fail; then comes the summary.                                       *)
(***************************************************************************)
\* Mutant of Exit: the socket is not closed, and sent EGGZIT again.
ExitTwice ==
  /\ pc = "exit" /\ k <= client_socket_group_count /\ k' \in {k, k + 1}
  /\ LET c == client_socket_group[k]
     IN  /\ peer[c] \in {"open", "gone"} /\ UNCHANGED pc
         /\ sent' = [sent EXCEPT ![c] = Append(@, EGGZIT)]
         /\ UNCHANGED <<peer, lines>>
  /\ UNCHANGED <<disk, signals, config, raw, reread_config, client_socket_group, backlog, log,
                 clients>>

Exit ==
  /\ pc = "exit" /\ k <= client_socket_group_count /\ k' = k + 1
  /\ LET c == client_socket_group[k]
     IN  \/ /\ peer[c] \in {"open", "gone"} /\ UNCHANGED pc
            /\ sent' = [sent EXCEPT ![c] = Append(@, EGGZIT)]
            /\ peer' = [peer EXCEPT ![c] = "closed"]
            /\ lines' = [lines EXCEPT ![c] = <<>>]
         \/ peer[c] = "reset" /\ pc' \in {pc, "died"} /\ UNCHANGED <<sent, peer, lines>>
  /\ UNCHANGED <<disk, signals, config, raw, reread_config, client_socket_group, backlog, log,
                 clients>>

\* Mutant of EndExit: the loop over the clients ends one too early.
EndExitEarly ==
  /\ pc = "exit" /\ k >= client_socket_group_count /\ pc' = "summary"
  /\ UNCHANGED <<disk, signals, k, config, raw, reread_config, sockets, log, lines, clients>>

EndExit ==
  /\ pc = "exit" /\ k > client_socket_group_count /\ pc' = "summary"
  /\ UNCHANGED <<disk, signals, k, config, raw, reread_config, sockets, log, lines, clients>>

Summary ==
  /\ pc = "summary" /\ pc' = "done"
  /\ UNCHANGED <<disk, signals, k, config, raw, reread_config, sockets, log, lines, clients>>

-----------------------------------------------------------------------------
Environment == \/ Edit \/ sighup_handler \/ sigint_handler
               \/ \E c \in Clients : \/ Connect(c) \/ ClientEnds(c) \/ Discard(c)
                                     \/ \E line \in {"info", "killed"} : log_message(c, line)
main == \/ Accept \/ Overrun \/ EndAccept \/ Reread \/ ReadRaw \/ Parse \/ Send \/ EndSend
        \/ Check \/ Read \/ EndRead \/ Exit \/ EndExit \/ Summary

Next == Environment \/ main

Spec == Init /\ [][Next]_vars

\* main() never blocks: its socket and its clients' are set to O_NONBLOCK.
FairSpec == Spec /\ WF_vars(main)

-----------------------------------------------------------------------------
(***************************************************************************)
(* What makes the server correct.                                          *)
(***************************************************************************)
Served == {c \in Clients : sent[c] # <<>>}
Told(c) == sent[c] # <<>> /\ sent[c][Len(sent[c])] = EGGZIT

\* No SIGHUP is lost: once none is pending the configuration in force is at least
\* as new as the file was when the last one came, whenever that was in the round.
NoLostReload ==
  ~reread_config /\ pc \notin {"load", "parse"} /\ ~Stopped => config >= asked

\* Every client that was ever served and is still there has the configuration in
\* force of a running server as the last one it was sent, except those a broadcast has yet to reach.
InStep ==
  \A c \in Served :
    peer[c] = "open" /\ ~Stopped =>
      \/ sent[c][Len(sent[c])] = config
      \/ pc = "send" /\ \E i \in k .. client_socket_group_count : client_socket_group[i] = c

\* When the server has ended on SIGINT every client it had served was told so by
\* EGGZIT as its last message, unless its own end was gone before.
Goodbye == pc \in {"summary", "done"} => \A c \in Served : peer[c] \in {"gone", "reset"} \/ Told(c)

KilledAt(q) == {i \in DOMAIN q : q[i] = "killed"}
UnreadKills == UNION {{<<c, i>> : i \in KilledAt(lines[c])} : c \in Clients}

\* No kill is counted twice, however the messages are cut; and as long as none has
\* been cut, none that reached the server is missed before it closes the sockets:
\* what is neither counted nor waiting to be read went with the reset of a
\* client's end.
CountsOnce ==
  /\ kill_count + Cardinality(UnreadKills) + lost <= kills
  /\ tears = 0 /\ ~kill_program /\ ~Stopped
       => kill_count + Cardinality(UnreadKills) + lost = kills

\* The array of sockets is overrun only when more clients have been started than it
\* has places, and not by clients coming back, being served again or by reloads.
Fits == Cardinality({c \in Clients : peer[c] # "none"}) <= MAX_SOCKETS => pc # "overrun"

\* Each client sees the server ServerLink describes.
Link(c) == INSTANCE ServerLink WITH
             messages <- sent[c],
             up <- peer[c] # "closed" /\ ~Stopped
Keeps == /\ \A c \in Clients : Link(c)!Init
         /\ [][\A c \in Clients : [Link(c)!Next]_(Link(c)!vars)]_vars

-----------------------------------------------------------------------------
(***************************************************************************)
(* What a comment in main.c says of the program and the code does not do.  *)
(***************************************************************************)
\* "Read from the socket one last time to see if we have any killed processes":
\* every kill a client had written is in the total of the summary, but those a
\* client's own reset threw away.
FinalCount == pc = "done" => kill_count + lost = kills

=============================================================================
