------------------------------ MODULE ProcNanny ------------------------------
(***************************************************************************)
(* The server with its clients: Server, where what a client does follows   *)
(* from what it has read (procnanny.client/main.c).  Of the monitoring only *)
(* the lines it sends remain here, MonitorPool has the rest; messages are  *)
(* read whole, Framing has what happens when they are not.                 *)
(*                                                                         *)
(* A server that closes a socket with lines unread, as it does on SIGINT   *)
(* and when it dies, resets the connection: what its client has not yet    *)
(* been delivered may be lost.  So does a client that ends with messages   *)
(* unheard (Server's Discard), and what is lost then are its lines.        *)
(***************************************************************************)
EXTENDS Server

VARIABLES
  stage,    \* how far each client is
  heard,    \* how many of the messages it was sent each client has read
  parsed,   \* the last configuration each client has read
  total_processes_killed,
  cut       \* the clients whose unread messages a reset has thrown away

client == <<stage, heard, parsed, total_processes_killed, cut>>

NannyTypeOK ==
  /\ TypeOK
  /\ stage \in [Clients -> {"off", "waiting", "running", "stopping", "ended", "died"}]
  /\ heard \in [Clients -> Nat] /\ \A c \in Clients : heard[c] <= Len(sent[c])
  /\ parsed \in [Clients -> Configs]
  /\ total_processes_killed \in [Clients -> Nat]
  /\ cut \subseteq Clients

NannyInit ==
  /\ Init
  /\ stage = [c \in Clients |-> "off"] /\ heard = [c \in Clients |-> 0]
  /\ parsed = [c \in Clients |-> 0]
  /\ total_processes_killed = [c \in Clients |-> 0] /\ cut = {}

\* The server's end of the connection: closed by the server, or by its end.
Hung(c) == peer[c] = "closed" \/ pc \in {"done", "died"}
Unheard(c) == c \notin cut /\ heard[c] < Len(sent[c])

-----------------------------------------------------------------------------
(***************************************************************************)
(* A client.  Whether its end of the connection resets depends on what it  *)
(* leaves unread.                                                          *)
(***************************************************************************)
End(c, how) ==
  /\ stage' = [stage EXCEPT ![c] = how]
  /\ UNCHANGED <<total_processes_killed, cut>>
  /\ IF peer[c] = "open"
     THEN ClientEnds(c) /\ peer'[c] = (IF heard'[c] < Len(sent[c]) THEN "reset" ELSE "gone")
     ELSE UNCHANGED vars

Start(c) ==
  /\ stage[c] = "off" /\ Connect(c)
  /\ stage' = [stage EXCEPT ![c] = "waiting"]
  /\ UNCHANGED <<heard, parsed, total_processes_killed, cut>>

\* Mutant of Take: a client that runs goes on with the configuration it has.
TakeFirst(c, config_read) ==
  IF config_read \in unusable
  THEN End(c, "died") /\ UNCHANGED parsed
  ELSE /\ parsed' = IF stage[c] = "waiting" THEN [parsed EXCEPT ![c] = config_read] ELSE parsed
       /\ stage' = [stage EXCEPT ![c] = "running"]
       /\ UNCHANGED <<vars, total_processes_killed, cut>>

\* read_config() of a text it cannot take ends the client, whenever it comes.
Take(c, config_read) ==
  IF config_read \in unusable
  THEN End(c, "died") /\ UNCHANGED parsed
  ELSE /\ parsed' = [parsed EXCEPT ![c] = config_read]
       /\ stage' = [stage EXCEPT ![c] = "running"]
       /\ UNCHANGED <<vars, total_processes_killed, cut>>

\* Mutant of Receive: an EGGZIT is taken for a configuration.
ReceiveAll(c) ==
  /\ stage[c] \in {"waiting", "running"} /\ Unheard(c)
  /\ heard' = [heard EXCEPT ![c] = @ + 1]
  /\ Take(c, sent[c][heard[c] + 1])

\* The first message is waited for; later ones are looked for once a second.
Receive(c) ==
  /\ stage[c] \in {"waiting", "running"} /\ Unheard(c)
  /\ heard' = [heard EXCEPT ![c] = @ + 1]
  /\ LET message == sent[c][heard[c] + 1]
     IN  IF message = EGGZIT
         THEN /\ stage' = [stage EXCEPT ![c] = "stopping"]
              /\ UNCHANGED <<vars, parsed, total_processes_killed, cut>>
         ELSE Take(c, message)

\* Mutant of Refused: a client that waits takes the end of the connection for nothing yet.
RefusedNever(c) ==
  stage[c] = "waiting" /\ Hung(c) /\ ~Unheard(c) /\ c \in cut /\ UNCHANGED <<vars, client>>

\* The end of the connection ends a client that waits for its first message, by an
\* error or by an empty text; one that runs takes it for nothing to read.
Refused(c) ==
  /\ stage[c] = "waiting" /\ Hung(c) /\ ~Unheard(c)
  /\ UNCHANGED <<heard, parsed>> /\ End(c, "ended")

\* A kill is counted, then reported.  Of the writes to a server that is gone the
\* first may still succeed; a later one ends the client.
Killed(c) ==
  /\ stage[c] \in {"running", "stopping"} /\ total_processes_killed[c] < MaxLines
  /\ total_processes_killed' = [total_processes_killed EXCEPT ![c] = @ + 1]
  /\ UNCHANGED <<heard, parsed, cut>>
  /\ IF Hung(c)
     THEN UNCHANGED vars /\ stage' \in {stage, [stage EXCEPT ![c] = "died"]}
     ELSE log_message(c, "killed") /\ UNCHANGED stage

Watches(c) ==
  /\ stage[c] = "running" /\ ~Hung(c) /\ log_message(c, "info") /\ UNCHANGED client

Stop(c) == stage[c] = "stopping" /\ UNCHANGED <<heard, parsed>> /\ End(c, "ended")

\* The client is killed, or overruns.
Crash(c) ==
  /\ stage[c] \in {"waiting", "running", "stopping"}
  /\ UNCHANGED <<heard, parsed>> /\ End(c, "died")

-----------------------------------------------------------------------------
\* The clients whose connection this step of the server resets with messages unheard.
Resets == {c \in Clients : /\ lines[c] # <<>> /\ heard[c] < Len(sent'[c])
                           /\ ~Hung(c) /\ Hung(c)'}

ServerSide ==
  /\ main \/ Edit \/ sighup_handler \/ sigint_handler \/ \E c \in Clients : Discard(c)
  /\ UNCHANGED <<stage, heard, parsed, total_processes_killed>>
  /\ \E unheard \in SUBSET Resets : cut' = cut \cup unheard

\* What a client does by itself, once a second, and what may happen to it.
Round(c) == Receive(c) \/ Refused(c) \/ Stop(c)
Event(c) == Start(c) \/ Killed(c) \/ Watches(c) \/ Crash(c)

NannyNext == ServerSide \/ \E c \in Clients : Round(c) \/ Event(c)

nanny == <<vars, client>>

\* No loop blocks: the server's sockets and, after the first read, the client's are
\* set to O_NONBLOCK; that read is enabled only when there is something to read.
Nanny == /\ NannyInit /\ [][NannyNext]_nanny
         /\ WF_nanny(ServerSide /\ main) /\ \A c \in Clients : WF_nanny(Round(c))

-----------------------------------------------------------------------------
(***************************************************************************)
(* What the two sides together promise.                                    *)
(***************************************************************************)
\* A client that runs and has read all it was sent goes by the configuration in
\* force of its server, unless a broadcast is on its way.
Agreement ==
  \A c \in Clients :
    stage[c] = "running" /\ heard[c] = Len(sent[c]) /\ ~Hung(c) /\ ~Stopped
      => parsed[c] = config \/ pc = "send"

\* No client waits for its first configuration for ever: it gets it, or is told by
\* the end of the connection that it will not.
Welcomes == \A c \in Clients : stage[c] = "waiting" ~> stage[c] # "waiting" \/ pc = "overrun"

\* What the file held when SIGHUP came is parsed by every client that runs, or
\* something newer is, whatever else is edited and signalled.
Converges ==
  \A c \in Clients, v \in Configs :
    (asked = v /\ stage[c] = "running") ~> (Stopped \/ stage[c] # "running" \/ parsed[c] >= v)

\* SIGINT ends the server and all its clients: none outlives a server that has
\* ended so, but one whose connection was reset with the EGGZIT unread.
Leaves ==
  kill_program ~>
    \/ pc \in {"died", "overrun"}
    \/ pc = "done" /\ \A c \in Clients : stage[c] \in {"off", "ended", "died"} \/ c \in cut
=============================================================================
