----------------------------- MODULE ServerStart -----------------------------
(***************************************************************************)
(* The servers that are started on one host, one after another or at the   *)
(* same time (procnanny.server/main.c 72-154): each clears the two logs,   *)
(* kills the servers that run (process_manager.c) and takes over the port. *)
(* From its main loop on a server is what Server describes.                *)
(***************************************************************************)
EXTENDS Integers, FiniteSets

CONSTANT Servers     \* the servers that are ever started

VARIABLES
  stage,      \* how far each server is
  alive,      \* those that have not ended
  dying,      \* those of them that were sent SIGKILL
  group,      \* procnanny_process_group: what each has not been through
  target,     \* the process each has found alive and is about to kill
  main_log,   \* who has written to the log since it was last cleared
  info_log,   \* whose line the file of the server's name and port holds
  served,     \* the servers that have had a client
  lingers,    \* whether connections of a server that has ended keep the port
  before,     \* history: the servers that had ended when each was started
  failed      \* history: whether one has ended, or struck, as none should

logs  == <<main_log, info_log>>
port  == <<served, lingers>>
procs == <<alive, dying>>
vars  == <<stage, procs, group, target, logs, port, before, failed>>

Stages == {"off", "started", "cleared", "nameless", "named", "listed", "killing", "armed",
           "struck", "unbound", "serving", "refused"}

TypeOK ==
  /\ stage \in [Servers -> Stages]
  /\ alive \subseteq Servers /\ dying \subseteq alive
  /\ group \in [Servers -> SUBSET Servers] /\ target \in [Servers -> SUBSET Servers]
  /\ main_log \subseteq Servers /\ info_log \subseteq Servers
  /\ served \subseteq Servers /\ lingers \in BOOLEAN
  /\ before \in [Servers -> SUBSET Servers] /\ failed \in BOOLEAN

Init ==
  /\ stage = [i \in Servers |-> "off"] /\ alive = {} /\ dying = {}
  /\ group = [i \in Servers |-> {}] /\ target = [i \in Servers |-> {}]
  /\ main_log = {} /\ info_log = {} /\ served = {} /\ lingers = FALSE
  /\ before = [i \in Servers |-> {}] /\ failed = FALSE

Runs(i)    == i \in alive \ dying
Serves(i)  == Runs(i) /\ stage[i] = "serving"
Started(i) == stage[i] # "off"

Moves(i, from, to) ==
  /\ Runs(i) /\ stage[i] = from /\ stage' = [stage EXCEPT ![i] = to]
  /\ UNCHANGED <<before, failed, served>>

\* The end of a process closes its sockets; those that had a client keep the port.
Ends(i) ==
  /\ alive' = alive \ {i} /\ dying' = dying \ {i}
  /\ lingers' = (lingers \/ i \in served)
  /\ UNCHANGED <<group, target, logs, before, served>>

-----------------------------------------------------------------------------
(***************************************************************************)
(* The start: the logs are cleared before anything else is looked at.      *)
(***************************************************************************)
Start(i) ==
  /\ ~Started(i) /\ stage' = [stage EXCEPT ![i] = "started"] /\ alive' = alive \cup {i}
  /\ before' = [before EXCEPT ![i] = {j \in Servers : Started(j) /\ j \notin alive}]
  /\ UNCHANGED <<dying, group, target, logs, port, failed>>

\* Mutant of clear_log_file: the log is opened for appending.
keep_log_file(i) ==
  /\ Moves(i, "started", "cleared") /\ UNCHANGED <<procs, group, target, logs, lingers>>

clear_log_file(i) ==
  /\ Moves(i, "started", "cleared") /\ main_log' = {}
  /\ UNCHANGED <<procs, group, target, info_log, lingers>>

clear_server_log_file(i) ==
  /\ Moves(i, "cleared", "nameless") /\ info_log' = {}
  /\ UNCHANGED <<procs, group, target, main_log, lingers>>

\* Mutant of WriteInfo: the line goes to the other file.
WriteInfoElsewhere(i) ==
  /\ Moves(i, "nameless", "named") /\ main_log' = main_log \cup {i}
  /\ UNCHANGED <<procs, group, target, info_log, lingers>>

WriteInfo(i) ==
  /\ Moves(i, "nameless", "named") /\ info_log' = info_log \cup {i}
  /\ UNCHANGED <<procs, group, target, main_log, lingers>>

-----------------------------------------------------------------------------
(***************************************************************************)
(* The take-over: one snapshot of the processes of the program's name, of  *)
(* which all but the server itself are killed.  kill() returns before its  *)
(* target has ended, and a target that is inside kill() finishes it.       *)
(***************************************************************************)
get_process_group_by_name(i) ==
  /\ Moves(i, "named", "listed") /\ group' = [group EXCEPT ![i] = alive]
  /\ UNCHANGED <<procs, target, logs, lingers>>

WriteMain(i) ==
  /\ Moves(i, "listed", "killing") /\ main_log' = main_log \cup {i}
  /\ UNCHANGED <<procs, group, target, info_log, lingers>>

\* Mutants of Victims: the server does not spare itself; it spares those that do
\* not serve yet.
VictimsAll(i)     == group[i]
VictimsServing(i) == {j \in group[i] \ {i} : stage[j] = "serving"}

Victims(i) == group[i] \ {i}

Probe(i) ==
  /\ \E j \in Victims(i) :
       /\ group' = [group EXCEPT ![i] = @ \ {j}]
       /\ IF j \in alive
          THEN Moves(i, "killing", "armed") /\ target' = [target EXCEPT ![i] = {j}]
          ELSE Moves(i, "killing", "killing") /\ UNCHANGED target
  /\ UNCHANGED <<procs, logs, lingers>>

\* Mutant of Strike: the target is taken to be what the probe found it to be.
StrikeAll(i) ==
  /\ i \in alive /\ stage[i] = "armed" /\ stage' = [stage EXCEPT ![i] = "struck"]
  /\ dying' = dying \cup target[i] /\ target' = [target EXCEPT ![i] = {}]
  /\ failed' = (failed \/ i \in dying)
  /\ UNCHANGED <<alive, group, logs, port, before>>

Strike(i) ==
  /\ i \in alive /\ stage[i] = "armed" /\ stage' = [stage EXCEPT ![i] = "struck"]
  /\ dying' = dying \cup (target[i] \cap alive) /\ target' = [target EXCEPT ![i] = {}]
  /\ failed' = (failed \/ i \in dying)
  /\ UNCHANGED <<alive, group, logs, port, before>>

LogKill(i) ==
  /\ Moves(i, "struck", "killing") /\ main_log' = main_log \cup {i}
  /\ UNCHANGED <<procs, group, target, info_log, lingers>>

TakenOver(i) ==
  /\ Victims(i) = {} /\ Moves(i, "killing", "unbound")
  /\ UNCHANGED <<procs, group, target, logs, lingers>>

-----------------------------------------------------------------------------
(***************************************************************************)
(* bind(), without SO_REUSEADDR: the port is taken as long as a socket or  *)
(* a connection of another server is there, and then the server exits.     *)
(***************************************************************************)
Taken == lingers \/ \E j \in alive : stage[j] = "serving"

Bind(i) ==
  /\ ~Taken /\ Moves(i, "unbound", "serving")
  /\ UNCHANGED <<procs, group, target, logs, lingers>>

Refused(i) ==
  /\ Taken /\ Runs(i) /\ stage[i] = "unbound" /\ stage' = [stage EXCEPT ![i] = "refused"]
  /\ failed' = TRUE /\ Ends(i)

\* A server in its loop logs what its clients write.
Serve(i) ==
  /\ Serves(i) /\ served' = served \cup {i} /\ main_log' = main_log \cup {i}
  /\ UNCHANGED <<stage, procs, group, target, info_log, lingers, before, failed>>

\* It ends on SIGINT.  Before, it may end on an error, or on SIGHUP, whose handler
\* uses the names of the configuration and the log before they are set.
Fail(i) ==
  /\ Runs(i) /\ Ends(i) /\ failed' = TRUE /\ UNCHANGED stage

Exit(i) == i \in dying /\ Ends(i) /\ UNCHANGED <<stage, failed>>

Expire ==
  /\ lingers /\ lingers' = FALSE
  /\ UNCHANGED <<stage, procs, group, target, logs, served, before, failed>>

main(i) ==
  \/ clear_log_file(i) \/ clear_server_log_file(i) \/ WriteInfo(i)
  \/ get_process_group_by_name(i) \/ WriteMain(i) \/ Probe(i) \/ Strike(i) \/ LogKill(i)
  \/ TakenOver(i) \/ Bind(i) \/ Refused(i)

Next == Expire \/ \E i \in Servers : Start(i) \/ main(i) \/ Serve(i) \/ Fail(i) \/ Exit(i)

Spec == Init /\ [][Next]_vars

\* Nothing in the start waits, and a process that was sent SIGKILL ends.
FairSpec == Spec /\ \A i \in Servers : WF_vars(main(i)) /\ WF_vars(Exit(i))

-----------------------------------------------------------------------------
(***************************************************************************)
(* What holds however the starts overlap.                                  *)
(***************************************************************************)
Past(i) == Runs(i) /\ stage[i] \in {"unbound", "serving"}

\* No two servers come out of their take-overs: when one is about to take the port
\* every other that had come as far has been sent SIGKILL (main.c 99-118).
OneServes == \A i, j \in Servers : Past(i) /\ Past(j) => i = j

\* The port's file names the server that serves, unless another was started while
\* that one was there, or the other way round (main.c 86-95).
Overlaps(i, j) == j # i /\ Started(j) /\ i \notin before[j] /\ j \notin before[i]
Named == \A i \in Servers : Serves(i) =>
           i \in info_log \/ \E j \in Servers : Overlaps(i, j)

\* A server that serves has nothing in its logs of a server that had ended before it
\* was started, whatever others do meanwhile (main.c 85-86).
Fresh == \A i \in Servers : Serves(i) => before[i] \cap (main_log \cup info_log) = {}

\* Whoever kills whom, some server serves in the end: nobody is left only if one
\* ended by itself, found the port taken, or struck when it had been struck.
Succession == (\E i \in Servers : Started(i)) ~> (failed \/ \E i \in Servers : Serves(i))
=============================================================================
