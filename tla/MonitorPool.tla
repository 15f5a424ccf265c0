---------------------------- MODULE MonitorPool ----------------------------
(***************************************************************************)
(* One procnanny client: the parent process and the pool of monitors it    *)
(* forks (procnanny.client/main.c, process_manager.c).                     *)
(*                                                                         *)
(* The parent polls the server's socket, drains the pipes its monitors     *)
(* report on, and every few seconds scans the machine for the configured   *)
(* programs.  Each process it finds is handed to an idle monitor over a    *)
(* pipe, or to a newly forked one.  A monitor sleeps, probes its target,   *)
(* kills it, reports 1 or 0, and waits for the next target.  A step is one *)
(* system call another process can observe, with the parent's bookkeeping  *)
(* that follows it.                                                        *)
(***************************************************************************)
EXTENDS Integers, Sequences, FiniteSets

CONSTANTS
  Pids,           \* process ids the watched programs can run under
  Names,          \* program names
  Timeouts,       \* values of the timeout column of a configuration
  Configs,        \* configurations the server may send: sequences of entries
  MAX_PROCESSES,  \* slots of a Process_Group (1024 in process_manager.h): of the pool,
  MAX_SNAPSHOT,   \* and of the group a scan gathers the processes in (1024 as well)
  ScanPeriod,     \* a scan is due when more than this has passed (4 in main.c)
  MaxGen,         \* how many processes may run under one pid, one after another
  Protected,      \* pids that kill() refuses with EPERM
  ServerCrashes,  \* whether the server may vanish without sending EGGZIT
  SocketFills,    \* whether the server may read so late that the socket fills up
  RunsOut,        \* whether the client may run out of descriptors and processes
  MaxInbox,       \* messages that may wait unread in the socket
  EGGZIT,         \* the message that ends the client
  REST,           \* the padding left in the socket of a message read in part
  NoPid, NoName   \* the process_id -1 of an idle slot; no process under a pid

Entry == [name : Names, ttk : Timeouts]
Slots == 1 .. MAX_PROCESSES

ASSUME PidsAssumption    == IsFiniteSet(Pids) /\ NoPid \notin Pids /\ Protected \subseteq Pids
ASSUME NamesAssumption   == NoName \notin Names
ASSUME TimeAssumption    == Timeouts \subseteq Nat /\ ScanPeriod \in Nat
ASSUME ConfigsAssumption == Configs \subseteq Seq(Entry) /\ EGGZIT \notin Configs
                            /\ REST \notin Configs \cup {EGGZIT}
ASSUME BoundsAssumption  == MAX_PROCESSES \in Nat /\ MAX_SNAPSHOT \in Nat
                            /\ MaxGen \in Nat \ {0} /\ MaxInbox \in Nat
ASSUME FaultsAssumption  == /\ ServerCrashes \in BOOLEAN /\ SocketFills \in BOOLEAN
                            /\ RunsOut \in BOOLEAN

VARIABLES
  proc, gen,       \* program under each pid; processes started under it so far
  inbox, link,     \* messages the parent has not read; what its write() will meet
  pc, k,           \* where the parent is, and the index of the loop it is in
  config, new_config, reread_config, kill_program, first_time_through,
  elapsed,         \* seconds since time_last_checked, up to ScanPeriod + 1
  snap,            \* current_process_group: what is left of the last scan
  total_processes, \* processes gathered by the scan that is under way
  total_processes_killed,
  process_count, slot,  \* the parent's process_group
  monitor,              \* the memory of the forked monitor of each slot
  pipe_to_child, pipe_to_parent,
  mute, deaf,      \* slots forked without pipe_to_parent, without pipe_to_child
  doomed,          \* slots whose monitor the parent has sent SIGKILL
  shots            \* history: how many SIGKILLs the monitors sent

machine == <<proc, gen>>
server  == <<inbox, link>>
orders  == <<config, new_config, reread_config, kill_program, first_time_through>>
scan    == <<snap, total_processes>>
parent  == <<pc, k, orders, elapsed, scan, total_processes_killed, process_count, slot>>
pipes   == <<pipe_to_child, pipe_to_parent>>
marks   == <<mute, deaf, doomed>>
pool    == <<monitor, pipes, marks, shots>>
vars    == <<machine, server, parent, pool>>

-----------------------------------------------------------------------------
Assignment == [pid : Pids, ttk : Timeouts]      \* what goes down a pipe
Seen       == [pid : Pids, gen : 0 .. MaxGen]   \* one process pidof printed
Slot       == [busy : BOOLEAN, pid : Pids \cup {NoPid}, ttk : Timeouts \cup {-1},
               aim : 0 .. MaxGen]  \* aim is history: the process the scan had seen
Monitor    == [at : {"none", "sleep", "probe", "shoot", "tell1", "tell0", "wait",
                     "exited", "killed"},
               pid : Pids \cup {NoPid}, ttk : Timeouts \cup {-1}]

TypeOK ==
  /\ proc \in [Pids -> Names \cup {NoName}]
  /\ gen \in [Pids -> 0 .. MaxGen]
  /\ inbox \in Seq(Configs \cup {EGGZIT, REST})
  /\ link \in {"open", "closed", "rst_due", "reset"}
  /\ pc \in {"poll", "drain", "scan", "assign", "stop", "done", "died", "overrun"}
  /\ k \in Nat \ {0}
  /\ config \in Configs /\ new_config \in Configs
  /\ reread_config \in BOOLEAN /\ kill_program \in BOOLEAN
  /\ first_time_through \in BOOLEAN
  /\ elapsed \in 0 .. ScanPeriod + 1
  /\ snap \in Seq([ttk : Timeouts, seen : SUBSET Seen])
  /\ total_processes \in Nat /\ total_processes_killed \in Nat /\ shots \in Nat
  /\ process_count \in 0 .. MAX_PROCESSES
  /\ slot \in [Slots -> Slot]
  /\ monitor \in [Slots -> Monitor]
  /\ pipe_to_child \in [Slots -> Seq(Assignment)]
  /\ pipe_to_parent \in [Slots -> Seq({0, 1})]
  /\ mute \subseteq Slots /\ deaf \subseteq Slots /\ doomed \subseteq Slots

IdleSlot == [busy |-> FALSE, pid |-> NoPid, ttk |-> -1, aim |-> 0]

Init ==
  /\ proc \in [Pids -> Names \cup {NoName}]
  /\ gen = [p \in Pids |-> IF proc[p] = NoName THEN 0 ELSE 1]
  /\ inbox \in {<<>>, <<REST>>} /\ link = "open"
  /\ pc = "poll" /\ k = 1
  /\ config \in Configs /\ new_config = config
  /\ reread_config = FALSE /\ kill_program = FALSE /\ first_time_through = TRUE
  /\ elapsed = 0 /\ snap = <<>> /\ total_processes = 0 /\ total_processes_killed = 0 /\ shots = 0
  /\ process_count = 0
  /\ slot = [i \in Slots |-> IdleSlot]
  /\ monitor = [i \in Slots |-> [at |-> "none", pid |-> NoPid, ttk |-> -1]]
  /\ pipe_to_child = [i \in Slots |-> <<>>]
  /\ pipe_to_parent = [i \in Slots |-> <<>>]
  /\ mute = {} /\ deaf = {} /\ doomed = {}

-----------------------------------------------------------------------------
(***************************************************************************)
(* The machine: programs start and stop on their own, and a pid may be     *)
(* given to a new process once the old one is gone.                        *)
(***************************************************************************)
ProcStart(p) ==
  /\ proc[p] = NoName /\ gen[p] < MaxGen
  /\ \E n \in Names : proc' = [proc EXCEPT ![p] = n]
  /\ gen' = [gen EXCEPT ![p] = @ + 1]
  /\ UNCHANGED <<server, parent, pool>>

ProcExit(p) ==
  /\ proc[p] # NoName
  /\ proc' = [proc EXCEPT ![p] = NoName]
  /\ UNCHANGED <<gen, server, parent, pool>>

(***************************************************************************)
(* The server's end of the connection.  It sends configurations, and then  *)
(* EGGZIT followed by close(), or it just dies.  A close() with lines of   *)
(* the client unread is answered by a reset at once, another one after the *)
(* next write; a write after the reset ends the client (log_message's exit *)
(* on an error, or SIGPIPE), and so does one the full socket refuses.      *)
(***************************************************************************)
ServerSend ==
  /\ link = "open" /\ Len(inbox) < MaxInbox
  /\ \E c \in Configs : inbox' = Append(inbox, c)
  /\ UNCHANGED <<machine, link, parent, pool>>

ServerQuit ==
  /\ link = "open" /\ link' \in {"closed", "rst_due"}
  /\ inbox' = Append(inbox, EGGZIT)
  /\ UNCHANGED <<machine, parent, pool>>

ServerCrash ==
  /\ ServerCrashes
  /\ link = "open" /\ link' \in {"closed", "rst_due"}
  /\ UNCHANGED <<machine, inbox, parent, pool>>

ResetArrives ==
  /\ link = "rst_due" /\ link' = "reset"
  /\ UNCHANGED <<machine, inbox, parent, pool>>

\* log_message writes one line to the server, or ends the parent.
LogOrDie ==
  \/ (link = "reset" \/ SocketFills) /\ pc' = "died" /\ UNCHANGED link
  \/ /\ link # "reset" /\ UNCHANGED pc
     /\ link' = IF link = "closed" THEN "rst_due" ELSE link

-----------------------------------------------------------------------------
(***************************************************************************)
(* The parent sleeps a second and reads the socket once, for a whole       *)
(* message of BUFFER_SIZE bytes.  It throws away what it gets of a shorter *)
(* read; the padding left behind then shifts the messages after it.        *)
(***************************************************************************)
NothingThere == inbox = <<>> /\ pc' = "drain" /\ UNCHANGED <<inbox, orders>>

\* What is left when a read ends within the message after the head.
Shifted == <<REST>> \o Tail(Tail(inbox))

ShortRead ==
  /\ inbox # <<>> /\ pc' = "drain" /\ UNCHANGED orders
  /\ \/ Head(inbox) # REST /\ inbox' = <<REST>> \o Tail(inbox)
     \/ Head(inbox) = REST /\ inbox' = Tail(inbox)
     \/ Head(inbox) = REST /\ Len(inbox) > 1 /\ inbox' = Shifted

WholeMessage ==
  /\ inbox # <<>> /\ Head(inbox) # REST
  /\ inbox' = Tail(inbox) /\ pc' = "drain"
  /\ IF Head(inbox) = EGGZIT
     THEN kill_program' = TRUE /\ UNCHANGED <<new_config, reread_config>>
     ELSE new_config' = Head(inbox) /\ reread_config' = TRUE /\ UNCHANGED kill_program
  /\ UNCHANGED <<config, first_time_through>>

\* A full buffer that starts with padding: read_config finds no program and exits.
ShiftedMessage ==
  /\ inbox # <<>> /\ Head(inbox) = REST /\ Len(inbox) > 1
  /\ inbox' = Shifted /\ pc' = "died" /\ UNCHANGED orders

Poll ==
  /\ pc = "poll" /\ k' = 1
  /\ elapsed' \in {t \in 1 .. ScanPeriod + 1 : t > elapsed \/ t = ScanPeriod + 1}
  /\ NothingThere \/ ShortRead \/ WholeMessage \/ ShiftedMessage
  /\ UNCHANGED <<machine, link, scan, total_processes_killed, process_count, slot, pool>>

(***************************************************************************)
(* Then it reads the report pipe of each slot.  One read takes all that is *)
(* there, and atoi() looks at the first report only.                       *)
(***************************************************************************)
\* Mutant of ReadReport: whatever a monitor reports is taken for a kill.
ReadAnyReport(i) ==
  /\ pipe_to_parent[i] # <<>>
  /\ pipe_to_parent' = [pipe_to_parent EXCEPT ![i] = <<>>]
  /\ total_processes_killed' = total_processes_killed + 1
  /\ LogOrDie

ReadReport(i) ==
  /\ pipe_to_parent[i] # <<>>
  /\ pipe_to_parent' = [pipe_to_parent EXCEPT ![i] = <<>>]
  /\ total_processes_killed' = total_processes_killed + Head(pipe_to_parent[i])
  /\ IF Head(pipe_to_parent[i]) = 1 THEN LogOrDie ELSE UNCHANGED <<pc, link>>

\* Mutant of NoReport: the read at shutdown blocks on an empty pipe.
BlockingNoReport(i) ==
  /\ pc # "stop" /\ pipe_to_parent[i] = <<>>
  /\ UNCHANGED <<pc, link, pipe_to_parent, total_processes_killed>>

NoReport(i) ==
  /\ pipe_to_parent[i] = <<>>
  /\ UNCHANGED <<pc, link, pipe_to_parent, total_processes_killed>>

Drain ==
  /\ pc = "drain" /\ k <= process_count
  /\ \/ NoReport(k) /\ UNCHANGED slot
     \/ /\ ReadReport(k)
        /\ slot' = IF pc' = "died" THEN slot ELSE [slot EXCEPT ![k] = IdleSlot]
  /\ k' = k + 1
  /\ UNCHANGED <<machine, inbox, orders, elapsed, scan, process_count, monitor,
                 pipe_to_child, marks, shots>>

(***************************************************************************)
(* A scan is due the first time and then every ScanPeriod; a re-read       *)
(* configuration takes effect only then.  pidof lists the processes of one *)
(* program at a time.                                                      *)
(***************************************************************************)
\* Mutant of ScanDue: the period is never looked at.
ScanDueOnce == first_time_through

ScanDue  == first_time_through \/ elapsed > ScanPeriod
NextRound == IF kill_program THEN "stop" ELSE "poll"

\* Mutant of SkipScan: reread_config is reset outside the if, on every round.
SkipScanForgets ==
  /\ pc = "drain" /\ k > process_count /\ ~ScanDue
  /\ pc' = NextRound /\ k' = 1 /\ reread_config' = FALSE
  /\ UNCHANGED <<machine, server, config, new_config, kill_program, first_time_through,
                 elapsed, scan, total_processes_killed, process_count, slot, pool>>

SkipScan ==
  /\ pc = "drain" /\ k > process_count /\ ~ScanDue
  /\ pc' = NextRound /\ k' = 1
  /\ UNCHANGED <<machine, server, orders, elapsed, scan, total_processes_killed,
                 process_count, slot, pool>>

BeginScan ==
  /\ pc = "drain" /\ k > process_count /\ ScanDue
  /\ config' = IF reread_config THEN new_config ELSE config
  /\ pc' = "scan" /\ k' = 1 /\ total_processes' = 0
  /\ UNCHANGED <<machine, server, new_config, reread_config, kill_program,
                 first_time_through, elapsed, snap, total_processes_killed,
                 process_count, slot, pool>>

\* Mutant of PidOf: the empty output of pidof is taken for a process.
PidOfBlank(name) ==
  LET found == {[pid |-> p, gen |-> gen[p]] : p \in {q \in Pids : proc[q] = name}}
  IN  IF found = {} THEN {[pid |-> NoPid, gen |-> 0]} ELSE found

PidOf(name) == {[pid |-> p, gen |-> gen[p]] : p \in {q \in Pids : proc[q] = name}}

ScansLine == pc = "scan" /\ k <= Len(config)

ScanLine ==
  /\ ScansLine /\ k' = k + 1
  /\ LET seen == PidOf(config[k].name)
     IN  /\ total_processes' = total_processes + Cardinality(seen)
         /\ total_processes' <= MAX_SNAPSHOT
         /\ snap' = Append(snap, [ttk |-> config[k].ttk, seen |-> seen])
         /\ IF seen = {} /\ (reread_config \/ first_time_through)
            THEN LogOrDie   \* "No '%s' processes found"
            ELSE UNCHANGED <<pc, link>>
  /\ UNCHANGED <<machine, inbox, orders, elapsed, total_processes_killed,
                 process_count, slot, pool>>

\* There is no bound check: the next process is stored past the end of the group.
ScanOverrun ==
  /\ ScansLine
  /\ total_processes + Cardinality(PidOf(config[k].name)) > MAX_SNAPSHOT
  /\ pc' = "overrun"
  /\ UNCHANGED <<machine, server, k, orders, elapsed, scan, total_processes_killed,
                 process_count, slot, pool>>

\* Each popen() keeps its descriptor and its child: there is no pclose().
PopenFails ==
  /\ RunsOut /\ ScansLine /\ pc' = "died"
  /\ UNCHANGED <<machine, server, k, orders, elapsed, scan, total_processes_killed,
                 process_count, slot, pool>>

EndScan ==
  /\ pc = "scan" /\ k > Len(config) /\ pc' = "assign"
  /\ first_time_through' = FALSE /\ reread_config' = FALSE /\ total_processes' = 0
  /\ UNCHANGED <<machine, server, k, config, new_config, kill_program, elapsed, snap,
                 total_processes_killed, process_count, slot, pool>>

(***************************************************************************)
(* It walks the snapshot line by line of the configuration and, within a   *)
(* line, in the order pidof printed, which is any order.                   *)
(***************************************************************************)
\* Mutant of IsMonitored: the last slot is not looked at.
IsMonitoredShort(p) == \E i \in 1 .. process_count - 1 : slot[i].pid = p

IsMonitored(p) == \E i \in 1 .. process_count : slot[i].pid = p
\* Mutant of Idle: the busy flag is not looked at.
IdleAny == 1 .. process_count

Idle == {i \in 1 .. process_count : ~slot[i].busy}
FirstIdle(i) == \A j \in Idle : i <= j

Visit(o) ==
  /\ pc = "assign" /\ snap # <<>> /\ o \in Head(snap).seen
  /\ snap' = [snap EXCEPT ![1].seen = @ \ {o}]
  /\ UNCHANGED <<machine, inbox, k, orders, elapsed, total_processes,
                 total_processes_killed, pipe_to_parent, doomed, shots>>

Watch(i, o) ==
  slot' = [slot EXCEPT ![i] =
             [busy |-> TRUE, pid |-> o.pid, ttk |-> Head(snap).ttk, aim |-> o.gen]]

AlreadyMonitored(o) ==
  /\ Visit(o) /\ IsMonitored(o.pid)
  /\ UNCHANGED <<pc, link, process_count, slot, monitor, pipe_to_child, mute, deaf>>

\* The results of write() and pipe() are not looked at.
Reuse(o) ==
  /\ Visit(o) /\ ~IsMonitored(o.pid)
  /\ \E i \in Idle :
       /\ FirstIdle(i)
       /\ pipe_to_child' = IF i \in deaf THEN pipe_to_child
                           ELSE [pipe_to_child EXCEPT ![i] =
                                   Append(@, [pid |-> o.pid, ttk |-> Head(snap).ttk])]
       /\ Watch(i, o)
  /\ LogOrDie
  /\ UNCHANGED <<process_count, monitor, mute, deaf>>

\* pipe() may have failed for the slot: the client goes on with the descriptors the
\* slot happens to hold, as long as fcntl() takes the first of them for a file.
MayLack(lacking, i) == IF RunsOut THEN {lacking, lacking \cup {i}} ELSE {lacking}

Fork(o) ==
  /\ Visit(o) /\ ~IsMonitored(o.pid) /\ Idle = {} /\ process_count < MAX_PROCESSES
  /\ process_count' = process_count + 1
  /\ Watch(process_count', o)
  /\ mute' \in MayLack(mute, process_count') /\ deaf' \in MayLack(deaf, process_count')
  /\ monitor' = [monitor EXCEPT ![process_count'] =
                   [at |-> "sleep", pid |-> o.pid, ttk |-> Head(snap).ttk]]
  /\ LogOrDie
  /\ UNCHANGED pipe_to_child

\* fcntl() or fork() fails: the slot is taken, and the client exits.
ForkFails(o) ==
  /\ RunsOut /\ Visit(o)
  /\ ~IsMonitored(o.pid) /\ Idle = {} /\ process_count < MAX_PROCESSES
  /\ process_count' = process_count + 1
  /\ Watch(process_count', o) /\ pc' = "died"
  /\ UNCHANGED <<link, monitor, pipe_to_child, mute, deaf>>

\* There is no bound check: the next slot is written past the end of the array.
Overrun(o) ==
  /\ Visit(o) /\ ~IsMonitored(o.pid) /\ Idle = {} /\ process_count = MAX_PROCESSES
  /\ pc' = "overrun"
  /\ UNCHANGED <<link, process_count, slot, monitor, pipe_to_child, mute, deaf>>

NextLine ==
  /\ pc = "assign" /\ snap # <<>> /\ Head(snap).seen = {}
  /\ snap' = Tail(snap)
  /\ UNCHANGED <<machine, server, pc, k, orders, elapsed, total_processes,
                 total_processes_killed, process_count, slot, pool>>

EndAssign ==
  /\ pc = "assign" /\ snap = <<>>
  /\ elapsed' = 0 /\ pc' = NextRound /\ k' = 1
  /\ UNCHANGED <<machine, server, orders, scan, total_processes_killed, process_count,
                 slot, pool>>

(***************************************************************************)
(* On EGGZIT it kills each monitor and reads its pipe one last time.       *)
(* kill() returns before the monitor has ended.                            *)
(***************************************************************************)
StopMonitor ==
  /\ pc = "stop" /\ k <= process_count /\ k \notin doomed
  /\ doomed' = doomed \cup {k}
  /\ UNCHANGED <<machine, server, parent, monitor, pipes, mute, deaf, shots>>

LastRead ==
  /\ pc = "stop" /\ k \in doomed /\ k' = k + 1
  /\ ReadReport(k) \/ NoReport(k)
  /\ UNCHANGED <<machine, inbox, orders, elapsed, scan, process_count, slot, monitor,
                 pipe_to_child, marks, shots>>

\* Mutant of Finish: the loop over the monitors ends one too early.
FinishEarly ==
  /\ pc = "stop" /\ k >= process_count /\ pc' = "done"
  /\ UNCHANGED <<machine, server, k, orders, elapsed, scan, total_processes_killed,
                 process_count, slot, pool>>

Finish ==
  /\ pc = "stop" /\ k > process_count /\ pc' = "done"
  /\ UNCHANGED <<machine, server, k, orders, elapsed, scan, total_processes_killed,
                 process_count, slot, pool>>

-----------------------------------------------------------------------------
(***************************************************************************)
(* A monitor: sleep, probe with signal 0, send SIGKILL, report, wait.      *)
(* Once it was sent SIGKILL itself it ends, at the latest on its way out   *)
(* of the call it is about to make.                                        *)
(***************************************************************************)
After(i, to) == IF i \in doomed THEN "killed" ELSE to

Becomes(i, from, to) ==
  /\ monitor[i].at = from /\ monitor' = [monitor EXCEPT ![i].at = After(i, to)]

Dies(i) ==
  /\ i \in doomed /\ monitor[i].at \notin {"none", "exited", "killed"}
  /\ monitor' = [monitor EXCEPT ![i].at = "killed"]
  /\ UNCHANGED <<machine, server, parent, pipes, marks, shots>>

Wake(i) ==
  /\ Becomes(i, "sleep", "probe")
  /\ UNCHANGED <<machine, server, parent, pipes, marks, shots>>

\* Mutant of Probe: a refusal is taken for a kill, since it is not ESRCH.
ProbeMistakes(i) ==
  LET p == monitor[i].pid
  IN  /\ monitor[i].at = "probe"
      /\ \/ proc[p] # NoName /\ p \notin Protected /\ Becomes(i, "probe", "shoot")
         \/ proc[p] # NoName /\ p \in Protected /\ Becomes(i, "probe", "tell1")
         \/ proc[p] = NoName /\ Becomes(i, "probe", "tell0")
      /\ UNCHANGED <<machine, server, parent, pipes, marks, shots>>

\* kill(pid, 0): the target is there, is gone (ESRCH), or is refused (EPERM).
Probe(i) ==
  LET p == monitor[i].pid
  IN  /\ monitor[i].at = "probe"
      /\ \/ proc[p] # NoName /\ p \notin Protected /\ Becomes(i, "probe", "shoot")
         \/ proc[p] # NoName /\ p \in Protected /\ Becomes(i, "probe", "exited")
         \/ proc[p] = NoName /\ Becomes(i, "probe", "tell0")
      /\ UNCHANGED <<machine, server, parent, pipes, marks, shots>>

\* Mutant of Shoot: kill_process returns 0 where it killed.
ShootSilently(i) ==
  /\ monitor[i].at = "shoot" /\ Becomes(i, "shoot", "tell0")
  /\ proc' = [proc EXCEPT ![monitor[i].pid] = NoName]
  /\ shots' = shots + 1
  /\ UNCHANGED <<gen, server, parent, pipes, marks>>

\* The result of kill(pid, SIGKILL) is not looked at: the report is 1 anyway.
Shoot(i) ==
  /\ monitor[i].at = "shoot" /\ Becomes(i, "shoot", "tell1")
  /\ proc' = [proc EXCEPT ![monitor[i].pid] = NoName]
  /\ shots' = shots + 1
  /\ UNCHANGED <<gen, server, parent, pipes, marks>>

\* Mutant of Tell: a target that was already gone is not reported.
TellKillsOnly(i) ==
  /\ \/ /\ Becomes(i, "tell1", "wait")
        /\ pipe_to_parent' = [pipe_to_parent EXCEPT ![i] = Append(@, 1)]
     \/ Becomes(i, "tell0", "wait") /\ UNCHANGED pipe_to_parent
  /\ UNCHANGED <<machine, server, parent, pipe_to_child, marks, shots>>

Tell(i) ==
  /\ \E r \in {0, 1} :
       /\ Becomes(i, IF r = 1 THEN "tell1" ELSE "tell0", "wait")
       /\ pipe_to_parent' = IF i \in mute THEN pipe_to_parent
                            ELSE [pipe_to_parent EXCEPT ![i] = Append(@, r)]
  /\ UNCHANGED <<machine, server, parent, pipe_to_child, marks, shots>>

\* One read takes all that is there; strtok() looks at the first pair only.
TakeAssignment(i) ==
  /\ monitor[i].at = "wait" /\ pipe_to_child[i] # <<>>
  /\ monitor' = [monitor EXCEPT ![i] =
                   [at |-> After(i, "sleep"), pid |-> Head(pipe_to_child[i]).pid,
                    ttk |-> Head(pipe_to_child[i]).ttk]]
  /\ pipe_to_child' = [pipe_to_child EXCEPT ![i] = <<>>]
  /\ UNCHANGED <<machine, server, parent, pipe_to_parent, marks, shots>>

-----------------------------------------------------------------------------
Machine == \E p \in Pids : ProcStart(p) \/ ProcExit(p)
Server  == ServerSend \/ ServerQuit \/ ServerCrash \/ ResetArrives
Assign  == \E o \in Seen : AlreadyMonitored(o) \/ Reuse(o) \/ Fork(o)
                         \/ ForkFails(o) \/ Overrun(o)
Parent  == \/ Poll \/ Drain \/ SkipScan \/ BeginScan \/ ScanLine \/ ScanOverrun
           \/ PopenFails \/ EndScan \/ Assign \/ NextLine \/ EndAssign \/ StopMonitor
           \/ LastRead \/ Finish
Child(i) == Wake(i) \/ Probe(i) \/ Shoot(i) \/ Tell(i) \/ TakeAssignment(i) \/ Dies(i)

Next == Machine \/ Server \/ Parent \/ \E i \in Slots : Child(i)

Spec == Init /\ [][Next]_vars

\* The kernel schedules the parent and every monitor, and every sleep ends.
FairSpec == Spec /\ WF_vars(Parent) /\ \A i \in Slots : WF_vars(Child(i))

-----------------------------------------------------------------------------
(***************************************************************************)
(* What makes the pool correct.                                            *)
(***************************************************************************)
Working == {"sleep", "probe", "shoot", "tell1", "tell0"}
Leaving == {"stop", "done", "died"}

Unused(i)   == /\ i > process_count /\ slot[i] = IdleSlot /\ monitor[i].at = "none"
               /\ pipe_to_child[i] = <<>> /\ pipe_to_parent[i] = <<>>
               /\ i \notin mute \cup deaf \cup doomed
Free(i)     == /\ i <= process_count /\ slot[i] = IdleSlot /\ monitor[i].at = "wait"
               /\ pipe_to_child[i] = <<>> /\ pipe_to_parent[i] = <<>> /\ i \notin mute
Busy(i)     == i <= process_count /\ slot[i].busy /\ slot[i].pid \in Pids
OnTarget(i) == Busy(i) /\ monitor[i].pid = slot[i].pid /\ monitor[i].ttk = slot[i].ttk
Assigned(i) == /\ Busy(i) /\ monitor[i].at = "wait"
               /\ pipe_to_child[i] = <<[pid |-> slot[i].pid, ttk |-> slot[i].ttk]>>
               /\ pipe_to_parent[i] = <<>> /\ i \notin mute \cup deaf
AtWork(i)   == /\ OnTarget(i) /\ monitor[i].at \in Working
               /\ pipe_to_child[i] = <<>> /\ pipe_to_parent[i] = <<>>
Reported(i) == /\ OnTarget(i) /\ monitor[i].at = "wait"
               /\ pipe_to_child[i] = <<>> /\ pipe_to_parent[i] \in {<<0>>, <<1>>}
               /\ i \notin mute
GaveUp(i)   == /\ OnTarget(i) /\ monitor[i].at = "exited"
               /\ pipe_to_child[i] = <<>> /\ pipe_to_parent[i] = <<>>
\* It ended in its last call, with its report or its next assignment in the pipe.
Killed(i)   == /\ i <= process_count /\ i \in doomed
               /\ monitor[i].at = "killed" /\ pipe_to_parent[i] \in {<<>>, <<0>>, <<1>>}
               /\ pipe_to_parent[i] = <<>> \/ (Busy(i) /\ i \notin mute)
               /\ i \in mute => Busy(i)
\* The parent took its last report, or died on the log line of it.
Unreset(i)  == /\ OnTarget(i) /\ pc \in Leaving /\ monitor[i].at = "wait"
               /\ pipe_to_child[i] = <<>> /\ pipe_to_parent[i] = <<>>
\* The parent died between taking the slot and forking its monitor.
Unborn(i)   == /\ Busy(i) /\ pc = "died" /\ monitor[i].at = "none"
               /\ pipe_to_child[i] = <<>> /\ pipe_to_parent[i] = <<>>
\* Without pipe_to_parent no report reaches the parent, and the slot stays taken;
\* without pipe_to_child no second assignment reaches the monitor.
Unheard(i)  == /\ OnTarget(i) /\ monitor[i].at = "wait" /\ i \in mute
               /\ pipe_to_child[i] = <<>> /\ pipe_to_parent[i] = <<>>
Deserted(i) == /\ Busy(i) /\ monitor[i].at = "wait" /\ i \in deaf \ mute
               /\ pipe_to_child[i] = <<>> /\ pipe_to_parent[i] = <<>>

Forms(i) == \/ Unused(i) \/ Free(i) \/ Assigned(i) \/ AtWork(i) \/ Reported(i) \/ GaveUp(i)
            \/ Killed(i) \/ Unreset(i) \/ Unborn(i) \/ Unheard(i) \/ Deserted(i)

Consistent(i) == Forms(i) /\ (i \in doomed => i <= process_count /\ pc \in Leaving)

\* The parent's record of a slot, the two pipes and the monitor's own memory
\* always agree: at most one message is in the pipes of a slot (so reading 512
\* bytes and parsing the first message loses nothing), an idle slot's monitor
\* waits with empty pipes (so a new assignment cannot overtake an old one), and
\* a report is about the process the parent will name in its log line.  Where
\* pipe() failed a slot is lost to the pool, and nothing else goes wrong.
SlotProtocol == \A i \in Slots : Consistent(i)

\* No two monitors are set on the same process, although the snapshot the parent
\* assigns from is older than the reports it has taken (is_monitored).
UniqueMonitor ==
  \A i, j \in Slots : slot[i].busy /\ slot[j].busy /\ slot[i].pid = slot[j].pid => i = j

\* A SIGKILL that was sent and is not yet counted: its report is due or in the pipe.
Uncounted == {i \in Slots : monitor[i].at = "tell1" \/ pipe_to_parent[i] = <<1>>}

\* Monitors that had no pipe to report in.
Silenced == {i \in mute : monitor[i].at = "wait"}

\* total_processes_killed counts no kill twice and, while the client runs, loses none
\* but the one of a monitor that was forked without its report pipe: what it lacks
\* beyond that is what the monitors still have to report.
Accounting ==
  /\ total_processes_killed + Cardinality(Uncounted) <= shots
  /\ pc \notin Leaving =>
       shots <= total_processes_killed + Cardinality(Uncounted) + Cardinality(Silenced)

\* As long as there are as many slots as process ids, reuse keeps the parent
\* inside its array, which it extends without a bound check; and a scan stays in
\* its own when it can hold every process once for each line of a configuration.
RoomForAll == /\ Cardinality(Pids) <= MAX_PROCESSES
              /\ \A c \in Configs : Cardinality(Pids) * Len(c) <= MAX_SNAPSHOT
NeverOverrun == RoomForAll => pc # "overrun"

\* A configuration received between two scans is not forgotten: when no re-read
\* is pending the one in force is the last one received.
LastConfigWins == ~reread_config => config = new_config

\* After the client has shut down nothing of it is left to act: a monitor that was
\* inside a call when SIGKILL came may finish that one, and ends with it.
QuietAfterExit ==
  [][pc = "done" =>
       /\ \A i \in Slots : monitor'[i] # monitor[i]
            => monitor[i].at # "killed" /\ monitor'[i].at = "killed"
       /\ monitor' = monitor => UNCHANGED <<pipe_to_parent, shots>>]_vars

Watched == {slot[i].pid : i \in {j \in Slots : slot[j].busy}}
Struck  == {slot[i].pid : i \in Uncounted}
UnheardOf == {slot[i].pid : i \in mute}
\* Busy slots whose monitor has ended, or has reported to nobody.
Over    == {i \in Slots : slot[i].busy
              /\ (monitor[i].at \in {"exited", "killed"} \/ i \in Silenced)}
OverFor == {slot[i].pid : i \in Over}

\* The pool of monitors, seen from outside, keeps the contract of WatchContract:
\* one watch per process, one kill per watch, one count per kill.
Contract == INSTANCE WatchContract WITH
              watched <- Watched, struck <- Struck, strikes <- shots,
              counted <- total_processes_killed, leaving <- pc \in Leaving,
              unheard <- UnheardOf, over <- OverFor
KeepsContract == Contract!Spec

\* The connection or the client itself has broken down.
Broken == link # "open" \/ pc = "died"

\* A process whose program every configuration names is killed or gone in the end,
\* whatever is reloaded meanwhile, unless the server or the client goes away.
Wanted(p) == proc[p] # NoName /\ p \notin Protected
             /\ \A c \in Configs : \E l \in 1 .. Len(c) : c[l].name = proc[p]
Handled ==
  \A p \in Pids, g \in 1 .. MaxGen :
    (gen[p] = g /\ Wanted(p)) ~> (gen[p] # g \/ proc[p] = NoName \/ Broken)

\* A busy monitor comes back to the pool, unless the client is going away.
Returns == \A i \in Slots : slot[i].busy ~> (~slot[i].busy \/ Broken)

\* The EGGZIT message ends the client and, unless that dies on the way, its monitors.
Ended == {"none", "exited", "killed"}
ShutdownEnds ==
  kill_program ~> \/ pc \in {"died", "overrun"}
                  \/ pc = "done" /\ \A i \in Slots : monitor[i].at \in Ended

-----------------------------------------------------------------------------
(***************************************************************************)
(* What the repository says of the program and the code does not do.       *)
(***************************************************************************)
\* README: "Upon being awakened they check to see if the process they are set to
\* monitor still exists."  The live process a monitor is about to kill is the one
\* the scan had seen under this pid.
RightTarget ==
  \A i \in Slots : monitor[i].at = "shoot" /\ proc[monitor[i].pid] # NoName
                     => gen[monitor[i].pid] = slot[i].aim

\* README: "The program handles SIGINT by killing all child processes": a client
\* that has read EGGZIT and is no longer running has left no monitor behind.
NoOrphans ==
  kill_program /\ pc \in {"done", "died"} =>
    \A i \in Slots : monitor[i].at \in Ended \/ i \in doomed

=============================================================================
