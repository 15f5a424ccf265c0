# A formal model of procnanny

procnanny watches programs on several machines and kills those that run longer
than a configuration file allows. A *server* holds the file and sends it to every
connected *client*; each client scans its own machine, forks *monitors* that sleep
and then kill, and writes log lines back to the server. SIGHUP makes the server
re-read the file, SIGINT ends everything. The program is two C programs of one
thread each (`src/procnanny.server`, `src/procnanny.client`), the processes the
client forks, and the sockets, pipes, files and signals between them.

This directory holds TLA+ modules translated from that code, TLC configurations
that check them on small instances, and TLAPS proofs of what holds for every
instance.

- [Inventory](#inventory)
- [Modules](#modules)
- [Runs](#runs)
- [Fairness](#fairness)
- [Proofs](#proofs)
- [Where the code and its comments disagree](#where-the-code-and-its-comments-disagree)
- [What is not modelled](#what-is-not-modelled)
- [Plan](#plan)

## Inventory

| Component | State it keeps | Operations | Correct when |
|---|---|---|---|
| **client parent** (`procnanny.client/main.c`, `process_manager.c`, `logger.c`) | `config`, `new_config`, the flags `reread_config`, `kill_program`, `first_time_through`, `time_last_checked`, `process_group` (one record per monitor: pipes, `busy`, `process_id`, `time_to_kill`), `total_processes_killed` | poll the socket, drain the pipes, scan, reuse or fork a monitor, shut down | the record of a monitor agrees with the monitor; no process has two monitors; kills are counted once; a new configuration is not forgotten; the arrays are not overrun; nothing goes on after an orderly exit |
| **monitor** (the forked child, `main.c:296-334`, `kill_process`) | its target and time | sleep, probe, kill, report, wait for the next target | it acts on what the parent last gave it and reports exactly once |
| **process scan** (`process_manager.c:103-210`) | `current_process_group`, descriptors of `popen` | `pidof` for each line of the configuration | every process that matches is in the snapshot |
| **server main loop** (`procnanny.server/main.c`) | `config`, `client_socket_group`, `kill_count`, `nodes` | accept, reload and broadcast, goodbye, read and log lines, summary | all clients have the configuration in force; each kill is counted once; the goodbye reaches everyone |
| **signal handlers** (`procnanny.server/main.c:42-58`) | `reread_config`, `kill_program`, a global `new_config` that nothing reads | SIGHUP, SIGINT | no signal is lost, wherever in the loop it comes |
| **server and clients together** | the connections, both programs' states | connect, broadcast, report, end, reset | the two sides agree on the configuration; a reload reaches everyone; SIGINT ends everyone |
| **message framing** | 10000-byte messages in a byte stream | `write`, `read`, up to 10000 bytes at a time | a cut message is not taken for another |
| **configuration readers** | the configuration file; `nanny.config` in the working directory of the clients | read, write, parse | what is parsed is what was sent |
| **start and take-over of a client** | a snapshot of running instances | connect, parse, `pidof`, kill all but itself | one instance is left, and its monitors are |
| **start of the server** | two log files, a snapshot, the port | clear and write the files, `pidof`, kill, `bind` | one server comes out of it; the files are about that one |
| **node names and summary** | `nodes[512]` | `get_node_name`, the list in the last log line | each node is named once, in full |
| **logs, user interaction** | files | write lines; the prompt for a running instance always answers yes | who wrote to a log that was cleared when |
| **dead code** | | `aggregate_log_files`, `proc_running`, `process_not_in_old_config`, `get_total_processes_killed`, the server's copies of `get_all_processes`, `is_monitored`, `kill_process` | never called |
| **memwatch, test programs** | | third-party allocation checker; targets to watch by hand | |

How they interact:

- server → client: one TCP connection per client; a 10000-byte message is a
  configuration or the text `EGGZIT`. The client reads it once a second without blocking.
- client → server: `log_message` writes 10000-byte lines on the same connection. If
  the write fails the client leaves through `exit(0)` wherever it is.
- parent ↔ monitor: two pipes per slot of `process_group`; the pid and time go down,
  `1` (killed) or `0` (was gone) comes up. Reads take up to 512 bytes and look at the
  first message only.
- monitor → machine: `kill(pid, 0)` and then `kill(pid, SIGKILL)`, both by number.
- client ↔ client on one machine: the same `nanny.config`, and SIGKILL.
- server ↔ server on one machine: the log files, the port, and SIGKILL.
- user → server: SIGHUP, SIGINT, and edits of the file.

What is hard to get right, and hard to test: the snapshot the parent assigns from is
older than the reports it took; pids are used long after they were seen; a slot is
reused while messages of its last target may be in its pipes; the client may die on any
log line, and a monitor at any point of its work; signals come at any point of the
server's loop; clients connect and end during a broadcast; messages arrive in pieces;
instances started together find each other in their snapshots; descriptors are spent
and never given back. The list with the lines is under `hazards` in `PROJECT.json`.

## Modules

| Module | What it is |
|---|---|
| `MonitorPool` | one client: parent, monitors, pipes, the machine's processes, and the server as the client sees it |
| `WatchContract` | the abstract promise of a client about the processes it watches |
| `Server` | the server: main loop, signal handlers, and the clients as the server sees them |
| `ServerLink` | the server as one client may rely on it |
| `ProcNanny` | `Server` composed with clients that act on what they have read |
| `Framing` | one direction of a connection as a byte stream, and its two readers |
| `PaddedQueue` | the abstract socket the other modules are written against |
| `ClientStart` | clients on one host: shared file, take-over, descriptors |
| `ServerStart` | servers on one host: logs, take-over, port |
| `MCMonitorPool`, `MCServer`, `MCProcNanny`, `MCFraming`, `MCClientStart`, `MCServerStart` | values for TLC |
| `*_proofs` | theorems about `MonitorPool`, `WatchContract`, `Server`, `ServerLink`, `ProcNanny`, `Framing`, `ClientStart`, `ServerStart` |

`MonitorPool` and `ProcNanny` meet in what a client does with a message, `Server` and
`ProcNanny` in the server (a theorem says that `ProcNanny` implements `Server`), `ServerLink`
is the interface between them; `Framing` justifies the sockets of all three; the two modules of
the start end where the main loops begin.

### MonitorPool

| Variable | Code |
|---|---|
| `proc`, `gen` | the processes of the machine: which program runs under a pid, and how many have so far (a pid is given again after its process ended) |
| `inbox`, `link` | messages in the client's socket; what its next `write` will meet |
| `pc`, `k` | the phase of the loop in `main` and the index of the inner `for` |
| `config`, `new_config`, `reread_config`, `kill_program`, `first_time_through` | the variables of that name |
| `elapsed` | `time(NULL) - time_last_checked`, counted up to `ScanPeriod + 1` |
| `snap`, `total_processes` | `current_process_group`, what is left of it, in the order of the configuration; the places of its array in use during the scan |
| `process_count`, `slot` | `process_group` |
| `monitor`, `pipe_to_child`, `pipe_to_parent` | the memory of each child and its two pipes |
| `mute`, `deaf` | slots whose `pipe_to_parent`, whose `pipe_to_child` was never made |
| `doomed` | slots whose monitor was sent SIGKILL by the parent |
| `aim` in `slot`, `shots` | history, read by properties only |

A step is one system call that another process can observe, with the bookkeeping up to
the next one. `Poll` is one round's `sleep` and read of the socket; `Drain` one read of a
report pipe and the log line and reset that follow; `ScanLine` one `pidof`; `Reuse` and
`Fork` one assignment; `StopMonitor` and `LastRead` one round of the shutdown loop, in which the
monitor is sent SIGKILL and its pipe read one last time. The monitor's `kill_process` is two steps,
`Probe` and `Shoot`: the process may end, and its pid be reused, between them.

`kill()` returns before its target has ended. A `doomed` monitor may end at any time (`Dies`), or first
finish the call it is in, a kill or a report included, and end with it (`After`): after the last
read of its pipe, or after the parent's exit. A target that a monitor kills is gone at once, which is what
the parent and the monitors see of it: nothing of the client waits for a target to end.

Neither array has a bound check. `Overrun` is the process for which there is no slot,
`ScanOverrun` a snapshot larger than `MAX_SNAPSHOT`; the model stops at both, since nothing can
be said after them.

Where descriptors or processes run out (`RunsOut`) the parent exits if `popen`, `fcntl` or `fork` fails
(`PopenFails`, `ForkFails`: in the second case with the slot taken and no monitor in it). The results of
both `pipe()` calls are ignored. The fields then keep what they held, which is indeterminate
(`process_manager.c:28-32` sets only the count); if `fcntl` fails on it the client exits, if it happens to
be a valid descriptor the monitor is forked all the same (`MayLack` in `Fork`). Without `pipe_to_parent`
(`mute`) its report goes nowhere: a kill is never counted, and the slot stays busy with a monitor that waits
for ever. Without `pipe_to_child` (`deaf`) it does its first job, and the slot is reused for a process that
nobody will kill. In both cases the client runs on. An indeterminate descriptor is taken for one that is no
pipe of another slot and on which there is nothing to read, as 0 is in a structure of zeros.

`LogOrDie` is `log_message`. It can end the client: after a reset (by its `exit(0)` or by
SIGPIPE), and when the socket is full (`SocketFills`). Everything in the handler that
comes after it is then skipped, as in the code: a report that was read and counted leaves
its slot as it was.

The sleeps take any time: `Wake` is always enabled, and `elapsed` may jump in a round, so
that a scan can become due in every round or as late as the clock lets it. A parent that
is blocked forever on a full pipe does not occur: a pipe never holds more than one message,
which is `SlotProtocol`.

A message is a configuration or `EGGZIT`. A read that returns part of a 10000-byte message
(`ShortRead`) is thrown away and leaves `REST`, the padding behind the text, in the
stream. What is read next begins with padding. If it is a short read the rest of the message
is gone (and perhaps the head of the next one); if it is a full buffer it holds the next message
behind a NUL, which `read_config` takes for an empty file and exits (`ShiftedMessage`). `Init`
allows `REST` in the inbox, because the blocking first read of the configuration may be short,
too. That this is all a cut message can do is what `Framing` shows of `PaddedQueue`.

Bounds: `MaxGen` processes per pid, one after another; `MaxInbox` unread messages (`ServerQuit`
may add one); everything else follows from the sets. `elapsed` is capped where the
comparison no longer changes.

### WatchContract

A process is put under watch (`watched`), killed at most once while it is (`struck`, until the kill is
counted), and each kill is counted once, when the watch is lifted (`counted`; `strikes` counts the kills).
There are two exceptions, and the contract names them. A watch may be `unheard` from its beginning: its
kill is never counted and the watch never lifted. And a watch may be `over`: nobody will act for it again,
because whoever was to do so gave up; of what it had still to report a count may be lost only if it was `unheard`
or the client is `leaving`.

The refinement mapping takes `watched` from the busy slots, `unheard` from those that are `mute`, `struck`
from the monitors that have shot and whose report the parent has not read, `over` from the busy
slots whose monitor has ended or has written its report to nobody.

### Server

| Variable | Code |
|---|---|
| `file`, `unusable` | the configuration file (the number of the edit that wrote it); the edits that `read_config` cannot open or parse |
| `pc`, `k` | the phase of the loop in `main` and the index of the inner `for` |
| `config`, `reread_config`, `kill_program`, `kill_count`, `client_socket_group` | the variables of that name |
| `raw` | the text `read_config` has read and not yet checked |
| `node_name_attained` | the indexes for which `nodes[i].node_name_attained` is 1 |
| `backlog`, `peer` | connections the kernel has completed; the other end of each |
| `sent`, `lines`, `tears` | what was written to each client; what it wrote and the server has not read; reads that were short |
| `hups`, `asked`, `written`, `kills`, `lost` | counts of the environment's steps, and history |

Signals are actions that may come between any two steps of `main`, the summary included.
The handler of SIGHUP calls `read_config`, which ends the server if the file is missing or
empty, and stores the result in the *global* `new_config`; `main` has a local of the same
name, so only the flag reaches it. `read_config` opens the file twice, for the text that
is sent (`ReadRaw`) and for the lines that are checked (`Parse`), and an edit may come in between.
The test whether the configuration has changed compares two array addresses and is always true: the
model has no such condition. A `write` to a client that is gone is answered by a reset; after
the reset it fails or raises SIGPIPE, which ends the server. Both are in `Write`, because a
reset may be reported to an earlier call and then only the next raises the signal. To a client that is there
`Write` always writes the whole message: `main.c:171`, `189` and `201` do not look at how much a non-blocking
`write` took, and what a short one does to the reader is in `Framing`.

A client that ends with messages of the server unread resets the connection itself (`ClientEnds` with
`"reset"`), and the lines of it that were not delivered or not read go with it (`Discard`), from the last one
backwards; the server may still read the earlier ones before the reset reaches it. `lost` counts the kill reports among them.

`close` in `Exit` throws away what the client wrote (`lines` becomes empty), and the reads
that follow it, `main.c:205-229`, are of closed descriptors and return nothing: `EndExit`
stands for the whole loop. `Overrun` is the connection beyond the last place of
`client_socket_group`; the model stops there.

A line is `info` or `killed`; a short read (`Tear`) leaves `rest`, its padding. Text
behind padding is not seen, by `strstr` nor by `fprintf`; `ReadPadding` may thus swallow a
line. That is why `CountsOnce` says "never twice" in general, and only where no read was short
that each report is counted, unread or `lost`. A report is any text with "killed" in it (`strstr`); that the
client's line about a *program* of that name is taken for one, too, is left out: no program is named so in the model.

Bounds: `MaxEdits`, `MaxHups`, `MaxLines` (of all clients), `MaxTears`.

### ServerLink

What one client sees: a first configuration, then configurations none of which is older than
the one before, then at most one `EGGZIT` and nothing after it. `Keeps` says that `Server`
implements it for each client. `MonitorPool`'s environment actions `ServerSend`,
`ServerQuit` and `ServerCrash` are the same server seen from the other side, with one
difference that is on the safe side: they send configurations in any order.

### ProcNanny

`EXTENDS Server` and replaces its free clients by the client's program as far as the connection
goes: `stage` (waiting for the first message, in the loop, stopping, ended, died), `heard` (how many
of the messages in `sent` it has read), `parsed` (its `config`), `total_processes_killed`. The steps
of the server are its own actions (`ServerSide`), those of a client are `Server`'s environment
actions with a reason: `Start` connects, `Receive` takes the next message and parses it, `Killed`
counts and then writes a line, `Stop` is the shutdown.

A server that closes a socket with lines unread (on SIGINT, or by dying) resets the
connection, and what its client has not been delivered may be lost: `Resets` and `cut`. This is
how an `EGGZIT` that was written can fail to arrive. A client that ends, in whatever way (`End`), resets it
from its side if it has messages unread, and may take its last lines with it (`Discard` of `Server`). A client in its loop takes the end of the
connection for nothing to read and goes on, until a log line fails (`Killed`); one that
waits for its first message ends (`Refused`).

Messages are read whole here (`Framing` has the rest), and monitoring is only the lines it
writes (`MonitorPool` has the rest).

### Framing and PaddedQueue

`wire` is the stream, in *units*, as many bytes as never come apart; a message has
`BUFFER_SIZE` of them, the first `TextLength[kind]` text and the rest zeros. `write` puts as much
of a message into the stream as fits; the server does not look at how much that was, the client
looks only whether it was nothing. `read` takes any number of units up to `BUFFER_SIZE`; the string
functions see its text up to the first zero. `ServerReads` logs any text; `ClientReads` needs
a full buffer, except for the first message; `ThrowsAway` is the read it ignores. `cuts`
chooses whether reads and writes may end within a text: with it the readers may meet half a
text, without it they see exactly the tokens of `PaddedQueue`, which is the
refinement `KeepsQueue` (`Tokens` maps a message to its number while its text is on the wire and to
`REST` when only its padding is). `WholeInOrder` says what that means for the texts: however short
the reads, the reader acts upon whole texts, each once at most and in the order they were written,
or upon the empty one.

Half a configuration may or may not crash the client's `read_config` (`strtok` may return NULL):
a choice in `ClientReads`.

### ClientStart

| Variable | Code |
|---|---|
| `stage`, `up` | where each client is between its connection and its loop; those that have reached the loop |
| `text`, `config` | the buffer it was sent; what `read_config` returned |
| `nanny_config` | the file, as lines |
| `alive`, `process_count`, `targets` | processes of the name `procnanny.client`, monitors included; how many monitors each has forked; the rest of its snapshot |
| `fds` | descriptors spent: one for each `popen` (there is no `pclose`), four for each monitor (no end of a pipe is closed) |
| `touched`, `missed` | history |

`read_config` is three steps: the file is truncated when it is opened (`Open`), the buffered
text reaches it at `fclose` (`WriteOut`), then it is read (`Parse`). Another client may come between
any two; what is written goes over the beginning of what is there (`Over`). The take-over is a
snapshot (`pidof`) and then one `Kill` after another, while the old client goes on forking.
`popen` needs two descriptors and keeps one; `pipe` may fail unnoticed, and `fcntl` is
then given an indeterminate descriptor: `Fork` has both outcomes, a monitor without pipes and an exit.

Monitoring is only `Scan` and `Fork` here. Lines have equal length, so that one text overwrites
whole lines of another. A kill takes effect at once; that two clients kill each other in the same
instant is in `ServerStart`, where the code is the same.

### ServerStart

| Variable | Code |
|---|---|
| `stage` | where each server is between its start and its loop |
| `alive`, `dying` | processes of the name; those that were sent SIGKILL and have not ended |
| `group`, `target` | the rest of `procnanny_process_group`; the process that `kill(pid, 0)` has found |
| `main_log`, `info_log` | who has written to each file since it was cleared |
| `served`, `lingers` | servers that have had a client; connections of one that has ended keep the port |
| `before`, `failed` | history |

The order is that of the code: both files are cleared, the line with host, pid and port written,
the snapshot taken, the others killed, and only then the port bound. `kill()` returns before
its target has ended, and a target that is itself inside `kill()` finishes the call: a
`dying` server may still `Strike`. `bind()` is refused while a server that is ending still has the
port and, as `SO_REUSEADDR` is not set, while connections of an ended one linger. `Refused` is
how a take-over can leave no server at all. `Fail` is every other end of a server: SIGINT, an error, or
SIGHUP before the names the handler uses are set (`config_path`, `main_log_file_path`).

## Runs

TLC does not check for deadlock in any run: both programs end, and the client's monitors may all be
waiting after the parent has died.

| Run | Instance | What it shows |
|---|---|---|
| `Pool` | 2 pids, 2 programs, 2 slots, 2 configurations, crashes, torn messages, full sockets, enough descriptors | `SlotProtocol`, `UniqueMonitor`, `Accounting`, `NeverOverrun`, `LastConfigWins`, `QuietAfterExit` |
| `PoolReuse` | 2 pids, each used twice, one refused by `kill`, 1 slot, a snapshot of 3 places, a program listed twice, a scan in every round, `pipe`, `fork` and `popen` that fail | `SlotProtocol`, `Accounting` and the refinement of `WatchContract` when the slot is reused, a monitor has given up, was forked without its pipes or is killed late, or an array is overrun |
| `PoolLive` | 1 pid used twice, 1 slot, 2 configurations | `Handled`, `Returns`, `ShutdownEnds` under fairness |
| `Server` | 3 clients, 2 places, 1 edit, 2 SIGHUPs, 1 line, 1 short read | `NoLostReload`, `InStep`, `Goodbye`, `CountsOnce`, `Fits` and the refinement of `ServerLink` |
| `ProcNanny` | 2 clients, 2 places, 1 edit, 1 SIGHUP, 1 line | `Agreement`; `Welcomes`, `Converges`, `Leaves` under fairness |
| `Framing` | messages of 4 units, at most 5 of them, room for 13 units, either direction | `Intact`, `Apart`, `WholeInOrder`, the refinement of `PaddedQueue`; `Delivered` under fairness |
| `ClientStart` | 2 clients, 1 monitor each, 7 descriptors, texts of one and of two lines | `OneRuns`, `Cleared`, `OwnText` |
| `ServerStart` | 3 servers | `OneServes`, `Named`, `Fresh`; `Succession` under fairness |
| `PidReuse`, `Orphans`, `Torn`, `Total` | small | one disagreement each, see below |

Why the bounds are enough to be interesting.

- *Two pids*: two monitors on one process, and the order `pidof` prints, need two. *Two slots in
  `Pool`*: reuse of the first free slot, and a free slot between busy ones, need two; *one slot in
  `PoolReuse`* makes two pids exceed the slots, so that the parent overruns its array and reuse is
  the normal case. *A snapshot of 3 places* for two pids and a program listed twice overruns when
  both run. *Two configurations* that differ in a time and in a program: a reload
  between two scans, a program that is no longer listed while its monitor still sleeps. *A program
  listed twice*: the same pid is in the snapshot twice, and only `is_monitored` keeps the second
  away. *Two generations of a pid*: the process a monitor kills is not the one the scan saw.
  *ScanPeriod 1*: the comparison with the period has both outcomes; *0 in `PoolReuse`*, which is about slots:
  a round is a second, so a scan is due in every one. *Failing pipes with one slot*: either, both or none fails, at
  the first and only fork; what two such slots do to each other is left to the proofs.
- *Three clients for two places*: a broadcast that has passed one and not the other, one that
  connects during a reload, the overrun. *One edit and two SIGHUPs*: the edit may come before, between
  or after them, and the second may come while the first is served. *One line and one short read*: a
  line that is cut and its padding.
- *Two clients in `ProcNanny`*: one in step while the other waits, ends, or is reset.
- *Messages of 4 units* with texts of 1 and 2: a read may end in the text, at its end, in the padding
  and at the end of the message. *13 units*: three messages and a cut fourth. *5 messages*: padding of
  one hides the next, and another follows.
- *Two clients and one monitor each*: either may be in the other's snapshot, or both, and the one that
  loses may fork before it is killed. *7 descriptors*: a monitor and a few scans, or scans alone, use
  them up, and either of the two pipes may be the one that fails.
- *Three servers*: a cycle of snapshots, and one started while two are fighting.

Symmetry is used in `Pool` and `Server`, which check no liveness and in which pids and clients are
interchangeable (in `PoolReuse` one pid is protected).

Every property of a passing run has a mutant in `PROJECT.json`: the operator named there
(`Mutant of ...` in the modules) changes the model as a slip in the code would, and TLC then
finds the property violated.

## Fairness

Each formula is about processes the kernel schedules and calls that return; nothing is ever assumed of
users, of the programs that are watched, or of what fails.

- `MonitorPool!FairSpec`: weak fairness of the parent and of each monitor. Every `sleep` ends, and the
  parent never waits for anyone (its socket and pipes are `O_NONBLOCK`). `Handled` and `Returns` allow
  for the connection to break, because any log line then ends the client; and `Handled` is about processes
  whose program every configuration names, since a reload may drop it at any time. `PoolLive` leaves out
  a full socket (the client has ended then), and descriptors that run out: the client may have ended, or goes
  on with a monitor that has no pipes, and `Returns` and `Handled` are false of the process it was to watch.
- `ProcNanny!Nanny`: weak fairness of the server's `main` and of each client's round. The server's
  sockets are non-blocking, and so are a client's after its first read, which is enabled only when there
  is something to read. (`Server!FairSpec` is the same for the server alone.) With finitely many clients
  the accept loop ends; in the code it does, too, as a client takes longer to connect than `accept` to
  return.
- `Framing!FairSpec`: weak fairness of `read`: the server reads in every round, the client every second.
- `ServerStart!FairSpec`: weak fairness of each server's start, in which nothing waits, and of the end
  of a process that was sent SIGKILL.

## Proofs

TLAPS proves the following for *all* values of the constants, from the named assumptions
of the modules (finite sets of pids or clients, times and bounds that are naturals,
`EGGZIT`, `REST` and the idle values distinct from the rest). No bound of the runs is used.

| Theorem | Module | Argument |
|---|---|---|
| `TypeCorrect` | `MonitorPool_proofs` | `TypeOK` is inductive; the pieces of `Poll` have a lemma each |
| `SlotProtocolHolds` | `MonitorPool_proofs` | `TypeOK /\ SlotProtocol` is inductive: a slot, its pipes and its monitor are in one of eleven joint states (`Forms`), and each action moves one slot from one to another; only the shutdown has `doomed` slots |
| `UniqueMonitorHolds` | `MonitorPool_proofs` | only `Reuse`, `Fork` and `ForkFails` make a slot busy, and their guard is `~IsMonitored`; by `SlotProtocol` a slot beyond `process_count` is idle, so that the guard sees all busy slots |
| `NeverOverrunHolds` | `MonitorPool_proofs` | pigeonhole: at an overrun all slots are busy with different pids, none of them the new one, so there are more pids than slots; and a scan has gathered at most all pids for each line it has done (`ScanInv`) |
| `AccountingHolds` | `MonitorPool_proofs` | each step moves at most one slot into or out of `Uncounted`, or from it to `Silenced`, and changes the two counts to match (lemma `Effects`); while the client runs a slot leaves `Uncounted` only by being counted or silenced |
| `LastConfigWinsHolds` | `MonitorPool_proofs` | strengthened with the phase: during a scan `config` already is `new_config` or a re-read is pending |
| `QuietAfterExitHolds` | `MonitorPool_proofs` | strengthened to `StopInv`: in phase `stop` the slots below `k` are `doomed`, so at `done` all are, and a doomed monitor's next step is its last |
| `NoneLeftHolds` | `MonitorPool_proofs` | also from `StopInv` and `SlotProtocol`: a client that reaches the end of its `main` has sent SIGKILL to every monitor |
| `NeverEarlierHolds` | `MonitorPool_proofs` | `AimInv`: the process a snapshot names, and a busy slot is set on, has run under its pid, so that what `Shoot` meets is that one or a later one |
| `ContractKept` | `WatchContract_proofs` | step simulation: each action maps to a step of `WatchContract` or a stutter, by what `Effects` says it does to the slots, with `UniqueMonitor` for "the watch of this process" |
| `ServerTypeCorrect` | `Server_proofs` | `TypeOK` is inductive |
| `NoLostReloadHolds` | `Server_proofs` | with `asked <= file`: the flag is reset before the file is read, and the file only gets newer |
| `InStepHolds` | `Server_proofs` | strengthened to `StepInv`: whoever was sent anything and is still there is in `client_socket_group`, so the broadcast will reach it |
| `GoodbyeHolds` | `Server_proofs` | with `StepInv`, `GoodbyeInv`: in phase `exit` the clients below `k` are closed or had answered with a reset, and a closed one has `EGGZIT` last |
| `FitsHolds` | `Server_proofs` | the places and the backlog hold different clients, all of which have connected, so that an overrun counts one more than there are places |
| `CountsOnceHolds` | `Server_proofs` | strengthened to `CountInv`: without a short read there is no padding, and only `SIGINT` leads to phase `exit`. The unread reports are a set of places in sequences; reading one message moves the places of its client by one and loses at most the first (`DropPlaces`, `BlankPlaces`), and a reset loses the last (`CountDiscard`), so that the counts and the set change together |
| `LinkKept` | `ServerLink_proofs` | step simulation from `LinkInv`: `config <= file`, nothing sent on an open socket is newer than `config` or an `EGGZIT`, and a client in the group has its first configuration |
| `NannyRunsServer` | `ProcNanny_proofs` | step simulation: each client action is an environment action of `Server` or a stutter, so that all of the above holds of the composition |
| `NannyTypeCorrect` | `ProcNanny_proofs` | with `HeardInv` |
| `AgreementHolds` | `ProcNanny_proofs` | `HeardInv`: a client in its loop has `parsed` the last message it has heard; `SentGrows`: what was sent stays; and `InStep` through `NannyRunsServer` |
| `NeverBackHolds` | `ProcNanny_proofs` | `OrderInv`: the messages to a client are ordered, with nothing behind an `EGGZIT`, by `LinkStep`; with `HeardInv` the next message a client takes is no older than what it has. An action property of the composition, defined beside its proof |
| `StopsOnSigintHolds` | `ProcNanny_proofs` | `OrderInv` again: an `EGGZIT` is written in phase `exit` only, to which only SIGINT leads (`OnlyExitTells`, `OnlySigintExits`) |
| `FramingTypeCorrect` | `Framing_proofs` | `TypeOK` is inductive; what a write adds and a read leaves has a lemma each (`WriteEffect`, `ChunkEffect`) |
| `StreamHolds` | `Framing_proofs` | `StreamInv`: every unit has one number, `Offset`, and as long as no write was short those on the wire are consecutive up to the last that was written. Two units are the same if their numbers are (`Located`, from `Following`), and behind each text comes a zero (`WholeText`, `Parted`) |
| `IntactHolds`, `ApartHolds` | `Framing_proofs` | parts of `StreamInv`: without a short read the wire begins with a message; a string that began in one text ends before the next |
| `WholeInOrderHolds` | `Framing_proofs` | `OrderInv`: each text that was taken belongs to an earlier message than the one the next read begins in, or to that one of which only padding is left |
| `QueueKept` | `Framing_proofs` | step simulation from `StreamInv`: the queue is the numbers from the first unit's message to the last written; a read ends in the same message, and leaves `REST` and the others, or in the next, and hides it or leaves `REST` for it |
| `TypeCorrect` | `ClientStart_proofs` | `TypeOK` is inductive |
| `OneRunsHolds` | `ClientStart_proofs` | `Order`: of two living clients that have taken their snapshots, one has still to kill the other; who has come to its loop has nobody left to kill |
| `ClearedHolds` | `ClientStart_proofs` | `After`: a living monitor of another client was forked after the snapshot or is still on the list |
| `OwnTextHolds` | `ClientStart_proofs` | `OwnFile`: between opening and reading the file is what this client made it, or it was touched |
| `StartTypeCorrect` | `ServerStart_proofs` | `TypeOK` is inductive; who is dying is there |
| `OneServesHolds` | `ServerStart_proofs` | the same `Order`, with targets that have been probed and not struck, among the servers that have not been struck |
| `NamedHolds` | `ServerStart_proofs` | `Listed`: once a server has written its line, only one that overlaps it can clear it; with `Ended`: who had ended does not come back |
| `FreshHolds` | `ServerStart_proofs` | `Cleared`, from `Ended`: once a server has cleared a file, who had ended before does not write to it |

`SlotProtocol` is the invariant the client's other proofs rest on. It is inductive as it
stands because it names the joint states in full, the odd ones included: `GaveUp` (a monitor
that exited on EPERM), `Killed` (by the shutdown, perhaps with its last report already in the pipe), `Unreset` (the
parent died between reading a report and resetting the slot, or took it at the shutdown), `Unborn` (it died between
taking a slot and forking), `Unheard` (the monitor reported to no pipe) and `Deserted` (it was given a target over no pipe).

`Following` is all the arithmetic `Framing` needs: if the numbers of two units differ by less than
a message they are in the same message or in adjacent ones. Everything else about the stream is
stated with places in sequences, since the prover has no theory of concatenation. `Min` (of the
community modules, a `CHOOSE`) and `SelectInSeq` have a lemma each (`Least`, `StringStarts`).

Every invariant and every action property that a run checks is proved. Only model-checked are the
properties that need fairness, which the prover has not: `Handled`, `Returns`, `ShutdownEnds`,
`Welcomes`, `Converges`, `Leaves`, `Delivered` and `Succession`; and the violations.

## Where the code and its comments disagree

Each of these is a run that must find a violation; the quotations are in `PROJECT.json`
under `findings`.

| Run | The repository says | The code |
|---|---|---|
| `PidReuse` | the monitor checks that *the process it is set to monitor* still exists | it checks that *some* process has the pid |
| `Orphans` | the end of the client kills all child processes | a client that has read `EGGZIT` may end on a log line before it gets there |
| `Torn` | what is not a kill signal is a new configuration | after a short read, the first one or one that was thrown away, it is padding, taken for an empty one, and the client exits |
| `Total` | the sockets are read one last time for killed processes | they were closed a few lines earlier |

What remains true beside them is proved: a client that ends by its shutdown loop has sent SIGKILL to every
monitor (`NoneLeft`), a monitor never kills a process its pid belonged to before the one the scan saw
(`NeverEarlier`), and as long as no read or write ends within a text, what is taken for a message
is a whole one in its order or empty (`WholeInOrder`).

Other behaviour of the code that the models have, and that no comment denies: a client that ended
can end the server by SIGPIPE in the middle of a broadcast (`Write`); a restarted server may find its
port taken by the connections of the one it has killed, and exit (`Refused`); every `popen` of a scan keeps a
descriptor, so that a client that runs long enough ends by `PopenFails`; a monitor forked without its pipes waits for ever; a client whose server was killed monitors on (`Killed`); the
file is read twice, so that what is broadcast need not be what was checked (`ReadRaw`, `Parse`).

## What is not modelled

- *memwatch*: a third-party allocation checker, vendored twice in each program,
  seven times as many lines as procnanny itself. It wraps `malloc` and `free`, which the program never calls,
  and no behaviour of the program depends on it. Of the program's own lines (about 1930 with
  headers, comments and the code that is never called) the modules translate about 1170.
- *Undefined behaviour beyond the models' stops*: after an overrun of an array the models
  stop. `get_process_group_by_name` returns a partly uninitialised struct, of which only
  initialised fields are read; `kill_processes` logs an uninitialised buffer, whose text no property is about.
- *Signal handlers inside stdio*: a handler is one step between two of `main`'s.
- *String algorithms*: `get_node_name`, the letters stripped from names, the comma stripped
  from the list of nodes (also when the list is empty).
- *Splitting of configuration lines*, and the bound of 128 lines: one loop over one file.
- *Pids that are reused during a take-over*: `kill_processes` kills by number like the monitors do;
  `MonitorPool` has reuse, the start modules do not.
- *Two clients that kill each other in the same instant*: a kill is atomic in `ClientStart`.
- *Log files, time stamps, user prompts, dead code, test programs*: no protocol, apart from who
  writes to the server's files (`ServerStart`).

## Plan

What there is was written in this order: the client (`MonitorPool`, `WatchContract`) and its proofs;
the server (`Server`, `ServerLink`) and its proofs; the composition (`ProcNanny`); the stream
(`Framing`, `PaddedQueue`); the starts (`ClientStart`, `ServerStart`) and their proofs; the
proofs of `Framing`, and what is left of `RightTarget` and `NoOrphans`.

What could come next:

1. The total of the server against the kills of the clients' monitors: `WatchContract` for each client
   inside `ProcNanny`.
2. `kill()` in two steps in `ClientStart`, as in `ServerStart`.
3. Node names and the summary line as functions over short sequences.
