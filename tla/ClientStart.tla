----------------------------- MODULE ClientStart -----------------------------
(***************************************************************************)
(* The clients that are started on one host and in one directory: they     *)
(* write and read back the same nanny.config (client config_reader.c), the *)
(* later kills the earlier with all of its monitors (client main.c,        *)
(* process_manager.c), and each spends file descriptors until it has none. *)
(* A client's monitors go by the same program name as the client.          *)
(***************************************************************************)
EXTENDS Integers, Sequences, FiniteSets

CONSTANTS
  Instances,     \* the clients that are ever started
  Texts,         \* configurations, as sequences of lines
  MaxMonitors,   \* how many monitors a client forks
  MaxFds         \* file descriptors a client may have besides its first four

ASSUME TextsAssumption == Texts \subseteq Seq(Nat) \ {<<>>}
ASSUME StartAssumption == MaxMonitors \in Nat /\ MaxFds \in Nat

VARIABLES
  stage,          \* what each client is doing
  up,             \* the clients that have got as far as the main loop
  text,           \* the text each client was last sent
  config,         \* what it read back from the file
  nanny_config,   \* the file: its lines
  alive,          \* the processes of that name
  process_count,  \* how many monitors each client has forked
  targets,        \* those of its snapshot each client has not been through
  fds,            \* file descriptors each client has spent
  touched,        \* history: clients whose file another one wrote in between
  missed          \* history: monitors forked by a client of the snapshot after it

files == <<nanny_config, text, config, touched>>
procs == <<alive, process_count, targets, missed>>
vars  == <<stage, up, files, procs, fds>>

Pids == Instances \X (0 .. MaxMonitors)

\* A client is process 0 of its own, its monitors the others.
Client(i)   == <<i, 0>>
Living(i)   == Client(i) \in alive
Monitors(i) == {p \in Pids : p[1] = i /\ p[2] > 0}

Stages == {"off", "wait", "received", "open", "written", "parsed", "killing", "run", "scanned"}

TypeOK ==
  /\ stage \in [Instances -> Stages] /\ up \subseteq Instances
  /\ nanny_config \in Seq(Nat)
  /\ text \in [Instances -> Seq(Nat)] /\ config \in [Instances -> Seq(Nat)]
  /\ alive \subseteq Pids /\ process_count \in [Instances -> 0 .. MaxMonitors]
  /\ targets \in [Instances -> SUBSET Pids]
  /\ fds \in [Instances -> 0 .. MaxFds]
  /\ touched \subseteq Instances /\ missed \in [Instances -> SUBSET Pids]

Init ==
  /\ stage = [i \in Instances |-> "off"] /\ up = {}
  /\ nanny_config \in Texts \cup {<<>>}
  /\ text = [i \in Instances |-> <<>>] /\ config = [i \in Instances |-> <<>>]
  /\ alive = {} /\ process_count = [i \in Instances |-> 0]
  /\ targets = [i \in Instances |-> {}]
  /\ fds = [i \in Instances |-> 0]
  /\ touched = {} /\ missed = [i \in Instances |-> {}]

Enters(i, s) == stage' = [stage EXCEPT ![i] = s]

\* exit(): the monitors, if there are any, go on without their client.
Exits(i) == alive' = alive \ {Client(i)} /\ UNCHANGED <<stage, process_count, targets, missed, fds>>

\* n calls of popen(), each of which needs a pipe and keeps one end of it.
Opens(i, n) == fds[i] + n < MaxFds /\ fds' = [fds EXCEPT ![i] = @ + n]
Short(i, n) == fds[i] + n >= MaxFds /\ Exits(i)

-----------------------------------------------------------------------------
(***************************************************************************)
(* A client is started, and is sent a configuration then and in the loop.  *)
(***************************************************************************)
Start(i) ==
  /\ stage[i] = "off" /\ Enters(i, "wait") /\ alive' = alive \cup {Client(i)}
  /\ UNCHANGED <<up, files, process_count, targets, missed, fds>>

Receive(i) ==
  /\ Living(i) /\ stage[i] \in {"wait", "run"} /\ Enters(i, "received")
  /\ \E t \in Texts : text' = [text EXCEPT ![i] = t]
  /\ UNCHANGED <<up, nanny_config, config, touched, procs, fds>>

(***************************************************************************)
(* read_config(): the file is truncated, written when it is closed, and    *)
(* read.  What is written goes over what the file has by then.             *)
(***************************************************************************)
Disturbs(i) == {j \in Instances \ {i} : stage[j] \in {"open", "written"}}

\* Mutant of Truncate: the file is opened without truncating it ("r+").
TruncateNot(i) ==
  /\ fds[i] < MaxFds /\ Enters(i, "open") /\ UNCHANGED nanny_config
  /\ touched' = (touched \ {i}) \cup Disturbs(i) /\ UNCHANGED <<procs, fds>>

Truncate(i) ==
  /\ fds[i] < MaxFds /\ Enters(i, "open") /\ nanny_config' = <<>>
  /\ touched' = (touched \ {i}) \cup Disturbs(i) /\ UNCHANGED <<procs, fds>>

Open(i) ==
  /\ Living(i) /\ stage[i] = "received" /\ UNCHANGED <<up, text, config>>
  /\ \/ Truncate(i)
     \/ fds[i] = MaxFds /\ Exits(i) /\ UNCHANGED <<nanny_config, touched>>

Over(new, old) == new \o SubSeq(old, Len(new) + 1, Len(old))

WriteOut(i) ==
  /\ Living(i) /\ stage[i] = "open" /\ Enters(i, "written")
  /\ nanny_config' = Over(text[i], nanny_config)
  /\ touched' = touched \cup Disturbs(i)
  /\ UNCHANGED <<up, text, config, procs, fds>>

\* An empty file ends the client.
Parse(i) ==
  /\ Living(i) /\ stage[i] = "written" /\ UNCHANGED <<up, nanny_config, text, touched>>
  /\ \/ /\ nanny_config # <<>> /\ config' = [config EXCEPT ![i] = nanny_config]
        /\ Enters(i, IF i \in up THEN "run" ELSE "parsed") /\ UNCHANGED <<procs, fds>>
     \/ nanny_config = <<>> /\ Exits(i) /\ UNCHANGED config

-----------------------------------------------------------------------------
(***************************************************************************)
(* The take-over.  pidof lists every process of the name at one moment;    *)
(* then those but the client itself are killed, one after another.         *)
(***************************************************************************)
\* Mutants of Others: a client that is starting is left alone; the monitors are.
OthersUp(i)      == alive \ {Client(j) : j \in {i} \cup (Instances \ up)}
OthersClients(i) == {Client(j) : j \in Instances \ {i}} \cap alive

Others(i) == alive \ {Client(i)}

pidof(i) ==
  /\ Living(i) /\ stage[i] = "parsed" /\ UNCHANGED <<up, files>>
  /\ \/ /\ Opens(i, 1) /\ Enters(i, "killing")
        /\ targets' = [targets EXCEPT ![i] = Others(i)]
        /\ UNCHANGED <<alive, process_count, missed>>
     \/ Short(i, 1)

Kill(i) ==
  /\ Living(i) /\ stage[i] = "killing"
  /\ \E p \in targets[i] :
       targets' = [targets EXCEPT ![i] = @ \ {p}] /\ alive' = alive \ {p}
  /\ UNCHANGED <<stage, up, files, process_count, missed, fds>>

TakenOver(i) ==
  /\ Living(i) /\ stage[i] = "killing" /\ targets[i] = {}
  /\ Enters(i, "run") /\ up' = up \cup {i}
  /\ UNCHANGED <<files, procs, fds>>

-----------------------------------------------------------------------------
(***************************************************************************)
(* The main loop.  Each scan runs popen() once for every line and never    *)
(* pclose(); a new monitor takes two pipes, of which no end is closed.     *)
(***************************************************************************)
\* Mutant of Scan: the result of popen() is not looked at.
ScanOn(i) ==
  /\ Living(i) /\ stage[i] = "run" /\ Enters(i, "scanned") /\ UNCHANGED <<up, files, procs>>
  /\ fds' = [fds EXCEPT ![i] = @ + Len(config[i])]

Scan(i) ==
  /\ Living(i) /\ stage[i] = "run" /\ UNCHANGED <<up, files>>
  /\ \/ Opens(i, Len(config[i])) /\ Enters(i, "scanned") /\ UNCHANGED procs
     \/ Short(i, Len(config[i]))

\* How many of the two pipes there is room for: pipe() may fail unnoticed.
Pipes(i) == CHOOSE n \in 0 .. 2 : \A m \in 0 .. 2 : m <= n <=> fds[i] + 2 * m <= MaxFds

\* Without the first pipe fcntl() is given an indeterminate descriptor.
Fork(i) ==
  /\ Living(i) /\ stage[i] = "scanned" /\ UNCHANGED <<up, files>>
  /\ \/ /\ process_count[i] < MaxMonitors
        /\ LET m == <<i, process_count[i] + 1>>
           IN  /\ process_count' = [process_count EXCEPT ![i] = @ + 1]
               /\ alive' = alive \cup {m}
               /\ missed' = [k \in Instances |->
                     IF Client(i) \in targets[k] THEN missed[k] \cup {m} ELSE missed[k]]
        /\ fds' = [fds EXCEPT ![i] = @ + 2 * Pipes(i)]
        /\ UNCHANGED <<stage, targets>>
     \/ Pipes(i) = 0 /\ Exits(i)

NextRound(i) ==
  /\ Living(i) /\ stage[i] = "scanned" /\ Enters(i, "run")
  /\ UNCHANGED <<up, files, procs, fds>>

\* EGGZIT: the monitors are killed before the client exits.
Eggzit(i) ==
  /\ Living(i) /\ stage[i] \in {"run", "scanned"}
  /\ alive' = alive \ ({Client(i)} \cup Monitors(i))
  /\ UNCHANGED <<stage, up, files, process_count, targets, missed, fds>>

\* A client may be killed, or end on an error, at any time.
Fail(i) == Living(i) /\ Exits(i) /\ UNCHANGED <<up, files>>

Next == \E i \in Instances :
          \/ Start(i) \/ Receive(i) \/ Open(i) \/ WriteOut(i) \/ Parse(i) \/ pidof(i)
          \/ Kill(i) \/ TakenOver(i) \/ Scan(i) \/ Fork(i) \/ NextRound(i)
          \/ Eggzit(i) \/ Fail(i)

Spec == Init /\ [][Next]_vars

-----------------------------------------------------------------------------
(***************************************************************************)
(* What holds of the take-over and the file.                               *)
(***************************************************************************)
\* However many clients are started, and however close to each other, no two of
\* them ever monitor at the same time (client main.c 88-101).
OneRuns == \A i, j \in up : Living(i) /\ Living(j) => i = j

\* When a client monitors, of the monitors of other clients only those live that
\* were forked after its snapshot, by a client in the snapshot (main.c 89-96).
Cleared ==
  \A i \in up : Living(i) =>
    \A p \in alive : p[1] # i /\ p[2] > 0 => p \in missed[i]

\* A client goes by the text it was sent, unless another client wrote the file
\* between its own opening and its reading it (config_reader.c 15-41).
OwnText ==
  \A i \in Instances :
    stage[i] \in {"parsed", "killing", "run", "scanned"} => config[i] = text[i] \/ i \in touched
=============================================================================
