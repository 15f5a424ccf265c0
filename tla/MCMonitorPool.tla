--------------------------- MODULE MCMonitorPool ---------------------------
(***************************************************************************)
(* Small instances of MonitorPool for TLC: two process ids, two programs.  *)
(***************************************************************************)
EXTENDS MonitorPool, TLC

CONSTANTS p1, p2, a, b

\* "a" is in every configuration, with a different timeout; "b" comes and goes.
MCConfigs == { <<[name |-> a, ttk |-> 1]>>,
               <<[name |-> b, ttk |-> 1], [name |-> a, ttk |-> 2]>> }

\* One program, watched for one time or another.
MCTimeouts == { <<[name |-> a, ttk |-> 1]>>, <<[name |-> a, ttk |-> 2]>> }

\* One configuration, which lists its program twice.
MCTwice == { <<[name |-> a, ttk |-> 1], [name |-> a, ttk |-> 2]>> }

PidSymmetry == Permutations(Pids)
=============================================================================
