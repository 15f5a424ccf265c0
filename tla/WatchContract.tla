--------------------------- MODULE WatchContract ---------------------------
(***************************************************************************)
(* What a client promises of the processes it finds, whoever does the      *)
(* watching: a process is put under watch, killed at most once while it is *)
(* watched, and each kill is counted exactly once, when the watch is       *)
(* lifted.  A count may be lost only where a watch cannot be heard of, or  *)
(* by a client that is leaving.                                            *)
(***************************************************************************)
EXTENDS Naturals

CONSTANT Pids

VARIABLES
  watched,  \* processes under watch
  unheard,  \* those of them whose kill will not be heard of
  struck,   \* those that were sent SIGKILL and are not counted yet
  over,     \* those that are watched in name only: nobody will act for them again
  strikes,  \* SIGKILLs sent so far
  counted,  \* kills counted so far
  leaving   \* the client is shutting down or has died

vars == <<watched, unheard, struck, over, strikes, counted, leaving>>

Init == /\ watched = {} /\ unheard = {} /\ struck = {} /\ over = {}
        /\ strikes = 0 /\ counted = 0 /\ leaving = FALSE

\* The log line of a step may be the one on which the client dies.
MayLeave == leaving' \in BOOLEAN /\ (leaving => leaving')

Watch(p) ==
  /\ ~leaving /\ p \notin watched /\ watched' = watched \cup {p}
  /\ unheard' \in {unheard, unheard \cup {p}}
  /\ MayLeave /\ UNCHANGED <<struck, over, strikes, counted>>

Strike(p) ==
  /\ p \in watched \ (struck \cup over)
  /\ struck' = struck \cup {p} /\ strikes' = strikes + 1
  /\ UNCHANGED <<watched, unheard, over, counted, leaving>>

\* The watch is lifted with the count, unless nobody will watch again.
Count(p) ==
  /\ p \in struck \ unheard /\ struck' = struck \ {p} /\ counted' = counted + 1
  /\ MayLeave
  /\ \/ p \notin over /\ watched' = watched \ {p}
     \/ leaving' /\ UNCHANGED watched
  /\ UNCHANGED <<unheard, over, strikes>>

\* The process was gone before it could be killed.
Lift(p) ==
  /\ p \in watched \ (struck \cup over \cup unheard) /\ watched' = watched \ {p}
  /\ UNCHANGED <<unheard, struck, over, strikes, counted, leaving>>

Leave == leaving' = TRUE /\ UNCHANGED <<watched, unheard, struck, over, strikes, counted>>

\* The last of a watch.  The count of its kill is lost when nobody can hear of it;
\* while the client is leaving the kill itself may be the last.
GiveUp(p) ==
  /\ p \in watched \ over /\ over' = over \cup {p}
  /\ \/ UNCHANGED <<struck, strikes>>
     \/ (p \in unheard \/ leaving) /\ struck' = struck \ {p} /\ UNCHANGED strikes
     \/ leaving /\ p \notin struck /\ strikes' = strikes + 1 /\ UNCHANGED struck
  /\ UNCHANGED <<watched, unheard, counted, leaving>>

Next == Leave \/ \E p \in Pids : Watch(p) \/ Strike(p) \/ Count(p) \/ Lift(p) \/ GiveUp(p)

Spec == Init /\ [][Next]_vars
=============================================================================
