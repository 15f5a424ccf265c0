------------------------- MODULE MonitorPool_proofs -------------------------
(***************************************************************************)
(* What MonitorPool guarantees for any number of processes, slots,         *)
(* configurations and process generations, proved with TLAPS.              *)
(***************************************************************************)
EXTENDS MonitorPool, FiniteSetTheorems, SequenceTheorems, TLAPS


Line == [ttk : Timeouts, seen : SUBSET Seen]

-----------------------------------------------------------------------------
(***************************************************************************)
(* Type correctness.                                                       *)
(***************************************************************************)
LEMMA TypeInit == Init => TypeOK
<1> SUFFICES ASSUME Init PROVE TypeOK
  OBVIOUS
<1>1. IdleSlot \in Slot
  BY BoundsAssumption DEF IdleSlot, Slot, BoundsAssumption
<1>2. [at |-> "none", pid |-> NoPid, ttk |-> -1] \in Monitor
  BY DEF Monitor
<1>3. gen \in [Pids -> 0 .. MaxGen]
  BY BoundsAssumption DEF Init, BoundsAssumption
<1>4. slot \in [Slots -> Slot] /\ monitor \in [Slots -> Monitor]
  BY <1>1, <1>2 DEF Init
<1>5. /\ pipe_to_child \in [Slots -> Seq(Assignment)]
      /\ pipe_to_parent \in [Slots -> Seq({0, 1})]
  BY DEF Init
<1>6. snap \in Seq([ttk : Timeouts, seen : SUBSET Seen]) /\ inbox \in Seq(Configs \cup {EGGZIT, REST})
  <2>1. /\ snap = <<>> /\ (inbox = <<>> \/ inbox = <<REST>>)
    BY DEF Init
  <2>2. REST \in Configs \cup {EGGZIT, REST}
    OBVIOUS
  <2>3. <<REST>> \in Seq(Configs \cup {EGGZIT, REST})
    BY <2>2
  <2>4. inbox \in Seq(Configs \cup {EGGZIT, REST})
    <3>1. CASE inbox = <<>>
      BY <3>1
    <3>2. CASE inbox = <<REST>>
      BY <3>2, <2>3, Zenon
    <3> QED BY <2>1, <3>1, <3>2
  <2> QED BY <2>1, <2>4
<1>7. elapsed \in 0 .. ScanPeriod + 1 /\ process_count \in 0 .. MAX_PROCESSES
  BY TimeAssumption, BoundsAssumption DEF Init, TimeAssumption, BoundsAssumption
<1>8. k \in Nat \ {0} /\ total_processes_killed \in Nat /\ shots \in Nat
  BY DEF Init
<1> QED
  BY <1>3, <1>4, <1>5, <1>6, <1>7, <1>8, Zenon DEF Init, TypeOK

\* What a visit leaves of the snapshot, and what it hands to a monitor.
LEMMA SnapStep ==
  ASSUME TypeOK, NEW o \in Seen, Visit(o)
  PROVE  /\ snap' \in Seq(Line)
         /\ o.pid \in Pids /\ o.gen \in 0 .. MaxGen /\ Head(snap).ttk \in Timeouts
<1> DEFINE less == [Head(snap) EXCEPT !.seen = @ \ {o}]
<1>1. snap \in Seq(Line) /\ snap # <<>> /\ snap' = [snap EXCEPT ![1].seen = @ \ {o}]
  BY DEF TypeOK, Visit, Line
<1>2. Head(snap) \in Line /\ Head(snap) = snap[1] /\ 1 \in 1 .. Len(snap)
  BY <1>1
<1>3. less \in Line
  BY <1>2 DEF Line
<1>4. snap' = [snap EXCEPT ![1] = less]
  BY <1>1, <1>2
<1>5. [snap EXCEPT ![1] = less] \in Seq(Line)
  <2> HIDE DEF less
  <2> QED BY <1>1, <1>2, <1>3, ExceptSeq
<1> QED BY <1>2, <1>4, <1>5 DEF Line, Seen

LEMMA BecomesType ==
  ASSUME TypeOK, NEW i \in Slots, NEW from, NEW to, Becomes(i, from, to),
         to \in {"probe", "shoot", "tell1", "tell0", "wait", "exited"}
  PROVE  monitor' \in [Slots -> Monitor] /\ monitor[i].pid \in Pids \cup {NoPid}
<1>1. monitor \in [Slots -> Monitor] /\ monitor' = [monitor EXCEPT ![i].at = After(i, to)]
  BY DEF TypeOK, Becomes
<1>2. monitor[i] \in Monitor /\ monitor[i].pid \in Pids \cup {NoPid}
  BY <1>1 DEF Monitor
<1>3. After(i, to) \in {"probe", "shoot", "tell1", "tell0", "wait", "exited", "killed"}
  BY DEF After
<1> DEFINE m == [monitor[i] EXCEPT !.at = After(i, to)]
<1>4. m \in Monitor
  BY <1>2, <1>3 DEF Monitor
<1>5. monitor' = [monitor EXCEPT ![i] = m]
  BY <1>1
<1> HIDE DEF m
<1> QED BY <1>1, <1>2, <1>4, <1>5

LEMMA LogOrDieType ==
  ASSUME TypeOK, LogOrDie
  PROVE  link' \in {"open", "closed", "rst_due", "reset"} /\ (pc' = pc \/ pc' = "died")
BY DEF TypeOK, LogOrDie

LEMMA ReadReportType ==
  ASSUME TypeOK, NEW i \in Slots, ReadReport(i) \/ NoReport(i)
  PROVE  pipe_to_parent' \in [Slots -> Seq({0, 1})] /\ total_processes_killed' \in Nat
<1>1. pipe_to_parent \in [Slots -> Seq({0, 1})] /\ total_processes_killed \in Nat
  BY DEF TypeOK
<1>2. CASE ReadReport(i)
  <2>1. Head(pipe_to_parent[i]) \in {0, 1}
    BY <1>1, <1>2 DEF ReadReport
  <2> QED BY <1>1, <1>2, <2>1 DEF ReadReport
<1>3. CASE NoReport(i)
  BY <1>1, <1>3 DEF NoReport
<1> QED BY <1>2, <1>3

\* What a read that ends within the second message leaves in the socket.
LEMMA ShiftType ==
  ASSUME NEW M, NEW r \in M, NEW s \in Seq(M), Len(s) > 1
  PROVE  <<r>> \o Tail(Tail(s)) \in Seq(M)
<1>1. Len(s) \in Nat /\ s # <<>>
  BY EmptySeq, LenProperties
<1>2. Tail(s) \in Seq(M) /\ Len(Tail(s)) = Len(s) - 1
  BY <1>1, HeadTailProperties
<1> DEFINE t == Tail(s)
<1>3. t \in Seq(M) /\ Len(t) > 0
  BY <1>1, <1>2
<1> HIDE DEF t
<1>4. t # <<>>
  BY <1>3
<1> DEFINE u == Tail(t)
<1>5. u \in Seq(M)
  BY <1>3, <1>4, HeadTailProperties
<1> HIDE DEF u
<1>6. <<r>> \o u \in Seq(M)
  BY <1>5
<1> QED BY <1>6 DEF t, u

\* pidof prints each process id at most once.
LEMMA PidOfFinite ==
  ASSUME NEW name
  PROVE  /\ IsFiniteSet(PidOf(name)) /\ Cardinality(PidOf(name)) \in Nat
         /\ Cardinality(PidOf(name)) <= Cardinality(Pids)
<1> DEFINE here == {q \in Pids : proc[q] = name}
           f == [p \in here |-> [pid |-> p, gen |-> gen[p]]]
<1>1. IsFiniteSet(here) /\ Cardinality(here) <= Cardinality(Pids)
  BY PidsAssumption, FS_Subset DEF PidsAssumption
<1>2. f \in Surjection(here, PidOf(name))
  BY DEF Surjection, PidOf
<1>3. IsFiniteSet(PidOf(name)) /\ Cardinality(PidOf(name)) <= Cardinality(here)
  <2> HIDE DEF f, here
  <2> QED BY <1>1, <1>2, FS_Surjection
<1>4. /\ Cardinality(PidOf(name)) \in Nat /\ Cardinality(here) \in Nat
      /\ Cardinality(Pids) \in Nat
  BY <1>1, <1>3, PidsAssumption, FS_CardinalityType DEF PidsAssumption
<1> QED BY <1>1, <1>3, <1>4

LEMMA TypeNext == TypeOK /\ [Next]_vars => TypeOK'
<1> SUFFICES ASSUME TypeOK, [Next]_vars PROVE TypeOK'
  OBVIOUS
<1> USE DEF machine, server, orders, scan, parent, pipes, marks, pool
<1>1. ASSUME NEW p \in Pids, ProcStart(p) PROVE TypeOK'
  <2>1. proc' \in [Pids -> Names \cup {NoName}] /\ gen' \in [Pids -> 0 .. MaxGen]
    BY <1>1, BoundsAssumption DEF ProcStart, TypeOK, BoundsAssumption
  <2> QED BY <1>1, <2>1 DEF ProcStart, TypeOK
<1>2. ASSUME NEW p \in Pids, ProcExit(p) PROVE TypeOK'
  BY <1>2 DEF ProcExit, TypeOK
<1>3. CASE Server
  <2> DEFINE M == Configs \cup {EGGZIT, REST}
  <2>1. inbox \in Seq(M)
    BY DEF TypeOK
  <2>2. \A c \in M : Append(inbox, c) \in Seq(M)
    BY <2>1
  <2>3. inbox' \in Seq(M) /\ link' \in {"open", "closed", "rst_due", "reset"}
    BY <1>3, <2>1, <2>2 DEF Server, ServerSend, ServerQuit, ServerCrash, ResetArrives, TypeOK
  <2> QED
    BY <1>3, <2>3 DEF Server, ServerSend, ServerQuit, ServerCrash, ResetArrives, TypeOK
<1>4. CASE Poll
  <2> DEFINE M == Configs \cup {EGGZIT, REST}
  <2>1. inbox \in Seq(M)
    BY DEF TypeOK
  <2>2. inbox # <<>> => Head(inbox) \in M /\ Tail(inbox) \in Seq(M)
    BY <2>1
  <2>3. inbox # <<>> => <<REST>> \o Tail(inbox) \in Seq(M)
    BY <2>2
  <2>4. inbox # <<>> /\ Len(inbox) > 1 => Shifted \in Seq(M)
    BY <2>1, ShiftType DEF Shifted
  <2>5. inbox' \in Seq(M)
    BY <1>4, <2>1, <2>2, <2>3, <2>4
    DEF Poll, NothingThere, ShortRead, WholeMessage, ShiftedMessage
  <2>6. elapsed' \in 0 .. ScanPeriod + 1
    BY <1>4, TimeAssumption DEF Poll, TimeAssumption
  <2>7. /\ config' \in Configs /\ new_config' \in Configs
        /\ reread_config' \in BOOLEAN /\ kill_program' \in BOOLEAN
        /\ first_time_through' \in BOOLEAN
        /\ pc' \in {"drain", "died"}
    BY <1>4, <2>2 DEF Poll, NothingThere, ShortRead, WholeMessage, ShiftedMessage, TypeOK
  <2> QED BY <1>4, <2>5, <2>6, <2>7 DEF Poll, TypeOK
<1>5. CASE Drain
  <2>1. k \in Slots /\ k' \in Nat \ {0} /\ IdleSlot \in Slot
    BY <1>5, BoundsAssumption DEF Drain, TypeOK, Slots, IdleSlot, Slot, BoundsAssumption
  <2>2. slot' \in [Slots -> Slot]
    BY <1>5, <2>1 DEF Drain, TypeOK
  <2>3. pipe_to_parent' \in [Slots -> Seq({0, 1})] /\ total_processes_killed' \in Nat
    BY <1>5, <2>1, ReadReportType DEF Drain
  <2>4. link' \in {"open", "closed", "rst_due", "reset"} /\ (pc' = pc \/ pc' = "died")
    BY <1>5, LogOrDieType DEF Drain, ReadReport, NoReport, TypeOK
  <2> QED BY <1>5, <2>1, <2>2, <2>3, <2>4 DEF Drain, TypeOK
<1>6. CASE SkipScan
  BY <1>6 DEF SkipScan, NextRound, TypeOK
<1>7. CASE BeginScan
  BY <1>7 DEF BeginScan, TypeOK
<1>8. CASE ScanLine
  <2>1. config \in Seq(Entry) /\ k \in 1 .. Len(config)
    BY <1>8, ConfigsAssumption DEF ScanLine, ScansLine, TypeOK, ConfigsAssumption
  <2>2. config[k] \in Entry
    BY <2>1
  <2>3. config[k].ttk \in Timeouts
    BY <2>2 DEF Entry
  <2>4. PidOf(config[k].name) \in SUBSET Seen
    BY DEF PidOf, Seen, TypeOK
  <2>5. snap \in Seq(Line) /\ [ttk |-> config[k].ttk, seen |-> PidOf(config[k].name)] \in Line
    BY <2>3, <2>4 DEF TypeOK, Line
  <2>6. snap' \in Seq(Line)
    BY <1>8, <2>5, AppendProperties DEF ScanLine
  <2>7. link' \in {"open", "closed", "rst_due", "reset"} /\ (pc' = pc \/ pc' = "died")
    BY <1>8, LogOrDieType DEF ScanLine, TypeOK
  <2>8. total_processes' \in Nat
    <3>1. total_processes \in Nat /\ Cardinality(PidOf(config[k].name)) \in Nat
      BY PidOfFinite DEF TypeOK
    <3> QED BY <1>8, <3>1 DEF ScanLine
  <2> QED BY <1>8, <2>1, <2>6, <2>7, <2>8 DEF ScanLine, ScansLine, TypeOK, Line
<1>9. CASE EndScan
  BY <1>9 DEF EndScan, TypeOK
<1>s. CASE ScanOverrun \/ PopenFails
  <2>1. UNCHANGED <<machine, server, k, orders, elapsed, scan, total_processes_killed,
                    process_count, slot, pool>> /\ pc' \in {"died", "overrun"}
    BY <1>s DEF ScanOverrun, PopenFails
  <2> QED BY <2>1 DEF TypeOK
<1>10. ASSUME NEW o \in Seen, AlreadyMonitored(o) PROVE TypeOK'
  BY <1>10, SnapStep DEF AlreadyMonitored, Visit, Line, TypeOK
<1>11. ASSUME NEW o \in Seen, Reuse(o) PROVE TypeOK'
  <2>1. Visit(o) /\ LogOrDie
    BY <1>11 DEF Reuse
  <2>2. PICK i \in Idle :
          /\ pipe_to_child' = IF i \in deaf THEN pipe_to_child
                              ELSE [pipe_to_child EXCEPT ![i] =
                                      Append(@, [pid |-> o.pid, ttk |-> Head(snap).ttk])]
          /\ Watch(i, o)
    BY <1>11 DEF Reuse
  <2>3. i \in Slots
    BY BoundsAssumption DEF Idle, Slots, TypeOK, BoundsAssumption
  <2>4. [pid |-> o.pid, ttk |-> Head(snap).ttk] \in Assignment
    BY <2>1, SnapStep DEF Assignment
  <2>5. pipe_to_child' \in [Slots -> Seq(Assignment)]
    <3>1. Append(pipe_to_child[i], [pid |-> o.pid, ttk |-> Head(snap).ttk]) \in Seq(Assignment)
      BY <2>3, <2>4, AppendProperties DEF TypeOK
    <3> QED BY <2>2, <3>1 DEF TypeOK
  <2>6. slot' \in [Slots -> Slot]
    BY <2>1, <2>2, <2>3, SnapStep DEF Watch, TypeOK, Slot
  <2> QED
    BY <1>11, <2>1, <2>5, <2>6, SnapStep, LogOrDieType DEF Reuse, Visit, TypeOK, Line
<1>12. ASSUME NEW o \in Seen, Fork(o) \/ ForkFails(o) PROVE TypeOK'
  <2>1. Visit(o) /\ Watch(process_count', o)
    BY <1>12 DEF Fork, ForkFails
  <2>2. process_count' \in 1 .. MAX_PROCESSES
    BY <1>12, BoundsAssumption DEF Fork, ForkFails, TypeOK, BoundsAssumption
  <2>3. slot' \in [Slots -> Slot]
    BY <2>1, <2>2, SnapStep DEF Watch, TypeOK, Slot, Slots
  <2>4. [at |-> "sleep", pid |-> o.pid, ttk |-> Head(snap).ttk] \in Monitor
    BY <2>1, SnapStep DEF Monitor
  <2>5. monitor' \in [Slots -> Monitor]
    BY <1>12, <2>4 DEF Fork, ForkFails, TypeOK
  <2>6. snap' \in Seq(Line) /\ process_count' \in 0 .. MAX_PROCESSES
    BY <2>1, <2>2, SnapStep
  <2>7. /\ link' \in {"open", "closed", "rst_due", "reset"}
        /\ pc' = pc \/ pc' = "died"
    <3>1. CASE Fork(o)
      BY <3>1, LogOrDieType DEF Fork
    <3>2. CASE ForkFails(o)
      BY <3>2 DEF ForkFails, TypeOK
    <3> QED BY <1>12, <3>1, <3>2
  <2>8. mute' \subseteq Slots /\ deaf' \subseteq Slots /\ UNCHANGED doomed
    BY <1>12, <2>2 DEF Fork, ForkFails, MayLack, Visit, TypeOK, Slots
  <2> QED BY <1>12, <2>3, <2>5, <2>6, <2>7, <2>8 DEF Fork, ForkFails, Visit, TypeOK, Line
<1>13. ASSUME NEW o \in Seen, Overrun(o) PROVE TypeOK'
  BY <1>13, SnapStep DEF Overrun, Visit, Line, TypeOK
<1>14. CASE NextLine
  <2>1. snap' \in Seq(Line)
    BY <1>14 DEF NextLine, TypeOK, Line
  <2> QED BY <1>14, <2>1 DEF NextLine, TypeOK, Line
<1>15. CASE EndAssign
  BY <1>15, TimeAssumption DEF EndAssign, NextRound, TypeOK, TimeAssumption
<1>16. CASE StopMonitor
  <2>1. doomed' \subseteq Slots
    BY <1>16, BoundsAssumption DEF StopMonitor, TypeOK, Slots, BoundsAssumption
  <2> QED BY <1>16, <2>1 DEF StopMonitor, TypeOK
<1>l. CASE LastRead
  <2>1. k \in Slots /\ k' \in Nat \ {0}
    BY <1>l DEF LastRead, TypeOK
  <2>2. pipe_to_parent' \in [Slots -> Seq({0, 1})] /\ total_processes_killed' \in Nat
    BY <1>l, <2>1, ReadReportType DEF LastRead
  <2>3. link' \in {"open", "closed", "rst_due", "reset"} /\ (pc' = pc \/ pc' = "died")
    BY <1>l, LogOrDieType DEF LastRead, ReadReport, NoReport, TypeOK
  <2> QED BY <1>l, <2>1, <2>2, <2>3 DEF LastRead, TypeOK
<1>17. CASE Finish
  BY <1>17 DEF Finish, TypeOK
<1>18. ASSUME NEW i \in Slots, Wake(i) PROVE TypeOK'
  <2>1. monitor' \in [Slots -> Monitor]
    BY <1>18, BecomesType DEF Wake
  <2> QED BY <1>18, <2>1 DEF Wake, TypeOK
<1>19. ASSUME NEW i \in Slots, Probe(i) PROVE TypeOK'
  <2>1. monitor' \in [Slots -> Monitor]
    BY <1>19, BecomesType DEF Probe
  <2> QED BY <1>19, <2>1 DEF Probe, TypeOK
<1>20. ASSUME NEW i \in Slots, Shoot(i) PROVE TypeOK'
  <2>1. monitor' \in [Slots -> Monitor]
    BY <1>20, BecomesType DEF Shoot
  <2>2. proc' \in [Pids -> Names \cup {NoName}] /\ shots' \in Nat
    <3>1. proc \in [Pids -> Names \cup {NoName}] /\ shots \in Nat
      BY DEF TypeOK
    <3>2. /\ proc' = [proc EXCEPT ![monitor[i].pid] = NoName]
          /\ shots' = shots + 1
      BY <1>20 DEF Shoot
    <3>3. \A q : [proc EXCEPT ![q] = NoName] \in [Pids -> Names \cup {NoName}]
      BY <3>1
    <3>4. proc' \in [Pids -> Names \cup {NoName}]
      BY <3>2, <3>3, Zenon
    <3> QED BY <3>1, <3>2, <3>4
  <2> QED BY <1>20, <2>1, <2>2 DEF Shoot, TypeOK
<1>21. ASSUME NEW i \in Slots, Tell(i) PROVE TypeOK'
  <2>1. PICK r \in {0, 1} :
          /\ Becomes(i, IF r = 1 THEN "tell1" ELSE "tell0", "wait")
          /\ pipe_to_parent' = IF i \in mute THEN pipe_to_parent
                               ELSE [pipe_to_parent EXCEPT ![i] = Append(@, r)]
    BY <1>21 DEF Tell
  <2>2. monitor' \in [Slots -> Monitor]
    BY <2>1, BecomesType
  <2>3. pipe_to_parent' \in [Slots -> Seq({0, 1})]
    BY <2>1 DEF TypeOK
  <2> QED BY <1>21, <2>2, <2>3 DEF Tell, TypeOK
<1>22. ASSUME NEW i \in Slots, TakeAssignment(i) PROVE TypeOK'
  <2>1. Head(pipe_to_child[i]) \in Assignment
    BY <1>22 DEF TakeAssignment, TypeOK
  <2>2. monitor' \in [Slots -> Monitor]
    BY <1>22, <2>1 DEF TakeAssignment, After, TypeOK, Monitor, Assignment
  <2>3. pipe_to_child' \in [Slots -> Seq(Assignment)]
    BY <1>22 DEF TakeAssignment, TypeOK
  <2> QED BY <1>22, <2>2, <2>3 DEF TakeAssignment, TypeOK
<1>d. ASSUME NEW i \in Slots, Dies(i) PROVE TypeOK'
  <2>1. monitor' \in [Slots -> Monitor]
    BY <1>d DEF Dies, TypeOK, Monitor
  <2> QED BY <1>d, <2>1 DEF Dies, TypeOK
<1>23. CASE UNCHANGED vars
  BY <1>23 DEF vars, TypeOK
<1> QED
  BY <1>1, <1>2, <1>3, <1>4, <1>5, <1>6, <1>7, <1>8, <1>9, <1>10, <1>11, <1>12, <1>13,
     <1>14, <1>15, <1>16, <1>17, <1>18, <1>19, <1>20, <1>21, <1>22, <1>23, <1>s, <1>l, <1>d
  DEF Next, Machine, Parent, Assign, Child

\* Every state the client can reach is well typed, for every value of the constants.
THEOREM TypeCorrect == Spec => []TypeOK
<1>1. Init => TypeOK
  BY TypeInit
<1>2. TypeOK /\ [Next]_vars => TypeOK'
  BY TypeNext
<1> QED BY <1>1, <1>2, PTL DEF Spec

-----------------------------------------------------------------------------
(***************************************************************************)
(* The protocol of a slot.  SlotProtocol is inductive given TypeOK: a step *)
(* touches one slot, and every other slot keeps its form (Frame).          *)
(***************************************************************************)
Same(i) == /\ slot'[i] = slot[i] /\ monitor'[i] = monitor[i]
           /\ pipe_to_child'[i] = pipe_to_child[i] /\ pipe_to_parent'[i] = pipe_to_parent[i]
           /\ i \in mute' <=> i \in mute
           /\ i \in deaf' <=> i \in deaf
           /\ i \in doomed' <=> i \in doomed

LEMMA Frame ==
  ASSUME NEW i, Consistent(i), Same(i), process_count' = process_count,
         pc \in Leaving => pc' \in Leaving, pc = "died" => pc' = "died"
  PROVE  Consistent(i)'
BY DEF Same, Consistent, Unused, Free, OnTarget, Assigned, AtWork, Reported, GaveUp, Killed,
       Unreset, Unborn, Unheard, Deserted, Busy, Forms, IdleSlot

\* Only a slot with a report in its pipe has one to read.
LEMMA OnlyReported ==
  ASSUME NEW i, Consistent(i), pipe_to_parent[i] # <<>>
  PROVE  /\ Reported(i) \/ (Killed(i) /\ pc \in Leaving)
         /\ pipe_to_parent[i] \in {<<0>>, <<1>>} /\ Busy(i) /\ i \notin mute
         /\ monitor[i].at \in {"wait", "killed"}
BY DEF Consistent, Unused, Free, OnTarget, Assigned, AtWork, Reported, GaveUp, Killed, Unreset,
       Unborn, Unheard, Deserted, Busy, Forms

LEMMA SlotInit == Init => SlotProtocol
BY DEF Init, SlotProtocol, Consistent, Forms, Unused, Slots

LEMMA SlotNext == TypeOK /\ SlotProtocol /\ [Next]_vars => SlotProtocol'
<1> SUFFICES ASSUME TypeOK, SlotProtocol, [Next]_vars, NEW j \in Slots
             PROVE  Consistent(j)'
  BY DEF SlotProtocol
<1>0. Consistent(j)
  BY DEF SlotProtocol
<1>t. /\ slot \in [Slots -> Slot] /\ monitor \in [Slots -> Monitor]
      /\ pipe_to_child \in [Slots -> Seq(Assignment)]
      /\ pipe_to_parent \in [Slots -> Seq({0, 1})]
      /\ process_count \in 0 .. MAX_PROCESSES
  BY DEF TypeOK
<1> USE DEF machine, server, orders, scan, parent, pipes, marks, pool
<1>1. CASE Machine \/ Server
  BY <1>0, <1>1, Frame DEF Same, Machine, ProcStart, ProcExit, Server, ServerSend, ServerQuit,
     ServerCrash, ResetArrives
<1>2. CASE \/ Poll \/ SkipScan \/ BeginScan \/ ScanOverrun \/ PopenFails \/ EndScan
           \/ NextLine \/ EndAssign
  BY <1>0, <1>2, Frame DEF Same, Poll, NothingThere, ShortRead,
     WholeMessage, ShiftedMessage, SkipScan, BeginScan, ScansLine, ScanOverrun, PopenFails, EndScan, NextLine, EndAssign, Leaving
<1>3. CASE ScanLine
  BY <1>0, <1>3, Frame DEF Same, ScanLine, LogOrDie, Leaving
<1>4. CASE Drain
  <2>1. CASE NoReport(k) /\ UNCHANGED slot
    BY <1>0, <1>4, <2>1, Frame DEF Same, Drain, NoReport
  <2>2. CASE ReadReport(k) /\ j # k
    BY <1>0, <1>4, <2>2, <1>t, Frame DEF Same, Drain, ReadReport, LogOrDie, Leaving
  <2>3. CASE ReadReport(k) /\ j = k
    <3>1. /\ Reported(j) /\ pipe_to_parent'[j] = <<>> /\ j \notin doomed
          /\ UNCHANGED <<monitor, pipe_to_child, process_count, marks>>
      BY <1>0, <1>4, <2>3, <1>t, OnlyReported DEF Drain, ReadReport, Consistent, Leaving
    <3>2. slot' = IF pc' = "died" THEN slot ELSE [slot EXCEPT ![k] = IdleSlot]
      BY <1>4, <2>3 DEF Drain, ReadReport, NoReport
    <3>3. CASE pc' # "died"
      BY <1>t, <2>3, <3>1, <3>2, <3>3 DEF Consistent, Forms, Free, Reported, OnTarget, Busy
    <3>4. CASE pc' = "died"
      BY <3>1, <3>2, <3>4 DEF Consistent, Forms, Unreset, Reported, OnTarget, Busy, Leaving
    <3> QED BY <3>3, <3>4
  <2> QED BY <1>4, <2>1, <2>2, <2>3 DEF Drain
<1>5. ASSUME NEW o \in Seen, AlreadyMonitored(o) PROVE Consistent(j)'
  BY <1>0, <1>5, Frame DEF Same, AlreadyMonitored, Visit
<1>6. ASSUME NEW o \in Seen, Reuse(o) PROVE Consistent(j)'
  <2>1. /\ Visit(o) /\ LogOrDie /\ pc = "assign"
        /\ UNCHANGED <<process_count, monitor, pipe_to_parent, marks>>
    BY <1>6 DEF Reuse, Visit
  <2>2. PICK i \in Idle :
          /\ pipe_to_child' = IF i \in deaf THEN pipe_to_child
                              ELSE [pipe_to_child EXCEPT ![i] =
                                      Append(@, [pid |-> o.pid, ttk |-> Head(snap).ttk])]
          /\ Watch(i, o)
    BY <1>6 DEF Reuse
  <2>3. i \in Slots /\ i <= process_count /\ ~slot[i].busy
    BY <1>t, BoundsAssumption DEF Idle, Slots, BoundsAssumption
  <2>4. CASE j # i
    <3>1. Same(j)
      <4>1. slot'[j] = slot[j]
        BY <1>t, <2>2, <2>4 DEF Watch
      <4>2. pipe_to_child'[j] = pipe_to_child[j]
        BY <1>t, <2>2, <2>4
      <4> QED BY <2>1, <4>1, <4>2 DEF Same
    <3>2. pc \notin Leaving
      BY <2>1 DEF Leaving
    <3> QED BY <1>0, <2>1, <3>1, <3>2, Frame DEF Leaving
  <2>5. CASE j = i
    <3>1. Free(j)
      BY <1>0, <1>t, <2>1, <2>3, <2>5
      DEF Consistent, Unused, OnTarget, Assigned, AtWork, Reported, GaveUp, Killed, Unreset, Unborn, Unheard, Deserted, Busy, Forms,
          Leaving, Slots
    <3>2. slot'[j] = [busy |-> TRUE, pid |-> o.pid, ttk |-> Head(snap).ttk, aim |-> o.gen]
      BY <1>t, <2>2, <2>5 DEF Watch
    <3>3. o.pid \in Pids /\ j \notin doomed
      BY <1>0, <2>1, SnapStep DEF Consistent, Leaving
    <3>4. CASE i \in deaf
      BY <2>1, <2>2, <2>5, <3>1, <3>2, <3>3, <3>4 DEF Consistent, Forms, Deserted, Busy, Free
    <3>5. CASE i \notin deaf
      <4>1. pipe_to_child'[j] = <<[pid |-> o.pid, ttk |-> Head(snap).ttk]>>
        BY <1>t, <2>2, <2>5, <3>1, <3>5 DEF Free
      <4> QED
        BY <2>1, <2>5, <3>1, <3>2, <3>3, <3>5, <4>1 DEF Consistent, Forms, Assigned, Busy, Free
    <3> QED BY <3>4, <3>5
  <2> QED BY <2>4, <2>5
<1>7. ASSUME NEW o \in Seen, Fork(o) PROVE Consistent(j)'
  <2>1. /\ Visit(o) /\ LogOrDie /\ pc = "assign" /\ UNCHANGED pipes
        /\ process_count' = process_count + 1 /\ process_count' \in Slots
        /\ Watch(process_count', o)
        /\ monitor' = [monitor EXCEPT ![process_count'] =
                         [at |-> "sleep", pid |-> o.pid, ttk |-> Head(snap).ttk]]
        /\ UNCHANGED doomed
        /\ mute' \in {mute, mute \cup {process_count'}} /\ deaf' \in {deaf, deaf \cup {process_count'}}
    BY <1>7, <1>t, BoundsAssumption DEF Fork, Visit, MayLack, Slots, BoundsAssumption
  <2>2. o.pid \in Pids
    BY <2>1, SnapStep
  <2>3. CASE j # process_count'
    <3>1. Same(j) /\ (j > process_count => j > process_count') /\ pc \notin Leaving
      BY <1>t, <2>1, <2>3 DEF Same, Watch, Slots, Leaving
    <3> QED
      BY <1>0, <1>t, <2>1, <3>1
      DEF Same, Consistent, Unused, Free, OnTarget, Assigned, AtWork, Reported, GaveUp, Killed,
          Unreset, Unborn, Unheard, Deserted, Busy, Forms, Leaving, Slots, IdleSlot
  <2>4. CASE j = process_count'
    <3>1. Unused(j)
      BY <1>0, <1>t, <2>1, <2>4
      DEF Consistent, Unused, Free, OnTarget, Assigned, AtWork, Reported, GaveUp, Killed, Unreset, Unborn, Unheard, Deserted, Busy, Forms,
          Slots
    <3>2. slot'[j] = [busy |-> TRUE, pid |-> o.pid, ttk |-> Head(snap).ttk, aim |-> o.gen]
      BY <1>t, <2>1, <2>4 DEF Watch
    <3>3. monitor'[j] = [at |-> "sleep", pid |-> o.pid, ttk |-> Head(snap).ttk]
      BY <1>t, <2>1, <2>4
    <3> QED BY <2>1, <2>2, <2>4, <3>1, <3>2, <3>3, <1>t
            DEF Consistent, Forms, AtWork, OnTarget, Busy, Unused, Working, Slots
  <2> QED BY <2>3, <2>4
<1>f. ASSUME NEW o \in Seen, ForkFails(o) PROVE Consistent(j)'
  <2>1. /\ Visit(o) /\ pc = "assign" /\ pc' = "died" /\ UNCHANGED <<pipes, monitor, marks>>
        /\ process_count' = process_count + 1 /\ process_count' \in Slots
        /\ Watch(process_count', o)
    BY <1>f, <1>t, BoundsAssumption DEF ForkFails, Visit, Slots, BoundsAssumption
  <2>2. CASE j # process_count'
    <3>1. Same(j) /\ (j > process_count => j > process_count') /\ pc \notin Leaving
      BY <1>t, <2>1, <2>2 DEF Same, Watch, Slots, Leaving
    <3> QED
      BY <1>0, <1>t, <2>1, <3>1
      DEF Same, Consistent, Unused, Free, OnTarget, Assigned, AtWork, Reported, GaveUp, Killed,
          Unreset, Unborn, Unheard, Deserted, Busy, Forms, Leaving, Slots, IdleSlot
  <2>3. CASE j = process_count'
    <3>1. Unused(j)
      BY <1>0, <1>t, <2>1, <2>3
      DEF Consistent, Unused, Free, OnTarget, Assigned, AtWork, Reported, GaveUp, Killed, Unreset,
          Unborn, Unheard, Deserted, Busy, Forms, Slots
    <3>2. slot'[j] = [busy |-> TRUE, pid |-> o.pid, ttk |-> Head(snap).ttk, aim |-> o.gen]
      BY <1>t, <2>1, <2>3 DEF Watch
    <3>3. o.pid \in Pids
      BY <2>1, SnapStep
    <3> QED BY <1>t, <2>1, <2>3, <3>1, <3>2, <3>3 DEF Consistent, Forms, Busy, Unborn, Unused, Slots
  <2> QED BY <2>2, <2>3
<1>8. ASSUME NEW o \in Seen, Overrun(o) PROVE Consistent(j)'
  BY <1>0, <1>8, Frame DEF Same, Overrun, Visit, Leaving
<1>9. CASE StopMonitor
  <2>1. /\ UNCHANGED <<pc, slot, process_count, pipes, monitor, mute, deaf>>
        /\ doomed' = doomed \cup {k} /\ k <= process_count /\ pc \in Leaving
    BY <1>9 DEF StopMonitor, Leaving
  <2>2. CASE j # k
    BY <1>0, <2>1, <2>2, Frame DEF Same
  <2>3. CASE j = k
    <3>1. ~Unused(j)
      BY <1>t, <2>1, <2>3 DEF Unused, Slots
    <3> QED
      BY <1>0, <2>1, <2>3, <3>1
      DEF Consistent, Forms, Free, Busy, OnTarget, Assigned, AtWork, Reported, GaveUp, Killed,
          Unreset, Unborn, Unheard, Deserted
  <2> QED BY <2>2, <2>3
<1>l. CASE LastRead
  <2>1. /\ pc' \in Leaving /\ pc \in Leaving /\ k \in doomed
        /\ UNCHANGED <<slot, process_count, pipe_to_child, monitor, marks>>
    BY <1>l DEF LastRead, ReadReport, NoReport, LogOrDie, Leaving
  <2>2. CASE NoReport(k) \/ j # k
    <3>1. pipe_to_parent'[j] = pipe_to_parent[j]
      BY <1>l, <1>t, <2>2 DEF LastRead, ReadReport, NoReport
    <3> QED BY <1>0, <1>l, <2>1, <3>1, Frame DEF Same, LastRead
  <2>3. CASE ReadReport(k) /\ j = k
    <3>1. (Reported(j) \/ Killed(j)) /\ pipe_to_parent'[j] = <<>> /\ j <= process_count
      BY <1>0, <1>t, <2>3, OnlyReported DEF ReadReport, Reported, Killed, OnTarget, Busy
    <3> QED
      BY <2>1, <2>3, <3>1 DEF Consistent, Forms, Unreset, Killed, Reported, OnTarget, Busy
  <2> QED BY <1>l, <2>2, <2>3 DEF LastRead
<1>10. CASE Finish
  BY <1>0, <1>10, Frame DEF Same, Finish, Leaving
<1>11. ASSUME NEW i \in Slots, Child(i) PROVE Consistent(j)'
  <2>1. UNCHANGED <<slot, process_count, pc, marks>>
    BY <1>11 DEF Child, Wake, Probe, Shoot, Tell, TakeAssignment, Dies
  <2>d. j \in doomed => j <= process_count /\ pc \in Leaving
    BY <1>0 DEF Consistent
  <2>2. CASE j # i
    <3>1. Same(j)
      BY <1>11, <1>t, <2>1, <2>2
      DEF Child, Wake, Probe, Shoot, Tell, TakeAssignment, Dies, Becomes, Same
    <3> QED BY <1>0, <2>1, <3>1, Frame
  <2>3. CASE j = i /\ (Wake(i) \/ Probe(i) \/ Shoot(i))
    <3>1. monitor[j].at \in Working /\ AtWork(j)
      BY <1>0, <2>3
      DEF Wake, Probe, Shoot, Becomes, Working, Consistent, Unused, Free, OnTarget, Assigned,
          Reported, GaveUp, Killed, Unreset, Unborn, Unheard, Deserted, Busy, Forms
    <3>2. /\ UNCHANGED pipes
          /\ monitor'[j].at \in Working \cup {"exited"} \/ (monitor'[j].at = "killed" /\ j \in doomed)
          /\ monitor'[j].pid = monitor[j].pid /\ monitor'[j].ttk = monitor[j].ttk
      BY <1>t, <2>3 DEF Wake, Probe, Shoot, Becomes, After, Working, Monitor
    <3> QED
      BY <2>1, <2>d, <3>1, <3>2 DEF Consistent, Forms, AtWork, OnTarget, Busy, GaveUp, Killed
  <2>4. CASE j = i /\ Tell(i)
    <3>1. PICK r \in {0, 1} :
            /\ Becomes(i, IF r = 1 THEN "tell1" ELSE "tell0", "wait")
            /\ pipe_to_parent' = IF i \in mute THEN pipe_to_parent
                                 ELSE [pipe_to_parent EXCEPT ![i] = Append(@, r)]
      BY <2>4 DEF Tell
    <3>2. AtWork(j)
      BY <1>0, <2>4, <3>1
      DEF Becomes, Working, Consistent, Unused, Free, OnTarget, Assigned, Reported, GaveUp,
          Killed, Unreset, Unborn, Unheard, Deserted, Busy, Forms
    <3>3. IF j \in mute THEN pipe_to_parent'[j] = <<>> ELSE pipe_to_parent'[j] \in {<<0>>, <<1>>}
      BY <1>t, <2>4, <3>1, <3>2 DEF AtWork
    <3>4. /\ monitor'[j].at = (IF j \in doomed THEN "killed" ELSE "wait") /\ UNCHANGED pipe_to_child
          /\ monitor'[j].pid = monitor[j].pid /\ monitor'[j].ttk = monitor[j].ttk
      BY <1>t, <2>4, <3>1 DEF Becomes, After, Tell, Monitor
    <3>5. CASE j \in doomed
      BY <2>1, <2>d, <3>2, <3>3, <3>4, <3>5 DEF Consistent, Forms, AtWork, OnTarget, Busy, Killed
    <3>6. CASE j \notin doomed
      BY <2>1, <3>2, <3>3, <3>4, <3>6
      DEF Consistent, Forms, AtWork, OnTarget, Busy, Reported, Unheard
    <3> QED BY <3>5, <3>6
  <2>5. CASE j = i /\ TakeAssignment(i)
    <3>1. Assigned(j)
      BY <1>0, <2>5
      DEF TakeAssignment, Working, Consistent, Unused, Free, OnTarget, AtWork, Reported,
          GaveUp, Killed, Unreset, Unborn, Unheard, Deserted, Busy, Forms
    <3>2. Head(pipe_to_child[j]) = [pid |-> slot[j].pid, ttk |-> slot[j].ttk]
      BY <3>1 DEF Assigned
    <3>3. /\ monitor'[j] = [at |-> After(j, "sleep"), pid |-> slot[j].pid, ttk |-> slot[j].ttk]
          /\ pipe_to_child'[j] = <<>> /\ UNCHANGED pipe_to_parent
      BY <1>t, <2>5, <3>2 DEF TakeAssignment
    <3> QED
      BY <2>1, <2>d, <3>1, <3>3
      DEF Consistent, Forms, Assigned, AtWork, OnTarget, Busy, Killed, Working, After
  <2>6. CASE j = i /\ Dies(i)
    <3>1. monitor'[j].at = "killed" /\ j \in doomed /\ UNCHANGED pipes
      BY <1>t, <2>6 DEF Dies, Monitor
    <3>2. pipe_to_parent[j] = <<>> \/ (pipe_to_parent[j] \in {<<0>>, <<1>>} /\ Busy(j) /\ j \notin mute)
      BY <1>0, OnlyReported
    <3>3. j \in mute => Busy(j)
      BY <1>0, <2>6
      DEF Dies, Consistent, Forms, Unused, Free, Assigned, AtWork, Reported, GaveUp, Killed,
          Unreset, Unborn, Unheard, Deserted, OnTarget
    <3> QED BY <2>1, <2>d, <3>1, <3>2, <3>3 DEF Consistent, Forms, Killed, Busy
  <2> QED BY <1>11, <2>2, <2>3, <2>4, <2>5, <2>6 DEF Child
<1>12. CASE UNCHANGED vars
  BY <1>0, <1>12, Frame DEF Same, vars
<1> QED
  BY <1>1, <1>2, <1>3, <1>4, <1>5, <1>6, <1>7, <1>f, <1>8, <1>9, <1>l, <1>10, <1>11, <1>12
  DEF Next, Parent, Assign

\* In every reachable state each slot, its two pipes and its monitor's memory have
\* one of the forms of the hand-over protocol: no message is overtaken, doubled or
\* read as another one's.
THEOREM SlotProtocolHolds == Spec => []SlotProtocol
<1>1. Init => SlotProtocol
  BY SlotInit
<1>2. TypeOK /\ SlotProtocol /\ [Next]_vars => SlotProtocol'
  BY SlotNext
<1> QED BY <1>1, <1>2, TypeCorrect, PTL DEF Spec

-----------------------------------------------------------------------------
(***************************************************************************)
(* No process has two monitors.  The parent's own list is enough to know   *)
(* it, because a busy slot is one of the first process_count.              *)
(***************************************************************************)
\* slot changes only in these steps.
SlotStep == Drain \/ \E o \in Seen : Reuse(o) \/ Fork(o) \/ ForkFails(o)

LEMMA SlotUnchanged == [Next]_vars /\ ~SlotStep => UNCHANGED slot
BY DEF SlotStep, Next, Machine, ProcStart, ProcExit, Server, ServerSend, ServerQuit, ServerCrash,
       ResetArrives, Parent, Poll, SkipScan, BeginScan, ScansLine, ScanLine, ScanOverrun, PopenFails,
       EndScan, Assign,
       AlreadyMonitored, Overrun, Visit, NextLine, EndAssign, StopMonitor, LastRead, Finish, Child, Wake,
       Probe, Shoot, Tell, TakeAssignment, Dies, vars, scan, parent

\* The slot a Reuse or Fork fills, when no slot held the process before.
LEMMA Filled ==
  ASSUME TypeOK, SlotProtocol, NEW o \in Seen, Reuse(o) \/ Fork(o) \/ ForkFails(o)
  PROVE  /\ \A j \in Slots : slot[j].busy => slot[j].pid # o.pid
         /\ o.pid \in Pids
         /\ \E i \in Slots : /\ ~slot[i].busy
                             /\ slot'[i].busy /\ slot'[i].pid = o.pid
                             /\ \A j \in Slots \ {i} : slot'[j] = slot[j]
                             /\ mute' \in {mute, mute \cup {i}}
<1>1. Visit(o) /\ ~IsMonitored(o.pid) /\ process_count \in 0 .. MAX_PROCESSES
      /\ slot \in [Slots -> Slot]
  BY DEF Reuse, Fork, ForkFails, TypeOK
<1>2. \A j \in Slots : slot[j].busy => j \in 1 .. process_count
  <2> SUFFICES ASSUME NEW j \in Slots, slot[j].busy PROVE j \in 1 .. process_count
    OBVIOUS
  <2>1. Consistent(j) /\ ~IdleSlot.busy
    BY DEF SlotProtocol, IdleSlot
  <2>2. j <= process_count
    BY <2>1 DEF Consistent, Unused, Free, Assigned, AtWork, Reported, GaveUp, Killed, Unreset, Unborn, Unheard, Deserted, Busy, Forms,
                OnTarget
  <2> QED BY <1>1, <2>2, BoundsAssumption DEF Slots, BoundsAssumption
<1>3. \A j \in Slots : slot[j].busy => slot[j].pid # o.pid
  BY <1>1, <1>2 DEF IsMonitored
<1>4. CASE Reuse(o)
  <2>1. mute' = mute /\ \E i \in Idle : Watch(i, o)
    BY <1>4 DEF Reuse
  <2>i. PICK i \in Idle : Watch(i, o)
    BY <2>1
  <2>2. i \in Slots /\ ~slot[i].busy
    BY <1>1, BoundsAssumption DEF Idle, Slots, BoundsAssumption
  <2>3. slot'[i].busy /\ slot'[i].pid = o.pid /\ \A j \in Slots \ {i} : slot'[j] = slot[j]
    BY <1>1, <2>i, <2>2 DEF Watch
  <2> QED BY <1>1, <1>3, <2>1, <2>2, <2>3, SnapStep
<1>5. CASE Fork(o) \/ ForkFails(o)
  <2> DEFINE i == process_count + 1
  <2>0. process_count' = i /\ Watch(process_count', o) /\ process_count < MAX_PROCESSES
    BY <1>5 DEF Fork, ForkFails
  <2>1. Watch(i, o) /\ i \in Slots
    BY <1>1, <2>0, BoundsAssumption DEF Slots, BoundsAssumption, Watch
  <2>2. ~slot[i].busy
    BY <1>1, <1>2, <2>1
  <2>3. slot'[i].busy /\ slot'[i].pid = o.pid /\ \A j \in Slots \ {i} : slot'[j] = slot[j]
    BY <1>1, <2>1 DEF Watch
  <2>4. mute' \in {mute, mute \cup {i}}
    BY <1>5, <2>0 DEF Fork, ForkFails, MayLack
  <2> QED BY <1>1, <1>3, <2>1, <2>2, <2>3, <2>4, SnapStep
<1> QED BY <1>4, <1>5

LEMMA UniqueNext == TypeOK /\ SlotProtocol /\ UniqueMonitor /\ [Next]_vars => UniqueMonitor'
<1> SUFFICES ASSUME TypeOK, SlotProtocol, UniqueMonitor, [Next]_vars PROVE UniqueMonitor'
  OBVIOUS
<1>1. CASE ~SlotStep
  BY <1>1, SlotUnchanged DEF UniqueMonitor
<1>2. CASE Drain
  <2>1. slot' = slot \/ slot' = [slot EXCEPT ![k] = IdleSlot]
    BY <1>2 DEF Drain
  <2>2. \A j \in Slots : slot'[j].busy => slot'[j] = slot[j]
    BY <2>1 DEF TypeOK, IdleSlot
  <2> QED BY <2>2 DEF UniqueMonitor
<1>3. ASSUME NEW o \in Seen, Reuse(o) \/ Fork(o) \/ ForkFails(o) PROVE UniqueMonitor'
  BY <1>3, Filled DEF UniqueMonitor
<1> QED BY <1>1, <1>2, <1>3 DEF SlotStep

\* No two monitors ever work on the same process, however many scans, reloads and
\* late reports there are.
THEOREM UniqueMonitorHolds == Spec => []UniqueMonitor
<1>1. Init => UniqueMonitor
  BY DEF Init, UniqueMonitor, IdleSlot
<1>2. TypeOK /\ SlotProtocol /\ UniqueMonitor /\ [Next]_vars => UniqueMonitor'
  BY UniqueNext
<1> QED BY <1>1, <1>2, TypeCorrect, SlotProtocolHolds, PTL DEF Spec

-----------------------------------------------------------------------------
(***************************************************************************)
(* The bound the code does not check.                                      *)
(***************************************************************************)
\* When every slot is busy with a process of its own and one more is unwatched,
\* there are more processes than slots.
LEMMA Pigeonhole ==
  ASSUME TypeOK, SlotProtocol, UniqueMonitor, NEW o \in Seen, Overrun(o)
  PROVE  Cardinality(Pids) > MAX_PROCESSES
<1>1. /\ Visit(o) /\ ~IsMonitored(o.pid) /\ Idle = {} /\ process_count = MAX_PROCESSES
      /\ slot \in [Slots -> Slot] /\ MAX_PROCESSES \in Nat /\ pc = "assign"
  BY BoundsAssumption DEF Overrun, Visit, TypeOK, BoundsAssumption
<1>2. \A i \in Slots : slot[i].busy
  BY <1>1 DEF Idle, Slots
<1>3. \A i \in Slots : slot[i].pid \in Pids
  <2> SUFFICES ASSUME NEW i \in Slots PROVE slot[i].pid \in Pids
    OBVIOUS
  <2>1. Consistent(i) /\ slot[i].busy /\ i \notin doomed
    BY <1>1, <1>2 DEF SlotProtocol, Consistent, Leaving
  <2> QED
    BY <1>1, <2>1
    DEF Consistent, Unused, Free, Assigned, AtWork, Reported, GaveUp, Killed, Unreset, Unborn,
        Unheard, Deserted, Busy, Forms, OnTarget, IdleSlot, Leaving
<1>4. \A i \in Slots : slot[i].pid # o.pid
  BY <1>1 DEF IsMonitored, Slots
<1>5. o.pid \in Pids
  BY DEF Seen
<1> DEFINE T == Pids \ {o.pid}
           f == [i \in Slots |-> slot[i].pid]
<1>6. f \in Injection(Slots, T)
  <2>1. f \in [Slots -> T]
    BY <1>3, <1>4
  <2>2. \A i, j \in Slots : f[i] = f[j] => i = j
    BY <1>2 DEF UniqueMonitor
  <2> QED BY <2>1, <2>2 DEF Injection, IsInjective
<1>7. IsFiniteSet(Pids) /\ IsFiniteSet(T) /\ Cardinality(T) = Cardinality(Pids) - 1
      /\ Cardinality(Pids) \in Nat
  BY <1>5, PidsAssumption, FS_RemoveElement, FS_CardinalityType DEF PidsAssumption
<1>8. Cardinality(Slots) = MAX_PROCESSES
  BY <1>1, FS_Interval DEF Slots
<1>9. Cardinality(Slots) <= Cardinality(T)
  <2> HIDE DEF f, T
  <2> QED BY <1>6, <1>7, FS_Injection
<1> QED BY <1>1, <1>7, <1>8, <1>9

\* While a scan is under way it has found each process at most once a line.
ScanInv == pc = "scan" => total_processes <= Cardinality(Pids) * (k - 1)

LEMMA Times ==
  ASSUME NEW n \in Nat, NEW m \in Nat, NEW l \in Nat, m <= l
  PROVE  n * m <= n * l
<1>1. l - m \in Nat /\ n * (l - m) \in Nat
  OBVIOUS
<1>2. n * l = n * m + n * (l - m)
  OBVIOUS
<1> QED BY <1>1, <1>2

\* What a line adds keeps to the bound of the lines so far.
LEMMA LineBound ==
  ASSUME TypeOK, ScanInv, ScansLine
  PROVE  /\ total_processes + Cardinality(PidOf(config[k].name)) <= Cardinality(Pids) * k
         /\ Cardinality(Pids) \in Nat /\ k \in Nat \ {0}
         /\ total_processes + Cardinality(PidOf(config[k].name)) \in Nat
<1> DEFINE n == Cardinality(Pids)
           found == Cardinality(PidOf(config[k].name))
<1>1. found \in Nat /\ found <= n
  BY PidOfFinite
<1>2. /\ k \in Nat \ {0} /\ total_processes \in Nat /\ n \in Nat
      /\ total_processes <= n * (k - 1)
  BY PidsAssumption, FS_CardinalityType DEF TypeOK, ScanInv, ScansLine, PidsAssumption
<1> HIDE DEF n, found
<1>3. n * k = n * (k - 1) + n
  BY <1>2
<1>4. n * (k - 1) \in Nat /\ n * k \in Nat
  BY <1>2
<1> QED BY <1>1, <1>2, <1>3, <1>4 DEF n, found

LEMMA ScanNext == TypeOK /\ ScanInv /\ [Next]_vars => ScanInv'
<1> SUFFICES ASSUME TypeOK, ScanInv, [Next]_vars, pc' = "scan"
             PROVE  total_processes' <= Cardinality(Pids) * (k' - 1)
  BY DEF ScanInv
<1>1. CASE pc = "scan" /\ UNCHANGED <<k, total_processes>>
  BY <1>1 DEF ScanInv
<1>2. CASE BeginScan
  <2>1. Cardinality(Pids) \in Nat
    BY PidsAssumption, FS_CardinalityType DEF PidsAssumption
  <2> QED BY <1>2, <2>1 DEF BeginScan
<1>3. CASE ScanLine
  <2>1. k' = k + 1 /\ total_processes' = total_processes + Cardinality(PidOf(config[k].name))
    BY <1>3 DEF ScanLine
  <2>2. k' - 1 = k
    BY <2>1 DEF TypeOK
  <2> QED BY <1>3, <2>1, <2>2, LineBound DEF ScanLine
<1> QED
  BY <1>1, <1>2, <1>3
  DEF Next, Machine, ProcStart, ProcExit, Server, ServerSend, ServerQuit, ServerCrash,
      ResetArrives, Parent, Poll, NothingThere, ShortRead, WholeMessage, ShiftedMessage, Drain,
      ReadReport, NoReport, LogOrDie, SkipScan, NextRound, ScansLine, ScanOverrun,
      PopenFails, EndScan, Assign, AlreadyMonitored, Reuse, Fork, ForkFails, Overrun, Visit,
      NextLine, EndAssign, StopMonitor, LastRead, Finish, Child, Wake, Probe, Shoot, Tell, TakeAssignment, Dies,
      vars, parent, scan

LEMMA OverrunStep ==
  [Next]_vars /\ pc' = "overrun"
    => pc = "overrun" \/ ScanOverrun \/ \E o \in Seen : Overrun(o)
BY DEF Next, Machine, ProcStart, ProcExit, Server, ServerSend, ServerQuit, ServerCrash,
       ResetArrives, Parent, Poll, NothingThere, ShortRead, WholeMessage, ShiftedMessage, Drain,
       ReadReport, NoReport, LogOrDie, SkipScan, NextRound,
       BeginScan, ScansLine, ScanLine, PopenFails, EndScan, Assign, AlreadyMonitored, Reuse, Fork,
       ForkFails, Visit, NextLine, EndAssign, StopMonitor, LastRead, Finish, Child, Wake, Probe, Shoot,
       Tell, TakeAssignment, Dies, vars, parent

\* With as many slots as there can be processes, and room for each of them once a
\* line, the parent never writes past the end of its arrays, although it compares
\* neither count with MAX_PROCESSES.
THEOREM NeverOverrunHolds == Spec => []NeverOverrun
<1>1. Init => NeverOverrun /\ ScanInv
  BY DEF Init, NeverOverrun, ScanInv
<1>2. TypeOK /\ ScanInv /\ [Next]_vars => ScanInv'
  BY ScanNext
<1>3. TypeOK /\ SlotProtocol /\ UniqueMonitor /\ ScanInv /\ NeverOverrun /\ [Next]_vars
        => NeverOverrun'
  <2> SUFFICES ASSUME TypeOK, SlotProtocol, UniqueMonitor, ScanInv, NeverOverrun, [Next]_vars,
                      RoomForAll, pc' = "overrun"
               PROVE  FALSE
    BY DEF NeverOverrun, RoomForAll
  <2>1. Cardinality(Pids) \in Nat /\ MAX_PROCESSES \in Nat /\ MAX_SNAPSHOT \in Nat
    BY PidsAssumption, BoundsAssumption, FS_CardinalityType DEF PidsAssumption, BoundsAssumption
  <2>2. ASSUME NEW o \in Seen, Overrun(o) PROVE FALSE
    BY <2>1, <2>2, Pigeonhole DEF RoomForAll
  <2>3. CASE ScanOverrun
    <3>1. ScansLine /\ config \in Configs /\ k \in Nat /\ k <= Len(config)
      BY <2>3 DEF ScanOverrun, ScansLine, TypeOK
    <3>2. Len(config) \in Nat
      BY <3>1, ConfigsAssumption DEF ConfigsAssumption
    <3>3. Cardinality(Pids) * k <= Cardinality(Pids) * Len(config)
      BY <2>1, <3>1, <3>2, Times
    <3>4. Cardinality(Pids) * Len(config) <= MAX_SNAPSHOT
      BY <3>1 DEF RoomForAll
    <3>5. total_processes + Cardinality(PidOf(config[k].name)) > MAX_SNAPSHOT
      BY <2>3 DEF ScanOverrun
    <3>6. /\ total_processes + Cardinality(PidOf(config[k].name)) <= Cardinality(Pids) * k
          /\ total_processes + Cardinality(PidOf(config[k].name)) \in Nat
      BY <3>1, LineBound
    <3>7. Cardinality(Pids) * k \in Nat /\ Cardinality(Pids) * Len(config) \in Nat
      BY <2>1, <3>1, <3>2
    <3> QED BY <2>1, <3>3, <3>4, <3>5, <3>6, <3>7
  <2> QED BY <2>2, <2>3, OverrunStep DEF NeverOverrun
<1> QED
  BY <1>1, <1>2, <1>3, TypeCorrect, SlotProtocolHolds, UniqueMonitorHolds, PTL DEF Spec

-----------------------------------------------------------------------------
(***************************************************************************)
(* The count of kills.  Each step moves at most one slot into or out of    *)
(* Uncounted, Silenced and Over, and the counters follow.                  *)
(***************************************************************************)
LEMMA Counted ==
  ASSUME NEW S, S \subseteq Slots, NEW i
  PROVE  /\ IsFiniteSet(S) /\ Cardinality(S) \in Nat
         /\ Cardinality(S \cup {i}) = IF i \in S THEN Cardinality(S) ELSE Cardinality(S) + 1
         /\ Cardinality(S \ {i}) = IF i \in S THEN Cardinality(S) - 1 ELSE Cardinality(S)
<1>1. IsFiniteSet(Slots)
  BY BoundsAssumption, FS_Interval DEF Slots, BoundsAssumption
<1>2. IsFiniteSet(S)
  BY <1>1, FS_Subset
<1> QED BY <1>2, FS_CardinalityType, FS_AddElement, FS_RemoveElement

\* A step that touches slot i alone.
LEMMA OneMoves ==
  ASSUME TypeOK, TypeOK', NEW i \in Slots, \A j \in Slots \ {i} : Same(j)
  PROVE  /\ Uncounted' = IF i \in Uncounted' THEN Uncounted \cup {i} ELSE Uncounted \ {i}
         /\ Silenced' = IF i \in Silenced' THEN Silenced \cup {i} ELSE Silenced \ {i}
         /\ Over' = IF i \in Over' THEN Over \cup {i} ELSE Over \ {i}
<1>1. \A j \in Slots \ {i} : j \in Uncounted' <=> j \in Uncounted
  BY DEF Uncounted, Same
<1>2. \A j \in Slots \ {i} : j \in Silenced' <=> j \in Silenced
  BY DEF Silenced, Same
<1>3. \A j \in Slots \ {i} : j \in Over' <=> j \in Over
  BY <1>2 DEF Over, Same
<1>4. /\ Uncounted \subseteq Slots /\ Uncounted' \subseteq Slots
      /\ Over \subseteq Slots /\ Over' \subseteq Slots
      /\ Silenced \subseteq Slots /\ Silenced' \subseteq Slots
  BY DEF Uncounted, Over, Silenced, TypeOK
<1> QED BY <1>1, <1>2, <1>3, <1>4

\* Reading the pipe of slot k takes a kill out of Uncounted exactly when it counts one.
LEMMA ReadEffect ==
  ASSUME TypeOK, SlotProtocol, NEW i \in Slots, ReadReport(i)
  PROVE  /\ i \in Uncounted <=> pipe_to_parent[i] = <<1>>
         /\ total_processes_killed' = total_processes_killed + (IF i \in Uncounted THEN 1 ELSE 0)
         /\ pipe_to_parent' = [pipe_to_parent EXCEPT ![i] = <<>>]
         /\ Busy(i) /\ i \notin mute /\ monitor[i].at \in {"wait", "killed"}
         /\ pc \notin Leaving => Reported(i)
<1>1. /\ pipe_to_parent[i] \in {<<0>>, <<1>>} /\ monitor[i].at \in {"wait", "killed"}
      /\ Busy(i) /\ i \notin mute /\ (pc \notin Leaving => Reported(i))
  BY OnlyReported DEF SlotProtocol, ReadReport
<1>2. i \in Uncounted <=> pipe_to_parent[i] = <<1>>
  BY <1>1 DEF Uncounted
<1>3. Head(<<0>>) = 0 /\ Head(<<1>>) = 1 /\ <<0>> # <<1>>
  OBVIOUS
<1>4. total_processes_killed' = total_processes_killed + Head(pipe_to_parent[i])
  BY DEF ReadReport
<1>5. pipe_to_parent' = [pipe_to_parent EXCEPT ![i] = <<>>]
  BY DEF ReadReport
<1> QED BY <1>1, <1>2, <1>3, <1>4, <1>5

\* What a step can do to the kills that are not counted yet, and to the watches nobody
\* will act for again.
Takes(o)    == Reuse(o) \/ Fork(o) \/ ForkFails(o)
Quiet       == /\ Uncounted' = Uncounted /\ Over' = Over
               /\ UNCHANGED <<total_processes_killed, shots>>
               /\ pc \in Leaving => pc' \in Leaving
               /\ pc \notin Leaving => Silenced' = Silenced
               /\ UNCHANGED <<slot, mute>> \/ \E o \in Seen : Takes(o)
Fires(i)    == /\ i \notin Uncounted \cup Over /\ slot[i].busy /\ slot[i].pid \in Pids
               /\ Uncounted' = Uncounted \cup {i} /\ Over' = Over /\ Silenced' = Silenced
               /\ shots' = shots + 1
               /\ UNCHANGED <<slot, pc, mute, total_processes_killed>>
Collects(i) == /\ Drain \/ LastRead
               /\ i = k /\ ReadReport(i) /\ Uncounted' = Uncounted \ {i}
               /\ Over' = Over /\ Silenced' = Silenced /\ UNCHANGED <<mute, shots>>
               /\ i \in Over => UNCHANGED slot
               /\ total_processes_killed' = total_processes_killed + (IF i \in Uncounted THEN 1 ELSE 0)
Ends(i)     == /\ slot[i].busy /\ slot[i].pid \in Pids /\ i \notin Over /\ Over' = Over \cup {i}
               /\ UNCHANGED <<slot, pc, mute, total_processes_killed>>
               /\ \/ /\ Uncounted' = Uncounted /\ UNCHANGED shots
                     /\ pc \notin Leaving => Silenced' = Silenced
                  \/ /\ Uncounted' = Uncounted \ {i} /\ UNCHANGED shots
                     /\ pc \in Leaving \/ (i \in mute \ Silenced /\ Silenced' = Silenced \cup {i})
                  \/ /\ pc \in Leaving /\ i \notin Uncounted /\ Uncounted' = Uncounted
                     /\ shots' = shots + 1
Effect      == Quiet \/ \E i \in Slots : Fires(i) \/ Collects(i) \/ Ends(i)

\* A step that leaves the slots, the monitors and their reports alone.
LEMMA StillEffect ==
  ASSUME UNCHANGED <<slot, mute, monitor, pipe_to_parent, total_processes_killed, shots>>,
         pc \in Leaving => pc' \in Leaving
  PROVE  Quiet
BY DEF Quiet, Uncounted, Silenced, Over

\* The parent takes a slot that was idle, or a new one.
LEMMA TakesEffect ==
  ASSUME TypeOK, TypeOK', SlotProtocol, NEW o \in Seen, Takes(o)
  PROVE  Quiet
<1>t. /\ slot \in [Slots -> Slot] /\ monitor \in [Slots -> Monitor]
      /\ process_count \in 0 .. MAX_PROCESSES
  BY DEF TypeOK
<1>1. /\ pc = "assign" /\ pc \notin Leaving
      /\ UNCHANGED <<pipe_to_parent, doomed, total_processes_killed, shots>>
  BY DEF Takes, Reuse, Fork, ForkFails, Visit, Leaving
<1>2. CASE Reuse(o)
  <2>1. PICK i \in Idle :
          /\ pipe_to_child' = IF i \in deaf THEN pipe_to_child
                              ELSE [pipe_to_child EXCEPT ![i] =
                                      Append(@, [pid |-> o.pid, ttk |-> Head(snap).ttk])]
          /\ Watch(i, o)
    BY <1>2 DEF Reuse
  <2>2. /\ i \in Slots /\ i <= process_count /\ ~slot[i].busy
        /\ UNCHANGED <<monitor, mute, deaf>>
    BY <1>t, <1>2, BoundsAssumption DEF Reuse, Idle, Slots, BoundsAssumption
  <2>3. Free(i)
    <3>1. Consistent(i) /\ i \notin doomed
      BY <1>1, <2>2 DEF SlotProtocol, Consistent
    <3> QED
      BY <1>1, <2>2, <3>1, <1>t
      DEF Consistent, Unused, OnTarget, Assigned, AtWork, Reported, GaveUp, Killed, Unreset,
          Unborn, Unheard, Deserted, Busy, Forms, Leaving, Slots
  <2>4. /\ i \notin Over /\ i \notin Over' /\ i \notin Silenced /\ i \notin Silenced'
        /\ i \in Uncounted' <=> i \in Uncounted
    BY <1>1, <2>2, <2>3 DEF Free, Over, Silenced, Uncounted
  <2>5. \A j \in Slots \ {i} : slot'[j] = slot[j]
    BY <1>t, <2>1 DEF Watch
  <2>6. Silenced' = Silenced /\ Uncounted' = Uncounted
    BY <1>1, <2>2 DEF Silenced, Uncounted
  <2>7. Over' = Over
    BY <2>2, <2>4, <2>5, <2>6 DEF Over
  <2> QED BY <1>1, <1>2, <2>6, <2>7 DEF Quiet, Takes
<1>3. CASE Fork(o) \/ ForkFails(o)
  <2> DEFINE i == process_count + 1
  <2>1. /\ i \in Slots /\ i > process_count /\ Watch(i, o)
        /\ mute' \in {mute, mute \cup {i}} /\ deaf' \in {deaf, deaf \cup {i}}
        /\ UNCHANGED pipe_to_child
    <3>1. process_count' = i /\ Watch(process_count', o) /\ process_count < MAX_PROCESSES
      BY <1>3 DEF Fork, ForkFails
    <3>2. /\ mute' \in {mute, mute \cup {i}} /\ deaf' \in {deaf, deaf \cup {i}}
          /\ UNCHANGED pipe_to_child
      BY <1>3, <3>1 DEF Fork, ForkFails, MayLack
    <3>3. i \in Slots /\ i > process_count
      BY <1>t, <3>1, BoundsAssumption DEF Slots, BoundsAssumption
    <3> QED BY <3>1, <3>2, <3>3 DEF Watch
  <2>2. \/ UNCHANGED monitor
        \/ monitor' = [monitor EXCEPT ![i] = [at |-> "sleep", pid |-> o.pid, ttk |-> Head(snap).ttk]]
    BY <1>3 DEF Fork, ForkFails
  <2>3. Unused(i)
    <3>1. Consistent(i) /\ ~(i <= process_count)
      BY <1>t, <2>1 DEF SlotProtocol
    <3> HIDE DEF i
    <3> QED
      BY <3>1 DEF Consistent, Free, Assigned, AtWork, Reported, GaveUp, Killed, Unreset, Unborn,
         Unheard, Deserted, Busy, Forms, OnTarget
  <2> HIDE DEF i
  <2>4. monitor'[i].at \in {"none", "sleep"} /\ monitor[i].at = "none"
    BY <1>t, <2>1, <2>2, <2>3 DEF Unused
  <2>5. \A j \in Slots \ {i} : Same(j)
    BY <1>1, <1>t, <2>1, <2>2 DEF Same, Watch
  <2>6. /\ i \notin Over /\ i \notin Over' /\ i \notin Silenced /\ i \notin Silenced'
        /\ i \in Uncounted' <=> i \in Uncounted
    BY <1>1, <2>4 DEF Over, Silenced, Uncounted
  <2>7. Uncounted' = Uncounted /\ Silenced' = Silenced /\ Over' = Over
    BY <2>1, <2>5, <2>6, OneMoves
  <2> QED BY <1>1, <1>3, <2>7 DEF Quiet, Takes
<1> QED BY <1>2, <1>3 DEF Takes

LEMMA ChildEffect ==
  ASSUME TypeOK, TypeOK', SlotProtocol, NEW i \in Slots, Child(i)
  PROVE  Quiet \/ Fires(i) \/ Ends(i)
<1>t. /\ slot \in [Slots -> Slot] /\ monitor \in [Slots -> Monitor]
      /\ pipe_to_parent \in [Slots -> Seq({0, 1})]
      /\ pipe_to_child \in [Slots -> Seq(Assignment)]
  BY DEF TypeOK
<1>1. UNCHANGED <<slot, pc, mute, deaf, doomed, process_count, total_processes_killed>>
  BY DEF Child, Wake, Probe, Shoot, Tell, TakeAssignment, Dies, marks, parent, orders, scan
<1>2. \A j \in Slots \ {i} : Same(j)
  BY <1>1, <1>t
  DEF Child, Wake, Probe, Shoot, Tell, TakeAssignment, Dies, Becomes, Same, pipes
<1>3. /\ Uncounted' = IF i \in Uncounted' THEN Uncounted \cup {i} ELSE Uncounted \ {i}
      /\ Silenced' = IF i \in Silenced' THEN Silenced \cup {i} ELSE Silenced \ {i}
      /\ Over' = IF i \in Over' THEN Over \cup {i} ELSE Over \ {i}
  BY <1>2, OneMoves
<1>4. Consistent(i) /\ (i \in doomed => pc \in Leaving)
  BY DEF SlotProtocol, Consistent
<1>5. pipe_to_parent[i] # <<>> =>
        Busy(i) /\ i \notin mute /\ monitor[i].at \in {"wait", "killed"}
  BY <1>4, OnlyReported
<1>m. /\ i \in Uncounted <=> monitor[i].at = "tell1" \/ pipe_to_parent[i] = <<1>>
      /\ i \in Uncounted' <=> monitor'[i].at = "tell1" \/ pipe_to_parent'[i] = <<1>>
      /\ i \in Silenced <=> i \in mute /\ monitor[i].at = "wait"
      /\ i \in Silenced' <=> i \in mute /\ monitor'[i].at = "wait"
      /\ i \in Over <=> slot[i].busy /\ (monitor[i].at \in {"exited", "killed"} \/ i \in Silenced)
      /\ i \in Over' <=> slot[i].busy /\ (monitor'[i].at \in {"exited", "killed"} \/ i \in Silenced')
  BY <1>1 DEF Uncounted, Silenced, Over
<1>z. <<>> # <<1>>
  OBVIOUS
\* A step of this kind is quiet as far as slot i shows.
<1>q. ASSUME UNCHANGED shots, i \in Uncounted' <=> i \in Uncounted, i \in Over' <=> i \in Over,
             pc \notin Leaving => (i \in Silenced' <=> i \in Silenced)
      PROVE  Quiet
  <2>1. /\ Uncounted' = Uncounted /\ Over' = Over
        /\ pc \notin Leaving => Silenced' = Silenced
    BY <1>3, <1>q
  <2> QED BY <1>1, <1>q, <2>1 DEF Quiet
<1>e. ASSUME UNCHANGED shots, slot[i].busy, slot[i].pid \in Pids, i \notin Over, i \in Over',
             i \in Uncounted' => i \in Uncounted,
             pc \notin Leaving => /\ i \notin Silenced
                                  /\ i \in Silenced' => i \in mute
                                  /\ i \in Silenced' => i \notin Uncounted'
                                  /\ i \notin Silenced' => (i \in Uncounted' <=> i \in Uncounted)
      PROVE  Ends(i)
  <2>1. Over' = Over \cup {i}
    BY <1>3, <1>e
  <2>2. CASE i \in Uncounted' <=> i \in Uncounted
    <3>1. Uncounted' = Uncounted /\ Uncounted' = IF i \in Uncounted THEN Uncounted ELSE Uncounted \ {i}
      BY <1>3, <2>2
    <3>2. pc \notin Leaving => \/ Silenced' = Silenced
                               \/ i \in mute \ Silenced /\ Silenced' = Silenced \cup {i}
      BY <1>3, <1>e
    <3>3. CASE i \in Uncounted
      <4>1. Uncounted' = Uncounted
        BY <3>1
      <4>2. pc \notin Leaving => Silenced' = Silenced
        BY <1>e, <1>3, <3>3, <2>2
      <4> QED BY <1>1, <1>e, <2>1, <4>1, <4>2 DEF Ends
    <3>4. CASE i \notin Uncounted
      <4>1. Uncounted' = Uncounted /\ Uncounted' = Uncounted \ {i}
        BY <3>1, <3>4
      <4> QED BY <1>1, <1>e, <2>1, <3>2, <4>1 DEF Ends
    <3> QED BY <3>3, <3>4
  <2>3. CASE i \in Uncounted /\ i \notin Uncounted'
    <3>1. Uncounted' = Uncounted \ {i}
      BY <1>3, <2>3
    <3>2. pc \in Leaving \/ (i \in mute \ Silenced /\ Silenced' = Silenced \cup {i})
      BY <1>3, <1>e, <2>3
    <3> QED BY <1>1, <1>e, <2>1, <3>1, <3>2 DEF Ends
  <2> QED BY <1>e, <2>2, <2>3
\* A monitor on its target.
<1>6. ASSUME monitor[i].at \in Working
      PROVE  /\ slot[i].busy /\ slot[i].pid \in Pids /\ pipe_to_parent[i] = <<>>
             /\ i \notin Over /\ i \notin Silenced
  <2>1. AtWork(i)
    BY <1>4, <1>6
    DEF Consistent, Forms, Unused, Free, Busy, OnTarget, Assigned, Reported, GaveUp, Killed,
        Unreset, Unborn, Unheard, Deserted, Working
  <2> QED BY <1>6, <1>m, <2>1 DEF AtWork, OnTarget, Busy, Working
<1>7. CASE Wake(i) \/ Probe(i)
  <2>1. /\ UNCHANGED <<pipe_to_parent, shots>> /\ monitor[i].at \in {"sleep", "probe"}
        /\ monitor'[i].at \in {"probe", "shoot", "tell0", "exited", "killed"}
        /\ monitor'[i].at = "killed" => i \in doomed
    BY <1>7, <1>t DEF Wake, Probe, Becomes, After, Monitor, pipes
  <2>2. monitor[i].at \in Working
    BY <2>1 DEF Working
  <2>3. CASE monitor'[i].at \in {"exited", "killed"}
    BY <1>m, <1>e, <1>6, <2>1, <2>2, <2>3
  <2>4. CASE monitor'[i].at \notin {"exited", "killed"}
    BY <1>m, <1>q, <1>6, <2>1, <2>2, <2>4
  <2> QED BY <2>3, <2>4
<1>8. CASE Shoot(i)
  <2>1. /\ UNCHANGED pipe_to_parent /\ monitor[i].at = "shoot" /\ shots' = shots + 1
        /\ monitor'[i].at = IF i \in doomed THEN "killed" ELSE "tell1"
    <3>1. /\ UNCHANGED pipe_to_parent /\ shots' = shots + 1 /\ monitor[i].at = "shoot"
          /\ monitor' = [monitor EXCEPT ![i].at = After(i, "tell1")]
      BY <1>8 DEF Shoot, Becomes, pipes
    <3> QED BY <1>t, <3>1 DEF After, Monitor
  <2>2. /\ slot[i].busy /\ slot[i].pid \in Pids /\ pipe_to_parent[i] = <<>>
        /\ i \notin Over /\ i \notin Silenced /\ i \notin Uncounted
    BY <1>6, <1>m, <1>z, <2>1 DEF Working
  <2>3. CASE i \in doomed
    <3>1. i \notin Uncounted' /\ i \in Over'
      BY <1>m, <2>1, <2>2, <2>3
    <3>2. Uncounted' = Uncounted /\ Over' = Over \cup {i}
      BY <1>3, <2>2, <3>1
    <3> QED BY <1>1, <1>4, <2>1, <2>2, <2>3, <3>2 DEF Ends
  <2>4. CASE i \notin doomed
    <3>1. i \in Uncounted' /\ i \notin Over' /\ i \notin Silenced'
      BY <1>m, <2>1, <2>2, <2>4
    <3>2. Uncounted' = Uncounted \cup {i} /\ Over' = Over /\ Silenced' = Silenced
      BY <1>3, <2>2, <3>1
    <3> QED BY <1>1, <2>1, <2>2, <3>2 DEF Fires
  <2> QED BY <2>3, <2>4
<1>9. CASE Tell(i)
  <2>1. PICK r \in {0, 1} :
          /\ Becomes(i, IF r = 1 THEN "tell1" ELSE "tell0", "wait")
          /\ pipe_to_parent' = IF i \in mute THEN pipe_to_parent
                               ELSE [pipe_to_parent EXCEPT ![i] = Append(@, r)]
    BY <1>9 DEF Tell
  <2>2. /\ monitor[i].at = IF r = 1 THEN "tell1" ELSE "tell0"
        /\ monitor'[i].at = IF i \in doomed THEN "killed" ELSE "wait"
    BY <1>t, <2>1 DEF Becomes, After, Monitor
  <2>3. /\ slot[i].busy /\ slot[i].pid \in Pids /\ pipe_to_parent[i] = <<>>
        /\ i \notin Over /\ i \notin Silenced
    BY <1>6, <2>2 DEF Working
  <2>4. pipe_to_parent'[i] = IF i \in mute THEN <<>> ELSE <<r>>
    BY <1>t, <2>1, <2>3
  <2>5. UNCHANGED shots
    BY <1>9 DEF Tell
  <2>6. i \in mute => i \notin Uncounted'
    BY <1>m, <2>2, <2>4
  <2>7. i \notin mute => (i \in Uncounted' <=> i \in Uncounted) /\ i \notin Silenced'
    BY <1>m, <2>2, <2>3, <2>4
  <2>8. CASE i \in doomed \/ i \in mute
    <3>1. i \in Over' /\ (i \in Silenced' => i \in mute) /\ (i \notin doomed => i \in Silenced')
      BY <1>m, <2>2, <2>3, <2>8
    <3> QED BY <1>4, <1>e, <2>3, <2>5, <2>6, <2>7, <3>1
  <2>9. CASE i \notin doomed /\ i \notin mute
    <3>1. i \notin Over' /\ i \notin Silenced'
      BY <1>m, <2>2, <2>9
    <3> QED BY <1>q, <2>3, <2>5, <2>7, <2>9, <3>1
  <2> QED BY <2>8, <2>9
<1>10. CASE TakeAssignment(i)
  <2>1. /\ monitor[i].at = "wait" /\ UNCHANGED <<pipe_to_parent, shots>> /\ pipe_to_child[i] # <<>>
        /\ monitor'[i].at = IF i \in doomed THEN "killed" ELSE "sleep"
    BY <1>10, <1>t DEF TakeAssignment, After
  <2>2. Assigned(i)
    BY <1>4, <2>1
    DEF Consistent, Forms, Unused, Free, Busy, OnTarget, AtWork, Reported, GaveUp, Killed,
        Unreset, Unborn, Unheard, Deserted, Working
  <2>3. /\ slot[i].busy /\ slot[i].pid \in Pids /\ i \notin mute /\ i \notin Uncounted
        /\ i \notin Uncounted' /\ i \notin Over /\ i \notin Silenced /\ i \notin Silenced'
    BY <1>m, <2>1, <2>2 DEF Assigned, Busy
  <2>4. i \in Over' <=> i \in doomed
    BY <1>m, <2>1, <2>3
  <2> QED BY <1>e, <1>q, <2>1, <2>3, <2>4
<1>11. CASE Dies(i)
  <2>1. /\ i \in doomed /\ pc \in Leaving /\ UNCHANGED <<pipe_to_parent, shots>>
        /\ monitor[i].at \notin {"none", "exited", "killed"} /\ monitor'[i].at = "killed"
    BY <1>11, <1>t, <1>4 DEF Dies, Monitor, pipes
  <2>2. i \in Uncounted' => i \in Uncounted
    BY <1>m, <2>1
  <2>3. CASE slot[i].busy /\ i \notin Over
    <3>1. slot[i].pid \in Pids
      BY <1>4, <2>1, <2>3
      DEF Consistent, Forms, Unused, Free, Busy, OnTarget, Assigned, AtWork, Reported, GaveUp,
          Killed, Unreset, Unborn, Unheard, Deserted, IdleSlot
    <3>2. i \in Over'
      BY <1>m, <2>1, <2>3
    <3> QED BY <1>e, <2>1, <2>2, <2>3, <3>1, <3>2
  <2>4. CASE ~slot[i].busy
    <3>1. i \notin Over /\ i \notin Over' /\ monitor[i].at \notin Working
      BY <1>m, <1>6, <2>4
    <3>2. i \notin Uncounted
      BY <1>m, <1>5, <2>4, <3>1 DEF Busy, Working
    <3> QED BY <1>q, <2>1, <2>2, <3>1, <3>2
  <2>5. CASE slot[i].busy /\ i \in Over
    <3>1. i \in Over' /\ i \in mute /\ monitor[i].at = "wait"
      <4>1. i \in Silenced
        BY <1>m, <2>1, <2>5
      <4>2. i \in Over'
        BY <1>m, <2>1, <2>5
      <4> QED BY <4>1, <4>2 DEF Silenced
    <3>2. i \notin Uncounted
      BY <1>m, <1>5, <1>z, <3>1
    <3> QED BY <1>q, <2>1, <2>2, <2>5, <3>1, <3>2
  <2> QED BY <2>3, <2>4, <2>5
<1> QED BY <1>7, <1>8, <1>9, <1>10, <1>11 DEF Child

\* The parent reads the pipe of slot k.
LEMMA CollectEffect ==
  ASSUME TypeOK, TypeOK', SlotProtocol, Drain \/ LastRead, ReadReport(k)
  PROVE  k \in Slots /\ Collects(k)
<1>t. pipe_to_parent \in [Slots -> Seq({0, 1})] /\ slot \in [Slots -> Slot]
      /\ process_count \in 0 .. MAX_PROCESSES
  BY DEF TypeOK
<1>1. k \in Slots /\ UNCHANGED <<monitor, mute, deaf, doomed, shots, pipe_to_child>>
  BY <1>t, BoundsAssumption DEF Drain, LastRead, Slots, TypeOK, BoundsAssumption, marks
<1>2. /\ Busy(k) /\ k \notin mute /\ monitor[k].at \in {"wait", "killed"}
      /\ pc \notin Leaving => Reported(k)
      /\ pipe_to_parent' = [pipe_to_parent EXCEPT ![k] = <<>>]
      /\ total_processes_killed' = total_processes_killed + (IF k \in Uncounted THEN 1 ELSE 0)
  BY <1>1, ReadEffect
<1>3. UNCHANGED slot \/ (Drain /\ slot' = [slot EXCEPT ![k] = IdleSlot])
  BY DEF Drain, LastRead
<1>4. \A j \in Slots \ {k} : Same(j)
  BY <1>1, <1>2, <1>3, <1>t DEF Same
<1>5. /\ k \notin Uncounted' /\ k \notin Silenced /\ k \notin Silenced'
  BY <1>1, <1>2, <1>t DEF Uncounted, Silenced
<1>6. Drain => k \notin Over /\ k \notin Over'
  <2> SUFFICES ASSUME Drain PROVE k \notin Over /\ k \notin Over'
    OBVIOUS
  <2>1. monitor[k].at = "wait"
    BY <1>2 DEF Drain, Leaving, Reported
  <2> QED BY <1>1, <1>5, <2>1 DEF Over
<1>7. ~Drain => (k \in Over' <=> k \in Over)
  BY <1>1, <1>3, <1>5 DEF Over
<1>8. Uncounted' = Uncounted \ {k} /\ Over' = Over /\ Silenced' = Silenced
  BY <1>1, <1>4, <1>5, <1>6, <1>7, OneMoves
<1> QED BY <1>1, <1>2, <1>3, <1>6, <1>8 DEF Collects

LEMMA Effects ==
  ASSUME TypeOK, TypeOK', SlotProtocol, [Next]_vars
  PROVE  Effect
<1>q. Quiet => Effect
  BY DEF Effect
<1> USE DEF machine, server, orders, scan, parent, pipes, marks, pool
<1>1. CASE Machine \/ Server \/ UNCHANGED vars
  <2>1. Quiet
    BY <1>1, StillEffect DEF Machine, ProcStart, ProcExit, Server, ServerSend, ServerQuit,
       ServerCrash, ResetArrives, vars
  <2> QED BY <1>q, <2>1
<1>2. CASE \/ Poll \/ SkipScan \/ BeginScan \/ ScanLine \/ ScanOverrun \/ PopenFails
           \/ EndScan \/ NextLine \/ EndAssign \/ StopMonitor \/ Finish
  <2>1. Quiet
    BY <1>2, StillEffect DEF Poll, SkipScan, BeginScan, ScanLine, ScansLine, ScanOverrun,
       PopenFails, EndScan, NextLine, EndAssign, StopMonitor, Finish, Leaving
  <2> QED BY <1>q, <2>1
<1>3. ASSUME NEW o \in Seen, AlreadyMonitored(o) \/ Overrun(o) PROVE Effect
  <2>1. Quiet
    BY <1>3, StillEffect DEF AlreadyMonitored, Overrun, Visit, Leaving
  <2> QED BY <1>q, <2>1
<1>4. ASSUME NEW o \in Seen, Takes(o) PROVE Effect
  BY <1>4, <1>q, TakesEffect
<1>5. CASE Drain \/ LastRead
  <2>1. CASE ReadReport(k)
    BY <1>5, <2>1, CollectEffect DEF Effect
  <2>2. CASE NoReport(k)
    <3>1. pipe_to_parent[k] = <<>> /\ ~ReadReport(k)
      BY <2>2 DEF NoReport, ReadReport
    <3>2. Quiet
      BY <1>5, <2>2, <3>1, StillEffect DEF Drain, LastRead, NoReport
    <3> QED BY <1>q, <3>2
  <2> QED BY <1>5, <2>1, <2>2 DEF Drain, LastRead
<1>6. ASSUME NEW i \in Slots, Child(i) PROVE Effect
  BY <1>6, ChildEffect DEF Effect
<1> QED
  BY <1>1, <1>2, <1>3, <1>4, <1>5, <1>6 DEF Next, Parent, Assign, Takes

LEMMA AccountingNext == TypeOK /\ TypeOK' /\ SlotProtocol /\ Accounting /\ [Next]_vars => Accounting'
<1> SUFFICES ASSUME TypeOK, TypeOK', SlotProtocol, Accounting, [Next]_vars PROVE Accounting'
  OBVIOUS
<1> DEFINE c == Cardinality(Uncounted)
           d == Cardinality(Uncounted')
           s == Cardinality(Silenced)
           t == Cardinality(Silenced')
           Kept == /\ total_processes_killed' + d <= shots'
                   /\ pc' \notin Leaving => shots' <= total_processes_killed' + d + t
<1>s. Uncounted \subseteq Slots /\ Silenced \subseteq Slots
  BY DEF Uncounted, Silenced, TypeOK
<1>1. /\ total_processes_killed \in Nat /\ shots \in Nat /\ c \in Nat /\ s \in Nat
      /\ total_processes_killed + c <= shots
      /\ pc \notin Leaving => shots <= total_processes_killed + c + s
  BY <1>s, Counted DEF TypeOK, Accounting
<1> SUFFICES Kept
  BY DEF Accounting
<1>2. CASE Quiet
  <2>1. /\ d = c /\ UNCHANGED <<total_processes_killed, shots>>
        /\ pc' \notin Leaving => pc \notin Leaving /\ t = s
    BY <1>2 DEF Quiet
  <2> HIDE DEF c, d, s, t
  <2> QED BY <1>1, <2>1
<1>3. ASSUME NEW i \in Slots, Fires(i) PROVE Kept
  <2>1. d = c + 1 /\ t = s
    BY <1>s, <1>3, Counted DEF Fires
  <2>2. UNCHANGED <<pc, total_processes_killed>> /\ shots' = shots + 1
    BY <1>3 DEF Fires
  <2> HIDE DEF c, d, s, t
  <2> QED BY <1>1, <2>1, <2>2
<1>4. ASSUME NEW i \in Slots, Collects(i) PROVE Kept
  <2>1. (d = IF i \in Uncounted THEN c - 1 ELSE c) /\ t = s
    BY <1>s, <1>4, Counted DEF Collects
  <2>2. /\ UNCHANGED shots
        /\ total_processes_killed' = total_processes_killed + (IF i \in Uncounted THEN 1 ELSE 0)
    BY <1>4 DEF Collects
  <2>3. pc \in Leaving => pc' \in Leaving
    BY <1>4 DEF Collects, Drain, LastRead, ReadReport, NoReport, LogOrDie, Leaving
  <2> HIDE DEF c, d, s, t
  <2> QED BY <1>1, <2>1, <2>2, <2>3
<1>5. ASSUME NEW i \in Slots, Ends(i) PROVE Kept
  <2>1. UNCHANGED <<pc, total_processes_killed>>
    BY <1>5 DEF Ends
  <2>2. CASE Uncounted' = Uncounted /\ UNCHANGED shots /\ (pc \notin Leaving => Silenced' = Silenced)
    <3>1. d = c /\ (pc \notin Leaving => t = s)
      BY <2>2
    <3> HIDE DEF c, d, s, t
    <3> QED BY <1>1, <2>1, <2>2, <3>1
  <2>3. CASE /\ Uncounted' = Uncounted \ {i} /\ UNCHANGED shots
             /\ pc \in Leaving \/ (i \in mute \ Silenced /\ Silenced' = Silenced \cup {i})
    <3>1. (d = IF i \in Uncounted THEN c - 1 ELSE c) /\ (pc \notin Leaving => t = s + 1)
      BY <1>s, <2>3, Counted
    <3> HIDE DEF c, d, s, t
    <3> QED BY <1>1, <2>1, <2>3, <3>1
  <2>4. CASE pc \in Leaving /\ Uncounted' = Uncounted /\ shots' = shots + 1
    <3>1. d = c
      BY <2>4
    <3> HIDE DEF c, d, s, t
    <3> QED BY <1>1, <2>1, <2>4, <3>1
  <2> QED BY <1>5, <2>2, <2>3, <2>4 DEF Ends
<1> QED BY <1>2, <1>3, <1>4, <1>5, Effects DEF Effect

\* Until the client begins to leave, every SIGKILL its monitors sent is counted in
\* total_processes_killed or in a report that is still to be read, but for one of each
\* monitor that was forked without a pipe to report in; and no kill is counted twice
\* or without having happened.
THEOREM AccountingHolds == Spec => []Accounting
<1>1. Init => Accounting
  <2> SUFFICES ASSUME Init PROVE Accounting
    OBVIOUS
  <2>1. Uncounted = {} /\ Silenced = {}
    BY DEF Init, Uncounted, Silenced
  <2> QED BY <2>1, FS_EmptySet DEF Init, Accounting
<1>2. TypeOK /\ TypeOK' /\ SlotProtocol /\ Accounting /\ [Next]_vars => Accounting'
  BY AccountingNext
<1> QED BY <1>1, <1>2, TypeCorrect, SlotProtocolHolds, PTL DEF Spec

-----------------------------------------------------------------------------
(***************************************************************************)
(* Reloads and the end.                                                    *)
(***************************************************************************)
\* During a scan the flag is still up, but its configuration is already in force.
ConfigInv == LastConfigWins /\ (pc = "scan" => config = new_config)

\* Whatever is sent while the client is between two scans, the last configuration
\* received is in force once no re-read is pending.
THEOREM LastConfigWinsHolds == Spec => []LastConfigWins
<1>1. Init => ConfigInv
  BY DEF Init, ConfigInv, LastConfigWins
<1>2. ConfigInv /\ [Next]_vars => ConfigInv'
  <2> SUFFICES ASSUME ConfigInv, [Next]_vars PROVE ConfigInv'
    OBVIOUS
  <2> USE DEF machine, server, orders, scan, parent, pipes, marks, pool
  <2>1. CASE Poll
    BY <2>1 DEF Poll, NothingThere, ShortRead, WholeMessage, ShiftedMessage, ConfigInv, LastConfigWins
  <2>2. CASE BeginScan \/ EndScan \/ ScanLine \/ ScanOverrun \/ PopenFails
    BY <2>2 DEF BeginScan, EndScan, ScansLine, ScanLine, ScanOverrun, PopenFails, LogOrDie, ConfigInv, LastConfigWins
  <2>3. CASE Drain \/ SkipScan \/ Assign \/ NextLine \/ EndAssign \/ StopMonitor \/ LastRead \/ Finish
    <3>1. UNCHANGED <<config, new_config, reread_config>> /\ pc' # "scan"
      BY <2>3 DEF Drain, ReadReport, NoReport, SkipScan, NextRound, Assign, AlreadyMonitored,
         Reuse, Fork, ForkFails, Overrun, Visit, NextLine, EndAssign, StopMonitor, LastRead, Finish, LogOrDie
    <3> QED BY <3>1 DEF ConfigInv, LastConfigWins
  <2>4. CASE Machine \/ Server \/ (\E i \in Slots : Child(i)) \/ UNCHANGED vars
    <3>1. UNCHANGED <<config, new_config, reread_config, pc>>
      BY <2>4 DEF Machine, ProcStart, ProcExit, Server, ServerSend, ServerQuit, ServerCrash,
         ResetArrives, Child, Wake, Probe, Shoot, Tell, TakeAssignment, Dies, vars
    <3> QED BY <3>1 DEF ConfigInv, LastConfigWins
  <2> QED BY <2>1, <2>2, <2>3, <2>4 DEF Next, Parent
<1>3. ConfigInv => LastConfigWins
  BY DEF ConfigInv
<1> QED BY <1>1, <1>2, <1>3, PTL DEF Spec

\* The monitors the shutdown loop has passed were sent SIGKILL.
StopInv ==
  /\ pc = "stop" => \A i \in 1 .. process_count : i < k => i \in doomed
  /\ pc = "done" => \A i \in 1 .. process_count : i \in doomed

LEMMA StopNext == TypeOK /\ StopInv /\ [Next]_vars => StopInv'
<1> SUFFICES ASSUME TypeOK, StopInv, [Next]_vars PROVE StopInv'
  OBVIOUS
<1>t. monitor \in [Slots -> Monitor] /\ k \in Nat \ {0} /\ process_count \in 0 .. MAX_PROCESSES
      /\ \A i \in 1 .. process_count : i \in Slots
  BY BoundsAssumption DEF TypeOK, Slots, BoundsAssumption
<1> USE DEF machine, server, orders, scan, parent, pipes, marks, pool
<1>1. CASE Machine \/ Server \/ UNCHANGED vars
  <2>1. UNCHANGED <<pc, k, process_count, doomed>>
    BY <1>1 DEF Machine, ProcStart, ProcExit, Server, ServerSend, ServerQuit, ServerCrash,
       ResetArrives, vars
  <2> QED BY <2>1 DEF StopInv
<1>2. CASE SkipScan \/ EndAssign
  BY <1>2, <1>t DEF SkipScan, EndAssign, NextRound, StopInv
<1>3. CASE \/ Poll \/ Drain \/ BeginScan \/ ScanLine \/ ScanOverrun \/ PopenFails
           \/ EndScan \/ Assign \/ NextLine
  <2>1. pc' \notin {"stop", "done"}
    BY <1>3 DEF Poll, NothingThere, ShortRead, WholeMessage, ShiftedMessage, Drain, ReadReport,
       NoReport, BeginScan, ScansLine, ScanLine, ScanOverrun, PopenFails,
       EndScan, Assign,
       AlreadyMonitored, Reuse, Fork, ForkFails, Overrun, Visit, NextLine, LogOrDie
  <2> QED BY <2>1 DEF StopInv
<1>4. CASE StopMonitor
  BY <1>4 DEF StopMonitor, StopInv
<1>l. CASE LastRead
  <2>1. /\ pc = "stop" /\ k' = k + 1 /\ UNCHANGED <<process_count, doomed>> /\ k \in doomed
        /\ pc' # "done"
    BY <1>l DEF LastRead, ReadReport, NoReport, LogOrDie
  <2>2. \A i \in 1 .. process_count : i < k + 1 => i \in doomed
    BY <1>t, <2>1 DEF StopInv
  <2> QED BY <2>1, <2>2 DEF StopInv
<1>5. CASE Finish
  <2>1. \A i \in 1 .. process_count : i < k
    BY <1>t, <1>5 DEF Finish
  <2> QED BY <1>5, <2>1 DEF Finish, StopInv
<1>6. ASSUME NEW i \in Slots, Child(i) PROVE StopInv'
  <2>1. UNCHANGED <<pc, k, process_count, doomed>>
    BY <1>6 DEF Child, Wake, Probe, Shoot, Tell, TakeAssignment, Dies
  <2> QED BY <2>1 DEF StopInv
<1> QED BY <1>1, <1>2, <1>3, <1>4, <1>l, <1>5, <1>6 DEF Next, Parent

\* When the client has shut down, each slot has no monitor or one that was sent SIGKILL.
LEMMA AllDoomed ==
  ASSUME TypeOK, SlotProtocol, StopInv, pc = "done", NEW i \in Slots, i \notin doomed
  PROVE  monitor[i].at = "none"
<1>1. ~(i <= process_count) /\ Consistent(i)
  BY BoundsAssumption DEF StopInv, TypeOK, Slots, SlotProtocol, BoundsAssumption
<1> QED
  BY <1>1 DEF Consistent, Unused, Free, Assigned, AtWork, Reported, GaveUp, Killed, Unreset,
              Unborn, Unheard, Deserted, Busy, Forms, OnTarget

\* After an orderly shutdown no monitor of the client acts any more, except that one
\* inside a system call when SIGKILL came may finish it.
THEOREM QuietAfterExitHolds == Spec => QuietAfterExit
<1>1. Init => StopInv
  BY DEF Init, StopInv
<1>2. TypeOK /\ StopInv /\ [Next]_vars => StopInv'
  BY StopNext
<1> DEFINE Still ==
      /\ \A i \in Slots : monitor'[i] # monitor[i]
           => monitor[i].at # "killed" /\ monitor'[i].at = "killed"
      /\ monitor' = monitor => UNCHANGED <<pipe_to_parent, shots>>
<1>3. TypeOK /\ SlotProtocol /\ StopInv /\ [Next]_vars => [pc = "done" => Still]_vars
  <2> SUFFICES ASSUME TypeOK, SlotProtocol, StopInv, [Next]_vars, pc = "done"
               PROVE  Still
    OBVIOUS
  <2>1. ASSUME NEW i \in Slots, Child(i) PROVE Still
    <3>1. monitor \in [Slots -> Monitor]
      BY DEF TypeOK
    <3>2. monitor[i].at \notin {"none", "killed"} /\ \A j \in Slots \ {i} : monitor'[j] = monitor[j]
      BY <2>1, <3>1 DEF Child, Wake, Probe, Shoot, Tell, TakeAssignment, Dies, Becomes
    <3>3. i \in doomed
      BY <3>2, AllDoomed
    <3>4. monitor'[i].at = "killed"
      BY <2>1, <3>1, <3>3
      DEF Child, Wake, Probe, Shoot, Tell, TakeAssignment, Dies, Becomes, After, Monitor
    <3> QED BY <3>2, <3>4
  <2>2. ~Parent
    BY DEF Parent, Poll, Drain, SkipScan, BeginScan, ScansLine, ScanLine, ScanOverrun, PopenFails,
       EndScan, Assign, AlreadyMonitored, Reuse, Fork, ForkFails, Overrun, Visit, NextLine,
       EndAssign, StopMonitor, LastRead, Finish
  <2>3. CASE Machine \/ Server \/ UNCHANGED vars
    <3>1. UNCHANGED <<monitor, pipe_to_parent, shots>>
      BY <2>3 DEF Machine, ProcStart, ProcExit, Server, ServerSend, ServerQuit, ServerCrash,
         ResetArrives, vars, pool, pipes
    <3> QED BY <3>1
  <2> HIDE DEF Still
  <2> QED BY <2>1, <2>2, <2>3 DEF Next
<1> QED BY <1>1, <1>2, <1>3, TypeCorrect, SlotProtocolHolds, PTL DEF Spec, QuietAfterExit


-----------------------------------------------------------------------------
(***************************************************************************)
(* What is true where the runs Orphans and PidReuse find a violation.      *)
(***************************************************************************)
\* A client that ends by its shutdown loop has sent SIGKILL to every monitor.
NoneLeft == pc = "done" => \A i \in Slots : monitor[i].at = "none" \/ i \in doomed

\* "The program handles SIGINT by killing all child processes" is true of a client that
\* reaches the end of its main(): the loop of main.c:354-396 leaves no monitor out, so
\* that only one that ends on a log line before it (NoOrphans) leaves any behind.
THEOREM NoneLeftHolds == Spec => []NoneLeft
<1>1. Init => StopInv
  BY DEF Init, StopInv
<1>2. TypeOK /\ StopInv /\ [Next]_vars => StopInv'
  BY StopNext
<1>3. TypeOK /\ SlotProtocol /\ StopInv => NoneLeft
  BY AllDoomed DEF NoneLeft
<1> QED BY <1>1, <1>2, <1>3, TypeCorrect, SlotProtocolHolds, PTL DEF Spec

\* Whatever the scan has seen, and a slot is set on, did run under its pid, perhaps
\* before the process that has the pid now.
AimInv ==
  /\ \A p \in Pids : proc[p] # NoName => gen[p] >= 1
  /\ \A l \in 1 .. Len(snap) : \A o \in snap[l].seen : o.gen \in 1 .. gen[o.pid]
  /\ \A i \in Slots : slot[i].busy => slot[i].pid \in Pids /\ slot[i].aim \in 1 .. gen[slot[i].pid]

LEMMA AimInit == Init => AimInv
<1> SUFFICES ASSUME Init PROVE AimInv
  OBVIOUS
<1>1. snap = <<>> /\ Len(snap) = 0 /\ \A l : l \notin 1 .. 0
  BY DEF Init
<1>2. \A i \in Slots : ~slot[i].busy
  BY DEF Init, IdleSlot
<1>3. \A p \in Pids : proc[p] # NoName => gen[p] = 1
  BY DEF Init
<1> QED BY <1>1, <1>2, <1>3 DEF AimInv

\* No pid gets fewer processes, and only a scan adds to the snapshot.
LEMMA AimMoves ==
  ASSUME TypeOK, AimInv, [Next]_vars
  PROVE  /\ \A p \in Pids : gen[p] \in Nat /\ gen'[p] \in Nat /\ gen[p] <= gen'[p]
         /\ \A p \in Pids : proc'[p] # NoName => gen'[p] >= 1
         /\ ScanLine \/ UNCHANGED snap \/ NextLine \/ \E o \in Seen : Visit(o)
<1>t. gen \in [Pids -> 0 .. MaxGen] /\ proc \in [Pids -> Names \cup {NoName}] /\ MaxGen \in Nat
  BY BoundsAssumption DEF TypeOK, BoundsAssumption
<1> USE DEF machine, server, orders, scan, parent, pipes, marks, pool
<1>1. ASSUME NEW p \in Pids, ProcStart(p)
      PROVE  /\ \A q \in Pids : gen'[q] \in Nat /\ gen[q] <= gen'[q]
             /\ \A q \in Pids : proc'[q] # NoName => gen'[q] >= 1
             /\ UNCHANGED snap
  <2>1. \A q \in Pids : gen'[q] = IF q = p THEN gen[p] + 1 ELSE gen[q]
    BY <1>t, <1>1 DEF ProcStart
  <2>2. \A q \in Pids : q # p => proc'[q] = proc[q]
    BY <1>t, <1>1 DEF ProcStart
  <2> QED BY <1>t, <1>1, <2>1, <2>2 DEF ProcStart, AimInv
<1>2. ASSUME NEW p \in Pids, NEW q, proc' = [proc EXCEPT ![q] = NoName], gen' = gen
      PROVE  proc'[p] # NoName => gen'[p] >= 1
  BY <1>t, <1>2 DEF AimInv
<1>3. CASE \E p \in Pids : ProcStart(p)
  BY <1>t, <1>1, <1>3
<1>4. CASE (\E p \in Pids : ProcExit(p)) \/ \E i \in Slots : Shoot(i)
  <2>1. gen' = gen /\ UNCHANGED snap /\ \E q : proc' = [proc EXCEPT ![q] = NoName]
    BY <1>4 DEF ProcExit, Shoot
  <2>2. \A p \in Pids : proc'[p] # NoName => gen'[p] >= 1
    BY <1>2, <2>1, Zenon
  <2> QED BY <1>t, <2>1, <2>2
<1>5. CASE ~\E p \in Pids : ProcStart(p) \/ ProcExit(p)
  <2>1. CASE \E i \in Slots : Shoot(i)
    BY <1>4, <2>1
  <2>2. CASE ~\E i \in Slots : Shoot(i)
    <3>1. UNCHANGED machine /\ (ScanLine \/ UNCHANGED snap \/ NextLine \/ \E o \in Seen : Visit(o))
      BY <1>5, <2>2 DEF Next, Machine, Server, ServerSend, ServerQuit, ServerCrash,
         ResetArrives, Parent, Poll, Drain, SkipScan, BeginScan, ScansLine, ScanLine, ScanOverrun,
         PopenFails, EndScan, Assign, AlreadyMonitored, Reuse, Fork, ForkFails, Overrun, Visit,
         NextLine, EndAssign, StopMonitor, LastRead, Finish, Child, Wake, Probe, Tell, TakeAssignment, Dies, vars
    <3> QED BY <1>t, <3>1 DEF AimInv
  <2> QED BY <2>1, <2>2
<1> QED BY <1>3, <1>4, <1>5

LEMMA AimSnap ==
  ASSUME TypeOK, AimInv, [Next]_vars
  PROVE  \A l \in 1 .. Len(snap') : \A o \in snap'[l].seen : o.gen \in 1 .. gen'[o.pid]
<1>t. /\ snap \in Seq(Line) /\ gen \in [Pids -> 0 .. MaxGen] /\ MaxGen \in Nat
      /\ Len(snap) \in Nat
      /\ \A l \in 1 .. Len(snap) : snap[l].seen \subseteq Seen
  <2>1. snap \in Seq(Line)
    BY DEF TypeOK, Line
  <2>2. \A l \in 1 .. Len(snap) : snap[l] \in Line
    BY <2>1
  <2>3. \A line \in Line : line.seen \subseteq Seen
    BY DEF Line
  <2> QED BY <2>1, <2>2, <2>3, BoundsAssumption DEF TypeOK, BoundsAssumption
<1>1. \A p \in Pids : gen[p] \in Nat /\ gen'[p] \in Nat /\ gen[p] <= gen'[p]
  BY AimMoves
<1>2. \A o \in Seen : o.pid \in Pids /\ o.gen \in Int
  BY <1>t DEF Seen
<1>3. ASSUME NEW l \in 1 .. Len(snap), NEW o \in snap[l].seen PROVE o.gen \in 1 .. gen'[o.pid]
  <2>1. o.gen \in 1 .. gen[o.pid] /\ o \in Seen
    BY <1>t DEF AimInv
  <2> QED BY <1>1, <1>2, <2>1
<1>4. CASE UNCHANGED snap
  BY <1>3, <1>4
<1>5. ASSUME NEW o \in Seen, Visit(o)
      PROVE  \A l \in 1 .. Len(snap') : \A p \in snap'[l].seen : p.gen \in 1 .. gen'[p.pid]
  <2>1. snap # <<>> /\ snap' = [snap EXCEPT ![1].seen = @ \ {o}]
    BY <1>5 DEF Visit
  <2>2. Len(snap') = Len(snap) /\ \A l \in 1 .. Len(snap) : snap'[l].seen \subseteq snap[l].seen
    BY <1>t, <2>1 DEF Line
  <2> QED BY <1>3, <2>2
<1>6. CASE NextLine
  <2>1. /\ Len(snap') = Len(snap) - 1
        /\ \A l \in 1 .. Len(snap') : snap'[l] = snap[l + 1]
    BY <1>t, <1>6, HeadTailProperties DEF NextLine
  <2>2. \A l \in 1 .. Len(snap') : l + 1 \in 1 .. Len(snap)
    BY <1>t, <2>1
  <2> QED BY <1>3, <2>1, <2>2
<1>7. CASE ScanLine
  <2> DEFINE seen == PidOf(config[k].name)
             line == [ttk |-> config[k].ttk, seen |-> seen]
  <2>1. snap' = Append(snap, line) /\ UNCHANGED gen /\ proc' = proc
    BY <1>7 DEF ScanLine, machine
  <2>2. \A o \in seen : o.gen \in 1 .. gen[o.pid]
    <3>1. config[k].name # NoName
      <4>1. config[k] \in Entry
        BY <1>7, ConfigsAssumption DEF ScanLine, ScansLine, TypeOK, ConfigsAssumption
      <4> QED BY <4>1, NamesAssumption DEF Entry, NamesAssumption
    <3>2. ASSUME NEW o \in seen PROVE o.gen \in 1 .. gen[o.pid]
      <4>1. PICK p \in Pids : o = [pid |-> p, gen |-> gen[p]] /\ proc[p] = config[k].name
        BY DEF PidOf
      <4> QED BY <1>1, <3>1, <4>1 DEF AimInv
    <3> QED BY <3>2
  <2> HIDE DEF seen
  <2>3. /\ Len(snap') = Len(snap) + 1 /\ snap'[Len(snap) + 1] = line
        /\ \A l \in 1 .. Len(snap) : snap'[l] = snap[l]
    BY <1>t, <2>1
  <2>4. \A l \in 1 .. Len(snap') : l \in 1 .. Len(snap) \/ l = Len(snap) + 1
    BY <1>t, <2>3
  <2>5. line.seen = seen
    OBVIOUS
  <2> HIDE DEF line
  <2> QED BY <1>3, <2>1, <2>2, <2>3, <2>4, <2>5
<1> QED BY <1>4, <1>5, <1>6, <1>7, AimMoves

LEMMA AimNext == TypeOK /\ AimInv /\ [Next]_vars => AimInv'
<1> SUFFICES ASSUME TypeOK, AimInv, [Next]_vars PROVE AimInv'
  OBVIOUS
<1>1. /\ \A p \in Pids : gen[p] \in Nat /\ gen'[p] \in Nat /\ gen[p] <= gen'[p]
      /\ \A p \in Pids : proc'[p] # NoName => gen'[p] >= 1
  BY AimMoves
<1>2. slot \in [Slots -> Slot] /\ \A i \in Slots : slot[i].busy => slot[i].pid \in Pids
  BY DEF TypeOK, AimInv
<1>3. ASSUME NEW i \in Slots, slot[i].busy, slot'[i] = slot[i]
      PROVE  slot'[i].pid \in Pids /\ slot'[i].aim \in 1 .. gen'[slot'[i].pid]
  <2>1. slot[i].aim \in 1 .. gen[slot[i].pid] /\ slot[i].pid \in Pids
    BY <1>2, <1>3 DEF AimInv
  <2> QED BY <1>1, <1>3, <2>1
<1>4. \A i \in Slots : slot'[i].busy => slot'[i].pid \in Pids /\ slot'[i].aim \in 1 .. gen'[slot'[i].pid]
  <2>1. CASE ~SlotStep
    BY <1>3, <2>1, SlotUnchanged
  <2>2. CASE Drain
    <3>1. slot' = slot \/ slot' = [slot EXCEPT ![k] = IdleSlot]
      BY <2>2 DEF Drain
    <3>2. \A j \in Slots : slot'[j].busy => slot'[j] = slot[j]
      BY <1>2, <3>1 DEF IdleSlot
    <3> QED BY <1>3, <3>2
  <2>3. ASSUME NEW o \in Seen, Reuse(o) \/ Fork(o) \/ ForkFails(o)
        PROVE  \A i \in Slots : slot'[i].busy =>
                 slot'[i].pid \in Pids /\ slot'[i].aim \in 1 .. gen'[slot'[i].pid]
    <3>1. /\ Visit(o) /\ \E j : Watch(j, o)
      BY <2>3 DEF Reuse, Fork, ForkFails
    <3>2. PICK j : Watch(j, o)
      BY <3>1
    <3>3. o.gen \in 1 .. gen[o.pid] /\ gen' = gen
      <4>1. 1 \in 1 .. Len(snap) /\ o \in snap[1].seen /\ gen' = gen
        BY <3>1 DEF Visit, machine, TypeOK
      <4> QED BY <4>1 DEF AimInv
    <3>4. \A i \in Slots : \/ slot'[i] = slot[i]
                           \/ slot'[i].aim = o.gen /\ slot'[i].pid = o.pid
      BY <1>2, <3>2 DEF Watch
    <3>5. o.pid \in Pids
      BY <3>1, SnapStep
    <3> QED BY <1>3, <3>3, <3>4, <3>5
  <2> QED BY <2>1, <2>2, <2>3 DEF SlotStep
<1> QED BY <1>1, <1>4, AimSnap DEF AimInv

\* The process a monitor is about to kill.
NeverEarlier ==
  \A i \in Slots : monitor[i].at = "shoot" => slot[i].aim \in 1 .. gen[monitor[i].pid]

\* "They check to see if the process they are set to monitor still exists": kill_process
\* can meet another process than the one the scan had seen only if that one has ended and
\* its pid was given again since, which is what RightTarget leaves out.
THEOREM NeverEarlierHolds == Spec => []NeverEarlier
<1>1. Init => AimInv
  BY AimInit
<1>2. TypeOK /\ AimInv /\ [Next]_vars => AimInv'
  BY AimNext
<1>3. SlotProtocol /\ AimInv => NeverEarlier
  <2> SUFFICES ASSUME SlotProtocol, AimInv, NEW i \in Slots, monitor[i].at = "shoot"
               PROVE  slot[i].aim \in 1 .. gen[monitor[i].pid]
    BY DEF NeverEarlier
  <2>1. Consistent(i)
    BY DEF SlotProtocol
  <2>2. slot[i].busy /\ monitor[i].pid = slot[i].pid
    BY <2>1 DEF Consistent, Unused, Free, Assigned, AtWork, Reported, GaveUp, Killed, Unreset,
                Unborn, Unheard, Deserted, Busy, Forms, OnTarget
  <2> QED BY <2>2 DEF AimInv
<1> QED BY <1>1, <1>2, <1>3, TypeCorrect, SlotProtocolHolds, PTL DEF Spec
=============================================================================
