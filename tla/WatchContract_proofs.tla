------------------------ MODULE WatchContract_proofs ------------------------
(***************************************************************************)
(* MonitorPool implements WatchContract: initial states map to initial     *)
(* states, and every step to a step of the contract or to a stutter.       *)
(***************************************************************************)
EXTENDS MonitorPool_proofs

-----------------------------------------------------------------------------
(***************************************************************************)
(* The sets of processes the contract speaks of are images of sets of busy *)
(* slots, one to one because no two slots watch the same process.          *)
(***************************************************************************)
\* The processes of a set of slots.
Of(S)     == {slot[i].pid : i \in S}
BusySlots == {i \in Slots : slot[i].busy}

LEMMA Images ==
  /\ Watched = Of(BusySlots) /\ Struck = Of(Uncounted)
  /\ UnheardOf = Of(mute) /\ OverFor = Of(Over)
BY DEF Of, BusySlots, Watched, Struck, UnheardOf, OverFor

\* A kill that is not counted yet is the kill of a watched process, and so is what a
\* monitor without its report pipe will do.
LEMMA AllBusy ==
  ASSUME TypeOK, SlotProtocol
  PROVE  /\ Uncounted \subseteq BusySlots /\ Over \subseteq BusySlots /\ mute \subseteq BusySlots
         /\ Uncounted \subseteq Slots /\ Over \subseteq Slots /\ mute \subseteq Slots
<1>1. ASSUME NEW i \in Slots, i \in Uncounted \/ i \in mute
      PROVE  slot[i].busy
  <2>1. Consistent(i) /\ (monitor[i].at = "tell1" \/ pipe_to_parent[i] = <<1>> \/ i \in mute)
    BY <1>1 DEF Uncounted, SlotProtocol
  <2>2. <<>> # <<1>>
    OBVIOUS
  <2> QED
    BY <2>1, <2>2
    DEF Consistent, Forms, Unused, Free, Busy, OnTarget, Assigned, AtWork, Reported, GaveUp,
        Killed, Unreset, Unborn, Unheard, Deserted
<1>2. Uncounted \subseteq Slots /\ Over \subseteq BusySlots /\ mute \subseteq Slots
  BY DEF Uncounted, Over, BusySlots, TypeOK
<1> QED BY <1>1, <1>2 DEF BusySlots

LEMMA ImageOne ==
  ASSUME UniqueMonitor, NEW i \in BusySlots, NEW S, S \subseteq BusySlots
  PROVE  /\ slot[i].pid \in Of(S) <=> i \in S
         /\ Of(S \ {i}) = Of(S) \ {slot[i].pid}
         /\ Of(S \cup {i}) = Of(S) \cup {slot[i].pid}
<1>1. \A j \in S : slot[j].pid = slot[i].pid => j = i
  BY DEF UniqueMonitor, BusySlots
<1> QED BY <1>1 DEF Of

\* A step that leaves the slots of a set alone.
LEMMA SameImage ==
  ASSUME NEW S, \A i \in S : slot'[i] = slot[i]
  PROVE  {slot'[i].pid : i \in S} = Of(S)
BY DEF Of

\* What a step that leaves every slot alone makes of the contract's sets.
LEMMA SameSlots ==
  ASSUME UNCHANGED <<slot, mute>>
  PROVE  /\ Watched' = Watched /\ UnheardOf' = UnheardOf
         /\ Struck' = Of(Uncounted') /\ OverFor' = Of(Over')
BY DEF Watched, Struck, UnheardOf, OverFor, Of

-----------------------------------------------------------------------------
\* The parent takes a slot: the contract's Watch.
LEMMA WatchStep ==
  ASSUME TypeOK, SlotProtocol, UniqueMonitor, Quiet, NEW o \in Seen, Takes(o)
  PROVE  Contract!Watch(o.pid) /\ o.pid \in Pids
<1>1. PICK i \in Slots : /\ ~slot[i].busy /\ slot'[i].busy /\ slot'[i].pid = o.pid
                         /\ \A j \in Slots \ {i} : slot'[j] = slot[j]
                         /\ mute' \in {mute, mute \cup {i}}
  BY Filled DEF Takes
<1>2. o.pid \in Pids /\ o.pid \notin Watched
  BY Filled DEF Takes, Watched
<1>3. \A j \in BusySlots : j \in Slots \ {i} /\ slot'[j] = slot[j]
  BY <1>1 DEF BusySlots
<1>4. Watched' = Watched \cup {o.pid}
  <2>1. \A j \in Slots : slot'[j].busy <=> slot[j].busy \/ j = i
    BY <1>1
  <2> QED BY <1>1, <2>1 DEF Watched
<1>5. Struck' = Struck /\ OverFor' = OverFor
  <2>1. /\ {slot'[j].pid : j \in Uncounted} = Of(Uncounted)
        /\ {slot'[j].pid : j \in Over} = Of(Over)
    BY <1>3, AllBusy, SameImage
  <2> QED BY <2>1 DEF Quiet, Struck, OverFor, Of
<1>6. UnheardOf' \in {UnheardOf, UnheardOf \cup {o.pid}}
  <2>1. {slot'[j].pid : j \in mute} = UnheardOf
    BY <1>3, AllBusy, SameImage, Images
  <2>2. UnheardOf' = {slot'[j].pid : j \in mute'}
    BY DEF UnheardOf
  <2>3. {slot'[j].pid : j \in mute \cup {i}} = {slot'[j].pid : j \in mute} \cup {o.pid}
    BY <1>1
  <2> QED BY <1>1, <2>1, <2>2, <2>3
<1>7. pc \notin Leaving
  BY DEF Takes, Reuse, Fork, ForkFails, Visit, Leaving
<1>8. UNCHANGED <<shots, total_processes_killed>>
  BY DEF Quiet
<1> QED
  BY <1>2, <1>4, <1>5, <1>6, <1>7, <1>8 DEF Contract!Watch, Contract!MayLeave

\* A report is collected: the contract's Count when it tells of a kill, and when not
\* its Lift, or nothing where the slot is not set free.
LEMMA CollectStep ==
  ASSUME TypeOK, SlotProtocol, UniqueMonitor, NEW i \in Slots, Collects(i)
  PROVE  [Contract!Next]_Contract!vars
<1> DEFINE p == slot[i].pid
<1>1. i \in BusySlots /\ p \in Pids /\ i \notin mute
  BY ReadEffect DEF Collects, Busy, BusySlots
<1>2. /\ p \in Watched /\ p \notin UnheardOf
      /\ p \in Struck <=> i \in Uncounted
      /\ p \in OverFor <=> i \in Over
      /\ Of(Uncounted \ {i}) = Struck \ {p}
  BY <1>1, AllBusy, ImageOne, Images
<1>3. /\ Uncounted' = Uncounted \ {i} /\ Over' = Over /\ UNCHANGED <<mute, shots>>
      /\ i \in Over => UNCHANGED slot
      /\ total_processes_killed' = total_processes_killed + (IF i \in Uncounted THEN 1 ELSE 0)
      /\ Drain \/ LastRead
      /\ ReadReport(i) /\ i = k
  BY DEF Collects
<1>4. /\ pc \in Leaving => pc' \in Leaving
      /\ \/ UNCHANGED slot /\ pc' \in Leaving
         \/ slot' = [slot EXCEPT ![i] = IdleSlot]
  BY <1>3 DEF Drain, LastRead, ReadReport, NoReport, LogOrDie, Leaving
<1>5. i \notin Uncounted => pc' = pc
  <2>1. i \notin Uncounted => Head(pipe_to_parent[i]) # 1
    <3>1. pipe_to_parent[i] \in {<<0>>, <<1>>}
      BY <1>3, OnlyReported DEF SlotProtocol, ReadReport
    <3>2. Head(<<0>>) = 0
      OBVIOUS
    <3> QED BY <3>1, <3>2 DEF Uncounted
  <2> QED BY <1>3, <2>1 DEF ReadReport
<1>6. UNCHANGED slot =>
        Watched' = Watched /\ Struck' = Struck \ {p} /\ UnheardOf' = UnheardOf /\ OverFor' = OverFor
  BY <1>2, <1>3, SameSlots, Images
<1>7. ASSUME slot' = [slot EXCEPT ![i] = IdleSlot], i \notin Over
      PROVE  /\ Watched' = Watched \ {p} /\ Struck' = Struck \ {p}
             /\ UnheardOf' = UnheardOf /\ OverFor' = OverFor
  <2>1. (\A j \in Slots \ {i} : slot'[j] = slot[j]) /\ ~slot'[i].busy
    BY <1>7 DEF TypeOK, IdleSlot
  <2>2. BusySlots' = BusySlots \ {i}
    BY <2>1 DEF BusySlots
  <2>3. /\ {slot'[j].pid : j \in BusySlots \ {i}} = Of(BusySlots \ {i})
        /\ {slot'[j].pid : j \in Uncounted \ {i}} = Of(Uncounted \ {i})
        /\ {slot'[j].pid : j \in mute} = Of(mute)
        /\ {slot'[j].pid : j \in Over} = Of(Over)
    BY <1>1, <1>7, <2>1, AllBusy, SameImage DEF BusySlots
  <2>4. Watched' = {slot'[j].pid : j \in BusySlots \ {i}}
    BY <2>2 DEF Watched, BusySlots
  <2>5. Of(BusySlots \ {i}) = Watched \ {p}
    BY <1>1, ImageOne, Images
  <2> QED BY <1>2, <1>3, <2>3, <2>4, <2>5 DEF Struck, UnheardOf, OverFor, Of
<1>o. slot' = [slot EXCEPT ![i] = IdleSlot] => i \notin Over
  BY <1>1, <1>3 DEF TypeOK, BusySlots, IdleSlot
<1> HIDE DEF p
<1>8. /\ Struck' = Struck \ {p} /\ UnheardOf' = UnheardOf /\ OverFor' = OverFor
      /\ (Watched' = Watched \ {p} /\ i \notin Over) \/ (pc' \in Leaving /\ Watched' = Watched)
  BY <1>4, <1>6, <1>7, <1>o
<1>9. total_processes_killed \in Nat
  BY DEF TypeOK
<1>10. CASE i \in Uncounted
  <2>1. total_processes_killed' = total_processes_killed + 1
    BY <1>3, <1>10
  <2>2. Contract!Count(p)
    BY <1>2, <1>3, <1>4, <1>8, <1>10, <2>1 DEF Contract!Count, Contract!MayLeave
  <2> QED BY <1>1, <2>2 DEF Contract!Next, p
<1>11. CASE i \notin Uncounted
  <2>1. UNCHANGED <<pc, total_processes_killed>> /\ Struck' = Struck
    BY <1>2, <1>3, <1>5, <1>8, <1>9, <1>11
  <2>2. CASE Watched' = Watched
    BY <1>3, <1>8, <2>1, <2>2, Images DEF Contract!vars
  <2>3. CASE Watched' = Watched \ {p} /\ i \notin Over
    <3>1. Contract!Lift(p)
      BY <1>2, <1>3, <1>8, <1>11, <2>1, <2>3 DEF Contract!Lift
    <3> QED BY <1>1, <3>1 DEF Contract!Next, p
  <2> QED BY <1>8, <2>2, <2>3
<1> QED BY <1>10, <1>11

LEMMA ContractStep ==
  ASSUME TypeOK, TypeOK', SlotProtocol, UniqueMonitor, [Next]_vars
  PROVE  [Contract!Next]_Contract!vars
<1>1. CASE Quiet /\ UNCHANGED <<slot, mute>>
  <2>1. /\ Watched' = Watched /\ Struck' = Struck /\ UnheardOf' = UnheardOf /\ OverFor' = OverFor
        /\ UNCHANGED <<total_processes_killed, shots>>
        /\ pc \in Leaving => pc' \in Leaving
    BY <1>1, SameSlots, Images DEF Quiet
  <2>2. CASE (pc \in Leaving) = (pc' \in Leaving)
    BY <2>1, <2>2 DEF Contract!vars
  <2>3. CASE (pc \in Leaving) # (pc' \in Leaving)
    BY <2>1, <2>3 DEF Contract!Next, Contract!Leave
  <2> QED BY <2>2, <2>3
<1>2. ASSUME Quiet, NEW o \in Seen, Takes(o) PROVE [Contract!Next]_Contract!vars
  BY <1>2, WatchStep DEF Contract!Next
<1>3. ASSUME NEW i \in Slots, Fires(i) PROVE [Contract!Next]_Contract!vars
  <2> DEFINE p == slot[i].pid
  <2>1. /\ i \in BusySlots /\ p \in Pids /\ UNCHANGED <<slot, pc, mute, total_processes_killed>>
        /\ Uncounted' = Uncounted \cup {i} /\ Over' = Over /\ shots' = shots + 1
        /\ i \notin Uncounted \cup Over
    BY <1>3 DEF Fires, BusySlots
  <2>2. p \in Watched \ (Struck \cup OverFor) /\ Of(Uncounted \cup {i}) = Struck \cup {p}
    BY <2>1, AllBusy, ImageOne, Images
  <2>3. /\ Watched' = Watched /\ Struck' = Struck \cup {p} /\ UnheardOf' = UnheardOf
        /\ OverFor' = OverFor
    BY <2>1, <2>2, SameSlots, Images
  <2>4. Contract!Strike(p)
    BY <2>1, <2>2, <2>3 DEF Contract!Strike
  <2> QED BY <2>1, <2>4 DEF Contract!Next
<1>4. ASSUME NEW i \in Slots, Ends(i) PROVE [Contract!Next]_Contract!vars
  <2> DEFINE p == slot[i].pid
  <2>1. /\ i \in BusySlots /\ p \in Pids /\ UNCHANGED <<slot, pc, mute, total_processes_killed>>
        /\ i \notin Over /\ Over' = Over \cup {i}
    BY <1>4 DEF Ends, BusySlots
  <2>2. /\ p \in Watched \ OverFor /\ (p \in Struck <=> i \in Uncounted)
        /\ i \in mute => p \in UnheardOf
        /\ Of(Uncounted \ {i}) = Struck \ {p} /\ Of(Over \cup {i}) = OverFor \cup {p}
        /\ Of(Uncounted) = Struck
    BY <2>1, AllBusy, ImageOne, Images
  <2>3. /\ Watched' = Watched /\ Struck' = Of(Uncounted') /\ UnheardOf' = UnheardOf
        /\ OverFor' = OverFor \cup {p}
    BY <2>1, <2>2, SameSlots
  <2>4. \/ Struck' = Struck /\ UNCHANGED shots
        \/ (i \in mute \/ pc \in Leaving) /\ Struck' = Struck \ {p} /\ UNCHANGED shots
        \/ pc \in Leaving /\ i \notin Uncounted /\ shots' = shots + 1 /\ Struck' = Struck
    BY <1>4, <2>2, <2>3 DEF Ends
  <2>5. Contract!GiveUp(p)
    BY <2>1, <2>2, <2>3, <2>4 DEF Contract!GiveUp
  <2>6. p \in Pids
    BY <2>1
  <2> HIDE DEF p
  <2> QED BY <2>5, <2>6 DEF Contract!Next
<1> QED BY <1>1, <1>2, <1>3, <1>4, Effects, CollectStep DEF Effect, Quiet

\* The pool of monitors keeps the contract for any number of processes and slots: a
\* process is watched by one monitor and killed at most once per watch, and each kill
\* is counted exactly once, unless its monitor was forked without a pipe to report in
\* or the client is leaving.
THEOREM ContractKept == Spec => KeepsContract
<1>1. Init => Contract!Init
  <2> SUFFICES ASSUME Init PROVE Contract!Init
    OBVIOUS
  <2>1. Watched = {} /\ Struck = {} /\ UnheardOf = {} /\ OverFor = {}
    BY DEF Init, Watched, Struck, Uncounted, Over, UnheardOf, OverFor, IdleSlot
  <2> QED BY <2>1 DEF Init, Contract!Init, Leaving
<1>2. TypeOK /\ TypeOK' /\ SlotProtocol /\ UniqueMonitor /\ [Next]_vars
        => [Contract!Next]_Contract!vars
  BY ContractStep
<1> QED
  BY <1>1, <1>2, TypeCorrect, SlotProtocolHolds, UniqueMonitorHolds, PTL
  DEF Spec, KeepsContract, Contract!Spec
=============================================================================
