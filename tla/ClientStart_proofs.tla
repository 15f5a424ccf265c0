-------------------------- MODULE ClientStart_proofs --------------------------
(***************************************************************************)
(* Proofs about the take-over and the configuration file, for any number   *)
(* of clients, monitors and descriptors.  The invariant orders the clients *)
(* by their snapshots: of two that have taken theirs, one is still to kill *)
(* the other.                                                              *)
(***************************************************************************)
EXTENDS ClientStart, TLAPS

\* The clients that have taken their snapshot.
Past(i) == stage[i] = "killing" \/ i \in up

\* A client goes through the start once, and only kills while it does.
Staged ==
  \A i \in Instances :
    /\ i \in up => stage[i] \in {"received", "open", "written", "run", "scanned"}
    /\ stage[i] \in {"run", "scanned"} => i \in up
    /\ stage[i] # "killing" => targets[i] = {}

Order ==
  \A i, j \in Instances :
    i # j /\ Living(i) /\ Living(j) /\ Past(i) /\ Past(j)
      => Client(i) \in targets[j] \/ Client(j) \in targets[i]

After ==
  \A i \in Instances : Past(i) /\ Living(i) =>
    \A p \in alive : p[1] # i /\ p[2] > 0 => p \in missed[i] \/ p \in targets[i]

OwnFile ==
  \A i \in Instances :
    /\ stage[i] = "open" => nanny_config = <<>> \/ i \in touched
    /\ stage[i] = "written" => nanny_config = text[i] \/ i \in touched

IInv == TypeOK /\ Staged /\ Order /\ After

-----------------------------------------------------------------------------
\* Every step leaves each variable in its type.
LEMMA TypeNext ==
  ASSUME TypeOK, Next
  PROVE  TypeOK'
<1>1. PICK i \in Instances :
          \/ Start(i) \/ Receive(i) \/ Open(i) \/ WriteOut(i) \/ Parse(i) \/ pidof(i)
          \/ Kill(i) \/ TakenOver(i) \/ Scan(i) \/ Fork(i) \/ NextRound(i)
          \/ Eggzit(i) \/ Fail(i)
  BY DEF Next
<1> USE StartAssumption, TextsAssumption DEF StartAssumption, TextsAssumption, TypeOK, Pids, Client, Stages, Enters, files, procs
<1>exit. ASSUME Exits(i)
         PROVE  /\ stage' \in [Instances -> Stages] /\ alive' \subseteq Pids
                /\ process_count' \in [Instances -> 0 .. MaxMonitors]
                /\ targets' \in [Instances -> SUBSET Pids]
                /\ fds' \in [Instances -> 0 .. MaxFds]
                /\ missed' \in [Instances -> SUBSET Pids]
  BY <1>exit DEF Exits
<1>2. CASE Start(i)
  BY <1>2 DEF Start
<1>3. CASE Receive(i)
  BY <1>3 DEF Receive
<1>4. CASE Open(i)
  <2>1. CASE Truncate(i)
    BY <1>4, <2>1 DEF Open, Truncate, Disturbs
  <2>2. CASE Exits(i) /\ UNCHANGED <<nanny_config, touched>>
    BY <1>4, <2>2, <1>exit DEF Open
  <2> QED BY <1>4, <2>1, <2>2 DEF Open
<1>5. CASE WriteOut(i)
  <2>1. Over(text[i], nanny_config) \in Seq(Nat)
    BY DEF Over
  <2> QED BY <1>5, <2>1 DEF WriteOut, Disturbs
<1>6. CASE Parse(i)
  <2>1. CASE Exits(i) /\ UNCHANGED config
    BY <1>6, <2>1, <1>exit DEF Parse
  <2>2. CASE ~(Exits(i) /\ UNCHANGED config)
    <3>1. \E s \in {"run", "parsed"} : Enters(i, s)
      BY <1>6, <2>2 DEF Parse
    <3>2. stage' \in [Instances -> Stages]
      BY <3>1
    <3>3. config' = [config EXCEPT ![i] = nanny_config]
      BY <1>6, <2>2 DEF Parse
    <3>4. UNCHANGED <<up, nanny_config, text, touched, procs, fds>>
      BY <1>6, <2>2 DEF Parse
    <3> QED BY <3>2, <3>3, <3>4
  <2> QED BY <2>1, <2>2
<1>7. CASE pidof(i)
  <2>1. CASE Exits(i)
    BY <1>7, <2>1, <1>exit DEF pidof
  <2>2. CASE ~Exits(i)
    <3>1. fds[i] + 1 < MaxFds /\ fds' = [fds EXCEPT ![i] = @ + 1]
      BY <1>7, <2>2 DEF pidof, Opens, Short
    <3>2. fds' \in [Instances -> 0 .. MaxFds]
      BY <3>1
    <3>3. /\ Enters(i, "killing") /\ targets' = [targets EXCEPT ![i] = Others(i)]
          /\ UNCHANGED <<up, files, alive, process_count, missed>>
      BY <1>7, <2>2 DEF pidof, Short
    <3>4. Others(i) \subseteq Pids
      BY DEF Others
    <3> QED BY <3>2, <3>3, <3>4
  <2> QED BY <2>1, <2>2
<1>8. CASE Kill(i)
  <2>1. PICK p \in targets[i] : targets' = [targets EXCEPT ![i] = @ \ {p}] /\ alive' = alive \ {p}
    BY <1>8 DEF Kill
  <2>2. UNCHANGED <<stage, up, files, process_count, missed, fds>>
    BY <1>8 DEF Kill
  <2>3. targets' \in [Instances -> SUBSET Pids] /\ alive' \subseteq Pids
    BY <2>1
  <2> QED BY <2>2, <2>3
<1>9. CASE TakenOver(i)
  BY <1>9 DEF TakenOver
<1>10. CASE Scan(i)
  <2>1. CASE Exits(i)
    BY <1>10, <2>1, <1>exit DEF Scan
  <2>2. CASE ~Exits(i)
    <3>1. Len(config[i]) \in Nat
      OBVIOUS
    <3>2. /\ fds[i] + Len(config[i]) < MaxFds
          /\ fds' = [fds EXCEPT ![i] = @ + Len(config[i])]
          /\ Enters(i, "scanned") /\ UNCHANGED <<up, files, procs>>
      BY <1>10, <2>2 DEF Scan, Opens, Short
    <3>3. fds[i] + Len(config[i]) \in 0 .. MaxFds
      BY <3>1, <3>2
    <3>4. fds' \in [Instances -> 0 .. MaxFds]
      BY <3>2, <3>3
    <3> QED BY <3>2, <3>4
  <2> QED BY <2>1, <2>2
<1>11. CASE Fork(i)
  <2>1. CASE Exits(i)
    BY <1>11, <2>1, <1>exit DEF Fork
  <2>2. CASE ~Exits(i)
    <3>1. Pipes(i) \in 0 .. 2 /\ fds[i] + 2 * Pipes(i) <= MaxFds
      <4>1. \E n \in 0 .. 2 : \A m \in 0 .. 2 : m <= n <=> fds[i] + 2 * m <= MaxFds
        <5>1. fds[i] \in 0 .. MaxFds
          OBVIOUS
        <5> HIDE DEF TypeOK
        <5>2. CASE fds[i] + 4 <= MaxFds
          <6>1. \A m \in 0 .. 2 : m <= 2 <=> fds[i] + 2 * m <= MaxFds
            BY <5>1, <5>2
          <6> QED BY <6>1
        <5>3. CASE fds[i] + 2 <= MaxFds /\ fds[i] + 4 > MaxFds
          <6>1. \A m \in 0 .. 2 : m <= 1 <=> fds[i] + 2 * m <= MaxFds
            BY <5>1, <5>3
          <6> QED BY <6>1
        <5>4. CASE fds[i] + 2 > MaxFds
          <6>1. \A m \in 0 .. 2 : m <= 0 <=> fds[i] + 2 * m <= MaxFds
            BY <5>1, <5>4
          <6> QED BY <6>1
        <5> QED BY <5>1, <5>2, <5>3, <5>4
      <4>2. \A m \in 0 .. 2 : m <= Pipes(i) <=> fds[i] + 2 * m <= MaxFds
        BY <4>1 DEF Pipes
      <4>3. Pipes(i) \in 0 .. 2
        BY <4>1 DEF Pipes
      <4> QED BY <4>2, <4>3
    <3> DEFINE m == <<i, process_count[i] + 1>>
    <3>2. /\ process_count[i] < MaxMonitors
          /\ process_count' = [process_count EXCEPT ![i] = @ + 1]
          /\ alive' = alive \cup {m}
          /\ missed' = [k \in Instances |->
                IF Client(i) \in targets[k] THEN missed[k] \cup {m} ELSE missed[k]]
          /\ fds' = [fds EXCEPT ![i] = @ + 2 * Pipes(i)]
          /\ UNCHANGED <<stage, up, files, targets>>
      BY <1>11, <2>2 DEF Fork
    <3>3. m \in Pids
      BY <3>2
    <3>4. process_count' \in [Instances -> 0 .. MaxMonitors]
      BY <3>2
    <3>5. fds' \in [Instances -> 0 .. MaxFds]
      <4>1. fds[i] + 2 * Pipes(i) \in 0 .. MaxFds
        BY <3>1
      <4> QED BY <3>2, <4>1
    <3>6. missed' \in [Instances -> SUBSET Pids]
      <4> HIDE DEF m
      <4> QED BY <3>2, <3>3
    <3>7. alive' \subseteq Pids
      BY <3>2, <3>3
    <3> QED BY <3>2, <3>4, <3>5, <3>6, <3>7
  <2> QED BY <2>1, <2>2
<1>12. CASE NextRound(i)
  BY <1>12 DEF NextRound
<1>13. CASE Eggzit(i)
  BY <1>13 DEF Eggzit
<1>14. CASE Fail(i)
  BY <1>14, <1>exit DEF Fail
<1> HIDE DEF TypeOK, Pids, Client, Stages, Enters, files, procs, StartAssumption, TextsAssumption
<1> QED BY <1>1, <1>2, <1>3, <1>4, <1>5, <1>6, <1>7, <1>8, <1>9, <1>10, <1>11, <1>12, <1>13, <1>14

LEMMA TypeInit == Init => TypeOK
<1>1. Texts \cup {<<>>} \subseteq Seq(Nat)
  <2>1. Texts \subseteq Seq(Nat)
    BY TextsAssumption DEF TextsAssumption
  <2>2. <<>> \in Seq(Nat)
    OBVIOUS
  <2> QED BY <2>1, <2>2
<1>2. 0 \in 0 .. MaxMonitors /\ 0 \in 0 .. MaxFds
  BY StartAssumption DEF StartAssumption
<1>3. <<>> \in Seq(Nat)
  OBVIOUS
<1>4. Init => nanny_config \in Seq(Nat)
  BY <1>1 DEF Init
<1> QED BY <1>2, <1>3, <1>4 DEF Init, TypeOK, Stages

\* Every variable of a client has its type in every state.
THEOREM TypeCorrect == Spec => []TypeOK
<1>1. Init => TypeOK
  BY TypeInit
<1>2. TypeOK /\ [Next]_vars => TypeOK'
  <2>1. TypeOK /\ Next => TypeOK'
    BY TypeNext
  <2>2. TypeOK /\ UNCHANGED vars => TypeOK'
    BY DEF TypeOK, vars, files, procs
  <2> QED BY <2>1, <2>2
<1> QED BY <1>1, <1>2, PTL DEF Spec

-----------------------------------------------------------------------------
(***************************************************************************)
(* The take-over.  A step is a step of one client, told apart by what it   *)
(* does to the stages, the processes and the snapshots.                    *)
(***************************************************************************)
\* Every step but the take-over's own and a fork starts no process, ends some, and
\* has no client that had not taken its snapshot go past it.
LEMMA OtherSteps ==
  ASSUME TypeOK, Staged, NEW i \in Instances,
         \/ Start(i) \/ Receive(i) \/ Open(i) \/ WriteOut(i) \/ Parse(i)
         \/ Scan(i) \/ NextRound(i) \/ Eggzit(i) \/ Fail(i)
  PROVE  /\ targets' = targets /\ missed' = missed /\ up' = up
         /\ alive' \subseteq alive \cup {Client(i)}
         /\ Client(i) \in alive' => Living(i) \/ stage[i] = "off"
         /\ \A j \in Instances : stage'[j] # stage[j] =>
              /\ j = i /\ stage[i] # "killing" /\ stage'[i] # "killing"
              /\ i \in up <=> stage'[i] \in {"run", "scanned"} \/ i \in up
              /\ i \in up => stage'[i] \in {"received", "open", "written", "run", "scanned"}
              /\ stage[i] = "off" => stage'[i] = "wait"
<1> USE DEF TypeOK, Enters, Exits, Living, files, procs
<1>1. CASE Start(i)
  BY <1>1 DEF Start, Staged
<1>2. CASE Receive(i)
  BY <1>2 DEF Receive, Staged
<1>3. CASE Open(i)
  BY <1>3 DEF Open, Truncate, Staged
<1>4. CASE WriteOut(i)
  BY <1>4 DEF WriteOut, Staged
<1>5. CASE Parse(i)
  BY <1>5 DEF Parse, Staged
<1>6. CASE Scan(i)
  BY <1>6 DEF Scan, Opens, Short, Staged
<1>7. CASE NextRound(i)
  BY <1>7 DEF NextRound, Staged
<1>8. CASE Eggzit(i)
  BY <1>8 DEF Eggzit, Staged
<1>9. CASE Fail(i)
  BY <1>9 DEF Fail, Staged
<1> QED BY <1>1, <1>2, <1>3, <1>4, <1>5, <1>6, <1>7, <1>8, <1>9

LEMMA OtherInv ==
  ASSUME IInv, NEW i \in Instances,
         \/ Start(i) \/ Receive(i) \/ Open(i) \/ WriteOut(i) \/ Parse(i)
         \/ Scan(i) \/ NextRound(i) \/ Eggzit(i) \/ Fail(i)
  PROVE  Staged' /\ Order' /\ After'
<1>1. TypeOK /\ Staged /\ Order /\ After
  BY DEF IInv
<1>2. /\ targets' = targets /\ missed' = missed /\ up' = up
      /\ alive' \subseteq alive \cup {Client(i)}
      /\ Client(i) \in alive' => Living(i) \/ stage[i] = "off"
      /\ \A j \in Instances : stage'[j] # stage[j] =>
           /\ j = i /\ stage[i] # "killing" /\ stage'[i] # "killing"
           /\ i \in up <=> stage'[i] \in {"run", "scanned"} \/ i \in up
           /\ i \in up => stage'[i] \in {"received", "open", "written", "run", "scanned"}
           /\ stage[i] = "off" => stage'[i] = "wait"
  BY <1>1, OtherSteps
<1>3. Staged'
  BY <1>1, <1>2 DEF Staged
<1>4. \A j \in Instances : Past(j)' => Past(j) /\ stage[j] # "off"
  BY <1>1, <1>2 DEF Past, Staged
<1>5. \A j \in Instances : Past(j)' /\ Client(j) \in alive' => Living(j)
  BY <1>2, <1>4 DEF Living, Client
<1>6. Order'
  BY <1>1, <1>2, <1>4, <1>5 DEF Order, Living
<1>7. \A p \in alive' : p[2] > 0 => p \in alive
  BY <1>2 DEF Client
<1>8. After'
  BY <1>1, <1>2, <1>4, <1>5, <1>7 DEF After, Living
<1> QED BY <1>3, <1>6, <1>8

\* The steps of the take-over keep the order, and what is left of the snapshots.
LEMMA TakeOverInv ==
  ASSUME IInv, NEW i \in Instances, pidof(i) \/ Kill(i) \/ TakenOver(i)
  PROVE  Staged' /\ Order' /\ After'
<1> USE DEF IInv, TypeOK, Enters, files, procs
<1>1. CASE pidof(i)
  <2>1. CASE Exits(i)
    BY <1>1, <2>1 DEF pidof, Exits, Staged, Order, After, Past, Living
  <2>2. CASE ~Exits(i)
    <3>1. /\ stage[i] = "parsed" /\ stage' = [stage EXCEPT ![i] = "killing"]
          /\ targets' = [targets EXCEPT ![i] = alive \ {Client(i)}]
          /\ UNCHANGED <<up, alive, missed>>
      BY <1>1, <2>2 DEF pidof, Short, Others
    <3>2. \A j \in Instances \ {i} : stage'[j] = stage[j] /\ targets'[j] = targets[j]
      BY <3>1
    <3>3. stage'[i] = "killing" /\ targets'[i] = alive \ {Client(i)}
      BY <3>1
    <3>4. \A j \in Instances \ {i} : Living(j) => Client(j) \in targets'[i]
      BY <3>3 DEF Living, Client
    <3>5. \A j \in Instances \ {i} : Past(j)' = Past(j)
      BY <3>1, <3>2 DEF Past
    <3>6. Staged'
      BY <3>1, <3>2, <3>3 DEF Staged
    <3>7. Order'
      BY <3>1, <3>2, <3>4, <3>5 DEF Order, Living
    <3>8. \A p \in alive : p[1] # i => p \in targets'[i]
      BY <3>3 DEF Client
    <3>9. After'
      BY <3>1, <3>2, <3>5, <3>8 DEF After, Living
    <3> QED BY <3>6, <3>7, <3>9
  <2> QED BY <2>1, <2>2
<1>2. CASE Kill(i)
  <2>1. PICK p \in targets[i] : targets' = [targets EXCEPT ![i] = @ \ {p}] /\ alive' = alive \ {p}
    BY <1>2 DEF Kill
  <2>2. UNCHANGED <<stage, up, missed>> /\ stage[i] = "killing"
    BY <1>2 DEF Kill
  <2>3. \A j \in Instances : \A q \in targets[j] : q \in targets'[j] \/ q = p
    BY <2>1
  <2>4. \A j \in Instances : targets'[j] \subseteq targets[j]
    BY <2>1
  <2>5. Staged'
    BY <2>2, <2>4 DEF Staged
  <2>6. Order'
    BY <2>1, <2>2, <2>3 DEF Order, Past, Living
  <2>7. After'
    BY <2>1, <2>2, <2>3 DEF After, Past, Living
  <2> QED BY <2>5, <2>6, <2>7
<1>3. CASE TakenOver(i)
  <2>1. /\ stage[i] = "killing" /\ stage' = [stage EXCEPT ![i] = "run"]
        /\ up' = up \cup {i} /\ targets[i] = {} /\ UNCHANGED <<targets, alive, missed>>
    BY <1>3 DEF TakenOver
  <2>2. \A j \in Instances : Past(j)' => Past(j)
    BY <2>1 DEF Past
  <2>3. Staged'
    BY <2>1 DEF Staged
  <2> QED BY <2>1, <2>2, <2>3 DEF Order, After, Living
<1> QED BY <1>1, <1>2, <1>3

\* A monitor that is forked while another client kills is of a client it kills.
LEMMA ForkInv ==
  ASSUME IInv, NEW i \in Instances, Fork(i)
  PROVE  Staged' /\ Order' /\ After'
<1> USE DEF IInv, TypeOK, files, procs
<1>1. CASE Exits(i)
  BY <1>1 DEF Fork, Exits, Staged, Order, After, Past, Living
<1>2. CASE ~Exits(i)
  <2> DEFINE m == <<i, process_count[i] + 1>>
  <2>1. /\ Living(i) /\ stage[i] = "scanned"
        /\ alive' = alive \cup {m}
        /\ missed' = [k \in Instances |->
              IF Client(i) \in targets[k] THEN missed[k] \cup {m} ELSE missed[k]]
        /\ UNCHANGED <<stage, up, targets>>
    BY <1>2 DEF Fork
  <2>2. Staged'
    BY <2>1 DEF Staged
  <2>3. m[2] > 0 /\ m[1] = i
    OBVIOUS
  <2>4. \A j \in Instances : Client(j) \in alive' => Living(j)
    BY <2>1, <2>3 DEF Client, Living
  <2>5. Order'
    BY <2>1, <2>4 DEF Order, Past, Living
  <2>6. ASSUME NEW k \in Instances, k # i, Past(k), Living(k)
        PROVE  m \in missed'[k]
    <3>1. Client(i) \in targets[k] \/ Client(k) \in targets[i]
      BY <2>1, <2>6 DEF Order, Staged, Past
    <3>2. targets[i] = {}
      BY <2>1 DEF Staged
    <3> QED BY <2>1, <3>1, <3>2
  <2>7. \A k \in Instances : missed[k] \subseteq missed'[k]
    BY <2>1
  <2>8. After'
    <3> SUFFICES ASSUME NEW k \in Instances, Past(k)', Living(k)', NEW p \in alive',
                        p[1] # k, p[2] > 0
                 PROVE  p \in missed'[k] \/ p \in targets'[k]
      BY DEF After
    <3>1. Past(k) /\ Living(k)
      BY <2>1, <2>4 DEF Past, Living
    <3>2. CASE p = m
      BY <2>3, <2>6, <3>1, <3>2
    <3>3. CASE p \in alive
      BY <2>1, <2>7, <3>1, <3>3 DEF After
    <3> QED BY <2>1, <3>2, <3>3
  <2> QED BY <2>2, <2>5, <2>8
<1> QED BY <1>1, <1>2

LEMMA IInvInductive ==
  ASSUME IInv, [Next]_vars
  PROVE  IInv'
<1>1. CASE Next
  <2>1. TypeOK'
    BY <1>1, TypeNext DEF IInv
  <2>2. PICK i \in Instances :
          \/ Start(i) \/ Receive(i) \/ Open(i) \/ WriteOut(i) \/ Parse(i) \/ pidof(i)
          \/ Kill(i) \/ TakenOver(i) \/ Scan(i) \/ Fork(i) \/ NextRound(i)
          \/ Eggzit(i) \/ Fail(i)
    BY <1>1 DEF Next
  <2>3. Staged' /\ Order' /\ After'
    BY <2>2, OtherInv, TakeOverInv, ForkInv
  <2> QED BY <2>1, <2>3 DEF IInv
<1>2. CASE UNCHANGED vars
  BY <1>2 DEF IInv, TypeOK, Staged, Order, After, Past, Living, vars, files, procs
<1> QED BY <1>1, <1>2

LEMMA IInvHolds == Spec => []IInv
<1>1. Init => TypeOK
  BY TypeInit
<1>2. Init => Staged /\ Order /\ After
  BY DEF Init, Staged, Order, After, Past, Living
<1>3. IInv /\ [Next]_vars => IInv'
  BY IInvInductive
<1> QED BY <1>1, <1>2, <1>3, PTL DEF Spec, IInv

\* No two clients monitor at the same time.
THEOREM OneRunsHolds == Spec => []OneRuns
<1>1. IInv => OneRuns
  BY DEF IInv, TypeOK, Staged, Order, Past, OneRuns
<1> QED BY <1>1, IInvHolds, PTL

\* A client that monitors has cleared the host of the monitors of its snapshot.
THEOREM ClearedHolds == Spec => []Cleared
<1>1. IInv => Cleared
  BY DEF IInv, TypeOK, Staged, After, Past, Cleared
<1> QED BY <1>1, IInvHolds, PTL

-----------------------------------------------------------------------------
\* What a client writes to the file it has truncated is all there is in it.
LEMMA OverEmpty ==
  ASSUME NEW t \in Seq(Nat)
  PROVE  Over(t, <<>>) = t
<1>1. SubSeq(<<>>, Len(t) + 1, Len(<<>>)) = <<>>
  OBVIOUS
<1> QED BY <1>1 DEF Over

\* A client that no other client disturbs has in the file what it wrote there.
LEMMA OwnInductive ==
  ASSUME TypeOK, OwnFile, OwnText, [Next]_vars
  PROVE  OwnFile' /\ OwnText'
<1> USE DEF TypeOK, OwnFile, OwnText, Enters, files, procs
<1>exit. ASSUME NEW i \in Instances, Exits(i), UNCHANGED files
         PROVE  OwnFile' /\ OwnText'
  BY <1>exit DEF Exits
<1>1. ASSUME NEW i \in Instances, Start(i)
      PROVE  OwnFile' /\ OwnText'
  BY <1>1 DEF Start
<1>2. ASSUME NEW i \in Instances, Receive(i)
      PROVE  OwnFile' /\ OwnText'
  BY <1>2 DEF Receive
<1>3. ASSUME NEW i \in Instances, Open(i)
      PROVE  OwnFile' /\ OwnText'
  <2>1. CASE Truncate(i)
    <3>1. /\ stage' = [stage EXCEPT ![i] = "open"] /\ nanny_config' = <<>>
          /\ touched' = (touched \ {i}) \cup Disturbs(i) /\ UNCHANGED <<text, config>>
      BY <1>3, <2>1 DEF Open, Truncate
    <3> QED BY <3>1 DEF Disturbs
  <2>2. CASE Exits(i) /\ UNCHANGED <<nanny_config, touched>>
    BY <1>3, <2>2, <1>exit DEF Open
  <2> QED BY <1>3, <2>1, <2>2 DEF Open
<1>4. ASSUME NEW i \in Instances, WriteOut(i)
      PROVE  OwnFile' /\ OwnText'
  <2>1. /\ stage[i] = "open" /\ stage' = [stage EXCEPT ![i] = "written"]
        /\ nanny_config' = Over(text[i], nanny_config)
        /\ touched' = touched \cup Disturbs(i) /\ UNCHANGED <<text, config>>
    BY <1>4 DEF WriteOut
  <2>2. nanny_config' = text[i] \/ i \in touched
    BY <2>1, OverEmpty
  <2> QED BY <2>1, <2>2 DEF Disturbs
<1>5. ASSUME NEW i \in Instances, Parse(i)
      PROVE  OwnFile' /\ OwnText'
  <2>1. CASE Exits(i) /\ UNCHANGED config
    BY <1>5, <2>1, <1>exit DEF Parse
  <2>2. CASE ~(Exits(i) /\ UNCHANGED config)
    <3>1. /\ stage[i] = "written" /\ config' = [config EXCEPT ![i] = nanny_config]
          /\ UNCHANGED <<nanny_config, text, touched>>
      BY <1>5, <2>2 DEF Parse
    <3>2. PICK s \in {"run", "parsed"} : stage' = [stage EXCEPT ![i] = s]
      BY <1>5, <2>2 DEF Parse
    <3> QED BY <3>1, <3>2
  <2> QED BY <2>1, <2>2
<1>6. ASSUME NEW i \in Instances, pidof(i)
      PROVE  OwnFile' /\ OwnText'
  <2>1. CASE Exits(i)
    BY <1>6, <2>1, <1>exit DEF pidof
  <2>2. CASE ~Exits(i)
    BY <1>6, <2>2 DEF pidof, Short
  <2> QED BY <2>1, <2>2
<1>7. ASSUME NEW i \in Instances, Kill(i) \/ TakenOver(i) \/ NextRound(i) \/ Eggzit(i)
      PROVE  OwnFile' /\ OwnText'
  BY <1>7 DEF Kill, TakenOver, NextRound, Eggzit
<1>8. ASSUME NEW i \in Instances, Scan(i)
      PROVE  OwnFile' /\ OwnText'
  <2>1. CASE Exits(i)
    BY <1>8, <2>1, <1>exit DEF Scan
  <2>2. CASE ~Exits(i)
    BY <1>8, <2>2 DEF Scan, Short
  <2> QED BY <2>1, <2>2
<1>9. ASSUME NEW i \in Instances, Fork(i)
      PROVE  OwnFile' /\ OwnText'
  <2>1. UNCHANGED <<stage, files>>
    BY <1>9 DEF Fork, Exits
  <2> QED BY <2>1
<1>10. ASSUME NEW i \in Instances, Fail(i)
       PROVE  OwnFile' /\ OwnText'
  BY <1>10, <1>exit DEF Fail
<1>11. CASE UNCHANGED vars
  BY <1>11 DEF vars
<1> HIDE DEF TypeOK, OwnFile, OwnText, Enters, files, procs
<1> QED BY <1>1, <1>2, <1>3, <1>4, <1>5, <1>6, <1>7, <1>8, <1>9, <1>10, <1>11 DEF Next

\* A client has what it was sent, or another wrote the file as it read it.
THEOREM OwnTextHolds == Spec => []OwnText
<1>1. Init => OwnFile /\ OwnText
  BY DEF Init, OwnFile, OwnText
<1>2. TypeOK /\ OwnFile /\ OwnText /\ [Next]_vars => OwnFile' /\ OwnText'
  BY OwnInductive
<1> QED BY <1>1, <1>2, TypeCorrect, PTL DEF Spec
=============================================================================
