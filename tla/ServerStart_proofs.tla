-------------------------- MODULE ServerStart_proofs --------------------------
(***************************************************************************)
(* Proofs about the servers that are started on one host, for any number   *)
(* of them.  Of two that have taken their snapshots, one has still to kill *)
(* the other, or has done so.                                              *)
(***************************************************************************)
EXTENDS ServerStart, TLAPS

\* The servers that have taken their snapshot.
Snapped(i) == stage[i] \in {"listed", "killing", "armed", "struck", "unbound", "serving"}

\* A server has a target only between the probe and the strike, and none is left
\* for it when it comes out of the take-over.
Staged ==
  \A i \in Servers :
    /\ target[i] # {} => stage[i] = "armed"
    /\ stage[i] \in {"unbound", "serving"} => group[i] \subseteq {i}

Order ==
  \A i, j \in Servers :
    i # j /\ Runs(i) /\ Runs(j) /\ Snapped(i) /\ Snapped(j)
      => i \in group[j] \cup target[j] \/ j \in group[i] \cup target[i]

\* Who had ended when another was started has not come back.
Ended == \A i \in Servers : before[i] \cap alive = {} /\ \A j \in before[i] : Started(j)

Cleared ==
  \A i \in Servers :
    /\ stage[i] \notin {"off", "started"} => before[i] \cap main_log = {}
    /\ stage[i] \notin {"off", "started", "cleared"} => before[i] \cap info_log = {}

Listed ==
  \A i \in Servers :
    i \in alive /\ stage[i] \notin {"off", "started", "cleared", "nameless"}
      => i \in info_log \/ \E j \in Servers : Overlaps(i, j)

IInv == TypeOK /\ Staged /\ Order /\ Ended /\ Cleared /\ Listed

-----------------------------------------------------------------------------
\* Every step leaves each variable in its type.
LEMMA TypeNext ==
  ASSUME TypeOK, Next
  PROVE  TypeOK'
<1> USE DEF TypeOK, Stages, logs, port, procs
<1>exp. CASE Expire
  BY <1>exp DEF Expire
<1> SUFFICES ASSUME NEW s \in Servers, Start(s) \/ main(s) \/ Serve(s) \/ Fail(s) \/ Exit(s)
                PROVE  TypeOK'
  BY <1>exp DEF Next
<1>1. CASE Start(s)
  BY <1>1 DEF Start
<1>2. CASE clear_log_file(s)
  BY <1>2 DEF clear_log_file, Moves
<1>3. CASE clear_server_log_file(s)
  BY <1>3 DEF clear_server_log_file, Moves
<1>4. CASE WriteInfo(s)
  BY <1>4 DEF WriteInfo, Moves
<1>5. CASE get_process_group_by_name(s)
  BY <1>5 DEF get_process_group_by_name, Moves
<1>6. CASE WriteMain(s)
  BY <1>6 DEF WriteMain, Moves
<1>7. CASE Probe(s)
  BY <1>7 DEF Probe, Victims, Moves
<1>8. CASE Strike(s)
  BY <1>8 DEF Strike
<1>9. CASE LogKill(s)
  BY <1>9 DEF LogKill, Moves
<1>10. CASE TakenOver(s)
  BY <1>10 DEF TakenOver, Victims, Moves
<1>11. CASE Bind(s)
  BY <1>11 DEF Bind, Moves
<1>12. CASE Refused(s)
  BY <1>12 DEF Refused, Ends
<1>13. CASE Serve(s)
  BY <1>13 DEF Serve
<1>14. CASE Fail(s)
  BY <1>14 DEF Fail, Ends
<1>15. CASE Exit(s)
  BY <1>15 DEF Exit, Ends
<1> QED
  BY <1>1, <1>2, <1>3, <1>4, <1>5, <1>6, <1>7, <1>8, <1>9, <1>10, <1>11, <1>12, <1>13, <1>14, <1>15 DEF main

\* A target is there only while it is about to be struck, and none is left after.
LEMMA StagedNext ==
  ASSUME TypeOK, Staged, Next
  PROVE  Staged'
<1> USE DEF TypeOK, Staged, logs, port, procs
<1>exp. CASE Expire
  BY <1>exp DEF Expire
<1> SUFFICES ASSUME NEW s \in Servers, Start(s) \/ main(s) \/ Serve(s) \/ Fail(s) \/ Exit(s)
                PROVE  Staged'
  BY <1>exp DEF Next
<1>1. CASE Start(s)
  <2>1. /\ target' = target /\ group' = group
        /\ \A i \in Servers : i # s => stage'[i] = stage[i]
        /\ stage[s] = "off" /\ stage'[s] = "started"
    BY <1>1 DEF Start, Started
  <2> QED
    BY <2>1
<1>2. CASE clear_log_file(s)
  BY <1>2 DEF clear_log_file, Moves
<1>3. CASE clear_server_log_file(s)
  BY <1>3 DEF clear_server_log_file, Moves
<1>4. CASE WriteInfo(s)
  BY <1>4 DEF WriteInfo, Moves
<1>5. CASE get_process_group_by_name(s)
  BY <1>5 DEF get_process_group_by_name, Moves
<1>6. CASE WriteMain(s)
  BY <1>6 DEF WriteMain, Moves
<1>7. CASE Probe(s)
  BY <1>7 DEF Probe, Victims, Moves
<1>8. CASE Strike(s)
  BY <1>8 DEF Strike
<1>9. CASE LogKill(s)
  BY <1>9 DEF LogKill, Moves
<1>10. CASE TakenOver(s)
  BY <1>10 DEF TakenOver, Victims, Moves
<1>11. CASE Bind(s)
  BY <1>11 DEF Bind, Moves
<1>12. CASE Refused(s)
  BY <1>12 DEF Refused, Ends
<1>13. CASE Serve(s)
  BY <1>13 DEF Serve
<1>14. CASE Fail(s)
  BY <1>14 DEF Fail, Ends
<1>15. CASE Exit(s)
  BY <1>15 DEF Exit, Ends
<1> QED
  BY <1>1, <1>2, <1>3, <1>4, <1>5, <1>6, <1>7, <1>8, <1>9, <1>10, <1>11, <1>12, <1>13, <1>14, <1>15 DEF main

\* A snapshot holds all that run, and one leaves it only when it is struck or has ended.
LEMMA OrderNext ==
  ASSUME TypeOK, Staged, Order, Next
  PROVE  Order'
<1> USE DEF TypeOK, Staged, Order, Runs, Snapped, Started, logs, port, procs
<1>exp. CASE Expire
  BY <1>exp DEF Expire
<1> SUFFICES ASSUME NEW s \in Servers, Start(s) \/ main(s) \/ Serve(s) \/ Fail(s) \/ Exit(s)
                PROVE  Order'
  BY <1>exp DEF Next
<1>1. CASE Start(s)
  BY <1>1 DEF Start
<1>2. CASE clear_log_file(s)
  BY <1>2 DEF clear_log_file, Moves
<1>3. CASE clear_server_log_file(s)
  BY <1>3 DEF clear_server_log_file, Moves
<1>4. CASE WriteInfo(s)
  BY <1>4 DEF WriteInfo, Moves
<1>5. CASE get_process_group_by_name(s)
  BY <1>5 DEF get_process_group_by_name, Moves
<1>6. CASE WriteMain(s)
  BY <1>6 DEF WriteMain, Moves
<1>7. CASE Probe(s)
  BY <1>7 DEF Probe, Victims, Moves
<1>8. CASE Strike(s)
  BY <1>8 DEF Strike
<1>9. CASE LogKill(s)
  BY <1>9 DEF LogKill, Moves
<1>10. CASE TakenOver(s)
  BY <1>10 DEF TakenOver, Victims, Moves
<1>11. CASE Bind(s)
  BY <1>11 DEF Bind, Moves
<1>12. CASE Refused(s)
  BY <1>12 DEF Refused, Ends
<1>13. CASE Serve(s)
  BY <1>13 DEF Serve
<1>14. CASE Fail(s)
  BY <1>14 DEF Fail, Ends
<1>15. CASE Exit(s)
  BY <1>15 DEF Exit, Ends
<1> QED
  BY <1>1, <1>2, <1>3, <1>4, <1>5, <1>6, <1>7, <1>8, <1>9, <1>10, <1>11, <1>12, <1>13, <1>14, <1>15 DEF main

\* Who has ended stays so.
LEMMA EndedNext ==
  ASSUME TypeOK, Ended, Next
  PROVE  Ended'
<1> USE DEF TypeOK, Ended, Runs, Started, logs, port, procs
<1>exp. CASE Expire
  BY <1>exp DEF Expire
<1> SUFFICES ASSUME NEW s \in Servers, Start(s) \/ main(s) \/ Serve(s) \/ Fail(s) \/ Exit(s)
                PROVE  Ended'
  BY <1>exp DEF Next
<1>1. CASE Start(s)
  BY <1>1 DEF Start
<1>2. CASE clear_log_file(s)
  BY <1>2 DEF clear_log_file, Moves
<1>3. CASE clear_server_log_file(s)
  BY <1>3 DEF clear_server_log_file, Moves
<1>4. CASE WriteInfo(s)
  BY <1>4 DEF WriteInfo, Moves
<1>5. CASE get_process_group_by_name(s)
  BY <1>5 DEF get_process_group_by_name, Moves
<1>6. CASE WriteMain(s)
  BY <1>6 DEF WriteMain, Moves
<1>7. CASE Probe(s)
  BY <1>7 DEF Probe, Victims, Moves
<1>8. CASE Strike(s)
  BY <1>8 DEF Strike
<1>9. CASE LogKill(s)
  BY <1>9 DEF LogKill, Moves
<1>10. CASE TakenOver(s)
  BY <1>10 DEF TakenOver, Victims, Moves
<1>11. CASE Bind(s)
  BY <1>11 DEF Bind, Moves
<1>12. CASE Refused(s)
  BY <1>12 DEF Refused, Ends
<1>13. CASE Serve(s)
  BY <1>13 DEF Serve
<1>14. CASE Fail(s)
  BY <1>14 DEF Fail, Ends
<1>15. CASE Exit(s)
  BY <1>15 DEF Exit, Ends
<1> QED
  BY <1>1, <1>2, <1>3, <1>4, <1>5, <1>6, <1>7, <1>8, <1>9, <1>10, <1>11, <1>12, <1>13, <1>14, <1>15 DEF main

\* Only servers that run write into the logs.
LEMMA ClearedNext ==
  ASSUME TypeOK, Ended, Cleared, Next
  PROVE  Cleared'
<1> USE DEF TypeOK, Ended, Cleared, Runs, Serves, Started, logs, port, procs
<1>exp. CASE Expire
  BY <1>exp DEF Expire
<1> SUFFICES ASSUME NEW s \in Servers, Start(s) \/ main(s) \/ Serve(s) \/ Fail(s) \/ Exit(s)
                PROVE  Cleared'
  BY <1>exp DEF Next
<1>1. CASE Start(s)
  BY <1>1 DEF Start
<1>2. CASE clear_log_file(s)
  BY <1>2 DEF clear_log_file, Moves
<1>3. CASE clear_server_log_file(s)
  BY <1>3 DEF clear_server_log_file, Moves
<1>4. CASE WriteInfo(s)
  BY <1>4 DEF WriteInfo, Moves
<1>5. CASE get_process_group_by_name(s)
  BY <1>5 DEF get_process_group_by_name, Moves
<1>6. CASE WriteMain(s)
  BY <1>6 DEF WriteMain, Moves
<1>7. CASE Probe(s)
  BY <1>7 DEF Probe, Victims, Moves
<1>8. CASE Strike(s)
  BY <1>8 DEF Strike
<1>9. CASE LogKill(s)
  BY <1>9 DEF LogKill, Moves
<1>10. CASE TakenOver(s)
  BY <1>10 DEF TakenOver, Victims, Moves
<1>11. CASE Bind(s)
  BY <1>11 DEF Bind, Moves
<1>12. CASE Refused(s)
  BY <1>12 DEF Refused, Ends
<1>13. CASE Serve(s)
  BY <1>13 DEF Serve
<1>14. CASE Fail(s)
  BY <1>14 DEF Fail, Ends
<1>15. CASE Exit(s)
  BY <1>15 DEF Exit, Ends
<1> QED
  BY <1>1, <1>2, <1>3, <1>4, <1>5, <1>6, <1>7, <1>8, <1>9, <1>10, <1>11, <1>12, <1>13, <1>14, <1>15 DEF main

\* A line is cleared only by a server that overlaps its writer.
LEMMA ListedNext ==
  ASSUME TypeOK, Ended, Listed, Next
  PROVE  Listed'
<1> USE DEF TypeOK, Ended, Listed, Overlaps, Runs, Serves, Started, logs, port, procs
<1>exp. CASE Expire
  BY <1>exp DEF Expire
<1> SUFFICES ASSUME NEW s \in Servers, Start(s) \/ main(s) \/ Serve(s) \/ Fail(s) \/ Exit(s)
                PROVE  Listed'
  BY <1>exp DEF Next
<1>1. CASE Start(s)
  BY <1>1 DEF Start
<1>2. CASE clear_log_file(s)
  BY <1>2 DEF clear_log_file, Moves
<1>3. CASE clear_server_log_file(s)
  BY <1>3 DEF clear_server_log_file, Moves
<1>4. CASE WriteInfo(s)
  BY <1>4 DEF WriteInfo, Moves
<1>5. CASE get_process_group_by_name(s)
  BY <1>5 DEF get_process_group_by_name, Moves
<1>6. CASE WriteMain(s)
  BY <1>6 DEF WriteMain, Moves
<1>7. CASE Probe(s)
  BY <1>7 DEF Probe, Victims, Moves
<1>8. CASE Strike(s)
  BY <1>8 DEF Strike
<1>9. CASE LogKill(s)
  BY <1>9 DEF LogKill, Moves
<1>10. CASE TakenOver(s)
  BY <1>10 DEF TakenOver, Victims, Moves
<1>11. CASE Bind(s)
  BY <1>11 DEF Bind, Moves
<1>12. CASE Refused(s)
  BY <1>12 DEF Refused, Ends
<1>13. CASE Serve(s)
  BY <1>13 DEF Serve
<1>14. CASE Fail(s)
  BY <1>14 DEF Fail, Ends
<1>15. CASE Exit(s)
  BY <1>15 DEF Exit, Ends
<1> QED
  BY <1>1, <1>2, <1>3, <1>4, <1>5, <1>6, <1>7, <1>8, <1>9, <1>10, <1>11, <1>12, <1>13, <1>14, <1>15 DEF main

-----------------------------------------------------------------------------
\* IInv is inductive.
LEMMA IInvHolds == Spec => []IInv
<1>1. Init => IInv
  BY DEF Init, IInv, TypeOK, Stages, Staged, Order, Ended, Cleared, Listed, Snapped, Runs
<1>2. IInv /\ [Next]_vars => IInv'
  <2>1. CASE UNCHANGED vars
    BY <2>1 DEF IInv, TypeOK, Staged, Order, Ended, Cleared, Listed, Overlaps, Snapped, Runs,
                Started, vars, procs, logs, port
  <2>2. CASE IInv /\ Next
    BY <2>2, TypeNext, StagedNext, OrderNext, EndedNext, ClearedNext, ListedNext DEF IInv
  <2> QED
    BY <2>1, <2>2
<1> QED
  BY <1>1, <1>2, PTL DEF Spec

\* Every reachable state is well typed; only processes that are there are ending
\* (process_manager.c 111-117).
THEOREM StartTypeCorrect == Spec => []TypeOK
<1>1. IInv => TypeOK
  BY DEF IInv
<1> QED
  BY <1>1, IInvHolds, PTL

\* Of two servers that have come out of their take-overs, neither has the other left
\* to kill; by Order one of them has been struck (main.c 99-118).
THEOREM OneServesHolds == Spec => []OneServes
<1>1. IInv => OneServes
  BY DEF IInv, Staged, Order, OneServes, Past, Snapped
<1> QED
  BY <1>1, IInvHolds, PTL

\* A server that serves has written its line, and if the line is gone the server that
\* cleared the file was started while it was there (main.c 86-95).
THEOREM NamedHolds == Spec => []Named
<1>1. IInv => Named
  BY DEF IInv, Listed, Named, Serves, Runs
<1> QED
  BY <1>1, IInvHolds, PTL

\* A server has cleared both logs, and who had ended before writes no more (main.c 85-86).
THEOREM FreshHolds == Spec => []Fresh
<1>1. IInv => Fresh
  BY DEF IInv, Cleared, Fresh, Serves
<1> QED
  BY <1>1, IInvHolds, PTL
=============================================================================
