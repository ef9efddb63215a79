--------------------------- MODULE JobRunnerProofs ---------------------------
(***************************************************************************)
(* Theorems about JobRunner, for any number of tasks, nodes, jobs, paths,  *)
(* lock tries and crashes.                                                 *)
(***************************************************************************)
EXTENDS JobRunner, TLAPS

LEMMA PrimaryType == \A t \in Tasks : Primary(t) \in Nodes \cup {NoNode}
BY ConstantsAssumption DEF Primary

LEMMA JobTypes ==
  ASSUME NEW t \in Tasks
  PROVE  /\ NodesOf(t) \subseteq Nodes
         /\ Calls(t) \in Nat
         /\ Paths[JobOf[t]] \in Nat
         /\ AfterPower(t) \in FlushTo
         /\ PowerStep(t) \in FlushTo
BY ConstantsAssumption DEF NodesOf, Calls, AfterPower, PowerStep, FlushTo, Working

LEMMA Frame0Type == Frame0 \in Frames
BY ConstantsAssumption DEF Frame0, Frames, NodeStatus, Active

\* The updates of a task's locals keep their type.
LEMMA FrameTypes ==
  ASSUME frame \in [Tasks -> Frames], NEW t \in Tasks
  PROVE  /\ \A S \in SUBSET Nodes : [frame EXCEPT ![t].todo = S] \in [Tasks -> Frames]
         /\ \A k \in Nat : [frame EXCEPT ![t].left = k] \in [Tasks -> Frames]
         /\ \A k \in Nat : [frame EXCEPT ![t].left = k, ![t].node = NoNode]
                              \in [Tasks -> Frames]
         /\ \A k \in 0..WaitAttempts :
               [frame EXCEPT ![t].tries = k] \in [Tasks -> Frames]
         /\ \A v \in Active \cup Final, s \in NodeStatus :
               [frame EXCEPT ![t].saved = v, ![t].seen = s] \in [Tasks -> Frames]
         /\ \A S \in SUBSET Nodes, n \in Nodes, s \in NodeStatus :
               [frame EXCEPT ![t].todo = S, ![t].node = n, ![t].seen = s]
                 \in [Tasks -> Frames]
BY DEF Frames

LEMMA FrameFields ==
  ASSUME frame \in [Tasks -> Frames], NEW t \in Tasks
  PROVE  /\ frame[t].todo \in SUBSET Nodes
         /\ frame[t].left \in Nat
         /\ frame[t].tries \in 0..WaitAttempts
         /\ frame[t].seen \in NodeStatus
         /\ frame[t].node \in Nodes \cup {NoNode}
         /\ frame[t].saved \in Active \cup Final
BY DEF Frames

LEMMA EndFrame ==
  ASSUME frame \in [Tasks -> Frames], NEW t \in Tasks, NEW v \in Active \cup Final
  PROVE  [frame EXCEPT ![t] = [Frame0 EXCEPT !.saved = v]] \in [Tasks -> Frames]
<1>1. [Frame0 EXCEPT !.saved = v] \in Frames
  BY Frame0Type DEF Frames
<1> QED
  BY <1>1

\* The variables a control-flow operator assigns.
ControlOK ==
  /\ pc \in [Tasks -> PCs]
  /\ then \in [Tasks -> FlushTo]
  /\ rid \in [Tasks -> Ids \cup {0}]
  /\ status \in [Tasks -> Active \cup Final]
  /\ frame \in [Tasks -> Frames]
  /\ running \in [Ids -> Tasks \cup {NoTask}]

RestOK ==
  /\ runs \in [Ids -> Active \cup Final \cup {"none"}]
  /\ locks \in [Nodes -> Ids \cup {0}]
  /\ jobs \subseteq Jobs
  /\ nstatus \in [Nodes -> NodeStatus]
  /\ cancelling \subseteq Ids
  /\ procs \subseteq Tasks
  /\ up \subseteq Nodes
  /\ crashes \in 0..MaxCrashes

LEMMA Split == TypeOK <=> ControlOK /\ RestOK
BY DEF TypeOK, ControlOK, RestOK

LEMMA SplitNext == TypeOK' <=> ControlOK' /\ RestOK'
BY DEF TypeOK, ControlOK, RestOK

LEMMA GotoType ==
  ASSUME ControlOK, NEW t \in Tasks, NEW p \in PCs, Goto(t, p)
  PROVE  pc' \in [Tasks -> PCs]
BY DEF ControlOK, Goto

LEMMA FlushThenType ==
  ASSUME ControlOK, NEW t \in Tasks, NEW p \in FlushTo, FlushThen(t, p)
  PROVE  pc' \in [Tasks -> PCs] /\ then' \in [Tasks -> FlushTo]
BY DEF ControlOK, FlushThen, Goto, PCs

LEMMA EndRunType ==
  ASSUME ControlOK, NEW t \in Tasks, NEW s \in Active \cup Final,
         NEW v \in Active \cup Final, EndSaved(t, s, v) \/ EndRun(t, s)
  PROVE  ControlOK'
<1>1. PICK w \in Active \cup Final : EndSaved(t, s, w)
  BY FrameFields DEF EndRun, ControlOK
<1>2. frame' \in [Tasks -> Frames]
  BY <1>1, EndFrame DEF EndSaved, ControlOK
<1> QED
  BY <1>1, <1>2 DEF ControlOK, EndSaved, Goto, PCs, FlushTo

\* What a flush makes of the table runs.
LEMMA WriteStatusType ==
  ASSUME TypeOK, NEW t \in Tasks, WriteStatus(t)
  PROVE  /\ runs' \in [Ids -> Active \cup Final \cup {"none"}]
         /\ \A i \in Ids : i # rid[t] => runs'[i] = runs[i]
         /\ rid[t] \in Ids => runs'[rid[t]] \in {runs[rid[t]], status[t]}
BY DEF TypeOK, WriteStatus

LEMMA DieType ==
  ASSUME ControlOK, NEW t \in Tasks, Die(t)
  PROVE  ControlOK'
BY Frame0Type DEF ControlOK, Die, Goto, PCs, FlushTo

LEMMA SucceedType ==
  ASSUME ControlOK, NEW t \in Tasks, Succeed(t)
  PROVE  ControlOK'
<1>1. CASE PowersOff(t) \/ JobOf[t] \in OneShot
  <2>1. PICK p \in FlushTo : FlushThen(t, p)
    BY <1>1, JobTypes DEF Succeed, FlushTo, Working
  <2>2. pc' \in [Tasks -> PCs] /\ then' \in [Tasks -> FlushTo]
    BY <2>1, FlushThenType
  <2>3. frame' = [frame EXCEPT ![t].left = Paths[JobOf[t]]]
    BY <1>1 DEF Succeed
  <2>5. frame' \in [Tasks -> Frames]
    BY <2>3, JobTypes, FrameTypes DEF ControlOK
  <2>4. status' \in [Tasks -> Active \cup Final]
    BY <1>1 DEF Succeed, ControlOK, Final
  <2> QED
    BY <1>1, <2>2, <2>5, <2>4 DEF Succeed, ControlOK
<1>2. CASE ~(PowersOff(t) \/ JobOf[t] \in OneShot)
  BY <1>2, EndRunType DEF Succeed, Final
<1> QED
  BY <1>1, <1>2

LEMMA TypeStep == TypeOK /\ [Next]_vars => TypeOK'
<1> SUFFICES ASSUME TypeOK, [Next]_vars PROVE TypeOK'
  OBVIOUS
<1>a. ControlOK /\ RestOK
  BY Split
<1>b. ASSUME ControlOK', RestOK' PROVE TypeOK'
  BY <1>b, SplitNext
<1>c. frame \in [Tasks -> Frames]
  BY <1>a DEF ControlOK
<1>d. \A t \in Tasks : /\ frame[t].todo \in SUBSET Nodes
                       /\ frame[t].left \in Nat
                       /\ frame[t].tries \in 0..WaitAttempts
                       /\ frame[t].seen \in NodeStatus
  BY <1>c, FrameFields
<1> USE ConstantsAssumption
<1>1. ASSUME NEW t \in Tasks, Start(t) PROVE TypeOK'
  BY <1>1, JobTypes, Frame0Type DEF Start, TypeOK, PCs, FlushTo, Working, Active, Final, NodeStatus, Goto, dbVars, taskVars, outVars
<1>2. ASSUME NEW t \in Tasks, Insert(t) PROVE TypeOK'
  BY <1>2, JobTypes, Frame0Type DEF Insert, TypeOK, PCs, FlushTo, Working, Active, Final, NodeStatus, Goto, dbVars, taskVars, outVars
<1>3. ASSUME NEW t \in Tasks, Register(t) PROVE TypeOK'
  <2>1. frame' \in [Tasks -> Frames]
    BY <1>3, <1>a, JobTypes, FrameTypes DEF Register, ControlOK
  <2>2. pc' \in [Tasks -> PCs]
    BY <1>3, <1>a, GotoType DEF Register, PCs, Working
  <2>3. ControlOK'
    BY <1>3, <1>a, <2>1, <2>2 DEF Register, ControlOK
  <2>4. RestOK'
    BY <1>3, <1>a DEF Register, RestOK, dbVars, outVars
  <2> QED
    BY <1>b, <2>3, <2>4
<1>4. ASSUME NEW t \in Tasks, LockBusy(t) PROVE TypeOK'
  BY <1>4, JobTypes, Frame0Type DEF LockBusy, FlushThen, TypeOK, PCs, FlushTo, Working, Active, Final, NodeStatus, Goto, dbVars, taskVars, outVars
<1>5. ASSUME NEW t \in Tasks, LockBusyAgain(t) PROVE TypeOK'
  <2>1. RestOK'
    BY <1>5, <1>a DEF LockBusyAgain, RestOK, dbVars, outVars
  <2>2. CASE frame[t].tries + 1 < WaitAttempts
    <3>1. frame' = [frame EXCEPT ![t].tries = frame[t].tries + 1]
          /\ Goto(t, "sleep") /\ UNCHANGED <<then, rid, status, running>>
      BY <1>5, <1>c, <1>d, <2>2 DEF LockBusyAgain
    <3>2. frame[t].tries + 1 \in 0..WaitAttempts
      BY <1>d, <2>2
    <3>3. frame' \in [Tasks -> Frames]
      BY <1>c, <3>1, <3>2, FrameTypes
    <3> QED
      BY <1>a, <1>b, <2>1, <3>1, <3>3, GotoType DEF ControlOK, PCs
  <2>3. CASE EndRun(t, "failed")
    BY <1>a, <1>b, <2>1, <2>3, EndRunType DEF Final
  <2> QED
    BY <1>5, <2>2, <2>3 DEF LockBusyAgain
<1>6. ASSUME NEW t \in Tasks, LockFree(t) PROVE TypeOK'
  BY <1>6, JobTypes, Frame0Type DEF LockFree, TypeOK, PCs, FlushTo, Working, Active, Final, NodeStatus, Goto, dbVars, taskVars, outVars
<1>7. ASSUME NEW t \in Tasks, LockInsert(t) PROVE TypeOK'
  <2>1. pc' \in [Tasks -> PCs] /\ then' \in [Tasks -> FlushTo]
    BY <1>7, <1>a DEF LockInsert, FlushThen, Goto, ControlOK, PCs, FlushTo, Working
  <2>2. ControlOK'
    BY <1>7, <1>a, <2>1 DEF LockInsert, ControlOK, Active
  <2>3. RestOK'
    BY <1>7, <1>a DEF LockInsert, TakeLock, ControlOK, RestOK, outVars
  <2> QED
    BY <1>b, <2>2, <2>3
<1>8. ASSUME NEW t \in Tasks, LockConflict(t) PROVE TypeOK'
  BY <1>8, JobTypes, Frame0Type DEF LockConflict, Die, TypeOK, PCs, FlushTo, Working, Active, Final, NodeStatus, Goto, dbVars, taskVars, outVars
<1>9. ASSUME NEW t \in Tasks, WakeUp(t) PROVE TypeOK'
  BY <1>9, JobTypes, Frame0Type DEF WakeUp, TypeOK, PCs, FlushTo, Working, Active, Final, NodeStatus, Goto, dbVars, taskVars, outVars
<1>10. ASSUME NEW t \in Tasks, Flush(t) PROVE TypeOK'
  <2>1. runs' \in [Ids -> Active \cup Final \cup {"none"}]
    BY <1>10, WriteStatusType DEF Flush, FlushWrites
  <2>2. nstatus' \in [Nodes -> NodeStatus]
    BY <1>10, <1>a DEF Flush, FlushWrites, FlushNode, RestOK, NodeStatus
  <2>3. RestOK'
    BY <1>10, <1>a, <2>1, <2>2 DEF Flush, RestOK, outVars
  <2>4. CASE then[t] = "release"
    BY <1>10, <1>a, <1>b, <2>3, <2>4, EndRunType DEF Flush, ControlOK
  <2>5. CASE then[t] # "release"
    <3>1. PICK s \in NodeStatus :
             frame' = [frame EXCEPT ![t].saved = status[t], ![t].seen = s]
      BY <1>10, <1>d, <2>5 DEF Flush, NodeStatus
    <3>2. frame' \in [Tasks -> Frames]
      BY <1>a, <1>c, <3>1, FrameTypes DEF ControlOK
    <3>3. then[t] \in PCs
      BY <1>a DEF ControlOK, FlushTo, PCs
    <3>4. pc' \in [Tasks -> PCs]
      BY <1>10, <1>a, <2>5, <3>3, GotoType DEF Flush
    <3>5. ControlOK'
      BY <1>10, <1>a, <2>5, <3>2, <3>4 DEF Flush, ControlOK, FlushTo
    <3> QED
      BY <1>b, <2>3, <3>5
  <2> QED
    BY <2>4, <2>5
<1>11. ASSUME NEW t \in Tasks, FlushStale(t) PROVE TypeOK'
  BY <1>11, JobTypes, Frame0Type DEF FlushStale, Die, TypeOK, PCs, FlushTo, Working, Active, Final, NodeStatus, Goto, dbVars, taskVars, outVars
<1>12. ASSUME NEW t \in Tasks, LoadNode(t) PROVE TypeOK'
  <2>1. PICK n \in frame[t].todo :
           frame' = [frame EXCEPT ![t].todo = frame[t].todo \ {n},
                                  ![t].node = n, ![t].seen = nstatus[n]]
    BY <1>12, <1>a DEF LoadNode, ControlOK
  <2>2. n \in Nodes /\ frame[t].todo \ {n} \in SUBSET Nodes /\ nstatus[n] \in NodeStatus
    BY <1>a, <1>d DEF RestOK
  <2>3. frame' \in [Tasks -> Frames]
    BY <1>a, <2>1, <2>2, FrameTypes DEF ControlOK
  <2>4. ControlOK'
    BY <1>12, <1>a, <2>3, GotoType DEF LoadNode, ControlOK, PCs, Working
  <2>5. RestOK'
    BY <1>12, <1>a DEF LoadNode, RestOK, dbVars, outVars
  <2> QED
    BY <1>b, <2>4, <2>5
<1>13. ASSUME NEW t \in Tasks, Probe(t) PROVE TypeOK'
  BY <1>13, JobTypes, Frame0Type DEF Probe, FlushThen, TypeOK, PCs, FlushTo, Working, Active, Final, NodeStatus, Goto, dbVars, taskVars, outVars
<1>14. ASSUME NEW t \in Tasks, Wake(t) PROVE TypeOK'
  <2>1. RestOK'
    BY <1>14, <1>a DEF Wake, RestOK, dbVars, outVars
  <2>2. CASE EndRun(t, "failed")
    BY <1>a, <1>b, <2>1, <2>2, EndRunType DEF Final
  <2>3. CASE FlushThen(t, "prepare") /\ UNCHANGED <<rid, status, frame, running>>
    BY <1>a, <1>b, <2>1, <2>3, FlushThenType DEF ControlOK, FlushTo, Working
  <2> QED
    BY <1>14, <2>2, <2>3 DEF Wake
<1>15. ASSUME NEW t \in Tasks, BeginOperation(t) PROVE TypeOK'
  <2>1. RestOK'
    BY <1>15, <1>a DEF BeginOperation, RestOK, dbVars, outVars
  <2>2. CASE Succeed(t)
    BY <1>a, <1>b, <2>1, <2>2, SucceedType
  <2>3. CASE /\ frame' = [frame EXCEPT ![t].left = Calls(t), ![t].node = NoNode]
             /\ FlushThen(t, "call") /\ UNCHANGED <<rid, status, running>>
    <3>1. frame' \in [Tasks -> Frames]
      BY <1>a, <2>3, JobTypes, FrameTypes DEF ControlOK
    <3> QED
      BY <1>a, <1>b, <2>1, <2>3, <3>1, FlushThenType DEF ControlOK, FlushTo, Working
  <2>4. CASE EndRun(t, "failed")
    BY <1>a, <1>b, <2>1, <2>4, EndRunType DEF Active, Final
  <2> QED
    BY <1>15, <2>2, <2>3, <2>4 DEF BeginOperation
<1>16. ASSUME NEW t \in Tasks, CallDone(t) PROVE TypeOK'
  <2>1. RestOK'
    BY <1>16, <1>a DEF CallDone, RestOK, dbVars, outVars
  <2>2. CASE EndRun(t, "failed")
    BY <1>a, <1>b, <2>1, <2>2, EndRunType DEF Final
  <2>3. CASE Succeed(t)
    BY <1>a, <1>b, <2>1, <2>3, SucceedType
  <2>4. CASE /\ frame[t].left > 1
             /\ frame' = [frame EXCEPT ![t].left = frame[t].left - 1]
             /\ FlushThen(t, "call") /\ UNCHANGED <<rid, status, running>>
    <3>1. frame[t].left - 1 \in Nat
      BY <1>d, <2>4
    <3>2. frame' \in [Tasks -> Frames]
      BY <1>c, <2>4, <3>1, FrameTypes
    <3> QED
      BY <1>a, <1>b, <2>1, <2>4, <3>2, FlushThenType DEF ControlOK, FlushTo, Working
  <2>5. frame[t].left > 1 => [frame EXCEPT ![t].left = @ - 1]
                               = [frame EXCEPT ![t].left = frame[t].left - 1]
    BY <1>a DEF ControlOK
  <2> QED
    BY <1>16, <2>2, <2>3, <2>4, <2>5 DEF CallDone
<1>17. ASSUME NEW t \in Tasks, CheckDone(t) PROVE TypeOK'
  <2>1. RestOK'
    BY <1>17, <1>a DEF CheckDone, RestOK, dbVars, outVars
  <2>2. CASE /\ status' = [status EXCEPT ![t] = "failed"]
             /\ FlushThen(t, "release") /\ UNCHANGED frame
    BY <1>17, <1>a, <1>b, <2>1, <2>2, FlushThenType
    DEF CheckDone, ControlOK, FlushTo, Final
  <2>3. CASE /\ frame[t].left > 1
             /\ frame' = [frame EXCEPT ![t].left = @ - 1]
             /\ UNCHANGED <<pc, then, status, procs>>
    <3>1. frame[t].left - 1 \in Nat
      BY <1>d, <2>3
    <3>2. frame' = [frame EXCEPT ![t].left = frame[t].left - 1]
      BY <1>a, <2>3 DEF ControlOK
    <3>3. frame' \in [Tasks -> Frames]
      BY <1>c, <3>1, <3>2, FrameTypes
    <3> QED
      BY <1>17, <1>a, <1>b, <2>1, <2>3, <3>3 DEF CheckDone, ControlOK
  <2>4. CASE FlushThen(t, PowerStep(t)) /\ UNCHANGED <<status, frame>>
    BY <1>17, <1>a, <1>b, <2>1, <2>4, JobTypes, FlushThenType DEF CheckDone, ControlOK
  <2> QED
    BY <1>17, <2>2, <2>3, <2>4 DEF CheckDone
<1>18. ASSUME NEW t \in Tasks, PowerOff(t) PROVE TypeOK'
  BY <1>18, JobTypes, Frame0Type DEF PowerOff, FlushThen, TypeOK, PCs, FlushTo, Working, Active, Final, NodeStatus, Goto, dbVars, taskVars, outVars
<1>19. ASSUME NEW t \in Tasks, MarkOffline(t) PROVE TypeOK'
  <2>1. RestOK'
    BY <1>19, <1>a DEF MarkOffline, RestOK, outVars, NodeStatus
  <2>2. CASE EndRun(t, status[t])
    BY <1>a, <1>b, <2>1, <2>2, EndRunType DEF ControlOK
  <2>3. CASE FlushThen(t, "deleteJob") /\ UNCHANGED <<rid, status, frame, running>>
    BY <1>a, <1>b, <2>1, <2>3, FlushThenType DEF ControlOK, FlushTo, Working
  <2> QED
    BY <1>19, <2>2, <2>3 DEF MarkOffline
<1>20. ASSUME NEW t \in Tasks, DeleteJob(t) PROVE TypeOK'
  BY <1>20, <1>a, <1>b, EndRunType DEF DeleteJob, ControlOK, RestOK, outVars
<1>21. ASSUME NEW t \in Tasks, Release(t) PROVE TypeOK'
  BY <1>21, WriteStatusType DEF Release, TypeOK, PCs, FlushTo, Working, Active, Final, NodeStatus, Goto, dbVars, taskVars, outVars
<1>22. ASSUME NEW t \in Tasks, ReleaseFails(t) PROVE TypeOK'
  BY <1>22, JobTypes, Frame0Type DEF ReleaseFails, Die, TypeOK, PCs, FlushTo, Working, Active, Final, NodeStatus, Goto, dbVars, taskVars, outVars
<1>23. ASSUME NEW t \in Tasks, LogOutput(t) PROVE TypeOK'
  BY <1>23, JobTypes, Frame0Type DEF LogOutput, Die, TypeOK, PCs, FlushTo, Working, Active, Final, NodeStatus, Goto, dbVars, taskVars, outVars
<1>24. ASSUME NEW t \in Tasks, Fault(t) PROVE TypeOK'
  BY <1>24, JobTypes, Frame0Type DEF Fault, Die, TypeOK, PCs, FlushTo, Working, Active, Final, NodeStatus, Goto, dbVars, taskVars, outVars
<1>25. ASSUME NEW t \in Tasks, OrphanExit(t) PROVE TypeOK'
  BY <1>25, JobTypes, Frame0Type DEF OrphanExit, TypeOK, PCs, FlushTo, Working, Active, Final, NodeStatus, Goto, dbVars, taskVars, outVars
<1>26. ASSUME NEW i \in Ids, CancelRequest(i) PROVE TypeOK'
  BY <1>26, JobTypes, Frame0Type DEF CancelRequest, TypeOK, PCs, FlushTo, Working, Active, Final, NodeStatus, Goto, dbVars, taskVars, outVars
<1>27. ASSUME NEW i \in Ids, CancelMiss(i) PROVE TypeOK'
  BY <1>27, JobTypes, Frame0Type DEF CancelMiss, TypeOK, PCs, FlushTo, Working, Active, Final, NodeStatus, Goto, dbVars, taskVars, outVars
<1>28. ASSUME NEW i \in Ids, CancelOutside(i) PROVE TypeOK'
  <2>1. running[i] \in Tasks /\ EndRun(running[i], "cancelled")
    BY <1>28, <1>a DEF CancelOutside, ControlOK
  <2>2. RestOK'
    BY <1>28, <1>a DEF CancelOutside, RestOK, dbVars
  <2> QED
    BY <1>a, <1>b, <2>1, <2>2, EndRunType DEF Final
<1>29. ASSUME NEW i \in Ids, CancelAtDatabase(i) PROVE TypeOK'
  <2>1. running[i] \in Tasks /\ Die(running[i])
    BY <1>29, <1>a DEF CancelAtDatabase, ControlOK
  <2>2. runs' \in [Ids -> Active \cup Final \cup {"none"}]
    BY <1>29, <1>a, <2>1, WriteStatusType DEF CancelAtDatabase, FlushWrites, RestOK, dbVars
  <2>3. locks' \in [Nodes -> Ids \cup {0}]
    BY <1>29, <1>a, <2>1 DEF CancelAtDatabase, TakeLock, RestOK, ControlOK, dbVars
  <2>4. nstatus' \in [Nodes -> NodeStatus] /\ jobs' \subseteq Jobs
    BY <1>29, <1>a DEF CancelAtDatabase, FlushWrites, FlushNode, RestOK, NodeStatus, dbVars
  <2>5. RestOK'
    BY <1>29, <1>a, <2>2, <2>3, <2>4 DEF CancelAtDatabase, RestOK, outVars
  <2> QED
    BY <1>a, <1>b, <2>1, <2>5, DieType
<1>30. ASSUME NEW n \in Nodes, Boot(n) PROVE TypeOK'
  BY <1>30, JobTypes, Frame0Type DEF Boot, TypeOK, PCs, FlushTo, Working, Active, Final, NodeStatus, Goto, dbVars, taskVars, outVars
<1>31. CASE ClearRuns
  BY <1>31, JobTypes, Frame0Type DEF ClearRuns, TypeOK, PCs, FlushTo, Working, Active, Final, NodeStatus, Goto, dbVars, taskVars, outVars
<1>32. CASE Crash
  BY <1>32, JobTypes, Frame0Type DEF Crash, TypeOK, PCs, FlushTo, Working, Active, Final, NodeStatus, Goto, dbVars, taskVars, outVars
<1>33. CASE UNCHANGED vars
  BY <1>33 DEF vars, TypeOK, PCs, FlushTo, Working, Active, Final, NodeStatus, Goto, dbVars, taskVars, outVars
<1> QED
  BY <1>1, <1>2, <1>3, <1>4, <1>5, <1>6, <1>7, <1>8, <1>9, <1>10, <1>11, <1>12, <1>13, <1>14, <1>15, <1>16, <1>17, <1>18, <1>19, <1>20, <1>21, <1>22, <1>23, <1>24, <1>25, <1>26, <1>27, <1>28, <1>29, <1>30, <1>31, <1>32, <1>33 DEF Next, Step, Disturb

(***************************************************************************)
(* Type correctness: every variable keeps its type in every behaviour, for *)
(* every environment (cancellations, cleared histories, crashes, faults).  *)
(***************************************************************************)
THEOREM Typing == Spec => []TypeOK
<1>1. Init => TypeOK
  BY ConstantsAssumption, Frame0Type
  DEF Init, TypeOK, PCs, FlushTo, Working, Active, Final, NodeStatus, Ids
<1> QED
  BY <1>1, TypeStep, PTL DEF Spec

(***************************************************************************)
(* The inductive invariant.  Most actions move one task on without giving   *)
(* away or taking an id or a lock; Quiet collects what they have in common. *)
(***************************************************************************)
Quiet(t) ==
  /\ UNCHANGED <<rid, locks>>
  /\ \/ UNCHANGED runs
     \/ /\ pc[t] \notin {"release", "dead"}
        /\ runs' = [runs EXCEPT ![rid[t]] = status[t]]
  /\ \A u \in Tasks \ {t} :
        pc'[u] = pc[u] /\ then'[u] = then[u] /\ status'[u] = status[u]
  /\ pc[t] \notin {"idle", "insert", "ended"}
  /\ pc'[t] \notin {"idle", "insert", "ended"}
  /\ Holding(t)' => Holding(t)
  /\ BeforeLock(t)' => BeforeLock(t)
  /\ NoFinalSteps => NoResultYet(t)'
  /\ \A i \in Ids \ {rid[t]} : running'[i] = running[i]
  /\ Registered(t)' => running'[rid[t]] = t

LEMMA QuietStep ==
  ASSUME Protected, IInv, TypeOK', NEW t \in Tasks, Quiet(t)
  PROVE  IInv'
<1>1. rid[t] \in Ids /\ rid[t] # 0 /\ Unfinished(t)
  BY DEF Quiet, IInv, HasId, TypeOK, Unfinished
<1>2. \A u \in Tasks : Unfinished(u)' <=> Unfinished(u)
  BY DEF Quiet, Unfinished
<1>3. \A u \in Tasks : u # t /\ Unfinished(u) => rid[u] # rid[t]
  BY <1>1 DEF IInv, RowsStayOwn
<1>4. \A u \in Tasks : Holding(u)' => Holding(u)
  BY DEF Quiet, Holding, Primary
<1>5. \A u \in Tasks : BeforeLock(u)' => BeforeLock(u)
  BY DEF Quiet, BeforeLock
<1>6. status[t] # "none"
  BY DEF IInv, TypeOK, Active, Final
<1>7a. \A u \in Tasks : Unfinished(u) => rid[u] \in Ids /\ runs[rid[u]] # "none"
  BY DEF IInv, RowsStayOwn, TypeOK, Unfinished
<1>7b. \A i \in Ids : \/ runs'[i] = runs[i]
                      \/ /\ i = rid[t] /\ runs'[i] = status[t]
                         /\ pc[t] \notin {"release", "dead"}
  BY DEF Quiet, IInv, TypeOK
<1>7. \A u \in Tasks : Unfinished(u) => runs'[rid[u]] # "none"
  BY <1>6, <1>7a, <1>7b
<1>8. HasId'
  BY DEF Quiet, IInv, HasId
<1>9. RowsStayOwn'
  BY <1>2, <1>7 DEF Quiet, IInv, RowsStayOwn
<1>10. ActiveUntilEnd'
  <2> SUFFICES ASSUME NoFinalSteps, NEW u \in Tasks
               PROVE  (Unfinished(u)' => runs'[rid'[u]] \in Active) /\ NoResultYet(u)'
    BY DEF ActiveUntilEnd
  <2>1. NoResultYet(u)'
    BY DEF Quiet, IInv, ActiveUntilEnd, NoResultYet
  <2>2. pc[t] \notin {"release", "dead"} => status[t] \in Active
    BY DEF Quiet, IInv, ActiveUntilEnd, NoResultYet
  <2>3. Unfinished(u) => runs'[rid[u]] \in Active
    BY <1>7a, <1>7b, <2>2 DEF IInv, ActiveUntilEnd
  <2> QED
    BY <1>2, <2>1, <2>3 DEF Quiet
<1>11. LocksAccountedFor'
  BY <1>2 DEF Quiet, IInv, LocksAccountedFor, Primary
<1>12. HolderKeepsLock'
  BY <1>4 DEF Quiet, IInv, HolderKeepsLock, Primary
<1>13. NoLockYet'
  BY <1>5 DEF Quiet, IInv, NoLockYet
<1>14. CancelReaches'
  <2> SUFFICES ASSUME NEW u \in Tasks, Registered(u)' PROVE running'[rid'[u]] = u
    BY DEF CancelReaches
  <2>1. CASE u = t
    BY <2>1 DEF Quiet
  <2>2. CASE u # t
    <3>1. Registered(u) /\ Unfinished(u) /\ rid[u] \in Ids
      BY <2>2 DEF Quiet, Registered, Live, Unfinished, IInv, HasId, TypeOK
    <3> QED
      BY <1>3, <2>2, <3>1 DEF Quiet, IInv, CancelReaches
  <2> QED
    BY <2>1, <2>2
<1> QED
  BY <1>8, <1>9, <1>10, <1>11, <1>12, <1>13, <1>14 DEF IInv

LEMMA QuietActions ==
  ASSUME Protected, IInv, NEW t \in Tasks
  PROVE  (\/ Register(t)
          \/ LockBusy(t)
          \/ LockBusyAgain(t)
          \/ LockFree(t)
          \/ LockConflict(t)
          \/ WakeUp(t)
          \/ Flush(t)
          \/ FlushStale(t)
          \/ LoadNode(t)
          \/ Probe(t)
          \/ Wake(t)
          \/ BeginOperation(t)
          \/ CallDone(t)
          \/ CheckDone(t)
          \/ PowerOff(t)
          \/ MarkOffline(t)
          \/ DeleteJob(t)
          \/ ReleaseFails(t)
          \/ LogOutput(t)) => Quiet(t)
<1> USE ConstantsAssumption
<1>e. /\ AfterPower(t) \in {"deleteJob", "release"}
      /\ PowerStep(t) \in {"poweroff", "deleteJob", "release"}
  BY DEF AfterPower, PowerStep
<1>a. TypeOK
  BY DEF IInv
<1>b. Registered(t) => running[rid[t]] = t
  BY DEF IInv, CancelReaches
<1>c. NoFinalSteps => ~PowersOff(t) /\ JobOf[t] \notin OneShot /\ NoResultYet(t)
  BY DEF IInv, ActiveUntilEnd, NoFinalSteps
<1>d. rid[t] \in Ids \cup {0} /\ (pc[t] \notin {"idle", "insert", "ended"} => rid[t] \in Ids)
  BY DEF IInv, TypeOK, HasId
<1>1. ASSUME Register(t) PROVE Quiet(t)
  BY <1>1, <1>a, <1>b, <1>c, <1>d, <1>e DEF Register, TypeOK, Quiet, Goto, Holding, BeforeLock, NoResultYet, Registered, Live, Primary, dbVars, taskVars, Working, FlushTo, Active, Final
<1>2. ASSUME LockBusy(t) PROVE Quiet(t)
  BY <1>2, <1>a, <1>b, <1>c, <1>d, <1>e DEF LockBusy, FlushThen, TypeOK, Quiet, Goto, Holding, BeforeLock, NoResultYet, Registered, Live, Primary, dbVars, taskVars, Working, FlushTo, Active, Final
<1>3. ASSUME LockBusyAgain(t) PROVE Quiet(t)
  BY <1>3, <1>a, <1>b, <1>c, <1>d, <1>e DEF LockBusyAgain, EndRun, EndSaved, TypeOK, Quiet, Goto, Holding, BeforeLock, NoResultYet, Registered, Live, Primary, dbVars, taskVars, Working, FlushTo, Active, Final
<1>4. ASSUME LockFree(t) PROVE Quiet(t)
  BY <1>4, <1>a, <1>b, <1>c, <1>d, <1>e DEF LockFree, TypeOK, Quiet, Goto, Holding, BeforeLock, NoResultYet, Registered, Live, Primary, dbVars, taskVars, Working, FlushTo, Active, Final
<1>5. ASSUME LockConflict(t) PROVE Quiet(t)
  BY <1>5, <1>a, <1>b, <1>c, <1>d, <1>e DEF LockConflict, Die, TypeOK, Quiet, Goto, Holding, BeforeLock, NoResultYet, Registered, Live, Primary, dbVars, taskVars, Working, FlushTo, Active, Final
<1>6. ASSUME WakeUp(t) PROVE Quiet(t)
  BY <1>6, <1>a, <1>b, <1>c, <1>d, <1>e DEF WakeUp, TypeOK, Quiet, Goto, Holding, BeforeLock, NoResultYet, Registered, Live, Primary, dbVars, taskVars, Working, FlushTo, Active, Final
<1>7. ASSUME Flush(t) PROVE Quiet(t)
  <2>1. /\ pc[t] = "flush" /\ UNCHANGED <<rid, locks, status>>
        /\ then[t] \in FlushTo
        /\ pc' = [pc EXCEPT ![t] = then[t]]
        /\ then' = [then EXCEPT ![t] = "release"]
    BY <1>7, <1>a DEF Flush, EndSaved, Goto, TypeOK
  <2>2. runs' = runs \/ runs' = [runs EXCEPT ![rid[t]] = status[t]]
    BY <1>7, <1>a DEF Flush, FlushWrites, WriteStatus, TypeOK
  <2>3. running' = IF then[t] = "release" THEN [running EXCEPT ![rid[t]] = NoTask] ELSE running
    BY <1>7 DEF Flush, EndSaved
  <2>4. \A i \in Ids \ {rid[t]} : running'[i] = running[i]
    BY <2>3, <1>a DEF TypeOK
  <2>5. pc'[t] = then[t]
    BY <2>1, <1>a DEF TypeOK
  <2>6. Registered(t)' => running'[rid[t]] = t
    BY <2>1, <2>3, <2>5, <1>b DEF Registered, Live
  <2>7. /\ Holding(t)' => Holding(t)
        /\ BeforeLock(t)' => BeforeLock(t)
    BY <2>1, <2>5, <1>a DEF Holding, BeforeLock, Primary, FlushTo, Working, TypeOK
  <2>8. NoFinalSteps => NoResultYet(t)'
    BY <2>1, <2>5, <1>a, <1>c DEF NoResultYet, FlushTo, Working, TypeOK
  <2>9. \A u \in Tasks \ {t} : pc'[u] = pc[u] /\ then'[u] = then[u] /\ status'[u] = status[u]
    BY <2>1, <1>a DEF TypeOK
  <2> QED
    BY <2>1, <2>2, <2>4, <2>5, <2>6, <2>7, <2>8, <2>9 DEF Quiet, FlushTo, Working
<1>8. ASSUME FlushStale(t) PROVE Quiet(t)
  BY <1>8, <1>a, <1>b, <1>c, <1>d, <1>e DEF FlushStale, Die, TypeOK, Quiet, Goto, Holding, BeforeLock, NoResultYet, Registered, Live, Primary, dbVars, taskVars, Working, FlushTo, Active, Final
<1>9. ASSUME LoadNode(t) PROVE Quiet(t)
  BY <1>9, <1>a, <1>b, <1>c, <1>d, <1>e DEF LoadNode, TypeOK, Quiet, Goto, Holding, BeforeLock, NoResultYet, Registered, Live, Primary, dbVars, taskVars, Working, FlushTo, Active, Final
<1>10. ASSUME Probe(t) PROVE Quiet(t)
  BY <1>10, <1>a, <1>b, <1>c, <1>d, <1>e DEF Probe, FlushThen, TypeOK, Quiet, Goto, Holding, BeforeLock, NoResultYet, Registered, Live, Primary, dbVars, taskVars, Working, FlushTo, Active, Final
<1>11. ASSUME Wake(t) PROVE Quiet(t)
  BY <1>11, <1>a, <1>b, <1>c, <1>d, <1>e DEF Wake, FlushThen, EndRun, EndSaved, TypeOK, Quiet, Goto, Holding, BeforeLock, NoResultYet, Registered, Live, Primary, dbVars, taskVars, Working, FlushTo, Active, Final
<1>12. ASSUME BeginOperation(t) PROVE Quiet(t)
  BY <1>12, <1>a, <1>b, <1>c, <1>d, <1>e DEF BeginOperation, FlushThen, Succeed, EndRun, EndSaved, TypeOK, Quiet, Goto, Holding, BeforeLock, NoResultYet, Registered, Live, Primary, dbVars, taskVars, Working, FlushTo, Active, Final
<1>13. ASSUME CallDone(t) PROVE Quiet(t)
  BY <1>13, <1>a, <1>b, <1>c, <1>d, <1>e DEF CallDone, FlushThen, Succeed, EndRun, EndSaved, TypeOK, Quiet, Goto, Holding, BeforeLock, NoResultYet, Registered, Live, Primary, dbVars, taskVars, Working, FlushTo, Active, Final
<1>14. ASSUME CheckDone(t) PROVE Quiet(t)
  BY <1>14, <1>a, <1>b, <1>c, <1>d, <1>e DEF CheckDone, FlushThen, TypeOK, Quiet, Goto, Holding, BeforeLock, NoResultYet, Registered, Live, Primary, dbVars, taskVars, Working, FlushTo, Active, Final
<1>15. ASSUME PowerOff(t) PROVE Quiet(t)
  BY <1>15, <1>a, <1>b, <1>c, <1>d, <1>e DEF PowerOff, FlushThen, TypeOK, Quiet, Goto, Holding, BeforeLock, NoResultYet, Registered, Live, Primary, dbVars, taskVars, Working, FlushTo, Active, Final
<1>16. ASSUME MarkOffline(t) PROVE Quiet(t)
  BY <1>16, <1>a, <1>b, <1>c, <1>d, <1>e DEF MarkOffline, FlushThen, EndRun, EndSaved, TypeOK, Quiet, Goto, Holding, BeforeLock, NoResultYet, Registered, Live, Primary, dbVars, taskVars, Working, FlushTo, Active, Final
<1>17. ASSUME DeleteJob(t) PROVE Quiet(t)
  BY <1>17, <1>a, <1>b, <1>c, <1>d, <1>e DEF DeleteJob, EndRun, EndSaved, TypeOK, Quiet, Goto, Holding, BeforeLock, NoResultYet, Registered, Live, Primary, dbVars, taskVars, Working, FlushTo, Active, Final
<1>18. ASSUME ReleaseFails(t) PROVE Quiet(t)
  BY <1>18, <1>a, <1>b, <1>c, <1>d, <1>e DEF ReleaseFails, Die, TypeOK, Quiet, Goto, Holding, BeforeLock, NoResultYet, Registered, Live, Primary, dbVars, taskVars, Working, FlushTo, Active, Final
<1>19. ASSUME LogOutput(t) PROVE Quiet(t)
  BY <1>19, <1>a, <1>b, <1>c, <1>d, <1>e DEF LogOutput, Die, TypeOK, Quiet, Goto, Holding, BeforeLock, NoResultYet, Registered, Live, Primary, dbVars, taskVars, Working, FlushTo, Active, Final
<1> QED
  BY <1>1, <1>2, <1>3, <1>4, <1>5, <1>6, <1>7, <1>8, <1>9, <1>10, <1>11, <1>12, <1>13, <1>14, <1>15, <1>16, <1>17, <1>18, <1>19

\* The lock is inserted: by a task that goes on, or by one that is cancelled
\* while the commit is under way.
Take(t) ==
  /\ pc[t] = "lockWrite" /\ locks[Primary(t)] = 0
  /\ TakeLock(t)
  /\ UNCHANGED <<rid, runs, running>>
  /\ \A u \in Tasks \ {t} :
        pc'[u] = pc[u] /\ then'[u] = then[u] /\ status'[u] = status[u]
  /\ pc'[t] \in {"prepare", "flush", "dead"}
  /\ pc'[t] = "flush" => then'[t] = "prepare"
  /\ pc'[t] # "dead" => status'[t] = "running"

LEMMA TakeStep ==
  ASSUME Protected, IInv, TypeOK', NEW t \in Tasks, Take(t)
  PROVE  IInv'
<1>1. rid[t] \in Ids /\ rid[t] # 0 /\ Unfinished(t)
  BY DEF Take, IInv, HasId, TypeOK, Unfinished
<1>2. \A u \in Tasks : Unfinished(u)' <=> Unfinished(u)
  BY <1>1 DEF Take, Unfinished
<1>3. \A u \in Tasks : u # t /\ Unfinished(u) => rid[u] # rid[t]
  BY <1>1 DEF IInv, RowsStayOwn
<1>4. \A n \in Nodes : locks'[n] = IF n = Primary(t) THEN rid[t] ELSE locks[n]
  BY DEF Take, TakeLock, IInv, TypeOK
<1>5. \A u \in Tasks : u # t => (Holding(u)' <=> Holding(u))
  BY DEF Take, Holding, Primary
<1>6. \A u \in Tasks : Holding(u) => Unfinished(u) /\ Primary(u) \in Nodes
  BY PrimaryType DEF Holding, Unfinished, IInv, HasId, Working
<1>7. \A u \in Tasks : BeforeLock(u)' => BeforeLock(u) /\ u # t
  BY DEF Take, BeforeLock
<1>8. HasId'
  BY DEF Take, IInv, HasId
<1>9. RowsStayOwn'
  BY <1>2 DEF Take, IInv, RowsStayOwn
<1>10. ActiveUntilEnd'
  BY <1>2 DEF Take, IInv, ActiveUntilEnd, NoResultYet, Active
<1>11. LocksAccountedFor'
  <2> SUFFICES ASSUME NEW n \in Nodes, locks'[n] # 0
               PROVE  \E u \in Tasks : /\ Unfinished(u)' /\ rid'[u] = locks'[n]
                                       /\ Primary(u) = n
    BY DEF LocksAccountedFor, Primary
  <2>1. CASE n = Primary(t)
    BY <1>1, <1>2, <1>4, <2>1 DEF Take
  <2>2. CASE n # Primary(t)
    BY <1>2, <1>4, <2>2 DEF Take, IInv, LocksAccountedFor
  <2> QED
    BY <2>1, <2>2
<1>12. HolderKeepsLock'
  <2> SUFFICES ASSUME NEW u \in Tasks, Holding(u)' PROVE locks'[Primary(u)] = rid'[u]
    BY DEF HolderKeepsLock, Primary
  <2>1. CASE u = t
    <3>1. Primary(t) \in Nodes
      BY <2>1, PrimaryType DEF Holding, Primary
    <3> QED
      BY <1>4, <2>1, <3>1 DEF Take
  <2>2. CASE u # t
    <3>1. Holding(u) /\ Unfinished(u) /\ Primary(u) \in Nodes
      BY <1>5, <1>6, <2>2
    <3>2. locks[Primary(u)] = rid[u] /\ rid[u] # 0
      BY <3>1 DEF IInv, HolderKeepsLock, Unfinished
    <3>3. Primary(u) # Primary(t)
      BY <3>2 DEF Take
    <3> QED
      BY <1>4, <3>1, <3>2, <3>3 DEF Take
  <2> QED
    BY <2>1, <2>2
<1>13. NoLockYet'
  <2> SUFFICES ASSUME NEW u \in Tasks, NEW n \in Nodes, BeforeLock(u)'
               PROVE  locks'[n] # rid'[u]
    BY DEF NoLockYet
  <2>1. BeforeLock(u) /\ u # t /\ Unfinished(u)
    BY <1>7 DEF BeforeLock, Unfinished, IInv, HasId
  <2> QED
    BY <1>3, <1>4, <2>1 DEF Take, IInv, NoLockYet
<1>14. CancelReaches'
  BY <1>1, <1>2 DEF Take, IInv, CancelReaches, Registered, Live
<1> QED
  BY <1>8, <1>9, <1>10, <1>11, <1>12, <1>13, <1>14 DEF IInv

LEMMA UnchangedStep ==
  ASSUME IInv, TypeOK', UNCHANGED <<taskVars, dbVars, running>>
  PROVE  IInv'
BY DEF IInv, taskVars, dbVars, HasId, RowsStayOwn, ActiveUntilEnd, NoResultYet,
       LocksAccountedFor, HolderKeepsLock, NoLockYet, CancelReaches, Unfinished,
       Holding, BeforeLock, Registered, Live, Primary

LEMMA StartStep ==
  ASSUME IInv, TypeOK', NEW t \in Tasks, NEW p \in {"insert", "ended"},
         pc[t] \in {"idle", "insert"}, Goto(t, p),
         UNCHANGED <<then, rid, status, dbVars, running>>
  PROVE  IInv'
<1>a. HasId
  BY DEF IInv
<1>1. rid[t] = 0
  BY <1>a DEF HasId
<1>2. \A u \in Tasks : pc'[u] = IF u = t THEN p ELSE pc[u]
  BY DEF Goto, IInv, TypeOK
<1>3. \A u \in Tasks : /\ Unfinished(u)' <=> Unfinished(u)
                       /\ Holding(u)' <=> Holding(u)
                       /\ BeforeLock(u)' <=> BeforeLock(u)
                       /\ Registered(u)' <=> Registered(u)
  BY <1>1, <1>2 DEF Unfinished, Holding, BeforeLock, Registered, Live, Primary, Working
<1>4. HasId' /\ CancelReaches'
  BY <1>1, <1>2, <1>3 DEF IInv, HasId, CancelReaches
<1>5. RowsStayOwn' /\ NoLockYet'
  BY <1>3 DEF dbVars, IInv, RowsStayOwn, NoLockYet
<1>6. ActiveUntilEnd'
  BY <1>2, <1>3 DEF dbVars, IInv, ActiveUntilEnd, NoResultYet
<1>7. LocksAccountedFor' /\ HolderKeepsLock'
  BY <1>3 DEF dbVars, IInv, LocksAccountedFor, HolderKeepsLock, Primary
<1> QED
  BY <1>4, <1>5, <1>6, <1>7 DEF IInv

LEMMA InsertStep ==
  ASSUME IInv, TypeOK', NEW t \in Tasks, Insert(t)
  PROVE  IInv'
<1>1. PICK i \in Ids : /\ NewId(i)
                       /\ rid' = [rid EXCEPT ![t] = i]
                       /\ runs' = [runs EXCEPT ![i] = "running"]
  BY DEF Insert
<1>a. HasId
  BY DEF IInv
<1>b. pc[t] = "insert" /\ rid[t] = 0
  BY <1>a DEF Insert, HasId
<1>c. i \in Nat /\ i # 0
  BY ConstantsAssumption DEF Ids
<1>d. runs[i] = "none"
  BY <1>1, <1>c DEF NewId
<1>2. pc[t] = "insert" /\ rid[t] = 0 /\ i # 0 /\ runs[i] = "none"
  BY <1>b, <1>c, <1>d
<1>3. \A u \in Tasks : /\ pc'[u] = IF u = t THEN "register" ELSE pc[u]
                       /\ rid'[u] = IF u = t THEN i ELSE rid[u]
  BY <1>1 DEF Insert, Goto, IInv, TypeOK
<1>4. UNCHANGED <<then, status, locks, running>>
  BY DEF Insert
<1>5. \A u \in Tasks : Unfinished(u) => /\ rid[u] \in Ids /\ rid[u] # i
                                        /\ runs[rid[u]] # "none" /\ u # t
  BY <1>2 DEF IInv, TypeOK, RowsStayOwn, Unfinished
<1>6. \A u \in Tasks : Unfinished(u)' <=> Unfinished(u) \/ u = t
  BY <1>2, <1>3 DEF Unfinished
<1>7. \A u \in Tasks : /\ Holding(u)' => Holding(u) /\ u # t
                       /\ BeforeLock(u)' => BeforeLock(u) \/ u = t
                       /\ Registered(u)' => Registered(u) /\ u # t
  BY <1>3, <1>4 DEF Holding, BeforeLock, Registered, Live, Primary, Working
<1>8. \A n \in Nodes : locks[n] # i
  BY <1>2, <1>5 DEF IInv, LocksAccountedFor
<1>9. \A k \in Ids : runs'[k] = IF k = i THEN "running" ELSE runs[k]
  BY <1>1 DEF IInv, TypeOK
<1>10. HasId'
  BY <1>2, <1>3 DEF IInv, HasId
<1>11. RowsStayOwn'
  BY <1>3, <1>5, <1>6, <1>9 DEF IInv, RowsStayOwn
<1>12. ActiveUntilEnd'
  <2> SUFFICES ASSUME NoFinalSteps, NEW u \in Tasks
               PROVE  (Unfinished(u)' => runs'[rid'[u]] \in Active) /\ NoResultYet(u)'
    BY DEF ActiveUntilEnd
  <2>1. Unfinished(u) => runs[rid[u]] \in Active
    BY DEF IInv, ActiveUntilEnd
  <2>2. NoResultYet(u)'
    <3>1. CASE u = t
      BY <1>b, <1>3, <1>4, <3>1 DEF IInv, ActiveUntilEnd, NoResultYet
    <3>2. CASE u # t
      BY <1>3, <1>4, <3>2 DEF IInv, ActiveUntilEnd, NoResultYet
    <3> QED
      BY <3>1, <3>2
  <2> QED
    BY <1>3, <1>5, <1>6, <1>9, <2>1, <2>2 DEF Active
<1>13. LocksAccountedFor'
  BY <1>3, <1>4, <1>5, <1>6 DEF IInv, LocksAccountedFor, Primary
<1>14. HolderKeepsLock'
  BY <1>3, <1>4, <1>7 DEF IInv, HolderKeepsLock, Primary
<1>15. NoLockYet'
  BY <1>3, <1>4, <1>7, <1>8 DEF IInv, NoLockYet
<1>16. CancelReaches'
  BY <1>3, <1>4, <1>7 DEF IInv, CancelReaches
<1> QED
  BY <1>10, <1>11, <1>12, <1>13, <1>14, <1>15, <1>16 DEF IInv

LEMMA ReleaseStep ==
  ASSUME IInv, TypeOK', NEW t \in Tasks, Release(t)
  PROVE  IInv'
<1>1. pc[t] = "release" /\ rid[t] \in Ids /\ rid[t] # 0 /\ Unfinished(t)
  BY DEF Release, IInv, HasId, TypeOK, Unfinished
<1>2. \A u \in Tasks : pc'[u] = IF u = t THEN "ended" ELSE pc[u]
  BY DEF Release, Goto, IInv, TypeOK
<1>3. UNCHANGED <<then, rid, status, running>>
  BY DEF Release
<1>4. \A k \in Ids : runs'[k] = runs[k] \/ (k = rid[t] /\ runs'[k] = status[t])
  BY <1>1, WriteStatusType DEF Release, IInv
<1>5. \A n \in Nodes : locks'[n] = IF locks[n] = rid[t] THEN 0 ELSE locks[n]
  BY DEF Release, Owned
<1>6. \A u \in Tasks : Unfinished(u)' => /\ Unfinished(u) /\ u # t
                                         /\ rid[u] # rid[t] /\ rid[u] \in Ids
  BY <1>1, <1>2, <1>3 DEF Unfinished, IInv, RowsStayOwn, TypeOK
<1>7. \A u \in Tasks : Unfinished(u) /\ u # t => Unfinished(u)'
  BY <1>2, <1>3 DEF Unfinished
<1>8. \A u \in Tasks : /\ Holding(u)' => Holding(u) /\ u # t
                       /\ BeforeLock(u)' => BeforeLock(u) /\ u # t
                       /\ Registered(u)' => Registered(u) /\ u # t
  BY <1>1, <1>2, <1>3 DEF Holding, BeforeLock, Registered, Live, Primary, Working
<1>9. \A u \in Tasks : Holding(u) => Unfinished(u) /\ Primary(u) \in Nodes
  BY PrimaryType DEF Holding, Unfinished, IInv, HasId, Working
<1>10. HasId'
  BY <1>2, <1>3 DEF IInv, HasId
<1>11. RowsStayOwn'
  BY <1>3, <1>4, <1>6 DEF IInv, RowsStayOwn
<1>12. ActiveUntilEnd'
  BY <1>2, <1>3, <1>4, <1>6 DEF IInv, ActiveUntilEnd, NoResultYet
<1>13. LocksAccountedFor'
  <2> SUFFICES ASSUME NEW n \in Nodes, locks'[n] # 0
               PROVE  \E u \in Tasks : /\ Unfinished(u)' /\ rid'[u] = locks'[n]
                                       /\ Primary(u) = n
    BY DEF LocksAccountedFor, Primary
  <2>1. locks'[n] = locks[n] /\ locks[n] # 0 /\ locks[n] # rid[t]
    BY <1>5
  <2>2. PICK u \in Tasks : Unfinished(u) /\ rid[u] = locks[n] /\ Primary(u) = n
    BY <2>1 DEF IInv, LocksAccountedFor
  <2> QED
    BY <1>3, <1>7, <2>1, <2>2
<1>14. HolderKeepsLock'
  <2> SUFFICES ASSUME NEW u \in Tasks, Holding(u)' PROVE locks'[Primary(u)] = rid'[u]
    BY DEF HolderKeepsLock, Primary
  <2>1. Holding(u) /\ u # t /\ Unfinished(u) /\ Primary(u) \in Nodes
    BY <1>8, <1>9
  <2>2. locks[Primary(u)] = rid[u] /\ rid[u] # rid[t]
    BY <1>6, <1>7, <2>1 DEF IInv, HolderKeepsLock
  <2> QED
    BY <1>3, <1>5, <2>1, <2>2
<1>15. NoLockYet'
  <2> SUFFICES ASSUME NEW u \in Tasks, NEW n \in Nodes, BeforeLock(u)'
               PROVE  locks'[n] # rid'[u]
    BY DEF NoLockYet
  <2>1. BeforeLock(u) /\ rid[u] # 0
    BY <1>8 DEF BeforeLock, IInv, HasId
  <2> QED
    BY <1>3, <1>5, <2>1 DEF IInv, NoLockYet
<1>16. CancelReaches'
  BY <1>3, <1>8 DEF IInv, CancelReaches
<1> QED
  BY <1>10, <1>11, <1>12, <1>13, <1>14, <1>15, <1>16 DEF IInv

LEMMA ClearStep ==
  ASSUME Protected, IInv, TypeOK', ClearRuns
  PROVE  IInv'
<1>1. \A t \in Tasks : Unfinished(t) => rid[t] \in Ids /\ runs[rid[t]] \in Active
  BY DEF Protected, ClearRuns, IInv, ActiveUntilEnd, TypeOK, Unfinished
<1>2. \A t \in Tasks : Unfinished(t) => runs'[rid[t]] = runs[rid[t]]
  BY <1>1 DEF ClearRuns
<1>3. UNCHANGED <<taskVars, locks, running>>
  BY DEF ClearRuns
<1>4. RowsStayOwn' /\ ActiveUntilEnd'
  BY <1>2, <1>3
  DEF IInv, taskVars, RowsStayOwn, ActiveUntilEnd, NoResultYet, Unfinished
<1>5. HasId' /\ LocksAccountedFor' /\ HolderKeepsLock' /\ NoLockYet' /\ CancelReaches'
  BY <1>3 DEF IInv, taskVars, HasId, LocksAccountedFor, HolderKeepsLock, NoLockYet,
     CancelReaches, Unfinished, Holding, BeforeLock, Registered, Live, Primary
<1> QED
  BY <1>4, <1>5 DEF IInv

LEMMA CrashStep ==
  ASSUME IInv, TypeOK', Crash
  PROVE  IInv'
<1>1. \A t \in Tasks : pc'[t] = IF Live(t) THEN IF rid[t] = 0 THEN "ended" ELSE "dead"
                                           ELSE pc[t]
  BY DEF Crash
<1>2. \A t \in Tasks : pc'[t] \in {"idle", "ended", "dead"}
  BY <1>1 DEF Live
<1>3. UNCHANGED <<rid, status, dbVars>>
  BY DEF Crash
<1>4. \A t \in Tasks : Unfinished(t)' <=> Unfinished(t)
  BY <1>1, <1>3 DEF Unfinished, Live
<1>5. \A t \in Tasks : ~Holding(t)' /\ ~BeforeLock(t)' /\ ~Registered(t)'
  BY <1>2 DEF Holding, BeforeLock, Registered, Live, Working
<1>6. HasId'
  BY <1>1, <1>2, <1>3 DEF IInv, HasId, Live
<1>7. RowsStayOwn' /\ LocksAccountedFor'
  BY <1>3, <1>4 DEF dbVars, IInv, RowsStayOwn, LocksAccountedFor, Primary
<1>8. ActiveUntilEnd'
  BY <1>1, <1>2, <1>3, <1>4 DEF dbVars, IInv, ActiveUntilEnd, NoResultYet, Live
<1>9. HolderKeepsLock' /\ NoLockYet' /\ CancelReaches'
  BY <1>5 DEF HolderKeepsLock, NoLockYet, CancelReaches
<1> QED
  BY <1>6, <1>7, <1>8, <1>9 DEF IInv

\* A cancelled or failing task moves on quietly, or has just been given its lock.
LEMMA DisturbedTask ==
  ASSUME Protected, IInv, NEW t \in Tasks,
         \/ Fault(t) /\ pc[t] # "insert"
         \/ \E i \in Ids : running[i] = t /\ (CancelOutside(i) \/ CancelAtDatabase(i))
  PROVE  Quiet(t) \/ Take(t)
<1>a. TypeOK
  BY DEF IInv
<1>c. NoFinalSteps => NoResultYet(t)
  BY DEF IInv, ActiveUntilEnd
<1>d. rid[t] \in Ids \cup {0} /\ (pc[t] \notin {"idle", "insert", "ended"} => rid[t] \in Ids)
  BY DEF IInv, TypeOK, HasId
<1>1. CASE Fault(t) /\ pc[t] # "insert"
  BY <1>1, <1>a, <1>c, <1>d DEF Fault, Die, TypeOK, Quiet, Goto, Holding, BeforeLock,
     NoResultYet, Registered, Live, Primary, dbVars, Working, FlushTo, Active, Final
<1>2. ASSUME NEW i \in Ids, running[i] = t, CancelOutside(i) PROVE Quiet(t)
  BY <1>2, <1>a, <1>c, <1>d DEF CancelOutside, AtOutside, EndRun, EndSaved, TypeOK, Quiet, Goto, Holding, BeforeLock,
     NoResultYet, Registered, Live, Primary, dbVars, Working, FlushTo, Active, Final
<1>3. ASSUME NEW i \in Ids, running[i] = t, CancelAtDatabase(i) PROVE Quiet(t) \/ Take(t)
  <2>1. AtDatabase(t) /\ Die(t)
    BY <1>3 DEF CancelAtDatabase
  <2>2. CASE UNCHANGED <<runs, locks>> \/ (pc[t] = "flush" /\ FlushWrites(t) /\ UNCHANGED locks)
    BY <2>1, <2>2, <1>a, <1>c, <1>d DEF AtDatabase, FlushWrites, WriteStatus, Die, TypeOK, Quiet, Goto, Holding,
       BeforeLock, NoResultYet, Registered, Live, Primary, Working, FlushTo, Active, Final
  <2>3. CASE pc[t] = "lockWrite" /\ locks[Primary(t)] = 0 /\ TakeLock(t) /\ UNCHANGED runs
    BY <2>1, <2>3, <1>a DEF Die, TypeOK, Take, Goto
  <2> QED
    BY <1>3, <2>2, <2>3 DEF CancelAtDatabase, dbVars
<1> QED
  BY <1>1, <1>2, <1>3

LEMMA InductiveStep ==
  ASSUME Protected, IInv, [Next]_vars
  PROVE  IInv'
<1>1. TypeOK'
  BY TypeStep DEF IInv
<1>2. ASSUME NEW t \in Tasks, Step(t) PROVE IInv'
  <2>1. CASE Start(t)
    BY <1>1, <2>1, StartStep DEF Start
  <2>2. CASE Insert(t)
    BY <1>1, <2>2, InsertStep
  <2>3. CASE LockInsert(t)
    <3>1. Take(t)
      BY <2>3 DEF LockInsert, Take, FlushThen, Goto, IInv, TypeOK
    <3> QED
      BY <1>1, <3>1, TakeStep
  <2>4. CASE Release(t)
    BY <1>1, <2>4, ReleaseStep
  <2>5. CASE Quiet(t)
    BY <1>1, <2>5, QuietStep
  <2> QED
    BY <1>2, <2>1, <2>2, <2>3, <2>4, <2>5, QuietActions DEF Step
<1>3. ASSUME NEW t \in Tasks, LogOutput(t) \/ Fault(t) \/ OrphanExit(t) PROVE IInv'
  <2>1. CASE LogOutput(t)
    BY <1>1, <2>1, QuietActions, QuietStep
  <2>2. CASE Fault(t) /\ pc[t] # "insert"
    BY <1>1, <2>2, DisturbedTask, QuietStep, TakeStep
  <2>3. CASE Fault(t) /\ pc[t] = "insert"
    BY <1>1, <2>3, StartStep DEF Fault
  <2>4. CASE OrphanExit(t)
    BY <1>1, <2>4, UnchangedStep DEF OrphanExit
  <2> QED
    BY <1>3, <2>1, <2>2, <2>3, <2>4
<1>4. ASSUME NEW i \in Ids,
             CancelRequest(i) \/ CancelMiss(i) \/ CancelOutside(i) \/ CancelAtDatabase(i)
      PROVE IInv'
  <2>1. CASE CancelRequest(i) \/ CancelMiss(i)
    BY <1>1, <2>1, UnchangedStep DEF CancelRequest, CancelMiss
  <2>2. CASE CancelOutside(i) \/ CancelAtDatabase(i)
    <3>1. running[i] \in Tasks
      BY <2>2 DEF CancelOutside, CancelAtDatabase, IInv, TypeOK
    <3> QED
      BY <1>1, <2>2, <3>1, DisturbedTask, QuietStep, TakeStep
  <2> QED
    BY <1>4, <2>1, <2>2
<1>5. CASE \E n \in Nodes : Boot(n)
  BY <1>1, <1>5, UnchangedStep DEF Boot
<1>6. CASE ClearRuns
  BY <1>1, <1>6, ClearStep
<1>7. CASE Crash
  BY <1>1, <1>7, CrashStep
<1>8. CASE UNCHANGED vars
  BY <1>1, <1>8, UnchangedStep DEF vars
<1> QED
  BY <1>2, <1>3, <1>4, <1>5, <1>6, <1>7, <1>8 DEF Next, Disturb

LEMMA InductiveInit == Init => IInv
<1> SUFFICES ASSUME Init PROVE IInv
  OBVIOUS
<1>1. TypeOK
  BY ConstantsAssumption, Frame0Type
  DEF Init, TypeOK, PCs, FlushTo, Working, Active, Final, NodeStatus, Ids
<1> QED
  BY <1>1 DEF Init, IInv, HasId, RowsStayOwn, ActiveUntilEnd, NoResultYet, LocksAccountedFor,
     HolderKeepsLock, NoLockYet, CancelReaches, Unfinished, Holding, BeforeLock,
     Registered, Live, Working, Active

(***************************************************************************)
(* The inductive invariant holds in every behaviour, whatever is cancelled, *)
(* crashes or fails, as long as run ids stay unambiguous (Protected).      *)
(***************************************************************************)
THEOREM Invariance == Protected => (Spec => []IInv)
<1> SUFFICES ASSUME Protected PROVE Spec => []IInv
  OBVIOUS
<1>1. IInv /\ [Next]_vars => IInv'
  BY InductiveStep
<1> QED
  BY <1>1, InductiveInit, PTL DEF Spec

LEMMA ExclusionFromIInv == IInv => MutualExclusion
<1> SUFFICES ASSUME IInv, NEW t \in Tasks, NEW u \in Tasks, t # u, Holding(t), Holding(u)
             PROVE  Primary(t) # Primary(u)
  BY DEF MutualExclusion
<1>1. Unfinished(t) /\ Unfinished(u)
  BY DEF Holding, Unfinished, IInv, HasId, Working
<1>2. rid[t] # rid[u]
  BY <1>1 DEF IInv, RowsStayOwn
<1> QED
  BY <1>2 DEF IInv, HolderKeepsLock

(***************************************************************************)
(* node_locks works: two runs never work under the lock of one primary     *)
(* node, for any number of runs and nodes, under every cancellation, crash *)
(* and failed write.                                                       *)
(***************************************************************************)
THEOREM Exclusion == Protected => (Spec => []MutualExclusion)
<1> SUFFICES ASSUME Protected PROVE Spec => []MutualExclusion
  OBVIOUS
<1> QED
  BY Invariance, ExclusionFromIInv, PTL

(***************************************************************************)
(* The lock a working run was given stays in the table until that run      *)
(* stops working, and carries its id.                                      *)
(***************************************************************************)
THEOREM LockKept == Protected => (Spec => []HolderKeepsLock)
<1> SUFFICES ASSUME Protected PROVE Spec => []HolderKeepsLock
  OBVIOUS
<1>1. IInv => HolderKeepsLock
  BY DEF IInv
<1> QED
  BY <1>1, Invariance, PTL

(***************************************************************************)
(* No run in flight loses its row or shares its id.                        *)
(***************************************************************************)
THEOREM RunsKeepIdentity == Protected => (Spec => []RowsStayOwn)
<1> SUFFICES ASSUME Protected PROVE Spec => []RowsStayOwn
  OBVIOUS
<1>1. IInv => RowsStayOwn
  BY DEF IInv
<1> QED
  BY <1>1, Invariance, PTL

(***************************************************************************)
(* No run that ended cleanly leaves a lock behind (job_runner.py:390).     *)
(***************************************************************************)
THEOREM LocksHaveRuns == Protected => (Spec => []LocksAccountedFor)
<1> SUFFICES ASSUME Protected PROVE Spec => []LocksAccountedFor
  OBVIOUS
<1>1. IInv => LocksAccountedFor
  BY DEF IInv
<1> QED
  BY <1>1, Invariance, PTL

(***************************************************************************)
(* Every run in flight can be cancelled: its entry of _running_tasks is    *)
(* its own (job_runner.py:75).                                             *)
(***************************************************************************)
THEOREM RunsCanBeCancelled == Protected => (Spec => []CancelReaches)
<1> SUFFICES ASSUME Protected PROVE Spec => []CancelReaches
  OBVIOUS
<1>1. IInv => CancelReaches
  BY DEF IInv
<1> QED
  BY <1>1, Invariance, PTL

-----------------------------------------------------------------------------
(* The children. *)

LEMMA ChildrenInit == Init => ChildrenInv
BY DEF Init, ChildrenInv, Calling

LEMMA ChildrenStep == TypeOK /\ ChildrenInv /\ [Next]_vars => ChildrenInv'
<1> SUFFICES ASSUME TypeOK, ChildrenInv, [Next]_vars PROVE ChildrenInv'
  OBVIOUS
<1> USE DEF ChildrenInv, Calling, Attended
<1>1. CASE UNCHANGED vars
  BY <1>1 DEF vars, taskVars, Primary
<1>2. ASSUME NEW t \in Tasks, Start(t) \/ Insert(t) \/ Register(t) PROVE ChildrenInv'
  BY <1>2 DEF Start, Insert, Register, Goto, TypeOK, Primary
<1>3. ASSUME NEW t \in Tasks, LockBusy(t) \/ LockFree(t) \/ LockInsert(t) \/ WakeUp(t) PROVE ChildrenInv'
  BY <1>3 DEF LockBusy, LockFree, LockInsert, WakeUp, FlushThen, Goto, TypeOK, Primary
<1>4. ASSUME NEW t \in Tasks, LockBusyAgain(t) \/ Wake(t) PROVE ChildrenInv'
  BY <1>4 DEF LockBusyAgain, Wake, EndRun, EndSaved, FlushThen, Goto, TypeOK, Primary
<1>5. ASSUME NEW t \in Tasks, LockConflict(t) \/ FlushStale(t) \/ ReleaseFails(t) \/ LogOutput(t)
      PROVE  ChildrenInv'
  BY <1>5 DEF LockConflict, FlushStale, ReleaseFails, LogOutput, Die, Goto, TypeOK, Primary
<1>6. ASSUME NEW t \in Tasks, Flush(t) PROVE ChildrenInv'
  BY <1>6 DEF Flush, EndSaved, Goto, TypeOK, Primary
<1>7. ASSUME NEW t \in Tasks, LoadNode(t) \/ Probe(t) PROVE ChildrenInv'
  BY <1>7 DEF LoadNode, Probe, FlushThen, Goto, TypeOK, Primary
<1>8. ASSUME NEW t \in Tasks, BeginOperation(t) PROVE ChildrenInv'
  BY <1>8 DEF BeginOperation, HasNodes, Succeed, PowerStep, AfterPower, ChecksFirst, PowersOff,
     EndRun, EndSaved, FlushThen, Goto, TypeOK, Primary
<1>9. ASSUME NEW t \in Tasks, CallDone(t) PROVE ChildrenInv'
  BY <1>9 DEF CallDone, Succeed, PowerStep, AfterPower, ChecksFirst, PowersOff,
     EndRun, EndSaved, FlushThen, Goto, TypeOK, Primary
<1>10. ASSUME NEW t \in Tasks, CheckDone(t) PROVE ChildrenInv'
  BY <1>10 DEF CheckDone, PowerStep, AfterPower, FlushThen, Goto, TypeOK, Primary
<1>11. ASSUME NEW t \in Tasks, PowerOff(t) \/ MarkOffline(t) \/ DeleteJob(t) PROVE ChildrenInv'
  BY <1>11 DEF PowerOff, MarkOffline, DeleteJob, AfterPower, EndRun, EndSaved, FlushThen, Goto, TypeOK, Primary
<1>12. ASSUME NEW t \in Tasks, Release(t) PROVE ChildrenInv'
  BY <1>12 DEF Release, Goto, TypeOK, Primary
<1>13. ASSUME NEW t \in Tasks, Fault(t) PROVE ChildrenInv'
  BY <1>13 DEF Fault, Die, Goto, TypeOK, Primary
<1>14. ASSUME NEW t \in Tasks, OrphanExit(t) PROVE ChildrenInv'
  BY <1>14 DEF OrphanExit, taskVars, TypeOK, Primary
<1>15. ASSUME NEW i \in Ids, CancelOutside(i) PROVE ChildrenInv'
  <2>1. running[i] \in Tasks
    BY <1>15 DEF CancelOutside, TypeOK
  <2> QED
    BY <1>15, <2>1 DEF CancelOutside, AtOutside, EndRun, EndSaved, Goto, TypeOK, Primary
<1>16. ASSUME NEW i \in Ids, CancelAtDatabase(i) PROVE ChildrenInv'
  <2>1. running[i] \in Tasks
    BY <1>16 DEF CancelAtDatabase, TypeOK
  <2> QED
    BY <1>16, <2>1 DEF CancelAtDatabase, AtDatabase, Die, Goto, TypeOK, Primary
<1>17. CASE Crash
  BY <1>17 DEF Crash, Live, TypeOK, Primary
<1>18. CASE \/ \E i \in Ids : CancelRequest(i) \/ CancelMiss(i)
            \/ \E n \in Nodes : Boot(n)
            \/ ClearRuns
  BY <1>18 DEF CancelRequest, CancelMiss, Boot, ClearRuns, taskVars, Primary
<1> QED
  BY <1>1, <1>2, <1>3, <1>4, <1>5, <1>6, <1>7, <1>8, <1>9, <1>10, <1>11, <1>12, <1>13, <1>14, <1>15,
     <1>16, <1>17, <1>18 DEF Next, Step, Disturb

(***************************************************************************)
(* Two rclone children work for one primary node only if one of them was   *)
(* left behind by a cancellation or a lost session (rclone_runner.py:69).  *)
(***************************************************************************)
THEOREM ChildrenExclude == Protected => (Spec => []RcloneAlone)
<1> SUFFICES ASSUME Protected PROVE Spec => []RcloneAlone
  OBVIOUS
<1>1. IInv => TypeOK
  BY DEF IInv
<1>2. IInv /\ ChildrenInv => RcloneAlone
  <2> SUFFICES ASSUME IInv, ChildrenInv, NEW t \in procs, NEW u \in procs, t # u,
                      Primary(t) = Primary(u), Attended(t), Attended(u)
               PROVE  FALSE
    BY DEF RcloneAlone
  <2>1. t \in Tasks /\ u \in Tasks
    BY DEF IInv, TypeOK
  <2>2. Holding(t) /\ Holding(u)
    BY <2>1 DEF ChildrenInv, Calling, Holding, Working
  <2> QED
    BY <2>1, <2>2, ExclusionFromIInv DEF MutualExclusion
<1> QED
  BY <1>1, <1>2, Invariance, ChildrenInit, ChildrenStep, PTL DEF Spec

\* Which actions write node_locks.
LEMMA LockWriters ==
  ASSUME TypeOK, [Next]_vars, locks' # locks
  PROVE  \E t \in Tasks : \/ Release(t)
                          \/ TakeLock(t) /\ locks[Primary(t)] = 0
<1>1. CASE \E t \in Tasks : Step(t)
  <2>1. PICK t \in Tasks : Step(t)
    BY <1>1
  <2>2. Release(t) \/ LockInsert(t)
    BY <2>1 DEF Step, Start, Insert, Register, LockBusy, LockBusyAgain, LockFree,
       LockConflict, WakeUp, Flush, FlushStale, LoadNode, Probe, Wake, BeginOperation,
       CallDone, CheckDone, PowerOff, MarkOffline, DeleteJob, ReleaseFails, dbVars
  <2> QED
    BY <2>2 DEF LockInsert
<1>2. CASE Disturb
  <2>1. PICK i \in Ids : CancelAtDatabase(i) /\ locks' # locks
    BY <1>2 DEF Disturb, CancelRequest, CancelMiss, CancelOutside, LogOutput, Fault,
       OrphanExit, Boot, ClearRuns, Crash, dbVars
  <2>2. running[i] \in Tasks
    BY <2>1 DEF CancelAtDatabase, TypeOK
  <2> QED
    BY <2>1, <2>2 DEF CancelAtDatabase, dbVars
<1> QED
  BY <1>1, <1>2 DEF Next, vars, dbVars

(***************************************************************************)
(* A lock row disappears only in the `finally' of the run it was written   *)
(* for: no other run, cancellation, restart or cleared history frees it.   *)
(***************************************************************************)
THEOREM ReleasedByHolder == Protected => (Spec => OnlyHolderReleases)
<1> SUFFICES ASSUME Protected PROVE Spec => OnlyHolderReleases
  OBVIOUS
<1> DEFINE Handover ==
      \A n \in Nodes : locks[n] # 0 /\ locks'[n] # locks[n] =>
        /\ locks'[n] = 0
        /\ \E t \in Tasks : /\ pc[t] = "release" /\ pc'[t] = "ended"
                            /\ rid[t] = locks[n] /\ Primary(t) = n
<1>1. IInv /\ [Next]_vars => [Handover]_vars
  <2> SUFFICES ASSUME IInv, [Next]_vars, NEW n \in Nodes,
                      locks[n] # 0, locks'[n] # locks[n]
               PROVE  /\ locks'[n] = 0
                      /\ \E t \in Tasks : /\ pc[t] = "release" /\ pc'[t] = "ended"
                                          /\ rid[t] = locks[n] /\ Primary(t) = n
    OBVIOUS
  <2>1. PICK t \in Tasks : Release(t) \/ (TakeLock(t) /\ locks[Primary(t)] = 0)
    BY LockWriters DEF IInv
  <2>2. Release(t)
    BY <2>1 DEF TakeLock, IInv, TypeOK
  <2>3. locks'[n] = 0 /\ locks[n] = rid[t]
    BY <2>2 DEF Release, Owned
  <2>4. pc[t] = "release" /\ pc'[t] = "ended" /\ Unfinished(t)
    BY <2>2 DEF Release, Goto, IInv, TypeOK, HasId, Unfinished
  <2>5. Primary(t) = n
    <3>1. PICK u \in Tasks : Unfinished(u) /\ rid[u] = locks[n] /\ Primary(u) = n
      BY DEF IInv, LocksAccountedFor
    <3> QED
      BY <2>3, <2>4, <3>1 DEF IInv, RowsStayOwn
  <2> QED
    BY <2>3, <2>4, <2>5
<1> QED
  BY <1>1, Invariance, PTL DEF Spec, OnlyHolderReleases

-----------------------------------------------------------------------------
(* What is written into the table of the runs. *)

\* The row of a run is written by its insert, by the commits of its own task and by
\* the clearing of the history.
LEMMA RunWriters ==
  ASSUME IInv, [Next]_vars, NEW i \in Ids, runs'[i] # runs[i]
  PROVE  \/ \E t \in Tasks : Insert(t) /\ rid'[t] = i /\ runs[i] = "none" /\ runs'[i] = "running"
         \/ \E t \in Tasks : /\ Unfinished(t) /\ rid[t] = i /\ runs'[i] = status[t]
                             /\ pc[t] \in {"flush", "release"} /\ pc'[t] # pc[t]
         \/ "clear" \in Env /\ runs'[i] = "none"
<1>1. TypeOK /\ HasId
  BY DEF IInv
<1>2. ASSUME NEW t \in Tasks, WriteStatus(t), pc[t] \in {"flush", "release"}
      PROVE  Unfinished(t) /\ rid[t] = i /\ runs'[i] = status[t]
  <2>1. rid[t] # 0 /\ rid[t] \in Ids
    BY <1>1, <1>2 DEF HasId, TypeOK
  <2> QED
    BY <1>1, <1>2, <2>1, WriteStatusType DEF Unfinished
<1>3. ASSUME NEW t \in Tasks, Insert(t)
      PROVE  rid'[t] = i /\ runs[i] = "none" /\ runs'[i] = "running"
  <2>1. PICK k \in Ids : NewId(k) /\ rid' = [rid EXCEPT ![t] = k]
                         /\ runs' = [runs EXCEPT ![k] = "running"]
    BY <1>3 DEF Insert
  <2>2. k = i
    BY <1>1, <2>1 DEF TypeOK
  <2>3. k \in Nat
    BY ConstantsAssumption DEF Ids
  <2> QED
    BY <1>1, <2>1, <2>2, <2>3 DEF NewId, TypeOK
<1>4. CASE \E t \in Tasks : Insert(t)
  BY <1>3, <1>4
<1>5. CASE \E t \in Tasks : Flush(t) \/ Release(t)
  <2>1. PICK t \in Tasks : Flush(t) \/ Release(t)
    BY <1>5
  <2>2. WriteStatus(t) /\ pc[t] \in {"flush", "release"}
    BY <2>1 DEF Flush, FlushWrites, Release
  <2>3. pc'[t] # pc[t]
    BY <1>1, <2>1 DEF Flush, Release, EndSaved, Goto, TypeOK, FlushTo, Working
  <2> QED
    BY <1>2, <2>2, <2>3
<1>6. CASE \E k \in Ids : CancelAtDatabase(k)
  <2>1. PICK k \in Ids : CancelAtDatabase(k)
    BY <1>6
  <2>2. running[k] \in Tasks /\ WriteStatus(running[k]) /\ pc[running[k]] = "flush"
    BY <1>1, <2>1 DEF CancelAtDatabase, FlushWrites, dbVars, TypeOK
  <2>3. pc'[running[k]] = "dead"
    BY <1>1, <2>1, <2>2 DEF CancelAtDatabase, Die, Goto, TypeOK
  <2> QED
    BY <1>2, <2>2, <2>3
<1>7. CASE ClearRuns
  BY <1>1, <1>7 DEF ClearRuns, TypeOK
<1>8. \/ \E t \in Tasks : Insert(t) \/ Flush(t) \/ Release(t)
      \/ \E k \in Ids : CancelAtDatabase(k)
      \/ ClearRuns
      \/ runs' = runs
  <2>1. ASSUME NEW t \in Tasks, Step(t) PROVE Insert(t) \/ Flush(t) \/ Release(t) \/ runs' = runs
    BY <2>1 DEF Step, Start, Register, LockBusy, LockBusyAgain, LockFree, LockInsert, LockConflict,
       WakeUp, FlushStale, LoadNode, Probe, Wake, BeginOperation, CallDone, CheckDone, PowerOff,
       MarkOffline, DeleteJob, ReleaseFails, dbVars
  <2>2. ASSUME Disturb PROVE (\E k \in Ids : CancelAtDatabase(k)) \/ ClearRuns \/ runs' = runs
    BY <2>2 DEF Disturb, CancelRequest, CancelMiss, CancelOutside, LogOutput, Fault, OrphanExit,
       Boot, Crash, dbVars
  <2> QED
    BY <2>1, <2>2 DEF Next, vars, dbVars
<1> QED
  BY <1>4, <1>5, <1>6, <1>7, <1>8

(***************************************************************************)
(* A result stays what it is until the history is cleared: no commit of an *)
(* overtaken, cancelled or failed session changes it (job_runner.py:98-113).*)
(***************************************************************************)
THEOREM ResultsStay == NoFinalSteps => (Spec => ResultIsFinal)
<1> SUFFICES ASSUME NoFinalSteps PROVE Spec => ResultIsFinal
  OBVIOUS
<1> DEFINE Kept == \A i \in Ids : runs[i] \in Final => runs'[i] \in {runs[i], "none"}
<1>1. Protected
  BY DEF Protected
<1>2. IInv /\ [Next]_vars => Kept
  <2> SUFFICES ASSUME IInv, [Next]_vars, NEW i \in Ids, runs[i] \in Final,
                      runs'[i] # runs[i], runs'[i] # "none"
               PROVE  FALSE
    OBVIOUS
  <2>1. runs[i] # "none"
    BY DEF Final
  <2>2. PICK t \in Tasks : Unfinished(t) /\ rid[t] = i
    BY <2>1, RunWriters
  <2>3. runs[i] \in Active
    BY <2>2 DEF IInv, ActiveUntilEnd
  <2> QED
    BY <2>3 DEF Active, Final
<1>3. IInv /\ [Next]_vars => [Kept]_vars
  BY <1>2
<1>4. Spec => [][Kept]_vars
  BY <1>1, <1>3, Invariance, PTL DEF Spec
<1> QED
  BY <1>4 DEF ResultIsFinal

-----------------------------------------------------------------------------
(* The steps after a success. *)

\* What a step other than an insert, a flush and a crash makes of the task that
\* takes it, unless it ends there.
Moved(t) ==
  /\ rid'[t] = rid[t] /\ runs' = runs /\ frame'[t].saved = frame[t].saved
  /\ pc[t] \notin {"ended", "dead"}
  /\ pc'[t] \in {"idle", "insert"} => pc[t] = "idle"
  /\ pc'[t] \in FinalSteps => status'[t] = "success" /\ frame'[t].saved = "success"
  /\ pc'[t] = "flush" /\ then'[t] \in FinalSteps => status'[t] = "success"

Untouched(t) ==
  /\ pc'[t] = pc[t] /\ then'[t] = then[t] /\ status'[t] = status[t]
  /\ frame'[t] = frame[t] /\ rid'[t] = rid[t]

LEMMA StepMoves ==
  ASSUME TypeOK, FinalInv, NEW t \in Tasks, Step(t)
  PROVE  /\ \A u \in Tasks \ {t} : Untouched(u)
         /\ Moved(t) \/ Insert(t) \/ Flush(t) \/ pc'[t] \in {"ended", "dead"}
<1> USE DEF TypeOK, Untouched, Moved, FinalSteps, Goto
<1>1. CASE Start(t) \/ LockFree(t) \/ WakeUp(t)
  BY <1>1 DEF Start, LockFree, WakeUp, dbVars
<1>12. CASE Register(t)
  BY <1>12 DEF Register, dbVars, Frames
<1>13. CASE LoadNode(t)
  BY <1>13 DEF LoadNode, dbVars, Frames
<1>2. CASE Insert(t)
  BY <1>2 DEF Insert
<1>3. CASE LockBusy(t) \/ LockInsert(t) \/ Probe(t)
  BY <1>3 DEF LockBusy, LockInsert, Probe, FlushThen, dbVars
<1>4. CASE LockBusyAgain(t) \/ Wake(t)
  BY <1>4 DEF LockBusyAgain, Wake, EndRun, EndSaved, FlushThen, dbVars, Frames, Frame0
<1>5. CASE LockConflict(t) \/ FlushStale(t) \/ ReleaseFails(t)
  BY <1>5 DEF LockConflict, FlushStale, ReleaseFails, Die
<1>6. CASE Flush(t)
  BY <1>6 DEF Flush, EndSaved
<1>7. CASE BeginOperation(t)
  BY <1>7 DEF BeginOperation, Succeed, EndRun, EndSaved, FlushThen, dbVars, Frames, Frame0
<1>8. CASE CallDone(t)
  BY <1>8 DEF CallDone, Succeed, EndRun, EndSaved, FlushThen, dbVars, Frames, Frame0
<1>9. CASE CheckDone(t)
  <2>1. status[t] = "success" /\ frame[t].saved = "success"
    BY <1>9 DEF CheckDone, FinalInv
  <2> QED
    BY <1>9, <2>1 DEF CheckDone, FlushThen, dbVars, Frames
<1>10. CASE PowerOff(t) \/ MarkOffline(t) \/ DeleteJob(t)
  <2>1. status[t] = "success" /\ frame[t].saved = "success"
    BY <1>10 DEF PowerOff, MarkOffline, DeleteJob, FinalInv
  <2> QED
    BY <1>10, <2>1 DEF PowerOff, MarkOffline, DeleteJob, EndRun, EndSaved, FlushThen, dbVars,
       Frames, Frame0
<1>11. CASE Release(t)
  BY <1>11 DEF Release
<1> QED
  BY <1>1, <1>2, <1>3, <1>4, <1>5, <1>6, <1>7, <1>8, <1>9, <1>10, <1>11, <1>12, <1>13 DEF Step

\* A disturbance that is no crash leaves a task alone, ends it, or sends it to its end.
LEMMA DisturbMoves ==
  ASSUME TypeOK, FinalInv, Disturb, ~Crash, NEW u \in Tasks
  PROVE  Untouched(u) \/ Moved(u) \/ pc'[u] \in {"ended", "dead"}
<1>1. ASSUME NEW i \in Ids, CancelRequest(i) \/ CancelMiss(i) PROVE Untouched(u)
  BY <1>1 DEF CancelRequest, CancelMiss, taskVars, Untouched
<1>2. ASSUME NEW i \in Ids, CancelOutside(i)
      PROVE  Untouched(u) \/ Moved(u) \/ pc'[u] \in {"ended", "dead"}
  <2>1. running[i] \in Tasks
    BY <1>2 DEF CancelOutside, TypeOK
  <2> QED
    BY <1>2, <2>1 DEF CancelOutside, AtOutside, EndRun, EndSaved, dbVars, Frames, Frame0,
       TypeOK, Untouched, Moved, FinalSteps, Goto
<1>3. ASSUME NEW i \in Ids, CancelAtDatabase(i)
      PROVE  Untouched(u) \/ pc'[u] \in {"ended", "dead"}
  <2>1. running[i] \in Tasks /\ Die(running[i])
    BY <1>3 DEF CancelAtDatabase, TypeOK
  <2> QED
    BY <2>1 DEF Die, TypeOK, Untouched, Goto
<1>4. ASSUME NEW t \in Tasks, LogOutput(t) \/ Fault(t) \/ OrphanExit(t)
      PROVE  Untouched(u) \/ Moved(u) \/ pc'[u] \in {"ended", "dead"}
  BY <1>4 DEF LogOutput, Fault, OrphanExit, Die, taskVars, TypeOK, Untouched, Moved,
     FinalSteps, Goto
<1>5. ASSUME (\E n \in Nodes : Boot(n)) \/ ClearRuns PROVE Untouched(u)
  BY <1>5 DEF Boot, ClearRuns, taskVars, Untouched
<1> QED
  BY <1>1, <1>2, <1>3, <1>4, <1>5, Zenon DEF Disturb

LEMMA FinalStep ==
  ASSUME IInv, FinalInv, [Next]_vars
  PROVE  FinalInv'
<1>1. TypeOK /\ HasId
  BY DEF IInv
<1>2. CASE Crash
  <2>1. \A t \in Tasks : pc'[t] \in {"idle", "ended", "dead"} /\ frame'[t] = Frame0
    BY <1>2 DEF Crash, Live
  <2> QED
    BY <2>1 DEF FinalInv, FinalSteps, Frame0, Live
<1>3. CASE ~Crash
  <2> SUFFICES ASSUME NEW u \in Tasks
               PROVE  /\ pc'[u] \in {"idle", "insert"} => frame'[u].saved = "running"
                      /\ "clear" \notin Env /\ Live(u)' /\ rid'[u] # 0 =>
                           frame'[u].saved = runs'[rid'[u]]
                      /\ pc'[u] \in FinalSteps =>
                           status'[u] = "success" /\ frame'[u].saved = "success"
                      /\ pc'[u] = "flush" /\ then'[u] \in FinalSteps => status'[u] = "success"
    BY DEF FinalInv, Live, FinalSteps
  <2>1. Untouched(u) \/ Moved(u) \/ Insert(u) \/ Flush(u) \/ pc'[u] \in {"ended", "dead"}
    <3>1. CASE UNCHANGED vars
      BY <3>1 DEF vars, taskVars, Untouched
    <3>2. CASE \E t \in Tasks : Step(t)
      BY <1>1, <3>2, StepMoves
    <3>3. CASE Disturb
      BY <1>1, <1>3, <3>3, DisturbMoves
    <3> QED
      BY <3>1, <3>2, <3>3 DEF Next
  <2>2. CASE pc'[u] \in {"ended", "dead"}
    BY <2>2 DEF FinalSteps, Live
  <2>3. CASE Untouched(u)
    <3>1. ASSUME "clear" \notin Env, Live(u), rid[u] # 0 PROVE runs'[rid[u]] = runs[rid[u]]
      <4>1. Unfinished(u) /\ rid[u] \in Ids /\ runs[rid[u]] # "none"
        BY <1>1, <3>1 DEF Live, Unfinished, TypeOK, IInv, RowsStayOwn
      <4>2. ASSUME runs'[rid[u]] # runs[rid[u]] PROVE FALSE
        <5>1. PICK t \in Tasks : Unfinished(t) /\ rid[t] = rid[u] /\ pc'[t] # pc[t]
          BY <3>1, <4>1, <4>2, RunWriters
        <5>2. t = u
          BY <4>1, <5>1 DEF IInv, RowsStayOwn
        <5> QED
          BY <2>3, <5>1, <5>2 DEF Untouched
      <4> QED
        BY <4>2
    <3> QED
      BY <2>3, <3>1 DEF Untouched, FinalInv, Live
  <2>4. CASE Moved(u)
    <3>1. Live(u)' /\ rid'[u] # 0 => Live(u) /\ rid[u] # 0
      BY <1>1, <2>4 DEF Moved, Live, HasId
    <3> QED
      BY <2>4, <3>1 DEF Moved, FinalInv
  <2>5. CASE Insert(u)
    BY <1>1, <2>5 DEF Insert, Goto, TypeOK, FinalInv, FinalSteps
  <2>6. CASE Flush(u)
    <3>1. rid[u] \in Ids /\ rid[u] # 0 /\ Live(u)
      BY <1>1, <2>6 DEF Flush, HasId, TypeOK, Live
    <3>2. "clear" \notin Env => runs'[rid[u]] = status[u]
      BY <1>1, <2>6, <3>1 DEF Flush, FlushWrites, WriteStatus, TypeOK, FinalInv
    <3>3. CASE then[u] = "release"
      <4>1. /\ pc'[u] = "release" /\ rid' = rid /\ frame'[u].saved = status[u]
        BY <1>1, <2>6, <3>3 DEF Flush, EndSaved, Goto, TypeOK, Frame0
      <4> QED
        BY <3>2, <4>1 DEF FinalSteps
    <3>4. CASE then[u] # "release"
      <4>1. /\ pc'[u] = then[u] /\ rid' = rid /\ status' = status /\ frame'[u].saved = status[u]
        BY <1>1, <2>6, <3>4 DEF Flush, Goto, TypeOK, Frames
      <4>2. pc[u] = "flush" /\ then[u] \notin {"flush", "idle", "insert"}
        BY <1>1, <2>6 DEF Flush, TypeOK, FlushTo, Working
      <4> QED
        BY <3>2, <4>1, <4>2 DEF FinalInv
    <3> QED
      BY <3>3, <3>4
  <2> QED
    BY <2>1, <2>2, <2>3, <2>4, <2>5, <2>6
<1> QED
  BY <1>2, <1>3

LEMMA FinalInit == Init => FinalInv
BY DEF Init, FinalInv, FinalSteps, Frame0, Live

\* A run that takes a final step is shown as a success.
LEMMA ShownAsSuccess ==
  ASSUME Protected, IInv, FinalInv, NEW t \in Tasks, pc[t] \in FinalSteps
  PROVE  status[t] = "success" /\ runs[rid[t]] = "success"
<1>1. "clear" \notin Env
  <2>1. NoResultYet(t) => pc[t] \notin FinalSteps
    BY DEF NoResultYet, FinalSteps
  <2> QED
    BY <2>1 DEF Protected, IInv, ActiveUntilEnd
<1>2. Live(t) /\ rid[t] # 0
  BY DEF FinalSteps, Live, IInv, HasId
<1> QED
  BY <1>1, <1>2 DEF FinalInv

LEMMA FinalInvariance == Protected => (Spec => [](IInv /\ FinalInv))
<1> SUFFICES ASSUME Protected PROVE Spec => [](IInv /\ FinalInv)
  OBVIOUS
<1> QED
  BY Invariance, FinalInit, FinalStep, PTL DEF Spec

(***************************************************************************)
(* A run powers a node off only once its row shows the success, and only   *)
(* the destination of its job: a failed, cancelled or unchecked run leaves *)
(* the node on (job_runner.py, the shutdown_after block).                  *)
(***************************************************************************)
THEOREM OnlySuccessPowersOff == Protected => (Spec => PowerOffAfterSuccess)
<1> SUFFICES ASSUME Protected PROVE Spec => PowerOffAfterSuccess
  OBVIOUS
<1> DEFINE Justified ==
      \A n \in up : n \notin up' =>
        \E t \in Tasks : /\ pc[t] = "poweroff" /\ Dest[JobOf[t]] = n
                         /\ runs[rid[t]] = "success"
<1>1. IInv /\ FinalInv /\ [Next]_vars => [Justified]_vars
  <2> SUFFICES ASSUME IInv, FinalInv, [Next]_vars, NEW n \in up, n \notin up'
               PROVE  \E t \in Tasks : /\ pc[t] = "poweroff" /\ Dest[JobOf[t]] = n
                                       /\ runs[rid[t]] = "success"
    OBVIOUS
  <2>1. \E t \in Tasks : pc[t] = "poweroff" /\ up' \in {up, up \ {Dest[JobOf[t]]}}
    <3>1. ASSUME NEW t \in Tasks, Step(t) PROVE PowerOff(t)
      BY <3>1 DEF Step, Start, Insert, Register, LockBusy, LockBusyAgain, LockFree, LockInsert,
         LockConflict, WakeUp, Flush, FlushStale, LoadNode, Probe, Wake, BeginOperation, CallDone,
         CheckDone, MarkOffline, DeleteJob, Release, ReleaseFails, outVars
    <3>2. ASSUME Disturb PROVE \E i \in Ids : CancelOutside(i) /\ pc[running[i]] = "poweroff"
      BY <3>2 DEF Disturb, CancelRequest, CancelMiss, CancelOutside, CancelAtDatabase, LogOutput,
         Fault, OrphanExit, Boot, ClearRuns, Crash, outVars
    <3>3. ASSUME NEW i \in Ids, CancelOutside(i), pc[running[i]] = "poweroff"
          PROVE  running[i] \in Tasks /\ up' \in {up, up \ {Dest[JobOf[running[i]]]}}
      BY <3>3 DEF CancelOutside, IInv, TypeOK
    <3> QED
      BY <3>1, <3>2, <3>3 DEF Next, vars, outVars, PowerOff
  <2> QED
    BY <2>1, ShownAsSuccess DEF FinalSteps
<1> QED
  BY <1>1, FinalInvariance, PTL DEF Spec, PowerOffAfterSuccess

(***************************************************************************)
(* delete_on_success takes a job away only once a run of it is shown as a  *)
(* success, and does not report that run as failed (job_runner.py, the     *)
(* delete_on_success block).                                               *)
(***************************************************************************)
THEOREM OnlySuccessDeletes == Protected => (Spec => JobDeletedOnSuccess)
<1> SUFFICES ASSUME Protected PROVE Spec => JobDeletedOnSuccess
  OBVIOUS
<1> DEFINE Justified ==
      \A j \in jobs : j \notin jobs' =>
        \E t \in Tasks : /\ JobOf[t] = j /\ runs[rid[t]] = "success"
                         /\ status'[t] # "failed"
<1>1. IInv /\ FinalInv /\ [Next]_vars => [Justified]_vars
  <2> SUFFICES ASSUME IInv, FinalInv, [Next]_vars, NEW j \in jobs, j \notin jobs'
               PROVE  \E t \in Tasks : /\ JobOf[t] = j /\ runs[rid[t]] = "success"
                                       /\ status'[t] # "failed"
    OBVIOUS
  <2>1. TypeOK
    BY DEF IInv
  <2>2. \E t \in Tasks : /\ pc[t] = "deleteJob" /\ jobs' = jobs \ {JobOf[t]}
                         /\ status'[t] = status[t]
    <3>1. ASSUME NEW t \in Tasks, Step(t) PROVE DeleteJob(t)
      BY <3>1 DEF Step, Start, Insert, Register, LockBusy, LockBusyAgain, LockFree, LockInsert,
         LockConflict, WakeUp, Flush, FlushStale, LoadNode, Probe, Wake, BeginOperation, CallDone,
         CheckDone, PowerOff, MarkOffline, Release, ReleaseFails, dbVars
    <3>2. ASSUME NEW t \in Tasks, DeleteJob(t)
          PROVE  pc[t] = "deleteJob" /\ jobs' = jobs \ {JobOf[t]} /\ status'[t] = status[t]
      BY <2>1, <3>2 DEF DeleteJob, EndRun, EndSaved, TypeOK
    <3>3. ASSUME Disturb PROVE \E i \in Ids : CancelAtDatabase(i) /\ jobs' # jobs
      BY <3>3 DEF Disturb, CancelRequest, CancelMiss, CancelOutside, LogOutput,
         Fault, OrphanExit, Boot, ClearRuns, Crash, dbVars
    <3>4. ASSUME NEW i \in Ids, CancelAtDatabase(i), jobs' # jobs
          PROVE  /\ running[i] \in Tasks /\ pc[running[i]] = "deleteJob"
                 /\ jobs' = jobs \ {JobOf[running[i]]} /\ status'[running[i]] = status[running[i]]
      BY <2>1, <3>4 DEF CancelAtDatabase, Die, TypeOK, dbVars
    <3> QED
      BY <3>1, <3>2, <3>3, <3>4 DEF Next, vars, dbVars
  <2>3. PICK t \in Tasks : /\ pc[t] = "deleteJob" /\ jobs' = jobs \ {JobOf[t]}
                          /\ status'[t] = status[t]
    BY <2>2
  <2>4. JobOf[t] = j
    BY <2>3
  <2> QED
    BY <2>3, <2>4, ShownAsSuccess DEF FinalSteps
<1> QED
  BY <1>1, FinalInvariance, PTL DEF Spec, JobDeletedOnSuccess

-----------------------------------------------------------------------------
(* JobRunner implements the lock service NodeLock: with the inductive        *)
(* invariant, every step of the runs and of what disturbs them is a step of *)
(* NodeLock or leaves its variables alone.                                  *)

Inside == {t \in Tasks : Holding(t)}
HolderMap == [n \in Nodes |-> Holder(n)]

\* What the CHOOSE of Holder picks.
HolderOK ==
  \A n \in Nodes :
     /\ locks[n] = 0 => Holder(n) = NoTask
     /\ locks[n] # 0 => \E t \in Tasks : /\ Unfinished(t) /\ rid[t] = locks[n]
                                         /\ Primary(t) = n /\ Holder(n) = t
     /\ \A t \in Tasks : Unfinished(t) /\ rid[t] = locks[n] => Holder(n) = t

LEMMA HolderIsTask == IInv => HolderOK
<1> SUFFICES ASSUME IInv, NEW n \in Nodes
             PROVE  /\ locks[n] = 0 => Holder(n) = NoTask
                    /\ locks[n] # 0 => \E t \in Tasks : /\ Unfinished(t) /\ rid[t] = locks[n]
                                                        /\ Primary(t) = n /\ Holder(n) = t
                    /\ \A t \in Tasks : Unfinished(t) /\ rid[t] = locks[n] => Holder(n) = t
  BY DEF HolderOK
<1>1. ASSUME NEW t \in Tasks, Unfinished(t), rid[t] = locks[n] PROVE Holder(n) = t
  <2>1. locks[n] # 0
    BY <1>1 DEF Unfinished
  <2>2. \A u \in Tasks : Unfinished(u) /\ rid[u] = locks[n] => u = t
    BY <1>1 DEF IInv, RowsStayOwn
  <2> QED
    BY <1>1, <2>1, <2>2 DEF Holder
<1>2. locks[n] # 0 => \E t \in Tasks : /\ Unfinished(t) /\ rid[t] = locks[n]
                                       /\ Primary(t) = n /\ Holder(n) = t
  BY <1>1 DEF IInv, LocksAccountedFor
<1> QED
  BY <1>1, <1>2 DEF Holder

\* While the owners of the locks stay unfinished and keep their ids, the lock
\* service sees no change of its locks.
LEMMA SameHolder ==
  ASSUME HolderOK, HolderOK', NEW n \in Nodes, locks'[n] = locks[n],
         \A t \in Tasks : Unfinished(t) /\ rid[t] = locks[n]
                             => Unfinished(t)' /\ rid'[t] = rid[t]
  PROVE  Holder(n)' = Holder(n)
<1>1. CASE locks[n] = 0
  BY <1>1 DEF HolderOK
<1>2. CASE locks[n] # 0
  <2>1. PICK t \in Tasks : Unfinished(t) /\ rid[t] = locks[n] /\ Holder(n) = t
    BY <1>2 DEF HolderOK
  <2>2. Unfinished(t)' /\ rid'[t] = locks'[n]
    BY <2>1
  <2> QED
    BY <2>1, <2>2 DEF HolderOK
<1> QED
  BY <1>1, <1>2

\* Without a change of its locks, clients that stop are a Leave.
LEMMA LeaveStep ==
  ASSUME HolderMap' = HolderMap, Inside' \subseteq Inside
  PROVE  [LockService!Next]_LockService!vars
<1>1. CASE Inside' = Inside
  BY <1>1 DEF LockService!vars, Inside, HolderMap
<1>2. CASE Inside' # Inside
  <2> DEFINE S == Inside \ Inside'
  <2>1. S # {} /\ S \subseteq Inside /\ Inside' = Inside \ S
    BY <1>2
  <2>2. LockService!Leave(S)
    BY <2>1 DEF LockService!Leave, Inside, HolderMap
  <2> QED
    BY <2>1, <2>2 DEF LockService!Next, Inside
<1> QED
  BY <1>1, <1>2

\* A step that writes no lock and in which nobody starts to work.
LEMMA NoLockStep ==
  ASSUME HolderOK, HolderOK', locks' = locks,
         \A t \in Tasks : Unfinished(t) => Unfinished(t)' /\ rid'[t] = rid[t],
         \A t \in Tasks : Holding(t)' => Holding(t)
  PROVE  [LockService!Next]_LockService!vars
<1>1. \A n \in Nodes : Holder(n)' = Holder(n)
  BY SameHolder
<1>2. HolderMap' = HolderMap
  BY <1>1 DEF HolderMap
<1>3. Inside' \subseteq Inside
  BY DEF Inside
<1> QED
  BY <1>2, <1>3, LeaveStep

\* A task that is given its lock: the lock service's Acquire.
LEMMA TakeIsAcquire ==
  ASSUME IInv, HolderOK, HolderOK', NEW t \in Tasks, Take(t)
  PROVE  [LockService!Next]_LockService!vars
<1>a. TypeOK /\ pc[t] = "lockWrite" /\ rid[t] # 0 /\ rid' = rid /\ Unfinished(t)
  BY DEF IInv, HasId, Take, Unfinished
<1>b. pc'[t] # "ended" /\ \A u \in Tasks \ {t} : pc'[u] = pc[u] /\ then'[u] = then[u]
  BY DEF Take
<1>c. \A u \in Tasks : Unfinished(u) => Unfinished(u)' /\ rid'[u] = rid[u]
  BY <1>a, <1>b DEF Unfinished
<1>d. \A u \in Tasks \ {t} : Holding(u)' <=> Holding(u)
  BY <1>b DEF Holding, Primary
<1>e. ~Holding(t)
  BY <1>a DEF Holding, Working
<1>1. CASE Primary(t) \notin Nodes
  <2>1. locks' = locks
    BY <1>1, <1>a DEF Take, TakeLock, TypeOK
  <2>2. ~Holding(t)'
    BY <1>1, PrimaryType DEF Holding, Primary
  <2> QED
    BY <2>1, <2>2, <1>c, <1>d, NoLockStep
<1>2. CASE Primary(t) \in Nodes
  <2> DEFINE p == Primary(t)
  <2>1. locks[p] = 0 /\ locks'[p] = rid[t] /\ \A n \in Nodes \ {p} : locks'[n] = locks[n]
    BY <1>2, <1>a DEF Take, TakeLock, TypeOK
  <2>2. Holder(p) = NoTask /\ Holder(p)' = t
    BY <1>2, <1>a, <1>c, <2>1 DEF HolderOK
  <2>3. \A n \in Nodes \ {p} : Holder(n)' = Holder(n)
    BY <1>c, <2>1, SameHolder
  <2>4. HolderMap' = [HolderMap EXCEPT ![p] = t]
    BY <1>2, <2>2, <2>3 DEF HolderMap
  <2>5. \A n \in Nodes : Holder(n) # t
    <3>1. \A n \in Nodes : locks[n] # rid[t]
      BY <1>a DEF IInv, NoLockYet, BeforeLock
    <3> QED
      BY <3>1, ConstantsAssumption DEF HolderOK
  <2>6. LockService!Holds(t) = {}
    BY <2>5 DEF LockService!Holds
  <2>7. Inside' \in {Inside, Inside \cup {t}}
    <3>1. CASE Holding(t)'
      BY <1>d, <3>1 DEF Inside
    <3>2. CASE ~Holding(t)'
      BY <1>d, <1>e, <3>2 DEF Inside
    <3> QED
      BY <3>1, <3>2
  <2>8. LockService!Acquire(t, p)
    BY <1>2, <1>e, <2>2, <2>4, <2>6, <2>7 DEF LockService!Acquire, Inside, HolderMap
  <2> QED
    BY <1>2, <2>8 DEF LockService!Next
<1> QED
  BY <1>1, <1>2

\* The `finally' of a run: the lock service's Release, when it holds a lock.
LEMMA ReleaseIsRelease ==
  ASSUME IInv, HolderOK, HolderOK', NEW t \in Tasks, Release(t)
  PROVE  [LockService!Next]_LockService!vars
<1>a. /\ TypeOK /\ pc[t] = "release" /\ rid[t] # 0 /\ Unfinished(t)
      /\ rid' = rid /\ then' = then
  BY DEF IInv, HasId, Release, Unfinished
<1>b. pc'[t] = "ended" /\ \A u \in Tasks \ {t} : pc'[u] = pc[u]
  BY <1>a DEF Release, Goto, TypeOK
<1>c. \A u \in Tasks \ {t} : Unfinished(u) => Unfinished(u)' /\ rid'[u] = rid[u]
  BY <1>a, <1>b DEF Unfinished
<1>d. \A u \in Tasks : Holding(u)' <=> Holding(u)
  BY <1>a, <1>b DEF Holding, Primary, Working
<1>e. Inside' = Inside
  BY <1>d DEF Inside
<1>f. \A n \in Nodes : locks'[n] = IF locks[n] = rid[t] THEN 0 ELSE locks[n]
  BY DEF Release, Owned
<1>1. \A n \in Nodes \ Owned(t) : Holder(n)' = Holder(n)
  BY <1>c, <1>f, SameHolder DEF Owned
<1>2. CASE Owned(t) = {}
  BY <1>1, <1>2, <1>e, LeaveStep DEF HolderMap
<1>3. CASE Owned(t) # {}
  <2>1. PICK n \in Owned(t) : \A m \in Owned(t) : m = n
    BY <1>3 DEF Release, ReleaseOk
  <2>2. n \in Nodes /\ locks[n] = rid[t] /\ locks'[n] = 0
    BY <2>1, <1>f DEF Owned
  <2>3. Holder(n) = t /\ Holder(n)' = NoTask
    BY <2>2, <1>a DEF HolderOK
  <2>4. HolderMap' = [HolderMap EXCEPT ![n] = NoTask]
    BY <1>1, <2>1, <2>2, <2>3 DEF HolderMap
  <2>5. LockService!Release(t, n)
    BY <1>a, <1>e, <2>2, <2>3, <2>4
    DEF LockService!Release, Inside, HolderMap, Holding, Working
  <2> QED
    BY <2>2, <2>5 DEF LockService!Next
<1> QED
  BY <1>2, <1>3

LEMMA QuietIsLeave ==
  ASSUME IInv, HolderOK, HolderOK', NEW t \in Tasks, Quiet(t)
  PROVE  [LockService!Next]_LockService!vars
<1>1. \A u \in Tasks : Unfinished(u) => Unfinished(u)' /\ rid'[u] = rid[u]
  BY DEF Quiet, Unfinished
<1>2. \A u \in Tasks : Holding(u)' => Holding(u)
  BY DEF Quiet, Holding, Primary
<1> QED
  BY <1>1, <1>2, NoLockStep DEF Quiet

\* Steps before a task has an id.
LEMMA EarlyStep ==
  ASSUME IInv, HolderOK, HolderOK', NEW t \in Tasks, NEW p \in {"insert", "register", "ended"},
         pc[t] \in {"idle", "insert"}, Goto(t, p), UNCHANGED <<then, locks>>,
         \A u \in Tasks \ {t} : rid'[u] = rid[u]
  PROVE  [LockService!Next]_LockService!vars
<1>1. rid[t] = 0 /\ TypeOK
  BY DEF IInv, HasId
<1>2. pc'[t] = p /\ \A u \in Tasks \ {t} : pc'[u] = pc[u]
  BY <1>1 DEF Goto, TypeOK
<1>3. \A u \in Tasks : Unfinished(u) => Unfinished(u)' /\ rid'[u] = rid[u]
  BY <1>1, <1>2 DEF Unfinished
<1>4. \A u \in Tasks : Holding(u)' => Holding(u)
  BY <1>2 DEF Holding, Primary, Working
<1> QED
  BY <1>3, <1>4, NoLockStep

LEMMA StillStep ==
  ASSUME HolderOK, HolderOK', UNCHANGED <<pc, then, rid, locks>>
  PROVE  [LockService!Next]_LockService!vars
BY NoLockStep DEF Unfinished, Holding, Primary

LEMMA CrashIsLeave ==
  ASSUME IInv, HolderOK, HolderOK', Crash
  PROVE  [LockService!Next]_LockService!vars
<1>1. \A u \in Tasks : pc'[u] = IF Live(u) THEN IF rid[u] = 0 THEN "ended" ELSE "dead"
                                           ELSE pc[u]
  BY DEF Crash
<1>2. \A u \in Tasks : Unfinished(u) => Unfinished(u)' /\ rid'[u] = rid[u]
  BY <1>1 DEF Crash, Unfinished
<1>3. \A u \in Tasks : ~Holding(u)'
  BY <1>1 DEF Holding, Working, Live
<1> QED
  BY <1>2, <1>3, NoLockStep DEF Crash, dbVars

LEMMA RefinementStep ==
  ASSUME Protected, IInv, HolderOK, HolderOK', [Next]_vars
  PROVE  [LockService!Next]_LockService!vars
<1>1. ASSUME NEW t \in Tasks, Step(t) PROVE [LockService!Next]_LockService!vars
  <2>1. CASE Start(t)
    BY <2>1, EarlyStep DEF Start, dbVars
  <2>2. CASE Insert(t)
    <3>1. \A u \in Tasks \ {t} : rid'[u] = rid[u]
      BY <2>2 DEF Insert, IInv, TypeOK
    <3> QED
      BY <2>2, <3>1, EarlyStep DEF Insert
  <2>3. CASE LockInsert(t)
    <3>1. Take(t)
      BY <2>3 DEF LockInsert, Take, FlushThen, Goto, IInv, TypeOK
    <3> QED
      BY <3>1, TakeIsAcquire
  <2>4. CASE Release(t)
    BY <2>4, ReleaseIsRelease
  <2>5. CASE Quiet(t)
    BY <2>5, QuietIsLeave
  <2> QED
    BY <1>1, <2>1, <2>2, <2>3, <2>4, <2>5, QuietActions DEF Step
<1>2. ASSUME NEW t \in Tasks, LogOutput(t) \/ Fault(t) \/ OrphanExit(t)
      PROVE  [LockService!Next]_LockService!vars
  <2>1. CASE LogOutput(t)
    BY <2>1, QuietActions, QuietIsLeave
  <2>2. CASE Fault(t) /\ pc[t] # "insert"
    BY <2>2, DisturbedTask, QuietIsLeave, TakeIsAcquire
  <2>3. CASE Fault(t) /\ pc[t] = "insert"
    BY <2>3, EarlyStep DEF Fault, dbVars
  <2>4. CASE OrphanExit(t)
    BY <2>4, StillStep DEF OrphanExit, taskVars, dbVars
  <2> QED
    BY <1>2, <2>1, <2>2, <2>3, <2>4
<1>3. ASSUME NEW i \in Ids,
             CancelRequest(i) \/ CancelMiss(i) \/ CancelOutside(i) \/ CancelAtDatabase(i)
      PROVE  [LockService!Next]_LockService!vars
  <2>1. CASE CancelRequest(i) \/ CancelMiss(i)
    BY <2>1, StillStep DEF CancelRequest, CancelMiss, taskVars, dbVars
  <2>2. CASE CancelOutside(i) \/ CancelAtDatabase(i)
    <3>1. running[i] \in Tasks
      BY <2>2 DEF CancelOutside, CancelAtDatabase, IInv, TypeOK
    <3> QED
      BY <2>2, <3>1, DisturbedTask, QuietIsLeave, TakeIsAcquire
  <2> QED
    BY <1>3, <2>1, <2>2
<1>4. CASE \E n \in Nodes : Boot(n)
  BY <1>4, StillStep DEF Boot, taskVars, dbVars
<1>5. CASE ClearRuns
  BY <1>5, StillStep DEF ClearRuns, taskVars
<1>6. CASE Crash
  BY <1>6, CrashIsLeave
<1>7. CASE UNCHANGED vars
  BY <1>7, StillStep DEF vars, taskVars, dbVars
<1> QED
  BY <1>1, <1>2, <1>3, <1>4, <1>5, <1>6, <1>7 DEF Next, Disturb

LEMMA RefinementInit == Init => LockService!Init
<1> SUFFICES ASSUME Init PROVE LockService!Init
  OBVIOUS
<1>1. \A n \in Nodes : Holder(n) = NoTask
  BY DEF Init, Holder
<1>2. \A t \in Tasks : ~Holding(t)
  BY DEF Init, Holding, Working
<1> QED
  BY <1>1, <1>2 DEF LockService!Init

(***************************************************************************)
(* The runs implement the lock service NodeLock, for any number of runs,   *)
(* nodes and jobs, with cancellation, failed writes and restarts: every    *)
(* lock is given by Acquire, stays with its owner, and goes by Release.    *)
(***************************************************************************)
THEOREM Implementation == Protected => (Spec => ImplementsNodeLock)
<1> SUFFICES ASSUME Protected PROVE Spec => ImplementsNodeLock
  OBVIOUS
<1>1. IInv /\ HolderOK /\ HolderOK' /\ [Next]_vars => [LockService!Next]_LockService!vars
  BY RefinementStep
<1>2. IInv => HolderOK
  BY HolderIsTask
<1> QED
  BY <1>1, <1>2, RefinementInit, Invariance, PTL DEF Spec, ImplementsNodeLock, LockService!Spec
=============================================================================
