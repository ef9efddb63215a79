-------------------------- MODULE NodeMonitorProofs --------------------------
(***************************************************************************)
(* Theorems about NodeMonitor: the poller, the idle monitor and the         *)
(* shutdown endpoint do not disturb what the runs guarantee each other.     *)
(***************************************************************************)
EXTENDS NodeMonitor, JobRunnerProofs

\* A step of the monitors: of the variables of the runs it writes only the
\* status and the power of nodes.
Aside == /\ UNCHANGED <<taskVars, runs, locks, jobs, running, cancelling, procs, crashes>>
         /\ nstatus' \in [Nodes -> NodeStatus] /\ up' \subseteq Nodes

LEMMA AsideStep ==
  ASSUME IInv, Aside
  PROVE  IInv'
<1>1. TypeOK'
  BY DEF IInv, TypeOK, Aside, taskVars
<1> QED
  BY <1>1 DEF Aside, IInv, taskVars, HasId, RowsStayOwn, ActiveUntilEnd, NoResultYet,
     LocksAccountedFor, HolderKeepsLock, NoLockYet, CancelReaches, Unfinished,
     Holding, BeforeLock, Registered, Live, Primary

\* What the monitors write to the status of a node.
MonitorStep == \/ PollStep \/ PollFails \/ SweepStep \/ SweepFails \/ RequestStep
               \/ \E n \in Nodes : RequestShutdown(n) \/ Age(n)

LEMMA PollIdleType ==
  PollIdle \in [at : {"idle", "test", "load", "commit"}, todo : SUBSET Nodes,
                found : [Nodes -> {"online", "offline", "keep"}]]
BY DEF PollIdle

LEMMA SweepNextType ==
  ASSUME NEW S \in SUBSET Nodes, SweepNext(S)
  PROVE  /\ sweep' \in [at : {"idle", "locks", "poweroff", "commit"},
                        todo : SUBSET Nodes, node : Nodes \cup {NoNode}]
         /\ sweep'.at \in {"poweroff", "commit"} => sweep'.node \in Nodes
BY DEF SweepNext, SweepIdle

LEMMA PollSteps ==
  ASSUME MonitoredTypeOK, PollStep \/ PollFails
  PROVE  Aside /\ MonitoredTypeOK'
<1> USE DEF MonitoredTypeOK
<1>a. TypeOK /\ UNCHANGED <<sweep, request, requests>>
  BY DEF PollStep, PollFails, PollBegin, PollTest, PollLoad, PollCommit
<1>1. CASE PollBegin
  BY <1>1, PollIdleType DEF PollBegin, PollIdle, Aside, TypeOK, vars, taskVars, dbVars, outVars
<1>2. ASSUME NEW n \in Nodes, NEW s \in {"online", "offline"}, PollTest(n, s)
      PROVE  Aside /\ MonitoredTypeOK'
  BY <1>2 DEF PollTest, Aside, TypeOK, vars, taskVars, dbVars, outVars
<1>3. ASSUME NEW n \in Nodes, PollLoad(n)
      PROVE  Aside /\ MonitoredTypeOK'
  BY <1>3 DEF PollLoad, Aside, TypeOK, vars, taskVars, dbVars, outVars
<1>4. CASE PollCommit
  <2>1. nstatus' \in [Nodes -> NodeStatus]
    BY <1>4 DEF PollCommit, TypeOK, NodeStatus
  <2>2. active' \in [Nodes -> {"never", "recent", "idle"}]
    BY <1>4 DEF PollCommit, Touch
  <2> QED
    BY <1>4, <2>1, <2>2, <1>a, PollIdleType DEF PollCommit, Aside, TypeOK, taskVars, outVars
<1>5. CASE PollFails
  BY <1>5, PollIdleType DEF PollFails, Aside, TypeOK, vars, taskVars, dbVars, outVars
<1> QED
  BY <1>1, <1>2, <1>3, <1>4, <1>5 DEF PollStep

LEMMA SweepSteps ==
  ASSUME MonitoredTypeOK, SweepStep \/ SweepFails
  PROVE  Aside /\ MonitoredTypeOK'
<1> USE DEF MonitoredTypeOK
<1>1. CASE SweepSelect
  BY <1>1, MonitorAssumption
  DEF SweepSelect, SweepIdle, Aside, TypeOK, vars, taskVars, dbVars, outVars
<1>2. CASE SweepLocks
  BY <1>2, SweepNextType DEF SweepLocks, Aside, TypeOK, vars, taskVars, dbVars, outVars
<1>3. ASSUME NEW down \in BOOLEAN, SweepPowerOff(down)
      PROVE  Aside /\ MonitoredTypeOK'
  <2>1. up' \subseteq Nodes
    BY <1>3 DEF SweepPowerOff, TypeOK
  <2>2. /\ sweep' \in [at : {"idle", "locks", "poweroff", "commit"},
                       todo : SUBSET Nodes, node : Nodes \cup {NoNode}]
        /\ sweep'.at \in {"poweroff", "commit"} => sweep'.node \in Nodes
    <3>1. CASE sweep' = [sweep EXCEPT !.at = "commit"]
      BY <1>3, <3>1 DEF SweepPowerOff
    <3>2. CASE SweepNext(sweep.todo)
      BY <3>2, SweepNextType
    <3> QED
      BY <1>3, <3>1, <3>2 DEF SweepPowerOff
  <2> QED
    BY <1>3, <2>1, <2>2 DEF SweepPowerOff, Aside, TypeOK, taskVars, dbVars
<1>4. CASE SweepCommit
  <2>1. nstatus' \in [Nodes -> NodeStatus]
    BY <1>4 DEF SweepCommit, TypeOK, NodeStatus
  <2> QED
    BY <1>4, <2>1, SweepNextType DEF SweepCommit, Aside, TypeOK, taskVars, outVars
<1>5. CASE SweepFails
  BY <1>5 DEF SweepFails, SweepIdle, Aside, TypeOK, vars, taskVars, dbVars, outVars
<1> QED
  BY <1>1, <1>2, <1>3, <1>4, <1>5 DEF SweepStep, SweepReturns

LEMMA OtherSteps ==
  ASSUME MonitoredTypeOK,
         RequestStep \/ \E n \in Nodes : RequestShutdown(n) \/ Age(n)
  PROVE  Aside /\ MonitoredTypeOK'
<1> USE DEF MonitoredTypeOK
<1>1. ASSUME NEW n \in Nodes, RequestShutdown(n) PROVE Aside /\ MonitoredTypeOK'
  BY <1>1, MonitorAssumption
  DEF RequestShutdown, Aside, TypeOK, vars, taskVars, dbVars, outVars
<1>2. CASE RequestPowerOff
  <2>1. up' \subseteq Nodes
    BY <1>2 DEF RequestPowerOff, TypeOK
  <2> QED
    BY <1>2, <2>1 DEF RequestPowerOff, NoRequest, Aside, TypeOK, taskVars, dbVars, NodeStatus
<1>3. CASE RequestCommit
  <2>1. nstatus' \in [Nodes -> NodeStatus]
    BY <1>3 DEF RequestCommit, TypeOK, NodeStatus
  <2> QED
    BY <1>3, <2>1 DEF RequestCommit, NoRequest, Aside, TypeOK, taskVars, outVars, NodeStatus
<1>4. ASSUME NEW n \in Nodes, Age(n) PROVE Aside /\ MonitoredTypeOK'
  BY <1>4 DEF Age, Aside, TypeOK, vars, taskVars, dbVars, outVars, monitorVars
<1> QED
  BY <1>1, <1>2, <1>3, <1>4 DEF RequestStep

\* Every step is one of the runs, with a change of last_active_at and perhaps a
\* reset of the monitors, or one of the monitors.
LEMMA MonitoredStep ==
  ASSUME MonitoredTypeOK, [MonitoredNext]_mvars
  PROVE  ([Next]_vars \/ Aside) /\ MonitoredTypeOK'
<1>a. TypeOK
  BY DEF MonitoredTypeOK
<1>b. ASSUME [Next]_vars, active' \in [Nodes -> {"never", "recent", "idle"}],
             \/ UNCHANGED monitorVars
             \/ /\ poll' = PollIdle /\ sweep' = SweepIdle /\ request' = NoRequest
                /\ UNCHANGED requests
      PROVE  MonitoredTypeOK'
  <2>1. TypeOK'
    BY <1>a, <1>b, TypeStep
  <2>2. CASE UNCHANGED monitorVars
    BY <1>b, <2>1, <2>2 DEF MonitoredTypeOK, monitorVars
  <2>3. CASE /\ poll' = PollIdle /\ sweep' = SweepIdle /\ request' = NoRequest
             /\ UNCHANGED requests
    BY <1>b, <2>1, <2>3, PollIdleType DEF MonitoredTypeOK, SweepIdle, NoRequest, NodeStatus
  <2> QED
    BY <1>b, <2>2, <2>3
<1>c. ASSUME NEW S, Touch(S) PROVE active' \in [Nodes -> {"never", "recent", "idle"}]
  BY <1>c DEF Touch, MonitoredTypeOK
<1>1. CASE \E t \in Tasks : RunStep(t)
  BY <1>1, <1>b, <1>c DEF RunStep, Next
<1>2. CASE \E i \in Ids : RunCancelled(i)
  BY <1>2, <1>b, <1>c DEF RunCancelled, Next, Disturb, MonitoredTypeOK
<1>3. CASE RunDisturbed
  BY <1>3, <1>b DEF RunDisturbed, Next, Disturb, MonitoredTypeOK
<1>4. CASE Restart
  BY <1>4, <1>b DEF Restart, Next, Disturb, MonitoredTypeOK
<1>5. CASE UNCHANGED mvars
  BY <1>5, <1>b DEF mvars, MonitoredTypeOK
<1>6. CASE MonitorStep
  BY <1>6, PollSteps, SweepSteps, OtherSteps DEF MonitorStep
<1> QED
  BY <1>1, <1>2, <1>3, <1>4, <1>5, <1>6 DEF MonitoredNext, MonitorStep

LEMMA MonitoredInitType == MonitoredInit => MonitoredTypeOK
<1> SUFFICES ASSUME MonitoredInit PROVE MonitoredTypeOK
  OBVIOUS
<1>1. TypeOK
  BY InductiveInit DEF MonitoredInit, IInv
<1> QED
  BY <1>1, PollIdleType, MonitorAssumption
  DEF MonitoredInit, MonitoredTypeOK, SweepIdle, NoRequest, NodeStatus

(***************************************************************************)
(* Every reachable state of the runs and the monitors is well typed.       *)
(***************************************************************************)
THEOREM MonitoredTyping == MonitoredSpec => []MonitoredTypeOK
<1>1. MonitoredTypeOK /\ [MonitoredNext]_mvars => MonitoredTypeOK'
  BY MonitoredStep
<1> QED
  BY <1>1, MonitoredInitType, PTL DEF MonitoredSpec

(***************************************************************************)
(* The guarantees of the runs hold beside the poller, the idle monitor and *)
(* the shutdown endpoint: locks exclude, and stay with their owners.       *)
(***************************************************************************)
THEOREM MonitoredInvariance ==
  Protected => (MonitoredSpec => [](IInv /\ MutualExclusion))
<1> SUFFICES ASSUME Protected PROVE MonitoredSpec => [](IInv /\ MutualExclusion)
  OBVIOUS
<1>1. MonitoredInit => IInv
  BY InductiveInit DEF MonitoredInit
<1>2. MonitoredTypeOK /\ IInv /\ [MonitoredNext]_mvars => IInv'
  BY MonitoredStep, InductiveStep, AsideStep
<1> QED
  BY <1>1, <1>2, MonitoredTyping, ExclusionFromIInv, PTL DEF MonitoredSpec

\* Among the runs only the flush that ends the preparation of a node writes
\* "online".
LEMMA FlushNodeWrites ==
  ASSUME TypeOK, NEW t \in Tasks, pc[t] = "flush", FlushNode(t), NEW n \in Nodes,
         nstatus'[n] = "online"
  PROVE  nstatus[n] = "online" \/ n \in Prepares(t)
<1>1. CASE then[t] = "prepare" /\ frame[t].node # NoNode
  BY <1>1 DEF FlushNode, Prepares, TypeOK
<1>2. CASE then[t] # "prepare" \/ frame[t].node = NoNode
  BY <1>2 DEF FlushNode, TypeOK
<1> QED
  BY <1>1, <1>2

LEMMA StepWrites ==
  ASSUME TypeOK, NEW t \in Tasks, Step(t), NEW n \in Nodes, nstatus'[n] = "online"
  PROVE  nstatus[n] = "online" \/ (n \in Prepares(t) /\ pc'[t] = "prepare")
<1>1. CASE Flush(t)
  <2>1. nstatus[n] = "online" \/ n \in Prepares(t)
    BY <1>1, FlushNodeWrites DEF Flush, FlushWrites
  <2>2. then[t] = "prepare" => pc'[t] = "prepare"
    BY <1>1 DEF Flush, Goto, TypeOK
  <2> QED
    BY <2>1, <2>2 DEF Prepares
<1>2. CASE MarkOffline(t)
  BY <1>2 DEF MarkOffline, TypeOK
<1>3. CASE UNCHANGED nstatus
  BY <1>3
<1> QED
  BY <1>1, <1>2, <1>3 DEF Step, dbVars, Start, Insert, Register, LockBusy, LockBusyAgain,
     LockFree, LockInsert, LockConflict, WakeUp, FlushStale, LoadNode, Probe, Wake,
     BeginOperation, CallDone, CheckDone, PowerOff, DeleteJob, Release, ReleaseFails

LEMMA CancelWrites ==
  ASSUME TypeOK, NEW i \in Ids, CancelAtDatabase(i), NEW n \in Nodes,
         nstatus'[n] = "online"
  PROVE  nstatus[n] = "online" \/ n \in Prepares(running[i])
<1>1. running[i] \in Tasks
  BY DEF CancelAtDatabase, TypeOK
<1>2. CASE pc[running[i]] = "flush" /\ FlushWrites(running[i])
  BY <1>1, <1>2, FlushNodeWrites DEF FlushWrites
<1>3. CASE nstatus' = [nstatus EXCEPT ![Dest[JobOf[running[i]]]] = "offline"]
  BY <1>3 DEF TypeOK
<1>4. CASE UNCHANGED nstatus
  BY <1>4
<1> QED
  BY <1>2, <1>3, <1>4 DEF CancelAtDatabase, dbVars

LEMMA ActivityStep ==
  ASSUME MonitoredTypeOK, OnlineHasActivity, [MonitoredNext]_mvars
  PROVE  OnlineHasActivity'
<1>a. TypeOK
  BY DEF MonitoredTypeOK
<1>b. ASSUME NEW S, Touch(S),
             \A n \in Nodes : nstatus'[n] = "online" => nstatus[n] = "online" \/ n \in S
      PROVE  OnlineHasActivity'
  BY <1>b DEF Touch, OnlineHasActivity
<1>c. ASSUME \A n \in Nodes : active[n] # "never" => active'[n] # "never",
             \A n \in Nodes : nstatus'[n] = "online" => nstatus[n] = "online"
      PROVE  OnlineHasActivity'
  BY <1>c DEF OnlineHasActivity
<1>1. ASSUME NEW t \in Tasks, RunStep(t) PROVE OnlineHasActivity'
  BY <1>1, <1>a, <1>b, StepWrites DEF RunStep
<1>2. ASSUME NEW i \in Ids, RunCancelled(i) PROVE OnlineHasActivity'
  <2>1. CASE Touch(Prepares(running[i]))
    BY <1>2, <2>1, <1>a, <1>b, CancelWrites DEF RunCancelled
  <2>2. CASE UNCHANGED active /\ (Prepares(running[i]) # {} => UNCHANGED nstatus)
    BY <1>2, <2>2, <1>a, <1>c, CancelWrites DEF RunCancelled
  <2> QED
    BY <1>2, <2>1, <2>2 DEF RunCancelled
<1>3. CASE RunDisturbed \/ Restart
  <2>1. UNCHANGED nstatus /\ UNCHANGED active
    BY <1>3 DEF RunDisturbed, Restart, CancelRequest, CancelMiss, CancelOutside, LogOutput,
       Fault, OrphanExit, Boot, ClearRuns, Crash, dbVars
  <2> QED
    BY <2>1, <1>c
<1>4. CASE PollCommit
  BY <1>4, <1>b DEF PollCommit, PollWrites
<1>5. CASE PollStep /\ ~PollCommit
  BY <1>5, <1>c DEF PollStep, PollBegin, PollTest, PollLoad, vars, dbVars
<1>6. CASE SweepStep \/ RequestStep
  <2>1. UNCHANGED active
    BY <1>6 DEF SweepStep, SweepReturns, SweepSelect, SweepLocks, SweepPowerOff, SweepCommit,
       RequestStep, RequestPowerOff, RequestCommit
  <2>2. \A n \in Nodes : nstatus'[n] = "online" => nstatus[n] = "online"
    BY <1>6, <1>a DEF SweepStep, SweepReturns, SweepSelect, SweepLocks, SweepPowerOff, SweepCommit,
       RequestStep, RequestPowerOff, RequestCommit, vars, dbVars, TypeOK
  <2> QED
    BY <2>1, <2>2, <1>c
<1>7. CASE PollFails \/ SweepFails \/ \E n \in Nodes : RequestShutdown(n) \/ Age(n)
  <2>1. UNCHANGED nstatus /\ \A n \in Nodes : active'[n] # active[n] => active'[n] = "idle"
    BY <1>7 DEF PollFails, SweepFails, RequestShutdown, Age, vars, dbVars, MonitoredTypeOK
  <2> QED
    BY <2>1, <1>c
<1>8. CASE UNCHANGED mvars
  BY <1>8, <1>c DEF mvars, vars, dbVars
<1> QED
  BY <1>1, <1>2, <1>3, <1>4, <1>5, <1>6, <1>7, <1>8 DEF MonitoredNext

(***************************************************************************)
(* Whoever writes "online", run or poller, has set last_active_at, so the   *)
(* idle monitor considers every node that is shown as online.               *)
(***************************************************************************)
THEOREM OnlineIsActive == MonitoredSpec => []OnlineHasActivity
<1>1. MonitoredInit => OnlineHasActivity
  BY DEF MonitoredInit, Init, OnlineHasActivity
<1>2. MonitoredTypeOK /\ OnlineHasActivity /\ [MonitoredNext]_mvars => OnlineHasActivity'
  BY ActivityStep
<1> QED
  BY <1>1, <1>2, MonitoredTyping, PTL DEF MonitoredSpec
=============================================================================
