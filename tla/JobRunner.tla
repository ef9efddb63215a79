------------------------------ MODULE JobRunner ------------------------------
(***************************************************************************)
(* The life of a run: backend/core/job_runner.py together with the two     *)
(* history endpoints of backend/api/runs.py that interfere with it.        *)
(*                                                                         *)
(* A task is one invocation of the coroutine execute_job (the scheduler    *)
(* fires it, or a request triggers it).  All tasks live on one event loop, *)
(* so the code between two awaits is atomic: an action below is the code   *)
(* from one await to the next, and pc names the await a task is suspended  *)
(* at.  Every task has a database session of its own.  A session whose     *)
(* statement failed, or was cancelled half-way, raises on every later use; *)
(* the `finally' of execute_job then raises as well, and the task is       *)
(* "dead": it ended without writing a result or releasing its lock.        *)
(*                                                                         *)
(* SQLite gives a new row the largest id in the table plus one, so the id  *)
(* of a deleted run can be given to a later one.                           *)
(***************************************************************************)
EXTENDS Naturals, FiniteSets

CONSTANTS
  Tasks,           \* invocations of execute_job
  Nodes,           \* rows of the table nodes
  Jobs,            \* rows of the table jobs
  NoNode, NoTask,  \* absent values
  JobOf,           \* the job_id a task is invoked with
  Source, Dest,    \* a job's source_node_id and dest_node_id
  Op,              \* a job's operation
  Paths,           \* the number of source_paths (target_paths of a delete)
  ShutdownAfter,   \* the jobs with shutdown_after
  OneShot,         \* the jobs with delete_on_success
  AllowShutdown,   \* the nodes with allow_shutdown
  WaitAttempts,    \* tries for the lock while queued (60 in the code)
  MaxRuns,         \* bound: largest run id
  MaxCrashes,      \* bound: crashes of the controller
  Env              \* what the environment does: see EnvKinds

EnvKinds == {"cancel", "clear", "crash", "fault"}
Ids == 1..MaxRuns

ASSUME ConstantsAssumption ==
  /\ JobOf \in [Tasks -> Jobs]
  /\ Source \in [Jobs -> Nodes \cup {NoNode}]
  /\ Dest \in [Jobs -> Nodes \cup {NoNode}]
  /\ Op \in [Jobs -> {"copy", "move", "sync", "delete"}]
  /\ Paths \in [Jobs -> Nat]
  /\ ShutdownAfter \subseteq Jobs /\ OneShot \subseteq Jobs
  /\ AllowShutdown \subseteq Nodes
  /\ NoNode \notin Nodes /\ NoTask \notin Tasks
  /\ WaitAttempts \in Nat \ {0} /\ MaxRuns \in Nat /\ MaxCrashes \in Nat
  /\ Env \subseteq EnvKinds

VARIABLES
  \* the tasks
  pc,          \* the await a task is suspended at
  then,        \* where a task goes on after the flush it is suspended at
  rid,         \* run.id, 0 before the row is inserted
  status,      \* run.status in the task's session, perhaps not yet written
  frame,       \* locals of _run_job, and the run.status last committed
  \* the database
  runs,        \* status of each row of runs, "none" without a row
  locks,       \* locked_by_run_id of each row of node_locks, 0 without a row
  jobs,        \* the enabled rows of jobs
  nstatus,     \* nodes.status
  \* the process
  running,     \* _running_tasks
  cancelling,  \* cancel requests that read an active run
  \* the outside
  procs,       \* tasks whose rclone child is alive
  up,          \* nodes that are powered on
  crashes

taskVars == <<pc, then, rid, status, frame>>
dbVars == <<runs, locks, jobs, nstatus>>
outVars == <<up, crashes>>
vars == <<taskVars, dbVars, running, cancelling, procs, outVars>>

Active == {"running", "queued"}
Final == {"success", "failed", "cancelled"}
NodeStatus == {"offline", "waking", "online"}  \* "unknown" counts as offline

Working == {"prepare", "probe", "wake", "call", "check", "poweroff", "offline",
            "deleteJob"}
FlushTo == {"sleep", "release"} \cup Working
PCs == {"idle", "insert", "register", "lockRead", "lockWrite", "sleep",
        "flush", "release", "ended", "dead"} \cup Working

Primary(t) == IF Source[JobOf[t]] # NoNode THEN Source[JobOf[t]]
                                           ELSE Dest[JobOf[t]]
NodesOf(t) == {Source[JobOf[t]], Dest[JobOf[t]]} \ {NoNode}

\* A move is three rclone calls for each path: copy, check, delete.
Calls(t) == IF Op[JobOf[t]] = "move" THEN 3 * Paths[JobOf[t]]
                                     ELSE Paths[JobOf[t]]
PowersOff(t) == JobOf[t] \in ShutdownAfter /\ Dest[JobOf[t]] # NoNode
ChecksFirst(t) == /\ Op[JobOf[t]] = "copy" /\ Source[JobOf[t]] # NoNode
                  /\ Paths[JobOf[t]] > 0

Frames == [todo : SUBSET Nodes, node : Nodes \cup {NoNode},
           seen : NodeStatus, left : Nat, tries : 0..WaitAttempts,
           saved : Active \cup Final]
Frame0 == [todo |-> {}, node |-> NoNode, seen |-> "offline", left |-> 0,
           tries |-> 0, saved |-> "running"]

Live(t) == pc[t] \notin {"idle", "ended", "dead"}

Init ==
  /\ pc = [t \in Tasks |-> "idle"]
  /\ then = [t \in Tasks |-> "release"]
  /\ rid = [t \in Tasks |-> 0]
  /\ status = [t \in Tasks |-> "running"]
  /\ frame = [t \in Tasks |-> Frame0]
  /\ runs = [i \in Ids |-> "none"]
  /\ locks = [n \in Nodes |-> 0]
  /\ jobs = Jobs
  /\ nstatus = [n \in Nodes |-> "offline"]
  /\ running = [i \in Ids |-> NoTask]
  /\ cancelling = {}
  /\ procs = {}
  /\ up \in SUBSET Nodes
  /\ crashes = 0

-----------------------------------------------------------------------------
(* Control flow *)

Goto(t, p) == pc' = [pc EXCEPT ![t] = p]

\* await flush_log(), then go on at p
FlushThen(t, p) == Goto(t, "flush") /\ then' = [then EXCEPT ![t] = p]

\* The except clauses of execute_job and its finally up to the first await:
\* the entry of _running_tasks is popped whichever task it names.
EndSaved(t, s, saved) ==
  /\ Goto(t, "release")
  /\ then' = [then EXCEPT ![t] = "release"]
  /\ status' = [status EXCEPT ![t] = s]
  /\ frame' = [frame EXCEPT ![t] = [Frame0 EXCEPT !.saved = saved]]
  /\ running' = [running EXCEPT ![rid[t]] = NoTask]
  /\ UNCHANGED rid

EndRun(t, s) == EndSaved(t, s, frame[t].saved)

\* The session is unusable: `finally' raises before it reaches the lock.
Die(t) ==
  /\ Goto(t, "dead")
  /\ then' = [then EXCEPT ![t] = "release"]
  /\ frame' = [frame EXCEPT ![t] = Frame0]
  /\ UNCHANGED <<rid, status, running>>

-----------------------------------------------------------------------------
(* execute_job up to the lock *)

\* select the job; return when it is missing or disabled
Start(t) ==
  /\ pc[t] = "idle"
  /\ Goto(t, IF JobOf[t] \in jobs THEN "insert" ELSE "ended")
  /\ UNCHANGED <<then, rid, status, frame, dbVars, running, cancelling, procs, outVars>>

\* Mutant: ids are numbered by the count of the rows.
MutNewIdCounts(i) == i = Cardinality({k \in Ids : runs[k] # "none"}) + 1

NewId(i) == /\ \A k \in Ids : k >= i => runs[k] = "none"
            /\ i > 1 => runs[i - 1] # "none"

\* insert the run and commit: the row is visible, the task not yet registered
Insert(t) ==
  /\ pc[t] = "insert"
  /\ \E i \in Ids : /\ NewId(i)
                    /\ rid' = [rid EXCEPT ![t] = i]
                    /\ runs' = [runs EXCEPT ![i] = "running"]
  /\ Goto(t, "register")
  /\ UNCHANGED <<then, status, frame, locks, jobs, nstatus, running, cancelling, procs, outVars>>

\* Mutant: the task is not entered into _running_tasks.
MutRegisterForgets(t) ==
  /\ pc[t] = "register"
  /\ frame' = [frame EXCEPT ![t].todo = NodesOf(t)]
  /\ Goto(t, IF Primary(t) # NoNode THEN "lockRead" ELSE "prepare")
  /\ UNCHANGED <<then, rid, status, dbVars, running, cancelling, procs, outVars>>

\* after the refresh: _running_tasks[run.id] = task, then _run_job
Register(t) ==
  /\ pc[t] = "register"
  /\ running' = [running EXCEPT ![rid[t]] = t]
  /\ frame' = [frame EXCEPT ![t].todo = NodesOf(t)]
  /\ Goto(t, IF Primary(t) # NoNode THEN "lockRead" ELSE "prepare")
  /\ UNCHANGED <<then, rid, status, dbVars, cancelling, procs, outVars>>

\* _acquire_lock's select, first try: the lock is taken, the run is queued
LockBusy(t) ==
  /\ pc[t] = "lockRead" /\ status[t] = "running"
  /\ locks[Primary(t)] # 0
  /\ status' = [status EXCEPT ![t] = "queued"]
  /\ FlushThen(t, "sleep")
  /\ UNCHANGED <<rid, frame, dbVars, running, cancelling, procs, outVars>>

\* Mutant: a loop without the last try.
MutLockBusyForever(t) ==
  /\ pc[t] = "lockRead" /\ status[t] = "queued"
  /\ locks[Primary(t)] # 0
  /\ frame' = [frame EXCEPT ![t].tries = @ + 1]
  /\ Goto(t, "sleep")
  /\ UNCHANGED <<then, rid, status, running, dbVars, cancelling, procs, outVars>>

\* a try of the waiting loop fails; the last one raises
LockBusyAgain(t) ==
  /\ pc[t] = "lockRead" /\ status[t] = "queued"
  /\ locks[Primary(t)] # 0
  /\ \/ /\ frame[t].tries + 1 < WaitAttempts
        /\ frame' = [frame EXCEPT ![t].tries = @ + 1]
        /\ Goto(t, "sleep")
        /\ UNCHANGED <<then, rid, status, running>>
     \/ /\ frame[t].tries + 1 = WaitAttempts
        /\ EndRun(t, "failed")
  /\ UNCHANGED <<dbVars, cancelling, procs, outVars>>

LockFree(t) ==
  /\ pc[t] = "lockRead"
  /\ locks[Primary(t)] = 0
  /\ Goto(t, "lockWrite")
  /\ UNCHANGED <<then, rid, status, frame, dbVars, running, cancelling, procs, outVars>>

TakeLock(t) == locks' = [locks EXCEPT ![Primary(t)] = rid[t]]

\* Mutant: node_locks without its primary key, an upsert.
MutLockUpsert(t) ==
  /\ pc[t] = "lockWrite"
  /\ TakeLock(t)
  /\ IF status[t] = "queued"
       THEN FlushThen(t, "prepare")
       ELSE Goto(t, "prepare") /\ UNCHANGED then
  /\ status' = [status EXCEPT ![t] = "running"]
  /\ UNCHANGED <<rid, frame, runs, jobs, nstatus, running, cancelling, procs, outVars>>

\* insert the lock and commit
LockInsert(t) ==
  /\ pc[t] = "lockWrite"
  /\ locks[Primary(t)] = 0
  /\ TakeLock(t)
  /\ IF status[t] = "queued"
       THEN FlushThen(t, "prepare")
       ELSE Goto(t, "prepare") /\ UNCHANGED then
  /\ status' = [status EXCEPT ![t] = "running"]
  /\ UNCHANGED <<rid, frame, runs, jobs, nstatus, running, cancelling, procs, outVars>>

\* the select saw no lock, but the primary key says there is one by now
LockConflict(t) ==
  /\ pc[t] = "lockWrite"
  /\ locks[Primary(t)] # 0
  /\ Die(t)
  /\ UNCHANGED <<dbVars, cancelling, procs, outVars>>

WakeUp(t) ==
  /\ pc[t] = "sleep"
  /\ Goto(t, "lockRead")
  /\ UNCHANGED <<then, rid, status, frame, dbVars, running, cancelling, procs, outVars>>

-----------------------------------------------------------------------------
(* flush_log: write the session's changes and commit *)

RowExists(t) == runs[rid[t]] # "none"

\* node.status as assigned before the flush; an assignment of the value that
\* was loaded writes nothing
FlushNode(t) ==
  LET n == frame[t].node
      s == IF then[t] = "wake" THEN "waking" ELSE "online"
  IN  IF then[t] \in {"wake", "prepare"} /\ n # NoNode /\ frame[t].seen # s
        THEN nstatus' = [nstatus EXCEPT ![n] = s]
        ELSE UNCHANGED nstatus

\* Only an attribute that was changed is written.
WriteStatus(t) ==
  runs' = [runs EXCEPT ![rid[t]] = IF status[t] # frame[t].saved THEN status[t]
                                                                ELSE @]

FlushWrites(t) == WriteStatus(t) /\ FlushNode(t)

\* The commit succeeds and the task runs on to its next await.
Flush(t) ==
  /\ pc[t] = "flush" /\ RowExists(t)
  /\ FlushWrites(t)
  /\ IF then[t] = "release"
       THEN EndSaved(t, status[t], status[t])
       ELSE /\ Goto(t, then[t])
            /\ then' = [then EXCEPT ![t] = "release"]
            /\ frame' = [frame EXCEPT ![t].saved = status[t],
                           ![t].seen = IF then[t] = "wake" THEN "waking" ELSE @]
            /\ UNCHANGED <<rid, status, running>>
  /\ procs' = IF then[t] \in {"call", "check"} THEN procs \cup {t} ELSE procs
  /\ UNCHANGED <<locks, jobs, cancelling, outVars>>

\* The row is gone: the UPDATE matches no row and the flush raises.
FlushStale(t) ==
  /\ pc[t] = "flush" /\ ~RowExists(t)
  /\ Die(t)
  /\ UNCHANGED <<dbVars, cancelling, procs, outVars>>

\* on_rclone_line flushes the log every ten lines while rclone runs; when that
\* raises, because the row is gone, the child is left behind.
LogOutput(t) ==
  /\ pc[t] \in {"call", "check"} /\ ~RowExists(t)
  /\ Die(t)
  /\ UNCHANGED <<dbVars, cancelling, procs, outVars>>

-----------------------------------------------------------------------------
(* The nodes of the job: reachable, or woken *)

LoadNode(t) ==
  /\ pc[t] = "prepare"
  /\ \E n \in frame[t].todo :
       frame' = [frame EXCEPT ![t].todo = @ \ {n}, ![t].node = n,
                              ![t].seen = nstatus[n]]
  /\ Goto(t, "probe")
  /\ UNCHANGED <<then, rid, status, dbVars, running, cancelling, procs, outVars>>

\* the ssh test succeeds only on a node that is up
Probe(t) ==
  /\ pc[t] = "probe"
  /\ \E reachable \in BOOLEAN :
       /\ reachable => frame[t].node \in up
       /\ FlushThen(t, IF reachable THEN "prepare" ELSE "wake")
  /\ UNCHANGED <<rid, status, frame, dbVars, running, cancelling, procs, outVars>>

\* Mutant: the poll has no timeout.
MutWakeForever(t) ==
  /\ pc[t] = "wake"
  /\ frame[t].node \in up
  /\ FlushThen(t, "prepare")
  /\ UNCHANGED <<rid, status, frame, running, dbVars, cancelling, procs, outVars>>

\* Wake-on-LAN and poll_until_reachable
Wake(t) ==
  /\ pc[t] = "wake"
  /\ \/ /\ frame[t].node \in up
        /\ FlushThen(t, "prepare")
        /\ UNCHANGED <<rid, status, frame, running>>
     \/ EndRun(t, "failed")
  /\ UNCHANGED <<dbVars, cancelling, procs, outVars>>

-----------------------------------------------------------------------------
(* The operation, and what follows a successful one *)

AfterPower(t) == IF JobOf[t] \in OneShot THEN "deleteJob" ELSE "release"
PowerStep(t) == IF Dest[JobOf[t]] \in AllowShutdown THEN "poweroff"
                                                    ELSE AfterPower(t)

\* run.status = "success", then shutdown_after and delete_on_success.  Each
\* begins with a flush; flushes with nothing in between are one.
Succeed(t) ==
  IF PowersOff(t) \/ JobOf[t] \in OneShot
    THEN /\ status' = [status EXCEPT ![t] = "success"]
         /\ frame' = [frame EXCEPT ![t].left = Paths[JobOf[t]]]
         /\ FlushThen(t, CASE PowersOff(t) /\ ChecksFirst(t) -> "check"
                           [] PowersOff(t) /\ ~ChecksFirst(t) -> PowerStep(t)
                           [] OTHER -> "deleteJob")
         /\ UNCHANGED <<rid, running>>
    ELSE EndRun(t, "success")

\* The API accepts a job without the nodes its operation needs.
HasNodes(t) ==
  /\ Primary(t) # NoNode
  /\ Op[JobOf[t]] # "delete" =>
       Source[JobOf[t]] # NoNode /\ Dest[JobOf[t]] # NoNode

\* every node is ready: _do_copy, _do_sync, _do_move or _do_delete
BeginOperation(t) ==
  /\ pc[t] = "prepare" /\ frame[t].todo = {}
  /\ \/ Calls(t) = 0 /\ Succeed(t)
     \/ Calls(t) # 0 /\ ~HasNodes(t) /\ EndRun(t, "failed")
     \/ /\ Calls(t) # 0 /\ HasNodes(t)
        /\ frame' = [frame EXCEPT ![t].left = Calls(t), ![t].node = NoNode]
        /\ FlushThen(t, "call")
        /\ UNCHANGED <<rid, status, running>>
  /\ UNCHANGED <<dbVars, cancelling, procs, outVars>>

\* rclone exits; it can only succeed while the job's nodes are up
CallDone(t) ==
  /\ pc[t] = "call"
  /\ procs' = procs \ {t}
  /\ \/ EndRun(t, "failed")
     \/ /\ NodesOf(t) \subseteq up
        /\ IF frame[t].left > 1
             THEN /\ frame' = [frame EXCEPT ![t].left = @ - 1]
                  /\ FlushThen(t, "call")
                  /\ UNCHANGED <<rid, status, running>>
             ELSE Succeed(t)
  /\ UNCHANGED <<dbVars, cancelling, outVars>>

\* Mutant: a failed check does not keep the node up.
MutCheckIgnored(t) ==
  /\ pc[t] = "check"
  /\ \E s \in {"success", "failed"} :
       /\ status' = [status EXCEPT ![t] = s]
       /\ FlushThen(t, PowerStep(t))
  /\ procs' = procs \ {t}
  /\ UNCHANGED <<rid, frame, dbVars, running, cancelling, outVars>>

\* one rclone check of the integrity check before the shutdown
CheckDone(t) ==
  /\ pc[t] = "check"
  /\ \/ /\ status' = [status EXCEPT ![t] = "failed"]
        /\ FlushThen(t, "release")
        /\ procs' = procs \ {t}
        /\ UNCHANGED frame
     \/ /\ NodesOf(t) \subseteq up
        /\ frame[t].left > 1
        /\ frame' = [frame EXCEPT ![t].left = @ - 1]
        /\ UNCHANGED <<pc, then, status, procs>>
     \/ /\ NodesOf(t) \subseteq up
        /\ frame[t].left = 1
        /\ FlushThen(t, PowerStep(t))
        /\ procs' = procs \ {t}
        /\ UNCHANGED <<status, frame>>
  /\ UNCHANGED <<rid, dbVars, running, cancelling, outVars>>

\* `sudo poweroff' over ssh: its exit code is not looked at, and a connection
\* error says nothing about whether the node goes down
PowerOff(t) ==
  /\ pc[t] = "poweroff"
  /\ up' \in {up, up \ {Dest[JobOf[t]]}}
  /\ \/ Goto(t, "offline") /\ UNCHANGED then
     \/ FlushThen(t, AfterPower(t))
  /\ UNCHANGED <<rid, status, frame, dbVars, running, cancelling, procs, crashes>>

MarkOffline(t) ==
  /\ pc[t] = "offline"
  /\ nstatus' = [nstatus EXCEPT ![Dest[JobOf[t]]] = "offline"]
  /\ IF JobOf[t] \in OneShot
       THEN FlushThen(t, "deleteJob") /\ UNCHANGED <<rid, status, frame, running>>
       ELSE EndRun(t, status[t])
  /\ UNCHANGED <<runs, locks, jobs, cancelling, procs, outVars>>

\* delete_on_success
DeleteJob(t) ==
  /\ pc[t] = "deleteJob"
  /\ jobs' = jobs \ {JobOf[t]}
  /\ EndRun(t, status[t])
  /\ UNCHANGED <<runs, locks, nstatus, cancelling, procs, outVars>>

-----------------------------------------------------------------------------
(* The end: _release_lock and the commit of finally.  The first statement   *)
(* writes the run, so SQLite lets nobody else write before the commit.      *)

\* Mutant: _release_lock without its where clause.
MutOwnedAll(t) == {n \in Nodes : locks[n] # 0}

\* Mutant: _release_lock never finds the row.
MutOwnedNone(t) == {n \in Nodes : locks[n] = rid[t] /\ pc[t] = "ended"}

Owned(t) == {n \in Nodes : locks[n] = rid[t]}

\* At most one lock may carry this run's id, or scalar_one_or_none raises.
ReleaseOk(t) == RowExists(t) /\ \A m, n \in Owned(t) : m = n

Release(t) ==
  /\ pc[t] = "release" /\ ReleaseOk(t)
  /\ WriteStatus(t)
  /\ locks' = [n \in Nodes |-> IF n \in Owned(t) THEN 0 ELSE locks[n]]
  /\ Goto(t, "ended")
  /\ UNCHANGED <<then, rid, status, frame, jobs, nstatus, running, cancelling, procs, outVars>>

ReleaseFails(t) ==
  /\ pc[t] = "release" /\ ~ReleaseOk(t)
  /\ Die(t)
  /\ UNCHANGED <<dbVars, cancelling, procs, outVars>>

-----------------------------------------------------------------------------
(* Cancellation and the history *)

\* cancel_run_endpoint: the row is read, and acted on when the read returns
CancelRequest(i) ==
  /\ "cancel" \in Env
  /\ runs[i] \in Active
  /\ cancelling' = cancelling \cup {i}
  /\ UNCHANGED <<taskVars, dbVars, running, procs, outVars>>

\* No task, or one that is done: the endpoint answers 400.
CancelMiss(i) ==
  /\ i \in cancelling
  /\ running[i] # NoTask => ~Live(running[i])
  /\ cancelling' = cancelling \ {i}
  /\ UNCHANGED <<taskVars, dbVars, running, procs, outVars>>

AtDatabase(t) == pc[t] \in {"lockRead", "lockWrite", "flush", "prepare", "call",
                            "check", "offline", "deleteJob"}
AtOutside(t) == pc[t] \in {"sleep", "probe", "wake", "call", "check", "poweroff"}

\* CancelledError while waiting for the outside.  The rclone child lives on,
\* a poweroff may have been received.
CancelOutside(i) ==
  LET t == running[i]
  IN  /\ i \in cancelling /\ t # NoTask /\ AtOutside(t)
      /\ EndRun(t, "cancelled")
      /\ up' \in IF pc[t] = "poweroff" THEN {up, up \ {Dest[JobOf[t]]}} ELSE {up}
      /\ cancelling' = cancelling \ {i}
      /\ UNCHANGED <<dbVars, procs, crashes>>

\* CancelledError while a statement is in progress: the statement may still
\* take effect, but the session is lost.
CancelAtDatabase(i) ==
  LET t == running[i]
  IN  /\ i \in cancelling /\ t # NoTask /\ AtDatabase(t)
      /\ Die(t)
      /\ \/ UNCHANGED dbVars
         \/ /\ pc[t] = "lockWrite" /\ locks[Primary(t)] = 0
            /\ TakeLock(t)
            /\ UNCHANGED <<runs, jobs, nstatus>>
         \/ /\ pc[t] = "flush" /\ RowExists(t)
            /\ FlushWrites(t)
            /\ UNCHANGED <<locks, jobs>>
         \/ /\ pc[t] = "offline"
            /\ nstatus' = [nstatus EXCEPT ![Dest[JobOf[t]]] = "offline"]
            /\ UNCHANGED <<runs, locks, jobs>>
         \/ /\ pc[t] = "deleteJob"
            /\ jobs' = jobs \ {JobOf[t]}
            /\ UNCHANGED <<runs, locks, nstatus>>
      /\ cancelling' = cancelling \ {i}
      /\ UNCHANGED <<procs, outVars>>

\* Mutant: only the running runs are kept.
MutClearQueued ==
  /\ "clear" \in Env
  /\ \E i \in Ids : runs[i] \in Final
  /\ runs' = [i \in Ids |-> IF runs[i] = "running" THEN runs[i] ELSE "none"]
  /\ UNCHANGED <<taskVars, locks, jobs, nstatus, running, cancelling, procs, outVars>>

\* clear_runs: delete every run that is not active
ClearRuns ==
  /\ "clear" \in Env
  /\ \E i \in Ids : runs[i] \in Final
  /\ runs' = [i \in Ids |-> IF runs[i] \in Active THEN runs[i] ELSE "none"]
  /\ UNCHANGED <<taskVars, locks, jobs, nstatus, running, cancelling, procs, outVars>>

-----------------------------------------------------------------------------
(* Faults and the outside *)

\* A write fails (the database stays locked longer than busy_timeout).
Fault(t) ==
  /\ "fault" \in Env
  /\ \/ /\ pc[t] \in {"lockWrite", "flush", "call", "check", "offline",
                      "deleteJob", "release"}
        /\ Die(t)
     \/ /\ pc[t] = "insert"
        /\ Goto(t, "ended")
        /\ UNCHANGED <<then, rid, status, frame, running>>
  /\ UNCHANGED <<dbVars, cancelling, procs, outVars>>

\* The controller dies and starts again: no start-up code looks at runs or
\* node_locks.
Crash ==
  /\ "crash" \in Env
  /\ crashes < MaxCrashes
  /\ \E t \in Tasks : Live(t)
  /\ crashes' = crashes + 1
  /\ pc' = [t \in Tasks |-> CASE ~Live(t) -> pc[t]
                              [] Live(t) /\ rid[t] = 0 -> "ended"
                              [] OTHER -> "dead"]
  /\ then' = [t \in Tasks |-> "release"]
  /\ frame' = [t \in Tasks |-> Frame0]
  /\ running' = [i \in Ids |-> NoTask]
  /\ cancelling' = {}
  /\ procs' = {}
  /\ UNCHANGED <<rid, status, dbVars, up>>

OrphanExit(t) ==
  /\ t \in procs /\ pc[t] \notin {"call", "check"}
  /\ procs' = procs \ {t}
  /\ UNCHANGED <<taskVars, dbVars, running, cancelling, outVars>>

\* A node boots: woken, or switched on by hand.
Boot(n) ==
  /\ n \notin up
  /\ up' = up \cup {n}
  /\ UNCHANGED <<taskVars, dbVars, running, cancelling, procs, crashes>>

-----------------------------------------------------------------------------
Step(t) ==
  \/ Start(t) \/ Insert(t) \/ Register(t)
  \/ LockBusy(t) \/ LockBusyAgain(t) \/ LockFree(t)
  \/ LockInsert(t) \/ LockConflict(t) \/ WakeUp(t)
  \/ Flush(t) \/ FlushStale(t)
  \/ LoadNode(t) \/ Probe(t) \/ Wake(t)
  \/ BeginOperation(t) \/ CallDone(t) \/ CheckDone(t)
  \/ PowerOff(t) \/ MarkOffline(t) \/ DeleteJob(t)
  \/ Release(t) \/ ReleaseFails(t)

Disturb ==
  \/ \E i \in Ids : CancelRequest(i) \/ CancelMiss(i) \/ CancelOutside(i)
                    \/ CancelAtDatabase(i)
  \/ \E t \in Tasks : LogOutput(t) \/ Fault(t) \/ OrphanExit(t)
  \/ \E n \in Nodes : Boot(n)
  \/ ClearRuns \/ Crash

Next == (\E t \in Tasks : Step(t)) \/ Disturb

Spec == Init /\ [][Next]_vars

\* run_ssh_command has no timeout and talks to a node that is going down: the
\* await of a poweroff may never return.
MayHang(t) == pc[t] = "poweroff"

\* The event loop runs every task that can go on; every other await ends: tests
\* and Wake-on-LAN by their timeouts, rclone by its own.
FairSpec == Spec /\ \A t \in Tasks : WF_vars(Step(t) /\ ~MayHang(t))
-----------------------------------------------------------------------------
(* Properties *)

TypeOK ==
  /\ pc \in [Tasks -> PCs]
  /\ then \in [Tasks -> FlushTo]
  /\ rid \in [Tasks -> Ids \cup {0}]
  /\ status \in [Tasks -> Active \cup Final]
  /\ frame \in [Tasks -> Frames]
  /\ runs \in [Ids -> Active \cup Final \cup {"none"}]
  /\ locks \in [Nodes -> Ids \cup {0}]
  /\ jobs \subseteq Jobs
  /\ nstatus \in [Nodes -> NodeStatus]
  /\ running \in [Ids -> Tasks \cup {NoTask}]
  /\ cancelling \subseteq Ids
  /\ procs \subseteq Tasks
  /\ up \subseteq Nodes
  /\ crashes \in 0..MaxCrashes

-----------------------------------------------------------------------------
\* The part of _run_job a task executes after it was given the lock of its
\* primary node.
Holding(t) ==
  /\ Primary(t) # NoNode
  /\ pc[t] \in Working \/ (pc[t] = "flush" /\ then[t] # "sleep")

\* Tasks that have a row and did not end with a clean `finally'.
Unfinished(t) == rid[t] # 0 /\ pc[t] # "ended"

NoFinalSteps == \A t \in Tasks : ~PowersOff(t) /\ JobOf[t] \notin OneShot

\* What keeps the ids of runs unambiguous: nobody clears the history, or no
\* job shows "success" before it has released its lock.
Protected == "clear" \notin Env \/ NoFinalSteps

\* Two runs never work under the lock of one primary node at the same time,
\* whatever is cancelled, crashes or fails: the promise of node_locks.
MutualExclusion ==
  \A t, u \in Tasks :
     t # u /\ Holding(t) /\ Holding(u) => Primary(t) # Primary(u)

\* While a run works, the lock row of its primary node is there and carries its
\* id: nobody else's `finally', cancellation or restart takes it away.
HolderKeepsLock ==
  \A t \in Tasks : Holding(t) => locks[Primary(t)] = rid[t]

\* A run in flight keeps a row and an id of its own: the row it reports into is
\* neither deleted by "clear history" nor shared with a later run.
RowsStayOwn ==
  /\ \A t \in Tasks : Unfinished(t) => runs[rid[t]] # "none"
  /\ \A t, u \in Tasks :
        t # u /\ Unfinished(t) /\ Unfinished(u) => rid[t] # rid[u]

\* Every lock row was written for a run that has not ended cleanly: execute_job
\* never ends normally and leaves its lock behind.
LocksAccountedFor ==
  \A n \in Nodes : locks[n] # 0 =>
     \E t \in Tasks : Unfinished(t) /\ rid[t] = locks[n] /\ Primary(t) = n

\* The cancel button reaches every run from its registration to its end: the
\* entry of _running_tasks is the run's own task.
Registered(t) == Live(t) /\ pc[t] \notin {"insert", "register", "release"}

CancelReaches == \A t \in Tasks : Registered(t) => running[rid[t]] = t

\* Two rclone children work for one primary node at a time only if one of them was
\* left behind, by a run that was cancelled or whose database access failed.
Attended(t) == pc[t] # "dead" /\ status[t] # "cancelled"

RcloneAlone ==
  \A t, u \in procs : t # u /\ Primary(t) = Primary(u) => ~Attended(t) \/ ~Attended(u)

\* A lock row disappears only in the `finally' of the run it was written for.
OnlyHolderReleases ==
  [][\A n \in Nodes : locks[n] # 0 /\ locks'[n] # locks[n] =>
        /\ locks'[n] = 0
        /\ \E t \in Tasks : /\ pc[t] = "release" /\ pc'[t] = "ended"
                            /\ rid[t] = locks[n] /\ Primary(t) = n]_vars

\* A result that was written stays what it is until the row is deleted (for
\* jobs without shutdown_after and delete_on_success).
ResultIsFinal ==
  [][\A i \in Ids : runs[i] \in Final => runs'[i] \in {runs[i], "none"}]_vars

\* The holder of a node's lock, and the lock service the table implements: the
\* abstract specification NodeLock, with the task behind locked_by_run_id as
\* the client.
Holder(n) == IF locks[n] = 0
               THEN NoTask
               ELSE CHOOSE t \in Tasks : Unfinished(t) /\ rid[t] = locks[n]

LockService == INSTANCE NodeLock WITH
  Clients <- Tasks, Nobody <- NoTask,
  holder <- [n \in Nodes |-> Holder(n)],
  inside <- {t \in Tasks : Holding(t)}

\* Every step of the runs is a step of that lock service, or leaves it alone:
\* cancellations, faults and restarts included.
ImplementsNodeLock == LockService!Spec

\* A run powers a node off only after its row shows "success", and only its own
\* destination: "On any failure it leaves the node powered on".
PowerOffAfterSuccess ==
  [][\A n \in up : n \notin up' =>
        \E t \in Tasks : /\ pc[t] = "poweroff" /\ Dest[JobOf[t]] = n
                         /\ runs[rid[t]] = "success"]_vars

\* delete_on_success removes a job only after a run of it was shown as a
\* success, and that run is not reported as failed afterwards.
JobDeletedOnSuccess ==
  [][\A j \in jobs : j \notin jobs' =>
        \E t \in Tasks : /\ JobOf[t] = j /\ runs[rid[t]] = "success"
                         /\ status'[t] # "failed"]_vars

\* Every invocation of execute_job comes to an end, also one that waits in the queue
\* while newer ones overtake it (it is given the lock or gives up), unless it hangs
\* in the power-off of its destination.
RunEnds == \A t \in Tasks : Live(t) ~> ~Live(t) \/ MayHang(t)

\* A lock that was taken becomes free again, also when its owner failed, gave up
\* or was cancelled while it waited for the outside, unless the owner died or hangs
\* in the power-off of its destination.
LockFreed ==
  \A n \in Nodes :
     locks[n] # 0 ~> \/ locks[n] = 0
                     \/ \E t \in Tasks : /\ pc[t] = "dead" \/ MayHang(t)
                                         /\ rid[t] = locks[n]

-----------------------------------------------------------------------------
(* The inductive invariant behind the safety properties *)

\* Every task has an id exactly from its insert on.
HasId ==
  \A t \in Tasks : /\ pc[t] \in {"idle", "insert"} => rid[t] = 0
                   /\ pc[t] \notin {"idle", "insert", "ended"} => rid[t] # 0

BeforeLock(t) == \/ pc[t] \in {"register", "lockRead", "lockWrite", "sleep"}
                 \/ pc[t] = "flush" /\ then[t] = "sleep"

NoLockYet == \A t \in Tasks, n \in Nodes : BeforeLock(t) => locks[n] # rid[t]

\* Before its last step a run without final steps is shown as active.
NoResultYet(t) ==
  /\ pc[t] \notin {"ended", "dead", "release"} =>
       /\ status[t] \in Active
       /\ pc[t] \notin {"check", "poweroff", "offline", "deleteJob"}
  /\ pc[t] = "flush" => then[t] \in {"sleep", "prepare", "wake", "call"}

ActiveUntilEnd ==
  NoFinalSteps => \A t \in Tasks : /\ Unfinished(t) => runs[rid[t]] \in Active
                                   /\ NoResultYet(t)

IInv ==
  /\ TypeOK /\ HasId /\ RowsStayOwn /\ ActiveUntilEnd
  /\ LocksAccountedFor /\ HolderKeepsLock /\ NoLockYet /\ CancelReaches

\* What there is besides behind RcloneAlone: a child belongs to a task that waits for
\* it or was cut off from it, and who calls rclone has a node to lock.
Calling(t) == pc[t] \in {"call", "check"}

ChildrenInv ==
  /\ \A t \in Tasks : status[t] = "cancelled" => pc[t] \in {"release", "ended", "dead"}
  /\ \A t \in procs : Calling(t) \/ ~Attended(t)
  /\ \A t \in Tasks : Calling(t) \/ (pc[t] = "flush" /\ then[t] \in {"call", "check"}) =>
       Primary(t) # NoNode

\* And behind the two properties of the final steps: `saved' is what the row shows,
\* and they are taken by runs whose row shows a success.
FinalSteps == {"check", "poweroff", "offline", "deleteJob"}

FinalInv ==
  \A t \in Tasks :
    /\ pc[t] \in {"idle", "insert"} => frame[t].saved = "running"
    /\ "clear" \notin Env /\ Live(t) /\ rid[t] # 0 => frame[t].saved = runs[rid[t]]
    /\ pc[t] \in FinalSteps => status[t] = "success" /\ frame[t].saved = "success"
    /\ pc[t] = "flush" /\ then[t] \in FinalSteps => status[t] = "success"

-----------------------------------------------------------------------------
(* What the documents promise *)

\* runs.py, clear_runs: "Keep active runs so the job runner's in-flight tasks
\* aren't orphaned."
InFlightKeepsRow == \A t \in Tasks : Live(t) /\ rid[t] # 0 => RowExists(t)

=============================================================================
