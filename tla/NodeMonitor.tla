----------------------------- MODULE NodeMonitor -----------------------------
(***************************************************************************)
(* The runs of JobRunner together with everything else that writes         *)
(* nodes.status or powers a node off: the status poller                    *)
(* (backend/core/node_status.py), the idle monitor (_check_idle_nodes in   *)
(* backend/main.py) and the shutdown endpoint (backend/api/nodes.py).      *)
(*                                                                         *)
(* They are coroutines on the event loop of the runs; again an action is   *)
(* the code from one await to the next.  The scheduler starts the poller   *)
(* and the monitor one instance at a time.                                 *)
(***************************************************************************)
EXTENDS JobRunner

CONSTANTS
  IdleShutdown,   \* the nodes with idle_shutdown_enabled
  MaxRequests     \* bound: uses of the shutdown endpoint

ASSUME MonitorAssumption == IdleShutdown \subseteq Nodes /\ MaxRequests \in Nat

VARIABLES
  active,   \* nodes.last_active_at: "never", "recent", or "idle" when it is
            \* longer ago than idle_shutdown_timeout
  poll,     \* the poller: nodes left in its phase, what it found
  sweep,    \* the idle monitor: nodes to power off, the one being powered off
  request,  \* a shutdown request, with the status its session loaded
  requests  \* shutdown requests so far

monitorVars == <<poll, sweep, request, requests>>
mvars == <<vars, active, monitorVars>>

PollIdle == [at |-> "idle", todo |-> {}, found |-> [n \in Nodes |-> "keep"]]
SweepIdle == [at |-> "idle", todo |-> {}, node |-> NoNode]
NoRequest == [at |-> "idle", node |-> NoNode, seen |-> "offline"]

MonitoredInit ==
  /\ Init
  /\ active = [n \in Nodes |-> "never"]
  /\ poll = PollIdle /\ sweep = SweepIdle
  /\ request = NoRequest /\ requests = 0

Touch(S) == active' = [n \in Nodes |-> IF n \in S THEN "recent" ELSE active[n]]

-----------------------------------------------------------------------------
(* refresh_node_statuses: select, test all nodes at once, then one session  *)
(* that loads every node and commits what changed                           *)

PollBegin ==
  /\ poll.at = "idle" /\ Nodes # {}
  /\ poll' = [PollIdle EXCEPT !.at = "test", !.todo = Nodes]
  /\ UNCHANGED <<vars, active, sweep, request, requests>>

\* One node's answer; gather() returns with the last.
PollTest(n, s) ==
  /\ poll.at = "test" /\ n \in poll.todo
  /\ s = "online" => n \in up
  /\ poll' = LET rest == poll.todo \ {n}
             IN  [at |-> IF rest = {} THEN "load" ELSE "test",
                  todo |-> IF rest = {} THEN Nodes ELSE rest,
                  found |-> [poll.found EXCEPT ![n] = s]]
  /\ UNCHANGED <<vars, active, sweep, request, requests>>

\* db.get: a waking node is left alone, an unchanged status is not written.
PollLoad(n) ==
  /\ poll.at = "load" /\ n \in poll.todo
  /\ poll' = LET rest == poll.todo \ {n}
             IN  [at |-> IF rest = {} THEN "commit" ELSE "load",
                  todo |-> rest,
                  found |-> IF nstatus[n] \in {"waking", poll.found[n]}
                              THEN [poll.found EXCEPT ![n] = "keep"] ELSE poll.found]
  /\ UNCHANGED <<vars, active, sweep, request, requests>>

PollWrites(s) == {n \in Nodes : poll.found[n] = s}

\* Mutant: last_active_at is not set with the status.
MutPollCommitNoStamp ==
  /\ poll.at = "commit"
  /\ nstatus' = [n \in Nodes |-> IF poll.found[n] = "keep" THEN nstatus[n]
                                                         ELSE poll.found[n]]
  /\ poll' = PollIdle
  /\ UNCHANGED <<taskVars, runs, locks, jobs, running, cancelling, procs, outVars,
                 active, sweep, request, requests>>

\* Mutant: only nodes that went offline are written.
MutPollCommitDown ==
  /\ poll.at = "commit"
  /\ nstatus' = [n \in Nodes |-> IF n \in PollWrites("offline") THEN "offline"
                                                              ELSE nstatus[n]]
  /\ poll' = PollIdle
  /\ UNCHANGED <<taskVars, runs, locks, jobs, running, cancelling, procs, outVars,
                 active, sweep, request, requests>>

\* Mutant: only nodes that came online are written.
MutPollCommitUp ==
  /\ poll.at = "commit"
  /\ nstatus' = [n \in Nodes |-> IF n \in PollWrites("online") THEN "online"
                                                             ELSE nstatus[n]]
  /\ Touch(PollWrites("online"))
  /\ poll' = PollIdle
  /\ UNCHANGED <<taskVars, runs, locks, jobs, running, cancelling, procs, outVars,
                 sweep, request, requests>>

\* The commit writes what was assigned, whatever the rows are by now; a node
\* that comes online gets a last_active_at.
PollCommit ==
  /\ poll.at = "commit"
  /\ nstatus' = [n \in Nodes |-> IF poll.found[n] = "keep" THEN nstatus[n]
                                                         ELSE poll.found[n]]
  /\ Touch(PollWrites("online"))
  /\ poll' = PollIdle
  /\ UNCHANGED <<taskVars, runs, locks, jobs, running, cancelling, procs, outVars,
                 sweep, request, requests>>

PollFails ==
  /\ "fault" \in Env /\ poll.at = "commit"
  /\ poll' = PollIdle
  /\ UNCHANGED <<vars, active, sweep, request, requests>>

-----------------------------------------------------------------------------
(* _check_idle_nodes *)

\* Mutant: the loop goes on after its last node.
MutSweepNextPastEnd(todo) ==
  \E n \in IF todo = {} THEN {NoNode} ELSE todo :
     sweep' = [at |-> "poweroff", todo |-> todo \ {n}, node |-> n]

\* the next node of the loop, or the end of it
SweepNext(todo) ==
  \/ todo = {} /\ sweep' = SweepIdle
  \/ \E n \in todo : sweep' = [at |-> "poweroff", todo |-> todo \ {n}, node |-> n]

SweepSelect ==
  /\ sweep.at = "idle"
  /\ sweep' = [SweepIdle EXCEPT
                 !.at = "locks",
                 !.todo = {n \in IdleShutdown : nstatus[n] = "online" /\ active[n] = "idle"}]
  /\ UNCHANGED <<vars, active, poll, request, requests>>

\* Mutant: the check of the lock is the wrong way round.
MutSweepLocksHeld ==
  /\ sweep.at = "locks"
  /\ SweepNext({n \in sweep.todo \cap AllowShutdown : locks[n] # 0})
  /\ UNCHANGED <<vars, active, poll, request, requests>>

\* the select of the locks, then the checks of the loop
SweepLocks ==
  /\ sweep.at = "locks"
  /\ SweepNext({n \in sweep.todo \cap AllowShutdown : locks[n] = 0})
  /\ UNCHANGED <<vars, active, poll, request, requests>>

\* shutdown_node returned or raised; in both cases the node may go down
SweepPowerOff(down) ==
  /\ sweep.at = "poweroff"
  /\ up' = IF down THEN up \ {sweep.node} ELSE up
  /\ \/ sweep' = [sweep EXCEPT !.at = "commit"]
     \/ SweepNext(sweep.todo)
  /\ UNCHANGED <<taskVars, dbVars, running, cancelling, procs, crashes,
                 active, poll, request, requests>>

SweepCommit ==
  /\ sweep.at = "commit"
  /\ nstatus' = [nstatus EXCEPT ![sweep.node] = "offline"]
  /\ SweepNext(sweep.todo)
  /\ UNCHANGED <<taskVars, runs, locks, jobs, running, cancelling, procs, outVars,
                 active, poll, request, requests>>

\* After a failed commit the next access to a node raises: the loop ends.
SweepFails ==
  /\ "fault" \in Env /\ sweep.at = "commit"
  /\ sweep' = SweepIdle
  /\ UNCHANGED <<vars, active, poll, request, requests>>

-----------------------------------------------------------------------------
(* shutdown_node_endpoint: neither the lock nor allow_shutdown is looked at *)

RequestShutdown(n) ==
  /\ request.at = "idle" /\ requests < MaxRequests
  /\ requests' = requests + 1
  /\ request' = [at |-> "poweroff", node |-> n, seen |-> nstatus[n]]
  /\ UNCHANGED <<vars, active, poll, sweep>>

RequestPowerOff ==
  /\ request.at = "poweroff"
  /\ up' \in {up, up \ {request.node}}
  /\ request' \in {[request EXCEPT !.at = "commit"], NoRequest}
  /\ UNCHANGED <<taskVars, dbVars, running, cancelling, procs, crashes,
                 active, poll, sweep, requests>>

\* "offline" is written unless it is what was loaded.  (A commit that fails
\* leaves what a poweroff leaves that raised.)
RequestCommit ==
  /\ request.at = "commit"
  /\ nstatus' = IF request.seen = "offline"
                  THEN nstatus ELSE [nstatus EXCEPT ![request.node] = "offline"]
  /\ request' = NoRequest
  /\ UNCHANGED <<taskVars, runs, locks, jobs, running, cancelling, procs, outVars,
                 active, poll, sweep, requests>>

-----------------------------------------------------------------------------
(* The runs and the clock *)

\* idle_shutdown_timeout passes after last_active_at
Age(n) ==
  /\ active[n] = "recent"
  /\ active' = [active EXCEPT ![n] = "idle"]
  /\ UNCHANGED <<vars, monitorVars>>

\* A run that has a node ready writes its last_active_at with "online".
Prepares(t) == IF pc[t] = "flush" /\ then[t] = "prepare" /\ frame[t].node # NoNode
                 THEN {frame[t].node} ELSE {}

RunStep(t) ==
  /\ Step(t)
  /\ Touch(IF pc'[t] = "prepare" THEN Prepares(t) ELSE {})
  /\ UNCHANGED monitorVars

\* A flush that is cancelled half-way may have been written.
RunCancelled(i) ==
  /\ CancelAtDatabase(i)
  /\ \/ Touch(Prepares(running[i]))
     \/ UNCHANGED active /\ (Prepares(running[i]) # {} => nstatus' = nstatus)
  /\ UNCHANGED monitorVars

RunDisturbed ==
  /\ \/ \E i \in Ids : CancelRequest(i) \/ CancelMiss(i) \/ CancelOutside(i)
     \/ \E t \in Tasks : LogOutput(t) \/ Fault(t) \/ OrphanExit(t)
     \/ \E n \in Nodes : Boot(n)
     \/ ClearRuns
  /\ UNCHANGED <<active, monitorVars>>

Restart ==
  /\ Crash
  /\ poll' = PollIdle /\ sweep' = SweepIdle /\ request' = NoRequest
  /\ UNCHANGED <<active, requests>>

PollStep == PollBegin \/ PollCommit \/ \E n \in Nodes :
              PollLoad(n) \/ \E s \in {"online", "offline"} : PollTest(n, s)
SweepReturns == \E down \in BOOLEAN : SweepPowerOff(down)
SweepStep == SweepSelect \/ SweepLocks \/ SweepReturns \/ SweepCommit
RequestStep == RequestPowerOff \/ RequestCommit

MonitoredNext ==
  \/ \E t \in Tasks : RunStep(t)
  \/ \E i \in Ids : RunCancelled(i)
  \/ RunDisturbed \/ Restart
  \/ PollStep \/ PollFails
  \/ SweepStep \/ SweepFails
  \/ RequestStep
  \/ \E n \in Nodes : RequestShutdown(n) \/ Age(n)

MonitoredSpec == MonitoredInit /\ [][MonitoredNext]_mvars

\* The scheduler and the event loop run everybody, but nobody's power-off needs
\* to return: shutdown_node has no timeout.  Of the outside: time passes, a node
\* that is up answers a test now and then, of power-offs that return again and
\* again some work, and a commit that is tried again and again succeeds.
MonitoredFairSpec ==
  /\ MonitoredSpec
  /\ \A t \in Tasks : WF_mvars(RunStep(t) /\ ~MayHang(t))
  /\ WF_mvars(PollStep) /\ WF_mvars(RequestCommit)
  /\ WF_mvars(SweepSelect \/ SweepLocks \/ SweepCommit)
  /\ \A n \in Nodes : WF_mvars(Age(n)) /\ SF_mvars(PollTest(n, "online"))
  /\ []<><<SweepReturns>>_mvars => []<><<SweepPowerOff(TRUE)>>_mvars
  /\ \A s \in {"online", "offline"} : SF_mvars(PollCommit /\ PollWrites(s) # {})

-----------------------------------------------------------------------------
(* Properties *)

MonitoredTypeOK ==
  /\ TypeOK
  /\ active \in [Nodes -> {"never", "recent", "idle"}]
  /\ poll \in [at : {"idle", "test", "load", "commit"}, todo : SUBSET Nodes,
               found : [Nodes -> {"online", "offline", "keep"}]]
  /\ sweep \in [at : {"idle", "locks", "poweroff", "commit"}, todo : SUBSET Nodes,
                node : Nodes \cup {NoNode}]
  /\ sweep.at \in {"poweroff", "commit"} => sweep.node \in Nodes
  /\ request \in [at : {"idle", "poweroff", "commit"}, node : Nodes \cup {NoNode},
                  seen : NodeStatus]
  /\ request.at # "idle" => request.node \in Nodes
  /\ requests \in 0..MaxRequests

\* Whoever shows a node as online has set its last_active_at, or the idle
\* monitor would never look at the node.
OnlineHasActivity == \A n \in Nodes : nstatus[n] = "online" => active[n] # "never"

\* A node that stays up is shown as online again and again, unless a run left
\* it as "waking", whatever the other writers of the status do.
UpIsShown ==
  \A n \in Nodes : <>[](n \in up) => []<>(nstatus[n] \in {"online", "waking"})

\* A node that stays down is in the end not shown as online any more, although
\* stale answers may be written long after they were given.
DownIsShown ==
  \A n \in Nodes : <>[](n \notin up) => <>[](nstatus[n] # "online")

\* An unlocked node with idle_shutdown_enabled that is shown as online does not
\* stay up for ever, unless the monitor hangs in one of its power-offs and never
\* looks at a node again.
IdleGoesDown ==
  \/ <>[](sweep.at = "poweroff")
  \/ \A n \in IdleShutdown \cap AllowShutdown :
        []<>(n \notin up \/ locks[n] # 0 \/ nstatus[n] # "online")

-----------------------------------------------------------------------------
(* What the documents promise *)

\* README.md: the idle monitor "powers down any online node ... provided no job
\* lock is held".
IdleSparesLocked == [][\A n \in up \ up' : sweep' # sweep => locks[n] = 0]_mvars
=============================================================================
