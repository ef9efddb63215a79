# rclone-cold-storage: models and proofs

A verification development for the controller of rclone-cold-storage: TLA+
modules translated from the source, TLC runs on small instances, and theorems
checked with TLAPS. Paths below are relative to the repository.

## 1. The system

One asyncio process (FastAPI, SQLAlchemy over SQLite) serves a React front end
and drives *nodes*: machines that are normally off, woken by Wake-on-LAN, reached
over SSH, and filled or emptied by `rclone` child processes.

| Component | State | Operations | Interacts with |
|---|---|---|---|
| Job runner (`backend/core/job_runner.py`) | `_running_tasks`; per run a task, a session, its row in `runs` | `execute_job`: insert row, lock, wake nodes, copy/sync/move/delete, check, power off, delete job, release; `cancel_run` | lock table, nodes, jobs, rclone, SSH, events |
| Node lock (`models/node_lock.py`) | one row per locked node: `locked_by_run_id` | `_acquire_lock`, `_release_lock` | runner, idle monitor, node deletion (cascade) |
| Runs API (`api/runs.py`) | - | list, detail with log offset, `clear_runs`, cancel, mark read | runner, `runs` |
| Node status poller (`core/node_status.py`) | `nodes.status` | every 15 s: test all nodes, write status | runner and idle monitor write the same column |
| Idle monitor (`main.py`) | `nodes.status`, `last_active_at` | every 60 s: power idle nodes off | reads `node_locks` once |
| Nodes API (`api/nodes.py`) | `nodes`, `node_file_cache` | create, update, delete, wake, shutdown, test, browse | runner, cache, SFTP |
| Jobs API and scheduler (`api/jobs.py`, `core/scheduler.py`) | `jobs`; APScheduler entries in memory | create, update, delete, trigger, start-up load | runner (fires `execute_job`, deletes one-shot jobs) |
| rclone runner (`core/rclone_runner.py`) | child process | copy, sync, check, delete, speed test | runner |
| SSH, WOL (`core/ssh_client.py`, `core/wol.py`) | - | test, poll, run, list, power off, magic packet | runner, poller, monitor, API |
| Events (`core/events.py`, `api/events.py`, `useServerEvents.ts`) | a bounded queue per client | publish, stream, reconnect, invalidate | all writers; React Query |
| Log view (`History.tsx`) | local log, offset | fetch delta, append | runs API |
| File browser (`FileBrowser.tsx`) | loaded directories, selection | load, check, uncheck, promote | nodes API |
| File cache (`core/file_cache.py`) | `node_file_cache` | replace children of a path | nodes API |
| Accounts, set-up, settings (`api/auth.py`, `api/setup.py`, `api/settings.py`, `core/config.py`) | `users`, `settings`, `api_keys` | login, set-up, settings, users, keys | - |

What is hard: every run is a coroutine that is suspended at some forty awaits,
among them database statements; any of them may be the place of a cancellation, a
failed write or the end of the process. The same rows are written by other
coroutines at the same time, through other sessions. On the pages, requests are
answered in any order into components that show something else by then: another
dialog, another node, another tab. `PROJECT.json` lists the
hazards, each at its line. What would make each component correct:

* runner and lock: one run at a time works under a node's lock, the lock is freed
  by its owner only, and is freed; a run keeps its row and its id; a result that
  was written stays; a node is powered off and a job deleted only after success;
  every run ends;
* poller, monitor: no node is powered off under a run; a status converges to what
  the node is; no node stays "waking";
* jobs and scheduler: the schedule fires exactly the enabled jobs of the table, and
  a save writes what was edited and nothing else;
* nodes and their keys: the key that is used is the one the dialog showed; a row
  names a key file exactly if there is one;
* events and views: what a client shows converges to the table; the log view is a
  prefix of the log;
* file browser: the list of paths means what the user checked, and the rows show it,
  however much of the tree is loaded;
* settings, users, keys: what was typed is stored or still offered for saving; an
  administrator remains; a key is shown where it was asked for.

## 2. Modules

| Module | Models | Relation |
|---|---|---|
| `NodeLock` | abstract specification: what the lock table promises its clients | - |
| `JobRunner` | the life of runs, with the history endpoints, failures and restarts | refines `NodeLock` |
| `NodeMonitor` | `JobRunner` composed with the status poller, the idle monitor and the shutdown endpoint | extends `JobRunner` |
| `FileBrowser` | the lazily loaded tree of the job dialog and its list of paths | - |
| `RunViews` | event stream, query cache, history page with its drawer | - |
| `JobsPage` | jobs from the dialog over the handlers to the scheduler | - |
| `NodesPage` | nodes and their key files from the dialog to the disk | - |
| `SettingsPage` | settings, users and API keys, three tabs and their handlers | - |
| `MC...` | the instances TLC checks | the module they name |
| `...Proofs` | theorems, section 4 | the module they name |

The modules share no state but that of `JobRunner` and `NodeMonitor`. Where parts meet
otherwise, each module has the other side as steps of its environment: `JobsPage` has
runs that read and delete their job, `RunViews` has runs that write rows and logs.

In all of them **an action is the code from one await to the next** (on the server
between two awaits of a coroutine, on the page one handler, effect or answer). The
finer awaits that only read constants are folded into the next one.

### JobRunner

A *task* is one call of `execute_job`; `pc` names the await a task is suspended at.

| Variable | Code |
|---|---|
| `pc`, `then` | the await; where `flush_log` returns to |
| `rid`, `status` | `run.id`, `run.status` in the session of the task (maybe not committed) |
| `frame` | locals: nodes still to prepare, the loaded `node` and its `status`, rclone calls left, tries for the lock; the `run.status` committed last (a flush writes changed attributes only) |
| `runs`, `locks`, `jobs`, `nstatus` | committed rows: `runs.status`, `node_locks`, enabled `jobs`, `nodes.status` |
| `running` | `_running_tasks` |
| `cancelling` | cancel requests between their `db.get` and `cancel_run` |
| `procs`, `up` | living rclone children; powered-on nodes |

| Actions | Code |
|---|---|
| `Start`, `Insert`, `Register` | select the job, insert the run, enter the task |
| `LockFree`, `LockInsert`, `LockConflict`, `LockBusy`, `LockBusyAgain`, `WakeUp` | `_acquire_lock` as two statements, the wait of 60 tries |
| `Flush`, `FlushStale`, `LogOutput` | `flush_log`, with the row there or gone, also from rclone's output |
| `LoadNode`, `Probe`, `Wake` | the loop over the nodes |
| `BeginOperation`, `CallDone` | the four operations as their sequence of rclone calls |
| `CheckDone`, `PowerOff`, `MarkOffline`, `DeleteJob` | what follows success |
| `Release`, `ReleaseFails` | `finally` |
| `CancelRequest`, `CancelMiss`, `CancelOutside`, `CancelAtDatabase` | `cancel_run_endpoint`, `cancel_run`, `CancelledError` at an await of the outside or of the database |
| `ClearRuns` | `clear_runs` |
| `Fault`, `Crash`, `OrphanExit`, `Boot` | failed writes, end and restart of the process, children left behind, nodes switched on |

Three facts of the libraries shape the model. A SQLAlchemy session whose flush
failed, or whose statement was cancelled half-way, raises at every later use, so
`execute_job` ends in its `finally` before the lock is released: the task is
`"dead"`. SQLite gives a new row the largest id plus one, so ids of deleted rows
return (`NewId`). The first statement of the last transaction in `finally` writes,
and SQLite has one writer, so `Release` is one step.

`Env` selects which disturbances occur (`"cancel"`, `"clear"`, `"crash"`,
`"fault"`); the actions are the same everywhere.

### NodeMonitor

The module extends `JobRunner`: its steps are the steps of the runs, which set
`active` where a run writes `last_active_at`, and the steps of three more
coroutines that write the same columns and power off the same nodes.

| Variable | Code |
|---|---|
| `active` | `nodes.last_active_at`, abstracted to never, recent, or longer ago than `idle_shutdown_timeout` |
| `poll` | `refresh_node_statuses`: phase, nodes left in it, status to be written per node |
| `sweep` | `_check_idle_nodes`: phase, nodes left, the node being powered off |
| `request`, `requests` | a call of the shutdown endpoint, with the status its session loaded |

| Actions | Code |
|---|---|
| `PollBegin`, `PollTest`, `PollLoad`, `PollCommit`, `PollFails` | the select, each SSH answer, each `db.get` with the decision what to write, the one commit |
| `SweepSelect`, `SweepLocks`, `SweepPowerOff`, `SweepCommit`, `SweepFails` | the two selects, the SSH command, the commit |
| `RequestShutdown`, `RequestPowerOff`, `RequestCommit` | `shutdown_node_endpoint` |
| `RunStep`, `RunCancelled`, `RunDisturbed`, `Restart` | the steps of `JobRunner`; a restart ends the other coroutines too |
| `Age` | `idle_shutdown_timeout` passes |

A session writes only what differs from what it loaded, whatever the row is by the
time of the commit; that is why `poll.found` turns to `"keep"` at the load, and why
a late commit may overwrite a newer status. The poller that is started once at
start-up is not told apart from the scheduled one: it ends within the SSH timeout,
before the first interval.

### FileBrowser

| Variable | Code (`FileBrowser.tsx`, `Jobs.tsx`) |
|---|---|
| `node`, `turn` | the node browsed; a change of node makes the answers of the turn before stale |
| `dirs`, `expanded`, `inFlight`, `requests` | `dirs`, `expanded`, the set of directories believed to be loading, the requests really under way |
| `selected`, `dirsOnly` | `source_paths` with and without slash; sync offers directories only |
| `meant`, `plain` | history: the leaves the user chose by what the rows said; whether that can still be followed |

`SelectNode`, `loadDir`, `Answer`, `toggleExpand`: the loading. `handleToggle` with
`AddToSelection`, `DropFromSelection`, `explodeExcept`, `promote`, `Written`: a click.
`addPath`, `removePath`, `ChooseOperation`: the dialog around. `promote` is the loop of
the code as a function over its rounds.

### RunViews

| Variable | Code |
|---|---|
| `rows`, `log`, `alive` | `runs.status` and `alert_read` as one word, length of `runs.log`, tasks at work |
| `stream`, `queue` | the EventSource; the bounded queue of the subscriber |
| `data`, `invalid`, `fetch` | React Query: answers, invalidation marks, fetches with the offset they took |
| `page`, `runs`, `runDetail` | history page shown; the answers it rendered last |
| `selected`, `view`, `offset` | the copied row of the drawer; its text; `logFromRef` |
| `asks` | a mutation of this page that is not answered |
| `lost`, `clean`, `twice` | history: keys that changed without notice; whether the text can be followed; whether a part of it was asked for a second time |

`NewRun`, `FlushLog`, `TaskEnds` are what the runner does to rows and log, `Connect`,
`Receive`, `Disconnect` the stream, `Serve`, `Arrive`, `Fails`, `NotFound`, `Poll`,
`Focus`, `Forget` the query cache, `openDrawer`, `Acknowledge`, `markAllRead`,
`ClearAll`, `CancelAnswered`, `EnterPage`, `LeavePage` the page. An answer enters the
cache (`Arrive`) and is shown later (`Render`): the rendering and the effects of it, which
append the delta, move `logFromRef` and follow the row of the list, are one step, and
anything may happen before it, also a fetch with the old offset.

### JobsPage

| Variable | Code |
|---|---|
| `rows`, `entries` | table `jobs`; the entries `job_<id>` of APScheduler |
| `runs` | jobs at work, with `delete_on_success` as the task read it |
| `calls` | requests: step, body, the row the handler loaded, the row the dialog had copied |
| `list`, `dialog`, `target` | the query of the page, its dialog and its confirmation |
| `astray` | history: ids whose entry may differ from the row, and so why |

`handleSave`, `enabledSwitch`, `ConfirmDelete`, `Other` make requests; `Load`,
`CommitUpdate`, `Refresh`, `sync_schedule`, `CommitCreate`, `unschedule_job`,
`CommitDelete` are the handlers, any statement of which may raise (`Raises`);
`execute_job`, `RunEnds`, `Restart` the rest. A cron
is one of six words that page, handler and APScheduler tell apart.

### NodesPage

| Variable | Code |
|---|---|
| `rows`, `files` | table `nodes` as far as `ssh_key_path` goes; `node_<id>.pem` |
| `calls` | requests; `met` is history: did another handler act on the node meanwhile |
| `dialog`, `reads` | form, chosen key, its name, the wish to remove it; files being read |
| `astray` | history: ids whose file and row may disagree |

`ChooseFile` and `handleKeyFile` are the two halves of reading a file, `handleSave`,
`SaveGoesOn`, `SaveAnswered` the save of one or two requests, `Load`, `WriteFile`,
`SaveKeyFails`, `Commit`, `CommitCreate` the handlers, with a statement that raises
(`Raises`) or a `Restart` between any two.

### SettingsPage

| Variable | Code |
|---|---|
| `stored`, `users`, `keys` | the three tables |
| `calls` | every request so far, so that a key can be traced to the request that made it |
| `page` | the state of the mounted tab; `mount` and `opening` number tabs and dialogs |
| `late`, `saved`, `met`, `lapsed` | history: typed during a save, the form accepted last, settings written by another save since they were read, an administrator who gave up the role |

A tab is unmounted when it is left: its state is gone, its requests go on. `Load` is
the resolution of the user with the checks; `SelectSetting` and `CommitSetting` are one
turn of the loop over the settings; `Interrupted` is a failure anywhere. The other
administrator works from another browser (`Elsewhere`).

## 3. Runs

All runs say `CHECK_DEADLOCK FALSE`: requests and invocations are finite in number, and
when all have ended nothing needs to happen any more.

| Run | Instance | Shows |
|---|---|---|
| `runner_safety` | 3 symmetric tasks, 1 node, every disturbance | `MutualExclusion`, `RowsStayOwn`, `LocksAccountedFor`, `CancelReaches`, `RcloneAlone`, `ResultIsFinal` |
| `runner_final_steps` | a copy and a move of 2 paths from one node to the other with shutdown, contending for the one lock, one deletes its job, every disturbance but clearing | `PowerOffAfterSuccess`, `JobDeletedOnSuccess`, `ImplementsNodeLock` |
| `runner_progress` | a copy with shutdown and one without destination, every disturbance, histories cleared in final steps, fair | `RunEnds`, `LockFreed` |
| `monitor_status` | 1 run, poller, idle monitor, 1 shutdown request, 1 node, cancellation, failed writes, a restart, fair | `OnlineHasActivity`, `UpIsShown`, `DownIsShown`, `IdleGoesDown` |
| `file_browser` | two nodes whose trees have three levels and disagree on what is a directory, one change of node, a job opened in four states | `SkeletonsAwaited`, `SelectionMeant`, `RowsTellTruth` |
| `run_views` | one run with a log of one line, a queue of one event, one move (fault, other browser, page left), fair polling | `LogIsPrefix`, `StaleHasReason`, `DrawerAgrees`, `ListConverges` |
| `jobs_page` | one id that is given again and again, four callers, three requests, failing statements or restarts, four forms | `EntriesFollowRows`, `OnlyEditsWritten`, `StaysComplete` |
| `nodes_page` | one id, two files with keys and an empty one, two openings of the dialog, one file being read, two requests, failing statements or restarts | `UploadOrRemove`, `KeyAsShown`, `KeyFollowsRow`, `SaveKeepsPromise` |
| `settings_page` | two administrators, three usernames and ids, two settings of which one has a row, two tabs or dialogs, two requests | `NothingForgotten`, `AdminRemains`, `KeyOfThisDialog`, `SavedIsStored` |

Each of them also checks its module's type invariant, except `runner_final_steps` and
`runner_progress`, whose module has its own in `runner_safety`.

Bounds and why they are enough:

* `Tasks`: an owner of the lock, one that waits, one that comes later. `MaxRuns`: as
  many ids as tasks, so that an id that is freed is given again. `WaitAttempts`: 1 or 2
  instead of 60; what matters is that a try can be repeated and that tries run out.
  `MaxCrashes`: a second restart finds nothing a first one does not.
* `MaxRequests` (shutdown): 1; requests are independent of each other. One node in
  `monitor_status`: nodes meet only in the loops of poller and monitor.
* `MaxSwitches`: 1, as an answer belongs to the node of now or to one before.
* `MaxMoves`: 1; every fault gives a reason on its own, the properties say there are no
  others. `MaxQueue`: 1, so that an event is dropped while another
  is unread. `MaxRuns`: 1 and `MaxLog`: 1 in `run_views`; a run is left and opened again
  with the page, and one line is enough to be missing or doubled. An id is given
  again there only as a move of its own. That the text stays the log of its run when the
  user goes from run to run, and with longer logs, is what the theorem `LogShown` says
  for any number of runs, lines and reused ids.
* `MaxCalls`: 2 or 3; the races are between two handlers, the third request of
  `jobs_page` is the one that is alone and must put things right. `MaxJobs`,
  `MaxNodes`: 1, since requests about different ids touch nothing in common; ids given
  again are what one id is enough for.
* `MaxOpenings`: 2, a dialog and the one after it. `MaxReads`: 1, a file that is still read
  when the next dialog opens; that two files read at once are told apart is what the
  theorem `KeyIsShown` says for any number of them. An empty file counts as none.
* `OneRowSpec` (settings): the page starts with one of the two settings stored, so that a
  save of both updates a row and inserts another.

Symmetry: over the tasks in `runner_safety`, where all run the same job, and over
fields and over values in `settings_page`, over files in `nodes_page`; none of these runs
checks liveness.

`runner_safety` uses a job without final steps; with `"clear"` and final steps its
properties do not hold, which is what the run on cleared histories shows.
`Protected` is that condition, and the theorems state it.

The history variables (`astray`, `lost`, `met`, `late`, `plain`, `clean`, `lapsed`) make
the exceptions of a property precise. They are set where one named thing happens (two
handlers overlapped behind their commits, an event was dropped, ...) and taken back where
the code repairs it; a property then says that nothing else is an exception.

### Where the code does not do what it says

Three of these disagreements are runs that end in a violation.

| Run | Expected by | What the code does |
|---|---|---|
| `clear_orphans_run` | comment in `clear_runs` | a run in its final steps loses its row |
| `idle_kills_run` | README "provided no job lock is held" | the monitor reads the locks once, before its SSH round trips |
| `alert_lost` | README "raises an unread alert" | a run that was opened while it worked fails without an alert: the value equals the one its session loaded, so nothing is written |

Others were met while modelling. The modules do what the code does there, and their
properties are stated so that they leave room for exactly that:

* The loser of the race for a lock row ends with its row still "running": the error of
  its insert makes its session unusable (`job_runner.py:380`). A failed write does the
  same to a run that holds its lock, which is then never released (`job_runner.py:112`).
  In the model both are tasks that are `"dead"`.
* `sudo poweroff` is awaited without a timeout (`ssh_client.py:76`). A run that hangs there
  keeps its lock, and an idle monitor that hangs there never looks at a node again;
  `RunEnds`, `LockFreed` and `IdleGoesDown` name exactly that.
* Only the primary node is locked, not the destination of a copy (`job_runner.py:131`).
* The rclone child of a cancelled run works on beside the next run's
  (`rclone_runner.py:69`); `RcloneAlone` says that there is no other way to it.
* A run that gives up waiting leaves its node as "waking", which poller and idle monitor
  pass over (`job_runner.py:172`).
* `last_active_at` is set before the transfer and not after it (`job_runner.py:179`), so
  the idle timeout counts the run itself.
* A cron that is emptied in the dialog is not sent and stays (`Jobs.tsx:667`, under the
  label "leave blank for manual only"). A cron with day 7 passes the page's validation
  and is refused by APScheduler, after the row was committed; the next start of the
  server fails on it (`jobs.py:126`, `main.py:109`).
* A delete of a job removes its entry first (`jobs.py:140`): if the commit fails, an enabled
  job is left that never fires before it is saved again or the server restarts.
* A save of a job sends the whole form, the handler writes what differs from the row it
  loads. So it undoes what another changed since the dialog was opened, and its own change is
  lost where the row said so already at the load and another one commits before it
  (`jobs.py:122`). `Written` states both, field by field.
* The key file of a node is written or removed before the row is committed: if the commit
  fails, the row says otherwise (`nodes.py:97`, `132`, `149`, `165`).
* A fetch of the details that starts after an answer came in and before the effect appended
  it asks for the same lines again, and the drawer shows them twice (`History.tsx:141`). A
  run that is opened while the cache still has its last answer shows that delta
  without its beginning (`History.tsx:137`).
* The last lines of a log may be missing from the drawer though no event was lost: the
  first fetch of the details is not restarted by an event (`History.tsx:133`).
* A path whose directory is not loaded is written back without its slash and then dropped
  as a file by the change to sync (`FileBrowser.tsx:415`).
* A file that is typed while the operation is sync gets a slash (`Jobs.tsx:192`). Sync
  does not offer it as an entry, so it stays in the list when the directory around it is
  promoted (`FileBrowser.tsx:71`); clearing the box of that directory under another
  operation then leaves the file chosen. `plain` ends with such a path (`Proper`).
* What is typed while a save of the settings is under way is not offered for saving any
  more once the answer comes (`Settings.tsx:52`).

### Fairness

`FairSpec` (`JobRunner`) asks weak fairness of every task's own steps: the event loop
resumes every coroutine whose await is done, and the awaits of `execute_job` end: database
statements by `busy_timeout`, the tests of a node by their timeout (`ssh_client.py:46`),
the wait for the lock by its count, the wait for a node by `wol_timeout`. That rclone ends
is an assumption on rclone. The power-off is excepted (`MayHang`): `run_ssh_command` has
neither a timeout nor a keepalive, so a task that is there need not take its next step.
Nothing is asked of the environment: nodes need not boot, nobody cancels.

`MonitoredFairSpec` asks the same of the poller, of the monitor but for its power-off, and of
the request behind its own; the scheduler starts poller and monitor again and again. Of the
outside it assumes that time passes, that a node that is up answers a test now and then
(strong fairness of the answer "online"), that a commit that is tried again and again goes
through, and that of the monitor's power-offs, *if* they return again and again, some have
worked. That they return is not assumed.

`PollingSpec` (`RunViews`) asks that the timer of the list fires and that what came in is
rendered (weak fairness), and that a fetch that is given up for a new one again and again is
served and answered at some time (strong fairness): the browser retries, and events come at
a finite rate.

## 4. Proofs

All theorems hold for every value of the constants under the modules' assumptions, which
say that bounds are numbers, that names that must differ do, that what users are said to
fill in are forms, and that a tree of files is one.

`JobRunnerProofs`, for every set of tasks, nodes, jobs and every environment:

* `Typing`: `Spec => []TypeOK`, without any condition.
* `Invariance`: `Protected => (Spec => []IInv)`. `HolderKeepsLock` alone is not
  inductive: a task that works could lose its lock to a `Release` of a task with
  the same id, so ids have to be unique among unfinished tasks and their rows have
  to exist (`RowsStayOwn`); that a new id is none of theirs needs the rows, and that
  `clear_runs` leaves the rows alone needs `ActiveUntilEnd`. That taking a lock does
  not overwrite one needs `NoLockYet`; that a freed lock was the own one needs
  `LocksAccountedFor`.
* From it: `Exclusion`, `LockKept`, `RunsKeepIdentity`, `LocksHaveRuns`,
  `RunsCanBeCancelled`, and the action property `ReleasedByHolder`, where `LockWriters`
  finds the only two actions that write the table.
* `ChildrenExclude` (`RcloneAlone`) needs `ChildrenInv` besides: a child belongs to a task
  that waits for it, or to one that was cancelled or died; two tasks that wait for
  rclone on one node would both hold its lock.

The steps that touch neither ids nor locks are treated once (`QuietStep`,
`QuietActions`): a quiet step ends or continues one task and leaves `locks` alone.
`Protected` says that nobody clears the history or that no job has final steps; the
run `clear_orphans_run` shows that it is needed: the row of a run that still works
is deleted, SQLite gives its id to the next run, and `_release_lock` of the first
then removes the lock of the second.

The refinement, under the same condition:

* `Implementation`: `Protected => (Spec => ImplementsNodeLock)`. `HolderOK` says
  what the `CHOOSE` in `Holder` picks: by `RowsStayOwn` and `LocksAccountedFor` the
  one unfinished task with the id of the lock row. A task that takes its lock is an
  `Acquire` (`TakeIsAcquire`), the `finally` that finds its row a `Release`
  (`ReleaseIsRelease`), and all other steps, failures and restarts included, are a
  `Leave` or no step at all (`NoLockStep`).

The results of runs and their final steps:

* `ResultsStay`: `NoFinalSteps => (Spec => ResultIsFinal)`. The only steps that write a row
  are those of the unfinished task it belongs to and the clearing of the history
  (`RunWriters`), and the row of an unfinished task is active (`ActiveUntilEnd`). A job with
  final steps shows its success before they are taken and may fail afterwards, so the
  hypothesis is needed.
* `OnlySuccessPowersOff`, `OnlySuccessDeletes` (`PowerOffAfterSuccess`,
  `JobDeletedOnSuccess`), under `Protected`, from `FinalInv`: what a session committed last
  is what the row shows, as nobody else writes the row, and a task is at a final step only
  with a success in memory and in that commit. `StepMoves` and `DisturbMoves` say what any
  step makes of the task that takes it and of the others, `FinalInvariance` joins them with
  `Insert`, `Flush` and `Crash`, which are treated apart.

`NodeLockProofs`: `ServiceExcludes`, what an implementation of `NodeLock` gives its
clients.

`NodeMonitorProofs`: `MonitoredTyping` for the composition; `MonitoredInvariance`, that
`IInv` and `MutualExclusion` hold beside the monitors, as every step is a step of the runs
or writes only what `IInv` does not read (`Aside`, `AsideStep`); `OnlineIsActive`, that
`OnlineHasActivity` holds unconditionally, where `StepWrites` and `CancelWrites` find the
one place where a run writes "online".

`RunViewsProofs`, for any number of runs, lines, queued events and moves: `ViewTypes`,
`LogShown`, `StaleExplained` and `DrawerFollows` (`TypeOK`, `LogIsPrefix`, `StaleHasReason`,
`DrawerAgrees`). The properties speak of what was rendered last; the invariant follows the
answers from the server over the cache to the page. `AnswerExcused` says of an answer that
is on its way or in the cache that it is so or that there is a reason; `AnswersGrow` that
the first fetch of a run starts at its beginning, that no answer is ahead of the log and
none that is on its way is behind the cache; `TextGrows` that the text ends where the answer
rendered last ends, that an answer not rendered yet and a fetch under way begin there, or
before it once a part was asked for twice, and so leave no gap; `RowFollowed` that the copy
of the row follows the list that was rendered; `CacheShape` that the drawer is open only
with a list behind it.

`FileBrowserProofs`, for every finite tree, any number of nodes and changes of node:

* `Loads`, and `NoDeadSkeleton` (`SkeletonsAwaited`) from `LoadInv`: a directory that is
  loading has a request of this turn under way, an open one was asked for, and no mark is
  set without a state.
* `BrowserTypes`, `ChoiceKept` and `RowsAreTrue` (`TypeOK`, `SelectionMeant`,
  `RowsTellTruth`) from `ChoiceInv`: all that is loaded was listed by the node of now
  (`ListedHere`), no path is listed twice (`Once`), a path with a slash is a directory
  (`SlashIsDir`), and of the paths that are on the node none lies in another and, under
  sync, none is a file (`Tidy`). `Added`, `TakenOut`, `BrokenUp` and `Dropped` say what a
  click makes of the leaves, `PromotedTidy` that promotion leaves them as they are.
* `promote` is a bounded number of rounds. That it keeps what one round keeps (`Promoted`)
  is an induction over them; it is done without the induction theorems, by a smallest
  counterexample under a well-founded order (`LessIsWellFounded`, `Counting`).

The tree is a constant: `PathsAssumption` and `NodesAssumption` say that it is finite, that
directories contain each other along their paths and that the entries a node lists are
one step below. `ChoiceKept` and `RowsAreTrue` hold while `plain` does: not after the node
was changed under a choice, and not for a list with a path inside another one or with a
file that is listed as a directory.

`JobsPageProofs`, for any number of ids, forms and requests:

* `Followed` (`EntriesFollowRows`). The property speaks of the time when no request is at
  work and of ids that are not astray: the reasons to go astray are overlapping requests,
  a run that deletes its job, a refused cron, and a statement that raises behind the
  commit or behind `unschedule_job`; the inductive `Settled` says of every handler that
  is behind its commit what it still knows of the row, that there is at most one of them
  for an id that is not astray, and that without one the entry is right.
* `JobsTypes`, `OnlyEdits` and `NothingLost` (`TypeOK`, `OnlyEditsWritten`,
  `StaysComplete`) from `AskInv`: a request asks for a form that passed the page's checks,
  or for the switch alone, and what a save had read was a job. `OnlyEdits` follows a save
  field by field, from the row the dialog copied over the row the handler loaded to the row
  at the commit (`Written`). `MergeFields` gives each
  field of a row after an update; `SavedIs` finds the one step that commits a save, and
  `MergeComplete` shows that over the row it had loaded an update leaves the paths whole.

`NodesPageProofs`, for any number of nodes, files, dialogs and requests: `OneOrTheOther` and
`KeyIsShown` from `DialogInv`: a file that is being read and is not late belongs to the name
and the dialog that are shown. `NodeTypes`, `KeyHasItsRow` and `SavesKeepPromises`
(`TypeOK`, `KeyFollowsRow`, `SaveKeepsPromise`) from `KeyInv`, over failing statements and
restarts: what a handler has read and
written is so unless another one acted on the node (`UpToDate`), file and row disagree only
under a handler that is about to commit (`FileAsRow`), and a save is, at each of its steps,
as far with its promise as that step says (`PromiseKept`), over both of its requests.

`SettingsPageProofs`: `Types` and `Administered` from `IInv`, where the step that matters is
that of a handler that was allowed to act on another: either the one who asked is still
an administrator afterwards, or `lapsed` is set. `Remembered` and `OwnKey` (`NothingForgotten`,
`KeyOfThisDialog`) from `PInv`: an awaited save carries what is typed but for what was typed
since (`FormInv`), an awaited request was made in the dialog that is open or is marked late
(`OpeningsInv`), and no request is numbered after the tab that is mounted (`MountsInv`).
`Stored` (`SavedIsStored`) from `SInv`: each value of a save that is not on its list any
more is stored, and what it has read is still there, or `met` names the setting; the step
that matters is the commit of one save while another is between its select and its commit
(`CommitStores`).

Every safety invariant and every action property that a passing run checks is stated by one
of these theorems. Where a theorem has a condition (`Protected`, `NoFinalSteps`), the runs are
instances of it. Model-checked only is liveness: `RunEnds`, `LockFreed`, `UpIsShown`,
`DownIsShown`, `IdleGoesDown` and `ListConverges` rest on fairness, which is out of the
prover's reach.

## 5. Not modelled

* Contents of nodes: what rclone does to files is its own. Paths on nodes are abstract, so
  that a move onto itself, or a file added between check and purge, is not seen.
* The limit of 100 rows of the list of runs: the list is the whole table.
* The file cache: rows that are replaced with every live listing and only displayed.
* A node that is created, edited or deleted while a run is at work on it, and the cascade
  of its deletion to lock and jobs: `NodesPage` and `JobRunner` are separate models.
* Signing in, sessions and their secret, cryptography; the set-up page.
* The failure webhook (it reads and sends only) and its test; testing, waking and shutting
  down a node by button; log wording, byte counts and rates; `last_seen`; layout,
  navigation, sorting and filtering of lists; the one-off schema migration.
* The browser of the destination of a job, which selects one directory.
