------------------------------ MODULE JobsPage ------------------------------
(***************************************************************************)
(* Jobs from the page to the scheduler: the page edits a copy of a row of  *)
(* its list and sends the whole form; the server commits the row and only  *)
(* then brings the entry of the scheduler in line, in handlers that are    *)
(* interleaved at their awaits.  Runs may delete their job, the server may *)
(* be restarted, and another client works on the same jobs.                *)
(***************************************************************************)
EXTENDS Integers, FiniteSets

CONSTANTS
  MaxJobs,    \* bound: ids
  Contents,   \* the forms users fill in
  MaxCalls    \* bound: requests, restarts and statements that raise

VARIABLES
  rows,       \* the table jobs
  entries,    \* the entries job_<id> of the scheduler: their cron
  up,         \* the server answers
  runs,       \* the jobs at work: delete_on_success as the task read it
  calls,      \* requests in the server
  count,      \* requests made so far
  list,       \* the page's last answer of list_jobs
  dialog,     \* the dialog: open, editing, form; the row it copied
  target,     \* deleteTarget
  astray      \* ids whose entry may differ from the row

server == <<rows, entries, up, runs>>
page == <<list, dialog, target>>
vars == <<server, calls, count, page, astray>>

Ids == 1 .. MaxJobs
NoId == 0

\* schedule_cron: NULL, the empty text, blanks, two that are fine, one with day 7.
NoCron == "null"
Crons == {NoCron, "", "spaces", "weekly", "daily", "seven"}
isBlank(cron) == cron \in {NoCron, "", "spaces"}
isValidCron(cron) == cron \in {"weekly", "daily", "seven"}
Truthy(cron) == cron \notin {NoCron, ""}
Schedulable(cron) == cron \in {"weekly", "daily"}

\* sources: paths and a destination are given; targets: paths to delete are.
Job == [operation : {"copy", "delete"}, sources : BOOLEAN, targets : BOOLEAN,
        cron : Crons, enabled : BOOLEAN, delete_on_success : BOOLEAN]
Gone == [operation |-> "none"]

ASSUME JobsPageAssumption ==
  MaxJobs \in Nat /\ MaxCalls \in Nat /\ Contents \subseteq Job

EMPTY_FORM == [operation |-> "copy", sources |-> FALSE, targets |-> FALSE,
               cron |-> "", enabled |-> TRUE, delete_on_success |-> FALSE]

\* A request: what it asks for, how far its handler is, the row it holds, and the
\* row the dialog that is saved had copied.
Callers == {"save", "switch", "remove", "other"}
Idle == [step |-> "idle"]
Blank == [open |-> FALSE, editing |-> NoId, form |-> EMPTY_FORM, row |-> Gone]
Request(c, kind, id, body) ==
  [step |-> "sent", kind |-> kind, id |-> id, body |-> body, row |-> Gone,
   read |-> IF c = "save" THEN dialog.row ELSE Gone]

Ask(c, kind, id, body) ==
  /\ calls[c] = Idle /\ count < MaxCalls
  /\ count' = count + 1
  /\ calls' = [calls EXCEPT ![c] = Request(c, kind, id, body)]

-----------------------------------------------------------------------------
(* The page. *)

\* An event, an answered mutation or the focus make the page fetch its list.
ListArrives ==
  /\ up /\ list # rows
  /\ list' = rows
  /\ UNCHANGED <<server, calls, count, dialog, target, astray>>

Opened(id, form, row) ==
  dialog' = [open |-> TRUE, editing |-> id, form |-> form, row |-> row]

openCreate ==
  /\ ~dialog.open /\ target = NoId
  /\ Opened(NoId, EMPTY_FORM, Gone)
  /\ UNCHANGED <<server, calls, count, list, target, astray>>

\* Mutant: one of the fields is not copied from the row.
MutCopied(job) == [job EXCEPT !.cron = IF @ = NoCron THEN "" ELSE @, !.delete_on_success = FALSE]

Copied(job) == [job EXCEPT !.cron = IF @ = NoCron THEN "" ELSE @]

openEdit(id) ==
  /\ ~dialog.open /\ target = NoId /\ list[id] # Gone
  /\ Opened(id, Copied(list[id]), list[id])
  /\ UNCHANGED <<server, calls, count, list, target, astray>>

\* Fields are changed; a cron that is emptied becomes undefined.
Edit(form) ==
  /\ dialog.open /\ dialog.form # form
  /\ dialog' = [dialog EXCEPT !.form = form]
  /\ UNCHANGED <<server, calls, count, list, target, astray>>

Close ==
  /\ dialog.open
  /\ dialog' = Blank
  /\ UNCHANGED <<server, calls, count, list, target, astray>>

\* Mutant: the paths are checked for copies only.
MutjobErrors(form) == \/ form.operation = "copy" /\ ~form.sources
                      \/ ~isBlank(form.cron) /\ ~isValidCron(form.cron)

jobErrors(form) ==
  \/ form.operation = "copy" /\ ~form.sources
  \/ form.operation = "delete" /\ ~form.targets
  \/ ~isBlank(form.cron) /\ ~isValidCron(form.cron)

\* What is undefined is not sent, and the server leaves what is not sent.
Sent(form) == [f \in DOMAIN form \ (IF form.cron = NoCron THEN {"cron"} ELSE {}) |-> form[f]]

handleSave ==
  /\ dialog.open /\ ~jobErrors(dialog.form)
  /\ IF dialog.editing = NoId THEN Ask("save", "create", NoId, dialog.form)
     ELSE Ask("save", "update", dialog.editing, Sent(dialog.form))
  /\ UNCHANGED <<server, page, astray>>

\* onSuccess closes the dialog, whichever it is by now; an error closes nothing.
SaveAnswered ==
  /\ calls["save"].step \in {"done", "failed"}
  /\ dialog' = IF calls["save"].step = "failed" THEN dialog ELSE Blank
  /\ calls' = [calls EXCEPT !["save"] = Idle]
  /\ UNCHANGED <<server, count, list, target, astray>>

enabledSwitch(id) ==
  /\ ~dialog.open /\ target = NoId /\ list[id] # Gone
  /\ Ask("switch", "update", id, [enabled |-> ~list[id].enabled])
  /\ UNCHANGED <<server, page, astray>>

setDeleteTarget(id) ==
  /\ ~dialog.open /\ target = NoId /\ list[id] # Gone
  /\ target' = id
  /\ UNCHANGED <<server, calls, count, list, dialog, astray>>

\* The dialog that asks whether to delete: confirmed or cancelled.
ConfirmDelete ==
  /\ target # NoId /\ target' = NoId
  /\ \/ Ask("remove", "delete", target, <<>>)
     \/ UNCHANGED <<calls, count>>
  /\ UNCHANGED <<server, list, dialog, astray>>

\* Another browser does the same.
Other(id) ==
  /\ rows[id] # Gone
  /\ \/ \E form \in Contents : ~jobErrors(form) /\ Ask("other", "update", id, Sent(form))
     \/ Ask("other", "delete", id, <<>>)
  /\ UNCHANGED <<server, page, astray>>

-----------------------------------------------------------------------------
(* The handlers of the server. *)

On(id) == {c \in Callers : calls[c] # Idle /\ calls[c].id = id}

\* Between its commit and its write of the entry, or the other way round.
Behind(id) == {c \in On(id) : calls[c].step \in {"committed", "refreshed", "unscheduled"}}

At(c, kind, step) == calls[c].step = step /\ calls[c].kind = kind /\ up
Goes(c, step) == calls' = [calls EXCEPT ![c].step = step]
Ends(c, step) == IF c = "save" THEN Goes(c, step) ELSE calls' = [calls EXCEPT ![c] = Idle]

Load(c) ==
  /\ At(c, "update", "sent")
  /\ IF rows[calls[c].id] = Gone THEN Ends(c, "failed")
     ELSE calls' = [calls EXCEPT ![c].step = "loaded", ![c].row = rows[calls[c].id]]
  /\ UNCHANGED <<server, count, page, astray>>

\* Mutant: what is not sent is dropped.
MutMerge(row, body) == body

Merge(row, body) == [f \in DOMAIN row |-> IF f \in DOMAIN body THEN body[f] ELSE row[f]]

\* Only the columns that differ from the row that was loaded are written.
Changes(row, body) == [f \in {f \in DOMAIN body : body[f] # row[f]} |-> body[f]]

\* The entry is in question when another handler is about to write it, too.
Committed(c, id) == astray' = IF Behind(id) \ {c} # {} THEN astray \cup {id} ELSE astray

CommitUpdate(c) ==
  LET id == calls[c].id
      changes == Changes(calls[c].row, calls[c].body)
  IN /\ At(c, "update", "loaded")
     /\ IF rows[id] = Gone
        THEN Ends(c, "failed") /\ UNCHANGED <<rows, astray>>
        ELSE rows' = [rows EXCEPT ![id] = Merge(@, changes)] /\ Goes(c, "committed")
             /\ Committed(c, id)
     /\ UNCHANGED <<entries, up, runs, count, page>>

\* The database gives the id after the largest one.
CommitCreate(c, id) ==
  /\ At(c, "create", "sent")
  /\ \A i \in Ids : rows[i] # Gone => i < id
  /\ id # 1 => rows[id - 1] # Gone
  /\ rows' = [rows EXCEPT ![id] = calls[c].body]
  /\ calls' = [calls EXCEPT ![c].step = "committed", ![c].id = id]
  /\ Committed(c, id)
  /\ UNCHANGED <<entries, up, runs, count, page>>

Refresh(c) ==
  /\ calls[c].step = "committed" /\ up
  /\ IF rows[calls[c].id] = Gone THEN Ends(c, "failed")
     ELSE calls' = [calls EXCEPT ![c].step = "refreshed", ![c].row = rows[calls[c].id]]
  /\ UNCHANGED <<server, count, page, astray>>

\* What sync_schedule leaves in the scheduler for a row; a cron that is refused
\* raises before anything is changed.
Wanted(row) == IF row # Gone /\ row.enabled /\ Truthy(row.cron) THEN row.cron ELSE NoCron
Refused(row) == Wanted(row) # NoCron /\ ~Schedulable(row.cron)

\* Mutant: the entry of a job that is not scheduled any more stays.
Mutsync_schedule(c) ==
  LET id == calls[c].id
      row == calls[c].row
  IN /\ calls[c].step = "refreshed" /\ up
     /\ entries' = [entries EXCEPT ![id] = IF Wanted(row) = NoCron \/ Refused(row) THEN @ ELSE Wanted(row)]
     /\ Ends(c, IF Refused(row) THEN "failed" ELSE "done")
     /\ astray' = IF Refused(row) THEN astray \cup {id}
                  ELSE IF Behind(id) = {c} /\ row = rows[id] THEN astray \ {id} ELSE astray
     /\ UNCHANGED <<rows, up, runs, count, page>>

sync_schedule(c) ==
  LET id == calls[c].id
      row == calls[c].row
  IN /\ calls[c].step = "refreshed" /\ up
     /\ entries' = [entries EXCEPT ![id] = IF Refused(row) THEN @ ELSE Wanted(row)]
     /\ Ends(c, IF Refused(row) THEN "failed" ELSE "done")
     /\ astray' = IF Refused(row) THEN astray \cup {id}
                  ELSE IF Behind(id) = {c} /\ row = rows[id] THEN astray \ {id} ELSE astray
     /\ UNCHANGED <<rows, up, runs, count, page>>

unschedule_job(c) ==
  LET id == calls[c].id
  IN /\ At(c, "delete", "sent")
     /\ IF rows[id] = Gone THEN Ends(c, "failed") /\ UNCHANGED <<entries, astray>>
        ELSE /\ entries' = [entries EXCEPT ![id] = NoCron]
             /\ Goes(c, "unscheduled")
             /\ Committed(c, id)
     /\ UNCHANGED <<rows, up, runs, count, page>>

CommitDelete(c) ==
  LET id == calls[c].id
  IN /\ At(c, "delete", "unscheduled")
     /\ rows' = [rows EXCEPT ![id] = Gone]
     /\ Ends(c, "done")
     /\ UNCHANGED <<entries, up, runs, count, page, astray>>

\* A statement of a handler raises, and nothing of it is written.  Behind the commit
\* the entry then stays as it was; behind unschedule_job the row stays without one.
Raises(c) ==
  /\ up /\ calls[c].step \in {"sent", "loaded", "committed", "unscheduled"}
  /\ count < MaxCalls /\ count' = count + 1
  /\ Ends(c, "failed")
  /\ astray' = IF c \in Behind(calls[c].id) THEN astray \cup {calls[c].id} ELSE astray
  /\ UNCHANGED <<server, page>>

-----------------------------------------------------------------------------
(* Runs and restarts. *)

\* A timer fires, or a run is asked for: nothing happens if the job is disabled.
execute_job(id) ==
  /\ up /\ runs[id] = "none" /\ rows[id] # Gone /\ rows[id].enabled
  /\ runs' = [runs EXCEPT ![id] = IF rows[id].delete_on_success THEN "delete" ELSE "keep"]
  /\ UNCHANGED <<rows, entries, up, calls, count, page, astray>>

\* The run ends; with success it deletes its job, but not the entry, if the copy it
\* read says so.
RunEnds(id, success) ==
  /\ up /\ runs[id] # "none"
  /\ runs' = [runs EXCEPT ![id] = "none"]
  /\ IF success /\ runs[id] = "delete"
     THEN rows' = [rows EXCEPT ![id] = Gone] /\ astray' = astray \cup {id}
     ELSE UNCHANGED <<rows, astray>>
  /\ UNCHANGED <<entries, up, calls, count, page>>

\* The handlers at work are gone.  A cron that is refused stops the start.
Restart ==
  /\ up /\ count < MaxCalls /\ count' = count + 1
  /\ up' = (\A id \in Ids : ~Refused(rows[id]))
  /\ entries' = [id \in Ids |-> IF up' THEN Wanted(rows[id]) ELSE NoCron]
  /\ runs' = [id \in Ids |-> "none"]
  /\ calls' = [c \in Callers |-> IF c = "save" /\ calls[c] # Idle /\ calls[c].step # "done"
                                 THEN [calls[c] EXCEPT !.step = "failed"]
                                 ELSE IF c = "save" THEN calls[c] ELSE Idle]
  /\ astray' = {}
  /\ UNCHANGED <<rows, page>>

-----------------------------------------------------------------------------
Init ==
  /\ rows = [id \in Ids |-> Gone] /\ entries = [id \in Ids |-> NoCron]
  /\ up = TRUE /\ runs = [id \in Ids |-> "none"]
  /\ calls = [c \in Callers |-> Idle] /\ count = 0
  /\ list = rows
  /\ dialog = Blank
  /\ target = NoId /\ astray = {}

Using == \/ ListArrives \/ openCreate \/ Close \/ handleSave \/ SaveAnswered \/ ConfirmDelete
         \/ \E form \in Contents : Edit(form)
         \/ \E id \in Ids : openEdit(id) \/ enabledSwitch(id) \/ setDeleteTarget(id) \/ Other(id)
Handling(c) == \/ Load(c) \/ CommitUpdate(c) \/ Refresh(c) \/ sync_schedule(c)
               \/ unschedule_job(c) \/ CommitDelete(c) \/ Raises(c)
               \/ \E id \in Ids : CommitCreate(c, id)
Running == \/ Restart
           \/ \E id \in Ids : execute_job(id) \/ \E success \in BOOLEAN : RunEnds(id, success)

Next == Using \/ (\E c \in Callers : Handling(c)) \/ Running

Spec == Init /\ [][Next]_vars

-----------------------------------------------------------------------------
TypeOK ==
  /\ rows \in [Ids -> Job \cup {Gone}] /\ runs \in [Ids -> {"none", "keep", "delete"}]
  /\ entries \in [Ids -> Crons] /\ up \in BOOLEAN
  /\ count \in 0 .. MaxCalls
  /\ list \in [Ids -> Job \cup {Gone}]
  /\ dialog \in [open : BOOLEAN, editing : {NoId} \cup Ids, form : Job,
                row : Job \cup {Gone}]
  /\ target \in {NoId} \cup Ids /\ astray \subseteq Ids
  /\ \A c \in Callers : calls[c] # Idle =>
       /\ calls[c].kind \in {"create", "update", "delete"}
       /\ calls[c].id \in {NoId} \cup Ids
       /\ calls[c].row \in Job \cup {Gone}

\* When no request about a job is at work, the scheduler has exactly the entry its
\* row asks for: none for a job that is disabled, has no cron or is gone.  It may
\* differ only after two requests about the job overlapped behind their commits,
\* after a run deleted its job, after a cron the scheduler refuses, after a commit of
\* a delete that raises behind unschedule_job and after a refresh that raises behind
\* its commit; a request that works on the job alone, and a restart, put it right.
EntriesFollowRows ==
  up => \A id \in Ids : On(id) = {} /\ id \notin astray => entries[id] = Wanted(rows[id])

\* NULL and the empty text say the same.
Same(new, old, f) ==
  \/ new[f] = old[f]
  \/ f = "cron" /\ {new[f], old[f]} = {NoCron, ""}

\* The form of the dialog is written to an existing job.
Saved(id) == /\ At("save", "update", "loaded") /\ calls["save"].id = id
             /\ calls'["save"].step = "committed"

\* Somebody else's commit came between the load of the save and its own.
Overtaken(id, f) == rows[id][f] # calls["save"].row[f]

\* What a save does to the fields of a job: the row then says what the user entered,
\* unless the handler had found it to say so already and was overtaken; what the
\* user left alone stays, unless another had changed it between the reading of the
\* dialog and the load, which the save undoes; a cron that was emptied stays as well.
Written(id, f) ==
  LET call == calls["save"]
  IN IF f \notin DOMAIN call.body
     THEN rows'[id][f] = rows[id][f]
     ELSE IF call.body[f] # Copied(call.read)[f]
     THEN \/ rows'[id][f] = call.body[f]
          \/ call.row[f] = call.body[f] /\ Overtaken(id, f)
     ELSE \/ Same(rows'[id], rows[id], f)
          \/ ~Same(call.row, call.read, f)
          \/ f = "cron" /\ Overtaken(id, f)

\* A save of the dialog writes what the user changed in it, and nothing else, but for
\* the updates it loses by name (see Written).
OnlyEditsWritten ==
  [][\A id \in Ids : Saved(id) => \A f \in DOMAIN EMPTY_FORM : Written(id, f)]_vars

Complete(row) ==
  row # Gone => IF row.operation = "copy" THEN row.sources ELSE row.targets

\* A handler commits what it found different in a row that is not like this any more.
Mixes(id) == \E c \in Callers : /\ At(c, "update", "loaded") /\ calls[c].id = id
                                /\ calls[c].row # rows[id]

\* A job never loses what its operation works on, paths and a destination or paths to
\* delete, in whatever order operations and paths were chosen and by whomever: but
\* two saves of one job that overlap may mix, as each writes only its own columns.
StaysComplete ==
  [][\A id \in Ids : Complete(rows[id]) /\ ~Mixes(id) => Complete(rows'[id])]_vars

-----------------------------------------------------------------------------
(* The inductive invariant behind EntriesFollowRows. *)

BehindSteps == {"committed", "refreshed", "unscheduled"}
CallFields == {"step", "kind", "id", "body", "row", "read"}

\* No job is taken for one that is gone.
Full(row) == DOMAIN row = DOMAIN EMPTY_FORM

Jobs(f) == DOMAIN f = Ids /\ \A id \in Ids : f[id] # Gone => Full(f[id])

Shape == Jobs(rows) /\ DOMAIN entries = Ids
PageShape ==
  /\ Jobs(list) /\ target \in {NoId} \cup Ids
  /\ DOMAIN dialog = {"open", "editing", "form", "row"}
  /\ Full(dialog.form) /\ dialog.editing \in {NoId} \cup Ids
CallsShape ==
  /\ DOMAIN calls = Callers
  /\ \A c \in Callers : calls[c] # Idle =>
       /\ DOMAIN calls[c] = CallFields /\ (calls[c].kind = "create" => Full(calls[c].body))
       /\ calls[c].step \in BehindSteps \/ calls[c].kind # "create" => calls[c].id \in Ids

\* What a handler that has not written the entry yet knows of the row.
Knows(x, id) ==
  CASE x.step = "refreshed" -> x.row = rows[id]
    [] x.step = "committed" -> rows[id] # Gone
    [] x.step = "unscheduled" -> entries[id] = NoCron

Settled(id) ==
  id \notin astray =>
    /\ \A c, d \in Behind(id) : c = d
    /\ \A c \in Behind(id) : Knows(calls[c], id)
    /\ up /\ Behind(id) = {} => entries[id] = Wanted(rows[id])

IInv == Shape /\ PageShape /\ CallsShape /\ \A id \in Ids : Settled(id)

\* Behind TypeOK and the two action properties: what a request asks for.  A form
\* passed the checks of the page; the switch sends `enabled' alone.
FormSent(body) == \E form \in Job : ~jobErrors(form) /\ body = Sent(form)
SwitchSent(body) == \E on \in BOOLEAN : body = [enabled |-> on]

Asks(x) == \/ x.kind = "create" /\ x.body \in Job /\ ~jobErrors(x.body)
           \/ x.kind = "update" /\ (FormSent(x.body) \/ SwitchSent(x.body))
           \/ x.kind = "delete"

\* A dialog that edits a job has copied one, and so has the request that saves it.
AskInv ==
  /\ TypeOK
  /\ dialog.editing # NoId => dialog.row # Gone
  /\ \A c \in Callers : calls[c] # Idle => Asks(calls[c])
  /\ calls["save"] # Idle /\ calls["save"].kind = "update" => calls["save"].read \in Job
=============================================================================
