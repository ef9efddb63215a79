------------------------------ MODULE NodesPage ------------------------------
(***************************************************************************)
(* The page of the nodes and their private keys: the dialog lets the user  *)
(* keep, replace or remove the key of a node, reading the file chosen in   *)
(* the background, and saves with one or two requests; the handlers of the *)
(* server write the key file first and commit the row that names it later. *)
(***************************************************************************)
EXTENDS Naturals, FiniteSets

CONSTANTS
  MaxNodes,      \* bound: ids
  Keys,          \* the files that can be chosen, by what they hold
  EmptyFile,     \* one of them holds nothing
  MaxOpenings,   \* bound: openings of the dialog
  MaxReads,      \* bound: files read at a time
  MaxCalls       \* bound: requests in all, restarts and statements that raise

VARIABLES
  rows,          \* the table nodes: gone, plain, or keyed (ssh_key_path is set)
  files,         \* node_<id>.pem
  calls, count,  \* requests at work; how many there were
  list,          \* the page's last answer of list_nodes
  dialog,        \* its dialog: form, snapshot of the node, choice of a key
  reads,         \* files that are being read
  target,        \* deleteTarget
  astray         \* ids whose key file and row may disagree

server == <<rows, files>>
page == <<list, dialog, reads, target>>
vars == <<server, calls, count, page, astray>>

Ids == 1 .. MaxNodes
NoId == 0
NoKey == "none"
Rows == {"gone", "plain", "keyed"}
Callers == {"save", "remove", "other"}
Idle == [step |-> "idle"]

ASSUME NodesPageAssumption ==
  /\ MaxNodes \in Nat /\ MaxOpenings \in Nat /\ MaxReads \in Nat /\ MaxCalls \in Nat
  /\ NoKey \notin Keys

\* The text of a key counts if it is not empty.
Given(key) == key.file \notin {NoKey, EmptyFile}
Unset == [file |-> NoKey, opening |-> 0, late |-> FALSE]

EMPTY == "blank"
nodeErrors(form) == form = "blank"

\* The key a node connects with.
Used(id) == IF id # NoId /\ rows[id] = "keyed" THEN files[id] ELSE NoKey

\* met: has another handler acted on the node since the request was made ("early"),
\* or even since its handler read the row ("late")?
Request(kind, id, key, remove) ==
  [step |-> "sent", kind |-> kind, id |-> id, key |-> key, remove |-> remove,
   read |-> "gone", met |-> "no", was |-> Used(id)]

Ask(c, kind, id, key, remove) ==
  /\ calls[c] = Idle /\ count < MaxCalls
  /\ count' = count + 1
  /\ calls' = [calls EXCEPT ![c] = Request(kind, id, key, remove)]

-----------------------------------------------------------------------------
(* The page. *)

ListArrives ==
  /\ list # rows
  /\ list' = rows
  /\ UNCHANGED <<server, calls, count, dialog, reads, target, astray>>

\* A file that is read while the choice is made anew comes late.
Late == {[r EXCEPT !.late = TRUE] : r \in reads}

\* Mutant: the choice of the last dialog stays.
MutresetKeyState(d) == [d EXCEPT !.removeKey = FALSE]

resetKeyState(d) == [d EXCEPT !.key = Unset, !.keyFile = NoKey, !.removeKey = FALSE]

Opens(id, form) ==
  /\ ~dialog.open /\ target = NoId /\ dialog.opening < MaxOpenings
  /\ dialog' = resetKeyState([dialog EXCEPT !.open = TRUE, !.opening = @ + 1, !.editing = id,
                                            !.form = form, !.had = id # NoId /\ list[id] = "keyed"])
  /\ reads' = Late
  /\ UNCHANGED <<server, calls, count, list, target, astray>>

openCreate == Opens(NoId, EMPTY)
openEdit(id) == list[id] # "gone" /\ Opens(id, "fine")

Edit(form) ==
  /\ dialog.open /\ form # dialog.form
  /\ dialog' = [dialog EXCEPT !.form = form]
  /\ UNCHANGED <<server, calls, count, list, reads, target, astray>>

\* The choice of a key is kept until a dialog is opened again.
Close ==
  /\ dialog.open
  /\ dialog' = [dialog EXCEPT !.open = FALSE]
  /\ UNCHANGED <<server, calls, count, list, reads, target, astray>>

existingKeyIntact == dialog.had /\ ~dialog.removeKey /\ ~Given(dialog.key)

\* Remove and Undo.
SetRemoveKey(b) ==
  /\ dialog.open
  /\ IF b THEN existingKeyIntact ELSE dialog.removeKey
  /\ dialog' = [dialog EXCEPT !.removeKey = b]
  /\ UNCHANGED <<server, calls, count, list, reads, target, astray>>

ClearKey ==
  /\ dialog.open /\ Given(dialog.key)
  /\ dialog' = resetKeyState(dialog)
  /\ reads' = Late
  /\ UNCHANGED <<server, calls, count, list, target, astray>>

\* handleKeyFile up to its await, which notes the name ...
ChooseFile(f) ==
  /\ dialog.open /\ ~Given(dialog.key) /\ ~dialog.removeKey
  /\ Cardinality(reads) < MaxReads
  /\ dialog' = [dialog EXCEPT !.keyFile = f]
  /\ reads' = Late \cup {[file |-> f, opening |-> dialog.opening, late |-> FALSE]}
  /\ UNCHANGED <<server, calls, count, list, target, astray>>

\* Mutant: a removal asked for meanwhile stays.
MuthandleKeyFile(r) ==
  /\ r \in reads
  /\ reads' = reads \ {r}
  /\ dialog' = [dialog EXCEPT !.key = r]
  /\ UNCHANGED <<server, calls, count, list, target, astray>>

\* ... and after it: the text is taken by whatever dialog there is now.
handleKeyFile(r) ==
  /\ r \in reads
  /\ reads' = reads \ {r}
  /\ dialog' = [dialog EXCEPT !.key = r, !.removeKey = FALSE]
  /\ UNCHANGED <<server, calls, count, list, target, astray>>

\* Mutant: a key that was not chosen is sent as a text.
MutUpload(key) == IF Given(key) THEN key.file ELSE "undefined"

Upload(key) == IF Given(key) THEN key.file ELSE NoKey

handleSave ==
  /\ dialog.open /\ ~nodeErrors(dialog.form)
  /\ IF dialog.editing = NoId
     THEN Ask("save", "create", NoId, Upload(dialog.key), FALSE)
     ELSE Ask("save", "update", dialog.editing, Upload(dialog.key), dialog.removeKey)
  /\ UNCHANGED <<server, page, astray>>

\* Is the first of two requests of a save answered?
Second(x) == x.kind = "update" /\ x.remove

\* Mutant: only one request is made.
MutSaveGoesOn ==
  /\ calls["save"].step = "done" /\ Second(calls["save"])
  /\ calls' = [calls EXCEPT !["save"].kind = "unkey"]
  /\ UNCHANGED <<server, count, page, astray>>

\* deleteSSHKey follows an update that was answered.
SaveGoesOn ==
  /\ calls["save"].step = "done" /\ Second(calls["save"])
  /\ calls' = [calls EXCEPT !["save"].kind = "unkey", !["save"].step = "sent",
                            !["save"].met = IF @ = "no" THEN "no" ELSE "early"]
  /\ UNCHANGED <<server, count, page, astray>>

\* onSuccess closes whatever dialog is open.
SaveAnswered ==
  /\ \/ calls["save"].step = "failed" /\ UNCHANGED dialog
     \/ /\ calls["save"].step = "done" /\ ~Second(calls["save"])
        /\ dialog' = [dialog EXCEPT !.open = FALSE]
  /\ calls' = [calls EXCEPT !["save"] = Idle]
  /\ UNCHANGED <<server, count, list, reads, target, astray>>

setDeleteTarget(id) ==
  /\ ~dialog.open /\ target = NoId /\ list[id] # "gone"
  /\ target' = id
  /\ UNCHANGED <<server, calls, count, list, dialog, reads, astray>>

ConfirmDelete ==
  /\ target # NoId /\ target' = NoId
  /\ Ask("remove", "delete", target, NoKey, FALSE) \/ UNCHANGED <<calls, count>>
  /\ UNCHANGED <<server, list, dialog, reads, astray>>

\* Another browser does the same.
Other(id) ==
  /\ rows[id] # "gone"
  /\ \/ \E key \in {NoKey} \cup (Keys \ {EmptyFile}) : Ask("other", "update", id, key, FALSE)
     \/ Ask("other", "unkey", id, NoKey, FALSE)
     \/ Ask("other", "delete", id, NoKey, FALSE)
  /\ UNCHANGED <<server, page, astray>>

-----------------------------------------------------------------------------
(* The handlers of the server. *)

On(id) == {c \in Callers : calls[c] # Idle /\ calls[c].id = id}
AtWork(id) == {c \in On(id) : calls[c].step \in {"sent", "loaded", "written"}}

At(c, step) == calls[c].step = step

\* A handler acts on a node: the others that are about it have met it.
Overtaken(x) == [x EXCEPT !.met = IF x.step = "sent" /\ @ # "late" THEN "early" ELSE "late"]
Acts(c, id, x) == calls' = [d \in Callers |-> IF d = c THEN x
                                              ELSE IF d \in On(id) THEN Overtaken(calls[d])
                                              ELSE calls[d]]
Ended(c, step) == IF c = "save" THEN [calls[c] EXCEPT !.step = step] ELSE Idle

\* db.get
Load(c) ==
  /\ At(c, "sent") /\ calls[c].kind # "create"
  /\ calls' = [calls EXCEPT ![c] =
       IF rows[calls[c].id] = "gone" THEN Ended(c, "failed")
       ELSE [calls[c] EXCEPT !.step = "loaded", !.read = rows[calls[c].id]]]
  /\ UNCHANGED <<server, count, page, astray>>

\* What is answered to a commit: the refresh behind it may raise.
Answers(x) == IF x.kind \in {"create", "update"} THEN {"done", "failed"} ELSE {"done"}

\* The first commit of create_node, which gives the id after the largest one.
CommitCreate(c, id) ==
  /\ At(c, "sent") /\ calls[c].kind = "create"
  /\ \A i \in Ids : rows[i] # "gone" => i < id
  /\ id # 1 => rows[id - 1] # "gone"
  /\ rows' = [rows EXCEPT ![id] = "plain"]
  /\ \E answer \in Answers(calls[c]) :
       Acts(c, id, [IF calls[c].key = NoKey THEN Ended(c, answer)
                    ELSE [calls[c] EXCEPT !.step = "loaded", !.read = "plain"] EXCEPT !.id = id])
  /\ UNCHANGED <<files, count, page, astray>>

Unread(x, id) == IF x.met = "late" THEN astray \cup {id} ELSE astray

\* save_key, delete_key
OnDisk(x, old) == IF x.kind \in {"delete", "unkey"} THEN NoKey
                  ELSE IF x.key # NoKey THEN x.key ELSE old

WriteFile(c) ==
  LET id == calls[c].id
  IN /\ At(c, "loaded")
     /\ IF calls[c].kind = "create" /\ rows[id] = "gone"
        THEN calls' = [calls EXCEPT ![c] = Ended(c, "failed")] /\ UNCHANGED <<files, astray>>
        ELSE /\ files' = [files EXCEPT ![id] = OnDisk(calls[c], @)]
             /\ Acts(c, id, [calls[c] EXCEPT !.step = "written"])
             /\ astray' = Unread(calls[c], id)
     /\ UNCHANGED <<rows, count, page>>

\* save_key raises, before or after it wrote the file.
SaveKeyFails(c) ==
  LET id == calls[c].id
  IN /\ At(c, "loaded") /\ OnDisk(calls[c], NoKey) # NoKey
     /\ \/ UNCHANGED <<files, astray>>
        \/ files' = [files EXCEPT ![id] = calls[c].key] /\ astray' = astray \cup {id}
     /\ Acts(c, id, Ended(c, "failed"))
     /\ UNCHANGED <<rows, count, page>>

\* Mutant: the row keeps the path of a key that was removed.
MutNewRow(x, row) == CASE x.kind = "delete" -> "gone"
                       [] x.kind \in {"create", "update"} /\ x.key # NoKey /\ x.read = "plain" -> "keyed"
                       [] OTHER -> row

\* Only a path that differs from the one that was read is written.
NewRow(x, row) == CASE x.kind = "delete" -> "gone"
                    [] x.kind = "unkey" /\ x.read = "keyed" -> "plain"
                    [] x.kind \in {"create", "update"} /\ x.key # NoKey /\ x.read = "plain" -> "keyed"
                    [] OTHER -> row

\* The row is missed by an UPDATE, and by the refresh after one.
Missed(x) == /\ rows[x.id] = "gone"
             /\ x.kind \in {"create", "update"} \/ (x.kind = "unkey" /\ x.read = "keyed")

Settles(x) == x.met # "late" /\ (x.kind # "update" \/ x.key # NoKey)

Commit(c) ==
  LET id == calls[c].id
  IN /\ At(c, "written")
     /\ IF Missed(calls[c])
        THEN Acts(c, id, Ended(c, "failed")) /\ UNCHANGED rows
        ELSE /\ rows' = [rows EXCEPT ![id] = NewRow(calls[c], @)]
             /\ \E answer \in Answers(calls[c]) : Acts(c, id, Ended(c, answer))
     /\ astray' = IF Settles(calls[c]) THEN astray \ {id} ELSE Unread(calls[c], id)
     /\ UNCHANGED <<files, count, page>>

\* A statement, or delete_key, raises.  The row stays as it is, and behind the key file
\* it lacks what the commit would have written.
Lacks(x) == NewRow(x, x.read) # x.read \/ x.met = "late"

Raises(c) ==
  LET x == calls[c]
  IN /\ x.step \in {"sent", "loaded", "written"}
     /\ count < MaxCalls /\ count' = count + 1
     /\ calls' = [calls EXCEPT ![c] = Ended(c, "failed")]
     /\ astray' = IF x.step = "written" /\ Lacks(x) THEN astray \cup {x.id} ELSE astray
     /\ UNCHANGED <<server, page>>

\* The handlers at work are gone, the page gets no answer.
Restart ==
  /\ count < MaxCalls /\ count' = count + 1
  /\ astray' = astray \cup {calls[c].id : c \in {d \in Callers : At(d, "written")}}
  /\ calls' = [c \in Callers |-> IF At(c, "idle") \/ At(c, "done") THEN calls[c] ELSE Ended(c, "failed")]
  /\ UNCHANGED <<server, page>>

-----------------------------------------------------------------------------
Init ==
  /\ rows \in [Ids -> Rows]
  /\ files \in [Ids -> {NoKey} \cup Keys]
  /\ \A id \in Ids : rows[id] = "keyed" <=> files[id] # NoKey
  /\ \A id \in Ids : files[id] # EmptyFile
  /\ calls = [c \in Callers |-> Idle] /\ count = 0
  /\ list = rows
  /\ dialog = [open |-> FALSE, opening |-> 0, editing |-> NoId, form |-> EMPTY, had |-> FALSE,
               key |-> Unset, keyFile |-> NoKey, removeKey |-> FALSE]
  /\ reads = {} /\ target = NoId /\ astray = {}

Using == \/ ListArrives \/ openCreate \/ Close \/ ClearKey
         \/ handleSave \/ SaveGoesOn \/ SaveAnswered \/ ConfirmDelete
         \/ \E form \in {"blank", "fine"} : Edit(form)
         \/ \E b \in BOOLEAN : SetRemoveKey(b)
         \/ \E f \in Keys : ChooseFile(f)
         \/ \E r \in reads : handleKeyFile(r)
         \/ \E id \in Ids : openEdit(id) \/ setDeleteTarget(id) \/ Other(id)
Handling(c) == \/ Load(c) \/ WriteFile(c) \/ SaveKeyFails(c) \/ Commit(c) \/ Raises(c)
               \/ \E id \in Ids : CommitCreate(c, id)

Next == Using \/ (\E c \in Callers : Handling(c)) \/ Restart

Spec == Init /\ [][Next]_vars

-----------------------------------------------------------------------------
Read == [file : {NoKey} \cup Keys, opening : 0 .. MaxOpenings, late : BOOLEAN]
Dialog == [open : BOOLEAN, opening : 0 .. MaxOpenings, editing : {NoId} \cup Ids,
           form : {"blank", "fine"}, had : BOOLEAN, key : Read,
           keyFile : {NoKey} \cup Keys, removeKey : BOOLEAN]
TypeOK ==
  /\ rows \in [Ids -> Rows] /\ files \in [Ids -> {NoKey} \cup Keys]
  /\ \A c \in Callers : calls[c] # Idle =>
       calls[c] \in [step : {"sent", "loaded", "written", "done", "failed"},
                     kind : {"create", "update", "delete", "unkey"},
                     id : {NoId} \cup Ids, key : {NoKey} \cup Keys, remove : BOOLEAN,
                     read : Rows, met : {"no", "early", "late"}, was : {NoKey} \cup Keys]
  /\ count \in 0 .. MaxCalls
  /\ list \in [Ids -> Rows]
  /\ dialog \in Dialog /\ reads \subseteq Read /\ target \in {NoId} \cup Ids /\ astray \subseteq Ids

\* The dialog never asks at once to upload a key and to remove the key, so that the
\* second request of a save does not delete what the first one uploaded, also when
\* the removal is asked for while the file is read.
UploadOrRemove == ~(Given(dialog.key) /\ dialog.removeKey)

\* The key a save would upload is the file whose name the dialog shows, and was
\* chosen in this dialog: none is left over from a dialog for another node.  Only a
\* file that was still read when another was chosen, or another dialog was opened,
\* ends up under a wrong name or node.
KeyAsShown ==
  Given(dialog.key) /\ ~dialog.key.late =>
    dialog.keyFile = dialog.key.file /\ dialog.key.opening = dialog.opening

\* When no request about a node is at work, it has a key file exactly if its row says
\* so.  They may disagree only after a handler acted on a row that another handler had
\* acted on since it was read, after a restart between file and commit or a commit that
\* raises there, and after a key file that was written but could not be locked down.
KeyFollowsRow ==
  \A id \in Ids : AtWork(id) = {} /\ id \notin astray =>
    (rows[id] = "keyed" <=> files[id] # NoKey)

\* What the dialog said would become of the key.
Promised(x) == IF x.key # NoKey THEN x.key ELSE IF x.remove THEN NoKey ELSE x.was

\* A save that succeeds, with one request or with two, leaves the node with the key
\* the dialog showed when it was saved: the new one, none, or the one it had, if no
\* other request was about the node meanwhile.
SaveKeepsPromise ==
  [][\A c \in {"save"} :
       /\ At(c, "done") /\ ~Second(calls[c]) /\ calls'[c] = Idle
       /\ calls[c].met = "no"
       => Used(calls[c].id) = Promised(calls[c])]_vars

-----------------------------------------------------------------------------
(* The inductive invariant behind UploadOrRemove and KeyAsShown. *)

\* A file that is read, and is not late, is the one whose name the dialog shows.
ReadAsShown ==
  \A r \in reads : r.late \/ (dialog.keyFile = r.file /\ dialog.opening = r.opening)

DialogInv == /\ dialog \in Dialog /\ reads \subseteq Read
             /\ ReadAsShown /\ KeyAsShown /\ UploadOrRemove

-----------------------------------------------------------------------------
(* The inductive invariant behind KeyFollowsRow and SaveKeepsPromise. *)

\* A request that has a key file written or removed.
Changes(x) == x.kind # "update" \/ x.key # NoKey

\* A node is created under the id it has from then on; the other requests name theirs.
RequestOK(x) ==
  /\ x.id \in Ids \/ (x.kind = "create" /\ x.step \in {"sent", "failed"})
  /\ x.kind = "create" /\ x.step = "sent" => x.id = NoId
  /\ x.kind = "create" /\ x.step \in {"loaded", "written"} => x.key # NoKey

\* What a handler has read and written is so, unless another one acted on the node.
UpToDate(x) ==
  x.step \in {"loaded", "written"} =>
    /\ x.read # "gone"
    /\ x.met # "late" => /\ rows[x.id] = x.read
                         /\ x.step = "written" /\ Changes(x) => files[x.id] = OnDisk(x, NoKey)

\* Key file and row disagree only before the commit that makes them agree.
Committing(id) == {c \in Callers : At(c, "written") /\ calls[c].id = id /\ Changes(calls[c])}
FileAsRow(id) ==
  id \in astray \/ Committing(id) # {} \/ (rows[id] = "keyed" <=> files[id] # NoKey)

\* What a save has to keep of its promise, as far as it got.
PromiseKept(x) ==
  /\ x.kind \in {"create", "update", "unkey"}
  /\ x.remove => x.key = NoKey /\ x.kind # "create"
  /\ x.kind = "unkey" => x.remove
  /\ x.met = "no" =>
       /\ \/ x.step \in {"sent", "loaded"} /\ x.kind # "unkey"
          \/ x.step = "written" /\ ~Changes(x)
          => Used(x.id) = x.was
       /\ x.step = "done" /\ ~Second(x) => Used(x.id) = Promised(x)

KeyInv ==
  /\ TypeOK /\ UploadOrRemove /\ calls = [c \in Callers |-> calls[c]]
  /\ \A c \in Callers : calls[c] # Idle => RequestOK(calls[c]) /\ UpToDate(calls[c])
  /\ calls["save"] # Idle => PromiseKept(calls["save"])
  /\ \A id \in Ids : FileAsRow(id)
=============================================================================
