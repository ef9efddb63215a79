-------------------------- MODULE NodesPageProofs --------------------------
(***************************************************************************)
(* The key in the dialog of a node: what is sent with a save is what the   *)
(* dialog shows, for any number of nodes, files, dialogs and requests.     *)
(***************************************************************************)
EXTENDS NodesPage, TLAPS

LEMMA UnsetKey == Unset \in Read /\ ~Given(Unset)
BY NodesPageAssumption DEF Unset, Read, Given

\* Files that are read while the choice is made anew are all late.
LEMMA LateReads ==
  ASSUME reads \subseteq Read
  PROVE  Late \subseteq Read /\ \A r \in Late : r.late
<1>1. ASSUME NEW r \in reads
      PROVE  [r EXCEPT !.late = TRUE] \in Read /\ [r EXCEPT !.late = TRUE].late
  BY DEF Read
<1> QED
  BY <1>1 DEF Late

\* Nothing is chosen, and no file is read that could be taken for the choice.
LEMMA Anew ==
  ASSUME DialogInv, NEW d \in Dialog, dialog' = resetKeyState(d), reads' = Late
  PROVE  DialogInv'
<1>1. dialog' \in Dialog /\ dialog'.key = Unset /\ dialog'.removeKey = FALSE
  BY UnsetKey DEF resetKeyState, Dialog
<1>2. reads' \subseteq Read /\ \A r \in reads' : r.late
  BY LateReads DEF DialogInv
<1>3. ReadAsShown' /\ KeyAsShown' /\ UploadOrRemove'
  BY <1>1, <1>2, UnsetKey DEF ReadAsShown, KeyAsShown, UploadOrRemove, Given
<1> QED
  BY <1>1, <1>2, <1>3 DEF DialogInv, Dialog, Read

LEMMA DialogInit == Init => DialogInv
<1> SUFFICES ASSUME Init PROVE DialogInv
  OBVIOUS
<1>1. dialog \in Dialog /\ dialog.key = Unset /\ dialog.removeKey = FALSE
  BY UnsetKey, NodesPageAssumption DEF Init, Dialog, NoId, EMPTY
<1> QED
  BY <1>1, UnsetKey DEF Init, DialogInv, ReadAsShown, KeyAsShown, UploadOrRemove

\* A step that touches neither the choice of the key nor the files that are read.
LEMMA Apart ==
  ASSUME DialogInv, dialog' \in Dialog, UNCHANGED reads,
         dialog'.key = dialog.key, dialog'.keyFile = dialog.keyFile,
         dialog'.opening = dialog.opening, dialog'.removeKey = dialog.removeKey
  PROVE  DialogInv'
BY DEF DialogInv, ReadAsShown, KeyAsShown, UploadOrRemove, Given, Dialog, Read

LEMMA OpensKeeps ==
  ASSUME DialogInv, NEW id \in {NoId} \cup Ids, NEW form \in {"blank", "fine"}, Opens(id, form)
  PROVE  DialogInv'
<1> DEFINE d == [dialog EXCEPT !.open = TRUE, !.opening = @ + 1, !.editing = id,
                               !.form = form, !.had = id # NoId /\ list[id] = "keyed"]
<1>1. dialog.opening + 1 \in 0 .. MaxOpenings
  BY NodesPageAssumption DEF Opens, DialogInv, Dialog
<1>2. (id # NoId /\ list[id] = "keyed") \in BOOLEAN
  OBVIOUS
<1>3. d \in Dialog
  BY <1>1, <1>2 DEF DialogInv, Dialog
<1> QED
  BY <1>3, Anew DEF Opens

LEMMA RemoveKeeps == ASSUME DialogInv, NEW b \in BOOLEAN, SetRemoveKey(b) PROVE DialogInv'
<1>1. dialog' = [dialog EXCEPT !.removeKey = b] /\ UNCHANGED reads
  BY DEF SetRemoveKey
<1>2. /\ dialog' \in Dialog /\ dialog'.removeKey = b /\ dialog'.key = dialog.key
      /\ dialog'.keyFile = dialog.keyFile /\ dialog'.opening = dialog.opening
  BY <1>1 DEF DialogInv, Dialog
<1>3. ~(Given(dialog.key) /\ b)
  BY DEF SetRemoveKey, existingKeyIntact
<1>4. UploadOrRemove'
  BY <1>2, <1>3 DEF UploadOrRemove, Given
<1>5. ReadAsShown' /\ KeyAsShown'
  BY <1>1, <1>2 DEF DialogInv, ReadAsShown, KeyAsShown, Given
<1> QED
  BY <1>1, <1>2, <1>4, <1>5 DEF DialogInv

LEMMA ChooseKeeps == ASSUME DialogInv, NEW f \in Keys, ChooseFile(f) PROVE DialogInv'
<1> DEFINE r == [file |-> f, opening |-> dialog.opening, late |-> FALSE]
<1>1. dialog' = [dialog EXCEPT !.keyFile = f] /\ reads' = Late \cup {r} /\ ~Given(dialog.key)
  BY DEF ChooseFile
<1>2. /\ dialog' \in Dialog /\ dialog'.keyFile = f /\ dialog'.key = dialog.key
      /\ dialog'.opening = dialog.opening /\ dialog'.removeKey = dialog.removeKey
  BY <1>1 DEF DialogInv, Dialog
<1>3. r \in Read
  BY DEF DialogInv, Dialog, Read
<1>4. Late \subseteq Read /\ \A x \in Late : x.late
  BY LateReads DEF DialogInv
<1>5. ReadAsShown'
  BY <1>1, <1>2, <1>4 DEF ReadAsShown
<1>6. KeyAsShown' /\ UploadOrRemove'
  BY <1>1, <1>2 DEF KeyAsShown, UploadOrRemove, Given
<1>7. reads' \subseteq Read
  BY <1>1, <1>3, <1>4
<1> QED
  BY <1>2, <1>5, <1>6, <1>7 DEF DialogInv

LEMMA ReadKeeps == ASSUME DialogInv, NEW r \in reads, handleKeyFile(r) PROVE DialogInv'
<1>1. dialog' = [dialog EXCEPT !.key = r, !.removeKey = FALSE] /\ reads' = reads \ {r} /\ r \in Read
  BY DEF handleKeyFile, DialogInv
<1>2. /\ dialog' \in Dialog /\ dialog'.key = r /\ dialog'.removeKey = FALSE
      /\ dialog'.keyFile = dialog.keyFile /\ dialog'.opening = dialog.opening
  BY <1>1 DEF DialogInv, Dialog
<1>3. ReadAsShown'
  BY <1>1, <1>2 DEF DialogInv, ReadAsShown
<1>4. KeyAsShown' /\ UploadOrRemove'
  BY <1>1, <1>2 DEF DialogInv, ReadAsShown, KeyAsShown, UploadOrRemove, Given
<1> QED
  BY <1>1, <1>2, <1>3, <1>4 DEF DialogInv

LEMMA DialogStep == DialogInv /\ [Next]_vars => DialogInv'
<1> SUFFICES ASSUME DialogInv, [Next]_vars PROVE DialogInv'
  OBVIOUS
<1>1. dialog \in Dialog
  BY DEF DialogInv
<1>2. ASSUME UNCHANGED <<dialog, reads>> PROVE DialogInv'
  BY <1>1, <1>2, Apart
<1>3. CASE UNCHANGED vars
  BY <1>2, <1>3 DEF vars, page
<1>4. CASE openCreate
  BY <1>4, OpensKeeps DEF openCreate, EMPTY
<1>5. ASSUME NEW id \in Ids, openEdit(id) PROVE DialogInv'
  BY <1>5, OpensKeeps DEF openEdit
<1>6. ASSUME NEW form \in {"blank", "fine"}, Edit(form) PROVE DialogInv'
  BY <1>1, <1>6, Apart DEF Edit, Dialog
<1>7. CASE Close
  BY <1>1, <1>7, Apart DEF Close, Dialog
<1>8. CASE ClearKey
  BY <1>1, <1>8, Anew DEF ClearKey
<1>9. CASE SaveAnswered
  <2>1. dialog' = dialog \/ dialog' = [dialog EXCEPT !.open = FALSE]
    BY <1>9 DEF SaveAnswered
  <2> QED
    BY <1>1, <1>9, <2>1, Apart DEF SaveAnswered, Dialog
<1>10. ASSUME NEW c \in Callers, Handling(c) PROVE UNCHANGED <<dialog, reads>>
  BY <1>10 DEF Handling, Load, WriteFile, SaveKeyFails, Commit, CommitCreate, Raises, page
<1>11. CASE ListArrives \/ handleSave \/ SaveGoesOn \/ ConfirmDelete \/ Restart
            \/ \E id \in Ids : setDeleteTarget(id) \/ Other(id)
  BY <1>2, <1>11 DEF ListArrives, handleSave, SaveGoesOn, ConfirmDelete, Restart, setDeleteTarget, Other, page
<1> QED
  BY <1>2, <1>3, <1>4, <1>5, <1>6, <1>7, <1>8, <1>9, <1>10, <1>11, RemoveKeeps, ChooseKeeps, ReadKeeps
     DEF Next, Using

LEMMA DialogInvariance == Spec => []DialogInv
BY DialogInit, DialogStep, PTL DEF Spec

-----------------------------------------------------------------------------
(* The requests and their handlers. *)

Call == [step : {"sent", "loaded", "written", "done", "failed"},
         kind : {"create", "update", "delete", "unkey"},
         id : {NoId} \cup Ids, key : {NoKey} \cup Keys, remove : BOOLEAN,
         read : Rows, met : {"no", "early", "late"}, was : {NoKey} \cup Keys]

CallsT == calls = [c \in Callers |-> calls[c]] /\ \A c \in Callers : calls[c] \in {Idle} \cup Call
TableT == rows \in [Ids -> Rows] /\ files \in [Ids -> {NoKey} \cup Keys] /\ astray \subseteq Ids

Known == \A c \in Callers : calls[c] # Idle => RequestOK(calls[c]) /\ UpToDate(calls[c])
Kept == calls["save"] # Idle => PromiseKept(calls["save"])
Consistent == \A id \in Ids : FileAsRow(id)
KInv == CallsT /\ TableT /\ Known /\ Kept /\ Consistent

LEMMA NotIds == NoId \notin Ids /\ Idle \notin Call
<1>1. \A x \in Call : x.step # "idle"
  BY DEF Call
<1> QED
  BY <1>1 DEF NoId, Ids, Idle

LEMMA UsedType == ASSUME TableT, NEW id \in {NoId} \cup Ids PROVE Used(id) \in {NoKey} \cup Keys
BY DEF Used, TableT

LEMMA OvertakenCall ==
  ASSUME NEW x \in Call
  PROVE  /\ Overtaken(x) \in Call /\ Overtaken(x).met # "no"
         /\ x.step # "sent" => Overtaken(x).met = "late"
         /\ Overtaken(x).step = x.step /\ Overtaken(x).kind = x.kind /\ Overtaken(x).id = x.id
         /\ Overtaken(x).key = x.key /\ Overtaken(x).remove = x.remove
         /\ Overtaken(x).read = x.read /\ Overtaken(x).was = x.was
BY DEF Overtaken, Call

LEMMA EndedCall ==
  ASSUME CallsT, NEW c \in Callers, calls[c] # Idle, NEW step \in {"done", "failed"}
  PROVE  /\ Ended(c, step) \in {Idle} \cup Call
         /\ c # "save" => Ended(c, step) = Idle
         /\ c = "save" => /\ Ended(c, step) \in Call /\ Ended(c, step).step = step
                          /\ Ended(c, step).kind = calls[c].kind /\ Ended(c, step).id = calls[c].id
                          /\ Ended(c, step).key = calls[c].key /\ Ended(c, step).remove = calls[c].remove
                          /\ Ended(c, step).met = calls[c].met /\ Ended(c, step).was = calls[c].was
<1>1. calls[c] \in Call
  BY DEF CallsT
<1> QED
  BY <1>1 DEF Ended, Call

\* A step that changes one request only, and nothing of the table and the files.
LEMMA OneCall ==
  ASSUME KInv, UNCHANGED <<rows, files, astray>>, NEW c \in Callers, NEW x \in {Idle} \cup Call,
         calls' = [calls EXCEPT ![c] = x], ~At(c, "written"),
         x # Idle => RequestOK(x) /\ UpToDate(x) /\ (c = "save" => PromiseKept(x))
  PROVE  KInv'
<1>1. calls'[c] = x /\ \A d \in Callers \ {c} : calls'[d] = calls[d]
  BY DEF KInv, CallsT
<1>2. CallsT' /\ TableT'
  BY <1>1 DEF KInv, CallsT, TableT, Call
<1>3. Known'
  BY <1>1 DEF KInv, Known, RequestOK, UpToDate, Changes, OnDisk
<1>4. Kept'
  <2>1. CASE c = "save"
    BY <1>1, <2>1 DEF Kept, PromiseKept, Used, Promised, Second, Changes
  <2>2. CASE c # "save"
    BY <1>1, <2>2 DEF Kept, KInv, PromiseKept, Used, Promised, Second, Changes, Callers
  <2> QED
    BY <2>1, <2>2
<1>5. ASSUME NEW id \in Ids PROVE FileAsRow(id)'
  <2>1. Committing(id) \subseteq Committing(id)'
    BY <1>1 DEF Committing, At, Changes
  <2> QED
    BY <1>5, <2>1 DEF KInv, Consistent, FileAsRow
<1> QED
  BY <1>2, <1>3, <1>4, <1>5 DEF KInv, Consistent

\* A handler acts on a node: what the other requests know, and what holds of other nodes.
LEMMA ActsOn ==
  ASSUME KInv, NEW c \in Callers, NEW id \in Ids, NEW x \in {Idle} \cup Call, Acts(c, id, x),
         calls[c].id \in {NoId, id}, x # Idle => x.id = id, calls[c] # Idle,
         \A j \in Ids \ {id} : rows'[j] = rows[j] /\ files'[j] = files[j] /\ (j \in astray => j \in astray')
  PROVE  /\ CallsT' /\ calls'[c] = x
         /\ \A d \in Callers \ {c} : calls'[d] # Idle => RequestOK(calls'[d]) /\ UpToDate(calls[d])' 
         /\ c # "save" => Kept'
         /\ \A j \in Ids \ {id} : FileAsRow(j)'
         /\ \A d \in Callers \ {c} : d \in Committing(id)' <=> d \in Committing(id)
<1>1. /\ calls'[c] = x
      /\ \A d \in Callers \ {c} : calls'[d] = IF d \in On(id) THEN Overtaken(calls[d]) ELSE calls[d]
      /\ calls' = [d \in Callers |-> calls'[d]]
  BY DEF Acts
<1>2. \A d \in Callers : d \in On(id) => calls[d] \in Call /\ calls[d].id = id
  BY DEF On, KInv, CallsT
<1>3. CallsT'
  BY <1>1, <1>2, OvertakenCall DEF KInv, CallsT, Call
<1>4. ASSUME NEW d \in Callers \ {c}, calls'[d] # Idle PROVE RequestOK(calls'[d]) /\ UpToDate(calls[d])'
  <2>1. CASE d \in On(id)
    <3>1. RequestOK(calls[d]) /\ UpToDate(calls[d]) /\ calls[d] \in Call
      BY <1>2, <2>1 DEF KInv, Known, On
    <3>2. calls'[d] = Overtaken(calls[d])
      BY <1>1, <1>4, <2>1
    <3> QED
      BY <3>1, <3>2, OvertakenCall DEF RequestOK, UpToDate
  <2>2. CASE d \notin On(id)
    <3>1. calls'[d] = calls[d] /\ calls[d] # Idle /\ calls[d].id # id
      BY <1>1, <1>4, <2>2 DEF On
    <3>2. RequestOK(calls[d]) /\ UpToDate(calls[d])
      BY <3>1 DEF KInv, Known
    <3> QED
      BY <3>1, <3>2 DEF RequestOK, UpToDate, OnDisk, Changes
  <2> QED
    BY <2>1, <2>2
<1>5. ASSUME c # "save" PROVE Kept'
  <2> SUFFICES ASSUME calls'["save"] # Idle PROVE PromiseKept(calls["save"])'
    BY DEF Kept
  <2> DEFINE y == calls["save"]
  <2>1. "save" \in Callers \ {c}
    BY <1>5 DEF Callers
  <2>2. CASE "save" \in On(id)
    <3>1. y \in Call /\ PromiseKept(y)
      BY <1>2, <2>1, <2>2 DEF KInv, Kept, On
    <3>2. calls'["save"] = Overtaken(y)
      BY <1>1, <2>1, <2>2
    <3> QED
      BY <3>1, <3>2, OvertakenCall DEF PromiseKept
  <2>3. CASE "save" \notin On(id)
    <3>1. calls'["save"] = y /\ y # Idle /\ y.id # id
      BY <1>1, <2>1, <2>3 DEF On
    <3>2. PromiseKept(y) /\ y \in Call
      BY <2>1, <3>1 DEF KInv, Kept, CallsT
    <3>3. (y.id = NoId \/ (rows'[y.id] = rows[y.id] /\ files'[y.id] = files[y.id])) /\ calls'["save"] = calls["save"]
      BY <3>1, <3>2 DEF Call
    <3> QED
      BY <3>2, <3>3 DEF PromiseKept, Used, Promised, Second, Changes
  <2> QED
    BY <2>2, <2>3
<1>6. ASSUME NEW d \in Callers \ {c}, NEW j \in Ids PROVE d \in Committing(j)' <=> d \in Committing(j)
  <2>1. CASE d \in On(id)
    BY <1>1, <1>2, <1>6, <2>1, OvertakenCall DEF Committing, At, Changes
  <2>2. CASE d \notin On(id)
    BY <1>1, <1>6, <2>2 DEF Committing, At, Changes
  <2> QED
    BY <2>1, <2>2
<1>7. ASSUME NEW j \in Ids \ {id} PROVE FileAsRow(j)'
  <2>1. c \notin Committing(j)
    BY <1>7, NotIds DEF Committing
  <2>2. Committing(j) \subseteq Committing(j)'
    BY <1>6, <1>7, <2>1 DEF Committing
  <2> QED
    BY <1>7, <2>2 DEF KInv, Consistent, FileAsRow
<1> QED
  BY <1>1, <1>3, <1>4, <1>5, <1>6, <1>7

LEMMA IdleIsIdle == ASSUME NEW id PROVE [Idle EXCEPT !.id = id] = Idle
<1>1. Idle = [y \in {"step"} |-> "idle"]
  BY DEF Idle
<1>2. [[y \in {"step"} |-> "idle"] EXCEPT !["id"] = id] = [y \in {"step"} |-> "idle"]
  OBVIOUS
<1> QED
  BY <1>1, <1>2

\* What is left to show of a handler that acted.
LEMMA Acted ==
  ASSUME KInv, NEW c \in Callers, NEW id \in Ids, NEW x \in {Idle} \cup Call, Acts(c, id, x),
         calls[c].id \in {NoId, id}, x # Idle => x.id = id, calls[c] # Idle,
         \A j \in Ids \ {id} : rows'[j] = rows[j] /\ files'[j] = files[j] /\ (j \in astray => j \in astray'),
         TableT', FileAsRow(id)',
         x # Idle => RequestOK(x) /\ UpToDate(calls[c])' /\ (c = "save" => PromiseKept(calls[c])')
  PROVE  KInv'
<1>1. CallsT' /\ calls'[c] = x
  BY ActsOn
<1>2. \A d \in Callers \ {c} : calls'[d] # Idle => RequestOK(calls'[d]) /\ UpToDate(calls[d])'
  BY ActsOn
<1>3. (c # "save" => Kept') /\ \A j \in Ids \ {id} : FileAsRow(j)'
  BY ActsOn
<1>4. Known'
  BY <1>1, <1>2 DEF Known, RequestOK
<1>5. Kept'
  BY <1>1, <1>3 DEF Kept
<1>6. Consistent'
  BY <1>3 DEF Consistent
<1> QED
  BY <1>1, <1>4, <1>5, <1>6 DEF KInv

\* A handler at work is about a node that has an id.
LEMMA AtWorkCall ==
  ASSUME KInv, NEW c \in Callers, At(c, "loaded") \/ At(c, "written")
  PROVE  /\ calls[c] \in Call /\ calls[c] # Idle /\ calls[c].id \in Ids
         /\ RequestOK(calls[c]) /\ UpToDate(calls[c]) /\ (c = "save" => PromiseKept(calls[c]))
<1>1. calls[c] # Idle
  BY DEF At, Idle
<1>2. calls[c] \in Call /\ RequestOK(calls[c]) /\ UpToDate(calls[c])
  BY <1>1 DEF KInv, CallsT, Known
<1> QED
  BY <1>1, <1>2 DEF RequestOK, At, KInv, Kept

\* A request that failed claims nothing.
LEMMA FailedCall ==
  ASSUME KInv, NEW c \in Callers, calls[c] # Idle, Ended(c, "failed") # Idle
  PROVE  LET x == Ended(c, "failed")
         IN RequestOK(x) /\ UpToDate(x) /\ PromiseKept(x) /\ x \in Call /\ c = "save" /\ x.id = calls[c].id
<1> DEFINE x == Ended(c, "failed")
<1>1. /\ c = "save" /\ x \in Call /\ x.step = "failed" /\ x.kind = calls[c].kind /\ x.id = calls[c].id
      /\ x.key = calls[c].key /\ x.remove = calls[c].remove
  BY EndedCall DEF KInv
<1>2. RequestOK(calls[c]) /\ PromiseKept(calls[c]) /\ calls[c] \in Call
  BY <1>1 DEF KInv, Known, Kept, CallsT
<1> HIDE DEF x
<1>3. RequestOK(x)
  BY <1>1, <1>2, NotIds DEF RequestOK, Call
<1>4. UpToDate(x) /\ PromiseKept(x)
  BY <1>1, <1>2 DEF UpToDate, PromiseKept
<1> QED
  BY <1>1, <1>3, <1>4 DEF x

LEMMA FailedStays ==
  ASSUME NEW c, NEW x, calls'[c] = x, x.step = "failed", UpToDate(x), PromiseKept(x)
  PROVE  UpToDate(calls[c])' /\ PromiseKept(calls[c])'
BY DEF UpToDate, PromiseKept, Changes, Second

LEMMA LoadKeeps == ASSUME KInv, NEW c \in Callers, Load(c) PROVE KInv'
<1> DEFINE y == calls[c]
           x == IF rows[y.id] = "gone" THEN Ended(c, "failed")
                ELSE [y EXCEPT !.step = "loaded", !.read = rows[y.id]]
<1>1. /\ y.step = "sent" /\ y.kind # "create" /\ calls' = [calls EXCEPT ![c] = x]
      /\ UNCHANGED <<rows, files, astray>>
  BY DEF Load, At, server
<1>2. y # Idle
  BY <1>1 DEF Idle
<1>3. y \in Call /\ RequestOK(y) /\ (c = "save" => PromiseKept(y))
  BY <1>2 DEF KInv, CallsT, Known, Kept
<1>4. y.id \in Ids
  BY <1>1, <1>3 DEF RequestOK
<1>5. CASE rows[y.id] = "gone"
  BY <1>1, <1>2, <1>5, EndedCall, FailedCall, OneCall DEF KInv, At
<1>6. CASE rows[y.id] # "gone"
  <2>1. x = [y EXCEPT !.step = "loaded", !.read = rows[y.id]]
    BY <1>6
  <2>2. rows[y.id] \in Rows
    BY <1>4 DEF KInv, TableT
  <2>3. /\ x \in Call /\ x.step = "loaded" /\ x.read = rows[y.id] /\ x.kind = y.kind /\ x.id = y.id
        /\ x.key = y.key /\ x.remove = y.remove /\ x.met = y.met /\ x.was = y.was
    BY <1>3, <2>1, <2>2 DEF Call
  <2> HIDE DEF x
  <2>4. RequestOK(x) /\ UpToDate(x)
    BY <1>1, <1>3, <1>4, <1>6, <2>3 DEF RequestOK, UpToDate
  <2>5. c = "save" => PromiseKept(x)
    BY <1>1, <1>3, <2>3 DEF PromiseKept
  <2> QED
    BY <1>1, <2>3, <2>4, <2>5, OneCall DEF At
<1> QED
  BY <1>5, <1>6

LEMMA DiskType == ASSUME NEW x \in Call, NEW old \in {NoKey} \cup Keys PROVE OnDisk(x, old) \in {NoKey} \cup Keys
BY DEF OnDisk, Call

LEMMA WriteKeeps == ASSUME KInv, NEW c \in Callers, NEW id, id = calls[c].id, WriteFile(c) PROVE KInv'
<1> DEFINE y == calls[c]
           x == [y EXCEPT !.step = "written"]
<1>1. y.step = "loaded" /\ UNCHANGED rows
  BY DEF WriteFile, At
<1>2. /\ y \in Call /\ y # Idle /\ id \in Ids /\ RequestOK(y) /\ UpToDate(y)
      /\ (c = "save" => PromiseKept(y))
  BY <1>1, AtWorkCall DEF At
<1>3. CASE y.kind = "create" /\ rows[id] = "gone"
  <2>1. calls' = [calls EXCEPT ![c] = Ended(c, "failed")] /\ UNCHANGED <<rows, files, astray>>
    BY <1>3 DEF WriteFile
  <2> QED
    BY <1>1, <1>2, <2>1, EndedCall, FailedCall, OneCall DEF KInv, At
<1>4. CASE ~(y.kind = "create" /\ rows[id] = "gone")
  <2>1. /\ files' = [files EXCEPT ![id] = OnDisk(y, @)] /\ Acts(c, id, x) /\ astray' = Unread(y, id)
    BY <1>4 DEF WriteFile
  <2>2. /\ x \in Call /\ x.step = "written" /\ x.read = y.read /\ x.kind = y.kind /\ x.id = id
        /\ x.key = y.key /\ x.remove = y.remove /\ x.met = y.met /\ x.was = y.was
    BY <1>2 DEF Call
  <2>3. files[id] \in {NoKey} \cup Keys /\ OnDisk(y, files[id]) \in {NoKey} \cup Keys
    BY <1>2, DiskType DEF KInv, TableT
  <2>4. files'[id] = OnDisk(y, files[id]) /\ \A j \in Ids \ {id} : files'[j] = files[j]
    BY <1>2, <2>1 DEF KInv, TableT
  <2>5. astray \subseteq astray' /\ astray' \subseteq Ids
    BY <1>2, <2>1 DEF Unread, KInv, TableT
  <2>6. TableT'
    BY <1>1, <2>1, <2>3, <2>5 DEF KInv, TableT
  <2> HIDE DEF x
  <2>7. /\ CallsT' /\ calls'[c] = x
        /\ \A d \in Callers \ {c} : d \in Committing(id)' <=> d \in Committing(id)
    BY <1>1, <1>2, <2>1, <2>2, <2>4, <2>5, ActsOn
  <2>8. Changes(y) => OnDisk(y, files[id]) = OnDisk(x, NoKey)
    BY <1>1, <1>2, <2>2 DEF OnDisk, Changes, RequestOK, Call
  <2>9. ~Changes(y) => OnDisk(y, files[id]) = files[id]
    BY DEF OnDisk, Changes
  <2>10. RequestOK(x)
    BY <1>1, <1>2, <2>2 DEF RequestOK
  <2>11. UpToDate(calls[c])'
    BY <1>1, <1>2, <2>2, <2>4, <2>7, <2>8 DEF UpToDate, Changes, OnDisk
  <2>12. c = "save" => PromiseKept(calls[c])'
    <3> SUFFICES ASSUME c = "save" PROVE PromiseKept(calls[c])'
      OBVIOUS
    <3>1. PromiseKept(y)
      BY <1>2
    <3>2. ~Changes(y) /\ y.met = "no" => Used(id) = y.was /\ Used(id)' = Used(id)
      BY <1>1, <1>2, <2>4, <2>9, <3>1 DEF PromiseKept, Used, Changes
    <3> QED
      BY <1>1, <2>2, <2>7, <3>1, <3>2 DEF PromiseKept, Used, Changes
  <2>13. FileAsRow(id)'
    <3>1. CASE Changes(y)
      <4>1. c \in Committing(id)'
        BY <2>2, <2>7, <3>1 DEF Committing, At, Changes
      <4> QED
        BY <4>1 DEF FileAsRow
    <3>2. CASE ~Changes(y)
      <4>1. Committing(id) \subseteq Committing(id)'
        BY <1>1, <2>7 DEF Committing, At
      <4>2. FileAsRow(id)
        BY <1>2 DEF KInv, Consistent
      <4> QED
        BY <1>1, <2>4, <2>5, <2>9, <3>2, <4>1, <4>2 DEF FileAsRow
    <3> QED
      BY <3>1, <3>2
  <2> QED
    BY <1>1, <1>2, <2>1, <2>2, <2>4, <2>5, <2>6, <2>10, <2>11, <2>12, <2>13, Acted
<1> QED
  BY <1>3, <1>4

LEMMA SaveFailsKeeps == ASSUME KInv, NEW c \in Callers, NEW id, id = calls[c].id, SaveKeyFails(c) PROVE KInv'
<1> DEFINE y == calls[c]
           x == Ended(c, "failed")
<1>1. y.step = "loaded" /\ UNCHANGED rows /\ OnDisk(y, NoKey) # NoKey /\ Acts(c, id, x)
      /\ \/ files' = files /\ astray' = astray
         \/ files' = [files EXCEPT ![id] = y.key] /\ astray' = astray \cup {id}
  BY DEF SaveKeyFails, At
<1>2. y \in Call /\ y # Idle /\ id \in Ids
  BY <1>1, AtWorkCall DEF At
<1>3. x \in {Idle} \cup Call
  BY <1>2, EndedCall DEF KInv
<1>4. x # Idle => RequestOK(x) /\ UpToDate(x) /\ PromiseKept(x) /\ c = "save" /\ x.id = id /\ x.step = "failed"
  BY <1>2, FailedCall, EndedCall DEF KInv
<1>5. \A j \in Ids \ {id} : rows'[j] = rows[j] /\ files'[j] = files[j] /\ (j \in astray => j \in astray')
  BY <1>1 DEF KInv, TableT
<1>6. y.key \in {NoKey} \cup Keys
  BY <1>2 DEF Call
<1>7. TableT'
  BY <1>1, <1>2, <1>6 DEF KInv, TableT
<1> HIDE DEF x
<1>8. calls'[c] = x /\ \A d \in Callers \ {c} : d \in Committing(id)' <=> d \in Committing(id)
  BY <1>1, <1>2, <1>3, <1>4, <1>5, ActsOn
<1>9. x # Idle => UpToDate(calls[c])' /\ PromiseKept(calls[c])'
  BY <1>4, <1>8, FailedStays
<1>10. FileAsRow(id)'
  <2>1. Committing(id) \subseteq Committing(id)'
    BY <1>1, <1>8 DEF Committing, At
  <2>2. FileAsRow(id)
    BY <1>2 DEF KInv, Consistent
  <2> QED
    BY <1>1, <2>1, <2>2 DEF FileAsRow
<1> QED
  BY <1>1, <1>2, <1>3, <1>4, <1>5, <1>7, <1>9, <1>10, Acted

LEMMA CommitKeeps == ASSUME KInv, NEW c \in Callers, NEW id, id = calls[c].id, Commit(c) PROVE KInv'
<1> DEFINE y == calls[c]
<1>1. y.step = "written" /\ UNCHANGED files
  BY DEF Commit, At
<1>2. /\ y \in Call /\ y # Idle /\ id \in Ids /\ RequestOK(y) /\ UpToDate(y)
      /\ (c = "save" => PromiseKept(y))
  BY <1>1, AtWorkCall DEF At
<1>3. y.read # "gone" /\ (y.met # "late" => rows[id] = y.read /\ (Changes(y) => files[id] = OnDisk(y, NoKey)))
  BY <1>1, <1>2 DEF UpToDate
<1>4. astray' = IF Settles(y) THEN astray \ {id} ELSE Unread(y, id)
  BY DEF Commit
<1>5. astray' \subseteq Ids /\ \A j \in Ids \ {id} : j \in astray => j \in astray'
  BY <1>2, <1>4 DEF Unread, KInv, TableT
<1>6. y.met = "late" => id \in astray'
  BY <1>4 DEF Settles, Unread
<1>7. CASE Missed(y)
  <2> DEFINE x == Ended(c, "failed")
  <2>1. Acts(c, id, x) /\ UNCHANGED rows
    BY <1>7 DEF Commit
  <2>2. x \in {Idle} \cup Call
    BY <1>2, EndedCall DEF KInv
  <2>3. x # Idle => RequestOK(x) /\ UpToDate(x) /\ PromiseKept(x) /\ c = "save" /\ x.id = id /\ x.step = "failed"
    BY <1>2, FailedCall, EndedCall DEF KInv
  <2>4. TableT'
    BY <1>1, <1>5, <2>1 DEF KInv, TableT
  <2> HIDE DEF x
  <2>5. calls'[c] = x
    BY <1>1, <1>2, <1>5, <2>1, <2>2, <2>3, ActsOn
  <2>6. x # Idle => UpToDate(calls[c])' /\ PromiseKept(calls[c])'
    BY <2>3, <2>5, FailedStays
  <2>7. FileAsRow(id)'
    BY <1>3, <1>6, <1>7 DEF FileAsRow, Missed
  <2> QED
    BY <1>1, <1>2, <1>5, <2>1, <2>2, <2>3, <2>4, <2>6, <2>7, Acted
<1>8. CASE ~Missed(y)
  <2> PICK answer \in {"done", "failed"} : Acts(c, id, Ended(c, answer))
    BY <1>8 DEF Commit, Answers
  <2> DEFINE x == Ended(c, answer)
  <2>1. Acts(c, id, x) /\ rows' = [rows EXCEPT ![id] = NewRow(y, @)]
    BY <1>8 DEF Commit
  <2>2. rows'[id] = NewRow(y, rows[id]) /\ \A j \in Ids \ {id} : rows'[j] = rows[j]
    BY <1>2, <2>1 DEF KInv, TableT
  <2>3. NewRow(y, rows[id]) \in Rows
    BY <1>2 DEF NewRow, Rows, KInv, TableT
  <2>4. TableT'
    BY <1>1, <1>5, <2>1, <2>3 DEF KInv, TableT
  <2>5. x \in {Idle} \cup Call /\ (c # "save" => x = Idle)
        /\ (c = "save" => /\ x \in Call /\ x.step = answer /\ x.kind = y.kind /\ x.id = id /\ x.key = y.key
                          /\ x.remove = y.remove /\ x.met = y.met /\ x.was = y.was)
    BY <1>2, EndedCall DEF KInv
  <2> HIDE DEF x
  <2>6. /\ calls'[c] = x
        /\ \A d \in Callers \ {c} : d \in Committing(id)' <=> d \in Committing(id)
    BY <1>1, <1>2, <1>5, <2>1, <2>2, <2>5, ActsOn
  <2>7. y.met # "late" /\ Changes(y) => /\ rows'[id] = "keyed" <=> files[id] # NoKey
                                        /\ rows'[id] = "keyed" <=> y.kind \notin {"delete", "unkey"}
                                        /\ y.kind \notin {"delete", "unkey"} => files[id] = y.key
    <3> SUFFICES ASSUME y.met # "late", Changes(y)
                 PROVE  /\ rows'[id] = "keyed" <=> files[id] # NoKey
                        /\ rows'[id] = "keyed" <=> y.kind \notin {"delete", "unkey"}
                        /\ y.kind \notin {"delete", "unkey"} => files[id] = y.key
      OBVIOUS
    <3>1. rows[id] = y.read /\ files[id] = OnDisk(y, NoKey) /\ y.read \in {"plain", "keyed"}
      BY <1>2, <1>3 DEF Call, Rows
    <3>2. CASE y.kind \in {"delete", "unkey"}
      <4>1. files[id] = NoKey
        BY <3>1, <3>2 DEF OnDisk
      <4>2. rows'[id] # "keyed"
        BY <2>2, <3>1, <3>2 DEF NewRow
      <4> QED
        BY <3>2, <4>1, <4>2
    <3>3. CASE y.kind \notin {"delete", "unkey"}
      <4>1. y.kind \in {"create", "update"} /\ y.key # NoKey
        BY <1>1, <1>2, <3>3 DEF Call, Changes, RequestOK
      <4>2. files[id] = y.key
        BY <3>1, <4>1 DEF OnDisk
      <4>3. rows'[id] = "keyed"
        BY <2>2, <3>1, <4>1 DEF NewRow
      <4> QED
        BY <3>3, <4>1, <4>2, <4>3
    <3> QED
      BY <3>2, <3>3
  <2>8. ~Changes(y) => rows'[id] = rows[id] /\ y.key = NoKey /\ y.kind = "update"
    BY <1>2, <2>2 DEF NewRow, Changes
  <2>9. FileAsRow(id)'
    <3>1. CASE y.met # "late" /\ Changes(y)
      BY <1>1, <2>7, <3>1 DEF FileAsRow
    <3>2. CASE y.met = "late"
      BY <1>6, <3>2 DEF FileAsRow
    <3>3. CASE y.met # "late" /\ ~Changes(y)
      <4>1. astray' = astray
        BY <1>4, <3>3 DEF Settles, Unread, Changes
      <4>2. Committing(id) \subseteq Committing(id)'
        BY <2>6, <3>3 DEF Committing, At
      <4>3. FileAsRow(id)
        BY <1>2 DEF KInv, Consistent
      <4> QED
        BY <1>1, <2>8, <3>3, <4>1, <4>2, <4>3 DEF FileAsRow
    <3> QED
      BY <3>1, <3>2, <3>3
  <2>10. c = "save" => RequestOK(x) /\ UpToDate(calls[c])'
    BY <1>2, <2>5, <2>6 DEF RequestOK, UpToDate
  <2>11. c = "save" => PromiseKept(calls[c])'
    <3> SUFFICES ASSUME c = "save" PROVE PromiseKept(calls[c])'
      OBVIOUS
    <3>1. PromiseKept(y) /\ y.kind \in {"create", "update", "unkey"} /\ (y.remove => y.key = NoKey /\ y.kind # "create") /\ (y.kind = "unkey" => y.remove)
      BY <1>2 DEF PromiseKept
    <3>2. id # NoId
      BY <1>2, NotIds
    <3>3. ASSUME y.met = "no", ~Second(y) PROVE Used(id)' = Promised(y)
      <4>1. CASE Changes(y)
        BY <1>1, <2>7, <3>1, <3>2, <3>3, <4>1 DEF Used, Promised, Changes, Second
      <4>2. CASE ~Changes(y)
        <5>1. Used(id) = y.was /\ y.key = NoKey /\ ~y.remove
          BY <1>1, <2>8, <3>1, <3>3, <4>2 DEF PromiseKept, Second
        <5> QED
          BY <1>1, <2>8, <4>2, <5>1 DEF Used, Promised
      <4> QED
        BY <4>1, <4>2
    <3> QED
      BY <2>5, <2>6, <3>1, <3>3 DEF PromiseKept, Used, Promised, Second
  <2> QED
    BY <1>1, <1>2, <1>5, <2>1, <2>2, <2>4, <2>5, <2>9, <2>10, <2>11, Acted
<1> QED
  BY <1>7, <1>8

LEMMA CreateKeeps == ASSUME KInv, NEW c \in Callers, NEW id \in Ids, CommitCreate(c, id) PROVE KInv'
<1> PICK answer \in {"done", "failed"} :
           Acts(c, id, [IF calls[c].key = NoKey THEN Ended(c, answer)
                        ELSE [calls[c] EXCEPT !.step = "loaded", !.read = "plain"] EXCEPT !.id = id])
  BY DEF CommitCreate, Answers
<1> DEFINE y == calls[c]
           x0 == IF y.key = NoKey THEN Ended(c, answer) ELSE [y EXCEPT !.step = "loaded", !.read = "plain"]
           x == [x0 EXCEPT !.id = id]
<1>1. /\ y.step = "sent" /\ y.kind = "create" /\ rows' = [rows EXCEPT ![id] = "plain"] /\ UNCHANGED <<files, astray>>
      /\ Acts(c, id, x) /\ \A i \in Ids : rows[i] # "gone" => i < id
  BY DEF CommitCreate, At
<1>2. y # Idle
  BY <1>1 DEF Idle
<1>3. y \in Call /\ RequestOK(y) /\ (c = "save" => PromiseKept(y)) /\ y.id = NoId
  BY <1>1, <1>2 DEF KInv, CallsT, Known, Kept, RequestOK
<1>4. rows[id] = "gone"
  BY <1>1 DEF Ids
<1>5. rows'[id] = "plain" /\ (\A j \in Ids \ {id} : rows'[j] = rows[j]) /\ TableT'
  BY <1>1 DEF KInv, TableT, Rows
<1>6. x = Idle \/ /\ x \in Call /\ x.kind = "create" /\ x.id = id /\ x.key = y.key /\ x.remove = y.remove
                  /\ x.met = y.met /\ x.was = y.was
                  /\ IF y.key = NoKey THEN c = "save" /\ x.step = answer ELSE x.step = "loaded" /\ x.read = "plain"
  <2>1. CASE y.key # NoKey
    BY <1>1, <1>3, <2>1 DEF Call, Rows
  <2>2. CASE y.key = NoKey /\ c = "save"
    <3>1. x0 \in Call /\ x0.step = answer /\ x0.kind = "create" /\ x0.key = y.key /\ x0.remove = y.remove
          /\ x0.met = y.met /\ x0.was = y.was
      BY <1>1, <1>2, <2>2, EndedCall DEF KInv
    <3> HIDE DEF x0
    <3> QED
      BY <2>2, <3>1 DEF Call
  <2>3. CASE y.key = NoKey /\ c # "save"
    BY <1>2, <2>3, EndedCall, IdleIsIdle DEF KInv
  <2> QED
    BY <2>1, <2>2, <2>3
<1> HIDE DEF x, x0
<1>7. /\ calls'[c] = x
      /\ \A d \in Callers \ {c} : d \in Committing(id)' <=> d \in Committing(id)
  BY <1>1, <1>2, <1>3, <1>5, <1>6, ActsOn
<1>8. FileAsRow(id)'
  <2>1. Committing(id) \subseteq Committing(id)'
    BY <1>1, <1>7 DEF Committing, At
  <2>2. FileAsRow(id)
    BY DEF KInv, Consistent
  <2> QED
    BY <1>1, <1>4, <1>5, <2>1, <2>2 DEF FileAsRow
<1>9. x # Idle => RequestOK(x) /\ UpToDate(calls[c])'
  BY <1>5, <1>6, <1>7 DEF RequestOK, UpToDate
<1>10. c = "save" /\ x # Idle => PromiseKept(calls[c])'
  <2> SUFFICES ASSUME c = "save", x # Idle PROVE PromiseKept(calls[c])'
    OBVIOUS
  <2>1. Used(id)' = NoKey
    BY <1>5 DEF Used
  <2>2. y.met = "no" => y.was = NoKey
    BY <1>1, <1>3 DEF PromiseKept, Used
  <2>3. ~y.remove /\ y.remove \in BOOLEAN
    BY <1>1, <1>3 DEF PromiseKept, Call
  <2> QED
    BY <1>6, <1>7, <2>1, <2>2, <2>3 DEF PromiseKept, Promised, Changes, Used
<1> QED
  BY <1>1, <1>2, <1>3, <1>5, <1>6, <1>8, <1>9, <1>10, Acted

\* A handler that is cut off leaves what it did; behind the file, file and row are as it
\* made them and read it, or another handler acted on the node.
LEMMA RaisesKeeps == ASSUME KInv, NEW c \in Callers, Raises(c) PROVE KInv'
<1> DEFINE y == calls[c]
           x == Ended(c, "failed")
<1>1. /\ y.step \in {"sent", "loaded", "written"} /\ calls' = [calls EXCEPT ![c] = x]
      /\ UNCHANGED <<rows, files>>
      /\ astray' = IF y.step = "written" /\ Lacks(y) THEN astray \cup {y.id} ELSE astray
  BY DEF Raises, server
<1>2. y # Idle
  BY <1>1 DEF Idle
<1>3. x \in {Idle} \cup Call /\ (x # Idle => RequestOK(x) /\ UpToDate(x) /\ PromiseKept(x))
  BY <1>2, EndedCall, FailedCall DEF KInv
<1>4. CASE y.step # "written"
  BY <1>1, <1>3, <1>4, OneCall DEF At
<1>5. CASE y.step = "written"
  <2>1. y \in Call /\ y.id \in Ids /\ RequestOK(y) /\ UpToDate(y)
    BY <1>5, AtWorkCall DEF At
  <2> HIDE DEF x
  <2>2. calls'[c] = x /\ \A d \in Callers \ {c} : calls'[d] = calls[d]
    BY <1>1 DEF KInv, CallsT
  <2>3. CallsT' /\ TableT'
    BY <1>1, <1>3, <2>1, <2>2 DEF KInv, CallsT, TableT, Call
  <2>4. Known'
    BY <1>1, <1>3, <2>2 DEF KInv, Known, RequestOK, UpToDate, Changes, OnDisk
  <2>5. Kept'
    <3>1. CASE c = "save"
      BY <1>1, <1>3, <2>2, <3>1 DEF Kept, PromiseKept, Used, Promised, Second, Changes
    <3>2. CASE c # "save"
      BY <1>1, <2>2, <3>2 DEF Kept, KInv, PromiseKept, Used, Promised, Second, Changes, Callers
    <3> QED
      BY <3>1, <3>2
  <2>6. ASSUME NEW id \in Ids PROVE FileAsRow(id)'
    <3>1. \A d \in Callers \ {c} : d \in Committing(id) => d \in Committing(id)'
      BY <2>2 DEF Committing, At, Changes
    <3>2. FileAsRow(id) /\ (id \in astray => id \in astray')
      BY <1>1 DEF KInv, Consistent
    <3>3. CASE c \notin Committing(id)
      <4>1. Committing(id) \subseteq Committing(id)'
        BY <3>1, <3>3 DEF Committing
      <4> QED
        BY <1>1, <3>2, <4>1 DEF FileAsRow
    <3>4. CASE c \in Committing(id)
      <4>1. y.id = id /\ Changes(y)
        BY <3>4 DEF Committing
      <4>2. CASE Lacks(y)
        BY <1>1, <1>5, <4>1, <4>2 DEF FileAsRow
      <4>3. CASE ~Lacks(y)
        <5>1. y.read # "gone" /\ rows[id] = y.read /\ files[id] = OnDisk(y, NoKey)
              /\ NewRow(y, y.read) = y.read
          BY <1>5, <2>1, <4>1, <4>3 DEF UpToDate, Lacks
        <5>2. CASE y.kind \in {"delete", "unkey"}
          BY <1>1, <5>1, <5>2 DEF FileAsRow, OnDisk, NewRow
        <5>3. CASE y.kind \in {"create", "update"}
          <6>1. y.key # NoKey
            BY <1>5, <2>1, <4>1, <5>3 DEF Changes, RequestOK
          <6>2. files[id] # NoKey /\ rows[id] = "keyed"
            BY <2>1, <5>1, <5>3, <6>1 DEF OnDisk, NewRow, Call, Rows
          <6> QED
            BY <1>1, <6>2 DEF FileAsRow
        <5> QED
          BY <2>1, <5>2, <5>3 DEF Call
      <4> QED
        BY <4>2, <4>3
    <3> QED
      BY <3>3, <3>4
  <2> QED
    BY <2>3, <2>4, <2>5, <2>6 DEF KInv, Consistent
<1> QED
  BY <1>4, <1>5

\* The end of the process leaves files without their commit, whose ids are noted.
LEMMA RestartKeeps == ASSUME KInv, Restart PROVE KInv'
<1> DEFINE x(c) == IF At(c, "idle") \/ At(c, "done") THEN calls[c] ELSE Ended(c, "failed")
<1>1. /\ astray' = astray \cup {calls[c].id : c \in {d \in Callers : At(d, "written")}}
      /\ calls' = [c \in Callers |-> x(c)] /\ UNCHANGED <<rows, files>>
  BY DEF Restart, server
<1>2. ASSUME NEW c \in Callers, At(c, "written") PROVE calls[c].id \in Ids
  BY <1>2, AtWorkCall
<1>3. TableT'
  BY <1>1, <1>2 DEF KInv, TableT
<1>4. ASSUME NEW c \in Callers
      PROVE  /\ x(c) \in {Idle} \cup Call
             /\ x(c) # Idle => /\ RequestOK(x(c)) /\ UpToDate(x(c)) /\ (c = "save" => PromiseKept(x(c)))
                               /\ x(c).step \in {"done", "failed"}
  <2>1. CASE calls[c] = Idle
    BY <2>1 DEF At, Idle
  <2>2. CASE calls[c] # Idle /\ At(c, "done")
    BY <2>2 DEF KInv, CallsT, Known, Kept, At
  <2>3. CASE calls[c] # Idle /\ ~At(c, "done")
    <3>1. calls[c] \in Call
      BY <2>3 DEF KInv, CallsT
    <3>2. ~At(c, "idle")
      BY <3>1 DEF At, Call
    <3> QED
      BY <2>3, <3>2, EndedCall, FailedCall DEF KInv
  <2> QED
    BY <2>1, <2>2, <2>3
<1> HIDE DEF x
<1>5. \A c \in Callers : calls'[c] = x(c)
  BY <1>1
<1>6. CallsT'
  BY <1>1, <1>4, <1>5 DEF CallsT, Call
<1>7. Known'
  BY <1>4, <1>5 DEF Known, RequestOK, UpToDate
<1>8. Kept'
  BY <1>1, <1>4, <1>5 DEF Kept, PromiseKept, Used, Promised, Second, Changes, Callers
<1>9. ASSUME NEW id \in Ids PROVE FileAsRow(id)'
  <2>1. \A c \in Committing(id) : id \in astray'
    BY <1>1 DEF Committing
  <2> QED
    BY <1>1, <1>9, <2>1 DEF KInv, Consistent, FileAsRow
<1> QED
  BY <1>3, <1>6, <1>7, <1>8, <1>9 DEF KInv, Consistent

LEMMA AskKeeps ==
  ASSUME KInv, count \in 0 .. MaxCalls, NEW c \in Callers,
         NEW kind \in {"create", "update", "delete", "unkey"}, NEW id \in {NoId} \cup Ids,
         NEW key \in {NoKey} \cup Keys, NEW remove \in BOOLEAN,
         Ask(c, kind, id, key, remove), UNCHANGED <<rows, files, astray>>,
         kind = "create" <=> id = NoId,
         c = "save" => kind \in {"create", "update"} /\ (remove => key = NoKey /\ kind = "update")
  PROVE  KInv' /\ count' \in 0 .. MaxCalls
<1> DEFINE x == Request(kind, id, key, remove)
<1>1. calls[c] = Idle /\ count' = count + 1 /\ count < MaxCalls /\ calls' = [calls EXCEPT ![c] = x]
  BY DEF Ask
<1>2. Used(id) \in {NoKey} \cup Keys
  BY UsedType DEF KInv
<1>3. /\ x \in Call /\ x.step = "sent" /\ x.kind = kind /\ x.id = id /\ x.key = key /\ x.remove = remove
      /\ x.was = Used(id)
  BY <1>2 DEF Request, Call, Rows
<1> HIDE DEF x
<1>4. RequestOK(x) /\ UpToDate(x)
  BY <1>3, NotIds DEF RequestOK, UpToDate
<1>5. c = "save" => PromiseKept(x)
  BY <1>3 DEF PromiseKept
<1>6. KInv'
  <2>1. ~At(c, "written")
    BY <1>1 DEF At, Idle
  <2> QED
    BY <1>1, <1>3, <1>4, <1>5, <2>1, OneCall
<1>7. count' \in 0 .. MaxCalls
  BY <1>1, NodesPageAssumption
<1> QED
  BY <1>6, <1>7

LEMMA GoesOnKeeps == ASSUME KInv, SaveGoesOn PROVE KInv'
<1> DEFINE y == calls["save"]
           m == IF y.met = "no" THEN "no" ELSE "early"
           x == [y EXCEPT !.kind = "unkey", !.step = "sent", !.met = m]
<1>1. y.step = "done" /\ y.kind = "update" /\ y.remove /\ UNCHANGED <<rows, files, astray>>
  BY DEF SaveGoesOn, Second, server
<1>2. y # Idle /\ "save" \in Callers
  BY <1>1 DEF Idle, Callers
<1>3. y \in Call /\ RequestOK(y) /\ PromiseKept(y)
  BY <1>2 DEF KInv, CallsT, Known, Kept
<1>4. calls' = [calls EXCEPT !["save"] = x]
  BY <1>2 DEF SaveGoesOn, KInv, CallsT
<1>5. m \in {"no", "early", "late"}
  OBVIOUS
<1> HIDE DEF m
<1>6. /\ x \in Call /\ x.step = "sent" /\ x.kind = "unkey" /\ x.id = y.id /\ x.key = y.key
      /\ x.remove = y.remove /\ x.was = y.was
  BY <1>3, <1>5 DEF Call
<1> HIDE DEF x
<1>7. RequestOK(x) /\ UpToDate(x) /\ PromiseKept(x)
  BY <1>1, <1>3, <1>6 DEF RequestOK, UpToDate, PromiseKept
<1> QED
  BY <1>1, <1>2, <1>4, <1>6, <1>7, OneCall DEF At

PageT == count \in 0 .. MaxCalls /\ list \in [Ids -> Rows] /\ target \in {NoId} \cup Ids

LEMMA KStep == KInv /\ PageT /\ DialogInv /\ [Next]_vars => KInv' /\ PageT'
<1> SUFFICES ASSUME KInv, PageT, DialogInv, [Next]_vars PROVE KInv' /\ PageT'
  OBVIOUS
<1>1. ASSUME UNCHANGED <<rows, files, astray, calls>> PROVE KInv'
  BY <1>1 DEF KInv, CallsT, TableT, Known, Kept, Consistent, RequestOK, UpToDate, Changes, PromiseKept,
              Used, Second, Promised, FileAsRow, Committing, At
<1>2. ASSUME UNCHANGED <<server, calls, count, target, astray>>, list' \in [Ids -> Rows] PROVE KInv' /\ PageT'
  BY <1>1, <1>2 DEF PageT, server
<1>3. CASE UNCHANGED vars
  BY <1>2, <1>3 DEF vars, page, PageT
<1>4. ASSUME NEW id \in {NoId} \cup Ids, NEW form, Opens(id, form) PROVE KInv' /\ PageT'
  BY <1>2, <1>4 DEF Opens, PageT
<1>5. CASE \/ ListArrives \/ Close \/ ClearKey \/ \E form \in {"blank", "fine"} : Edit(form)
           \/ \E b \in BOOLEAN : SetRemoveKey(b)
           \/ \E f \in Keys : ChooseFile(f)
           \/ \E r \in reads : handleKeyFile(r)
  BY <1>2, <1>5 DEF ListArrives, Close, ClearKey, Edit, SetRemoveKey, ChooseFile, handleKeyFile, PageT, KInv, TableT
<1>6. CASE handleSave
  <2>1. Upload(dialog.key) \in {NoKey} \cup Keys /\ dialog.editing \in {NoId} \cup Ids /\ dialog.removeKey \in BOOLEAN
    BY DEF DialogInv, Dialog, Read, Upload
  <2>2. dialog.removeKey => Upload(dialog.key) = NoKey
    BY DEF DialogInv, UploadOrRemove, Upload
  <2>3. UNCHANGED <<rows, files, astray, list, target>>
    BY <1>6 DEF handleSave, server, page
  <2>4. "save" \in Callers
    BY DEF Callers
  <2>5. CASE dialog.editing = NoId
    <3>1. Ask("save", "create", NoId, Upload(dialog.key), FALSE)
      BY <1>6, <2>5 DEF handleSave
    <3> QED
      BY <2>1, <2>3, <2>4, <3>1, AskKeeps DEF PageT
  <2>6. CASE dialog.editing # NoId
    <3>1. Ask("save", "update", dialog.editing, Upload(dialog.key), dialog.removeKey)
      BY <1>6, <2>6 DEF handleSave
    <3> QED
      BY <2>1, <2>2, <2>3, <2>4, <2>6, <3>1, AskKeeps DEF PageT
  <2> QED
    BY <2>5, <2>6
<1>7. CASE SaveGoesOn
  BY <1>7, GoesOnKeeps DEF SaveGoesOn, page, PageT
<1>8. CASE SaveAnswered
  <2>1. calls' = [calls EXCEPT !["save"] = Idle] /\ UNCHANGED <<rows, files, astray, count, list, target>>
        /\ ~At("save", "written") /\ "save" \in Callers
    BY <1>8 DEF SaveAnswered, server, At, Callers
  <2>2. KInv'
    BY <2>1, OneCall
  <2> QED
    BY <2>1, <2>2 DEF PageT
<1>9. ASSUME NEW id \in Ids, setDeleteTarget(id) PROVE KInv' /\ PageT'
  BY <1>1, <1>9 DEF setDeleteTarget, PageT, server
<1>10. CASE ConfirmDelete
  <2>1. UNCHANGED <<rows, files, astray, list>> /\ target' = NoId /\ target \in Ids
    BY <1>10 DEF ConfirmDelete, server, PageT
  <2>2. CASE Ask("remove", "delete", target, NoKey, FALSE)
    <3>1. target # NoId /\ "remove" \in Callers
      BY <2>1, NotIds DEF Callers
    <3> QED
      BY <2>1, <2>2, <3>1, AskKeeps DEF PageT
  <2>3. CASE UNCHANGED <<calls, count>>
    BY <1>1, <2>1, <2>3 DEF PageT
  <2> QED
    BY <1>10, <2>2, <2>3 DEF ConfirmDelete
<1>11. ASSUME NEW id \in Ids, Other(id) PROVE KInv' /\ PageT'
  <2>1. PICK kind \in {"update", "unkey", "delete"}, key \in {NoKey} \cup Keys : Ask("other", kind, id, key, FALSE)
    BY <1>11 DEF Other
  <2>2. UNCHANGED <<rows, files, astray, list, target>> /\ id # NoId /\ "other" \in Callers
    BY <1>11, NotIds DEF Other, server, page, Callers
  <2> QED
    BY <2>1, <2>2, AskKeeps DEF PageT
<1>12. ASSUME NEW c \in Callers, Handling(c) PROVE KInv' /\ PageT'
  <2>1. PageT'
    <3>1. UNCHANGED page /\ (UNCHANGED count \/ (count < MaxCalls /\ count' = count + 1))
      BY <1>12 DEF Handling, Load, WriteFile, SaveKeyFails, Commit, CommitCreate, Raises
    <3> QED
      BY <3>1, NodesPageAssumption DEF page, PageT
  <2>2. KInv'
    BY <1>12, LoadKeeps, WriteKeeps, SaveFailsKeeps, CommitKeeps, CreateKeeps, RaisesKeeps DEF Handling
  <2> QED
    BY <2>1, <2>2
<1>13. CASE Restart
  <2>1. PageT'
    BY <1>13, NodesPageAssumption DEF Restart, page, PageT
  <2> QED
    BY <1>13, <2>1, RestartKeeps
<1> QED
  BY <1>3, <1>4, <1>5, <1>6, <1>7, <1>8, <1>9, <1>10, <1>11, <1>12, <1>13 DEF Next, Using, openCreate, openEdit

LEMMA KInit == Init => KInv /\ PageT
<1> SUFFICES ASSUME Init PROVE KInv /\ PageT
  OBVIOUS
<1>1. CallsT /\ TableT /\ \A c \in Callers : calls[c] = Idle
  BY DEF Init, CallsT, TableT
<1>2. Known /\ Kept
  BY <1>1 DEF Known, Kept, Callers
<1>3. Consistent
  BY DEF Init, Consistent, FileAsRow
<1>4. PageT
  BY NodesPageAssumption DEF Init, PageT
<1> QED
  BY <1>1, <1>2, <1>3, <1>4 DEF KInv

LEMMA KeyInvariance == Spec => [](KInv /\ PageT /\ DialogInv)
BY KInit, KStep, DialogInit, DialogStep, PTL DEF Spec
\* A save never both uploads a key and removes the key (Nodes.tsx:154), however the
\* choice, its removal and the file that is read overlap.
THEOREM OneOrTheOther == Spec => []UploadOrRemove
<1>1. DialogInv => UploadOrRemove
  BY DEF DialogInv
<1> QED
  BY <1>1, DialogInvariance, PTL

\* The key that a save would upload is the file the dialog names, chosen for this node,
\* unless it was still read when another choice began (Nodes.tsx:223).
THEOREM KeyIsShown == Spec => []KeyAsShown
<1>1. DialogInv => KeyAsShown
  BY DEF DialogInv
<1> QED
  BY <1>1, DialogInvariance, PTL

\* Page, requests and files are well typed; in particular a request that was sent is about
\* a node that has an id, or about the one that it is to create.
THEOREM NodeTypes == Spec => []TypeOK
<1>1. KInv /\ PageT /\ DialogInv => TypeOK
  BY DEF KInv, PageT, DialogInv, CallsT, TableT, TypeOK, Call, Idle
<1> QED
  BY <1>1, KeyInvariance, PTL

\* nodes.py writes or removes the key file first and commits the row that names it later:
\* when no request about a node is at work, file and row agree, unless the commit behind
\* the file raised or was cut off, the file could not be locked down, or a handler acted
\* on a row that another one had acted on since it was read.
THEOREM KeyHasItsRow == Spec => []KeyFollowsRow
<1>1. KInv => KeyFollowsRow
  <2> SUFFICES ASSUME KInv, NEW id \in Ids, AtWork(id) = {}, id \notin astray
               PROVE  rows[id] = "keyed" <=> files[id] # NoKey
    BY DEF KeyFollowsRow
  <2>1. Committing(id) = {}
    BY DEF Committing, AtWork, On, At, Idle
  <2> QED
    BY <2>1 DEF KInv, Consistent, FileAsRow
<1> QED
  BY <1>1, KeyInvariance, PTL

\* handleSave, with one request or with two (Nodes.tsx:154): a save that is answered as
\* done has left the node with the key that the dialog promised.
THEOREM SavesKeepPromises == Spec => SaveKeepsPromise
<1> DEFINE Keeps ==
      \A c \in {"save"} :
        /\ At(c, "done") /\ ~Second(calls[c]) /\ calls'[c] = Idle
        /\ calls[c].met = "no"
        => Used(calls[c].id) = Promised(calls[c])
<1>1. KInv => [Keeps]_vars
  BY DEF KInv, Kept, PromiseKept, At, Idle
<1> QED
  BY <1>1, KeyInvariance, PTL DEF SaveKeepsPromise
=============================================================================
