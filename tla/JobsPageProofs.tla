--------------------------- MODULE JobsPageProofs ---------------------------
(***************************************************************************)
(* The scheduler follows the table of the jobs, a save writes what was     *)
(* edited, and a job keeps what its operation works on: for any number of  *)
(* jobs, forms and requests, and in any order of the handlers' steps.       *)
(***************************************************************************)
EXTENDS JobsPage, TLAPS

-----------------------------------------------------------------------------
(* What the steps of a request do to the requests. *)

\* A request goes on; it may take a row with it.
LEMMA Changed ==
  ASSUME CallsShape, NEW c \in Callers, calls[c] # Idle,
         NEW step, NEW row, step # "idle", step \in BehindSteps => calls[c].id \in Ids,
         \/ calls' = [calls EXCEPT ![c].step = step]
         \/ calls' = [calls EXCEPT ![c].step = step, ![c].row = row]
  PROVE  /\ \A d \in Callers \ {c} : calls'[d] = calls[d]
         /\ calls'[c] # Idle /\ calls'[c].step = step /\ calls'[c].id = calls[c].id
         /\ calls' = [calls EXCEPT ![c].step = step, ![c].row = row] => calls'[c].row = row
         /\ CallsShape'
<1>1. DOMAIN calls = Callers /\ DOMAIN calls[c] = CallFields
  BY DEF CallsShape
<1>2. \/ calls'[c] = [calls[c] EXCEPT !.step = step]
      \/ calls'[c] = [calls[c] EXCEPT !.step = step, !.row = row]
  BY <1>1
<1>3. /\ DOMAIN calls' = Callers /\ DOMAIN calls'[c] = CallFields
      /\ calls'[c].step = step /\ calls'[c].id = calls[c].id /\ calls'[c].kind = calls[c].kind
      /\ calls'[c].body = calls[c].body
  BY <1>1, <1>2 DEF CallFields
<1>4. calls' = [calls EXCEPT ![c].step = step, ![c].row = row] => calls'[c].row = row
  BY <1>1 DEF CallFields
<1>5. \A d \in Callers \ {c} : calls'[d] = calls[d]
  BY <1>1
<1>6. calls'[c] # Idle
  BY <1>3 DEF Idle
<1>7. CallsShape'
  BY <1>1, <1>3, <1>5 DEF CallsShape, Full
<1> QED
  BY <1>3, <1>4, <1>5, <1>6, <1>7

\* A request ends.
LEMMA Ended ==
  ASSUME CallsShape, NEW c \in Callers, calls[c] # Idle,
         NEW step \in {"done", "failed"}, Ends(c, step)
  PROVE  /\ \A d \in Callers \ {c} : calls'[d] = calls[d]
         /\ \A id : c \notin Behind(id)'
         /\ CallsShape'
<1>1. CASE calls' = [calls EXCEPT ![c].step = step]
  <2>1. step # "idle" /\ step \notin BehindSteps
    BY DEF BehindSteps
  <2>2. /\ \A d \in Callers \ {c} : calls'[d] = calls[d]
        /\ calls'[c].step = step /\ CallsShape'
    BY <1>1, <2>1, Changed
  <2> QED
    BY <2>1, <2>2 DEF Behind, BehindSteps
<1>2. CASE calls' = [calls EXCEPT ![c] = Idle]
  <2>1. calls'[c] = Idle /\ DOMAIN calls' = Callers /\ \A d \in Callers \ {c} : calls'[d] = calls[d]
    BY <1>2 DEF CallsShape
  <2>2. CallsShape'
    BY <2>1 DEF CallsShape
  <2> QED
    BY <2>1, <2>2 DEF Behind, On
<1> QED
  BY <1>1, <1>2 DEF Ends, Goes

\* A request is made: it is not behind yet.
LEMMA Asked ==
  ASSUME CallsShape, NEW c \in Callers, NEW kind, NEW id, NEW body, Ask(c, kind, id, body),
         kind # "create" => id \in Ids, kind = "create" => Full(body)
  PROVE  /\ CallsShape'
         /\ \A d \in Callers : calls'[d] = calls[d] \/ (\A i : d \notin Behind(i) /\ d \notin Behind(i)')
<1>1. /\ calls'[c] = Request(c, kind, id, body) /\ calls[c] = Idle
      /\ DOMAIN calls' = Callers /\ \A d \in Callers \ {c} : calls'[d] = calls[d]
  BY DEF Ask, CallsShape
<1>2. /\ DOMAIN calls'[c] = CallFields /\ calls'[c].step = "sent"
      /\ calls'[c].kind = kind /\ calls'[c].id = id /\ calls'[c].body = body
  BY <1>1 DEF Request, CallFields
<1>3. CallsShape'
  BY <1>1, <1>2 DEF CallsShape, BehindSteps, Full
<1> QED
  BY <1>1, <1>2, <1>3 DEF Behind, On

\* An id that a step does not touch.
LEMMA Apart ==
  ASSUME NEW id \in Ids, Settled(id),
         rows'[id] = rows[id], entries'[id] = entries[id], up' = up,
         id \in astray => id \in astray',
         \A c \in Callers : calls'[c] = calls[c] \/ (c \notin Behind(id) /\ c \notin Behind(id)')
  PROVE  Settled(id)'
<1>1. Behind(id)' = Behind(id) /\ \A c \in Behind(id) : calls'[c] = calls[c]
  BY DEF Behind, On
<1>2. \A c \in Behind(id) : Knows(calls[c], id)' <=> Knows(calls[c], id)
  BY <1>1 DEF Knows
<1>3. Wanted(rows'[id]) = Wanted(rows[id])
  OBVIOUS
<1>4. Wanted(rows[id])' = Wanted(rows'[id])
  BY DEF Wanted
<1> QED
  BY <1>1, <1>2, <1>3, <1>4 DEF Settled

\* A step of the page, or another one that touches neither the jobs nor what is behind.
LEMMA Elsewhere ==
  ASSUME IInv, UNCHANGED <<rows, entries, up, astray>>, PageShape', CallsShape',
         \A c \in Callers : calls'[c] = calls[c] \/ (\A id : c \notin Behind(id) /\ c \notin Behind(id)')
  PROVE  IInv'
<1>1. ASSUME NEW id \in Ids PROVE Settled(id)'
  BY Apart DEF IInv
<1>2. Shape'
  BY DEF IInv, Shape, Jobs, Full, Ids
<1> QED
  BY <1>1, <1>2 DEF IInv, Ids

\* The page stays as it is.
LEMMA PageStays == ASSUME PageShape, UNCHANGED page PROVE PageShape'
BY DEF PageShape, page, Jobs, Full, Ids

LEMMA FullForms ==
  /\ Full(EMPTY_FORM)
  /\ \A form \in Contents : Full(form)
  /\ \A row : Full(row) => Full(Copied(row))
BY JobsPageAssumption DEF Full, EMPTY_FORM, Job, Copied

LEMMA InitSettled == Init => IInv
<1> SUFFICES ASSUME Init PROVE IInv
  OBVIOUS
<1>1. Shape /\ PageShape /\ CallsShape
  BY FullForms DEF Init, Shape, PageShape, Jobs, CallsShape, Blank
<1>2. ASSUME NEW id \in Ids PROVE Behind(id) = {} /\ entries[id] = Wanted(rows[id])
  BY DEF Init, Behind, On, Wanted
<1> QED
  BY <1>1, <1>2 DEF IInv, Settled

-----------------------------------------------------------------------------
(* The page. *)

LEMMA UsingKeeps == ASSUME IInv, Using PROVE IInv'
<1>1. PageShape /\ CallsShape
  BY DEF IInv
<1>2. UNCHANGED <<rows, entries, up, astray>>
  BY DEF Using, ListArrives, openCreate, Close, handleSave, SaveAnswered, ConfirmDelete, Edit, openEdit,
         enabledSwitch, setDeleteTarget, Other, server, page, Opened
<1>3. PageShape'
  <2>1. CASE ListArrives
    BY <1>1, <2>1 DEF ListArrives, PageShape, IInv, Shape, Jobs, Full, Ids
  <2>2. ASSUME UNCHANGED <<list, dialog>>, target' \in {NoId} \cup Ids PROVE PageShape'
    BY <1>1, <2>2 DEF PageShape, Jobs, Full, Ids
  <2>3. ASSUME UNCHANGED <<list, target>>, DOMAIN dialog' = {"open", "editing", "form", "row"},
               Full(dialog'.form), dialog'.editing \in {NoId} \cup Ids
        PROVE  PageShape'
    BY <1>1, <2>3 DEF PageShape, Jobs, Full, Ids
  <2>4. CASE dialog' = Blank /\ UNCHANGED <<list, target>>
    BY <2>3, <2>4, FullForms DEF Blank
  <2>5. CASE openCreate
    BY <2>3, <2>5, FullForms DEF openCreate, Opened
  <2>6. ASSUME NEW id \in Ids, openEdit(id) PROVE PageShape'
    <3>1. Full(Copied(list[id]))
      BY <1>1, <2>6, FullForms DEF openEdit, PageShape, Jobs
    <3> QED
      BY <2>3, <2>6, <3>1 DEF openEdit, Opened
  <2>7. ASSUME NEW form \in Contents, Edit(form) PROVE PageShape'
    <3>1. dialog' = [dialog EXCEPT !.form = form] /\ UNCHANGED <<list, target>>
      BY <2>7 DEF Edit
    <3>2. dialog'.form = form /\ dialog'.editing = dialog.editing /\ DOMAIN dialog' = DOMAIN dialog
      BY <1>1, <3>1 DEF PageShape
    <3> QED
      BY <1>1, <2>3, <3>1, <3>2, FullForms DEF PageShape
  <2>8. CASE UNCHANGED <<list, dialog, target>>
    BY <1>1, <2>8, PageStays DEF page
  <2>9. CASE SaveAnswered
    BY <2>4, <2>8, <2>9 DEF SaveAnswered
  <2>10. ASSUME NEW id \in Ids, setDeleteTarget(id) PROVE PageShape'
    BY <2>2, <2>10 DEF setDeleteTarget
  <2> QED
    BY <2>1, <2>2, <2>4, <2>5, <2>6, <2>7, <2>8, <2>9, <2>10
       DEF Using, Close, handleSave, ConfirmDelete, enabledSwitch, Other, page
<1>4. CASE UNCHANGED calls
  BY <1>1, <1>2, <1>3, <1>4, Elsewhere DEF CallsShape, Full, Ids
<1>5. ASSUME NEW c \in Callers, NEW kind, NEW id, NEW body, Ask(c, kind, id, body),
             kind # "create" => id \in Ids, kind = "create" => Full(body)
      PROVE  IInv'
  BY <1>1, <1>2, <1>3, <1>5, Asked, Elsewhere
<1>6. CASE handleSave
  <2>1. Full(dialog.form) /\ (dialog.editing # NoId => dialog.editing \in Ids)
    BY <1>1 DEF PageShape
  <2> QED
    BY <1>5, <1>6, <2>1 DEF handleSave, Callers
<1>7. CASE SaveAnswered
  <2>1. calls' = [calls EXCEPT !["save"] = Idle] /\ calls["save"].step \in {"done", "failed"}
    BY <1>7 DEF SaveAnswered
  <2>2. CallsShape'
    BY <1>1, <2>1 DEF CallsShape
  <2>3. \A c \in Callers : calls'[c] = calls[c] \/ (\A id : c \notin Behind(id) /\ c \notin Behind(id)')
    BY <1>1, <2>1 DEF CallsShape, Behind, On
  <2> QED
    BY <1>2, <1>3, <2>2, <2>3, Elsewhere
<1>8. CASE ConfirmDelete
  <2>1. target \in Ids
    BY <1>1, <1>8 DEF PageShape, ConfirmDelete
  <2> QED
    BY <1>4, <1>5, <1>8, <2>1 DEF ConfirmDelete, Callers
<1>9. ASSUME NEW id \in Ids, enabledSwitch(id) PROVE IInv'
  BY <1>5, <1>9 DEF enabledSwitch, Callers
<1>10. ASSUME NEW id \in Ids, Other(id) PROVE IInv'
  BY <1>5, <1>10 DEF Other, Callers
<1>11. CASE \/ ListArrives \/ openCreate \/ Close
            \/ \E form \in Contents : Edit(form)
            \/ \E id \in Ids : openEdit(id) \/ setDeleteTarget(id)
  BY <1>4, <1>11 DEF ListArrives, openCreate, Close, Edit, openEdit, setDeleteTarget
<1> QED
  BY <1>6, <1>7, <1>8, <1>9, <1>10, <1>11 DEF Using

-----------------------------------------------------------------------------
(* The handlers. *)

\* The parts of the invariant that a handler keeps: it works on the one id only.
LEMMA Handled ==
  ASSUME IInv, NEW c \in Callers, NEW id \in Ids,
         \A i \in Ids \ {id} : /\ rows'[i] = rows[i] /\ entries'[i] = entries[i]
                               /\ i \in astray => i \in astray'
                               /\ c \notin Behind(i) /\ c \notin Behind(i)',
         \A d \in Callers \ {c} : calls'[d] = calls[d],
         Shape', UNCHANGED <<up, page>>, CallsShape', Settled(id)'
  PROVE  IInv'
<1>1. ASSUME NEW i \in Ids PROVE Settled(i)'
  BY Apart DEF IInv
<1>2. PageShape'
  BY PageStays DEF IInv
<1> QED
  BY <1>1, <1>2 DEF IInv, Ids

\* A handler that ends without having committed, and not behind.
LEMMA GivesUp ==
  ASSUME IInv, NEW c \in Callers, calls[c] # Idle, calls[c].step \notin BehindSteps,
         Ends(c, "failed"), UNCHANGED <<rows, entries, up, astray, page>>
  PROVE  IInv'
<1>1. /\ \A d \in Callers \ {c} : calls'[d] = calls[d]
      /\ CallsShape'
      /\ \A id : c \notin Behind(id)'
  BY Ended DEF IInv
<1>2. \A id : c \notin Behind(id)
  BY DEF Behind, BehindSteps
<1>3. PageShape'
  BY PageStays DEF IInv
<1> QED
  BY <1>1, <1>2, <1>3, Elsewhere

LEMMA LoadKeeps == ASSUME IInv, NEW c \in Callers, Load(c) PROVE IInv'
<1>1. calls[c] # Idle /\ calls[c].step = "sent" /\ UNCHANGED <<rows, entries, up, astray, page>>
  BY DEF Load, At, Idle, server
<1>2. CASE Ends(c, "failed")
  BY <1>1, <1>2, GivesUp DEF BehindSteps
<1>3. CASE calls' = [calls EXCEPT ![c].step = "loaded", ![c].row = rows[calls[c].id]]
  <2>1. /\ \A d \in Callers \ {c} : calls'[d] = calls[d]
        /\ calls'[c].step = "loaded" /\ CallsShape'
    <3>1. "loaded" # "idle" /\ "loaded" \notin BehindSteps
      BY DEF BehindSteps
    <3> QED
      BY <1>1, <1>3, <3>1, Changed DEF IInv
  <2>2. \A id : c \notin Behind(id) /\ c \notin Behind(id)'
    BY <1>1, <2>1 DEF Behind
  <2>3. PageShape'
    BY <1>1, PageStays DEF IInv
  <2> QED
    BY <1>1, <2>1, <2>2, <2>3, Elsewhere
<1> QED
  BY <1>2, <1>3 DEF Load

\* Where a handler is behind, it is behind on its own id only.
LEMMA OwnId ==
  ASSUME NEW c \in Callers
  PROVE  \A i : c \in Behind(i) <=> calls[c] # Idle /\ calls[c].id = i /\ calls[c].step \in BehindSteps
BY DEF Behind, On, BehindSteps

LEMMA OwnIdNext ==
  ASSUME NEW c \in Callers
  PROVE  \A i : c \in Behind(i)' <=> calls'[c] # Idle /\ calls'[c].id = i /\ calls'[c].step \in BehindSteps
BY DEF Behind, On, BehindSteps

\* Behind a commit, the handler is the only one, or the id is astray.
LEMMA BehindAlone ==
  ASSUME IInv, NEW c \in Callers, NEW id \in Ids, Committed(c, id),
         \A d \in Callers \ {c} : calls'[d] = calls[d],
         c \in Behind(id)', Knows(calls[c], id)'
  PROVE  Settled(id)'
<1>1. SUFFICES ASSUME id \notin astray' PROVE Settled(id)'
  BY DEF Settled
<1>2. Behind(id) \ {c} = {}
  BY <1>1 DEF Committed
<1>3. ASSUME NEW d \in Behind(id)' PROVE d = c
  <2>1. d \in Callers
    BY DEF Behind, On
  <2>2. CASE d # c
    <3>1. d \in Behind(id)
      BY <1>3, <2>1, <2>2, OwnId, OwnIdNext
    <3> QED
      BY <1>2, <2>2, <3>1
  <2> QED
    BY <2>2
<1> QED
  BY <1>3 DEF Settled

LEMMA CommitUpdateKeeps == ASSUME IInv, NEW c \in Callers, CommitUpdate(c) PROVE IInv'
<1> DEFINE id == calls[c].id
<1>1. /\ calls[c] # Idle /\ calls[c].step = "loaded" /\ calls[c].kind = "update"
      /\ UNCHANGED <<entries, up, page>>
  BY DEF CommitUpdate, At, Idle
<1>2. id \in Ids /\ DOMAIN rows = Ids /\ DOMAIN entries = Ids
  BY <1>1 DEF IInv, CallsShape, Shape, Jobs
<1>3. CASE rows[id] = Gone
  BY <1>1, <1>3, GivesUp DEF CommitUpdate, BehindSteps
<1>4. CASE rows[id] # Gone
  <2> DEFINE changes == Changes(calls[c].row, calls[c].body)
  <2>1. /\ rows' = [rows EXCEPT ![id] = Merge(@, changes)] /\ Goes(c, "committed") /\ Committed(c, id)
    BY <1>4 DEF CommitUpdate
  <2>2. /\ \A d \in Callers \ {c} : calls'[d] = calls[d]
        /\ calls'[c] # Idle /\ calls'[c].step = "committed" /\ calls'[c].id = id /\ CallsShape'
    BY <1>1, <1>2, <2>1, Changed DEF IInv, Goes
  <2>3. rows'[id] = Merge(rows[id], changes) /\ \A i \in Ids \ {id} : rows'[i] = rows[i]
    BY <1>2, <2>1
  <2>4. Full(rows'[id]) /\ rows'[id] # Gone
    <3>1. DOMAIN rows'[id] = DOMAIN EMPTY_FORM
      BY <1>2, <1>4, <2>3 DEF IInv, Shape, Jobs, Full, Merge
    <3> QED
      BY <3>1 DEF Full, Gone, EMPTY_FORM
  <2>5. Shape'
    BY <1>1, <1>2, <2>1, <2>3, <2>4 DEF IInv, Shape, Jobs, Full, Ids
  <2>6. c \in Behind(id)' /\ Knows(calls[c], id)'
    BY <2>2, <2>4, OwnIdNext DEF BehindSteps, Knows
  <2>7. Settled(id)'
    BY <1>2, <2>1, <2>2, <2>6, BehindAlone
  <2>8. \A i \in Ids \ {id} : c \notin Behind(i) /\ c \notin Behind(i)'
    BY <2>2, OwnId, OwnIdNext
  <2>9. \A i \in astray : i \in astray'
    BY <2>1 DEF Committed
  <2> QED
    BY <1>1, <1>2, <2>2, <2>3, <2>5, <2>7, <2>8, <2>9, Handled
<1> QED
  BY <1>3, <1>4

LEMMA CommitCreateKeeps ==
  ASSUME IInv, NEW c \in Callers, NEW id \in Ids, CommitCreate(c, id)
  PROVE  IInv'
<1>1. /\ calls[c] # Idle /\ calls[c].step = "sent" /\ calls[c].kind = "create"
      /\ UNCHANGED <<entries, up, page>>
      /\ rows' = [rows EXCEPT ![id] = calls[c].body] /\ Committed(c, id)
      /\ calls' = [calls EXCEPT ![c].step = "committed", ![c].id = id]
  BY DEF CommitCreate, At, Idle
<1>2. /\ DOMAIN rows = Ids /\ DOMAIN entries = Ids /\ Full(calls[c].body)
      /\ DOMAIN calls = Callers /\ DOMAIN calls[c] = CallFields
  BY <1>1 DEF IInv, CallsShape, Shape, Jobs
<1>3. /\ \A d \in Callers \ {c} : calls'[d] = calls[d]
      /\ calls'[c].step = "committed" /\ calls'[c].id = id /\ calls'[c].kind = "create"
      /\ calls'[c].body = calls[c].body /\ DOMAIN calls'[c] = CallFields /\ DOMAIN calls' = Callers
  BY <1>1, <1>2 DEF CallFields
<1>4. CallsShape'
  BY <1>2, <1>3 DEF IInv, CallsShape, Full
<1>5. /\ rows'[id] = calls[c].body /\ rows'[id] # Gone
      /\ \A i \in Ids \ {id} : rows'[i] = rows[i]
  BY <1>1, <1>2 DEF Full, Gone, EMPTY_FORM
<1>6. Shape'
  BY <1>1, <1>2, <1>5 DEF IInv, Shape, Jobs, Full, Ids
<1>7. calls'[c] # Idle
  BY <1>3 DEF Idle
<1>8. c \in Behind(id)' /\ Knows(calls[c], id)'
  BY <1>3, <1>5, <1>7, OwnIdNext DEF BehindSteps, Knows
<1>9. Settled(id)'
  BY <1>1, <1>3, <1>8, BehindAlone
<1>10. \A i \in Ids \ {id} : c \notin Behind(i) /\ c \notin Behind(i)'
  BY <1>1, <1>3, OwnId, OwnIdNext DEF BehindSteps
<1>11. \A i \in astray : i \in astray'
  BY <1>1 DEF Committed
<1> QED
  BY <1>1, <1>3, <1>4, <1>5, <1>6, <1>9, <1>10, <1>11, Handled

\* A handler that is behind is alone with what it knows, or the id is astray.
LEMMA Alone ==
  ASSUME IInv, NEW c \in Callers, NEW id \in Ids, c \in Behind(id), id \notin astray
  PROVE  Behind(id) = {c} /\ Knows(calls[c], id)
BY DEF IInv, Settled

\* A handler that was behind has written the entry, or the id is astray.
LEMMA CatchesUp ==
  ASSUME IInv, NEW c \in Callers, NEW id \in Ids, c \in Behind(id),
         \A d \in Callers \ {c} : calls'[d] = calls[d],
         c \notin Behind(id)',
         id \notin astray' => Behind(id) = {c} /\ entries'[id] = Wanted(rows'[id])
  PROVE  Settled(id)'
<1>1. SUFFICES ASSUME id \notin astray' PROVE Settled(id)'
  BY DEF Settled
<1>2. Behind(id)' = {}
  <2>1. ASSUME NEW d \in Callers \ {c} PROVE d \notin Behind(id)'
    <3>1. d \notin Behind(id)
      BY <1>1
    <3> QED
      BY <3>1, OwnId, OwnIdNext
  <2> QED
    BY <2>1 DEF Behind, On
<1>3. Wanted(rows[id])' = Wanted(rows'[id])
  BY DEF Wanted
<1> QED
  BY <1>1, <1>2, <1>3 DEF Settled

LEMMA RefreshKeeps == ASSUME IInv, NEW c \in Callers, Refresh(c) PROVE IInv'
<1>1. calls[c] # Idle /\ calls[c].step = "committed" /\ UNCHANGED <<rows, entries, up, astray, page>>
  BY DEF Refresh, Idle, server
<1>2. PICK id \in Ids : id = calls[c].id /\ c \in Behind(id)
  BY <1>1, OwnId DEF IInv, CallsShape, BehindSteps
<1>3. Shape'
  BY <1>1 DEF IInv, Shape, Jobs, Full, Ids
<1>4. CASE rows[id] = Gone
  <2>1. Ends(c, "failed")
    BY <1>2, <1>4 DEF Refresh
  <2>2. /\ \A d \in Callers \ {c} : calls'[d] = calls[d]
        /\ \A i : c \notin Behind(i)'
        /\ CallsShape'
    BY <1>1, <2>1, Ended DEF IInv
  <2>3. id \in astray
    BY <1>1, <1>2, <1>4, Alone DEF Knows
  <2>4. Settled(id)'
    BY <1>1, <2>3 DEF Settled
  <2>5. \A i \in Ids \ {id} : c \notin Behind(i)
    BY <1>2, OwnId
  <2> QED
    BY <1>1, <1>2, <1>3, <2>2, <2>4, <2>5, Handled
<1>5. CASE rows[id] # Gone
  <2>1. calls' = [calls EXCEPT ![c].step = "refreshed", ![c].row = rows[id]]
    BY <1>2, <1>5 DEF Refresh
  <2>2. /\ \A d \in Callers \ {c} : calls'[d] = calls[d]
        /\ calls'[c] # Idle /\ calls'[c].step = "refreshed" /\ calls'[c].id = id
        /\ calls'[c].row = rows[id] /\ CallsShape'
    BY <1>1, <1>2, <2>1, Changed DEF IInv
  <2>3. \A i : c \in Behind(i) <=> c \in Behind(i)'
    BY <1>1, <1>2, <2>2, OwnId, OwnIdNext DEF BehindSteps
  <2>4. Settled(id)'
    <3>1. SUFFICES ASSUME id \notin astray PROVE Settled(id)'
      BY <1>1 DEF Settled
    <3>2. Behind(id) = {c}
      BY <1>2, <3>1, Alone
    <3>3. Behind(id)' = {c}
      <4>1. \A d \in Callers \ {c} : d \notin Behind(id)'
        BY <2>2, <3>2, OwnId, OwnIdNext
      <4> QED
        BY <1>2, <2>3, <4>1 DEF Behind, On
    <3>4. Knows(calls[c], id)'
      BY <1>1, <2>2 DEF Knows
    <3> QED
      BY <3>3, <3>4 DEF Settled
  <2> QED
    BY <1>1, <1>2, <1>3, <2>2, <2>3, <2>4, OwnId, Handled
<1> QED
  BY <1>4, <1>5

LEMMA SyncKeeps == ASSUME IInv, NEW c \in Callers, sync_schedule(c) PROVE IInv'
<1>1. calls[c] # Idle /\ calls[c].step = "refreshed" /\ UNCHANGED <<rows, up, page>>
  BY DEF sync_schedule, Idle, server
<1>2. PICK id \in Ids : id = calls[c].id /\ c \in Behind(id)
  BY <1>1, OwnId DEF IInv, CallsShape, BehindSteps
<1> DEFINE row == calls[c].row
<1>3. /\ entries' = [entries EXCEPT ![id] = IF Refused(row) THEN @ ELSE Wanted(row)]
      /\ astray' = IF Refused(row) THEN astray \cup {id}
                   ELSE IF Behind(id) = {c} /\ row = rows[id] THEN astray \ {id} ELSE astray
      /\ \E step \in {"done", "failed"} : Ends(c, step)
  BY <1>2 DEF sync_schedule
<1>4. /\ \A d \in Callers \ {c} : calls'[d] = calls[d]
      /\ \A i : c \notin Behind(i)'
      /\ CallsShape'
  BY <1>1, <1>3, Ended DEF IInv
<1>5. DOMAIN entries = Ids /\ DOMAIN entries' = Ids /\ \A i \in Ids \ {id} : entries'[i] = entries[i]
  BY <1>3 DEF IInv, Shape
<1>6. Shape'
  BY <1>1, <1>5 DEF IInv, Shape, Jobs, Full, Ids
<1>7. ASSUME id \notin astray' PROVE Behind(id) = {c} /\ entries'[id] = Wanted(rows'[id])
  <2>1. ~Refused(row)
    BY <1>3, <1>7
  <2>2. Behind(id) = {c} /\ row = rows[id]
    <3>1. CASE id \in astray
      BY <1>3, <1>7, <2>1, <3>1
    <3>2. CASE id \notin astray
      BY <1>1, <1>2, <3>2, Alone DEF Knows
    <3> QED
      BY <3>1, <3>2
  <2>3. entries'[id] = Wanted(row)
    BY <1>3, <1>5, <2>1
  <2> QED
    BY <1>1, <2>2, <2>3
<1>8. Settled(id)'
  BY <1>2, <1>4, <1>7, CatchesUp
<1>9. \A i \in Ids \ {id} : c \notin Behind(i) /\ (i \in astray => i \in astray')
  BY <1>2, <1>3, OwnId
<1> QED
  BY <1>1, <1>4, <1>5, <1>6, <1>8, <1>9, Handled

LEMMA UnscheduleKeeps == ASSUME IInv, NEW c \in Callers, unschedule_job(c) PROVE IInv'
<1>1. calls[c] # Idle /\ calls[c].step = "sent" /\ calls[c].kind = "delete" /\ UNCHANGED <<rows, up, page>>
  BY DEF unschedule_job, At, Idle
<1>2. PICK id \in Ids : id = calls[c].id
  BY <1>1 DEF IInv, CallsShape
<1>3. CASE rows[id] = Gone
  BY <1>1, <1>2, <1>3, GivesUp DEF unschedule_job, BehindSteps
<1>4. CASE rows[id] # Gone
  <2>1. entries' = [entries EXCEPT ![id] = NoCron] /\ Goes(c, "unscheduled") /\ Committed(c, id)
    BY <1>2, <1>4 DEF unschedule_job
  <2>2. /\ \A d \in Callers \ {c} : calls'[d] = calls[d]
        /\ calls'[c] # Idle /\ calls'[c].step = "unscheduled" /\ calls'[c].id = id /\ CallsShape'
    BY <1>1, <1>2, <2>1, Changed DEF IInv, Goes
  <2>3. /\ DOMAIN entries' = Ids /\ entries'[id] = NoCron
        /\ \A i \in Ids \ {id} : entries'[i] = entries[i]
    BY <2>1 DEF IInv, Shape
  <2>4. Shape'
    BY <1>1, <2>3 DEF IInv, Shape, Jobs, Full, Ids
  <2>5. c \in Behind(id)' /\ Knows(calls[c], id)'
    BY <2>2, <2>3, OwnIdNext DEF BehindSteps, Knows
  <2>6. Settled(id)'
    BY <2>1, <2>2, <2>5, BehindAlone
  <2>7. \A i \in Ids \ {id} : c \notin Behind(i) /\ c \notin Behind(i)'
    BY <1>2, <2>2, OwnId, OwnIdNext
  <2>8. \A i \in astray : i \in astray'
    BY <2>1 DEF Committed
  <2> QED
    BY <1>1, <2>2, <2>3, <2>4, <2>6, <2>7, <2>8, Handled
<1> QED
  BY <1>3, <1>4

LEMMA CommitDeleteKeeps == ASSUME IInv, NEW c \in Callers, CommitDelete(c) PROVE IInv'
<1>1. calls[c] # Idle /\ calls[c].step = "unscheduled" /\ UNCHANGED <<entries, up, page, astray>>
  BY DEF CommitDelete, At, Idle
<1>2. PICK id \in Ids : id = calls[c].id /\ c \in Behind(id)
  BY <1>1, OwnId DEF IInv, CallsShape, BehindSteps
<1>3. rows' = [rows EXCEPT ![id] = Gone] /\ Ends(c, "done")
  BY <1>2 DEF CommitDelete
<1>4. /\ \A d \in Callers \ {c} : calls'[d] = calls[d]
      /\ \A i : c \notin Behind(i)'
      /\ CallsShape'
  BY <1>1, <1>3, Ended DEF IInv
<1>5. DOMAIN rows' = Ids /\ rows'[id] = Gone /\ \A i \in Ids \ {id} : rows'[i] = rows[i]
  BY <1>3 DEF IInv, Shape, Jobs
<1>6. Shape'
  BY <1>1, <1>5 DEF IInv, Shape, Jobs, Full, Ids
<1>7. ASSUME id \notin astray' PROVE Behind(id) = {c} /\ entries'[id] = Wanted(rows'[id])
  <2>1. Behind(id) = {c} /\ entries[id] = NoCron
    BY <1>1, <1>2, <1>7, Alone DEF Knows
  <2> QED
    BY <1>1, <1>5, <2>1 DEF Wanted
<1>8. Settled(id)'
  BY <1>2, <1>4, <1>7, CatchesUp
<1>9. \A i \in Ids \ {id} : c \notin Behind(i)
  BY <1>2, OwnId
<1> QED
  BY <1>1, <1>4, <1>5, <1>6, <1>8, <1>9, Handled

LEMMA RaisesKeeps == ASSUME IInv, NEW c \in Callers, Raises(c) PROVE IInv'
<1>1. calls[c] # Idle /\ Ends(c, "failed") /\ UNCHANGED <<rows, entries, up, page>>
  BY DEF Raises, Idle, server
<1>2. CASE calls[c].step \notin BehindSteps
  <2>1. UNCHANGED astray
    BY <1>2 DEF Raises, Behind, BehindSteps
  <2> QED
    BY <1>1, <1>2, <2>1, GivesUp
<1>3. CASE calls[c].step \in BehindSteps
  <2>1. PICK id \in Ids : id = calls[c].id /\ c \in Behind(id)
    BY <1>1, <1>3, OwnId DEF IInv, CallsShape
  <2>2. /\ \A d \in Callers \ {c} : calls'[d] = calls[d]
        /\ \A i : c \notin Behind(i)'
        /\ CallsShape'
    BY <1>1, Ended DEF IInv
  <2>3. astray' = astray \cup {id}
    BY <2>1 DEF Raises
  <2>4. Shape'
    BY <1>1 DEF IInv, Shape, Jobs, Full, Ids
  <2>5. Settled(id)'
    BY <2>3 DEF Settled
  <2>6. \A i \in Ids \ {id} : c \notin Behind(i)
    BY <2>1, OwnId
  <2> QED
    BY <1>1, <2>1, <2>2, <2>3, <2>4, <2>5, <2>6, Handled
<1> QED
  BY <1>2, <1>3

-----------------------------------------------------------------------------
(* Runs and restarts. *)

LEMMA RunEndsKeeps ==
  ASSUME IInv, NEW id \in Ids, NEW success \in BOOLEAN, RunEnds(id, success)
  PROVE  IInv'
<1>1. UNCHANGED <<entries, up, calls, page>> /\ PageShape' /\ CallsShape'
  BY PageStays DEF RunEnds, IInv, CallsShape, Full, Ids
<1>2. CASE UNCHANGED <<rows, astray>>
  BY <1>1, <1>2, Elsewhere
<1>3. CASE rows' = [rows EXCEPT ![id] = Gone] /\ astray' = astray \cup {id}
  <2>1. DOMAIN rows' = Ids /\ rows'[id] = Gone /\ \A i \in Ids \ {id} : rows'[i] = rows[i]
    BY <1>3 DEF IInv, Shape, Jobs
  <2>2. Shape'
    BY <1>1, <2>1 DEF IInv, Shape, Jobs, Full, Ids
  <2>3. Settled(id)'
    BY <1>3 DEF Settled
  <2>4. ASSUME NEW i \in Ids \ {id} PROVE Settled(i)'
    BY <1>1, <1>3, <2>1, Apart DEF IInv
  <2> QED
    BY <1>1, <2>2, <2>3, <2>4 DEF IInv, Ids
<1> QED
  BY <1>2, <1>3 DEF RunEnds

LEMMA RestartKeeps == ASSUME IInv, Restart PROVE IInv'
<1>1. /\ entries' = [id \in Ids |-> IF up' THEN Wanted(rows[id]) ELSE NoCron]
      /\ UNCHANGED <<rows, page>>
  BY DEF Restart
<1>2. Shape' /\ PageShape'
  BY <1>1, PageStays DEF IInv, Shape, Jobs, Full, Ids
<1>3. ASSUME NEW c \in Callers, calls'[c] # Idle
      PROVE  /\ c = "save" /\ calls[c] # Idle
             /\ \/ calls'[c] = [calls[c] EXCEPT !.step = "failed"]
                \/ calls'[c] = calls[c] /\ calls[c].step = "done"
  BY <1>3 DEF Restart
<1>4. DOMAIN calls' = Callers
  BY DEF Restart
<1>5. ASSUME NEW c \in Callers, calls'[c] # Idle
      PROVE  /\ DOMAIN calls'[c] = CallFields /\ calls'[c].kind = calls[c].kind
             /\ calls'[c].id = calls[c].id /\ calls'[c].body = calls[c].body
             /\ calls'[c].step \in {"failed", "done"}
  <2>1. DOMAIN calls[c] = CallFields
    BY <1>3, <1>5 DEF IInv, CallsShape
  <2> QED
    BY <1>3, <1>5, <2>1 DEF CallFields
<1>6. CallsShape'
  BY <1>3, <1>4, <1>5 DEF IInv, CallsShape, BehindSteps, Full
<1>7. ASSUME NEW id \in Ids PROVE Behind(id)' = {}
  BY <1>5 DEF Behind, On
<1>8. ASSUME NEW id \in Ids, up' PROVE entries'[id] = Wanted(rows[id])'
  BY <1>1, <1>8 DEF Wanted
<1>9. ASSUME NEW id \in Ids PROVE Settled(id)'
  BY <1>7, <1>8, <1>9 DEF Settled
<1> QED
  BY <1>2, <1>6, <1>9 DEF IInv, Ids

-----------------------------------------------------------------------------
LEMMA Inductive == IInv /\ [Next]_vars => IInv'
<1> SUFFICES ASSUME IInv, [Next]_vars PROVE IInv'
  OBVIOUS
<1>1. ASSUME UNCHANGED <<rows, entries, up, calls, page, astray>> PROVE IInv'
  <2>1. PageShape' /\ CallsShape'
    BY <1>1, PageStays DEF IInv, CallsShape, Full, Ids
  <2> QED
    BY <1>1, <2>1, Elsewhere
<1>2. CASE UNCHANGED vars
  BY <1>1, <1>2 DEF vars, server
<1>3. ASSUME NEW c \in Callers, Handling(c) PROVE IInv'
  BY <1>3, LoadKeeps, CommitUpdateKeeps, CommitCreateKeeps, RefreshKeeps, SyncKeeps,
     UnscheduleKeeps, CommitDeleteKeeps, RaisesKeeps DEF Handling
<1>4. ASSUME NEW id \in Ids, execute_job(id) PROVE IInv'
  BY <1>1, <1>4 DEF execute_job
<1> QED
  BY <1>2, <1>3, <1>4, UsingKeeps, RunEndsKeeps, RestartKeeps DEF Next, Running

\* The scheduler has the entry that the row of a job asks for (jobs.py:104-145,
\* scheduler.py), whenever no request about the job is at work and the id is not astray.
THEOREM Followed == Spec => []EntriesFollowRows
<1>1. IInv => EntriesFollowRows
  <2> SUFFICES ASSUME IInv, up, NEW id \in Ids, On(id) = {}, id \notin astray
               PROVE  entries[id] = Wanted(rows[id])
    BY DEF EntriesFollowRows
  <2>1. Behind(id) = {}
    BY DEF Behind
  <2> QED
    BY <2>1 DEF IInv, Settled
<1> QED
  BY <1>1, InitSettled, Inductive, PTL DEF Spec

-----------------------------------------------------------------------------
(* What requests ask for. *)

LEMMA JobFields ==
  /\ DOMAIN EMPTY_FORM = {"operation", "sources", "targets", "cron", "enabled", "delete_on_success"}
  /\ EMPTY_FORM \in Job
  /\ \A row \in Job : DOMAIN row = DOMAIN EMPTY_FORM /\ row # Gone
  /\ \A row \in Job : Copied(row) \in Job
<1>1. DOMAIN EMPTY_FORM = {"operation", "sources", "targets", "cron", "enabled", "delete_on_success"}
  BY DEF EMPTY_FORM
<1>2. EMPTY_FORM \in Job
  BY DEF EMPTY_FORM, Job, Crons
<1>3. ASSUME NEW row \in Job PROVE DOMAIN row = DOMAIN EMPTY_FORM /\ row # Gone
  <2>1. DOMAIN row = DOMAIN EMPTY_FORM
    BY <1>1 DEF Job
  <2>2. DOMAIN Gone = {"operation"}
    BY DEF Gone
  <2> QED
    BY <1>1, <2>1, <2>2
<1>4. ASSUME NEW row \in Job PROVE Copied(row) \in Job
  BY DEF Copied, Job, Crons, NoCron
<1> QED
  BY <1>1, <1>2, <1>3, <1>4

LEMMA Forms == \A form \in Contents : form \in Job
BY JobsPageAssumption

\* What a request does to another field than it names.
LEMMA SentFields ==
  ASSUME NEW form \in Job
  PROVE  /\ DOMAIN Sent(form) \subseteq DOMAIN EMPTY_FORM
         /\ {"operation", "sources", "targets"} \subseteq DOMAIN Sent(form)
         /\ \A f \in DOMAIN Sent(form) : Sent(form)[f] = form[f]
<1>1. DOMAIN form = DOMAIN EMPTY_FORM
  BY JobFields
<1> QED
  BY <1>1, JobFields DEF Sent

\* Any body of an update has the fields of a job, and so has what becomes of a row.
LEMMA BodyFields ==
  ASSUME NEW body, FormSent(body) \/ SwitchSent(body)
  PROVE  \E job \in Job : \A f \in DOMAIN body : f \in DOMAIN EMPTY_FORM /\ body[f] = job[f]
<1>1. CASE FormSent(body)
  <2>1. PICK form \in Job : body = Sent(form)
    BY <1>1 DEF FormSent
  <2> QED
    BY <2>1, SentFields
<1>2. ASSUME NEW on \in BOOLEAN, body = [enabled |-> on]
      PROVE  \E job \in Job : \A f \in DOMAIN body : f \in DOMAIN EMPTY_FORM /\ body[f] = job[f]
  <2> DEFINE job == [EMPTY_FORM EXCEPT !.enabled = on]
  <2>1. job \in Job /\ job.enabled = on
    BY JobFields DEF Job, EMPTY_FORM, Crons
  <2>2. DOMAIN body = {"enabled"} /\ body.enabled = on /\ "enabled" \in DOMAIN EMPTY_FORM
    BY <1>2, JobFields
  <2> QED
    BY <2>1, <2>2
<1> QED
  BY <1>1, <1>2 DEF SwitchSent

LEMMA MergeFields ==
  ASSUME NEW row \in Job, NEW read, NEW body
  PROVE  /\ DOMAIN Merge(row, Changes(read, body)) = DOMAIN EMPTY_FORM
         /\ \A f \in DOMAIN EMPTY_FORM :
              Merge(row, Changes(read, body))[f] =
                IF f \in DOMAIN body /\ body[f] # read[f] THEN body[f] ELSE row[f]
<1>1. DOMAIN row = DOMAIN EMPTY_FORM
  BY JobFields
<1>2. /\ DOMAIN Changes(read, body) = {f \in DOMAIN body : body[f] # read[f]}
      /\ \A f \in DOMAIN Changes(read, body) : Changes(read, body)[f] = body[f]
  BY DEF Changes
<1> QED
  BY <1>1, <1>2 DEF Merge

\* What an update makes of a job is a job.
LEMMA MergeTyped ==
  ASSUME NEW row \in Job, NEW read, NEW body, FormSent(body) \/ SwitchSent(body)
  PROVE  Merge(row, Changes(read, body)) \in Job
<1>1. PICK job \in Job : \A f \in DOMAIN body : f \in DOMAIN EMPTY_FORM /\ body[f] = job[f]
  BY BodyFields
<1> DEFINE new == Merge(row, Changes(read, body))
<1>2. DOMAIN new = DOMAIN EMPTY_FORM
      /\ \A f \in DOMAIN EMPTY_FORM : new[f] \in {job[f], row[f]}
  BY <1>1, MergeFields
<1>3. new = [f \in DOMAIN new |-> new[f]]
  BY DEF Merge
<1>4. /\ new.operation \in {"copy", "delete"} /\ new.sources \in BOOLEAN /\ new.targets \in BOOLEAN
      /\ new.cron \in Crons /\ new.enabled \in BOOLEAN /\ new.delete_on_success \in BOOLEAN
  BY <1>2, JobFields DEF Job
<1> QED
  BY <1>2, <1>3, <1>4, JobFields DEF Job

\* A request that goes on, or ends, asks for what it asked for; a new one is checked.
GoesOn(c) ==
  /\ calls[c] # Idle
  /\ calls'[c].kind = calls[c].kind /\ calls'[c].body = calls[c].body
  /\ calls'[c].read = calls[c].read
  /\ calls'[c].id \in {NoId} \cup Ids /\ calls'[c].row \in Job \cup {Gone}

Begins(c) ==
  /\ calls'[c].kind \in {"create", "update", "delete"} /\ Asks(calls'[c])
  /\ c = "save" /\ calls'[c].kind = "update" => calls'[c].read \in Job
  /\ calls'[c].id \in {NoId} \cup Ids /\ calls'[c].row = Gone

LEMMA Goings ==
  ASSUME CallsShape, TypeOK, NEW c \in Callers, calls[c] # Idle, NEW step, NEW row \in Job \cup {Gone},
         \/ calls' = [calls EXCEPT ![c].step = step]
         \/ calls' = [calls EXCEPT ![c].step = step, ![c].row = row]
         \/ calls' = [calls EXCEPT ![c] = Idle]
  PROVE  \A d \in Callers : calls'[d] = calls[d] \/ calls'[d] = Idle \/ GoesOn(d)
<1>1. DOMAIN calls = Callers /\ DOMAIN calls[c] = CallFields
  BY DEF CallsShape
<1>2. \A d \in Callers \ {c} : calls'[d] = calls[d]
  BY <1>1
<1>3. CASE calls' = [calls EXCEPT ![c] = Idle]
  BY <1>1, <1>2, <1>3
<1>4. CASE \/ calls' = [calls EXCEPT ![c].step = step]
           \/ calls' = [calls EXCEPT ![c].step = step, ![c].row = row]
  <2>1. \/ calls'[c] = [calls[c] EXCEPT !.step = step]
        \/ calls'[c] = [calls[c] EXCEPT !.step = step, !.row = row]
    BY <1>1, <1>4
  <2>2. /\ calls'[c].kind = calls[c].kind /\ calls'[c].body = calls[c].body
        /\ calls'[c].read = calls[c].read /\ calls'[c].id = calls[c].id
        /\ calls'[c].row \in {calls[c].row, row}
    BY <1>1, <2>1 DEF CallFields
  <2>3. GoesOn(c)
    BY <2>2 DEF GoesOn, TypeOK
  <2> QED
    BY <1>2, <2>3
<1> QED
  BY <1>3, <1>4

LEMMA Beginnings ==
  ASSUME CallsShape, NEW c \in Callers, NEW kind \in {"create", "update", "delete"},
         NEW id \in {NoId} \cup Ids, NEW body, Ask(c, kind, id, body),
         Asks([kind |-> kind, body |-> body]),
         c = "save" /\ kind = "update" => dialog.row \in Job
  PROVE  \A d \in Callers : calls'[d] = calls[d] \/ Begins(d)
<1>1. /\ calls'[c] = Request(c, kind, id, body)
      /\ \A d \in Callers \ {c} : calls'[d] = calls[d]
  BY DEF Ask, CallsShape
<1>2. /\ calls'[c].kind = kind /\ calls'[c].body = body /\ calls'[c].id = id
      /\ calls'[c].row = Gone /\ (c = "save" => calls'[c].read = dialog.row)
  BY <1>1 DEF Request
<1>3. Asks(calls'[c])
  BY <1>2 DEF Asks
<1>4. Begins(c)
  BY <1>2, <1>3 DEF Begins
<1> QED
  BY <1>1, <1>4

\* What the requests of the next state need, step by step.
LEMMA CallsAsk ==
  ASSUME AskInv, \A c \in Callers : calls'[c] \in {calls[c], Idle} \/ GoesOn(c) \/ Begins(c)
  PROVE  /\ \A c \in Callers : calls'[c] # Idle =>
              /\ calls'[c].kind \in {"create", "update", "delete"}
              /\ calls'[c].id \in {NoId} \cup Ids
              /\ calls'[c].row \in Job \cup {Gone}
              /\ Asks(calls'[c])
         /\ calls'["save"] # Idle /\ calls'["save"].kind = "update" => calls'["save"].read \in Job
<1>1. ASSUME NEW c \in Callers, calls'[c] # Idle
      PROVE  /\ calls'[c].kind \in {"create", "update", "delete"}
             /\ calls'[c].id \in {NoId} \cup Ids
             /\ calls'[c].row \in Job \cup {Gone}
             /\ Asks(calls'[c])
             /\ c = "save" /\ calls'[c].kind = "update" => calls'[c].read \in Job
  <2>1. CASE calls'[c] = calls[c]
    BY <1>1, <2>1 DEF AskInv, TypeOK
  <2>2. CASE GoesOn(c)
    <3>1. Asks(calls[c]) => Asks(calls'[c])
      BY <2>2 DEF Asks, GoesOn
    <3> QED
      BY <2>2, <3>1 DEF GoesOn, AskInv, TypeOK
  <2>3. CASE Begins(c)
    BY <2>3 DEF Begins
  <2> QED
    BY <1>1, <2>1, <2>2, <2>3
<1> QED
  BY <1>1 DEF Callers

LEMMA UsingAsks ==
  ASSUME IInv, AskInv, Using
  PROVE  \A c \in Callers : calls'[c] \in {calls[c], Idle} \/ GoesOn(c) \/ Begins(c)
<1>1. CallsShape /\ dialog.form \in Job /\ dialog.editing \in {NoId} \cup Ids
      /\ (dialog.editing # NoId => dialog.row \in Job)
  BY DEF IInv, AskInv, TypeOK
<1>2. "save" \in Callers /\ "switch" \in Callers /\ "remove" \in Callers /\ "other" \in Callers
  BY DEF Callers
<1>3. CASE handleSave
  <2>1. Asks([kind |-> "create", body |-> dialog.form])
    BY <1>1, <1>3 DEF handleSave, Asks
  <2>2. Asks([kind |-> "update", body |-> Sent(dialog.form)])
    BY <1>1, <1>3 DEF handleSave, Asks, FormSent
  <2>3. CASE dialog.editing = NoId
    <3>1. Ask("save", "create", NoId, dialog.form)
      BY <1>3, <2>3 DEF handleSave
    <3> QED
      BY <1>1, <1>2, <2>1, <3>1, Beginnings
  <2>4. CASE dialog.editing # NoId
    <3>1. Ask("save", "update", dialog.editing, Sent(dialog.form))
      BY <1>3, <2>4 DEF handleSave
    <3> QED
      BY <1>1, <1>2, <2>2, <2>4, <3>1, Beginnings
  <2> QED
    BY <2>3, <2>4
<1>4. CASE SaveAnswered
  BY <1>1, <1>4 DEF SaveAnswered, CallsShape
<1>5. ASSUME NEW id \in Ids, enabledSwitch(id)
      PROVE  \A c \in Callers : calls'[c] = calls[c] \/ Begins(c)
  <2>1. list[id].enabled \in BOOLEAN
    BY <1>5 DEF enabledSwitch, AskInv, TypeOK, Job
  <2>2. Asks([kind |-> "update", body |-> [enabled |-> ~list[id].enabled]])
    BY <2>1 DEF Asks, SwitchSent
  <2> QED
    BY <1>1, <1>2, <1>5, <2>2, Beginnings DEF enabledSwitch
<1>6. CASE ConfirmDelete
  <2>1. Asks([kind |-> "delete", body |-> <<>>])
    BY DEF Asks
  <2>2. target \in {NoId} \cup Ids
    BY DEF AskInv, TypeOK
  <2>3. CASE Ask("remove", "delete", target, <<>>)
    BY <1>1, <1>2, <2>1, <2>2, <2>3, Beginnings
  <2> QED
    BY <1>6, <2>3 DEF ConfirmDelete
<1>7. ASSUME NEW id \in Ids, Other(id)
      PROVE  \A c \in Callers : calls'[c] = calls[c] \/ Begins(c)
  <2>1. CASE Ask("other", "delete", id, <<>>)
    <3>1. Asks([kind |-> "delete", body |-> <<>>])
      BY DEF Asks
    <3> QED
      BY <1>1, <1>2, <2>1, <3>1, Beginnings
  <2>2. ASSUME NEW form \in Contents, ~jobErrors(form), Ask("other", "update", id, Sent(form))
        PROVE  \A c \in Callers : calls'[c] = calls[c] \/ Begins(c)
    <3>1. Asks([kind |-> "update", body |-> Sent(form)])
      BY <2>2, Forms DEF Asks, FormSent
    <3> QED
      BY <1>1, <1>2, <2>2, <3>1, Beginnings
  <2> QED
    BY <1>7, <2>1, <2>2 DEF Other
<1>8. CASE \/ ListArrives \/ openCreate \/ Close
           \/ \E form \in Contents : Edit(form)
           \/ \E id \in Ids : openEdit(id) \/ setDeleteTarget(id)
  BY <1>8 DEF ListArrives, openCreate, Close, Edit, openEdit, setDeleteTarget
<1> QED
  BY <1>3, <1>4, <1>5, <1>6, <1>7, <1>8 DEF Using

LEMMA HandlingAsks ==
  ASSUME IInv, AskInv, NEW c \in Callers, Handling(c)
  PROVE  \A d \in Callers : calls'[d] \in {calls[d], Idle} \/ GoesOn(d)
<1>1. CallsShape /\ TypeOK
  BY DEF IInv, AskInv
<1>2. calls[c] # Idle
  BY DEF Handling, Load, CommitUpdate, Refresh, sync_schedule, unschedule_job, CommitDelete,
         CommitCreate, Raises, At, Idle
<1>3. ASSUME NEW step, Goes(c, step) \/ Ends(c, step)
      PROVE  \A d \in Callers : calls'[d] \in {calls[d], Idle} \/ GoesOn(d)
  BY <1>1, <1>2, <1>3, Goings DEF Goes, Ends
<1>4. ASSUME NEW step, calls[c].id \in Ids,
             calls' = [calls EXCEPT ![c].step = step, ![c].row = rows[calls[c].id]]
      PROVE  \A d \in Callers : calls'[d] \in {calls[d], Idle} \/ GoesOn(d)
  <2>1. rows[calls[c].id] \in Job \cup {Gone}
    BY <1>1, <1>4 DEF TypeOK
  <2> QED
    BY <1>1, <1>2, <1>4, <2>1, Goings
<1>5. CASE Load(c)
  <2>1. calls[c].id \in Ids
    BY <1>1, <1>2, <1>5 DEF Load, At, CallsShape
  <2> QED
    BY <1>3, <1>4, <1>5, <2>1 DEF Load
<1>6. CASE Refresh(c)
  <2>1. calls[c].id \in Ids
    BY <1>1, <1>2, <1>6 DEF Refresh, CallsShape, BehindSteps
  <2> QED
    BY <1>3, <1>4, <1>6, <2>1 DEF Refresh
<1>7. CASE CommitUpdate(c)
  BY <1>3, <1>7 DEF CommitUpdate
<1>8. CASE sync_schedule(c)
  BY <1>3, <1>8 DEF sync_schedule
<1>9. CASE unschedule_job(c)
  BY <1>3, <1>9 DEF unschedule_job
<1>10. CASE CommitDelete(c)
  BY <1>3, <1>10 DEF CommitDelete
<1>11. ASSUME NEW id \in Ids, CommitCreate(c, id)
       PROVE  \A d \in Callers : calls'[d] = calls[d] \/ GoesOn(d)
  <2>1. /\ calls' = [calls EXCEPT ![c].step = "committed", ![c].id = id]
        /\ DOMAIN calls = Callers /\ DOMAIN calls[c] = CallFields
    BY <1>1, <1>2, <1>11 DEF CommitCreate, CallsShape
  <2>2. /\ calls'[c] = [calls[c] EXCEPT !.step = "committed", !.id = id]
        /\ \A d \in Callers \ {c} : calls'[d] = calls[d]
    BY <2>1
  <2>3. GoesOn(c)
    BY <1>1, <1>2, <2>1, <2>2 DEF GoesOn, TypeOK, CallFields
  <2> QED
    BY <2>2, <2>3
<1>12. CASE Raises(c)
  BY <1>3, <1>12 DEF Raises
<1> QED
  BY <1>5, <1>6, <1>7, <1>8, <1>9, <1>10, <1>11, <1>12 DEF Handling

LEMMA RunningAsks ==
  ASSUME IInv, AskInv, Running
  PROVE  \A c \in Callers : calls'[c] \in {calls[c], Idle} \/ GoesOn(c)
<1>1. CASE Restart
  <2>1. ASSUME NEW c \in Callers PROVE calls'[c] \in {calls[c], Idle} \/ GoesOn(c)
    <3>1. \/ calls'[c] \in {calls[c], Idle}
          \/ calls[c] # Idle /\ calls'[c] = [calls[c] EXCEPT !.step = "failed"]
      BY <1>1 DEF Restart
    <3>2. CASE calls[c] # Idle /\ calls'[c] = [calls[c] EXCEPT !.step = "failed"]
      <4>1. DOMAIN calls[c] = CallFields
        BY <3>2 DEF IInv, CallsShape
      <4> QED
        BY <3>2, <4>1 DEF GoesOn, AskInv, TypeOK, CallFields
    <3> QED
      BY <3>1, <3>2
  <2> QED
    BY <2>1
<1> QED
  BY <1>1 DEF Running, execute_job, RunEnds

\* What a step may make of the table, the scheduler, the runs and the counter.
LEMMA ServerTyped ==
  ASSUME IInv, AskInv, Next
  PROVE  /\ rows' \in [Ids -> Job \cup {Gone}] /\ runs' \in [Ids -> {"none", "keep", "delete"}]
         /\ entries' \in [Ids -> Crons] /\ up' \in BOOLEAN
         /\ count' \in 0 .. MaxCalls /\ astray' \subseteq Ids
<1> DEFINE Typed == /\ rows' \in [Ids -> Job \cup {Gone}]
                    /\ runs' \in [Ids -> {"none", "keep", "delete"}]
                    /\ entries' \in [Ids -> Crons] /\ up' \in BOOLEAN
                    /\ count' \in 0 .. MaxCalls /\ astray' \subseteq Ids
<1>1. /\ rows \in [Ids -> Job \cup {Gone}] /\ runs \in [Ids -> {"none", "keep", "delete"}]
      /\ entries \in [Ids -> Crons] /\ up \in BOOLEAN
      /\ count \in 0 .. MaxCalls /\ astray \subseteq Ids /\ MaxCalls \in Nat
  BY JobsPageAssumption DEF AskInv, TypeOK
<1>2. \A row \in Job \cup {Gone} : Wanted(row) \in Crons
  BY DEF Wanted, Job, Crons, NoCron
<1>3. CASE Using
  <2>1. UNCHANGED <<rows, entries, up, runs, astray>>
    BY <1>3 DEF Using, ListArrives, openCreate, Close, handleSave, SaveAnswered, ConfirmDelete, Edit,
           openEdit, enabledSwitch, setDeleteTarget, Other, server, page, Opened
  <2>2. count' = count \/ (count < MaxCalls /\ count' = count + 1)
    BY <1>3 DEF Using, ListArrives, openCreate, Close, handleSave, SaveAnswered, ConfirmDelete, Edit,
           openEdit, enabledSwitch, setDeleteTarget, Other, Ask
  <2>3. count' \in 0 .. MaxCalls
    BY <1>1, <2>2
  <2> QED
    BY <1>1, <2>1, <2>3
<1>4. ASSUME NEW c \in Callers, Handling(c) PROVE Typed
  <2>1. UNCHANGED <<up, runs>> /\ count' \in 0 .. MaxCalls
    <3>1. UNCHANGED <<up, runs>> /\ (UNCHANGED count \/ (count < MaxCalls /\ count' = count + 1))
      BY <1>4 DEF Handling, Load, CommitUpdate, Refresh, sync_schedule, unschedule_job, CommitDelete,
             CommitCreate, Raises, server
    <3> QED
      BY <1>1, <3>1
  <2>2. calls[c] # Idle
    BY <1>4 DEF Handling, Load, CommitUpdate, Refresh, sync_schedule, unschedule_job, CommitDelete,
           CommitCreate, Raises, At, Idle
  <2>3. /\ calls[c].kind # "create" \/ calls[c].step \in BehindSteps => calls[c].id \in Ids
        /\ calls[c].row \in Job \cup {Gone} /\ Asks(calls[c])
    BY <2>2 DEF AskInv, TypeOK, IInv, CallsShape
  <2>4. ASSUME NEW id \in Ids, Committed(c, id) PROVE astray' \subseteq Ids
    BY <1>1, <2>4 DEF Committed
  <2>5. CASE Load(c) \/ Refresh(c)
    BY <1>1, <2>1, <2>5 DEF Load, Refresh, server
  <2>6. CASE CommitUpdate(c)
    <3>1. calls[c].id \in Ids /\ calls[c].kind = "update" /\ UNCHANGED entries
      BY <2>3, <2>6 DEF CommitUpdate, At
    <3>2. FormSent(calls[c].body) \/ SwitchSent(calls[c].body)
      BY <2>3, <3>1 DEF Asks
    <3>3. CASE UNCHANGED <<rows, astray>>
      BY <1>1, <2>1, <3>1, <3>3
    <3>4. CASE /\ rows[calls[c].id] # Gone /\ Committed(c, calls[c].id)
               /\ rows' = [rows EXCEPT ![calls[c].id] = Merge(@, Changes(calls[c].row, calls[c].body))]
      <4>1. Merge(rows[calls[c].id], Changes(calls[c].row, calls[c].body)) \in Job
        BY <1>1, <3>1, <3>2, <3>4, MergeTyped
      <4>2. rows' \in [Ids -> Job \cup {Gone}]
        BY <1>1, <3>1, <3>4, <4>1
      <4> QED
        BY <1>1, <2>1, <2>4, <3>1, <3>4, <4>2
    <3> QED
      BY <2>6, <3>3, <3>4 DEF CommitUpdate
  <2>7. ASSUME NEW id \in Ids, CommitCreate(c, id) PROVE Typed
    <3>1. /\ calls[c].body \in Job /\ rows' = [rows EXCEPT ![id] = calls[c].body]
          /\ UNCHANGED entries /\ Committed(c, id)
      BY <2>3, <2>7 DEF CommitCreate, At, Asks
    <3> QED
      BY <1>1, <2>1, <2>4, <3>1
  <2>8. CASE sync_schedule(c)
    <3>1. calls[c].id \in Ids /\ UNCHANGED rows /\ Wanted(calls[c].row) \in Crons
      BY <1>2, <2>3, <2>8 DEF sync_schedule, BehindSteps
    <3>2. /\ entries' = [entries EXCEPT ![calls[c].id] = IF Refused(calls[c].row) THEN @
                                                       ELSE Wanted(calls[c].row)]
          /\ astray' \subseteq astray \cup {calls[c].id}
      BY <2>8 DEF sync_schedule
    <3> QED
      BY <1>1, <2>1, <3>1, <3>2
  <2>9. CASE unschedule_job(c)
    <3>1. calls[c].id \in Ids /\ UNCHANGED rows
      BY <2>3, <2>9 DEF unschedule_job, At
    <3>2. \/ UNCHANGED <<entries, astray>>
          \/ entries' = [entries EXCEPT ![calls[c].id] = NoCron] /\ Committed(c, calls[c].id)
      BY <2>9 DEF unschedule_job
    <3>3. entries' \in [Ids -> Crons] /\ astray' \subseteq Ids
      BY <1>1, <2>4, <3>1, <3>2 DEF Crons
    <3> QED
      BY <1>1, <2>1, <3>1, <3>3
  <2>10. CASE CommitDelete(c)
    BY <1>1, <2>1, <2>10 DEF CommitDelete
  <2>11. CASE Raises(c)
    <3>1. UNCHANGED <<rows, entries, up, runs>>
      BY <2>11 DEF Raises, server
    <3>2. astray' \subseteq Ids
      <4>1. CASE UNCHANGED astray
        BY <1>1, <4>1
      <4>2. CASE c \in Behind(calls[c].id)
        BY <1>1, <2>3, <2>11, <4>2 DEF Raises, Behind, BehindSteps
      <4> QED
        BY <2>11, <4>1, <4>2 DEF Raises
    <3> QED
      BY <1>1, <2>1, <3>1, <3>2
  <2> QED
    BY <1>4, <2>5, <2>6, <2>7, <2>8, <2>9, <2>10, <2>11 DEF Handling
<1>5. CASE Restart
  <2>1. /\ entries' = [id \in Ids |-> IF up' THEN Wanted(rows[id]) ELSE NoCron]
        /\ runs' = [id \in Ids |-> "none"] /\ rows' = rows /\ astray' = {}
        /\ count < MaxCalls /\ count' = count + 1
        /\ up' = (\A id \in Ids : ~Refused(rows[id]))
    BY <1>5 DEF Restart
  <2>2. entries' \in [Ids -> Crons]
    BY <1>1, <1>2, <2>1 DEF Crons
  <2>3. count' \in 0 .. MaxCalls /\ up' \in BOOLEAN
    BY <1>1, <2>1
  <2> QED
    BY <1>1, <2>1, <2>2, <2>3
<1>6. ASSUME NEW id \in Ids, execute_job(id) PROVE Typed
  BY <1>1, <1>6 DEF execute_job
<1>7. ASSUME NEW id \in Ids, NEW success \in BOOLEAN, RunEnds(id, success) PROVE Typed
  BY <1>1, <1>7 DEF RunEnds
<1> QED
  BY <1>3, <1>4, <1>5, <1>6, <1>7 DEF Next, Running

LEMMA PageTyped ==
  ASSUME IInv, AskInv, Next
  PROVE  /\ list' \in [Ids -> Job \cup {Gone}] /\ target' \in {NoId} \cup Ids
         /\ dialog' \in [open : BOOLEAN, editing : {NoId} \cup Ids, form : Job,
                        row : Job \cup {Gone}]
         /\ dialog'.editing # NoId => dialog'.row # Gone
<1> DEFINE Dialogs == [open : BOOLEAN, editing : {NoId} \cup Ids, form : Job, row : Job \cup {Gone}]
           Typed == /\ list' \in [Ids -> Job \cup {Gone}] /\ target' \in {NoId} \cup Ids
                    /\ dialog' \in Dialogs
                    /\ dialog'.editing # NoId => dialog'.row # Gone
<1>1. /\ list \in [Ids -> Job \cup {Gone}] /\ target \in {NoId} \cup Ids
      /\ rows \in [Ids -> Job \cup {Gone}] /\ dialog \in Dialogs
      /\ dialog.editing # NoId => dialog.row # Gone
  BY DEF AskInv, TypeOK
<1>2. CASE UNCHANGED page
  BY <1>1, <1>2 DEF page
<1>3. CASE ListArrives \/ \E id \in Ids : setDeleteTarget(id)
  BY <1>1, <1>3 DEF ListArrives, setDeleteTarget
<1>4. CASE dialog' = Blank /\ UNCHANGED <<list, target>>
  BY <1>1, <1>4, JobFields DEF Blank
<1>5. CASE openCreate
  BY <1>1, <1>5, JobFields DEF openCreate, Opened
<1>6. ASSUME NEW id \in Ids, openEdit(id) PROVE Typed
  <2>1. list[id] \in Job /\ Copied(list[id]) \in Job /\ list[id] # Gone
    BY <1>1, <1>6, JobFields DEF openEdit
  <2> QED
    BY <1>1, <1>6, <2>1 DEF openEdit, Opened
<1>7. ASSUME NEW form \in Contents, Edit(form) PROVE Typed
  BY <1>1, <1>7, Forms DEF Edit
<1>8. CASE ConfirmDelete
  BY <1>1, <1>8 DEF ConfirmDelete
<1>9. CASE SaveAnswered
  BY <1>1, <1>4, <1>9 DEF SaveAnswered
<1>10. CASE (\E c \in Callers : Handling(c)) \/ Running
  BY <1>2, <1>10 DEF Handling, Load, CommitUpdate, Refresh, sync_schedule, unschedule_job,
     CommitDelete, CommitCreate, Raises, Running, execute_job, RunEnds, Restart
<1>11. CASE Close
  BY <1>4, <1>11 DEF Close
<1>12. CASE handleSave \/ \E id \in Ids : enabledSwitch(id) \/ Other(id)
  BY <1>2, <1>12 DEF handleSave, enabledSwitch, Other
<1> QED
  BY <1>3, <1>5, <1>6, <1>7, <1>8, <1>9, <1>10, <1>11, <1>12 DEF Next, Using

LEMMA AskInit == Init => AskInv
<1> SUFFICES ASSUME Init PROVE AskInv
  OBVIOUS
<1>1. dialog \in [open : BOOLEAN, editing : {NoId} \cup Ids, form : Job, row : Job \cup {Gone}]
  BY JobFields DEF Init, Blank
<1>2. /\ entries \in [Ids -> Crons] /\ count \in 0 .. MaxCalls
  BY JobsPageAssumption DEF Init, Crons
<1>3. \A c \in Callers : calls[c] = Idle
  BY DEF Init
<1>4. dialog.editing = NoId
  BY DEF Init, Blank
<1> QED
  BY <1>1, <1>2, <1>3, <1>4 DEF Init, AskInv, TypeOK, Callers

LEMMA AskInductive == ASSUME IInv, AskInv, [Next]_vars PROVE AskInv'
<1>1. CASE UNCHANGED vars
  BY <1>1 DEF vars, server, page, AskInv, TypeOK, Asks
<1>2. CASE Next
  <2>1. \A c \in Callers : calls'[c] \in {calls[c], Idle} \/ GoesOn(c) \/ Begins(c)
    BY <1>2, UsingAsks, HandlingAsks, RunningAsks DEF Next
  <2>2. /\ \A c \in Callers : calls'[c] # Idle =>
             /\ calls'[c].kind \in {"create", "update", "delete"}
             /\ calls'[c].id \in {NoId} \cup Ids
             /\ calls'[c].row \in Job \cup {Gone}
             /\ Asks(calls'[c])
        /\ calls'["save"] # Idle /\ calls'["save"].kind = "update" => calls'["save"].read \in Job
    BY <2>1, CallsAsk
  <2>3. \A c \in Callers : Asks(calls'[c]) <=> Asks(calls[c])'
    BY DEF Asks
  <2> QED
    BY <1>2, <2>2, <2>3, ServerTyped, PageTyped DEF AskInv, TypeOK
<1> QED
  BY <1>1, <1>2

\* Tables, scheduler, page and requests are well typed, for any number of jobs, forms
\* and requests: no field of a job is lost or gets the value of another one.
THEOREM JobsTypes == Spec => []TypeOK
<1>1. IInv /\ AskInv /\ [Next]_vars => (IInv /\ AskInv)'
  BY Inductive, AskInductive
<1>2. AskInv => TypeOK
  BY DEF AskInv
<1> QED
  BY <1>1, <1>2, InitSettled, AskInit, PTL DEF Spec

-----------------------------------------------------------------------------
(* What a save writes, and what it leaves behind. *)

\* The one step in which a save of the dialog is committed.
LEMMA SavedIs ==
  ASSUME IInv, AskInv, [Next]_vars, NEW id \in Ids, Saved(id)
  PROVE  /\ rows[id] \in Job
         /\ rows'[id] = Merge(rows[id], Changes(calls["save"].row, calls["save"].body))
<1>1. /\ calls["save"].step = "loaded" /\ calls["save"].id = id /\ calls'["save"].step = "committed"
      /\ calls["save"].kind = "update"
  BY DEF Saved, At
<1>2. calls["save"] # Idle /\ "save" \in Callers
  BY <1>1 DEF Idle, Callers
<1>3. calls'["save"] # calls["save"] /\ calls'["save"] # Idle
  BY <1>1 DEF Idle
<1>4. DOMAIN calls = Callers /\ DOMAIN calls["save"] = CallFields
  BY <1>2 DEF IInv, CallsShape
<1>5. ~Running
  BY <1>1, <1>2, <1>3, <1>4 DEF Running, Restart, execute_job, RunEnds, CallFields
<1>6. ~Using
  <2>1. ASSUME NEW c \in Callers, NEW kind, NEW i, NEW body, Ask(c, kind, i, body) PROVE FALSE
    BY <1>1, <1>2, <1>3, <1>4, <2>1 DEF Ask
  <2> QED
    BY <1>1, <1>3, <1>4, <2>1 DEF Using, ListArrives, openCreate, Close, handleSave, SaveAnswered,
       ConfirmDelete, Edit, openEdit, enabledSwitch, setDeleteTarget, Other, Callers
<1>7. PICK c \in Callers : Handling(c)
  BY <1>3, <1>5, <1>6 DEF Next, vars
<1>8. c = "save"
  <2>1. calls[c] # Idle
    BY <1>7 DEF Handling, Load, CommitUpdate, Refresh, sync_schedule, unschedule_job, CommitDelete,
           CommitCreate, Raises, At, Idle
  <2>2. \E step, row, i : \/ calls' = [calls EXCEPT ![c].step = step]
                          \/ calls' = [calls EXCEPT ![c].step = step, ![c].row = row]
                          \/ calls' = [calls EXCEPT ![c].step = step, ![c].id = i]
                          \/ calls' = [calls EXCEPT ![c] = Idle]
    BY <1>7 DEF Handling, Load, CommitUpdate, Refresh, sync_schedule, unschedule_job, CommitDelete,
           CommitCreate, Raises, Goes, Ends
  <2> QED
    BY <1>2, <1>3, <1>4, <2>2
<1>9. CommitUpdate("save")
  <2>1. CASE Raises("save")
    BY <1>1, <1>2, <1>4, <2>1 DEF Raises, Ends, Goes, CallFields
  <2> QED
    BY <1>1, <1>7, <1>8, <2>1 DEF Handling, Load, Refresh, sync_schedule, unschedule_job, CommitDelete,
       CommitCreate, At
<1>10. rows[id] # Gone
  <2>1. CASE rows[id] = Gone
    BY <1>1, <1>2, <1>4, <1>9, <2>1 DEF CommitUpdate, Ends, Goes, CallFields
  <2> QED
    BY <2>1
<1>11. rows \in [Ids -> Job \cup {Gone}]
  BY DEF AskInv, TypeOK
<1> QED
  BY <1>1, <1>9, <1>10, <1>11 DEF CommitUpdate

(***************************************************************************)
(* A save of the dialog does to each field what Written says: what the     *)
(* user entered is in the row, and what was left alone stays, but for      *)
(* another client's change that was overtaken or is undone                 *)
(* (Jobs.tsx:158-185 and 667, jobs.py:113-122).                            *)
(***************************************************************************)
THEOREM OnlyEdits == Spec => OnlyEditsWritten
<1>1. ASSUME IInv, AskInv, [Next]_vars, NEW id \in Ids, Saved(id), NEW f \in DOMAIN EMPTY_FORM
      PROVE  Written(id, f)
  <2> DEFINE call == calls["save"]
  <2>1. rows[id] \in Job /\ rows'[id] = Merge(rows[id], Changes(call.row, call.body))
    BY <1>1, SavedIs
  <2>2. rows'[id][f] = IF f \in DOMAIN call.body /\ call.body[f] # call.row[f]
                         THEN call.body[f] ELSE rows[id][f]
    BY <2>1, MergeFields
  <2>3. CASE f \notin DOMAIN call.body
    BY <2>2, <2>3 DEF Written
  <2>4. CASE f \in DOMAIN call.body /\ call.body[f] # Copied(call.read)[f]
    BY <2>2, <2>4 DEF Written, Overtaken
  <2>5. CASE f \in DOMAIN call.body /\ call.body[f] = Copied(call.read)[f]
    <3>1. SUFFICES ASSUME call.body[f] # call.row[f], Same(call.row, call.read, f),
                          ~(f = "cron" /\ Overtaken(id, f))
                   PROVE  Same(rows'[id], rows[id], f)
      BY <2>2, <2>5 DEF Written, Same
    <3>2. call.read \in Job
      <4>1. call # Idle /\ call.kind = "update"
        BY <1>1 DEF Saved, At, Idle
      <4> QED
        BY <1>1, <4>1 DEF AskInv
    <3>3. /\ f # "cron" => Copied(call.read)[f] = call.read[f]
          /\ Copied(call.read)["cron"] = IF call.read["cron"] = NoCron THEN "" ELSE call.read["cron"]
      BY <3>2, JobFields DEF Copied
    <3>4. f = "cron"
      BY <2>5, <3>1, <3>3 DEF Same
    <3>5. call.row[f] = NoCron /\ call.body[f] = ""
      BY <2>5, <3>1, <3>3, <3>4 DEF Same
    <3>6. rows[id][f] = NoCron
      BY <3>1, <3>4, <3>5 DEF Overtaken
    <3> QED
      BY <2>2, <2>5, <3>1, <3>4, <3>5, <3>6 DEF Same
  <2> QED
    BY <2>3, <2>4, <2>5
<1>2. IInv /\ AskInv /\ [Next]_vars => (IInv /\ AskInv)'
  BY Inductive, AskInductive
<1>3. IInv /\ AskInv /\ [Next]_vars => (\A id \in Ids : Saved(id) => \A f \in DOMAIN EMPTY_FORM : Written(id, f))
  BY <1>1
<1> QED
  BY <1>2, <1>3, InitSettled, AskInit, PTL DEF Spec, OnlyEditsWritten

\* What the checks of the page say of a form.
LEMMA CheckedComplete ==
  ASSUME NEW form \in Job, ~jobErrors(form)
  PROVE  Complete(form)
BY DEF jobErrors, Complete, Job

\* An update that finds the row as it was loaded leaves it complete.
LEMMA MergeComplete ==
  ASSUME NEW row \in Job, NEW body, FormSent(body) \/ SwitchSent(body), Complete(row)
  PROVE  Complete(Merge(row, Changes(row, body)))
<1> DEFINE new == Merge(row, Changes(row, body))
<1>1. /\ DOMAIN new = DOMAIN EMPTY_FORM
      /\ \A f \in DOMAIN EMPTY_FORM : new[f] = IF f \in DOMAIN body THEN body[f] ELSE row[f]
  BY MergeFields
<1>2. /\ new.operation = IF "operation" \in DOMAIN body THEN body.operation ELSE row.operation
      /\ new.sources = IF "sources" \in DOMAIN body THEN body.sources ELSE row.sources
      /\ new.targets = IF "targets" \in DOMAIN body THEN body.targets ELSE row.targets
  BY <1>1, JobFields
<1>3. CASE FormSent(body)
  <2>1. PICK form \in Job : ~jobErrors(form) /\ body = Sent(form)
    BY <1>3 DEF FormSent
  <2>2. /\ new.operation = form.operation /\ new.sources = form.sources
        /\ new.targets = form.targets
    BY <1>2, <2>1, SentFields
  <2>3. form # Gone /\ Complete(form)
    BY <2>1, JobFields, CheckedComplete
  <2> QED
    BY <2>2, <2>3 DEF Complete
<1>4. CASE SwitchSent(body)
  <2>1. DOMAIN body = {"enabled"}
    BY <1>4 DEF SwitchSent
  <2>2. /\ new.operation = row.operation /\ new.sources = row.sources
        /\ new.targets = row.targets
    BY <1>2, <2>1
  <2>3. row # Gone
    BY JobFields
  <2> QED
    BY <2>2, <2>3 DEF Complete
<1> QED
  BY <1>3, <1>4

(***************************************************************************)
(* A job never loses what its operation works on, in whatever order its    *)
(* handlers, its runs and restarts take their steps, unless an update is   *)
(* committed over a row that is not like the one it loaded                 *)
(* (Jobs.tsx:39-56 and 179-185, jobs.py:119-124).                          *)
(***************************************************************************)
THEOREM NothingLost == Spec => StaysComplete
<1> DEFINE Good == \A id \in Ids : Complete(rows[id]) /\ ~Mixes(id) => Complete(rows'[id])
<1>1. IInv /\ AskInv /\ [Next]_vars => Good
  <2> SUFFICES ASSUME IInv, AskInv, [Next]_vars, NEW id \in Ids, Complete(rows[id]), ~Mixes(id),
                      rows'[id] # rows[id], rows'[id] # Gone
               PROVE  Complete(rows'[id])
    BY DEF Complete
  <2>1. rows \in [Ids -> Job \cup {Gone}]
    BY DEF AskInv, TypeOK
  <2>2. ASSUME NEW c \in Callers, CommitUpdate(c) PROVE Complete(rows'[id])
    <3>1. /\ At(c, "update", "loaded") /\ calls[c] # Idle
          /\ rows' = [rows EXCEPT ![calls[c].id] = Merge(@, Changes(calls[c].row, calls[c].body))]
      BY <2>2 DEF CommitUpdate, At, Idle
    <3>2. calls[c].id = id /\ rows'[id] = Merge(rows[id], Changes(calls[c].row, calls[c].body))
      BY <2>1, <3>1
    <3>3. calls[c].row = rows[id]
      BY <3>1, <3>2 DEF Mixes
    <3>4. rows[id] \in Job
      BY <2>1, <2>2, <3>2 DEF CommitUpdate
    <3>5. FormSent(calls[c].body) \/ SwitchSent(calls[c].body)
      BY <3>1 DEF AskInv, Asks, At
    <3> QED
      BY <3>2, <3>3, <3>4, <3>5, MergeComplete
  <2>3. ASSUME NEW c \in Callers, NEW i \in Ids, CommitCreate(c, i) PROVE Complete(rows'[id])
    <3>1. /\ calls[c] # Idle /\ calls[c].kind = "create"
          /\ rows' = [rows EXCEPT ![i] = calls[c].body]
      BY <2>3 DEF CommitCreate, At, Idle
    <3>2. calls[c].body \in Job /\ ~jobErrors(calls[c].body)
      BY <3>1 DEF AskInv, Asks
    <3>3. rows'[id] = calls[c].body
      BY <2>1, <3>1
    <3> QED
      BY <3>2, <3>3, CheckedComplete
  <2>4. ASSUME NEW c \in Callers, CommitDelete(c) PROVE FALSE
    BY <2>1, <2>4 DEF CommitDelete
  <2>5. ASSUME NEW i \in Ids, NEW success \in BOOLEAN, RunEnds(i, success) PROVE FALSE
    BY <2>1, <2>5 DEF RunEnds
  <2>6. ~Using
    BY DEF Using, ListArrives, openCreate, Close, handleSave, SaveAnswered, ConfirmDelete, Edit,
           openEdit, enabledSwitch, setDeleteTarget, Other, server
  <2>7. Next
    BY DEF vars, server
  <2>8. CASE Running
    BY <2>5, <2>8 DEF Running, Restart, execute_job
  <2>9. ASSUME NEW c \in Callers, Handling(c) PROVE Complete(rows'[id])
    BY <2>2, <2>3, <2>4, <2>9 DEF Handling, Load, Refresh, sync_schedule, unschedule_job, Raises, server
  <2> QED
    BY <2>6, <2>7, <2>8, <2>9 DEF Next
<1>2. IInv /\ AskInv /\ [Next]_vars => (IInv /\ AskInv)'
  BY Inductive, AskInductive
<1> QED
  BY <1>1, <1>2, InitSettled, AskInit, PTL DEF Spec, StaysComplete
=============================================================================
