----------------------------- MODULE SettingsPage -----------------------------
(***************************************************************************)
(* The settings page with its three tabs (general settings, users and API  *)
(* keys), and the handlers behind them.  Only one tab is mounted; what is  *)
(* typed in it is gone with it, while its requests go on.                  *)
(***************************************************************************)
EXTENDS Integers, Sequences

CONSTANTS
  Fields,        \* the settings of the general tab
  Values,        \* what can be typed in them
  Names,         \* usernames
  Me, Peer,      \* the users who work with the page: this one and another one
  MaxIds,        \* bound: ids of users, and of keys
  MaxOpenings,   \* bound: dialogs opened and tabs mounted
  MaxCalls       \* bound: requests in all, and restarts

VARIABLES
  stored,        \* the table settings
  users, keys,   \* the tables users and api_keys; of a key, the request that made it
  calls,         \* every request so far
  seen,          \* the page's last lists of users and of keys
  page,          \* the state of the mounted tab
  lapsed         \* did an admin give up the role, or did two act on one another at once?

tables == <<stored, users, keys>>
vars == <<tables, calls, seen, page, lapsed>>

Ids == 1 .. MaxIds
NoId == 0
Absent == "absent"       \* no row: the default counts
Untyped == "untyped"
Gone == [name |-> Absent, role |-> Absent]
Roles == {"admin", "viewer"}
Passwords == {"short", "good"}   \* blank is short for a new user, and keeps the old one of another
Tabs == {"general", "users", "keys"}
ByMe == 1
ByPeer == 2

ASSUME SettingsPageAssumption ==
  /\ MaxIds \in Nat \ {0, 1} /\ MaxOpenings \in Nat \ {0} /\ MaxCalls \in Nat
  /\ Me \in Names /\ Peer \in Names /\ Me # Peer
  /\ Absent \notin Values \cup Names /\ Untyped \notin Values

Nothing == [k \in Fields |-> Untyped]
Typed(form) == {k \in Fields : form[k] # Untyped}

\* fetch of lib/api.ts: opening says from which dialog or tab, 0 from another browser.
Request(kind, by) ==
  [kind |-> kind, by |-> by, step |-> "sent", mount |-> 0, opening |-> 0, late |-> FALSE,
   form |-> Nothing, todo |-> {}, at |-> Untyped, read |-> Absent, met |-> {},
   id |-> NoId, name |-> Absent, password |-> "good", role |-> "viewer", doomed |-> {}]

Ask(x) == Len(calls) < MaxCalls /\ calls' = Append(calls, x)
At(c, step) == calls[c].step = step

\* Of a request that has ended, only where it came from matters.
Ends(c, step) ==
  LET x == calls[c]
  IN calls' = [calls EXCEPT ![c] = [Request(x.kind, x.by) EXCEPT
       !.step = step, !.mount = x.mount, !.opening = x.opening, !.late = x.late]]

Mine(x) == [x EXCEPT !.mount = page.mount, !.opening = page.opening]
Awaited == {c \in DOMAIN calls : /\ calls[c].mount = page.mount
                                 /\ calls[c].step \notin {"accepted", "rejected"}}
Pending(kinds) == \E c \in Awaited : calls[c].kind \in kinds

-----------------------------------------------------------------------------
(* The page. *)

\* late: fields typed since a save was asked for; saved: the form of the last one accepted.
Fresh(tab, mount) ==
  [tab |-> tab, mount |-> mount, opening |-> 0, dirty |-> FALSE, form |-> Nothing, late |-> {}, saved |-> Nothing,
   isOpen |-> FALSE, editing |-> NoId, role |-> "viewer", newKey |-> 0, target |-> NoId]

SetTab(tab) ==
  /\ tab # page.tab /\ page.mount < MaxOpenings /\ ~page.isOpen /\ page.target = NoId
  /\ page' = Fresh(tab, page.mount + 1)
  /\ UNCHANGED <<tables, calls, seen, lapsed>>

ListsArrive ==
  /\ page.tab \in {"users", "keys"}
  /\ seen' = IF page.tab = "users" THEN [seen EXCEPT !.users = users] ELSE [seen EXCEPT !.keys = keys]
  /\ seen' # seen
  /\ UNCHANGED <<tables, calls, page, lapsed>>

\* set: what is typed stays on top of what the server says.
set(k, v) ==
  /\ page.tab = "general" /\ page.form[k] # v
  /\ page' = [page EXCEPT !.form[k] = v, !.dirty = TRUE,
                          !.late = IF Pending({"settings"}) THEN @ \cup {k} ELSE @ \ {k}]
  /\ UNCHANGED <<tables, calls, seen, lapsed>>

SaveSettings ==
  /\ page.tab = "general" /\ page.dirty /\ ~Pending({"settings"})
  /\ Ask([Mine(Request("settings", ByMe)) EXCEPT !.form = page.form, !.todo = Typed(page.form)])
  /\ page' = [page EXCEPT !.late = {}]
  /\ UNCHANGED <<tables, seen, lapsed>>

\* A dialog opened meanwhile is not the one that asked.
Overtaken == [c \in DOMAIN calls |-> IF c \in Awaited THEN [calls[c] EXCEPT !.late = TRUE] ELSE calls[c]]

Opens(dialog) ==
  /\ ~page.isOpen /\ page.target = NoId /\ page.opening < MaxOpenings
  /\ page' = [dialog EXCEPT !.isOpen = TRUE, !.opening = @ + 1]
  /\ calls' = Overtaken
  /\ UNCHANGED <<tables, seen, lapsed>>

openCreateUser ==
  /\ page.tab = "users"
  /\ Opens([page EXCEPT !.role = "viewer"])

openEdit(id) ==
  /\ page.tab = "users" /\ seen.users[id] # Gone
  /\ Opens([page EXCEPT !.editing = id, !.role = seen.users[id].role])

KeyShown == page.isOpen /\ page.newKey # 0

\* Mutant: the key of the last dialog is not forgotten.
MutopenCreateKey == page.tab = "keys" /\ Opens([page EXCEPT !.role = "viewer"])

openCreateKey == page.tab = "keys" /\ Opens([page EXCEPT !.role = "viewer", !.newKey = 0])

\* The name and the password are looked at only when they are sent.
EditRole(r) ==
  /\ page.isOpen /\ ~KeyShown /\ r # page.role
  /\ page' = [page EXCEPT !.role = r]
  /\ UNCHANGED <<tables, calls, seen, lapsed>>

UserRequest(name, password) ==
  LET x == [Mine(Request("create", ByMe)) EXCEPT !.password = password, !.role = page.role]
  IN IF page.editing = NoId THEN [x EXCEPT !.name = name]
                            ELSE [x EXCEPT !.kind = "update", !.id = page.editing]

SaveUser(name, password) ==
  /\ page.tab = "users" /\ page.isOpen /\ ~Pending({"create", "update"})
  /\ Ask(UserRequest(name, password))
  /\ UNCHANGED <<tables, seen, page, lapsed>>

CreateKey ==
  /\ page.tab = "keys" /\ page.isOpen /\ ~KeyShown /\ ~Pending({"key"})
  /\ Ask([Mine(Request("key", ByMe)) EXCEPT !.role = page.role])
  /\ UNCHANGED <<tables, seen, page, lapsed>>

\* Mutant: no role is chosen.
MutClosed == [page EXCEPT !.isOpen = FALSE, !.editing = NoId, !.role = Absent]

\* What was in a dialog is replaced when the next one opens, except for the key.
Closed == [page EXCEPT !.isOpen = FALSE, !.editing = NoId, !.role = "viewer"]

\* Cancel and the cross forget the key, Done does not.
Close ==
  /\ page.isOpen
  /\ page' = Closed
  /\ UNCHANGED <<tables, calls, seen, lapsed>>

Cancel ==
  /\ page.isOpen /\ page.tab = "keys"
  /\ page' = [Closed EXCEPT !.newKey = 0]
  /\ UNCHANGED <<tables, calls, seen, lapsed>>

Targets(id) ==
  /\ ~page.isOpen /\ page.target = NoId
  /\ page' = [page EXCEPT !.target = id]
  /\ UNCHANGED <<tables, calls, seen, lapsed>>

Confirms(x) ==
  /\ page.target # NoId
  /\ Ask([x EXCEPT !.id = page.target])
  /\ page' = [page EXCEPT !.target = NoId]
  /\ UNCHANGED <<tables, seen, lapsed>>

\* Delete and Revoke in the row of a list ...
setDeleteTarget(id) == page.tab = "users" /\ seen.users[id] # Gone /\ Targets(id)
setRevokeTarget(id) == page.tab = "keys" /\ seen.keys[id] # 0 /\ Targets(id)

\* ... ask for confirmation; a refusal leaves no trace.
ConfirmDelete == page.tab = "users" /\ Confirms(Request("delete", ByMe))
ConfirmRevoke == page.tab = "keys" /\ Confirms(Request("revoke", ByMe))
Refuse ==
  /\ page.target # NoId
  /\ page' = [page EXCEPT !.target = NoId]
  /\ UNCHANGED <<tables, calls, seen, lapsed>>

\* Mutant: a save that fails hides the button as well.
MutSuccess(x) == x.kind = "settings" \/ x.step = "done"

Success(x) == x.step = "done"

\* onSuccess: whatever dialog is open is closed, or shows the key; a tab that is gone
\* does not care.  A request that is refused as not signed in leads to the login.
Answered(c) ==
  LET x == calls[c]
  IN /\ x.step \in {"done", "failed", "denied"} /\ x.by = ByMe
     /\ Ends(c, IF x.step = "done" THEN "accepted" ELSE "rejected")
     /\ page' = IF x.step = "denied" THEN Fresh("login", MaxOpenings + 1)
                ELSE IF x.mount # page.mount \/ ~Success(x) THEN page
                ELSE CASE x.kind = "settings" ->
                            [page EXCEPT !.dirty = FALSE, !.saved = IF x.step = "done" THEN x.form ELSE @]
                       [] x.kind = "key" -> [page EXCEPT !.newKey = c]
                       [] OTHER -> Closed
     /\ UNCHANGED <<tables, seen, lapsed>>

\* Another user does the same from another browser.
Elsewhere ==
  /\ \/ \E k \in Fields, v \in Values :
          Ask([Request("settings", ByPeer) EXCEPT !.form[k] = v, !.todo = {k}])
     \/ \E id \in Ids, r \in Roles :
          users[id] # Gone /\ Ask([Request("update", ByPeer) EXCEPT !.id = id, !.role = r])
     \/ \E id \in Ids : users[id] # Gone /\ Ask([Request("delete", ByPeer) EXCEPT !.id = id])
     \/ \E n \in Names : Ask([Request("create", ByPeer) EXCEPT !.name = n])
     \/ Ask(Request("key", ByPeer))
     \/ \E id \in Ids : keys[id] # 0 /\ Ask([Request("revoke", ByPeer) EXCEPT !.id = id])
  /\ users[ByPeer].role = "admin"
  /\ UNCHANGED <<tables, seen, page, lapsed>>

-----------------------------------------------------------------------------
(* The handlers of the server. *)

Owned(id) == {k \in Ids : keys[k] # 0 /\ calls[keys[k]].by = id}

\* Mutant: one's own account may be deleted.
MutNotOneself(x) == TRUE

NotOneself(x) == x.id # x.by

\* What the handlers check before they write; the page always sends a role.
Allowed(x) ==
  LET admin == users[x.by].role = "admin"
  IN CASE x.kind = "key" -> x.role = "viewer" \/ admin
       [] x.kind = "revoke" -> keys[x.id] # 0 /\ (admin \/ x.id \in Owned(x.by))
       [] x.kind = "delete" -> admin /\ NotOneself(x) /\ users[x.id] # Gone
       [] x.kind = "update" -> admin /\ users[x.id] # Gone /\ x.password # "short"
       [] x.kind = "create" -> admin /\ x.password = "good" /\ \A id \in Ids : users[id].name # x.name
       [] OTHER -> admin

\* _resolve_user, the checks, and the row that is read.
Load(c) ==
  LET x == calls[c]
  IN /\ At(c, "sent")
     /\ IF users[x.by] = Gone THEN Ends(c, "denied")
        ELSE IF ~Allowed(x) THEN Ends(c, "failed")
        ELSE calls' = [calls EXCEPT ![c].step = "loaded",
                                    ![c].read = IF x.kind = "update" THEN users[x.id].role ELSE Absent,
                                    ![c].doomed = IF x.kind = "delete" THEN Owned(x.id) ELSE {}]
     /\ UNCHANGED <<tables, seen, page, lapsed>>

\* The select of set_setting ...
SelectSetting(c, k) ==
  /\ At(c, "loaded") /\ calls[c].kind = "settings" /\ k \in calls[c].todo
  /\ calls' = [calls EXCEPT ![c].step = "selected", ![c].at = k, ![c].read = stored[k]]
  /\ UNCHANGED <<tables, seen, page, lapsed>>

\* Mutant: the loop ends after its first turn.
MutRemaining(x) == {}

Remaining(x) == x.todo \ {x.at}

\* ... and its commit: an insert fails when another one was faster, and a value that
\* is the one that was read is not written.
CommitSetting(c) ==
  LET x == calls[c]
      k == x.at
      after == [x EXCEPT !.todo = Remaining(x), !.at = Untyped, !.read = Absent,
                         !.step = IF Remaining(x) = {} THEN "done" ELSE "loaded"]
      Read(y) == y.kind = "settings" /\ k \in Typed(y.form) /\ (k \notin y.todo \/ y.at = k)
  IN /\ At(c, "selected")
     /\ IF x.read = Absent /\ stored[k] # Absent
        THEN Ends(c, "failed") /\ UNCHANGED stored
        ELSE /\ stored' = [stored EXCEPT ![k] = IF x.read = x.form[k] THEN @ ELSE x.form[k]]
             /\ calls' = [d \in DOMAIN calls |->
                  IF d = c THEN after
                  ELSE IF Read(calls[d]) THEN [calls[d] EXCEPT !.met = @ \cup {k}] ELSE calls[d]]
     /\ UNCHANGED <<users, keys, seen, page, lapsed>>

\* A new row gets the id after the largest one.
NewId(id, used) == (\A u \in used : u < id) /\ id - 1 \in used \cup {0}
UserIds == {id \in Ids : users[id] # Gone}
KeyIds == {id \in Ids : keys[id] # 0}

CommitCreate(c) ==
  LET x == calls[c]
  IN /\ At(c, "loaded") /\ x.kind = "create"
     /\ \/ /\ \E u \in Ids : users[u].name = x.name
           /\ Ends(c, "failed") /\ UNCHANGED users
        \/ /\ \A u \in Ids : users[u].name # x.name
           /\ \E id \in Ids : /\ NewId(id, UserIds)
                              /\ users' = [users EXCEPT ![id] = [name |-> x.name, role |-> x.role]]
           /\ Ends(c, "done")
     /\ UNCHANGED <<stored, keys, seen, page, lapsed>>

\* Is the admin who asked no admin any more, or gives up the role?
Lapse(x) == lapsed \/ users[x.by].role # "admin" \/ (x.kind = "update" /\ x.by = x.id)

CommitUpdate(c) ==
  LET x == calls[c]
  IN /\ At(c, "loaded") /\ x.kind = "update"
     /\ IF users[x.id] = Gone
        THEN Ends(c, "failed") /\ UNCHANGED <<users, lapsed>>
        ELSE /\ users' = [users EXCEPT ![x.id].role = IF x.role = x.read THEN @ ELSE x.role]
             /\ lapsed' = (IF users' # users THEN Lapse(x) ELSE lapsed)
             /\ Ends(c, "done")
     /\ UNCHANGED <<stored, keys, seen, page>>

\* The user's keys go too, those that were there when they were read.
CommitDelete(c) ==
  LET x == calls[c]
  IN /\ At(c, "loaded") /\ x.kind = "delete"
     /\ users' = [users EXCEPT ![x.id] = Gone]
     /\ keys' = [k \in Ids |-> IF k \in x.doomed THEN 0 ELSE keys[k]]
     /\ lapsed' = (IF users[x.id] # Gone THEN Lapse(x) ELSE lapsed)
     /\ Ends(c, "done")
     /\ UNCHANGED <<stored, seen, page>>

CommitKey(c) ==
  /\ At(c, "loaded") /\ calls[c].kind = "key"
  /\ \E id \in Ids : NewId(id, KeyIds) /\ keys' = [keys EXCEPT ![id] = c]
  /\ Ends(c, "done")
  /\ UNCHANGED <<stored, users, seen, page, lapsed>>

Revoke(c) ==
  /\ At(c, "loaded") /\ calls[c].kind = "revoke"
  /\ keys' = [keys EXCEPT ![calls[c].id] = 0]
  /\ Ends(c, "done")
  /\ UNCHANGED <<stored, users, seen, page, lapsed>>

\* The server restarts, or the connection breaks, before or after the last commit.
Interrupted(c) ==
  /\ \E step \in {"sent", "loaded", "selected", "done"} : At(c, step)
  /\ Ends(c, "failed")
  /\ UNCHANGED <<tables, seen, page, lapsed>>

-----------------------------------------------------------------------------
Init ==
  /\ stored \in [Fields -> {Absent} \cup Values]
  /\ users = [id \in Ids |-> CASE id = ByMe -> [name |-> Me, role |-> "admin"]
                               [] id = ByPeer -> [name |-> Peer, role |-> "admin"]
                               [] OTHER -> Gone]
  /\ keys = [id \in Ids |-> 0] /\ calls = <<>>
  /\ seen = [users |-> users, keys |-> keys]
  /\ page = Fresh("general", 1) /\ lapsed = FALSE

Using == \/ ListsArrive \/ SaveSettings \/ openCreateUser \/ openCreateKey
         \/ CreateKey \/ Close \/ Cancel \/ Elsewhere
         \/ ConfirmDelete \/ ConfirmRevoke \/ Refuse
         \/ \E tab \in Tabs : SetTab(tab)
         \/ \E k \in Fields, v \in Values : set(k, v)
         \/ \E r \in Roles : EditRole(r)
         \/ \E n \in Names, p \in Passwords : SaveUser(n, p)
         \/ \E id \in Ids : openEdit(id) \/ setDeleteTarget(id) \/ setRevokeTarget(id)

Handling(c) == \/ Load(c) \/ CommitSetting(c) \/ CommitCreate(c) \/ CommitUpdate(c)
               \/ CommitDelete(c) \/ CommitKey(c) \/ Revoke(c) \/ Interrupted(c)
               \/ \E k \in Fields : SelectSetting(c, k)

Next == Using \/ \E c \in DOMAIN calls : Handling(c) \/ Answered(c)

Spec == Init /\ [][Next]_vars

-----------------------------------------------------------------------------
User == {Gone} \cup [name : Names, role : Roles]
Forms == [Fields -> {Untyped} \cup Values]
Call == [kind : {"settings", "create", "update", "delete", "key", "revoke"}, by : {ByMe, ByPeer},
         step : {"sent", "loaded", "selected", "done", "failed", "denied", "accepted", "rejected"},
         mount : 0 .. MaxOpenings + 1, opening : 0 .. MaxOpenings, late : BOOLEAN,
         form : Forms, todo : SUBSET Fields, at : {Untyped} \cup Fields,
         read : {Absent} \cup Values \cup Roles, met : SUBSET Fields,
         id : {NoId} \cup Ids, name : {Absent} \cup Names, password : Passwords, role : Roles,
         doomed : SUBSET Ids]
Page == [tab : Tabs \cup {"login"}, mount : 1 .. MaxOpenings + 1, opening : 0 .. MaxOpenings,
         dirty : BOOLEAN, form : Forms, late : SUBSET Fields, saved : Forms, isOpen : BOOLEAN,
         editing : {NoId} \cup Ids, role : Roles, newKey : 0 .. MaxCalls, target : {NoId} \cup Ids]
TypeOK ==
  /\ stored \in [Fields -> {Absent} \cup Values]
  /\ users \in [Ids -> User] /\ keys \in [Ids -> 0 .. MaxCalls]
  /\ calls \in Seq(Call) /\ Len(calls) <= MaxCalls
  /\ seen \in [users : [Ids -> User], keys : [Ids -> 0 .. MaxCalls]]
  /\ page \in Page
  /\ lapsed \in BOOLEAN

\* When the general tab offers nothing to save, all that was typed in it was accepted
\* by the server, also when saves fail half-way.  Only what was typed while a save was
\* under way may be forgotten: the answer hides the button (Settings.tsx:52).
NothingForgotten ==
  page.tab = "general" /\ ~page.dirty =>
    \A k \in Typed(page.form) \ page.late : page.saved[k] = page.form[k]

\* Whoever administers, an administrator remains: only an admin who gives up the role,
\* or two who act on one another at the same time, can leave none (settings.py:168).
AdminRemains == lapsed \/ \E id \in Ids : users[id].role = "admin"

\* The key that a dialog shows is the one it asked for, and not the key of the dialog
\* before; only a key whose answer was still awaited when the dialog was opened, or that
\* was asked for in it before, is shown in another dialog.
KeyOfThisDialog ==
  KeyShown =>
    calls[page.newKey].late \/ calls[page.newKey].opening = page.opening

\* When a save of the general tab is accepted, each of its values is stored, unless
\* another save wrote the same setting after this one had read it.
SavedIsStored ==
  [][\A c \in DOMAIN calls :
       calls[c].kind = "settings" /\ At(c, "done") /\ calls'[c].step = "accepted" =>
         \A k \in Typed(calls[c].form) \ calls[c].met : stored[k] = calls[c].form[k]]_vars

-----------------------------------------------------------------------------
(* The inductive invariant behind AdminRemains. *)

Good(x) ==
  /\ x.step \in {"sent", "loaded"} =>
       /\ x.kind \in {"update", "delete", "revoke"} => x.id \in Ids
       /\ x.kind = "create" => x.name \in Names
  /\ x.todo \subseteq Typed(x.form)
  /\ x.step = "selected" => x.kind = "settings" /\ x.at \in x.todo
  /\ x.step = "loaded" /\ x.kind = "delete" => NotOneself(x)

IInv == TypeOK /\ (\A c \in DOMAIN calls : Good(calls[c])) /\ AdminRemains

(* What there is besides behind NothingForgotten and KeyOfThisDialog. *)
MountsInv ==
  /\ page.tab # "login" => page.mount <= MaxOpenings
  /\ \A c \in DOMAIN calls : calls[c].mount <= MaxOpenings /\ calls[c].mount <= page.mount

\* A request that is awaited was made in this dialog, or is marked; keys have their tab.
OpeningsInv ==
  /\ \A c \in Awaited : /\ calls[c].late \/ calls[c].opening = page.opening
                        /\ calls[c].kind = "key" => page.tab = "keys"
  /\ page.newKey # 0 => page.tab = "keys" /\ page.newKey \in DOMAIN calls

\* A save that is awaited has what is typed, except for what was typed since.
Carries(x) == \A k \in Typed(page.form) \ page.late : x.form[k] = page.form[k]
FormInv ==
  page.tab = "general" =>
    \A c \in Awaited : calls[c].kind = "settings" =>
      calls[c].step \in {"failed", "denied"} \/ Carries(calls[c])

PInv == MountsInv /\ OpeningsInv /\ FormInv /\ NothingForgotten /\ KeyOfThisDialog

(* Behind SavedIsStored: what a save is done with is stored, what it has read is still
   there, or another save wrote it meanwhile. *)
StoresAs(x) ==
  x.kind = "settings" =>
    /\ \A k \in Typed(x.form) \ (x.met \cup x.todo) : stored[k] = x.form[k]
    /\ x.step = "selected" /\ x.at \notin x.met => stored[x.at] = x.read
    /\ x.step = "done" => x.todo = {}

SInv == \A c \in DOMAIN calls : StoresAs(calls[c])
=============================================================================
