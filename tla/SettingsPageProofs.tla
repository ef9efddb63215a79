------------------------- MODULE SettingsPageProofs -------------------------
(***************************************************************************)
(* Types of the settings page, that an administrator remains, what the     *)
(* page remembers of its requests and what a save has stored, for any      *)
(* number of users, settings, dialogs and requests.                        *)
(***************************************************************************)
EXTENDS SettingsPage, TLAPS

CallsOK == /\ calls \in Seq(Call) /\ Len(calls) <= MaxCalls
           /\ \A c \in DOMAIN calls : Good(calls[c])

Kinds == {"settings", "create", "update", "delete", "key", "revoke"}

LEMMA RequestType ==
  ASSUME NEW kind \in Kinds, NEW by \in {ByMe, ByPeer}
  PROVE  /\ Request(kind, by) \in Call
         /\ Request(kind, by).kind = kind /\ Request(kind, by).step = "sent"
         /\ Request(kind, by).todo = {}
BY SettingsPageAssumption DEF Request, Call, Kinds, Forms, Nothing, Passwords, Roles, ByMe, ByPeer, Ids, NoId

\* What may be written in a request.
LEMMA WriteStep ==
  ASSUME NEW x \in Call, NEW step \in {"sent", "loaded", "selected", "done", "failed", "denied", "accepted", "rejected"}
  PROVE  [x EXCEPT !.step = step] \in Call
BY DEF Call

LEMMA WriteMount ==
  ASSUME NEW x \in Call, NEW mount \in 0 .. MaxOpenings + 1
  PROVE  [x EXCEPT !.mount = mount] \in Call
BY DEF Call

LEMMA WriteOpening ==
  ASSUME NEW x \in Call, NEW opening \in 0 .. MaxOpenings
  PROVE  [x EXCEPT !.opening = opening] \in Call
BY DEF Call

LEMMA WriteLate ==
  ASSUME NEW x \in Call, NEW late \in BOOLEAN
  PROVE  [x EXCEPT !.late = late] \in Call
BY DEF Call

LEMMA WriteRead ==
  ASSUME NEW x \in Call, NEW read \in {Absent} \cup Values \cup Roles
  PROVE  [x EXCEPT !.read = read] \in Call
BY DEF Call

LEMMA WriteDoomed ==
  ASSUME NEW x \in Call, NEW doomed \in SUBSET Ids
  PROVE  [x EXCEPT !.doomed = doomed] \in Call
BY DEF Call

LEMMA WriteTurn ==
  ASSUME NEW x \in Call, NEW todo \in SUBSET Fields, NEW at \in {Untyped} \cup Fields
  PROVE  [x EXCEPT !.todo = todo, !.at = at] \in Call
BY DEF Call

\* A request is added at the end.
LEMMA AskKeeps ==
  ASSUME CallsOK, NEW x \in Call, Good(x), Ask(x)
  PROVE  CallsOK'
<1>1. /\ calls' = Append(calls, x) /\ Len(calls) < MaxCalls /\ Len(calls) \in Nat
      /\ calls \in Seq(Call)
  BY DEF Ask, CallsOK
<1>2. calls' \in Seq(Call) /\ Len(calls') = Len(calls) + 1
  BY <1>1
<1>3. Len(calls') <= MaxCalls
  BY <1>1, <1>2, SettingsPageAssumption
<1>4. ASSUME NEW c \in DOMAIN calls' PROVE Good(calls'[c])
  BY <1>1, <1>2 DEF CallsOK
<1> QED
  BY <1>2, <1>3, <1>4 DEF CallsOK, Good, NotOneself

\* One request is changed.
LEMMA ChangeKeeps ==
  ASSUME CallsOK, NEW c \in DOMAIN calls, NEW x \in Call, Good(x),
         calls' = [calls EXCEPT ![c] = x]
  PROVE  CallsOK'
<1>1. calls \in Seq(Call) /\ Len(calls) <= MaxCalls /\ Len(calls) \in Nat
  BY DEF CallsOK
<1>2. calls' \in Seq(Call) /\ Len(calls') = Len(calls) /\ DOMAIN calls' = DOMAIN calls
  BY <1>1
<1>3. ASSUME NEW d \in DOMAIN calls PROVE Good(calls'[d])
  BY <1>1 DEF CallsOK
<1> QED
  BY <1>1, <1>2, <1>3 DEF CallsOK, Good, NotOneself

Steps == {"done", "failed", "denied", "accepted", "rejected"}

LEMMA EndKeeps ==
  ASSUME CallsOK, NEW c \in DOMAIN calls, NEW step \in Steps, Ends(c, step)
  PROVE  CallsOK'
<1> DEFINE x == calls[c]
           y == [Request(x.kind, x.by) EXCEPT
                   !.step = step, !.mount = x.mount, !.opening = x.opening, !.late = x.late]
<1>1. x \in Call
  BY DEF CallsOK
<1>2. Request(x.kind, x.by) \in Call /\ Request(x.kind, x.by).todo = {}
  BY <1>1, RequestType DEF Call, Kinds
<1>3. [Request(x.kind, x.by) EXCEPT !.step = step] \in Call
  BY <1>2, WriteStep DEF Steps
<1>4. x.mount \in 0 .. MaxOpenings + 1 /\ x.opening \in 0 .. MaxOpenings /\ x.late \in BOOLEAN
  BY <1>1 DEF Call
<1>5. [Request(x.kind, x.by) EXCEPT !.step = step, !.mount = x.mount] \in Call
  BY <1>3, <1>4, WriteMount
<1>6. [Request(x.kind, x.by) EXCEPT !.step = step, !.mount = x.mount, !.opening = x.opening] \in Call
  BY <1>4, <1>5, WriteOpening
<1>7. y \in Call
  BY <1>4, <1>6, WriteLate
<1>8. y.step = step /\ y.todo = {}
  BY <1>2 DEF Call
<1>9. Good(y)
  BY <1>8 DEF Good, Steps
<1>10. calls' = [calls EXCEPT ![c] = y]
  BY DEF Ends
<1> QED
  BY <1>7, <1>9, <1>10, ChangeKeeps

-----------------------------------------------------------------------------
(* The parts of the invariant, and the steps of the page. *)

TablesOK ==
  /\ stored \in [Fields -> {Absent} \cup Values]
  /\ users \in [Ids -> User] /\ keys \in [Ids -> 0 .. MaxCalls]
  /\ lapsed \in BOOLEAN
SeenOK == seen \in [users : [Ids -> User], keys : [Ids -> 0 .. MaxCalls]]
PageOK == page \in Page

LEMMA Parts == IInv <=> CallsOK /\ TablesOK /\ SeenOK /\ PageOK /\ AdminRemains
BY DEF IInv, TypeOK, CallsOK, TablesOK, SeenOK, PageOK

LEMMA PartsNext == IInv' <=> CallsOK' /\ TablesOK' /\ SeenOK' /\ PageOK' /\ AdminRemains'
BY DEF IInv, TypeOK, CallsOK, TablesOK, SeenOK, PageOK

LEMMA CallsStay == ASSUME CallsOK, UNCHANGED calls PROVE CallsOK'
BY DEF CallsOK, Good, NotOneself

LEMMA TablesStay == ASSUME TablesOK, AdminRemains, UNCHANGED <<tables, lapsed>> PROVE TablesOK' /\ AdminRemains'
BY DEF TablesOK, AdminRemains, tables

LEMMA InitGood == Init => IInv
<1> SUFFICES ASSUME Init PROVE IInv
  OBVIOUS
<1> USE DEF Init
<1>1. CallsOK
  BY SettingsPageAssumption DEF CallsOK
<1>2. users \in [Ids -> User] /\ keys \in [Ids -> 0 .. MaxCalls]
  BY SettingsPageAssumption DEF User, Roles
<1>3. TablesOK /\ SeenOK
  BY <1>2 DEF TablesOK, SeenOK
<1>4. Nothing \in Forms
  BY DEF Nothing, Forms
<1>5. PageOK
  BY <1>4, SettingsPageAssumption DEF PageOK, Page, Fresh, Tabs, Roles
<1>6. ByMe \in Ids
  BY SettingsPageAssumption DEF Ids, ByMe
<1>7. users[ByMe] = [name |-> Me, role |-> "admin"]
  BY <1>6 DEF ByMe, ByPeer
<1>8. AdminRemains
  BY <1>6, <1>7 DEF AdminRemains
<1> QED
  BY <1>1, <1>3, <1>5, <1>8, Parts

\* A step that leaves the tables, the requests and the lists alone.
LEMMA PageStep ==
  ASSUME IInv, UNCHANGED <<tables, calls, seen, lapsed>>, page' \in Page
  PROVE  IInv'
BY Parts, PartsNext, CallsStay, TablesStay DEF SeenOK, PageOK

\* A step that leaves the tables and the lists alone.
LEMMA CallStep ==
  ASSUME IInv, UNCHANGED <<tables, seen, lapsed>>, page' \in Page, CallsOK'
  PROVE  IInv'
BY Parts, PartsNext, TablesStay DEF SeenOK, PageOK

LEMMA FreshPage ==
  ASSUME NEW tab \in Tabs \cup {"login"}, NEW mount \in 1 .. MaxOpenings + 1
  PROVE  Fresh(tab, mount) \in Page
<1>1. Nothing \in Forms
  BY DEF Nothing, Forms
<1> QED
  BY <1>1, SettingsPageAssumption DEF Page, Fresh, Roles

LEMMA ClosedPage == page \in Page => Closed \in Page
BY DEF Page, Closed, Roles

\* The request is one of this dialog.
LEMMA MineType ==
  ASSUME PageOK, NEW x \in Call
  PROVE  /\ Mine(x) \in Call
         /\ Mine(x).kind = x.kind /\ Mine(x).step = x.step /\ Mine(x).todo = x.todo
<1>1. page.mount \in 0 .. MaxOpenings + 1 /\ page.opening \in 0 .. MaxOpenings
  BY SettingsPageAssumption DEF PageOK, Page
<1>2. [x EXCEPT !.mount = page.mount] \in Call
  BY <1>1, WriteMount
<1>3. Mine(x) \in Call
  BY <1>1, <1>2, WriteOpening DEF Mine
<1> QED
  BY <1>3 DEF Mine, Call

\* A dialog opens: the requests that are awaited are marked.
LEMMA OpensKeeps ==
  ASSUME IInv, NEW dialog \in Page, dialog.opening = page.opening, Opens(dialog)
  PROVE  IInv'
<1>1. CallsOK /\ PageOK
  BY Parts
<1>2. page' \in Page
  <2>1. page.opening + 1 \in 0 .. MaxOpenings
    BY <1>1, SettingsPageAssumption DEF Opens, PageOK, Page
  <2> QED
    BY <2>1 DEF Opens, Page
<1>3. ASSUME NEW c \in DOMAIN calls
      PROVE  Overtaken[c] \in Call /\ Good(Overtaken[c])
  <2>1. calls[c] \in Call /\ Good(calls[c])
    BY <1>1 DEF CallsOK
  <2>2. [calls[c] EXCEPT !.late = TRUE] \in Call
    BY <2>1, WriteLate
  <2>3. Good([calls[c] EXCEPT !.late = TRUE])
    BY <2>1 DEF Good, Call, NotOneself
  <2> QED
    BY <2>1, <2>2, <2>3 DEF Overtaken
<1>4. Len(calls) \in Nat /\ DOMAIN calls = 1 .. Len(calls) /\ Len(calls) <= MaxCalls
  BY <1>1 DEF CallsOK
<1>5. calls' = Overtaken /\ DOMAIN Overtaken = 1 .. Len(calls)
  BY <1>4 DEF Opens, Overtaken
<1>6. Overtaken \in Seq(Call) /\ Len(Overtaken) = Len(calls)
  <2>1. Overtaken \in [1 .. Len(calls) -> Call]
    BY <1>3, <1>4 DEF Overtaken
  <2> QED
    BY <1>4, <2>1
<1>7. CallsOK'
  BY <1>3, <1>4, <1>5, <1>6 DEF CallsOK, Good, NotOneself
<1> QED
  BY <1>2, <1>7, CallStep DEF Opens

LEMMA SaveSettingsKeeps == ASSUME IInv, SaveSettings PROVE IInv'
<1>1. CallsOK /\ PageOK
  BY Parts
<1> DEFINE m == Mine(Request("settings", ByMe))
           x == [m EXCEPT !.form = page.form, !.todo = Typed(page.form)]
<1>2. page.form \in Forms /\ Typed(page.form) \subseteq Fields
  BY <1>1 DEF PageOK, Page, Typed
<1>3. m \in Call /\ m.kind = "settings" /\ m.step = "sent"
  BY <1>1, MineType, RequestType DEF Kinds
<1>4. x \in Call
  BY <1>2, <1>3 DEF Call
<1>5. x.kind = "settings" /\ x.step = "sent" /\ x.todo = Typed(x.form)
  BY <1>3 DEF Call
<1>6. Good(x)
  BY <1>5 DEF Good
<1>7. Ask(x)
  BY DEF SaveSettings
<1>8. CallsOK'
  BY <1>1, <1>4, <1>6, <1>7, AskKeeps
<1>9. page' \in Page
  BY <1>1 DEF SaveSettings, PageOK, Page
<1> QED
  BY <1>8, <1>9, CallStep DEF SaveSettings

LEMMA SaveUserKeeps ==
  ASSUME IInv, NEW name \in Names, NEW password \in Passwords, SaveUser(name, password)
  PROVE  IInv'
<1>1. CallsOK /\ PageOK
  BY Parts
<1> DEFINE m == Mine(Request("create", ByMe))
           x == [m EXCEPT !.password = password, !.role = page.role]
<1>2. page.role \in Roles /\ page.editing \in {NoId} \cup Ids
  BY <1>1 DEF PageOK, Page
<1>3. m \in Call /\ m.kind = "create" /\ m.step = "sent" /\ m.todo = {}
  BY <1>1, MineType, RequestType DEF Kinds
<1>4. x \in Call /\ x.kind = "create" /\ x.step = "sent" /\ x.todo = {}
  BY <1>2, <1>3 DEF Call
<1>5. UserRequest(name, password) \in Call /\ Good(UserRequest(name, password))
  <2>1. CASE page.editing = NoId
    <3>1. UserRequest(name, password) = [x EXCEPT !.name = name]
      BY <2>1 DEF UserRequest
    <3> QED
      BY <1>4, <3>1 DEF Call, Good
  <2>2. CASE page.editing # NoId
    <3>1. UserRequest(name, password) = [x EXCEPT !.kind = "update", !.id = page.editing]
      BY <2>2 DEF UserRequest
    <3> QED
      BY <1>2, <1>4, <2>2, <3>1 DEF Call, Good
  <2> QED
    BY <2>1, <2>2
<1>6. CallsOK'
  BY <1>1, <1>5, AskKeeps DEF SaveUser
<1> QED
  BY <1>1, <1>6, CallStep DEF SaveUser, PageOK

LEMMA CreateKeyKeeps == ASSUME IInv, CreateKey PROVE IInv'
<1>1. CallsOK /\ PageOK
  BY Parts
<1> DEFINE m == Mine(Request("key", ByMe))
           x == [m EXCEPT !.role = page.role]
<1>2. page.role \in Roles
  BY <1>1 DEF PageOK, Page
<1>3. m \in Call /\ m.kind = "key" /\ m.step = "sent" /\ m.todo = {}
  BY <1>1, MineType, RequestType DEF Kinds
<1>4. x \in Call /\ Good(x)
  BY <1>2, <1>3 DEF Call, Good
<1>5. CallsOK'
  BY <1>1, <1>4, AskKeeps DEF CreateKey
<1> QED
  BY <1>1, <1>5, CallStep DEF CreateKey, PageOK

\* Delete and Revoke, confirmed.
LEMMA ConfirmsKeeps ==
  ASSUME IInv, NEW kind \in {"delete", "revoke"}, Confirms(Request(kind, ByMe))
  PROVE  IInv'
<1>1. CallsOK /\ PageOK
  BY Parts
<1> DEFINE m == Request(kind, ByMe)
           x == [m EXCEPT !.id = page.target]
<1>2. page.target \in Ids
  BY <1>1 DEF PageOK, Page, Confirms
<1>3. m \in Call /\ m.kind = kind /\ m.step = "sent" /\ m.todo = {}
  BY RequestType DEF Kinds
<1>4. x \in Call /\ Good(x)
  BY <1>2, <1>3 DEF Call, Good
<1>5. CallsOK'
  BY <1>1, <1>4, AskKeeps DEF Confirms
<1>6. page' \in Page
  BY <1>1 DEF Confirms, PageOK, Page
<1> QED
  BY <1>5, <1>6, CallStep DEF Confirms

\* Another user's requests.
LEMMA ElsewhereKeeps == ASSUME IInv, Elsewhere PROVE IInv'
<1>1. CallsOK /\ PageOK
  BY Parts
<1>2. SUFFICES CallsOK'
  BY <1>1, CallStep DEF Elsewhere, PageOK
<1>3. CASE \E k \in Fields, v \in Values :
             Ask([Request("settings", ByPeer) EXCEPT !.form[k] = v, !.todo = {k}])
  <2>1. PICK k \in Fields, v \in Values :
               Ask([Request("settings", ByPeer) EXCEPT !.form[k] = v, !.todo = {k}])
    BY <1>3
  <2> DEFINE m == Request("settings", ByPeer)
             x == [m EXCEPT !.form[k] = v, !.todo = {k}]
  <2>2. m \in Call /\ m.kind = "settings" /\ m.step = "sent"
    BY RequestType DEF Kinds
  <2>3. x \in Call
    BY <2>2 DEF Call, Forms
  <2>4. x.kind = "settings" /\ x.step = "sent" /\ x.todo = {k} /\ x.form[k] = v
    BY <2>2 DEF Call, Forms
  <2>5. {k} \subseteq Typed(x.form)
    BY <2>4, SettingsPageAssumption DEF Typed
  <2>6. Good(x)
    BY <2>4, <2>5 DEF Good
  <2> QED
    BY <1>1, <2>1, <2>3, <2>6, AskKeeps
<1>4. CASE \E id \in Ids, r \in Roles : Ask([Request("update", ByPeer) EXCEPT !.id = id, !.role = r])
  <2>1. PICK id \in Ids, r \in Roles : Ask([Request("update", ByPeer) EXCEPT !.id = id, !.role = r])
    BY <1>4
  <2> DEFINE m == Request("update", ByPeer)
             x == [m EXCEPT !.id = id, !.role = r]
  <2>2. m \in Call /\ m.kind = "update" /\ m.step = "sent" /\ m.todo = {}
    BY RequestType DEF Kinds
  <2>3. x \in Call /\ Good(x)
    BY <2>2 DEF Call, Good
  <2> QED
    BY <1>1, <2>1, <2>3, AskKeeps
<1>5. ASSUME NEW kind \in {"delete", "revoke"}, NEW id \in Ids, Ask([Request(kind, ByPeer) EXCEPT !.id = id])
      PROVE  CallsOK'
  <2> DEFINE m == Request(kind, ByPeer)
             x == [m EXCEPT !.id = id]
  <2>2. m \in Call /\ m.kind = kind /\ m.step = "sent" /\ m.todo = {}
    BY RequestType DEF Kinds
  <2>3. x \in Call /\ Good(x)
    BY <2>2 DEF Call, Good
  <2> QED
    BY <1>1, <1>5, <2>3, AskKeeps
<1>6. ASSUME NEW n \in Names, Ask([Request("create", ByPeer) EXCEPT !.name = n])
      PROVE  CallsOK'
  <2> DEFINE m == Request("create", ByPeer)
             x == [m EXCEPT !.name = n]
  <2>2. m \in Call /\ m.kind = "create" /\ m.step = "sent" /\ m.todo = {}
    BY RequestType DEF Kinds
  <2>3. x \in Call /\ Good(x)
    BY <2>2 DEF Call, Good
  <2> QED
    BY <1>1, <1>6, <2>3, AskKeeps
<1>7. ASSUME Ask(Request("key", ByPeer)) PROVE CallsOK'
  <2>1. Request("key", ByPeer) \in Call /\ Good(Request("key", ByPeer))
    BY RequestType DEF Kinds, Good
  <2> QED
    BY <1>1, <1>7, <2>1, AskKeeps
<1> QED
  BY <1>3, <1>4, <1>5, <1>6, <1>7 DEF Elsewhere

LEMMA UsingKeeps == ASSUME IInv, Using PROVE IInv'
<1>1. PageOK /\ SeenOK
  BY Parts
<1>2. ASSUME NEW tab \in Tabs, SetTab(tab) PROVE IInv'
  <2>1. page.mount + 1 \in 1 .. MaxOpenings + 1
    BY <1>1, <1>2, SettingsPageAssumption DEF SetTab, PageOK, Page
  <2> QED
    BY <1>2, <2>1, FreshPage, PageStep DEF SetTab
<1>3. CASE ListsArrive
  <2>1. CallsOK /\ TablesOK /\ AdminRemains
    BY Parts
  <2>2. SeenOK'
    BY <1>1, <1>3, <2>1 DEF ListsArrive, SeenOK, TablesOK
  <2> QED
    BY <1>1, <1>3, <2>1, <2>2, CallsStay, TablesStay, PartsNext DEF ListsArrive, PageOK
<1>4. ASSUME NEW k \in Fields, NEW v \in Values, set(k, v) PROVE IInv'
  <2>1. [page.form EXCEPT ![k] = v] \in Forms /\ page.late \cup {k} \in SUBSET Fields
        /\ page.late \ {k} \in SUBSET Fields
    BY <1>1 DEF PageOK, Page, Forms
  <2>2. page' \in Page
    BY <1>1, <1>4, <2>1 DEF set, PageOK, Page
  <2> QED
    BY <1>4, <2>2, PageStep DEF set
<1>5. ASSUME NEW r \in Roles, EditRole(r) PROVE IInv'
  BY <1>1, <1>5, PageStep DEF EditRole, PageOK, Page
<1>6. CASE openCreateUser
  <2>1. [page EXCEPT !.role = "viewer"] \in Page
    BY <1>1 DEF PageOK, Page, Roles
  <2> QED
    BY <1>1, <1>6, <2>1, OpensKeeps DEF openCreateUser, PageOK, Page
<1>7. ASSUME NEW id \in Ids, openEdit(id) PROVE IInv'
  <2>1. seen.users[id].role \in Roles
    BY <1>1, <1>7 DEF openEdit, SeenOK, User
  <2>2. [page EXCEPT !.editing = id, !.role = seen.users[id].role] \in Page
    BY <1>1, <2>1 DEF PageOK, Page
  <2> QED
    BY <1>1, <1>7, <2>2, OpensKeeps DEF openEdit, PageOK, Page
<1>8. CASE openCreateKey
  <2>1. "viewer" \in Roles /\ 0 \in 0 .. MaxCalls
    BY SettingsPageAssumption DEF Roles
  <2>2. [page EXCEPT !.role = "viewer", !.newKey = 0] \in Page
    BY <1>1, <2>1 DEF PageOK, Page
  <2> QED
    BY <1>1, <1>8, <2>2, OpensKeeps DEF openCreateKey, PageOK, Page
<1>9. CASE Close
  BY <1>1, <1>9, ClosedPage, PageStep DEF Close, PageOK
<1>10. CASE Cancel
  <2>1. [Closed EXCEPT !.newKey = 0] \in Page
    BY <1>1, ClosedPage, SettingsPageAssumption DEF PageOK, Page
  <2> QED
    BY <1>10, <2>1, PageStep DEF Cancel
<1>11. ASSUME NEW id \in Ids, Targets(id) PROVE IInv'
  BY <1>1, <1>11, PageStep DEF Targets, PageOK, Page
<1>12. CASE Refuse
  BY <1>1, <1>12, PageStep DEF Refuse, PageOK, Page
<1> QED
  BY <1>2, <1>3, <1>4, <1>5, <1>6, <1>7, <1>8, <1>9, <1>10, <1>11, <1>12,
     SaveSettingsKeeps, SaveUserKeeps, CreateKeyKeeps, ConfirmsKeeps, ElsewhereKeeps
     DEF Using, setDeleteTarget, setRevokeTarget, ConfirmDelete, ConfirmRevoke

-----------------------------------------------------------------------------
(* The steps of the server and of its answers. *)

LEMMA LoadKeeps == ASSUME IInv, NEW c \in DOMAIN calls, Load(c) PROVE IInv'
<1>1. CallsOK /\ PageOK /\ TablesOK
  BY Parts
<1>2. SUFFICES CallsOK'
  BY <1>1, CallStep DEF Load, PageOK
<1> DEFINE x == calls[c]
           read == IF x.kind = "update" THEN users[x.id].role ELSE Absent
           doomed == IF x.kind = "delete" THEN Owned(x.id) ELSE {}
           y == [x EXCEPT !.step = "loaded", !.read = read, !.doomed = doomed]
<1>3. x \in Call /\ Good(x) /\ x.step = "sent"
  BY <1>1 DEF CallsOK, Load, At
<1>4. CASE users[x.by] = Gone \/ ~Allowed(x)
  BY <1>1, <1>4, EndKeeps DEF Load, Steps
<1>5. CASE users[x.by] # Gone /\ Allowed(x)
  <2>1. read \in {Absent} \cup Values \cup Roles
    BY <1>1, <1>3 DEF Good, TablesOK, User, Gone
  <2>2. doomed \in SUBSET Ids
    BY DEF Owned
  <2>3. y \in Call
    <3>1. [x EXCEPT !.step = "loaded"] \in Call
      BY <1>3, WriteStep
    <3>2. [x EXCEPT !.step = "loaded", !.read = read] \in Call
      BY <2>1, <3>1, WriteRead
    <3> QED
      BY <2>2, <3>2, WriteDoomed
  <2>4. x.kind = "delete" => NotOneself(x)
    BY <1>5 DEF Allowed
  <2>5. /\ y.step = "loaded" /\ y.kind = x.kind /\ y.id = x.id /\ y.by = x.by
        /\ y.name = x.name /\ y.todo = x.todo /\ y.form = x.form
    BY <1>3 DEF Call
  <2>6. Good(y)
    BY <1>3, <2>4, <2>5 DEF Good, NotOneself, Typed
  <2>7. calls' = [calls EXCEPT ![c] = y]
    BY <1>5 DEF Load
  <2> QED
    BY <1>1, <2>3, <2>6, <2>7, ChangeKeeps
<1> QED
  BY <1>4, <1>5

LEMMA SelectKeeps ==
  ASSUME IInv, NEW c \in DOMAIN calls, NEW k \in Fields, SelectSetting(c, k)
  PROVE  IInv'
<1>1. CallsOK /\ PageOK /\ TablesOK
  BY Parts
<1> DEFINE x == calls[c]
           y == [x EXCEPT !.step = "selected", !.at = k, !.read = stored[k]]
<1>2. x \in Call /\ Good(x) /\ x.kind = "settings" /\ k \in x.todo
  BY <1>1 DEF CallsOK, SelectSetting
<1>3. stored[k] \in {Absent} \cup Values
  BY <1>1 DEF TablesOK
<1>4. y \in Call
  BY <1>2, <1>3 DEF Call
<1>5. y.step = "selected" /\ y.kind = x.kind /\ y.at = k /\ y.todo = x.todo /\ y.form = x.form
  BY <1>2 DEF Call
<1>6. Good(y)
  BY <1>2, <1>5 DEF Good, Typed
<1>7. calls' = [calls EXCEPT ![c] = y]
  BY DEF SelectSetting
<1>8. CallsOK'
  BY <1>1, <1>4, <1>6, <1>7, ChangeKeeps
<1> QED
  BY <1>1, <1>8, CallStep DEF SelectSetting, PageOK

LEMMA CommitSettingKeeps ==
  ASSUME IInv, NEW c \in DOMAIN calls, CommitSetting(c)
  PROVE  IInv'
<1>1. CallsOK /\ PageOK /\ TablesOK /\ SeenOK /\ AdminRemains
  BY Parts
<1> DEFINE x == calls[c]
           k == x.at
           after == [x EXCEPT !.todo = Remaining(x), !.at = Untyped, !.read = Absent,
                              !.step = IF Remaining(x) = {} THEN "done" ELSE "loaded"]
<1>2. x \in Call /\ Good(x) /\ x.step = "selected"
  <2>1. x \in Call /\ Good(x)
    BY <1>1 DEF CallsOK
  <2>2. At(c, "selected")
    BY DEF CommitSetting
  <2> QED
    BY <2>1, <2>2 DEF At
<1>3. k \in x.todo /\ k \in Fields /\ x.form[k] \in Values
  BY <1>2 DEF Good, Call, Typed, Forms
<1>4. stored' \in [Fields -> {Absent} \cup Values]
  BY <1>1, <1>3 DEF CommitSetting, TablesOK
<1>5. TablesOK' /\ SeenOK' /\ PageOK' /\ AdminRemains'
  BY <1>1, <1>4 DEF CommitSetting, TablesOK, SeenOK, PageOK, AdminRemains
<1>6. CASE x.read = Absent /\ stored[k] # Absent
  BY <1>1, <1>5, <1>6, EndKeeps, PartsNext DEF CommitSetting, Steps
<1>7. CASE ~(x.read = Absent /\ stored[k] # Absent)
  <2>1. DOMAIN calls' = DOMAIN calls
    BY <1>7 DEF CommitSetting
  <2>2. ASSUME NEW d \in DOMAIN calls
        PROVE  calls'[d] \in Call /\ Good(calls'[d])
    <3>1. calls[d] \in Call /\ Good(calls[d])
      BY <1>1 DEF CallsOK
    <3>2. CASE d = c
      <4>1. calls'[d] = after
        BY <1>7, <3>2 DEF CommitSetting
      <4>2. after \in Call /\ after.form = x.form /\ after.todo = Remaining(x)
            /\ after.kind = x.kind /\ after.step \in {"done", "loaded"}
        <5> DEFINE step == IF Remaining(x) = {} THEN "done" ELSE "loaded"
        <5>1. Remaining(x) \in SUBSET Fields
          BY <1>2 DEF Remaining, Call
        <5>2. [x EXCEPT !.todo = Remaining(x), !.at = Untyped] \in Call
          BY <1>2, <5>1, WriteTurn
        <5>3. [x EXCEPT !.todo = Remaining(x), !.at = Untyped, !.read = Absent] \in Call
          BY <5>2, WriteRead
        <5>4. after \in Call
          BY <5>3, WriteStep
        <5> QED
          BY <1>2, <5>4 DEF Call
      <4>3. Remaining(x) \subseteq Typed(x.form)
        BY <1>2 DEF Good, Remaining
      <4>4. x.kind = "settings"
        BY <1>2 DEF Good
      <4>5. Good(after)
        BY <4>2, <4>3, <4>4 DEF Good, Typed
      <4> QED
        BY <4>1, <4>2, <4>5
    <3>3. CASE d # c
      <4>1. \/ calls'[d] = calls[d]
            \/ calls'[d] = [calls[d] EXCEPT !.met = @ \cup {k}]
        BY <1>7, <3>3 DEF CommitSetting
      <4>2. [calls[d] EXCEPT !.met = @ \cup {k}] \in Call
        BY <1>3, <3>1 DEF Call
      <4>3. Good([calls[d] EXCEPT !.met = @ \cup {k}])
        BY <3>1 DEF Good, Call, Typed, NotOneself
      <4> QED
        BY <3>1, <4>1, <4>2, <4>3
    <3> QED
      BY <3>2, <3>3
  <2>3. Len(calls) \in Nat /\ DOMAIN calls = 1 .. Len(calls) /\ Len(calls) <= MaxCalls
    BY <1>1 DEF CallsOK
  <2>4. calls' \in [1 .. Len(calls) -> Call]
    BY <1>7, <2>1, <2>2, <2>3 DEF CommitSetting
  <2>5. calls' \in Seq(Call) /\ Len(calls') = Len(calls)
    BY <2>3, <2>4
  <2>6. CallsOK'
    BY <2>1, <2>2, <2>3, <2>5 DEF CallsOK, Good, NotOneself
  <2> QED
    BY <1>5, <2>6, PartsNext
<1> QED
  BY <1>6, <1>7

\* The other handlers end the request they work on.
LEMMA EndingKeeps ==
  ASSUME IInv, NEW c \in DOMAIN calls, NEW step \in Steps, Ends(c, step),
         TablesOK', AdminRemains', UNCHANGED <<seen, page>>
  PROVE  IInv'
<1>1. CallsOK /\ SeenOK /\ PageOK
  BY Parts
<1> QED
  BY <1>1, EndKeeps, PartsNext DEF SeenOK, PageOK

LEMMA CommitCreateKeeps ==
  ASSUME IInv, NEW c \in DOMAIN calls, CommitCreate(c)
  PROVE  IInv'
<1>1. CallsOK /\ TablesOK /\ AdminRemains
  BY Parts
<1> DEFINE x == calls[c]
<1>2. x \in Call /\ Good(x)
  BY <1>1 DEF CallsOK
<1>3. x.name \in Names /\ x.role \in Roles
  BY <1>2 DEF Good, Call, CommitCreate, At
<1>4. CASE UNCHANGED users /\ Ends(c, "failed")
  BY <1>1, <1>4, TablesStay, EndingKeeps DEF CommitCreate, Steps, TablesOK, AdminRemains
<1>5. CASE /\ \E id \in Ids : /\ NewId(id, UserIds)
                              /\ users' = [users EXCEPT ![id] = [name |-> x.name, role |-> x.role]]
           /\ Ends(c, "done")
  <2>1. PICK id \in Ids : /\ NewId(id, UserIds)
                          /\ users' = [users EXCEPT ![id] = [name |-> x.name, role |-> x.role]]
    BY <1>5
  <2>2. TablesOK'
    BY <1>1, <1>3, <2>1 DEF TablesOK, User, CommitCreate
  <2>3. users[id] = Gone
    <3>1. id \notin UserIds
      BY <2>1 DEF NewId, Ids
    <3> QED
      BY <3>1 DEF UserIds
  <2>4. AdminRemains'
    BY <1>1, <2>1, <2>3 DEF AdminRemains, TablesOK, Gone, Absent, CommitCreate
  <2> QED
    BY <1>5, <2>2, <2>4, EndingKeeps DEF CommitCreate, Steps
<1> QED
  BY <1>4, <1>5 DEF CommitCreate

\* Who does not act on their own account stays an admin.
LEMMA CommitUpdateKeeps ==
  ASSUME IInv, NEW c \in DOMAIN calls, CommitUpdate(c)
  PROVE  IInv'
<1>1. CallsOK /\ TablesOK /\ AdminRemains
  BY Parts
<1> DEFINE x == calls[c]
<1>2. x \in Call /\ Good(x) /\ At(c, "loaded") /\ x.kind = "update"
  BY <1>1 DEF CallsOK, CommitUpdate
<1>3. x.id \in Ids /\ x.role \in Roles /\ x.by \in Ids
  BY <1>2, SettingsPageAssumption DEF Good, Call, At, ByMe, ByPeer, Ids
<1>4. CASE users[x.id] = Gone
  BY <1>1, <1>4, EndingKeeps DEF CommitUpdate, Steps, TablesOK, AdminRemains
<1>5. CASE users[x.id] # Gone
  <2>1. users' = [users EXCEPT ![x.id].role = IF x.role = x.read THEN @ ELSE x.role]
    BY <1>5 DEF CommitUpdate
  <2>2. users' \in [Ids -> User]
    <3>1. users[x.id] \in [name : Names, role : Roles]
      BY <1>1, <1>3, <1>5 DEF TablesOK, User
    <3>2. [users[x.id] EXCEPT !.role = IF x.role = x.read THEN @ ELSE x.role] \in [name : Names, role : Roles]
      BY <1>3, <3>1
    <3>3. users' = [users EXCEPT ![x.id] = [users[x.id] EXCEPT !.role = IF x.role = x.read THEN @ ELSE x.role]]
      BY <2>1
    <3> QED
      BY <1>1, <3>2, <3>3 DEF TablesOK, User
  <2>3. lapsed' = (IF users' # users THEN Lapse(x) ELSE lapsed) /\ UNCHANGED <<stored, keys>>
    BY <1>5 DEF CommitUpdate
  <2>4. lapsed' \in BOOLEAN
    BY <1>1, <2>3 DEF TablesOK, Lapse
  <2>5. TablesOK'
    BY <1>1, <2>2, <2>3, <2>4 DEF TablesOK
  <2>6. AdminRemains'
    <3>1. CASE users' = users
      BY <1>1, <2>3, <3>1 DEF AdminRemains
    <3>2. CASE users' # users /\ Lapse(x)
      BY <2>3, <3>2 DEF AdminRemains
    <3>3. CASE users' # users /\ ~Lapse(x)
      <4>1. users[x.by].role = "admin" /\ x.by # x.id
        BY <1>2, <3>3 DEF Lapse
      <4>2. users'[x.by] = users[x.by]
        BY <1>1, <1>3, <2>1, <4>1 DEF TablesOK
      <4> QED
        BY <1>3, <4>1, <4>2 DEF AdminRemains
    <3> QED
      BY <3>1, <3>2, <3>3
  <2> QED
    BY <1>5, <2>5, <2>6, EndingKeeps DEF CommitUpdate, Steps
<1> QED
  BY <1>4, <1>5

LEMMA CommitDeleteKeeps ==
  ASSUME IInv, NEW c \in DOMAIN calls, CommitDelete(c)
  PROVE  IInv'
<1>1. CallsOK /\ TablesOK /\ AdminRemains
  BY Parts
<1> DEFINE x == calls[c]
<1>2. x \in Call /\ Good(x) /\ At(c, "loaded") /\ x.kind = "delete"
  BY <1>1 DEF CallsOK, CommitDelete
<1>3. x.id \in Ids /\ x.by \in Ids /\ x.by # x.id
  BY <1>2, SettingsPageAssumption DEF Good, NotOneself, Call, At, ByMe, ByPeer, Ids
<1>4. users' = [users EXCEPT ![x.id] = Gone] /\ lapsed' = (IF users[x.id] # Gone THEN Lapse(x) ELSE lapsed)
      /\ keys' = [k \in Ids |-> IF k \in x.doomed THEN 0 ELSE keys[k]] /\ UNCHANGED stored
  BY DEF CommitDelete
<1>5. lapsed' \in BOOLEAN
  BY <1>1, <1>4 DEF TablesOK, Lapse
<1>6. TablesOK'
  <2>1. users' \in [Ids -> User]
    BY <1>1, <1>4 DEF TablesOK, User
  <2>2. keys' \in [Ids -> 0 .. MaxCalls]
    BY <1>1, <1>4, SettingsPageAssumption DEF TablesOK
  <2> QED
    BY <1>1, <1>4, <1>5, <2>1, <2>2 DEF TablesOK
<1>7. AdminRemains'
  <2>1. CASE users[x.id] = Gone
    <3>1. users' = users
      BY <1>1, <1>3, <1>4, <2>1 DEF TablesOK
    <3> QED
      BY <1>1, <1>4, <2>1, <3>1 DEF AdminRemains
  <2>2. CASE users[x.id] # Gone /\ Lapse(x)
    BY <1>4, <2>2 DEF AdminRemains
  <2>3. CASE users[x.id] # Gone /\ ~Lapse(x)
    <3>1. users[x.by].role = "admin"
      BY <2>3 DEF Lapse
    <3>2. users'[x.by] = users[x.by]
      BY <1>1, <1>3, <1>4 DEF TablesOK
    <3> QED
      BY <1>3, <3>1, <3>2 DEF AdminRemains
  <2> QED
    BY <2>1, <2>2, <2>3
<1> QED
  BY <1>6, <1>7, EndingKeeps DEF CommitDelete, Steps

LEMMA KeysKeep ==
  ASSUME IInv, NEW c \in DOMAIN calls, CommitKey(c) \/ Revoke(c)
  PROVE  IInv'
<1>1. CallsOK /\ TablesOK /\ AdminRemains
  BY Parts
<1>2. c \in 1 .. MaxCalls
  BY <1>1, SettingsPageAssumption DEF CallsOK
<1>3. keys' \in [Ids -> 0 .. MaxCalls]
  BY <1>1, <1>2, SettingsPageAssumption DEF CommitKey, Revoke, TablesOK
<1>4. TablesOK' /\ AdminRemains'
  BY <1>1, <1>3 DEF CommitKey, Revoke, TablesOK, AdminRemains
<1> QED
  BY <1>4, EndingKeeps DEF CommitKey, Revoke, Steps

LEMMA HandlingKeeps ==
  ASSUME IInv, NEW c \in DOMAIN calls, Handling(c)
  PROVE  IInv'
<1>1. TablesOK /\ AdminRemains
  BY Parts
<1>2. CASE Interrupted(c)
  BY <1>1, <1>2, TablesStay, EndingKeeps DEF Interrupted, Steps
<1> QED
  BY <1>2, LoadKeeps, SelectKeeps, CommitSettingKeeps, CommitCreateKeeps, CommitUpdateKeeps,
     CommitDeleteKeeps, KeysKeep DEF Handling

LEMMA AnsweredKeeps ==
  ASSUME IInv, NEW c \in DOMAIN calls, Answered(c)
  PROVE  IInv'
<1>1. CallsOK /\ PageOK
  BY Parts
<1> DEFINE x == calls[c]
<1>2. x \in Call
  BY <1>1 DEF CallsOK
<1>3. CallsOK'
  BY <1>1, EndKeeps DEF Answered, Steps
<1>4. \/ page' = Fresh("login", MaxOpenings + 1)
      \/ page' = page
      \/ page' = [page EXCEPT !.dirty = FALSE, !.saved = x.form]
      \/ page' = [page EXCEPT !.dirty = FALSE, !.saved = @]
      \/ page' = [page EXCEPT !.newKey = c]
      \/ page' = Closed
  BY DEF Answered
<1>5. Fresh("login", MaxOpenings + 1) \in Page
  BY FreshPage, SettingsPageAssumption
<1>6. x.form \in Forms /\ c \in 0 .. MaxCalls
  BY <1>1, <1>2, SettingsPageAssumption DEF Call, CallsOK
<1>7. page \in Page /\ Closed \in Page
  BY <1>1, ClosedPage DEF PageOK
<1>8. /\ [page EXCEPT !.dirty = FALSE, !.saved = x.form] \in Page
      /\ [page EXCEPT !.dirty = FALSE, !.saved = @] \in Page
  BY <1>6, <1>7 DEF Page
<1>9. [page EXCEPT !.newKey = c] \in Page
  BY <1>6, <1>7 DEF Page
<1>10. page' \in Page
  BY <1>4, <1>5, <1>7, <1>8, <1>9
<1> QED
  BY <1>3, <1>10, CallStep DEF Answered

-----------------------------------------------------------------------------
LEMMA Inductive == IInv /\ [Next]_vars => IInv'
<1> SUFFICES ASSUME IInv, [Next]_vars PROVE IInv'
  OBVIOUS
<1>1. CASE UNCHANGED vars
  BY <1>1, Parts, PageStep DEF vars, PageOK
<1>2. CASE Next
  BY <1>2, UsingKeeps, HandlingKeeps, AnsweredKeeps DEF Next
<1> QED
  BY <1>1, <1>2

LEMMA Invariance == Spec => []IInv
BY InitGood, Inductive, PTL DEF Spec

\* Types are kept by the page, by the handlers behind it and by the other browser
\* (Settings.tsx, api/users and api/settings), whatever the bounds.
THEOREM Types == Spec => []TypeOK
<1>1. IInv => TypeOK
  BY DEF IInv
<1> QED
  BY <1>1, Invariance, PTL

\* An administrator remains unless one gives up the role or two act on one another:
\* that nobody may delete their own account is enough for it (settings.py:168).
THEOREM Administered == Spec => []AdminRemains
<1>1. IInv => AdminRemains
  BY DEF IInv
<1> QED
  BY <1>1, Invariance, PTL

-----------------------------------------------------------------------------
(* What the page remembers of its requests. *)

\* A step that leaves the page alone, and of every request what the page goes by.
Like(x, y) ==
  /\ y.kind = x.kind /\ y.mount = x.mount /\ y.opening = x.opening /\ y.late = x.late
  /\ y.step \in {"accepted", "rejected"} <=> x.step \in {"accepted", "rejected"}
  /\ x.kind = "settings" => y.form = x.form \/ y.step \in {"failed", "denied"}
  /\ x.step \in {"failed", "denied"} => y.step = x.step

LEMMA BehindThePage ==
  ASSUME PInv, UNCHANGED page, DOMAIN calls' = DOMAIN calls,
         \A c \in DOMAIN calls : Like(calls[c], calls'[c])
  PROVE  PInv'
<1> USE DEF Like
<1>1. MountsInv'
  BY DEF PInv, MountsInv
<1>2. Awaited' = Awaited
  BY DEF Awaited
<1>3. OpeningsInv'
  BY <1>2 DEF PInv, OpeningsInv, Awaited
<1>4. FormInv'
  <2> SUFFICES ASSUME page.tab = "general", NEW c \in Awaited, calls'[c].kind = "settings",
                      calls'[c].step \notin {"failed", "denied"}
               PROVE  Carries(calls[c])'
    BY <1>2 DEF FormInv
  <2>1. calls'[c].form = calls[c].form /\ Carries(calls[c])
    BY DEF PInv, FormInv, Awaited
  <2> QED
    BY <2>1 DEF Carries, Typed
<1>5. NothingForgotten'
  BY DEF PInv, NothingForgotten, Typed
<1>6. KeyOfThisDialog'
  BY DEF PInv, KeyOfThisDialog, KeyShown, OpeningsInv
<1> QED
  BY <1>1, <1>3, <1>4, <1>5, <1>6 DEF PInv

\* A request that ends stays what it was to the page.
LEMMA EndsLike ==
  ASSUME CallsOK, NEW c \in DOMAIN calls, NEW step \in Steps, Ends(c, step)
  PROVE  /\ DOMAIN calls' = DOMAIN calls
         /\ \A d \in DOMAIN calls \ {c} : calls'[d] = calls[d]
         /\ calls'[c].kind = calls[c].kind /\ calls'[c].mount = calls[c].mount
         /\ calls'[c].opening = calls[c].opening /\ calls'[c].late = calls[c].late
         /\ calls'[c].step = step
<1>1. calls[c] \in Call
  BY DEF CallsOK
<1>2. Request(calls[c].kind, calls[c].by) \in Call
      /\ Request(calls[c].kind, calls[c].by).kind = calls[c].kind
  BY <1>1, RequestType DEF Call, Kinds
<1>3. calls' = [calls EXCEPT ![c] = [Request(calls[c].kind, calls[c].by) EXCEPT
         !.step = step, !.mount = calls[c].mount, !.opening = calls[c].opening, !.late = calls[c].late]]
  BY DEF Ends
<1> QED
  BY <1>2, <1>3 DEF Call

LEMMA HandlingRemembered ==
  ASSUME IInv, PInv, NEW c \in DOMAIN calls, Handling(c)
  PROVE  PInv'
<1>1. CallsOK /\ UNCHANGED page
  BY Parts DEF Handling, Load, SelectSetting, CommitSetting, CommitCreate, CommitUpdate,
     CommitDelete, CommitKey, Revoke, Interrupted
<1>2. \A d \in DOMAIN calls : calls[d] \in Call /\ Good(calls[d])
  BY <1>1 DEF CallsOK
<1>3. ASSUME NEW step \in {"done", "failed", "denied"}, Ends(c, step),
             calls[c].step \in {"sent", "loaded", "selected", "done"},
             step = "done" => calls[c].kind # "settings"
      PROVE  PInv'
  <2>1. \A d \in DOMAIN calls : Like(calls[d], calls'[d])
    BY <1>1, <1>3, EndsLike DEF Like, Steps
  <2> QED
    BY <1>1, <1>3, <2>1, EndsLike, BehindThePage DEF Steps
<1>4. CASE Load(c)
  <2> DEFINE read == IF calls[c].kind = "update" THEN users[calls[c].id].role ELSE Absent
             doomed == IF calls[c].kind = "delete" THEN Owned(calls[c].id) ELSE {}
  <2>1. CASE Ends(c, "denied") \/ Ends(c, "failed")
    BY <1>3, <1>4, <2>1 DEF Load, At
  <2>2. CASE calls' = [calls EXCEPT ![c].step = "loaded", ![c].read = read, ![c].doomed = doomed]
    <3>1. \A d \in DOMAIN calls : Like(calls[d], calls'[d])
      BY <1>2, <1>4, <2>2 DEF Like, Call, Load, At
    <3> QED
      BY <1>1, <2>2, <3>1, BehindThePage
  <2> QED
    BY <1>4, <2>1, <2>2 DEF Load
<1>5. ASSUME NEW k \in Fields, SelectSetting(c, k) PROVE PInv'
  <2>1. calls' = [calls EXCEPT ![c].step = "selected", ![c].at = k, ![c].read = stored[k]]
        /\ calls[c].step = "loaded"
    BY <1>5 DEF SelectSetting, At
  <2>2. \A d \in DOMAIN calls : Like(calls[d], calls'[d])
    BY <1>2, <2>1 DEF Like, Call
  <2> QED
    BY <1>1, <2>1, <2>2, BehindThePage
<1>6. CASE CommitSetting(c)
  <2> DEFINE x == calls[c]
             after == [x EXCEPT !.todo = Remaining(x), !.at = Untyped, !.read = Absent,
                                !.step = IF Remaining(x) = {} THEN "done" ELSE "loaded"]
  <2>1. At(c, "selected")
    BY <1>6 DEF CommitSetting
  <2>2. CASE Ends(c, "failed")
    BY <1>3, <2>1, <2>2 DEF At
  <2>3. CASE ~(x.read = Absent /\ stored[x.at] # Absent)
    <3>1. DOMAIN calls' = DOMAIN calls
      BY <1>6, <2>3 DEF CommitSetting
    <3>2. calls'[c] = after
      BY <1>6, <2>3 DEF CommitSetting
    <3>3. Like(x, after)
      BY <1>2, <2>1 DEF Like, Call, At
    <3>4. ASSUME NEW d \in DOMAIN calls \ {c} PROVE Like(calls[d], calls'[d])
      <4>1. \/ calls'[d] = calls[d]
            \/ calls'[d] = [calls[d] EXCEPT !.met = @ \cup {x.at}]
        BY <1>6, <2>3 DEF CommitSetting
      <4> QED
        BY <1>2, <4>1 DEF Like, Call
    <3> QED
      BY <1>1, <3>1, <3>2, <3>3, <3>4, BehindThePage
  <2> QED
    BY <1>6, <2>2, <2>3 DEF CommitSetting
<1>7. CASE CommitCreate(c) \/ CommitUpdate(c) \/ CommitDelete(c) \/ CommitKey(c) \/ Revoke(c)
  <2>1. \E step \in {"done", "failed"} : Ends(c, step)
    BY <1>7 DEF CommitCreate, CommitUpdate, CommitDelete, CommitKey, Revoke
  <2>2. calls[c].step = "loaded" /\ calls[c].kind # "settings"
    BY <1>7 DEF CommitCreate, CommitUpdate, CommitDelete, CommitKey, Revoke, At
  <2> QED
    BY <1>3, <2>1, <2>2
<1>8. CASE Interrupted(c)
  BY <1>3, <1>8 DEF Interrupted, At
<1> QED
  BY <1>4, <1>5, <1>6, <1>7, <1>8 DEF Handling

\* What the invariants are about, in a page.
SameTab(p, q) == q.tab = p.tab /\ q.mount = p.mount /\ q.opening = p.opening
SameForm(p, q) == q.form = p.form /\ q.late = p.late /\ q.dirty = p.dirty /\ q.saved = p.saved

\* Nothing is typed and nothing saved; a dialog may close, and the key be forgotten.
LEMMA PageApart ==
  ASSUME PInv, UNCHANGED calls, SameTab(page, page'), SameForm(page, page'),
         page'.isOpen => page.isOpen, page'.newKey \in {page.newKey, 0}
  PROVE  PInv'
<1> USE DEF SameTab, SameForm
<1>1. Awaited' = Awaited
  BY DEF Awaited
<1>2. MountsInv'
  BY DEF PInv, MountsInv
<1>3. OpeningsInv'
  BY <1>1 DEF PInv, OpeningsInv
<1>4. FormInv'
  BY <1>1 DEF PInv, FormInv, Carries, Typed
<1>5. NothingForgotten'
  BY DEF PInv, NothingForgotten, Typed
<1>6. KeyOfThisDialog'
  BY DEF PInv, KeyOfThisDialog, KeyShown
<1> QED
  BY <1>2, <1>3, <1>4, <1>5, <1>6 DEF PInv

\* The page is another one: of its requests none is awaited yet.
LEMMA AnotherPage ==
  ASSUME CallsOK, NEW tab, NEW mount, page' = Fresh(tab, mount),
         DOMAIN calls' = DOMAIN calls,
         \A c \in DOMAIN calls : calls'[c].mount <= MaxOpenings /\ calls'[c].mount < mount,
         \A c \in DOMAIN calls : calls'[c].mount \in Nat,
         mount \in Nat, tab # "login" => mount <= MaxOpenings
  PROVE  PInv'
<1>1. /\ page'.tab = tab /\ page'.mount = mount /\ page'.form = Nothing
      /\ page'.newKey = 0 /\ page'.isOpen = FALSE
  BY DEF Fresh
<1>2. Awaited' = {}
  BY <1>1 DEF Awaited
<1>3. MountsInv'
  BY <1>1 DEF MountsInv
<1>4. OpeningsInv'
  BY <1>1, <1>2 DEF OpeningsInv
<1>5. FormInv' /\ KeyOfThisDialog'
  BY <1>1, <1>2 DEF FormInv, KeyOfThisDialog, KeyShown
<1>6. Typed(page'.form) = {}
  BY <1>1 DEF Typed, Nothing
<1>7. NothingForgotten'
  BY <1>6 DEF NothingForgotten, Typed
<1> QED
  BY <1>3, <1>4, <1>5, <1>7 DEF PInv

\* A request that is not one of the general tab is made.
LEMMA AskRemembered ==
  ASSUME CallsOK, PInv, NEW x \in Call, Ask(x), SameTab(page, page'), SameForm(page, page'),
         page'.isOpen = page.isOpen, page'.newKey = page.newKey,
         x.mount <= MaxOpenings, x.mount <= page.mount,
         x.mount = page.mount => /\ x.opening = page.opening /\ x.kind # "settings"
                                 /\ x.kind = "key" => page.tab = "keys"
  PROVE  PInv'
<1> USE DEF SameTab, SameForm
<1>1. /\ calls' = Append(calls, x) /\ Len(calls) \in Nat /\ DOMAIN calls = 1 .. Len(calls)
      /\ calls \in Seq(Call)
  BY DEF Ask, CallsOK
<1>2. /\ DOMAIN calls' = DOMAIN calls \cup {Len(calls) + 1} /\ calls'[Len(calls) + 1] = x
      /\ \A c \in DOMAIN calls : calls'[c] = calls[c]
  BY <1>1
<1>3. \A c \in Awaited' : c \in Awaited \/ calls'[c] = x
  BY <1>2 DEF Awaited
<1>4. MountsInv'
  BY <1>2 DEF PInv, MountsInv
<1>5. OpeningsInv'
  <2>1. ASSUME NEW c \in Awaited'
        PROVE  (calls'[c].late \/ calls'[c].opening = page'.opening) /\ (calls'[c].kind = "key" => page'.tab = "keys")
    <3>1. CASE c \in Awaited
      <4>1. calls'[c] = calls[c]
        BY <1>2, <3>1 DEF Awaited
      <4>2. (calls[c].late \/ calls[c].opening = page.opening) /\ (calls[c].kind = "key" => page.tab = "keys")
        BY <3>1 DEF PInv, OpeningsInv
      <4>3. page'.opening = page.opening /\ page'.tab = page.tab
        BY DEF SameTab
      <4> QED
        BY <4>1, <4>2, <4>3
    <3>2. CASE calls'[c] = x /\ calls'[c].mount = page'.mount
      BY <3>2
    <3> QED
      BY <1>3, <3>1, <3>2 DEF Awaited
  <2>2. page'.newKey # 0 => page'.tab = "keys" /\ page'.newKey \in DOMAIN calls'
    BY <1>2 DEF PInv, OpeningsInv
  <2> QED
    BY <2>1, <2>2 DEF OpeningsInv
<1>6. FormInv'
  <2> SUFFICES ASSUME page.tab = "general", NEW c \in Awaited', calls'[c].kind = "settings",
                      calls'[c].step \notin {"failed", "denied"}
               PROVE  Carries(calls[c])'
    BY DEF FormInv
  <2>1. c \in Awaited /\ calls'[c] = calls[c]
    BY <1>2, <1>3 DEF Awaited
  <2>2. Carries(calls[c])
    BY <2>1 DEF PInv, FormInv
  <2> QED
    BY <2>1, <2>2 DEF Carries, Typed
<1>7. NothingForgotten'
  BY DEF PInv, NothingForgotten, Typed
<1>8. KeyOfThisDialog'
  BY <1>2 DEF PInv, KeyOfThisDialog, KeyShown, OpeningsInv
<1> QED
  BY <1>4, <1>5, <1>6, <1>7, <1>8 DEF PInv

LEMMA SaveRemembered == ASSUME IInv, PInv, SaveSettings PROVE PInv'
<1>1. CallsOK /\ PageOK
  BY Parts
<1> DEFINE m == Mine(Request("settings", ByMe))
           x == [m EXCEPT !.form = page.form, !.todo = Typed(page.form)]
<1>2. m \in Call /\ m.kind = "settings" /\ m.mount = page.mount /\ m.opening = page.opening
  <2>1. Request("settings", ByMe) \in Call /\ Request("settings", ByMe).kind = "settings"
    BY RequestType DEF Kinds
  <2>2. m \in Call /\ m.kind = "settings"
    BY <1>1, <2>1, MineType
  <2> QED
    BY <2>1, <2>2 DEF Mine, Call
<1>3. x.kind = "settings" /\ x.mount = page.mount /\ x.opening = page.opening /\ x.form = page.form
  BY <1>2 DEF Call
<1>4. /\ calls' = Append(calls, x) /\ Len(calls) \in Nat /\ DOMAIN calls = 1 .. Len(calls)
      /\ calls \in Seq(Call) /\ page' = [page EXCEPT !.late = {}]
  BY <1>1 DEF Ask, CallsOK, SaveSettings
<1>5. /\ DOMAIN calls' = DOMAIN calls \cup {Len(calls) + 1} /\ calls'[Len(calls) + 1] = x
      /\ \A c \in DOMAIN calls : calls'[c] = calls[c]
  BY <1>4
<1>6. /\ SameTab(page, page') /\ page'.form = page.form /\ page'.dirty /\ page'.newKey = page.newKey
      /\ page'.isOpen = page.isOpen
  BY <1>1, <1>4 DEF SameTab, PageOK, Page, SaveSettings
<1>7. \A c \in Awaited' : c \in Awaited \/ calls'[c] = x
  BY <1>5, <1>6 DEF Awaited, SameTab
<1>8. MountsInv'
  <2>1. page.mount \in Nat /\ page.tab = "general"
    BY <1>1, SettingsPageAssumption DEF PageOK, Page, SaveSettings
  <2>2. page.mount <= MaxOpenings /\ \A c \in DOMAIN calls : calls[c].mount <= MaxOpenings /\ calls[c].mount <= page.mount
    BY <2>1 DEF PInv, MountsInv
  <2>3. page.mount <= page.mount
    BY <2>1
  <2>4. \A c \in DOMAIN calls' : calls'[c].mount <= MaxOpenings /\ calls'[c].mount <= page.mount
    BY <1>3, <1>5, <2>2, <2>3
  <2> QED
    BY <1>6, <2>2, <2>4 DEF MountsInv, SameTab
<1>9. OpeningsInv'
  <2>1. ASSUME NEW c \in Awaited'
        PROVE  (calls'[c].late \/ calls'[c].opening = page'.opening) /\ (calls'[c].kind = "key" => page'.tab = "keys")
    <3>1. CASE c \in Awaited
      <4>1. calls'[c] = calls[c]
        BY <1>5, <3>1 DEF Awaited
      <4>2. (calls[c].late \/ calls[c].opening = page.opening) /\ (calls[c].kind = "key" => page.tab = "keys")
        BY <3>1 DEF PInv, OpeningsInv
      <4>3. page'.opening = page.opening /\ page'.tab = page.tab
        BY <1>6 DEF SameTab
      <4> QED
        BY <4>1, <4>2, <4>3
    <3>2. CASE calls'[c] = x
      BY <1>3, <1>6, <3>2 DEF SameTab
    <3> QED
      BY <1>7, <3>1, <3>2
  <2>2. page'.newKey # 0 => page'.tab = "keys" /\ page'.newKey \in DOMAIN calls'
    BY <1>5, <1>6 DEF PInv, OpeningsInv, SameTab
  <2> QED
    BY <2>1, <2>2 DEF OpeningsInv
<1>10. FormInv'
  <2>1. ASSUME NEW c \in Awaited', calls'[c].kind = "settings" PROVE calls'[c] = x
    BY <1>5, <1>7, <2>1 DEF SaveSettings, Pending, Awaited
  <2> QED
    BY <1>3, <1>6, <2>1 DEF FormInv, Carries
<1>11. NothingForgotten'
  BY <1>6 DEF NothingForgotten
<1>12. KeyOfThisDialog'
  BY <1>5, <1>6 DEF PInv, KeyOfThisDialog, KeyShown, OpeningsInv, SameTab
<1> QED
  BY <1>8, <1>9, <1>10, <1>11, <1>12 DEF PInv

\* A dialog opens: what is awaited from before is marked, and no key is remembered.
LEMMA OpensRemembered ==
  ASSUME IInv, PInv, NEW dialog \in Page, Opens(dialog), SameTab(page, dialog), SameForm(page, dialog),
         dialog.newKey = 0
  PROVE  PInv'
<1>1. CallsOK /\ PageOK
  BY Parts
<1>2. /\ page'.tab = page.tab /\ page'.mount = page.mount /\ SameForm(page, page') /\ page'.newKey = 0
  BY DEF Opens, Page, SameTab, SameForm
<1>3. calls' = Overtaken /\ DOMAIN calls' = DOMAIN calls
  BY DEF Opens, Overtaken
<1>4. ASSUME NEW c \in DOMAIN calls
      PROVE  /\ calls'[c].kind = calls[c].kind /\ calls'[c].mount = calls[c].mount
             /\ calls'[c].step = calls[c].step /\ calls'[c].form = calls[c].form
             /\ c \in Awaited => calls'[c].late
  <2>1. calls[c] \in Call
    BY <1>1 DEF CallsOK
  <2> QED
    BY <1>3, <2>1 DEF Overtaken, Call
<1>5. Awaited' = Awaited
  BY <1>2, <1>3, <1>4 DEF Awaited
<1>6. MountsInv'
  BY <1>2, <1>3, <1>4 DEF PInv, MountsInv
<1>7. OpeningsInv'
  <2> SUFFICES ASSUME NEW c \in Awaited
               PROVE  calls'[c].late /\ (calls'[c].kind = "key" => page'.tab = "keys")
    BY <1>2, <1>5 DEF OpeningsInv
  <2>1. c \in DOMAIN calls /\ (calls[c].kind = "key" => page.tab = "keys")
    BY DEF PInv, OpeningsInv, Awaited
  <2> QED
    BY <1>2, <1>4, <2>1
<1>8. FormInv'
  <2> SUFFICES ASSUME page.tab = "general", NEW c \in Awaited, calls'[c].kind = "settings",
                      calls'[c].step \notin {"failed", "denied"}
               PROVE  Carries(calls[c])'
    BY <1>2, <1>5 DEF FormInv
  <2>1. Carries(calls[c]) /\ calls'[c].form = calls[c].form
    BY <1>4 DEF PInv, FormInv, Awaited
  <2> QED
    BY <1>2, <2>1 DEF Carries, Typed, SameForm
<1>9. NothingForgotten'
  BY <1>2 DEF PInv, NothingForgotten, Typed, SameForm
<1>10. KeyOfThisDialog'
  BY <1>2 DEF KeyOfThisDialog, KeyShown
<1> QED
  BY <1>6, <1>7, <1>8, <1>9, <1>10 DEF PInv

\* What is typed while a save is awaited is marked; otherwise no save is awaited.
LEMMA SetRemembered ==
  ASSUME IInv, PInv, NEW k \in Fields, NEW v \in Values, set(k, v)
  PROVE  PInv'
<1>1. PageOK
  BY Parts
<1> DEFINE late == IF Pending({"settings"}) THEN page.late \cup {k} ELSE page.late \ {k}
<1>2. /\ page' = [page EXCEPT !.form[k] = v, !.dirty = TRUE, !.late = late] /\ UNCHANGED calls
      /\ page.tab = "general"
  BY DEF set
<1>3. /\ SameTab(page, page') /\ page'.dirty = TRUE /\ page'.late = late
      /\ page'.form = [page.form EXCEPT ![k] = v] /\ page'.newKey = page.newKey /\ page'.isOpen = page.isOpen
  BY <1>1, <1>2 DEF SameTab, PageOK, Page
<1>4. Awaited' = Awaited
  BY <1>2, <1>3 DEF Awaited, SameTab
<1>5. MountsInv'
  BY <1>2, <1>3 DEF PInv, MountsInv, SameTab
<1>6. OpeningsInv'
  BY <1>2, <1>3, <1>4 DEF PInv, OpeningsInv, SameTab
<1>7. FormInv'
  <2> SUFFICES ASSUME NEW c \in Awaited, calls[c].kind = "settings", calls[c].step \notin {"failed", "denied"},
                      NEW f \in Fields, page'.form[f] # Untyped, f \notin page'.late
               PROVE  calls[c].form[f] = page'.form[f]
    BY <1>2, <1>4 DEF FormInv, Carries, Typed
  <2>1. Carries(calls[c]) /\ Pending({"settings"})
    BY <1>2 DEF PInv, FormInv, Pending
  <2>2. f # k /\ f \notin page.late
    BY <1>3, <2>1
  <2>3. page'.form[f] = page.form[f]
    BY <1>1, <1>3, <2>2 DEF PageOK, Page, Forms
  <2> QED
    BY <2>1, <2>2, <2>3 DEF Carries, Typed
<1>8. NothingForgotten'
  BY <1>3 DEF NothingForgotten
<1>9. KeyOfThisDialog'
  BY <1>2, <1>3 DEF PInv, KeyOfThisDialog, KeyShown, SameTab
<1> QED
  BY <1>5, <1>6, <1>7, <1>8, <1>9 DEF PInv

\* A request that is marked as this dialog's, or as no dialog's.
LEMMA MineRemembered ==
  ASSUME IInv, PInv, page.tab # "login", NEW kind \in Kinds \ {"settings"}
  PROVE  LET m == Mine(Request(kind, ByMe))
         IN  /\ m \in Call /\ m.kind = kind /\ m.mount = page.mount /\ m.opening = page.opening
             /\ m.mount <= MaxOpenings /\ m.mount <= page.mount
<1>1. PageOK
  BY Parts
<1>2. Request(kind, ByMe) \in Call /\ Request(kind, ByMe).kind = kind
  BY RequestType DEF Kinds
<1>3. Mine(Request(kind, ByMe)) \in Call /\ Mine(Request(kind, ByMe)).kind = kind
  BY <1>1, <1>2, MineType
<1>4. Mine(Request(kind, ByMe)).mount = page.mount /\ Mine(Request(kind, ByMe)).opening = page.opening
  BY <1>2, <1>3 DEF Mine, Call
<1>5. page.mount \in Nat /\ page.mount <= page.mount
  BY <1>1, SettingsPageAssumption DEF PageOK, Page
<1> QED
  BY <1>3, <1>4, <1>5 DEF PInv, MountsInv

LEMMA Abroad ==
  ASSUME IInv, NEW kind \in Kinds, NEW by \in {ByMe, ByPeer}
  PROVE  /\ Request(kind, by) \in Call /\ Request(kind, by).mount = 0
         /\ 0 <= MaxOpenings /\ 0 <= page.mount /\ page.mount # 0
<1>1. page.mount \in 1 .. MaxOpenings + 1
  BY Parts DEF PageOK, Page
<1>2. Request(kind, by).mount = 0
  BY DEF Request
<1>3. 0 <= MaxOpenings /\ 0 <= page.mount /\ page.mount # 0
  BY <1>1, SettingsPageAssumption
<1> QED
  BY <1>2, <1>3, RequestType DEF Kinds

LEMMA UsingRemembered == ASSUME IInv, PInv, Using PROVE PInv'
<1>1. CallsOK /\ PageOK
  BY Parts
<1>2. page \in Page /\ SameTab(page, page) /\ SameForm(page, page)
  BY <1>1 DEF PageOK, SameTab, SameForm
<1>3. ASSUME NEW tab \in Tabs, SetTab(tab) PROVE PInv'
  <2>1. /\ page' = Fresh(tab, page.mount + 1) /\ UNCHANGED calls
        /\ page.mount < MaxOpenings /\ page.mount \in Nat
    BY <1>2, <1>3 DEF SetTab, Page
  <2>2. ASSUME NEW c \in DOMAIN calls PROVE calls[c].mount \in Nat
    <3>1. calls[c] \in Call
      BY <1>1 DEF CallsOK
    <3> QED
      BY <3>1, SettingsPageAssumption DEF Call
  <2>3. \A c \in DOMAIN calls : calls[c].mount <= MaxOpenings /\ calls[c].mount < page.mount + 1
    BY <2>1, <2>2 DEF PInv, MountsInv
  <2>4. page.mount + 1 \in Nat /\ page.mount + 1 <= MaxOpenings
    BY <2>1, SettingsPageAssumption
  <2> QED
    BY <1>1, <2>1, <2>2, <2>3, <2>4, AnotherPage
<1>4. CASE ListsArrive
  BY <1>2, <1>4, PageApart DEF ListsArrive, SameTab, SameForm
<1>5. ASSUME NEW r \in Roles, EditRole(r) PROVE PInv'
  <2>1. page' = [page EXCEPT !.role = r] /\ UNCHANGED calls
    BY <1>5 DEF EditRole
  <2> QED
    BY <1>2, <2>1, PageApart DEF Page, SameTab, SameForm
<1>6. ASSUME NEW id \in {NoId} \cup Ids, page' = [page EXCEPT !.target = id], UNCHANGED calls PROVE PInv'
  BY <1>2, <1>6, PageApart DEF Page, SameTab, SameForm
<1>7. CASE Refuse
  BY <1>6, <1>7 DEF Refuse
<1>8. ASSUME NEW id \in Ids, Targets(id) PROVE PInv'
  BY <1>6, <1>8 DEF Targets
<1>9. CASE Close
  BY <1>2, <1>9, PageApart DEF Close, Closed, Page, SameTab, SameForm
<1>10. CASE Cancel
  BY <1>2, <1>10, PageApart DEF Cancel, Closed, Page, SameTab, SameForm
<1>11. CASE openCreateUser
  <2> DEFINE d == [page EXCEPT !.role = "viewer"]
  <2>1. d \in Page /\ SameTab(page, d) /\ SameForm(page, d) /\ d.newKey = page.newKey
    BY <1>2 DEF Page, Roles, SameTab, SameForm
  <2>2. page.newKey = 0
    BY <1>11 DEF PInv, OpeningsInv, openCreateUser
  <2> QED
    BY <1>11, <2>1, <2>2, OpensRemembered DEF openCreateUser
<1>12. ASSUME NEW id \in Ids, openEdit(id) PROVE PInv'
  <2> DEFINE d == [page EXCEPT !.editing = id, !.role = seen.users[id].role]
  <2>1. seen.users[id].role \in Roles
    BY <1>12, Parts DEF openEdit, SeenOK, User
  <2>2. d \in Page /\ SameTab(page, d) /\ SameForm(page, d) /\ d.newKey = page.newKey
    BY <1>2, <2>1 DEF Page, SameTab, SameForm
  <2>3. page.newKey = 0
    BY <1>12 DEF PInv, OpeningsInv, openEdit
  <2> QED
    BY <1>12, <2>2, <2>3, OpensRemembered DEF openEdit
<1>13. CASE openCreateKey
  <2> DEFINE d == [page EXCEPT !.role = "viewer", !.newKey = 0]
  <2>1. "viewer" \in Roles /\ 0 \in 0 .. MaxCalls
    BY SettingsPageAssumption DEF Roles
  <2>2. d \in Page /\ SameTab(page, d) /\ SameForm(page, d) /\ d.newKey = 0
    BY <1>2, <2>1 DEF Page, SameTab, SameForm
  <2> QED
    BY <1>13, <2>2, OpensRemembered DEF openCreateKey
<1>14. ASSUME NEW name \in Names, NEW password \in Passwords, SaveUser(name, password) PROVE PInv'
  <2> DEFINE m == Mine(Request("create", ByMe))
             x == [m EXCEPT !.password = password, !.role = page.role]
             y == UserRequest(name, password)
  <2>1. page.tab # "login" /\ Ask(y) /\ UNCHANGED page
    BY <1>14 DEF SaveUser
  <2>2. /\ m \in Call /\ m.kind = "create" /\ m.mount = page.mount /\ m.opening = page.opening
        /\ m.mount <= MaxOpenings /\ m.mount <= page.mount
    BY <2>1, MineRemembered DEF Kinds
  <2>3. page.role \in Roles /\ page.editing \in {NoId} \cup Ids
    BY <1>2 DEF Page
  <2>4. x \in Call /\ x.kind = "create" /\ x.mount = m.mount /\ x.opening = m.opening
    BY <2>2, <2>3 DEF Call
  <2>5. \/ y = [x EXCEPT !.name = name]
        \/ y = [x EXCEPT !.kind = "update", !.id = page.editing]
    BY DEF UserRequest
  <2> HIDE DEF m, x, y
  <2>6. y \in Call /\ y.kind \in {"create", "update"} /\ y.mount = m.mount /\ y.opening = m.opening
    <3>1. CASE y = [x EXCEPT !.name = name]
      BY <2>4, <3>1 DEF Call
    <3>2. CASE y = [x EXCEPT !.kind = "update", !.id = page.editing]
      BY <2>3, <2>4, <3>2 DEF Call
    <3> QED
      BY <2>5, <3>1, <3>2
  <2>7. y.kind # "settings" /\ y.kind # "key"
    BY <2>6
  <2> QED
    BY <1>1, <1>2, <2>1, <2>2, <2>6, <2>7, AskRemembered DEF SameTab, SameForm
<1>15. CASE CreateKey
  <2> DEFINE m == Mine(Request("key", ByMe))
             x == [m EXCEPT !.role = page.role]
  <2>1. page.tab = "keys" /\ Ask(x) /\ UNCHANGED page
    BY <1>15 DEF CreateKey
  <2>2. /\ m \in Call /\ m.kind = "key" /\ m.mount = page.mount /\ m.opening = page.opening
        /\ m.mount <= MaxOpenings /\ m.mount <= page.mount
    BY <2>1, MineRemembered DEF Kinds
  <2>3. x \in Call /\ x.kind = "key" /\ x.mount = m.mount /\ x.opening = m.opening
    BY <1>2, <2>2 DEF Page, Call
  <2> QED
    BY <1>1, <1>2, <2>1, <2>2, <2>3, AskRemembered DEF SameTab, SameForm
<1>16. ASSUME NEW kind \in {"delete", "revoke"}, Confirms(Request(kind, ByMe)) PROVE PInv'
  <2> DEFINE m == Request(kind, ByMe)
             x == [m EXCEPT !.id = page.target]
  <2>1. m \in Call /\ m.mount = 0 /\ 0 <= MaxOpenings /\ 0 <= page.mount /\ page.mount # 0
    BY Abroad DEF Kinds
  <2>2. x \in Call /\ x.mount = 0
    BY <1>2, <2>1 DEF Page, Call
  <2>3. Ask(x) /\ page' = [page EXCEPT !.target = NoId]
    BY <1>16 DEF Confirms
  <2>4. SameTab(page, page') /\ SameForm(page, page') /\ page'.isOpen = page.isOpen /\ page'.newKey = page.newKey
    BY <1>2, <2>3 DEF Page, SameTab, SameForm
  <2> QED
    BY <1>1, <2>1, <2>2, <2>3, <2>4, AskRemembered
<1>17. CASE Elsewhere
  <2>1. ASSUME NEW kind \in Kinds, NEW x \in Call, x.mount = 0, Ask(x) PROVE PInv'
    BY <1>1, <1>2, <1>17, <2>1, Abroad, AskRemembered DEF Elsewhere
  <2>2. ASSUME NEW k \in Fields, NEW v \in Values,
               Ask([Request("settings", ByPeer) EXCEPT !.form[k] = v, !.todo = {k}])
        PROVE  PInv'
    <3> DEFINE m == Request("settings", ByPeer)
               x == [m EXCEPT !.form[k] = v, !.todo = {k}]
    <3>1. m \in Call /\ m.mount = 0
      BY Abroad DEF Kinds
    <3>2. x \in Call /\ x.mount = 0
      BY <3>1 DEF Call, Forms
    <3> QED
      BY <2>1, <2>2, <3>2 DEF Kinds
  <2>3. ASSUME NEW id \in Ids, NEW r \in Roles, Ask([Request("update", ByPeer) EXCEPT !.id = id, !.role = r])
        PROVE  PInv'
    <3> DEFINE m == Request("update", ByPeer)
               x == [m EXCEPT !.id = id, !.role = r]
    <3>1. m \in Call /\ m.mount = 0
      BY Abroad DEF Kinds
    <3>2. x \in Call /\ x.mount = 0
      BY <3>1 DEF Call
    <3> QED
      BY <2>1, <2>3, <3>2 DEF Kinds
  <2>4. ASSUME NEW kind \in {"delete", "revoke"}, NEW id \in Ids, Ask([Request(kind, ByPeer) EXCEPT !.id = id])
        PROVE  PInv'
    <3> DEFINE m == Request(kind, ByPeer)
               x == [m EXCEPT !.id = id]
    <3>1. m \in Call /\ m.mount = 0
      BY Abroad DEF Kinds
    <3>2. x \in Call /\ x.mount = 0
      BY <3>1 DEF Call
    <3> QED
      BY <2>1, <2>4, <3>2 DEF Kinds
  <2>5. ASSUME NEW n \in Names, Ask([Request("create", ByPeer) EXCEPT !.name = n]) PROVE PInv'
    <3> DEFINE m == Request("create", ByPeer)
               x == [m EXCEPT !.name = n]
    <3>1. m \in Call /\ m.mount = 0
      BY Abroad DEF Kinds
    <3>2. x \in Call /\ x.mount = 0
      BY <3>1 DEF Call
    <3> QED
      BY <2>1, <2>5, <3>2 DEF Kinds
  <2>6. ASSUME Ask(Request("key", ByPeer)) PROVE PInv'
    BY <2>1, <2>6, Abroad DEF Kinds
  <2> QED
    BY <1>17, <2>2, <2>3, <2>4, <2>5, <2>6 DEF Elsewhere
<1> QED
  BY <1>3, <1>4, <1>5, <1>7, <1>8, <1>9, <1>10, <1>11, <1>12, <1>13, <1>14, <1>15, <1>16, <1>17,
     SaveRemembered, SetRemembered
     DEF Using, setDeleteTarget, setRevokeTarget, ConfirmDelete, ConfirmRevoke

\* An answer is taken: its request is awaited no more.
LEMMA EndedRemembered ==
  ASSUME CallsOK, PInv, NEW c \in DOMAIN calls, NEW step \in {"accepted", "rejected"}, Ends(c, step),
         SameTab(page, page'), page'.form = page.form, page'.late = page.late,
         page'.isOpen => page.isOpen,
         page'.newKey = page.newKey \/ (page'.newKey = c /\ c \in Awaited /\ calls[c].kind = "key"),
         (page'.dirty = page.dirty /\ page'.saved = page.saved) \/ NothingForgotten'
  PROVE  PInv'
<1> USE DEF SameTab
<1>1. /\ DOMAIN calls' = DOMAIN calls
      /\ \A d \in DOMAIN calls : /\ calls'[d].mount = calls[d].mount /\ calls'[d].opening = calls[d].opening
                                 /\ calls'[d].late = calls[d].late
      /\ \A d \in DOMAIN calls \ {c} : calls'[d] = calls[d]
      /\ calls'[c].step = step
  BY EndsLike DEF Steps
<1>2. Awaited' = Awaited \ {c}
  BY <1>1 DEF Awaited
<1>3. Awaited \subseteq DOMAIN calls
  BY DEF Awaited
<1>4. MountsInv'
  BY <1>1 DEF PInv, MountsInv
<1>5. OpeningsInv'
  <2>1. ASSUME NEW d \in Awaited'
        PROVE  (calls'[d].late \/ calls'[d].opening = page'.opening) /\ (calls'[d].kind = "key" => page'.tab = "keys")
    <3>1. calls'[d] = calls[d] /\ d \in Awaited
      BY <1>1, <1>2, <1>3
    <3>2. (calls[d].late \/ calls[d].opening = page.opening) /\ (calls[d].kind = "key" => page.tab = "keys")
      BY <3>1 DEF PInv, OpeningsInv
    <3> QED
      BY <3>1, <3>2
  <2>2. page'.newKey # 0 => page'.tab = "keys" /\ page'.newKey \in DOMAIN calls'
    BY <1>1 DEF PInv, OpeningsInv
  <2> QED
    BY <2>1, <2>2 DEF OpeningsInv
<1>6. FormInv'
  <2> SUFFICES ASSUME page.tab = "general", NEW d \in Awaited \ {c}, calls[d].kind = "settings",
                      calls[d].step \notin {"failed", "denied"}
               PROVE  Carries(calls[d])'
    BY <1>1, <1>2, <1>3 DEF FormInv
  <2>1. Carries(calls[d]) /\ calls'[d] = calls[d]
    BY <1>1, <1>3 DEF PInv, FormInv
  <2> QED
    BY <2>1 DEF Carries, Typed
<1>7. NothingForgotten'
  BY DEF PInv, NothingForgotten, Typed
<1>8. KeyOfThisDialog'
  <2> SUFFICES ASSUME page'.isOpen, page'.newKey # 0
               PROVE  calls'[page'.newKey].late \/ calls'[page'.newKey].opening = page'.opening
    BY DEF KeyOfThisDialog, KeyShown
  <2>1. CASE page'.newKey = page.newKey
    <3>1. page.newKey \in DOMAIN calls
      BY <2>1 DEF PInv, OpeningsInv
    <3>2. calls[page.newKey].late \/ calls[page.newKey].opening = page.opening
      BY <2>1 DEF PInv, KeyOfThisDialog, KeyShown
    <3> QED
      BY <1>1, <2>1, <3>1, <3>2
  <2>2. CASE page'.newKey = c /\ c \in Awaited
    <3>1. calls[c].late \/ calls[c].opening = page.opening
      BY <2>2 DEF PInv, OpeningsInv
    <3> QED
      BY <1>1, <2>2, <3>1
  <2> QED
    BY <2>1, <2>2
<1> QED
  BY <1>4, <1>5, <1>6, <1>7, <1>8 DEF PInv

LEMMA AnsweredRemembered ==
  ASSUME IInv, PInv, NEW c \in DOMAIN calls, Answered(c)
  PROVE  PInv'
<1> DEFINE x == calls[c]
           step == IF x.step = "done" THEN "accepted" ELSE "rejected"
<1>1. CallsOK /\ page \in Page
  BY Parts DEF PageOK
<1>2. step \in {"accepted", "rejected"} /\ Ends(c, step) /\ x.step \in {"done", "failed", "denied"}
  BY DEF Answered
<1>3. CASE x.step = "denied"
  <2>1. page' = Fresh("login", MaxOpenings + 1)
    BY <1>3 DEF Answered
  <2>2. DOMAIN calls' = DOMAIN calls /\ \A d \in DOMAIN calls : calls'[d].mount = calls[d].mount
    BY <1>1, <1>2, EndsLike DEF Steps
  <2>3. ASSUME NEW d \in DOMAIN calls
        PROVE  calls[d].mount \in Nat /\ calls[d].mount <= MaxOpenings /\ calls[d].mount < MaxOpenings + 1
    <3>1. calls[d].mount \in 0 .. MaxOpenings + 1
      <4>1. calls[d] \in Call
        BY <1>1 DEF CallsOK
      <4> QED
        BY <4>1 DEF Call
    <3>2. calls[d].mount <= MaxOpenings
      BY DEF PInv, MountsInv
    <3> QED
      BY <3>1, <3>2, SettingsPageAssumption
  <2> QED
    BY <1>1, <2>1, <2>2, <2>3, SettingsPageAssumption, AnotherPage
<1>4. CASE x.step # "denied" /\ (x.mount # page.mount \/ ~Success(x))
  <2>1. page' = page
    BY <1>4 DEF Answered
  <2> QED
    BY <1>1, <1>2, <2>1, EndedRemembered DEF SameTab
<1>5. CASE x.mount = page.mount /\ x.step = "done"
  <2>1. c \in Awaited
    BY <1>5 DEF Awaited
  <2>2. CASE x.kind = "settings"
    <3>1. page' = [page EXCEPT !.dirty = FALSE, !.saved = x.form]
      BY <1>5, <2>2 DEF Answered, Success
    <3>2. /\ SameTab(page, page') /\ page'.form = page.form /\ page'.late = page.late
          /\ page'.isOpen = page.isOpen /\ page'.newKey = page.newKey /\ page'.saved = x.form
      BY <1>1, <3>1 DEF SameTab, Page
    <3>3. page.tab = "general" => Carries(x)
      BY <1>5, <2>1, <2>2 DEF PInv, FormInv
    <3>4. NothingForgotten'
      BY <3>2, <3>3 DEF NothingForgotten, Carries, Typed, SameTab
    <3> QED
      BY <1>1, <1>2, <3>2, <3>4, EndedRemembered
  <2>3. CASE x.kind = "key"
    <3>1. page' = [page EXCEPT !.newKey = c]
      BY <1>5, <2>3 DEF Answered, Success
    <3>2. /\ SameTab(page, page') /\ SameForm(page, page') /\ page'.isOpen = page.isOpen /\ page'.newKey = c
      BY <1>1, <3>1 DEF SameTab, SameForm, Page
    <3> QED
      BY <1>1, <1>2, <2>1, <2>3, <3>2, EndedRemembered DEF SameForm
  <2>4. CASE x.kind # "settings" /\ x.kind # "key"
    <3>1. page' = Closed
      BY <1>5, <2>4 DEF Answered, Success
    <3>2. SameTab(page, page') /\ SameForm(page, page') /\ page'.isOpen = FALSE /\ page'.newKey = page.newKey
      BY <1>1, <3>1 DEF Closed, SameTab, SameForm, Page
    <3> QED
      BY <1>1, <1>2, <3>2, EndedRemembered DEF SameForm
  <2> QED
    BY <2>2, <2>3, <2>4
<1> QED
  BY <1>2, <1>3, <1>4, <1>5 DEF Success

LEMMA NothingYet == Init => PInv
<1> SUFFICES ASSUME Init PROVE PInv
  OBVIOUS
<1>1. /\ page.tab = "general" /\ page.mount = 1 /\ page.form = Nothing /\ page.newKey = 0 /\ page.isOpen = FALSE
      /\ calls = <<>>
  BY DEF Init, Fresh
<1>2. DOMAIN calls = {}
  BY <1>1
<1>3. Awaited = {}
  BY <1>2 DEF Awaited
<1>4. MountsInv
  BY <1>1, <1>2, SettingsPageAssumption DEF MountsInv
<1>5. Typed(page.form) = {}
  BY <1>1 DEF Typed, Nothing
<1> QED
  BY <1>1, <1>3, <1>4, <1>5 DEF PInv, OpeningsInv, FormInv, NothingForgotten, KeyOfThisDialog, KeyShown

LEMMA StillRemembered == IInv /\ PInv /\ [Next]_vars => PInv'
<1> SUFFICES ASSUME IInv, PInv, [Next]_vars PROVE PInv'
  OBVIOUS
<1>1. CASE UNCHANGED vars
  BY <1>1, PageApart DEF vars, SameTab, SameForm
<1>2. CASE Next
  BY <1>2, UsingRemembered, HandlingRemembered, AnsweredRemembered DEF Next
<1> QED
  BY <1>1, <1>2

LEMMA Memory == Spec => []PInv
BY NothingYet, StillRemembered, Invariance, PTL DEF Spec

\* What the general tab does not offer to save has been accepted (Settings.tsx:52): of
\* every save that is awaited the form agrees with the page but for what was typed since.
THEOREM Remembered == Spec => []NothingForgotten
<1>1. PInv => NothingForgotten
  BY DEF PInv
<1> QED
  BY <1>1, Memory, PTL

\* A dialog shows the key it asked for (Settings.tsx:447): a request that is awaited was
\* made in the dialog that is open, or is marked as one that a later dialog overtook.
THEOREM OwnKey == Spec => []KeyOfThisDialog
<1>1. PInv => KeyOfThisDialog
  BY DEF PInv
<1> QED
  BY <1>1, Memory, PTL

-----------------------------------------------------------------------------
(* What a save has stored. *)

\* What a step leaves of a request, as far as the settings go: it is as it was, or is
\* over, or new.
Kept(x, y) ==
  /\ y.kind = x.kind /\ y.form = x.form /\ y.met = x.met /\ y.todo = x.todo
  /\ y.step = "selected" => x.step = "selected" /\ y.at = x.at /\ y.read = x.read
  /\ y.step = "done" => x.step = "done"

Plain(y) == y.kind = "settings" =>
  Typed(y.form) \subseteq y.todo /\ y.step # "selected" /\ (y.step = "done" => y.todo = {})

LEMMA Carried ==
  ASSUME SInv, UNCHANGED stored,
         \A c \in DOMAIN calls' : Plain(calls'[c]) \/ (c \in DOMAIN calls /\ Kept(calls[c], calls'[c]))
  PROVE  SInv'
<1> SUFFICES ASSUME NEW c \in DOMAIN calls' PROVE StoresAs(calls[c])'
  BY DEF SInv
<1>1. CASE Plain(calls'[c])
  BY <1>1 DEF Plain, StoresAs, Typed
<1>2. CASE c \in DOMAIN calls /\ Kept(calls[c], calls'[c])
  <2>1. StoresAs(calls[c])
    BY <1>2 DEF SInv
  <2> QED
    BY <1>2, <2>1 DEF Kept, StoresAs, Typed
<1> QED
  BY <1>1, <1>2

LEMMA AskStores ==
  ASSUME CallsOK, SInv, UNCHANGED stored, NEW x \in Call, Ask(x), Plain(x)
  PROVE  SInv'
<1>1. /\ calls' = Append(calls, x) /\ Len(calls) \in Nat /\ calls \in Seq(Call)
  BY DEF Ask, CallsOK
<1>2. ASSUME NEW c \in DOMAIN calls' PROVE calls'[c] = x \/ (c \in DOMAIN calls /\ calls'[c] = calls[c])
  BY <1>1
<1>3. ASSUME NEW c \in DOMAIN calls'
      PROVE  Plain(calls'[c]) \/ (c \in DOMAIN calls /\ Kept(calls[c], calls'[c]))
  BY <1>2 DEF Kept
<1> QED
  BY <1>3, Carried

\* A request that is not about the settings is made.
LEMMA OtherAskStores ==
  ASSUME CallsOK, SInv, UNCHANGED stored, NEW x, x.kind # "settings", Ask(x)
  PROVE  SInv'
<1>1. /\ calls' = Append(calls, x) /\ Len(calls) \in Nat /\ calls \in Seq(Call)
  BY DEF Ask, CallsOK
<1>2. ASSUME NEW c \in DOMAIN calls' PROVE calls'[c] = x \/ (c \in DOMAIN calls /\ calls'[c] = calls[c])
  BY <1>1
<1>3. ASSUME NEW c \in DOMAIN calls'
      PROVE  Plain(calls'[c]) \/ (c \in DOMAIN calls /\ Kept(calls[c], calls'[c]))
  BY <1>2 DEF Kept, Plain
<1> QED
  BY <1>3, Carried

LEMMA EndStores ==
  ASSUME CallsOK, SInv, UNCHANGED stored, NEW c \in DOMAIN calls, NEW step \in Steps, Ends(c, step)
  PROVE  SInv'
<1> DEFINE x == calls[c]
           y == [Request(x.kind, x.by) EXCEPT
                   !.step = step, !.mount = x.mount, !.opening = x.opening, !.late = x.late]
<1>1. calls[c] \in Call
  BY DEF CallsOK
<1>2. Request(x.kind, x.by).form = Nothing /\ Request(x.kind, x.by).todo = {}
  BY DEF Request
<1>3. y.form = Nothing /\ y.todo = {} /\ y.step = step
  BY <1>2 DEF Request
<1>4. Typed(Nothing) = {}
  BY DEF Typed, Nothing
<1>5. Plain(y)
  BY <1>3, <1>4 DEF Plain, Steps
<1>6. DOMAIN calls' = DOMAIN calls /\ calls'[c] = y /\ \A d \in DOMAIN calls \ {c} : calls'[d] = calls[d]
  BY DEF Ends
<1>7. ASSUME NEW d \in DOMAIN calls' PROVE Plain(calls'[d]) \/ (d \in DOMAIN calls /\ Kept(calls[d], calls'[d]))
  BY <1>5, <1>6 DEF Kept
<1> QED
  BY <1>7, Carried

LEMMA CallsAlone == ASSUME SInv, UNCHANGED <<stored, calls>> PROVE SInv'
BY Carried DEF Kept

LEMMA UsingStores == ASSUME IInv, SInv, Using PROVE SInv'
<1>1. CallsOK /\ PageOK /\ UNCHANGED stored
  BY Parts DEF Using, ListsArrive, SaveSettings, openCreateUser, openCreateKey, CreateKey, Close,
     Cancel, Elsewhere, ConfirmDelete, ConfirmRevoke, Refuse, SetTab, set, EditRole, SaveUser, openEdit,
     setDeleteTarget, setRevokeTarget, Opens, Confirms, Targets, tables
<1>2. CASE UNCHANGED calls
  BY <1>1, <1>2, CallsAlone
<1>3. CASE SaveSettings
  <2> DEFINE m == Mine(Request("settings", ByMe))
             x == [m EXCEPT !.form = page.form, !.todo = Typed(page.form)]
  <2>1. page.form \in Forms /\ Typed(page.form) \subseteq Fields
    BY <1>1 DEF PageOK, Page, Typed
  <2>2. m \in Call /\ m.step = "sent"
    BY <1>1, MineType, RequestType DEF Kinds
  <2>3. x \in Call /\ x.form = page.form /\ x.todo = Typed(page.form) /\ x.step = "sent"
    BY <2>1, <2>2 DEF Call
  <2>4. Plain(x)
    BY <2>3 DEF Plain
  <2> QED
    BY <1>1, <1>3, <2>3, <2>4, AskStores DEF SaveSettings
<1>4. ASSUME NEW k \in Fields, NEW v \in Values,
             Ask([Request("settings", ByPeer) EXCEPT !.form[k] = v, !.todo = {k}])
      PROVE  SInv'
  <2> DEFINE m == Request("settings", ByPeer)
             x == [m EXCEPT !.form[k] = v, !.todo = {k}]
  <2>1. m \in Call /\ m.step = "sent" /\ m.form = Nothing
    BY RequestType DEF Kinds, Request
  <2>2. x \in Call /\ x.form = [Nothing EXCEPT ![k] = v] /\ x.todo = {k} /\ x.step = "sent"
    BY <2>1 DEF Call, Forms
  <2>3. Typed([Nothing EXCEPT ![k] = v]) \subseteq {k}
    BY DEF Typed, Nothing
  <2>4. Plain(x)
    BY <2>2, <2>3 DEF Plain
  <2> QED
    BY <1>1, <1>4, <2>2, <2>4, AskStores
<1>5. ASSUME NEW x, x.kind # "settings", Ask(x) PROVE SInv'
  BY <1>1, <1>5, OtherAskStores
<1>6. \A kind, by : Request(kind, by).kind = kind
  BY DEF Request
<1>7. ASSUME NEW kind, kind # "settings", NEW by, NEW id, Ask([Request(kind, by) EXCEPT !.id = id]) PROVE SInv'
  <2>1. [Request(kind, by) EXCEPT !.id = id].kind = kind
    BY DEF Request
  <2> QED
    BY <1>5, <1>7, <2>1
<1>8. CASE Elsewhere
  <2>1. ASSUME NEW id, NEW r, Ask([Request("update", ByPeer) EXCEPT !.id = id, !.role = r]) PROVE SInv'
    <3>1. [Request("update", ByPeer) EXCEPT !.id = id, !.role = r].kind = "update"
      BY DEF Request
    <3> QED
      BY <1>5, <2>1, <3>1
  <2>2. ASSUME NEW n, Ask([Request("create", ByPeer) EXCEPT !.name = n]) PROVE SInv'
    <3>1. [Request("create", ByPeer) EXCEPT !.name = n].kind = "create"
      BY DEF Request
    <3> QED
      BY <1>5, <2>2, <3>1
  <2>3. ASSUME Ask(Request("key", ByPeer)) PROVE SInv'
    BY <1>5, <1>6, <2>3
  <2> QED
    BY <1>4, <1>7, <1>8, <2>1, <2>2, <2>3 DEF Elsewhere
<1>9. CASE ConfirmDelete \/ ConfirmRevoke
  BY <1>7, <1>9 DEF ConfirmDelete, ConfirmRevoke, Confirms
<1>10. CASE CreateKey
  <2>1. [Mine(Request("key", ByMe)) EXCEPT !.role = page.role].kind = "key"
    BY DEF Request, Mine
  <2> QED
    BY <1>5, <1>10, <2>1 DEF CreateKey
<1>11. ASSUME NEW n \in Names, NEW p \in Passwords, SaveUser(n, p) PROVE SInv'
  <2>1. UserRequest(n, p).kind \in {"create", "update"}
    BY DEF UserRequest, Request, Mine
  <2> QED
    BY <1>5, <1>11, <2>1 DEF SaveUser
<1>12. CASE calls' = Overtaken
  <2>1. DOMAIN calls' = DOMAIN calls
    BY <1>12 DEF Overtaken
  <2>2. ASSUME NEW c \in DOMAIN calls PROVE Kept(calls[c], calls'[c])
    <3>1. calls[c] \in Call
      BY <1>1 DEF CallsOK
    <3>2. calls'[c] = calls[c] \/ calls'[c] = [calls[c] EXCEPT !.late = TRUE]
      BY <1>12 DEF Overtaken
    <3> QED
      BY <3>1, <3>2 DEF Kept, Call
  <2> QED
    BY <1>1, <2>1, <2>2, Carried
<1> QED
  BY <1>2, <1>3, <1>8, <1>9, <1>10, <1>11, <1>12
     DEF Using, ListsArrive, openCreateUser, openCreateKey, Close, Cancel, Refuse, SetTab, set, EditRole,
         openEdit, setDeleteTarget, setRevokeTarget, Opens, Targets

LEMMA LoadStores == ASSUME IInv, SInv, NEW c \in DOMAIN calls, Load(c) PROVE SInv'
<1>1. CallsOK /\ UNCHANGED stored
  BY Parts DEF Load, tables
<1> DEFINE x == calls[c]
           read == IF x.kind = "update" THEN users[x.id].role ELSE Absent
           doomed == IF x.kind = "delete" THEN Owned(x.id) ELSE {}
<1>2. CASE Ends(c, "denied") \/ Ends(c, "failed")
  BY <1>1, <1>2, EndStores DEF Steps
<1>3. CASE calls' = [calls EXCEPT ![c].step = "loaded", ![c].read = read, ![c].doomed = doomed]
  <2>1. x \in Call
    BY <1>1 DEF CallsOK
  <2>2. /\ DOMAIN calls' = DOMAIN calls /\ \A d \in DOMAIN calls \ {c} : calls'[d] = calls[d]
        /\ calls'[c] = [x EXCEPT !.step = "loaded", !.read = read, !.doomed = doomed]
    BY <1>3
  <2>3. Kept(x, calls'[c])
    BY <2>1, <2>2 DEF Kept, Call
  <2>4. ASSUME NEW d \in DOMAIN calls PROVE Kept(calls[d], calls'[d])
    BY <2>2, <2>3 DEF Kept
  <2> QED
    BY <1>1, <2>2, <2>4, Carried
<1> QED
  BY <1>2, <1>3 DEF Load

LEMMA SelectStores ==
  ASSUME IInv, SInv, NEW c \in DOMAIN calls, NEW k \in Fields, SelectSetting(c, k)
  PROVE  SInv'
<1>1. CallsOK /\ UNCHANGED stored
  BY Parts DEF SelectSetting, tables
<1> DEFINE x == calls[c]
<1>2. x \in Call /\ StoresAs(x)
  BY <1>1 DEF CallsOK, SInv
<1>3. /\ DOMAIN calls' = DOMAIN calls /\ \A d \in DOMAIN calls \ {c} : calls'[d] = calls[d]
      /\ calls'[c] = [x EXCEPT !.step = "selected", !.at = k, !.read = stored[k]]
  BY DEF SelectSetting
<1>4. /\ calls'[c].kind = x.kind /\ calls'[c].form = x.form /\ calls'[c].met = x.met
      /\ calls'[c].todo = x.todo /\ calls'[c].step = "selected" /\ calls'[c].at = k
      /\ calls'[c].read = stored[k]
  BY <1>2, <1>3 DEF Call
<1>5. StoresAs(calls[c])'
  BY <1>1, <1>2, <1>4 DEF StoresAs, Typed
<1>6. ASSUME NEW d \in DOMAIN calls \ {c} PROVE StoresAs(calls[d])'
  <2>1. StoresAs(calls[d])
    BY DEF SInv
  <2> QED
    BY <1>1, <1>3, <2>1 DEF StoresAs, Typed
<1> QED
  BY <1>3, <1>5, <1>6 DEF SInv

\* The commit of one setting: the save that made it has stored its value, and the others
\* that had read the setting, or had stored it before, are told.
LEMMA CommitStores ==
  ASSUME IInv, SInv, NEW c \in DOMAIN calls, CommitSetting(c)
  PROVE  SInv'
<1>1. CallsOK /\ TablesOK
  BY Parts
<1> DEFINE x == calls[c]
           k == x.at
           after == [x EXCEPT !.todo = Remaining(x), !.at = Untyped, !.read = Absent,
                              !.step = IF Remaining(x) = {} THEN "done" ELSE "loaded"]
<1>2. x \in Call /\ Good(x) /\ StoresAs(x) /\ x.step = "selected"
  <2>1. x \in Call /\ Good(x) /\ StoresAs(x)
    BY <1>1 DEF CallsOK, SInv
  <2> QED
    BY <2>1 DEF CommitSetting, At
<1>3. k \in x.todo /\ k \in Fields /\ x.kind = "settings" /\ x.todo \subseteq Typed(x.form)
  BY <1>2 DEF Good, Call
<1>4. CASE Ends(c, "failed") /\ UNCHANGED stored
  BY <1>1, <1>4, EndStores DEF Steps
<1>5. CASE ~(x.read = Absent /\ stored[k] # Absent)
  <2>1. /\ stored' = [stored EXCEPT ![k] = IF x.read = x.form[k] THEN @ ELSE x.form[k]]
        /\ DOMAIN calls' = DOMAIN calls /\ calls'[c] = after
    BY <1>5 DEF CommitSetting
  <2>2. /\ \A f \in Fields \ {k} : stored'[f] = stored[f]
        /\ stored'[k] = IF x.read = x.form[k] THEN stored[k] ELSE x.form[k]
    BY <1>1, <1>3, <2>1 DEF TablesOK
  <2>3. /\ after.kind = x.kind /\ after.form = x.form /\ after.met = x.met
        /\ after.todo = x.todo \ {k} /\ after.step # "selected"
        /\ after.step = "done" => after.todo = {}
    BY <1>2 DEF Call, Remaining
  <2>4. StoresAs(calls[c])'
    <3>1. ASSUME NEW f \in Typed(x.form) \ (x.met \cup (x.todo \ {k})) PROVE stored'[f] = x.form[f]
      <4>1. CASE f = k
        BY <1>2, <1>3, <2>2, <3>1, <4>1 DEF StoresAs
      <4>2. CASE f # k
        <5>1. stored[f] = x.form[f]
          BY <1>2, <1>3, <3>1, <4>2 DEF StoresAs
        <5> QED
          BY <2>2, <4>2, <5>1 DEF Typed
      <4> QED
        BY <4>1, <4>2
    <3> QED
      BY <2>1, <2>3, <3>1 DEF StoresAs, Typed
  <2>5. ASSUME NEW d \in DOMAIN calls \ {c} PROVE StoresAs(calls[d])'
    <3> DEFINE y == calls[d]
               reads == y.kind = "settings" /\ k \in Typed(y.form) /\ (k \notin y.todo \/ y.at = k)
    <3>1. y \in Call /\ Good(y) /\ StoresAs(y)
      BY <1>1 DEF CallsOK, SInv
    <3>2. calls'[d] = IF reads THEN [y EXCEPT !.met = @ \cup {k}] ELSE y
      BY <1>5 DEF CommitSetting
    <3>3. CASE reads
      <4>1. /\ calls'[d].kind = y.kind /\ calls'[d].form = y.form /\ calls'[d].met = y.met \cup {k}
            /\ calls'[d].todo = y.todo /\ calls'[d].step = y.step /\ calls'[d].at = y.at
            /\ calls'[d].read = y.read
        BY <3>1, <3>2, <3>3 DEF Call
      <4>2. y.step = "selected" => y.at \in Fields
        BY <3>1 DEF Good, Call
      <4> QED
        BY <2>2, <3>1, <4>1, <4>2 DEF StoresAs, Typed
    <3>4. CASE ~reads
      <4>1. y.step = "selected" => y.at \in Fields /\ y.at \in y.todo /\ y.todo \subseteq Typed(y.form)
        BY <3>1 DEF Good, Call
      <4>2. calls'[d] = y
        BY <3>2, <3>4
      <4>3. y.kind = "settings" => k \notin Typed(y.form) \ y.todo /\ (y.step = "selected" => y.at # k)
        BY <3>4, <4>1
      <4> QED
        BY <2>2, <3>1, <4>1, <4>2, <4>3 DEF StoresAs, Typed
    <3> QED
      BY <3>3, <3>4
  <2> QED
    BY <2>1, <2>4, <2>5 DEF SInv
<1> QED
  BY <1>4, <1>5 DEF CommitSetting

LEMMA HandlingStores == ASSUME IInv, SInv, NEW c \in DOMAIN calls, Handling(c) PROVE SInv'
<1>1. CallsOK
  BY Parts
<1>2. CASE CommitCreate(c) \/ CommitUpdate(c) \/ CommitDelete(c) \/ CommitKey(c) \/ Revoke(c) \/ Interrupted(c)
  <2>1. UNCHANGED stored /\ \E step \in {"done", "failed"} : Ends(c, step)
    BY <1>2 DEF CommitCreate, CommitUpdate, CommitDelete, CommitKey, Revoke, Interrupted, tables
  <2> QED
    BY <1>1, <2>1, EndStores DEF Steps
<1> QED
  BY <1>2, LoadStores, SelectStores, CommitStores DEF Handling

LEMMA StoredInductive == ASSUME IInv, SInv, [Next]_vars PROVE SInv'
<1>1. CASE UNCHANGED vars
  BY <1>1, CallsAlone DEF vars, tables
<1>2. ASSUME NEW c \in DOMAIN calls, Answered(c) PROVE SInv'
  <2>1. UNCHANGED stored /\ \E step \in Steps : Ends(c, step)
    BY <1>2 DEF Answered, tables, Steps
  <2> QED
    BY <2>1, Parts, EndStores
<1> QED
  BY <1>1, <1>2, UsingStores, HandlingStores DEF Next

(***************************************************************************)
(* A save of the general tab that is accepted has stored each of its       *)
(* values, but for the settings that another save wrote after this one had *)
(* read them (settings.py, update_settings; config.py, set_setting).       *)
(***************************************************************************)
THEOREM Stored == Spec => SavedIsStored
<1> DEFINE Saves == \A c \in DOMAIN calls :
              calls[c].kind = "settings" /\ At(c, "done") /\ calls'[c].step = "accepted" =>
                \A k \in Typed(calls[c].form) \ calls[c].met : stored[k] = calls[c].form[k]
<1>1. SInv => Saves
  BY DEF SInv, StoresAs, At
<1>2. Init => SInv
  BY DEF Init, SInv
<1>3. IInv /\ SInv /\ [Next]_vars => SInv'
  BY StoredInductive
<1> QED
  BY <1>1, <1>2, <1>3, Invariance, PTL DEF Spec, SavedIsStored
=============================================================================
