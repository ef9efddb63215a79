--------------------------- MODULE RunViewsProofs ---------------------------
(***************************************************************************)
(* What a browser shows of the runs, for any number of runs, any length of *)
(* their logs and of the queue, and any order of events and answers.       *)
(***************************************************************************)
EXTENDS RunViews, TLAPS

TInv == TypeOK /\ CacheShape

Fetch(k) == [kind : {"fetch"}, from : 0 .. MaxLog, got : {NoData} \cup Answers(k)]

LEMMA Kinds ==
  /\ List \in Keys /\ List \notin Runs /\ Runs \subseteq Keys /\ Keys \subseteq Nat
  /\ \A k : NewFetch(k, offset) # Idle
  /\ \A k : \A x \in Fetch(k) : x # Idle
  /\ \A k : \A x \in Answers(k) : x # NoData
BY DEF List, Runs, Keys, NewFetch, Idle, NoData, Answers, Fetch

LEMMA NewFetchType ==
  ASSUME NEW k \in Keys, NEW from \in 0 .. MaxLog
  PROVE  NewFetch(k, from) \in Fetch(k) /\ NewFetch(k, from).got = NoData
                 /\ NewFetch(k, from) # Idle
BY RunViewsAssumption DEF NewFetch, Fetch, NoData, Idle

\* The cache, entry by entry.
CacheTypes == \A k \in Keys : data[k] \in {NoData} \cup Answers(k) /\ fetch[k] \in {Idle} \cup Fetch(k)

LEMMA CacheTyped == TypeOK => CacheTypes
BY DEF TypeOK, CacheTypes, Fetch

LEMMA ServerType ==
  ASSUME TInv, NEW r \in Runs, NEW es \in Seq(Keys), Publish(r, es)
  PROVE  /\ queue' \in Seq(Keys) /\ Len(queue') <= MaxQueue /\ lost' \subseteq Keys
         /\ stream = "closed" => queue' = <<>>
<1>1. queue \in Seq(Keys) /\ Len(queue) \in Nat /\ Len(queue) <= MaxQueue /\ lost \subseteq Keys /\ Len(es) \in Nat
  BY DEF TInv, TypeOK
<1>6. stream = "closed" => queue = <<>>
  BY DEF TInv, CacheShape
<1>2. CASE stream = "open" /\ Len(queue) + Len(es) <= MaxQueue
  <2>1. queue' = queue \o es /\ lost' = lost
    BY <1>2 DEF Publish
  <2>2. queue \o es \in Seq(Keys) /\ Len(queue \o es) = Len(queue) + Len(es)
    BY <1>1
  <2> QED
    BY <1>1, <1>2, <2>1, <2>2
<1>3. Lost({List, r}) \subseteq Keys
  BY <1>1, Kinds DEF Lost
<1>4. ASSUME es # <<>> PROVE Queued(queue, es) \in Seq(Keys) /\ Len(Queued(queue, es)) <= MaxQueue
  <2> DEFINE room == MaxQueue - Len(queue)
             n == IF room < Len(es) THEN room ELSE Len(es)
  <2>1. room \in Nat /\ n \in 0 .. Len(es) /\ n <= room
    BY <1>1, RunViewsAssumption
  <2>2. SubSeq(es, 1, n) \in Seq(Keys) /\ Len(SubSeq(es, 1, n)) = n
    BY <2>1
  <2>3. Queued(queue, es) = queue \o SubSeq(es, 1, n)
    BY <1>4 DEF Queued
  <2>4. Len(queue \o SubSeq(es, 1, n)) = Len(queue) + n /\ queue \o SubSeq(es, 1, n) \in Seq(Keys)
    BY <1>1, <2>1, <2>2
  <2>5. Len(queue) + n <= MaxQueue
    BY <1>1, <2>1, RunViewsAssumption
  <2> HIDE DEF n, room
  <2> QED
    BY <2>3, <2>4, <2>5
<1>5. CASE ~(stream = "open" /\ Len(queue) + Len(es) <= MaxQueue)
  <2>1. /\ queue' \in {queue, Queued(queue, es)} /\ lost' = Lost({List, r})
        /\ stream = "closed" => queue' = <<>>
    BY <1>5, <1>6 DEF Publish
  <2>2. es = <<>> => Queued(queue, es) = queue
    BY DEF Queued
  <2> QED
    BY <1>1, <1>3, <1>4, <2>1, <2>2
<1> QED
  BY <1>2, <1>5
-----------------------------------------------------------------------------
(* Types, variable group by variable group. *)

ServerT == /\ rows \in [Runs -> Status] /\ log \in [Runs -> 0 .. MaxLog] /\ alive \in [Runs -> BOOLEAN]
           /\ moves \in 0 .. MaxMoves
WireT == /\ stream \in {"open", "closed"} /\ queue \in Seq(Keys) /\ Len(queue) <= MaxQueue
         /\ lost \subseteq Keys /\ (stream = "closed" => queue = <<>>)
CacheT == /\ invalid \subseteq Keys /\ CacheTypes
          /\ data = [k \in Keys |-> data[k]] /\ fetch = [k \in Keys |-> fetch[k]]
Shape == /\ selected.id # NoRun => runs # NoData
         /\ runs # NoData => page /\ data[List] # NoData
         /\ runDetail # NoData => selected.id # NoRun /\ data[selected.id] # NoData
PageT == /\ page \in BOOLEAN /\ selected \in [id : {NoRun} \cup Runs, live : BOOLEAN]
         /\ offset \in 0 .. MaxLog /\ twice \in BOOLEAN /\ asks \in BOOLEAN /\ clean \in BOOLEAN
         /\ runs \in {NoData} \cup Answers(List)
         /\ runDetail \in {NoData} \cup UNION {Answers(r) : r \in Runs}
         /\ Shape

LEMMA TypeGroups ==
  /\ TInv <=> ServerT /\ WireT /\ CacheT /\ PageT
  /\ TInv' <=> ServerT' /\ WireT' /\ CacheT' /\ PageT'
<1>1. TInv <=> ServerT /\ WireT /\ CacheT /\ PageT
  BY DEF TInv, TypeOK, CacheShape, ServerT, WireT, CacheT, PageT, Shape, CacheTypes, Fetch
<1>2. TInv' <=> ServerT' /\ WireT' /\ CacheT' /\ PageT'
  BY DEF TInv, TypeOK, CacheShape, ServerT, WireT, CacheT, PageT, Shape, CacheTypes, Fetch
<1> QED
  BY <1>1, <1>2

\* Which variables a group stands on.
LEMMA ServerStays == ASSUME ServerT, UNCHANGED <<rows, log, alive, moves>> PROVE ServerT'
BY DEF ServerT
LEMMA WireStays == ASSUME WireT, UNCHANGED <<stream, queue, lost>> PROVE WireT'
BY DEF WireT
LEMMA CacheStays == ASSUME CacheT, UNCHANGED <<data, invalid, fetch>> PROVE CacheT'
BY DEF CacheT, CacheTypes
LEMMA PageStays ==
  ASSUME PageT, UNCHANGED <<page, selected, offset, runs, runDetail>>,
         twice' \in BOOLEAN, asks' \in BOOLEAN, clean' \in BOOLEAN,
         \A k \in Keys : ActiveKey(k) /\ data'[k] = NoData => data[k] = NoData
  PROVE  PageT'
<1>1. Shape'
  <2>1. Shape /\ (selected.id # NoRun => selected.id \in Keys) /\ List \in Keys
    BY Kinds DEF PageT
  <2> QED
    BY <2>1 DEF Shape, ActiveKey
<1> QED
  BY <1>1 DEF PageT

LEMMA AsksType == ASSUME NEW S, Asks(S), twice \in BOOLEAN PROVE twice' \in BOOLEAN
BY DEF Asks

LEMMA Moved == ASSUME ServerT, Move PROVE moves' \in 0 .. MaxMoves
BY RunViewsAssumption DEF Move, ServerT

LEMMA Marked ==
  ASSUME ServerT, NEW S, Marks(S)
  PROVE  /\ rows' \in [Runs -> Status]
         /\ \A r \in Runs : rows'[r] = "none" <=> rows[r] = "none"
<1>1. \A row \in Status : MarkedRead(row) \in Status /\ (MarkedRead(row) = "none" <=> row = "none")
  BY DEF MarkedRead, Status, Active, Over
<1> QED
  BY <1>1 DEF Marks, ServerT

LEMMA MarkedLive ==
  ASSUME NEW S, Marks(S), NEW r \in Runs
  PROVE  rows'[r] \in Active <=> rows[r] \in Active
<1>1. MarkedRead(rows[r]) \in Active <=> rows[r] \in Active
  BY DEF MarkedRead, Active
<1>2. rows'[r] = IF r \in S THEN MarkedRead(rows[r]) ELSE rows[r]
  BY DEF Marks
<1> QED
  BY <1>1, <1>2

LEMMA Resulted ==
  ASSUME NEW row \in Status, NEW st \in Results
  PROVE  Result(row, st) \in Status /\ Result(row, st) # "none"
BY RunViewsAssumption DEF Result, Status, Over

LEMMA LostType == ASSUME NEW S \in SUBSET Keys, lost \subseteq Keys PROVE Lost(S) \subseteq Keys
BY DEF Lost

LEMMA Invalidated ==
  ASSUME CacheT, PageT, WireT, NEW S \in SUBSET Keys, Invalidate(S), data' = data
  PROVE  /\ CacheT' /\ lost' \subseteq Keys
         /\ \A k \in Keys : fetch'[k] = IF k \in S /\ Restarts(k) THEN NewFetch(k, offset) ELSE fetch[k]
         /\ \A k \in Keys : k \in invalid' <=> k \in invalid \/ (k \in S /\ Exists(k))
<1>1. \A k \in Keys : fetch'[k] = IF k \in S /\ Restarts(k) THEN NewFetch(k, offset) ELSE fetch[k]
  BY DEF Invalidate
<1>2. lost' \subseteq Keys /\ invalid' \subseteq Keys
  BY LostType DEF Invalidate, CacheT, WireT
<1>3. \A k \in Keys : fetch'[k] \in {Idle} \cup Fetch(k)
  BY <1>1, NewFetchType DEF CacheT, CacheTypes, PageT
<1>4. fetch' = [k \in Keys |-> fetch'[k]]
  BY DEF Invalidate
<1> QED
  BY <1>1, <1>2, <1>3, <1>4 DEF Invalidate, CacheT, CacheTypes, Answers

\* A fetch is started unless there is one.
LEMMA Started ==
  ASSUME CacheT, NEW k \in Keys, NEW from \in 0 .. MaxLog,
         fetch' = fetch \/ fetch' = Start(fetch, k, from), UNCHANGED <<data, invalid>>
  PROVE  /\ CacheT'
         /\ \A j \in Keys : fetch'[j] = fetch[j] \/ (j = k /\ fetch[k] = Idle /\ fetch'[k] = NewFetch(k, from))
<1>1. \A j \in Keys : fetch'[j] = fetch[j] \/ (j = k /\ fetch[k] = Idle /\ fetch'[k] = NewFetch(k, from))
  BY DEF Start, CacheT
<1>2. fetch' = [j \in Keys |-> fetch'[j]]
  BY DEF Start, CacheT
<1> QED
  BY <1>1, <1>2, NewFetchType DEF CacheT, CacheTypes, Answers

\* The entry of one key is replaced.
LEMMA Replaced ==
  ASSUME CacheT, NEW k \in Keys, NEW x \in {Idle} \cup Fetch(k), fetch' = [fetch EXCEPT ![k] = x],
         NEW d \in {NoData} \cup Answers(k), data' = [data EXCEPT ![k] = d], invalid' \subseteq Keys
  PROVE  /\ CacheT' /\ fetch'[k] = x /\ data'[k] = d
         /\ \A j \in Keys \ {k} : fetch'[j] = fetch[j] /\ data'[j] = data[j]
BY DEF CacheT, CacheTypes, Answers
LEMMA RowType ==
  ASSUME NEW r \in {NoRun} \cup Runs, NEW table
  PROVE  Row(r, table) \in [id : {NoRun} \cup Runs, live : BOOLEAN] /\ Row(r, table).id = r
BY DEF Row

LEMMA NothingType == Nothing \in [id : {NoRun} \cup Runs, live : BOOLEAN] /\ Nothing.id = NoRun
BY DEF Nothing

LEMMA TypeInit == Init => TInv
<1> SUFFICES ASSUME Init PROVE TInv
  OBVIOUS
<1>1. ServerT
  BY RunViewsAssumption DEF Init, ServerT, Status
<1>2. WireT
  BY RunViewsAssumption DEF Init, WireT
<1>3. CacheT
  BY DEF Init, CacheT, CacheTypes
<1>4. PageT
  <2>1. 0 \in 0 .. MaxLog
    BY RunViewsAssumption
  <2>2. selected = Nothing /\ offset = 0 /\ page = FALSE /\ asks = FALSE /\ clean = TRUE
    BY DEF Init
  <2>3. runs = NoData /\ runDetail = NoData /\ twice = FALSE
    BY DEF Init
  <2> QED
    BY <2>1, <2>2, <2>3, NothingType DEF PageT, Shape
<1> QED
  BY <1>1, <1>2, <1>3, <1>4, TypeGroups

\* What the runs do.
LEMMA NewRunTypes == ASSUME TInv, NEW r \in Runs, NewRun(r) PROVE TInv'
<1>1. ServerT /\ WireT /\ CacheT /\ PageT
  BY TypeGroups
<1>2. ServerT'
  <2>1. moves' \in 0 .. MaxMoves
    BY <1>1, Moved DEF NewRun, ServerT
  <2> QED
    BY <1>1, <2>1, RunViewsAssumption DEF ServerT, NewRun, Status, Active
<1>3. WireT'
  <2>1. <<RunsEvent, r>> \in Seq(Keys)
    BY Kinds DEF RunsEvent
  <2> QED
    BY <1>1, <2>1, ServerType DEF NewRun, WireT
<1>4. CacheT' /\ PageT'
  BY <1>1, CacheStays, PageStays DEF NewRun, cache, drawer, PageT
<1> QED
  BY <1>2, <1>3, <1>4, TypeGroups

LEMMA FlushTypes ==
  ASSUME TInv, NEW r \in Runs, NEW st \in {rows[r]} \cup Results, FlushLog(r, st)
  PROVE  TInv'
<1>1. ServerT /\ WireT /\ CacheT /\ PageT
  BY TypeGroups
<1>2. ServerT'
  <2>1. log[r] + 1 \in 0 .. MaxLog
    BY <1>1, RunViewsAssumption DEF ServerT, FlushLog
  <2>2. (IF st = rows[r] THEN rows[r] ELSE Result(rows[r], st)) \in Status
    BY <1>1, Resulted DEF ServerT
  <2> QED
    BY <1>1, <2>1, <2>2 DEF ServerT, FlushLog
<1>3. WireT'
  <2>1. <<r>> \in Seq(Keys)
    BY Kinds
  <2> QED
    BY <1>1, <2>1, ServerType DEF FlushLog, WireT
<1>4. CacheT' /\ PageT'
  BY <1>1, CacheStays, PageStays DEF FlushLog, cache, drawer, PageT
<1> QED
  BY <1>2, <1>3, <1>4, TypeGroups

LEMMA TaskEndsTypes ==
  ASSUME TInv, NEW r \in Runs, NEW st \in Results, NEW lines \in {0, 1}, TaskEnds(r, st, lines)
  PROVE  TInv'
<1>1. ServerT /\ WireT /\ CacheT /\ PageT
  BY TypeGroups
<1>2. CacheT' /\ PageT'
  BY <1>1, CacheStays, PageStays DEF TaskEnds, cache, drawer, PageT
<1>3. alive' \in [Runs -> BOOLEAN] /\ moves' = moves /\ stream' = stream
  BY <1>1 DEF TaskEnds, ServerT
<1>4. CASE rows[r] = "none"
  BY <1>1, <1>2, <1>3, <1>4, TypeGroups DEF TaskEnds, ServerT, WireT
<1>5. CASE rows[r] # "none"
  <2>1. /\ log[r] + lines <= MaxLog /\ log' = [log EXCEPT ![r] = @ + lines]
        /\ rows' = [rows EXCEPT ![r] = IF @ \in Active THEN Result(@, st) ELSE @]
        /\ Publish(r, <<RunsEvent, r>>)
    BY <1>5 DEF TaskEnds
  <2>2. log[r] + lines \in 0 .. MaxLog
    BY <1>1, <2>1, RunViewsAssumption DEF ServerT
  <2>3. (IF rows[r] \in Active THEN Result(rows[r], st) ELSE rows[r]) \in Status
    BY <1>1, Resulted DEF ServerT
  <2>4. ServerT'
    BY <1>1, <1>3, <2>1, <2>2, <2>3 DEF ServerT
  <2>5. <<RunsEvent, r>> \in Seq(Keys)
    BY Kinds DEF RunsEvent
  <2>6. WireT'
    BY <1>1, <1>3, <2>1, <2>5, ServerType DEF WireT
  <2> QED
    BY <1>2, <2>4, <2>6, TypeGroups
<1> QED
  BY <1>4, <1>5

\* The stream, and other browsers.
LEMMA StreamTypes ==
  ASSUME TInv, Connect \/ Disconnect \/ Receive \/ \E r \in Runs : OthersMark(r)
  PROVE  TInv'
<1>1. ServerT /\ WireT /\ CacheT /\ PageT
  BY TypeGroups
<1>2. CASE Connect
  <2>1. ServerT' /\ CacheT' /\ PageT'
    BY <1>1, <1>2, ServerStays, CacheStays, PageStays DEF Connect, server, cache, drawer, PageT
  <2>2. WireT'
    BY <1>1, <1>2, RunViewsAssumption DEF Connect, WireT
  <2> QED
    BY <2>1, <2>2, TypeGroups
<1>3. CASE Disconnect
  <2>1. CacheT' /\ PageT'
    BY <1>1, <1>3, CacheStays, PageStays DEF Disconnect, cache, drawer, PageT
  <2>2. ServerT'
    BY <1>1, <1>3, Moved DEF Disconnect, server, ServerT
  <2>3. WireT'
    BY <1>1, <1>3, RunViewsAssumption, LostType DEF Disconnect, WireT
  <2> QED
    BY <2>1, <2>2, <2>3, TypeGroups
<1>4. CASE Receive
  <2> DEFINE S == {k \in Keys : Affects(Head(queue), k)}
  <2>1. Invalidate(S) /\ data' = data /\ queue' = Tail(queue) /\ queue # <<>> /\ S \in SUBSET Keys
    BY <1>4 DEF Receive
  <2> HIDE DEF S
  <2>2. CacheT' /\ lost' \subseteq Keys
    BY <1>1, <2>1, Invalidated
  <2>7. twice' \in BOOLEAN
    BY <1>1, <2>1, AsksType DEF Invalidate, PageT
  <2>3. ServerT' /\ PageT'
    BY <1>1, <1>4, <2>1, <2>7, ServerStays, PageStays DEF Receive, server, drawer, PageT
  <2>4. Tail(queue) \in Seq(Keys) /\ Len(Tail(queue)) = Len(queue) - 1 /\ Len(queue) \in Nat
    BY <1>1, <2>1 DEF WireT
  <2>5. Len(Tail(queue)) <= MaxQueue
    BY <1>1, <2>4, RunViewsAssumption DEF WireT
  <2>6. WireT'
    BY <1>1, <1>4, <2>1, <2>2, <2>4, <2>5 DEF WireT, Receive
  <2> QED
    BY <2>2, <2>3, <2>6, TypeGroups
<1>5. ASSUME NEW r \in Runs, OthersMark(r) PROVE TInv'
  <2>1. CacheT' /\ PageT'
    BY <1>1, <1>5, CacheStays, PageStays DEF OthersMark, cache, drawer, PageT
  <2>2. ServerT'
    BY <1>1, <1>5, Moved, Marked DEF OthersMark, ServerT
  <2>3. WireT'
    BY <1>1, <1>5, Kinds, LostType DEF OthersMark, WireT, wire
  <2> QED
    BY <2>1, <2>2, <2>3, TypeGroups
<1> QED
  BY <1>2, <1>3, <1>4, <1>5
-----------------------------------------------------------------------------
(* Types: the fetches and the page. *)

\* A fetch that ends without an answer.
LEMMA GivenUp ==
  ASSUME CacheT, WireT, NEW k \in Keys, fetch' = [fetch EXCEPT ![k] = Idle], UNCHANGED <<data, invalid>>,
         lost' \in {lost, lost \ {k}, lost \cup {k}}
  PROVE  CacheT' /\ lost' \subseteq Keys
<1>1. CacheT'
  BY DEF CacheT, CacheTypes, Answers
<1> QED
  BY <1>1 DEF WireT

LEMMA FetchTypes ==
  ASSUME TInv, NEW k \in Keys,
         Serve(k) \/ NotFound(k) \/ Arrive(k) \/ Fails(k) \/ Poll(k) \/ Focus(k) \/ Forget(k)
  PROVE  TInv'
<1>1. ServerT /\ WireT /\ CacheT /\ PageT
  BY TypeGroups
<1>2. CASE Serve(k)
  <2> DEFINE got == IF k = List THEN ListOf(rows) ELSE RunOf(k, fetch[k].from)
  <2>6. fetch[k] \in Fetch(k) /\ fetch[k].from \in 0 .. MaxLog
    BY <1>1, <1>2 DEF Serve, CacheT, CacheTypes, Fetch
  <2>1. fetch[k] \in Fetch(k) /\ got \in Answers(k)
    BY <1>1, <2>6, Kinds DEF ServerT, ListOf, RunOf, Answers, Keys, List
  <2>2. [fetch[k] EXCEPT !.got = got] \in Fetch(k) /\ fetch' = [fetch EXCEPT ![k] = [fetch[k] EXCEPT !.got = got]]
    BY <1>1, <1>2, <2>1 DEF Serve, Fetch, CacheT
  <2>3. data' = [data EXCEPT ![k] = data[k]] /\ data[k] \in {NoData} \cup Answers(k) /\ invalid' \subseteq Keys
    BY <1>1, <1>2 DEF Serve, CacheT, CacheTypes
  <2>4. CacheT'
    BY <1>1, <2>2, <2>3, Replaced
  <2>5. ServerT' /\ PageT' /\ WireT'
    BY <1>1, <1>2, ServerStays, PageStays DEF Serve, server, wire, drawer, WireT, PageT
  <2> QED
    BY <2>4, <2>5, TypeGroups
<1>3. CASE NotFound(k) \/ Fails(k)
  <2>1. fetch' = [fetch EXCEPT ![k] = Idle] /\ lost' \in {lost, lost \ {k}, lost \cup {k}} /\ UNCHANGED <<data, invalid, stream, queue>>
    BY <1>3 DEF NotFound, Fails, wire
  <2>2. CacheT' /\ WireT'
    BY <1>1, <2>1, GivenUp DEF WireT
  <2>3. ServerT' /\ PageT'
    BY <1>1, <1>3, <2>1, PageStays, Moved DEF NotFound, Fails, server, drawer, PageT, ServerT
  <2> QED
    BY <2>2, <2>3, TypeGroups
<1>4. CASE Arrive(k)
  <2>1. fetch[k] \in Fetch(k) /\ fetch[k].got \in Answers(k)
    BY <1>1, <1>4 DEF Arrive, CacheT, CacheTypes, Fetch
  <2>2. data' = [data EXCEPT ![k] = fetch[k].got] /\ fetch' = [fetch EXCEPT ![k] = Idle] /\ invalid' \subseteq Keys
    BY <1>1, <1>4 DEF Arrive, CacheT
  <2>3. CacheT' /\ data'[k] = fetch[k].got /\ \A j \in Keys \ {k} : data'[j] = data[j]
    BY <1>1, <2>1, <2>2, Replaced
  <2>4. ServerT' /\ WireT'
    BY <1>1, <1>4, ServerStays, WireStays DEF Arrive, server, wire
  <2>5. \A j \in Keys : data'[j] = NoData => data[j] = NoData
    BY <2>1, <2>3, Kinds
  <2>6. PageT'
    BY <1>1, <1>4, <2>5, PageStays DEF Arrive, drawer, PageT
  <2> QED
    BY <2>3, <2>4, <2>6, TypeGroups
<1>5. CASE Poll(k) \/ Focus(k)
  <2>1. CacheT'
    BY <1>1, <1>5, Started DEF Poll, Focus, PageT
  <2>3. twice' \in BOOLEAN
    BY <1>1, <1>5, AsksType DEF Poll, Focus, PageT
  <2>2. WireT' /\ PageT' /\ ServerT'
    BY <1>1, <1>5, <2>3, WireStays, PageStays, Moved DEF Poll, Focus, wire, drawer, server, PageT, ServerT
  <2> QED
    BY <2>1, <2>2, TypeGroups
<1>6. CASE Forget(k)
  <2>1. data' = [data EXCEPT ![k] = NoData] /\ fetch' = fetch /\ invalid' = invalid \ {k}
    BY <1>6 DEF Forget
  <2>2. CacheT' /\ \A j \in Keys \ {k} : data'[j] = data[j]
    BY <1>1, <2>1 DEF CacheT, CacheTypes, Answers
  <2>3. ServerT' /\ WireT'
    BY <1>1, <1>6, ServerStays DEF Forget, server, wire, WireT
  <2>4. \A j \in Keys : ActiveKey(j) => data'[j] = data[j]
    BY <1>6, <2>2 DEF Forget
  <2>5. PageT'
    BY <1>1, <1>6, <2>4, PageStays DEF Forget, drawer, PageT
  <2> QED
    BY <2>2, <2>3, <2>5, TypeGroups
<1> QED
  BY <1>2, <1>3, <1>4, <1>5, <1>6
\* The user's steps, and what the page renders.
LEMMA ShowsTypes ==
  ASSUME CacheT, NEW row \in [id : {NoRun} \cup Runs, live : BOOLEAN], Shows(row), data' = data,
         row.id # NoRun => data[List] # NoData, page'
  PROVE  /\ selected' \in [id : {NoRun} \cup Runs, live : BOOLEAN] /\ selected'.id = row.id
         /\ runs' \in {NoData} \cup Answers(List)
         /\ runDetail' \in {NoData} \cup UNION {Answers(r) : r \in Runs}
         /\ Shape'
<1>1. selected' \in [id : {NoRun} \cup Runs, live : BOOLEAN] /\ selected'.id = row.id
  BY RowType DEF Shows, Followed
<1>2. runs' = data[List] /\ runDetail' = IF row.id = NoRun THEN NoData ELSE data[row.id]
  BY DEF Shows
<1>3. data[List] \in {NoData} \cup Answers(List) /\ \A r \in Runs : data[r] \in {NoData} \cup Answers(r)
  BY Kinds DEF CacheT, CacheTypes
<1>4. runDetail' \in {NoData} \cup UNION {Answers(r) : r \in Runs}
  <2>1. CASE row.id = NoRun
    BY <1>2, <2>1
  <2>2. CASE row.id \in Runs
    <3>1. row.id # NoRun
      BY <2>2, Kinds DEF NoRun, List
    <3> QED
      BY <1>2, <1>3, <2>2, <3>1
  <2> QED
    BY <2>1, <2>2
<1> QED
  BY <1>1, <1>2, <1>3, <1>4 DEF Shape

LEMMA RenderTypes == ASSUME TInv, Render PROVE TInv'
<1>1. ServerT /\ WireT /\ CacheT /\ PageT
  BY TypeGroups
<1>2. ServerT' /\ WireT' /\ CacheT'
  BY <1>1, ServerStays, WireStays, CacheStays DEF Render, server, wire, cache
<1>3. page /\ Shows(selected) /\ Appended /\ UNCHANGED <<page, data, twice, asks, clean>>
  BY DEF Render, RenderDue, ActiveKey, cache
<1>4. selected \in [id : {NoRun} \cup Runs, live : BOOLEAN] /\ (selected.id # NoRun => data[List] # NoData)
  BY <1>1 DEF PageT, Shape
<1>5. offset' \in 0 .. MaxLog
  <2>1. CASE offset' = offset
    BY <1>1, <2>1 DEF PageT
  <2>2. CASE selected.id # NoRun /\ data[selected.id] # NoData /\ offset' = data[selected.id].length
    <3>1. selected.id \in Runs /\ selected.id \in Keys /\ selected.id # List
      BY <1>4, <2>2, Kinds
    <3>2. data[selected.id] \in Answers(selected.id)
      BY <1>1, <2>2, <3>1 DEF CacheT, CacheTypes
    <3> QED
      BY <2>2, <3>1, <3>2 DEF Answers
  <2> QED
    BY <1>3, <2>1, <2>2 DEF Appended
<1>6. PageT'
  <2>1. UNCHANGED <<page, data, twice, asks, clean>>
    BY <1>3
  <2> QED
    BY <1>1, <1>3, <1>4, <1>5, <2>1, ShowsTypes DEF PageT
<1> QED
  BY <1>2, <1>6, TypeGroups

LEMMA PageTypes ==
  ASSUME TInv, NEW old \in BOOLEAN, LeavePage \/ EnterPage(old)
  PROVE  TInv'
<1>1. ServerT /\ WireT /\ CacheT /\ PageT
  BY TypeGroups
<1>2. CASE LeavePage
  <2>1. CacheT' /\ WireT'
    BY <1>1, <1>2, CacheStays, WireStays DEF LeavePage, cache, wire
  <2>2. ServerT'
    BY <1>1, <1>2, Moved DEF LeavePage, server, ServerT
  <2>3. PageT'
    <3>1. /\ selected' = Nothing /\ offset' = 0 /\ page' = FALSE /\ UNCHANGED <<asks, clean>>
          /\ runs' = NoData /\ runDetail' = NoData /\ twice' = FALSE
      BY <1>2 DEF LeavePage
    <3>2. 0 \in 0 .. MaxLog
      BY RunViewsAssumption
    <3> QED
      BY <1>1, <3>1, <3>2, NothingType DEF PageT, Shape
  <2> QED
    BY <2>1, <2>2, <2>3, TypeGroups
<1>3. CASE EnterPage(old)
  <2>1. (fetch' = fetch \/ fetch' = Start(fetch, List, 0)) /\ UNCHANGED <<data, invalid>>
    BY <1>3 DEF EnterPage, Shown
  <2>2. CacheT'
    BY <1>1, <2>1, Started, Kinds, RunViewsAssumption
  <2>3. ServerT' /\ WireT'
    BY <1>1, <1>3, ServerStays, WireStays DEF EnterPage, server, wire
  <2>4. page' = TRUE /\ Shows(Nothing) /\ UNCHANGED <<data, offset, twice, asks, clean>>
    BY <1>3 DEF EnterPage
  <2>5. PageT'
    <3>1. UNCHANGED <<offset, twice, asks, clean>> /\ page' = TRUE /\ data' = data
      BY <2>4
    <3> QED
      BY <1>1, <2>4, <3>1, ShowsTypes, NothingType DEF PageT
  <2> QED
    BY <2>2, <2>3, <2>5, TypeGroups
<1> QED
  BY <1>2, <1>3

LEMMA OpenTypes ==
  ASSUME TInv, NEW r \in Runs, NEW old \in BOOLEAN, openDrawer(r, old)
  PROVE  TInv'
<1>1. ServerT /\ WireT /\ CacheT /\ PageT
  BY TypeGroups
<1>2. (fetch' = fetch \/ fetch' = Start(fetch, r, 0)) /\ UNCHANGED <<data, invalid>>
  BY DEF openDrawer, Shown
<1>3. CacheT'
  BY <1>1, <1>2, Started, Kinds, RunViewsAssumption
<1>4. WireT'
  BY <1>1, WireStays DEF openDrawer, wire
<1>5. ServerT'
  BY <1>1, Marked DEF openDrawer, ServerT
<1>6. Row(r, runs.rows) \in [id : {NoRun} \cup Runs, live : BOOLEAN] /\ Row(r, runs.rows).id = r
  BY RowType
<1>7. data[r] # NoData => data[r].length \in 0 .. MaxLog
  BY <1>1, Kinds DEF CacheT, CacheTypes, Answers
<1>8. offset' \in 0 .. MaxLog /\ twice' \in BOOLEAN /\ asks' \in BOOLEAN /\ clean' \in BOOLEAN
  <2>1. 0 \in 0 .. MaxLog
    BY RunViewsAssumption
  <2>2. asks' = TRUE \/ asks' = asks
    BY DEF openDrawer
  <2>3. CASE selected.id = r
    BY <1>1, <2>2, <2>3 DEF openDrawer, PageT
  <2>4. CASE selected.id # r
    <3>1. /\ twice' = FALSE /\ clean' = (clean /\ data[r] = NoData)
          /\ offset' = IF data[r] = NoData THEN 0 ELSE data[r].length
      BY <2>4 DEF openDrawer
    <3>2. clean' \in BOOLEAN /\ offset' \in 0 .. MaxLog
      BY <1>7, <2>1, <3>1
    <3> QED
      BY <1>1, <2>2, <3>1, <3>2 DEF PageT
  <2> QED
    BY <2>3, <2>4
<1>10. page' = page /\ data' = data /\ page /\ runs # NoData /\ data[List] # NoData
  BY <1>1 DEF openDrawer, PageT, Shape
<1>11. CASE selected.id = r
  <2>1. selected' = Row(r, runs.rows) /\ UNCHANGED <<runs, runDetail>>
    BY <1>11 DEF openDrawer
  <2>2. selected'.id = selected.id
    BY <1>6, <1>11, <2>1
  <2>3. Shape'
    BY <1>1, <1>10, <2>1, <2>2 DEF PageT, Shape
  <2>4. PageT'
    BY <1>1, <1>6, <1>8, <1>10, <2>1, <2>3 DEF PageT
  <2> QED
    BY <1>3, <1>4, <1>5, <2>4, TypeGroups
<1>12. CASE selected.id # r
  <2>1. Shows(Row(r, runs.rows))
    BY <1>12 DEF openDrawer
  <2>2. PageT'
    BY <1>1, <1>6, <1>8, <1>10, <2>1, ShowsTypes DEF PageT
  <2> QED
    BY <1>3, <1>4, <1>5, <2>2, TypeGroups
<1> QED
  BY <1>11, <1>12

LEMMA AskTypes ==
  ASSUME TInv,
         \/ ClearAll \/ Answered \/ CancelAnswered
         \/ \E S \in SUBSET Runs : Acknowledge(S)
  PROVE  TInv'
<1>1. ServerT /\ WireT /\ CacheT /\ PageT
  BY TypeGroups
<1>2. CASE ClearAll
  <2>1. CacheT' /\ PageT'
    BY <1>1, <1>2, CacheStays, PageStays DEF ClearAll, cache, PageT
  <2>2. rows' = Cleared(rows) /\ UNCHANGED <<log, alive>> /\ Move
    BY <1>2 DEF ClearAll
  <2>3. ServerT'
    BY <1>1, <2>2, Moved DEF ServerT, Cleared, Status
  <2>4. WireT'
    BY <1>1, <1>2, Kinds, LostType DEF ClearAll, wire, WireT
  <2> QED
    BY <2>1, <2>3, <2>4, TypeGroups
<1>3. CASE Answered
  <2>1. CacheT' /\ lost' \subseteq Keys
    BY <1>1, <1>3, Invalidated, Kinds DEF Answered
  <2>3. twice' \in BOOLEAN
    BY <1>1, <1>3, AsksType DEF Answered, Invalidate, PageT
  <2>2. ServerT' /\ WireT' /\ PageT'
    BY <1>1, <1>3, <2>1, <2>3, ServerStays, PageStays DEF Answered, server, wire, drawer, WireT, PageT
  <2> QED
    BY <2>1, <2>2, TypeGroups
<1>4. CASE CancelAnswered
  <2>1. {List, selected.id} \in SUBSET Keys
    BY <1>1, <1>4, Kinds DEF CancelAnswered, PageT
  <2>2. CacheT' /\ lost' \subseteq Keys
    BY <1>1, <1>4, <2>1, Invalidated DEF CancelAnswered
  <2>5. twice' \in BOOLEAN
    BY <1>1, <1>4, AsksType DEF CancelAnswered, Invalidate, PageT
  <2>3. WireT' /\ PageT'
    BY <1>1, <1>4, <2>2, <2>5, PageStays DEF CancelAnswered, wire, drawer, WireT, PageT
  <2>4. ServerT'
    BY <1>1, <1>4, Moved DEF CancelAnswered, server, ServerT
  <2> QED
    BY <2>2, <2>3, <2>4, TypeGroups
<1>5. ASSUME NEW S \in SUBSET Runs, Acknowledge(S) PROVE TInv'
  <2>1. CacheT' /\ WireT'
    BY <1>1, <1>5, CacheStays, WireStays DEF Acknowledge, cache, wire
  <2>2. ServerT' /\ PageT'
    BY <1>1, <1>5, Marked, PageStays DEF Acknowledge, drawer, cache, ServerT, PageT
  <2> QED
    BY <2>1, <2>2, TypeGroups
<1> QED
  BY <1>2, <1>3, <1>4, <1>5

LEMMA TypeStep == TInv /\ [Next]_vars => TInv'
<1> SUFFICES ASSUME TInv, [Next]_vars PROVE TInv'
  OBVIOUS
<1>1. CASE UNCHANGED vars
  <2>1. ServerT /\ WireT /\ CacheT /\ PageT
    BY TypeGroups
  <2>2. UNCHANGED <<rows, log, alive, moves, stream, queue, lost, data, invalid, fetch, page, runs, runDetail, selected, offset, twice, asks, clean>>
    BY <1>1 DEF vars, server, wire, cache, drawer
  <2> QED
    BY <2>1, <2>2, ServerStays, WireStays, CacheStays, PageStays, TypeGroups DEF PageT
<1>2. CASE Serving
  BY <1>2, NewRunTypes, FlushTypes, TaskEndsTypes, StreamTypes DEF Serving
<1>3. CASE Fetching
  BY <1>3, FetchTypes, StreamTypes DEF Fetching
<1>4. CASE Using
  <2>1. ASSUME NEW S \in SUBSET Runs, Acknowledge(S) PROVE TInv'
    BY <2>1, AskTypes
  <2>2. Runs \in SUBSET Runs /\ \A r \in Runs : {r} \in SUBSET Runs
    OBVIOUS
  <2> QED
    BY <1>4, <2>1, <2>2, RenderTypes, PageTypes, OpenTypes, AskTypes DEF Using, markAllRead
<1> QED
  BY <1>1, <1>2, <1>3, <1>4 DEF Next

LEMMA TypesHold == Spec => []TInv
BY TypeInit, TypeStep, PTL DEF Spec
-----------------------------------------------------------------------------
(* The drawer and the list. *)

LEMMA RowStep == TInv /\ RowFollowed /\ [Next]_vars => RowFollowed'
<1> SUFFICES ASSUME TInv, RowFollowed, [Next]_vars PROVE RowFollowed'
  OBVIOUS
<1>1. ASSUME UNCHANGED <<runs, selected>> PROVE RowFollowed'
  BY <1>1 DEF RowFollowed, Row
<1>2. ASSUME NEW row, Shows(row), row.id # NoRun => Row(row.id, data[List].rows).id = row.id PROVE RowFollowed'
  <2>1. selected' = Followed(row, data[List]) /\ runs' = data[List]
    BY <1>2 DEF Shows
  <2>2. selected'.id = row.id
    BY <1>2, <2>1 DEF Followed
  <2> QED
    BY <2>1, <2>2 DEF Followed, RowFollowed, Row
<1>3. CASE UNCHANGED vars \/ Serving
  BY <1>1, <1>3 DEF vars, drawer, Serving, NewRun, OthersMark, FlushLog, TaskEnds, Disconnect
<1>4. CASE Fetching
  BY <1>1, <1>4 DEF Fetching, Connect, Receive, Serve, NotFound, Arrive, Fails, Poll, Focus, Forget, drawer
<1>5. CASE Render
  BY <1>2, <1>5 DEF Render, Row
<1>6. CASE LeavePage
  BY <1>6, NothingType DEF LeavePage, RowFollowed
<1>7. ASSUME NEW old, EnterPage(old) PROVE RowFollowed'
  BY <1>2, <1>7, NothingType DEF EnterPage
<1>8. ASSUME NEW r \in Runs, NEW old \in BOOLEAN, openDrawer(r, old) PROVE RowFollowed'
  <2>1. CASE selected.id = r
    BY <1>8, <2>1 DEF openDrawer, RowFollowed, Row
  <2>2. CASE selected.id # r
    BY <1>2, <1>8, <2>2 DEF openDrawer, Row
  <2> QED
    BY <2>1, <2>2
<1>9. CASE Using
  <2>1. ASSUME NEW S, Acknowledge(S) PROVE RowFollowed'
    BY <1>1, <2>1 DEF Acknowledge, drawer
  <2>2. CASE ClearAll \/ Answered \/ CancelAnswered
    BY <1>1, <2>2 DEF ClearAll, Answered, CancelAnswered, drawer
  <2> QED
    BY <1>5, <1>6, <1>7, <1>8, <1>9, <2>1, <2>2 DEF Using, markAllRead
<1> QED
  BY <1>3, <1>4, <1>9 DEF Next

-----------------------------------------------------------------------------
(* Whatever is stale has a reason. *)

LEMMA Concatenated ==
  ASSUME NEW s \in Seq(Keys), NEW t \in Seq(Keys)
  PROVE  /\ \A i \in DOMAIN s : i \in DOMAIN (s \o t) /\ (s \o t)[i] = s[i]
         /\ \A i \in DOMAIN t : Len(s) + i \in DOMAIN (s \o t) /\ (s \o t)[Len(s) + i] = t[i]
  OBVIOUS

\* What is on the queue stays there; what is published is heard of, or it is lost.
LEMMA Published ==
  ASSUME TInv, NEW r \in Runs, NEW es \in Seq(Keys), Publish(r, es), asks' = asks
  PROVE  /\ \A k \in Keys : Excused(k) => Excused(k)'
         /\ \A k \in {List, r} : (\E i \in DOMAIN es : Affects(es[i], k)) /\ Exists(k) => Excused(k)'
<1>1. queue \in Seq(Keys) /\ Len(queue) \in Nat /\ Len(queue) <= MaxQueue /\ Len(es) \in Nat
  BY TypeGroups DEF WireT
<1>2. CASE stream = "open" /\ Len(queue) + Len(es) <= MaxQueue
  <2>1. queue' = queue \o es /\ lost' = lost
    BY <1>2 DEF Publish
  <2> QED
    BY <1>1, <2>1, Concatenated DEF Excused, Announced
<1>3. CASE ~(stream = "open" /\ Len(queue) + Len(es) <= MaxQueue)
  <2>1. queue' \in {queue, Queued(queue, es)} /\ lost' = Lost({List, r})
    BY <1>3 DEF Publish
  <2>2. lost \subseteq lost' /\ \A k \in {List, r} : Exists(k) => k \in lost'
    BY <2>1 DEF Lost
  <2> DEFINE room == MaxQueue - Len(queue)
             n == IF room < Len(es) THEN room ELSE Len(es)
  <2>3. n \in 0 .. Len(es)
    BY <1>1, RunViewsAssumption
  <2>4. queue' = queue \/ queue' = queue \o SubSeq(es, 1, n)
    BY <2>1 DEF Queued
  <2>5. SubSeq(es, 1, n) \in Seq(Keys)
    BY <2>3
  <2> HIDE DEF n, room
  <2>6. \A i \in DOMAIN queue : i \in DOMAIN queue' /\ queue'[i] = queue[i]
    BY <1>1, <2>4, <2>5, Concatenated
  <2> QED
    BY <2>2, <2>6 DEF Excused, Announced
<1> QED
  BY <1>2, <1>3

LiveStays(r) == rows'[r] \in Active <=> rows[r] \in Active
Unmoved(k) == IF k = List THEN rows' = rows ELSE log'[k] = log[k] /\ LiveStays(k)

\* A key whose entry a step does not touch.
LEMMA Unaffected ==
  ASSUME NEW k \in Keys, AnswerExcused(k), fetch'[k] = fetch[k], data'[k] = data[k],
         Excused(k) => Excused(k)', Unmoved(k) \/ Excused(k)' \/ ~Exists(k),
         k \in invalid /\ ~ActiveKey(k) => k \in invalid' /\ ~ActiveKey(k)'
  PROVE  AnswerExcused(k)'
<1>1. CASE ~Exists(k)
  BY <1>1 DEF Exists, AnswerExcused
<1>2. CASE Excused(k)'
  BY <1>2 DEF AnswerExcused
<1>3. CASE Unmoved(k)
  BY <1>3 DEF AnswerExcused, Unmoved, LiveStays, Says
<1> QED
  BY <1>1, <1>2, <1>3

AllExcused == \A k \in Keys : AnswerExcused(k)

LEMMA RunsExcused ==
  ASSUME TInv, AllExcused, NEW r \in Runs, NEW es \in {<<RunsEvent, r>>, <<r>>}, Publish(r, es),
         asks' = asks, UNCHANGED <<cache, page, drawer>>,
         \A q \in Runs \ {r} : log'[q] = log[q] /\ rows'[q] = rows[q]
  PROVE  AllExcused'
<1>1. es \in Seq(Keys)
  <2>1. r \in Keys /\ RunsEvent \in Keys
    BY Kinds DEF RunsEvent
  <2>2. <<RunsEvent, r>> \in Seq(Keys) /\ <<r>> \in Seq(Keys)
    BY <2>1
  <2> QED
    BY <2>2
<1>2. \A k \in {List, r} : \E i \in DOMAIN es : Affects(es[i], k)
  <2>1. CASE es = <<r>>
    <3>1. 1 \in DOMAIN es /\ es[1] = r
      BY <2>1
    <3> QED
      BY <3>1 DEF Affects
  <2>2. CASE es = <<RunsEvent, r>>
    <3>1. 2 \in DOMAIN es /\ es[2] = r
      BY <2>2
    <3> QED
      BY <3>1 DEF Affects
  <2> QED
    BY <2>1, <2>2
<1>3. \A k \in Keys : Excused(k) => Excused(k)'
  BY <1>1, Published
<1>4. \A k \in {List, r} : Exists(k) => Excused(k)'
  BY <1>1, <1>2, Published
<1>5. ASSUME NEW k \in Keys PROVE AnswerExcused(k)'
  <2>1. Unmoved(k) \/ Excused(k)' \/ ~Exists(k)
    BY <1>4, <1>5 DEF Unmoved, LiveStays, Keys
  <2>2. fetch'[k] = fetch[k] /\ data'[k] = data[k] /\ (k \in invalid /\ ~ActiveKey(k) => k \in invalid' /\ ~ActiveKey(k)')
    BY DEF cache, drawer, ActiveKey
  <2> QED
    BY <1>3, <1>5, <2>1, <2>2, Unaffected DEF AllExcused
<1> QED
  BY <1>5 DEF AllExcused

LEMMA ServerExcused ==
  ASSUME TInv, AllExcused, NEW r \in Runs,
         \/ NewRun(r) \/ \E st \in {rows[r]} \cup Results : FlushLog(r, st)
         \/ \E st \in Results, lines \in {0, 1} : TaskEnds(r, st, lines)
  PROVE  AllExcused'
<1>1. log \in [Runs -> 0 .. MaxLog] /\ rows \in [Runs -> Status]
  BY TypeGroups DEF ServerT
<1>2. CASE NewRun(r)
  BY <1>1, <1>2, RunsExcused DEF NewRun
<1>3. ASSUME NEW st, FlushLog(r, st) PROVE AllExcused'
  BY <1>1, <1>3, RunsExcused DEF FlushLog
<1>4. ASSUME NEW st, NEW lines, TaskEnds(r, st, lines) PROVE AllExcused'
  <2>1. CASE rows[r] # "none"
    BY <1>1, <1>4, <2>1, RunsExcused DEF TaskEnds
  <2>2. CASE rows[r] = "none"
    <3>1. UNCHANGED <<rows, log, queue, lost, asks, data, invalid, fetch, page, selected>>
      BY <1>4, <2>2 DEF TaskEnds, cache, drawer
    <3>2. ASSUME NEW k \in Keys PROVE AnswerExcused(k)'
      BY <3>1, <3>2, Unaffected DEF AllExcused, Excused, Announced, Unmoved, LiveStays, ActiveKey
    <3> QED
      BY <3>2 DEF AllExcused
  <2> QED
    BY <2>1, <2>2
<1> QED
  BY <1>2, <1>3, <1>4

LEMMA InvalidatedExcused ==
  ASSUME TInv, AllExcused, NEW S \in SUBSET Keys, Invalidate(S),
         UNCHANGED <<rows, log, data, page, selected>>,
         \A k \in Keys \ S : Excused(k) => Excused(k)'
  PROVE  AllExcused'
<1>1. CacheT /\ PageT /\ WireT
  BY TypeGroups
<1>2. /\ \A k \in Keys : fetch'[k] = IF k \in S /\ Restarts(k) THEN NewFetch(k, offset) ELSE fetch[k]
      /\ \A k \in Keys : k \in invalid' <=> k \in invalid \/ (k \in S /\ Exists(k))
  BY <1>1, Invalidated
<1>3. \A k \in Keys : data'[k] = data[k] /\ (ActiveKey(k)' <=> ActiveKey(k))
  BY DEF ActiveKey
<1>4. ASSUME NEW k \in Keys \ S PROVE AnswerExcused(k)'
  BY <1>2, <1>3, <1>4, Unaffected DEF AllExcused, Unmoved, LiveStays
<1>5. ASSUME NEW k \in S, Restarts(k) PROVE AnswerExcused(k)'
  <2>1. fetch'[k] # Idle /\ fetch'[k].got = NoData
    BY <1>1, <1>2, <1>5, NewFetchType DEF PageT
  <2> QED
    BY <2>1 DEF AnswerExcused
<1>6. ASSUME NEW k \in S, ~Restarts(k) PROVE AnswerExcused(k)'
  <2>1. fetch'[k] = fetch[k] /\ data'[k] = data[k] /\ k \in Keys
    BY <1>2, <1>6
  <2>2. ~ActiveKey(k) \/ (fetch[k] # Idle /\ data[k] = NoData)
    BY <1>6 DEF Restarts
  <2>3. fetch[k] # Idle /\ fetch[k].got # NoData => k \in lost'
    BY <2>2 DEF Invalidate, Lost, Exists
  <2>4. data[k] # NoData => k \in invalid' /\ ~ActiveKey(k)'
    BY <1>2, <1>3, <1>6, <2>2 DEF Exists
  <2> QED
    BY <2>1, <2>3, <2>4 DEF AnswerExcused, Excused
<1> QED
  BY <1>4, <1>5, <1>6 DEF AllExcused

\* A step of the server or the stream of which the client is told at once or never.
LEMMA StreamExcused ==
  ASSUME TInv, AllExcused,
         \/ Connect \/ Disconnect \/ Receive \/ Answered \/ CancelAnswered
         \/ \E r \in Runs : OthersMark(r)
  PROVE  AllExcused'
<1>1. queue \in Seq(Keys) /\ CacheT /\ PageT /\ WireT
  BY TypeGroups DEF WireT
<1>2. CASE Receive
  <2> DEFINE S == {k \in Keys : Affects(Head(queue), k)}
  <2>1. Invalidate(S) /\ S \in SUBSET Keys /\ queue' = Tail(queue) /\ queue # <<>> /\ UNCHANGED <<rows, log, data, page, selected, asks>>
    BY <1>2 DEF Receive, server, drawer
  <2>2. lost \subseteq lost'
    BY <2>1 DEF Invalidate, Lost
  <2>3. ASSUME NEW k \in Keys \ S, Announced(k) PROVE Announced(k)'
    <3>1. CASE k = List /\ asks
      BY <2>1, <3>1 DEF Announced
    <3>2. ASSUME NEW i \in DOMAIN queue, Affects(queue[i], k) PROVE Announced(k)'
      <4>1. i # 1
        BY <1>1, <2>1, <2>3, <3>2
      <4>2. i - 1 \in DOMAIN Tail(queue) /\ Tail(queue)[i - 1] = queue[i]
        BY <1>1, <2>1, <3>2, <4>1
      <4> QED
        BY <2>1, <3>2, <4>2 DEF Announced, Affects
    <3> QED
      BY <2>3, <3>1, <3>2 DEF Announced
  <2>4. \A k \in Keys \ S : Excused(k) => Excused(k)'
    BY <2>2, <2>3 DEF Excused
  <2> HIDE DEF S
  <2> QED
    BY <2>1, <2>4, InvalidatedExcused
<1>3. CASE Answered
  <2>1. Invalidate({List}) /\ UNCHANGED <<rows, log, data, page, selected, queue>>
    BY <1>3 DEF Answered, server, drawer, wire
  <2>2. \A k \in Keys \ {List} : Excused(k) => Excused(k)'
    BY <2>1 DEF Excused, Announced, Invalidate, Lost
  <2> QED
    BY <2>1, <2>2, Kinds, InvalidatedExcused
<1>4. CASE CancelAnswered
  <2>1. Invalidate({List, selected.id}) /\ UNCHANGED <<rows, log, data, page, selected, queue, asks>>
    BY <1>4 DEF CancelAnswered, server, drawer, wire
  <2>2. \A k \in Keys : Excused(k) => Excused(k)'
    BY <2>1 DEF Excused, Announced, Invalidate, Lost
  <2>3. {List, selected.id} \in SUBSET Keys
    BY <1>1, <1>4, Kinds DEF CancelAnswered, PageT
  <2> QED
    BY <2>1, <2>2, <2>3, InvalidatedExcused
<1>5. ASSUME UNCHANGED <<log, data, fetch, invalid, page, selected, asks>>,
             \A k \in Keys : Excused(k) => Excused(k)',
             rows' = rows \/ (Exists(List) => List \in lost'), \A r \in Runs : LiveStays(r)
      PROVE  AllExcused'
  <2>1. ASSUME NEW k \in Keys PROVE AnswerExcused(k)'
    <3>1. Unmoved(k) \/ Excused(k)' \/ ~Exists(k)
      BY <1>5, <2>1 DEF Unmoved, Excused, Keys
    <3>2. fetch'[k] = fetch[k] /\ data'[k] = data[k] /\ (k \in invalid /\ ~ActiveKey(k) => k \in invalid' /\ ~ActiveKey(k)')
      BY <1>5 DEF ActiveKey
    <3> QED
      BY <1>5, <2>1, <3>1, <3>2, Unaffected DEF AllExcused
  <2> QED
    BY <2>1 DEF AllExcused
<1>6. CASE Disconnect
  <2>1. UNCHANGED <<rows, log, data, fetch, invalid, page, selected, asks>>
    BY <1>6 DEF Disconnect, server, cache, drawer
  <2>2. lost' = Lost({k \in Keys : \E i \in DOMAIN queue : Affects(queue[i], k)})
    BY <1>6 DEF Disconnect
  <2>3. \A k \in Keys : Excused(k) /\ Exists(k) => Excused(k)'
    BY <2>1, <2>2 DEF Excused, Announced, Lost
  <2>4. ASSUME NEW k \in Keys PROVE AnswerExcused(k)'
    BY <2>1, <2>3, <2>4 DEF AllExcused, AnswerExcused, Exists, ActiveKey, Says
  <2> QED
    BY <2>4 DEF AllExcused
<1>7. ASSUME NEW r \in Runs, OthersMark(r) PROVE AllExcused'
  <2>1. UNCHANGED <<log, data, fetch, invalid, page, selected, asks, queue>> /\ lost' = Lost({List, r})
    BY <1>7 DEF OthersMark, cache, drawer, wire
  <2>2. \A k \in Keys : Excused(k) => Excused(k)'
    BY <2>1 DEF Excused, Announced, Lost
  <2>3. Exists(List) => List \in lost'
    BY <2>1 DEF Lost
  <2>4. ServerT /\ Marks({r})
    BY <1>7, TypeGroups DEF OthersMark
  <2>5. \A q \in Runs : LiveStays(q)
    BY <2>4, MarkedLive DEF LiveStays
  <2> QED
    BY <1>5, <2>1, <2>2, <2>3, <2>5
<1>8. CASE Connect
  <2>1. queue = <<>> /\ UNCHANGED <<rows, log, data, fetch, invalid, page, selected, asks, lost>> /\ queue' = queue
    BY <1>1, <1>8 DEF Connect, WireT, server, cache, drawer
  <2>2. \A k \in Keys : Excused(k) => Excused(k)'
    BY <2>1 DEF Excused, Announced
  <2> QED
    BY <1>5, <2>1, <2>2 DEF LiveStays
<1> QED
  BY <1>2, <1>3, <1>4, <1>6, <1>7, <1>8

\* What a step does to one entry of the cache, and what it leaves of the others.
LEMMA OneEntry ==
  ASSUME AllExcused, NEW k \in Keys, AnswerExcused(k)',
         UNCHANGED <<rows, log, page, queue, asks>>, selected'.id = selected.id,
         \A j \in Keys \ {k} : /\ fetch'[j] = fetch[j] /\ data'[j] = data[j]
                               /\ j \in lost => j \in lost'
                               /\ j \in invalid => j \in invalid'
  PROVE  AllExcused'
<1>1. ASSUME NEW j \in Keys \ {k} PROVE AnswerExcused(j)'
  <2>1. Excused(j) => Excused(j)'
    BY <1>1 DEF Excused, Announced
  <2> QED
    BY <1>1, <2>1, Unaffected DEF AllExcused, Unmoved, LiveStays, ActiveKey
<1> QED
  BY <1>1 DEF AllExcused

LEMMA FetchExcused ==
  ASSUME TInv, AllExcused, NEW k \in Keys,
         Serve(k) \/ NotFound(k) \/ Arrive(k) \/ Fails(k) \/ Poll(k) \/ Focus(k) \/ Forget(k)
  PROVE  AllExcused'
<1>1. CacheT /\ PageT /\ ServerT
  BY TypeGroups
<1>2. AnswerExcused(k)
  BY DEF AllExcused
<1>3. CASE Serve(k)
  <2> DEFINE got == IF k = List THEN ListOf(rows) ELSE RunOf(k, fetch[k].from)
  <2>1. fetch' = [fetch EXCEPT ![k].got = got] /\ UNCHANGED <<rows, log, page, queue, asks, selected, data, invalid>> /\ lost' = lost \ {k}
    BY <1>3 DEF Serve, server, wire, drawer
  <2>2. fetch[k] \in Fetch(k) /\ fetch' = [fetch EXCEPT ![k] = [fetch[k] EXCEPT !.got = got]]
    BY <1>1, <1>3, <2>1 DEF Serve, CacheT, CacheTypes
  <2>3. fetch'[k] = [fetch[k] EXCEPT !.got = got] /\ \A j \in Keys \ {k} : fetch'[j] = fetch[j]
    BY <1>1, <2>2 DEF CacheT
  <2>8. fetch[k].from \in 0 .. MaxLog
    BY <2>2 DEF Fetch
  <2>4. got \in Answers(k)
    BY <1>1, <2>8, Kinds DEF ServerT, ListOf, RunOf, Answers, Keys, List
  <2>5. fetch'[k].got = got /\ fetch'[k] \in Fetch(k)
    BY <2>2, <2>3, <2>4 DEF Fetch
  <2>6. Says(k, fetch[k].got)'
    BY <2>1, <2>5 DEF Says, ListOf, RunOf
  <2>7. AnswerExcused(k)'
    BY <2>5, <2>6, Kinds DEF AnswerExcused
  <2> QED
    BY <2>1, <2>3, <2>7, OneEntry
<1>4. CASE NotFound(k) \/ Fails(k)
  <2>1. /\ fetch' = [fetch EXCEPT ![k] = Idle] /\ UNCHANGED <<rows, log, page, queue, asks, selected, data, invalid>>
        /\ lost' = IF data[k] = NoData THEN lost \ {k} ELSE lost \cup {k}
    BY <1>4 DEF NotFound, Fails, server, wire, drawer
  <2>2. fetch'[k] = Idle /\ \A j \in Keys \ {k} : fetch'[j] = fetch[j]
    BY <1>1, <2>1 DEF CacheT
  <2>3. AnswerExcused(k)'
    BY <2>1, <2>2 DEF AnswerExcused, Excused
  <2> QED
    BY <2>1, <2>2, <2>3, OneEntry
<1>5. CASE Arrive(k)
  <2>1. fetch' = [fetch EXCEPT ![k] = Idle] /\ data' = [data EXCEPT ![k] = fetch[k].got] /\ invalid' = invalid \ {k}
    BY <1>5 DEF Arrive
  <2>2. UNCHANGED <<rows, log, page, queue, asks, lost>> /\ selected'.id = selected.id
    BY <1>5 DEF Arrive, server, wire, drawer
  <2>3. fetch'[k] = Idle /\ data'[k] = fetch[k].got /\ \A j \in Keys \ {k} : fetch'[j] = fetch[j] /\ data'[j] = data[j]
    BY <1>1, <2>1 DEF CacheT
  <2>4. Says(k, fetch[k].got) \/ Excused(k)
    BY <1>2, <1>5 DEF AnswerExcused, Arrive
  <2>5. AnswerExcused(k)'
    BY <2>2, <2>3, <2>4 DEF AnswerExcused, Excused, Announced, Says
  <2> QED
    BY <2>1, <2>2, <2>3, <2>5, OneEntry
<1>6. CASE Poll(k) \/ Focus(k)
  <2>1. fetch' = Start(fetch, k, offset) /\ UNCHANGED <<rows, log, page, queue, asks, selected, data, invalid, lost>> /\ fetch[k] = Idle
    BY <1>6 DEF Poll, Focus, server, wire, drawer
  <2>2. fetch'[k] = NewFetch(k, offset) /\ \A j \in Keys \ {k} : fetch'[j] = fetch[j]
    BY <1>1, <2>1 DEF CacheT, Start
  <2>3. AnswerExcused(k)'
    BY <1>1, <2>2, NewFetchType DEF AnswerExcused, PageT
  <2> QED
    BY <2>1, <2>2, <2>3, OneEntry
<1>7. CASE Forget(k)
  <2>1. data' = [data EXCEPT ![k] = NoData] /\ UNCHANGED <<rows, log, page, queue, asks, selected, fetch>> /\ fetch[k] = Idle
        /\ invalid' = invalid \ {k} /\ lost' = lost \ {k}
    BY <1>7 DEF Forget, server, wire, drawer
  <2>2. data'[k] = NoData /\ \A j \in Keys \ {k} : data'[j] = data[j]
    BY <1>1, <2>1 DEF CacheT
  <2>3. AnswerExcused(k)'
    BY <2>1, <2>2 DEF AnswerExcused
  <2> QED
    BY <2>1, <2>2, <2>3, OneEntry
<1> QED
  BY <1>3, <1>4, <1>5, <1>6, <1>7

\* A query that is shown, with what is marked of it fetched.
LEMMA ShownExcused ==
  ASSUME CacheT, NEW k \in Keys, AnswerExcused(k), NEW old, fetch' = Shown(k, 0, old), data' = data,
         Excused(k) => Excused(k)', Unmoved(k) \/ Excused(k)'
  PROVE  AnswerExcused(k)'
<1>1. 0 \in 0 .. MaxLog
  BY RunViewsAssumption
<1>2. CASE fetch'[k] = fetch[k] /\ (fetch[k] # Idle \/ k \notin invalid)
  BY <1>2 DEF AnswerExcused, Unmoved, LiveStays, Says
<1>3. CASE fetch'[k] = NewFetch(k, 0)
  BY <1>1, <1>3, NewFetchType DEF AnswerExcused
<1>4. (fetch'[k] = fetch[k] /\ (fetch[k] # Idle \/ k \notin invalid)) \/ fetch'[k] = NewFetch(k, 0)
  BY DEF Shown, Start, CacheT
<1> QED
  BY <1>2, <1>3, <1>4

LEMMA PageExcused ==
  ASSUME TInv, AllExcused, NEW old \in BOOLEAN, Render \/ LeavePage \/ EnterPage(old)
  PROVE  AllExcused'
<1>1. CacheT /\ PageT
  BY TypeGroups
<1>2. CASE LeavePage
  <2>1. UNCHANGED <<rows, log, queue, asks, lost, data, invalid, fetch>> /\ page' = FALSE
    BY <1>2 DEF LeavePage, server, wire, cache
  <2>2. ASSUME NEW k \in Keys PROVE AnswerExcused(k)'
    <3>1. ~ActiveKey(k)'
      BY <2>1 DEF ActiveKey
    <3> QED
      BY <2>1, <2>2, <3>1, Unaffected DEF AllExcused, Unmoved, LiveStays, Excused, Announced
  <2> QED
    BY <2>2 DEF AllExcused
<1>4. CASE Render
  <2>1. UNCHANGED <<rows, log, queue, asks, lost, data, invalid, fetch, page>> /\ Shows(selected)
    BY <1>4 DEF Render, server, wire, cache
  <2>2. selected'.id = selected.id
    BY <2>1 DEF Shows, Followed, Row
  <2>3. ASSUME NEW k \in Keys PROVE AnswerExcused(k)'
    BY <2>1, <2>2, <2>3, Unaffected DEF AllExcused, Unmoved, LiveStays, Excused, Announced, ActiveKey
  <2> QED
    BY <2>3 DEF AllExcused
<1>3. CASE EnterPage(old)
  <2>1. UNCHANGED <<rows, log, queue, asks, lost, data, invalid>> /\ fetch' = Shown(List, 0, old) /\ Shows(Nothing)
    BY <1>3 DEF EnterPage, server, wire
  <2>2. selected'.id = NoRun
    BY <2>1, NothingType DEF Shows, Followed
  <2>3. \A k \in Keys : (Excused(k) => Excused(k)') /\ Unmoved(k)
    BY <2>1 DEF Excused, Announced, Unmoved, LiveStays
  <2>4. AnswerExcused(List)'
    BY <1>1, <2>1, <2>3, Kinds, ShownExcused DEF AllExcused
  <2>5. ASSUME NEW k \in Keys \ {List} PROVE AnswerExcused(k)'
    <3>1. fetch'[k] = fetch[k]
      BY <1>1, <2>1, <2>5 DEF Shown, Start, CacheT
    <3>2. ~ActiveKey(k)'
      BY <2>1, <2>2, <2>5 DEF ActiveKey, Keys, NoRun, Runs, List
    <3> QED
      BY <2>1, <2>3, <2>5, <3>1, <3>2, Unaffected DEF AllExcused
  <2> QED
    BY <2>4, <2>5 DEF AllExcused
<1> QED
  BY <1>2, <1>3, <1>4

LEMMA AskExcused ==
  ASSUME TInv, AllExcused,
         ClearAll \/ (\E S \in SUBSET Runs : Acknowledge(S)) \/ \E r \in Runs, old \in BOOLEAN : openDrawer(r, old)
  PROVE  AllExcused'
<1>1. CacheT /\ PageT /\ ServerT
  BY TypeGroups
<1>2. ASSUME NEW S, Acknowledge(S) PROVE AllExcused'
  <2>1. UNCHANGED <<log, queue, lost, data, invalid, fetch, page, selected>> /\ asks' = TRUE
    BY <1>2 DEF Acknowledge, wire, cache, drawer
  <2>3. \A r \in Runs : LiveStays(r)
    BY <1>2, MarkedLive DEF Acknowledge, LiveStays
  <2>2. ASSUME NEW k \in Keys PROVE AnswerExcused(k)'
    BY <2>1, <2>2, <2>3, Unaffected DEF AllExcused, Excused, Announced, Unmoved, ActiveKey, Keys
  <2> QED
    BY <2>2 DEF AllExcused
<1>3. CASE ClearAll
  <2>1. UNCHANGED <<log, queue, data, invalid, fetch, page, selected>> /\ asks' = TRUE /\ lost \subseteq lost'
    BY <1>3 DEF ClearAll, wire, cache, Lost
  <2>3. \A r \in Runs : LiveStays(r)
    BY <1>3 DEF ClearAll, Cleared, LiveStays, Active, Over
  <2>2. ASSUME NEW k \in Keys PROVE AnswerExcused(k)'
    BY <2>1, <2>2, <2>3, Unaffected DEF AllExcused, Excused, Announced, Unmoved, ActiveKey, Keys
  <2> QED
    BY <2>2 DEF AllExcused
<1>4. ASSUME NEW r \in Runs, NEW old \in BOOLEAN, openDrawer(r, old) PROVE AllExcused'
  <2>1. UNCHANGED <<log, queue, lost, data, invalid, page>> /\ (asks' = TRUE \/ UNCHANGED <<rows, asks>>) /\ selected'.id = r
    BY <1>4 DEF openDrawer, wire, Row, Shows, Followed
  <2>6. \A q \in Runs : LiveStays(q)
    <3>1. Marks({r}) \/ rows' = rows
      BY <1>4 DEF openDrawer
    <3> QED
      BY <3>1, MarkedLive DEF LiveStays
  <2>2. \A k \in Keys : (Excused(k) => Excused(k)') /\ (Unmoved(k) \/ Excused(k)')
    BY <2>1, <2>6 DEF Excused, Announced, Unmoved, Keys
  <2>3. fetch' = IF selected.id = r THEN fetch ELSE Shown(r, 0, old)
    BY <1>4 DEF openDrawer
  <2>4. ASSUME NEW k \in Keys, k # r \/ selected.id = r PROVE AnswerExcused(k)'
    <3>1. fetch'[k] = fetch[k]
      BY <1>1, <2>3, <2>4 DEF Shown, Start, CacheT
    <3>2. ~ActiveKey(k) => ~ActiveKey(k)'
      BY <2>1, <2>4 DEF ActiveKey
    <3> QED
      BY <2>1, <2>2, <2>4, <3>1, <3>2, Unaffected DEF AllExcused
  <2>5. CASE selected.id # r
    <3>1. r \in Keys
      BY Kinds
    <3> QED
      BY <1>1, <2>1, <2>2, <2>3, <2>4, <2>5, <3>1, ShownExcused DEF AllExcused
  <2> QED
    BY <2>4, <2>5 DEF AllExcused
<1> QED
  BY <1>2, <1>3, <1>4

LEMMA ExcusedStep == TInv /\ AllExcused /\ [Next]_vars => AllExcused'
<1> SUFFICES ASSUME TInv, AllExcused, [Next]_vars PROVE AllExcused'
  OBVIOUS
<1>1. CASE UNCHANGED vars
  BY <1>1 DEF vars, server, wire, cache, drawer, AllExcused, AnswerExcused, Excused, Announced, Says, ActiveKey
<1>2. CASE Serving
  BY <1>2, ServerExcused, StreamExcused DEF Serving
<1>3. CASE Fetching
  BY <1>3, FetchExcused, StreamExcused DEF Fetching
<1>4. CASE Using
  <2>1. ASSUME NEW S \in SUBSET Runs, Acknowledge(S) PROVE AllExcused'
    BY <2>1, AskExcused
  <2>2. Runs \in SUBSET Runs /\ \A r \in Runs : {r} \in SUBSET Runs
    OBVIOUS
  <2> QED
    BY <1>4, <2>1, <2>2, PageExcused, AskExcused, StreamExcused DEF Using, markAllRead
<1> QED
  BY <1>1, <1>2, <1>3, <1>4 DEF Next

\* What an active query shows is not excused by a mark alone.
LEMMA ExcuseIsReason == AllExcused => StaleHasReason
BY DEF AllExcused, AnswerExcused, StaleHasReason, Excused, Reason, RenderDue

\* Where neither the list nor the details are out of date, they agree.
LEMMA ReasonsAgree == TInv /\ RowFollowed /\ StaleHasReason => DrawerAgrees
<1> SUFFICES ASSUME TInv, RowFollowed, StaleHasReason,
                    selected.id # NoRun, runDetail # NoData, runs.rows[selected.id] # "none",
                    ~Reason(List), ~Reason(selected.id)
             PROVE  runDetail.status \in Active <=> isLive
  BY DEF DrawerAgrees
<1>1. /\ selected.id \in Keys /\ selected.id # List /\ List \in Keys
      /\ runs # NoData /\ page
  BY TypeGroups, Kinds DEF PageT, Shape, NoRun, List
<1>2. ActiveKey(List) /\ ActiveKey(selected.id) /\ Rendered(List) = runs /\ Rendered(selected.id) = runDetail
  BY <1>1 DEF ActiveKey, Rendered
<1>3. Says(List, runs) /\ Says(selected.id, runDetail)
  BY <1>1, <1>2 DEF StaleHasReason
<1>4. runs.rows = rows /\ (runDetail.status \in Active <=> rows[selected.id] \in Active)
  BY <1>1, <1>3 DEF Says
<1>5. selected.live = (runs.rows[selected.id] \in Active)
  BY DEF RowFollowed, Row
<1> QED
  BY <1>4, <1>5 DEF isLive
-----------------------------------------------------------------------------
(* The text in the drawer is the beginning of the log. *)

Begins(n) == [i \in 1 .. n |-> i]

\* A delta that starts where a text ends continues it.
LEMMA Continued ==
  ASSUME NEW m \in Nat, NEW n \in Nat, m <= n
  PROVE  Delta(0, n) = Begins(n) /\ Begins(m) \o Delta(m, n) = Begins(n)
<1>1. Begins(m) \in Seq(Nat) /\ Len(Begins(m)) = m
  BY DEF Begins
<1>2. Delta(m, n) = [i \in 1 .. n - m |-> m + i]
  BY DEF Delta
<1>3. [i \in 1 .. n - m |-> m + i] \in Seq(Nat) /\ Len([i \in 1 .. n - m |-> m + i]) = n - m
  <2>1. n - m \in Nat
    OBVIOUS
  <2> QED
    BY <2>1
<1> DEFINE t == Begins(m) \o Delta(m, n)
<1>4. t \in Seq(Nat) /\ Len(t) = n
  BY <1>1, <1>2, <1>3
<1>5. ASSUME NEW i \in 1 .. n PROVE t[i] = i
  <2>1. CASE i <= m
    <3>1. t[i] = Begins(m)[i]
      BY <1>1, <1>2, <1>3, <2>1
    <3> QED
      BY <2>1, <3>1 DEF Begins
  <2>2. CASE i > m
    <3>1. Begins(m) \in Seq(Nat) /\ Delta(m, n) \in Seq(Nat) /\ Len(Begins(m)) = m /\ Len(Delta(m, n)) = n - m
      BY <1>1, <1>2, <1>3
    <3>2. i - m \in 1 .. n - m
      BY <2>2
    <3>3. (Begins(m) \o Delta(m, n))[i] = Delta(m, n)[i - m]
      BY <2>2, <3>1
    <3>4. Delta(m, n)[i - m] = m + (i - m)
      BY <1>2, <3>2
    <3> QED
      BY <3>3, <3>4
  <2>3. i <= m \/ i > m
    OBVIOUS
  <2> QED
    BY <2>1, <2>2, <2>3
<1> HIDE DEF t
<1>6. t = Begins(n)
  <2>1. t = [i \in 1 .. n |-> t[i]]
    BY <1>4
  <2> QED
    BY <1>5, <2>1 DEF Begins
<1>7. Delta(0, n) = Begins(n)
  BY DEF Delta, Begins
<1> QED
  BY <1>6, <1>7 DEF t

\* What a delta adds to a text that covers where it starts.
LEMMA Covered ==
  ASSUME NEW s \in Seq(Nat), NEW m \in Nat, Covers(s, m),
         NEW from \in Nat, NEW n \in Nat, from <= m, m <= n
  PROVE  s \o Delta(from, n) \in Seq(Nat) /\ Covers(s \o Delta(from, n), n)
<1> DEFINE d == Delta(from, n)
           t == s \o d
<1>1. n - from \in Nat /\ d = [i \in 1 .. n - from |-> from + i]
  BY DEF Delta
<1>2. d \in Seq(Nat) /\ Len(d) = n - from /\ \A i \in 1 .. n - from : d[i] = from + i
  BY <1>1
<1> HIDE DEF d
<1>3. t \in Seq(Nat) /\ Len(t) = Len(s) + (n - from) /\ DOMAIN t = 1 .. Len(t) /\ DOMAIN s = 1 .. Len(s)
  BY <1>1, <1>2
<1>4. \A i \in 1 .. Len(s) : t[i] = s[i]
  BY <1>2
<1>5. \A i \in 1 .. n - from : t[Len(s) + i] = from + i
  BY <1>2
<1> HIDE DEF t
<1>6. ASSUME NEW i \in DOMAIN t PROVE t[i] \in 1 .. n
  <2>1. CASE i \in 1 .. Len(s)
    <3>1. s[i] \in 1 .. m
      BY <1>3, <2>1 DEF Covers
    <3> QED
      BY <1>4, <2>1, <3>1
  <2>2. CASE i \notin 1 .. Len(s)
    <3> DEFINE j == i - Len(s)
    <3>1. j \in 1 .. n - from /\ Len(s) + j = i
      BY <1>3, <1>6, <2>2
    <3> HIDE DEF j
    <3>2. t[Len(s) + j] = from + j
      BY <1>5, <3>1
    <3>3. from + j \in 1 .. n
      BY <3>1
    <3> QED
      BY <3>1, <3>2, <3>3
  <2> QED
    BY <2>1, <2>2
<1>7. ASSUME NEW c \in 1 .. n PROVE \E i \in DOMAIN t : t[i] = c
  <2>1. CASE c <= from
    <3>1. c \in {s[i] : i \in DOMAIN s}
      BY <2>1 DEF Covers
    <3>2. PICK i \in DOMAIN s : s[i] = c
      BY <3>1
    <3>3. i \in DOMAIN t /\ t[i] = c
      BY <1>1, <1>3, <1>4, <3>2
    <3> QED
      BY <3>3
  <2>2. CASE c > from
    <3> DEFINE j == c - from
    <3>1. j \in 1 .. n - from /\ from + j = c
      BY <2>2
    <3> HIDE DEF j
    <3>2. t[Len(s) + j] = c
      BY <1>5, <3>1
    <3>3. Len(s) + j \in DOMAIN t
      BY <1>3, <3>1
    <3> QED
      BY <3>2, <3>3
  <2> QED
    BY <2>1, <2>2
<1>8. {t[i] : i \in DOMAIN t} = 1 .. n
  BY <1>6, <1>7
<1> QED
  BY <1>3, <1>8 DEF t, d, Covers

Following == LogIsPrefix /\ (clean => \A r \in Runs : LogFollowed(r))

\* What the comparisons below are about are numbers.
LEMMA Numbers ==
  ASSUME TInv, NEW r \in Runs
  PROVE  /\ r \in Keys /\ r # List /\ r # NoRun
         /\ log[r] \in Nat /\ offset \in Nat
         /\ data[r] # NoData => data[r].length \in Nat /\ data[r].from \in Nat
         /\ fetch[r] # Idle => /\ fetch[r].from \in Nat
                               /\ fetch[r].got # NoData => fetch[r].got.length \in Nat /\ fetch[r].got.from \in Nat
<1>1. ServerT /\ CacheT /\ PageT /\ r \in Keys /\ r # List /\ r # NoRun
  BY TypeGroups, Kinds DEF NoRun, List
<1>2. data[r] \in {NoData} \cup Answers(r) /\ fetch[r] \in {Idle} \cup Fetch(r)
  BY <1>1 DEF CacheT, CacheTypes
<1>3. \A x \in Answers(r) : x.length \in Nat /\ x.from \in Nat
  BY <1>1, RunViewsAssumption DEF Answers
<1> QED
  BY <1>1, <1>2, <1>3, RunViewsAssumption DEF ServerT, PageT, Fetch

\* Where the text of the run in the drawer ends.
LEMMA TextEnds ==
  ASSUME TInv, Following, clean, NEW r \in Runs, selected.id = r
  PROVE  /\ page /\ TextGrows(r) /\ offset <= log[r]
         /\ view = NoData => offset = 0
         /\ data[r] = NoData => offset = 0
<1>1. TextGrows(r) /\ LogIsPrefix /\ r # NoRun /\ log[r] \in Nat
  BY Numbers DEF Following, LogFollowed
<1>2. page /\ (data[r] = NoData => runDetail = NoData)
  BY <1>1, TypeGroups DEF PageT, Shape
<1> QED
  BY <1>1, <1>2 DEF LogIsPrefix, TextGrows

\* The logs of runs that are followed only grow.
LEMMA Grown ==
  ASSUME TInv, TInv', Following, UNCHANGED <<data, fetch, view, offset, runDetail, twice>>, clean' => clean,
         selected'.id = selected.id,
         clean' => \A r \in Runs : log[r] <= log'[r] /\ (rows'[r] = "none" => log'[r] = 0)
  PROVE  Following'
<1>1. ASSUME NEW r \in Runs PROVE log[r] \in Nat /\ log'[r] \in Nat
  <2>1. ServerT /\ ServerT'
    BY TypeGroups
  <2> QED
    BY <2>1, RunViewsAssumption DEF ServerT
<1>2. ASSUME clean', NEW r \in Runs PROVE LogFollowed(r)'
  <2>1. LogFollowed(r) /\ log[r] <= log'[r] /\ (rows'[r] = "none" => log'[r] = 0)
    BY <1>2 DEF Following
  <2>2. AnswersGrow(r)'
    BY <1>1, <2>1, Numbers DEF LogFollowed, AnswersGrow
  <2>3. selected'.id = r => TextGrows(r)'
    BY <2>1 DEF LogFollowed, TextGrows
  <2> QED
    BY <2>2, <2>3 DEF LogFollowed
<1>3. LogIsPrefix'
  <2> SUFFICES ASSUME clean', selected.id # NoRun PROVE LogIsPrefix'
    BY DEF LogIsPrefix
  <2>1. selected.id \in Runs
    BY TypeGroups DEF PageT
  <2>2. offset \in Nat /\ log[selected.id] <= log'[selected.id]
    BY <2>1, Numbers
  <2> QED
    BY <1>1, <2>1, <2>2 DEF LogIsPrefix, Following
<1> QED
  BY <1>2, <1>3 DEF Following

\* Fetches of what is shown start where its text ends, or they are known to ask twice.
LEMMA Refetched ==
  ASSUME TInv, Following, UNCHANGED <<rows, log, data, runDetail, selected, view, offset, clean>>,
         twice => twice',
         \A r \in Runs : \/ fetch'[r] \in {Idle, fetch[r]}
                         \/ /\ ActiveKey(r) /\ fetch'[r] = NewFetch(r, offset)
                            /\ RenderDue(r) => twice'
  PROVE  Following'
<1>2. LogIsPrefix'
  BY DEF LogIsPrefix, Following
<1>3. ASSUME clean, NEW r \in Runs PROVE LogFollowed(r)'
  <2>1. LogFollowed(r) /\ r \in Keys /\ r # List /\ r # NoRun
    BY <1>3, Numbers DEF Following
  <2>2. CASE fetch'[r] \in {Idle, fetch[r]}
    BY <2>1, <2>2 DEF LogFollowed, AnswersGrow, TextGrows
  <2>3. CASE ActiveKey(r) /\ fetch'[r] = NewFetch(r, offset) /\ (RenderDue(r) => twice')
    <3>1. fetch'[r].got = NoData /\ fetch'[r].from = offset
      BY <2>1, <2>3 DEF NewFetch
    <3>2. selected.id = r
      BY <2>1, <2>3 DEF ActiveKey
    <3>3. offset <= log[r] /\ (data[r] = NoData => offset = 0) /\ TextGrows(r) /\ offset \in Nat
      BY <1>3, <3>2, TextEnds, Numbers
    <3>4. AnswersGrow(r)'
      BY <2>1, <3>1, <3>3 DEF LogFollowed, AnswersGrow
    <3>5. ~twice' => data[r] = runDetail
      BY <2>1, <2>3 DEF RenderDue, Rendered
    <3>6. TextGrows(r)'
      BY <3>1, <3>3, <3>5 DEF TextGrows
    <3> QED
      BY <3>4, <3>6 DEF LogFollowed
  <2> QED
    BY <1>3, <2>2, <2>3
<1> QED
  BY <1>2, <1>3 DEF Following

LEMMA ServerFollowing ==
  ASSUME TInv, TInv', Following, NEW r \in Runs,
         \/ NewRun(r) \/ OthersMark(r) \/ \E st \in {rows[r]} \cup Results : FlushLog(r, st)
         \/ \E st \in Results, lines \in {0, 1} : TaskEnds(r, st, lines)
  PROVE  Following'
<1>1. ServerT
  BY TypeGroups
<1>2. \A q \in Runs : log[q] \in Nat
  BY <1>1, RunViewsAssumption DEF ServerT
<1>3. UNCHANGED <<data, fetch, runDetail, selected, view, offset, twice, clean>>
  BY DEF NewRun, OthersMark, FlushLog, TaskEnds, cache, drawer
<1>4. clean => \A q \in Runs : rows[q] = "none" => log[q] = 0
  BY DEF Following, LogFollowed, AnswersGrow
<1>5. ASSUME clean, NEW q \in Runs PROVE log[q] <= log'[q] /\ (rows'[q] = "none" => log'[q] = 0)
  <2>1. CASE NewRun(r)
    BY <1>1, <1>2, <1>4, <1>5, <2>1 DEF NewRun, ServerT
  <2>2. CASE OthersMark(r)
    BY <1>1, <1>2, <1>4, <1>5, <2>2, Marked DEF OthersMark
  <2>3. ASSUME NEW st \in {rows[r]} \cup Results, FlushLog(r, st) PROVE log[q] <= log'[q] /\ (rows'[q] = "none" => log'[q] = 0)
    <3>1. rows'[r] # "none"
      BY <1>1, <2>3, Resulted DEF FlushLog, ServerT
    <3> QED
      BY <1>1, <1>2, <1>4, <1>5, <2>3, <3>1 DEF FlushLog, ServerT
  <2>4. ASSUME NEW st \in Results, NEW lines \in {0, 1}, TaskEnds(r, st, lines) PROVE log[q] <= log'[q] /\ (rows'[q] = "none" => log'[q] = 0)
    <3>1. CASE rows[r] = "none"
      BY <1>2, <1>4, <1>5, <2>4, <3>1 DEF TaskEnds
    <3>2. CASE rows[r] # "none"
      <4>1. rows'[r] # "none"
        BY <1>1, <2>4, <3>2, Resulted DEF TaskEnds, ServerT
      <4> QED
        BY <1>1, <1>2, <1>4, <1>5, <2>4, <3>2, <4>1 DEF TaskEnds, ServerT
    <3> QED
      BY <3>1, <3>2
  <2> QED
    BY <2>1, <2>2, <2>3, <2>4
<1> QED
  BY <1>3, <1>5, Grown

\* What the cache holds of the run in the drawer is appended to a text that reaches where
\* it starts, and unless a part was asked for twice, ends there.
LEMMA AppendedText ==
  ASSUME TInv, Following, clean, NEW r \in Runs, selected.id = r,
         data[r] # NoData, data[r] # runDetail, Appended
  PROVE  /\ view' # NoData /\ view'.chars \in Seq(Nat)
         /\ offset' = data[r].length /\ offset' <= log[r]
         /\ Covers(view'.chars, offset')
         /\ ~twice => view'.chars = Begins(offset')
<1> DEFINE from == data[r].from
           n == data[r].length
<1>1. r # NoRun /\ from \in Nat /\ n \in Nat /\ offset \in Nat
  BY Numbers
<1>2. TextGrows(r) /\ (view = NoData => offset = 0) /\ LogIsPrefix /\ n <= log[r]
  BY TextEnds DEF Following, LogFollowed, AnswersGrow
<1>3. from <= offset /\ offset <= n /\ (~twice => from = offset)
  BY <1>2 DEF TextGrows
<1>4. view' = Text(view, data[r]) /\ offset' = n
  BY <1>1 DEF Appended
<1> DEFINE s == IF view = NoData THEN <<>> ELSE view.chars
<1>5. view' = [kind |-> "text", chars |-> s \o Delta(from, n)]
  BY <1>4 DEF Text
<1>6. s \in Seq(Nat) /\ Covers(s, offset)
  <2>1. CASE view = NoData
    <3>1. s = <<>> /\ offset = 0
      BY <1>2, <2>1
    <3>2. <<>> \in Seq(Nat) /\ Covers(<<>>, 0)
      BY DEF Covers
    <3> HIDE DEF s
    <3> QED
      BY <3>1, <3>2
  <2>2. CASE view # NoData
    BY <1>1, <1>2, <2>2 DEF LogIsPrefix, TextGrows
  <2> QED
    BY <2>1, <2>2
<1>7. ~twice => s = Begins(offset)
  <2>1. CASE view = NoData
    <3>1. s = <<>> /\ offset = 0
      BY <1>2, <2>1
    <3> QED
      BY <3>1 DEF Begins
  <2>2. CASE view # NoData
    BY <1>1, <1>2, <2>2 DEF LogIsPrefix, Begins
  <2> QED
    BY <2>1, <2>2
<1> HIDE DEF s, from, n
<1>8. s \o Delta(from, n) \in Seq(Nat) /\ Covers(s \o Delta(from, n), n)
  BY <1>1, <1>3, <1>6, Covered
<1>9. ~twice => s \o Delta(from, n) = Begins(n)
  BY <1>1, <1>3, <1>7, Continued
<1>10. view'.chars = s \o Delta(from, n) /\ view' # NoData
  BY <1>5 DEF NoData
<1>11. n = data[r].length
  BY DEF n
<1> QED
  BY <1>2, <1>4, <1>8, <1>9, <1>10, <1>11

LEMMA RenderFollowing ==
  ASSUME TInv, TInv', Following, Render
  PROVE  Following'
<1>1. UNCHANGED <<rows, log, data, fetch, twice, clean>> /\ Shows(selected) /\ Appended
  BY DEF Render, server, cache
<1>2. selected'.id = selected.id /\ runDetail' = IF selected.id = NoRun THEN NoData ELSE data[selected.id]
  BY <1>1 DEF Shows, Followed, Row
<1>3. Shape /\ selected.id \in {NoRun} \cup Runs
  BY TypeGroups DEF PageT
<1>4. CASE selected.id = NoRun \/ data[selected.id] = NoData \/ data[selected.id] = runDetail
  <2>1. runDetail' = runDetail
    BY <1>2, <1>3, <1>4 DEF Shape
  <2>2. view' = view /\ offset' = offset
    BY <1>1, <1>4 DEF Appended
  <2>3. clean => \A q \in Runs : log[q] \in Nat /\ (rows[q] = "none" => log[q] = 0)
    BY Numbers DEF Following, LogFollowed, AnswersGrow
  <2> QED
    BY <1>1, <1>2, <2>1, <2>2, <2>3, Grown
<1>5. ASSUME NEW r \in Runs, selected.id = r, data[r] # NoData, data[r] # runDetail PROVE Following'
  <2> SUFFICES ASSUME clean PROVE LogIsPrefix' /\ \A q \in Runs : LogFollowed(q)'
    BY <1>1 DEF Following, LogIsPrefix
  <2>1. /\ view' # NoData /\ view'.chars \in Seq(Nat)
        /\ offset' = data[r].length /\ offset' <= log[r]
        /\ Covers(view'.chars, offset')
        /\ ~twice => view'.chars = Begins(offset')
    BY <1>1, <1>5, AppendedText
  <2>2. r # NoRun /\ runDetail' = data[r]
    BY <1>2, <1>5, Numbers
  <2>3. LogIsPrefix'
    BY <1>1, <1>2, <1>5, <2>1, <2>2 DEF LogIsPrefix, Begins
  <2>4. TextGrows(r) /\ \A q \in Runs : AnswersGrow(q)
    BY <1>5, TextEnds DEF Following, LogFollowed
  <2>5. data[r].from \in Nat /\ data[r].length \in Nat /\ offset \in Nat /\ (fetch[r] # Idle => fetch[r].from \in Nat)
    BY <1>5, Numbers
  <2>6. TextGrows(r)'
    <3>1. view' # NoData /\ runDetail' # NoData /\ runDetail'.length = offset' /\ view'.chars \in Seq(Nat)
      BY <1>5, <2>1, <2>2
    <3>2. data'[r].from <= offset' /\ offset' <= data'[r].length /\ (fetch'[r] # Idle => fetch'[r].from <= offset')
      BY <1>1, <1>5, <2>1, <2>4, <2>5 DEF TextGrows
    <3>3. ~twice' => data'[r] = runDetail' /\ fetch'[r] = Idle
      BY <1>1, <1>5, <2>2, <2>4 DEF TextGrows
    <3> QED
      BY <3>1, <3>2, <3>3 DEF TextGrows
  <2>7. \A q \in Runs : AnswersGrow(q)'
    BY <1>1, <2>4 DEF AnswersGrow
  <2> QED
    BY <1>2, <1>5, <2>3, <2>6, <2>7 DEF LogFollowed
<1> QED
  BY <1>3, <1>4, <1>5

LEMMA ArriveFollowing ==
  ASSUME TInv, Following, NEW k \in Keys, Arrive(k)
  PROVE  Following'
<1>1. CacheT
  BY TypeGroups
<1>2. /\ fetch' = [fetch EXCEPT ![k] = Idle] /\ data' = [data EXCEPT ![k] = fetch[k].got]
      /\ UNCHANGED <<rows, log, clean, runDetail, selected, view, offset, twice>>
  BY DEF Arrive, server, drawer
<1>3. fetch'[k] = Idle /\ data'[k] = fetch[k].got /\ \A j \in Keys \ {k} : fetch'[j] = fetch[j] /\ data'[j] = data[j]
  BY <1>1, <1>2 DEF CacheT
<1>4. LogIsPrefix'
  BY <1>2 DEF LogIsPrefix, Following
<1>5. ASSUME clean, NEW r \in Runs, r # k PROVE LogFollowed(r)'
  <2>1. LogFollowed(r) /\ r \in Keys
    BY <1>5, Kinds DEF Following
  <2>2. fetch'[r] = fetch[r] /\ data'[r] = data[r]
    BY <1>3, <1>5, <2>1
  <2> QED
    BY <1>2, <2>1, <2>2 DEF LogFollowed, AnswersGrow, TextGrows
<1>6. ASSUME clean, k \in Runs PROVE LogFollowed(k)'
  <2>1. LogFollowed(k) /\ fetch[k] # Idle /\ fetch[k].got # NoData
    BY <1>6 DEF Following, Arrive
  <2>2. AnswersGrow(k)'
    BY <1>2, <1>3, <2>1 DEF LogFollowed, AnswersGrow
  <2>3. ASSUME selected.id = k PROVE TextGrows(k)'
    <3>1. TextGrows(k) /\ (data[k] = NoData => offset = 0) /\ AnswersGrow(k)
      BY <1>6, <2>1, <2>3, TextEnds DEF LogFollowed
    <3>2. /\ offset \in Nat /\ fetch[k].got.length \in Nat
          /\ data[k] # NoData => data[k].length \in Nat
      BY <1>6, <2>1, Numbers
    <3>3. fetch[k].got.from = fetch[k].from /\ fetch[k].from <= offset /\ offset <= fetch[k].got.length
      BY <2>1, <3>1, <3>2 DEF TextGrows, AnswersGrow
    <3>4. ~twice => fetch[k].from = offset
      BY <2>1, <3>1 DEF TextGrows
    <3>5. runDetail # NoData => runDetail.length = offset
      BY <3>1 DEF TextGrows
    <3> QED
      BY <1>2, <1>3, <3>1, <3>3, <3>4, <3>5 DEF TextGrows
  <2> QED
    BY <1>2, <2>2, <2>3 DEF LogFollowed
<1> QED
  BY <1>2, <1>4, <1>5, <1>6 DEF Following

LEMMA CacheFollowing ==
  ASSUME TInv, TInv', Following,
         \/ Receive \/ Answered \/ CancelAnswered \/ Connect \/ Disconnect
         \/ \E old \in BOOLEAN : EnterPage(old)
         \/ \E k \in Keys : Serve(k) \/ NotFound(k) \/ Arrive(k) \/ Fails(k) \/ Poll(k) \/ Focus(k) \/ Forget(k)
  PROVE  Following'
<1>1. ServerT /\ CacheT /\ PageT /\ WireT
  BY TypeGroups
<1>2. ASSUME NEW S \in SUBSET Keys, Invalidate(S), UNCHANGED <<rows, log, data, drawer, clean>> PROVE Following'
  <2>1. \A k \in Keys : fetch'[k] = IF k \in S /\ Restarts(k) THEN NewFetch(k, offset) ELSE fetch[k]
    BY <1>1, <1>2, Invalidated
  <2>2. Asks({k \in S : Restarts(k)})
    BY <1>2 DEF Invalidate
  <2>3. (twice => twice') /\ \A r \in Runs : r \in S /\ Restarts(r) /\ RenderDue(r) => twice'
    BY <2>2, Kinds DEF Asks
  <2>4. UNCHANGED <<rows, log, data, runDetail, selected, view, offset, clean>>
    BY <1>2 DEF drawer
  <2> QED
    BY <2>1, <2>3, <2>4, Refetched, Kinds DEF Restarts
<1>3. CASE Receive
  <2> DEFINE S == {k \in Keys : Affects(Head(queue), k)}
  <2>1. S \in SUBSET Keys /\ Invalidate(S) /\ UNCHANGED <<rows, log, data, drawer, clean>>
    BY <1>3 DEF Receive, server
  <2> HIDE DEF S
  <2> QED
    BY <1>2, <2>1
<1>4. CASE Answered
  BY <1>2, <1>4, Kinds DEF Answered, server
<1>5. CASE CancelAnswered
  <2>1. {List, selected.id} \in SUBSET Keys
    BY <1>1, <1>5, Kinds DEF CancelAnswered, PageT
  <2> QED
    BY <1>2, <1>5, <2>1 DEF CancelAnswered, server
<1>6. CASE Connect \/ Disconnect
  <2>1. UNCHANGED <<rows, log, data, fetch, runDetail, selected, view, offset, twice, clean>>
    BY <1>6 DEF Connect, Disconnect, server, cache, drawer
  <2> QED
    BY <2>1, Refetched
<1>7. ASSUME NEW old, EnterPage(old) PROVE Following'
  <2>1. fetch' = Shown(List, 0, old) /\ UNCHANGED <<rows, log, data, clean>> /\ Shows(Nothing)
    BY <1>7 DEF EnterPage, server
  <2>2. \A r \in Runs : fetch'[r] = fetch[r]
    BY <1>1, <2>1, Kinds DEF Shown, Start, CacheT
  <2>3. selected'.id = NoRun
    BY <2>1, NothingType DEF Shows, Followed
  <2>4. ASSUME clean, NEW r \in Runs PROVE LogFollowed(r)'
    <3>1. AnswersGrow(r) /\ r # NoRun
      BY <2>4, Numbers DEF Following, LogFollowed
    <3> QED
      BY <2>1, <2>2, <2>3, <3>1 DEF LogFollowed, AnswersGrow
  <2> QED
    BY <2>1, <2>3, <2>4 DEF Following, LogIsPrefix
<1>8. ASSUME NEW k \in Keys, NotFound(k) \/ Fails(k) \/ Poll(k) \/ Focus(k) PROVE Following'
  <2>1. UNCHANGED <<rows, log, data, runDetail, selected, view, offset, clean>>
    BY <1>8 DEF NotFound, Fails, Poll, Focus, server, drawer
  <2>2. \/ fetch' = [fetch EXCEPT ![k] = Idle] /\ twice' = twice
        \/ ActiveKey(k) /\ fetch' = Start(fetch, k, offset) /\ Asks({k})
    BY <1>8 DEF NotFound, Fails, Poll, Focus
  <2>3. twice => twice'
    BY <2>2 DEF Asks
  <2>4. ASSUME NEW r \in Runs
        PROVE  \/ fetch'[r] \in {Idle, fetch[r]}
               \/ ActiveKey(r) /\ fetch'[r] = NewFetch(r, offset) /\ (RenderDue(r) => twice')
    <3>1. r \in Keys /\ r # List
      BY Kinds
    <3>2. CASE fetch' = [fetch EXCEPT ![k] = Idle]
      BY <1>1, <3>1, <3>2 DEF CacheT
    <3>3. CASE ActiveKey(k) /\ fetch' = Start(fetch, k, offset) /\ Asks({k})
      <4>1. fetch'[r] = fetch[r] \/ (r = k /\ fetch'[r] = NewFetch(r, offset))
        BY <1>1, <3>1, <3>3 DEF CacheT, Start
      <4>2. r = k /\ RenderDue(r) => twice'
        BY <3>1, <3>3 DEF Asks
      <4> QED
        BY <3>3, <4>1, <4>2
    <3> QED
      BY <2>2, <3>2, <3>3
  <2> QED
    BY <2>1, <2>3, <2>4, Refetched
<1>9. ASSUME NEW k \in Keys, Serve(k) PROVE Following'
  <2> DEFINE got == IF k = List THEN ListOf(rows) ELSE RunOf(k, fetch[k].from)
  <2>1. UNCHANGED <<rows, log, data, runDetail, selected, view, offset, twice, clean>> /\ fetch' = [fetch EXCEPT ![k] = [fetch[k] EXCEPT !.got = got]]
    BY <1>9 DEF Serve, server, drawer
  <2>2. LogIsPrefix'
    BY <2>1 DEF LogIsPrefix, Following
  <2>3. ASSUME clean, NEW r \in Runs PROVE LogFollowed(r)'
    <3>1. LogFollowed(r) /\ r \in Keys /\ r # List
      BY <2>3, Kinds DEF Following
    <3>2. CASE r # k
      BY <1>1, <2>1, <3>1, <3>2 DEF LogFollowed, AnswersGrow, TextGrows, CacheT
    <3>3. CASE r = k
      <4>1. fetch[r] \in Fetch(r) /\ fetch[r] # Idle
        BY <1>1, <1>9, <3>1, <3>3 DEF CacheT, CacheTypes, Serve
      <4>2. fetch'[r] = [fetch[r] EXCEPT !.got = RunOf(r, fetch[r].from)]
        BY <1>1, <2>1, <3>1, <3>3 DEF CacheT
      <4>3. /\ fetch'[r].from = fetch[r].from /\ fetch'[r].got.length = log[r] /\ log[r] \in Nat
            /\ fetch'[r].got.from = fetch[r].from
        BY <1>1, <4>1, <4>2, RunViewsAssumption DEF Fetch, RunOf, ServerT
      <4> QED
        BY <2>1, <3>1, <4>1, <4>3 DEF LogFollowed, AnswersGrow, TextGrows
    <3> QED
      BY <3>2, <3>3
  <2> QED
    BY <2>1, <2>2, <2>3 DEF Following
<1>10. ASSUME NEW k \in Keys, Forget(k) PROVE Following'
  <2>1. UNCHANGED <<rows, log, fetch, runDetail, selected, view, offset, twice, clean>> /\ data' = [data EXCEPT ![k] = NoData] /\ fetch[k] = Idle
    BY <1>10 DEF Forget, server, drawer
  <2>2. selected.id = k => k \notin Runs
    BY <1>1, <1>10, Kinds DEF Forget, ActiveKey, PageT, Shape, NoRun, List
  <2>3. LogIsPrefix'
    BY <2>1 DEF LogIsPrefix, Following
  <2>4. ASSUME clean, NEW r \in Runs PROVE LogFollowed(r)'
    <3>1. LogFollowed(r) /\ r \in Keys /\ r # List
      BY <2>4, Kinds DEF Following
    <3> QED
      BY <1>1, <2>1, <2>2, <3>1 DEF LogFollowed, AnswersGrow, TextGrows, CacheT
  <2> QED
    BY <2>1, <2>3, <2>4 DEF Following
<1> QED
  BY <1>3, <1>4, <1>5, <1>6, <1>7, <1>8, <1>9, <1>10, ArriveFollowing

LEMMA UserFollowing ==
  ASSUME TInv, TInv', Following,
         \/ LeavePage \/ ClearAll \/ (\E S \in SUBSET Runs : Acknowledge(S))
         \/ \E r \in Runs, old \in BOOLEAN : openDrawer(r, old)
  PROVE  Following'
<1>1. ServerT /\ CacheT /\ PageT
  BY TypeGroups
<1>2. clean => \A q \in Runs : log[q] \in Nat /\ (rows[q] = "none" => log[q] = 0)
  BY <1>1, RunViewsAssumption DEF ServerT, Following, LogFollowed, AnswersGrow
<1>3. CASE ClearAll
  BY <1>3 DEF ClearAll, Following, LogIsPrefix
<1>4. ASSUME NEW S \in SUBSET Runs, Acknowledge(S) PROVE Following'
  <2>1. UNCHANGED <<log, data, fetch, runDetail, selected, view, offset, twice, clean>> /\ Marks(S)
    BY <1>4 DEF Acknowledge, cache, drawer
  <2>2. clean => \A r \in Runs : log[r] <= log'[r] /\ (rows'[r] = "none" => log'[r] = 0)
    BY <1>1, <1>2, <2>1, Marked
  <2> QED
    BY <2>1, <2>2, Grown
<1>5. CASE LeavePage
  <2>1. UNCHANGED <<rows, log, data, fetch, clean>> /\ selected'.id = NoRun
    BY <1>5, NothingType DEF LeavePage, server, cache
  <2>2. ASSUME clean, NEW r \in Runs PROVE LogFollowed(r)'
    <3>1. LogFollowed(r) /\ r # NoRun
      BY <2>2, Kinds DEF Following, NoRun, List
    <3> QED
      BY <2>1, <3>1 DEF LogFollowed, AnswersGrow
  <2> QED
    BY <2>1, <2>2 DEF Following, LogIsPrefix
<1>6. ASSUME NEW r \in Runs, NEW old \in BOOLEAN, openDrawer(r, old) PROVE Following'
  <2>1. UNCHANGED <<log, data>> /\ selected'.id = r /\ (clean' => clean) /\ r # NoRun /\ r # List /\ r \in Keys
    <3>1. UNCHANGED <<log, data>> /\ (clean' => clean)
      BY <1>6 DEF openDrawer
    <3>2. selected'.id = r
      BY <1>6 DEF openDrawer, Row, Shows, Followed
    <3> QED
      BY <3>1, <3>2, Kinds DEF NoRun, List
  <2>2. clean => \A q \in Runs : log[q] <= log'[q] /\ (rows'[q] = "none" => log'[q] = 0)
    BY <1>1, <1>2, <1>6, Marked DEF openDrawer
  <2>3. CASE selected.id = r
    <3>1. UNCHANGED <<data, fetch, view, offset, runDetail, twice, clean>>
      BY <1>6, <2>1, <2>3 DEF openDrawer
    <3> QED
      BY <2>1, <2>2, <2>3, <3>1, Grown
  <2>4. CASE selected.id # r
    <3> SUFFICES ASSUME clean' PROVE LogIsPrefix' /\ \A q \in Runs : LogFollowed(q)'
      BY DEF Following, LogIsPrefix
    <3>1. clean /\ data[r] = NoData /\ view' = NoData /\ offset' = 0 /\ fetch' = Shown(r, 0, old)
      BY <1>6, <2>4 DEF openDrawer
    <3>5. runDetail' = NoData
      <4>1. Shows(Row(r, runs.rows)) /\ Row(r, runs.rows).id = r
        BY <1>6, <2>4 DEF openDrawer, Row
      <4> QED
        BY <2>1, <3>1, <4>1 DEF Shows
    <3>2. fetch'[r] = (IF fetch[r] = Idle THEN NewFetch(r, 0) ELSE fetch[r]) /\ \A q \in Keys \ {r} : fetch'[q] = fetch[q]
      BY <1>1, <2>1, <3>1 DEF Shown, Start, CacheT
    <3>3. ASSUME NEW q \in Runs, q # r PROVE LogFollowed(q)'
      <4>1. AnswersGrow(q) /\ q \in Keys /\ log[q] <= log'[q] /\ log'[q] = log[q]
        BY <2>1, <2>2, <3>1, <3>3, Kinds DEF LogFollowed, Following
      <4>2. AnswersGrow(q)'
        BY <2>1, <2>2, <3>1, <3>2, <3>3, <4>1 DEF AnswersGrow
      <4> QED
        BY <2>1, <3>3, <4>2 DEF LogFollowed
    <3>4. LogFollowed(r)'
      <4>1. AnswersGrow(r) /\ log[r] \in Nat
        BY <1>2, <3>1 DEF Following, LogFollowed
      <4>2. NewFetch(r, 0).from = 0 /\ NewFetch(r, 0).got = NoData
        BY DEF NewFetch
      <4>3. fetch'[r].from = 0 \/ fetch'[r] = Idle
        BY <3>1, <3>2, <4>1, <4>2 DEF AnswersGrow
      <4>4. AnswersGrow(r)'
        BY <2>1, <2>2, <3>1, <3>2, <4>1, <4>2 DEF AnswersGrow
      <4>5. TextGrows(r)'
        BY <2>1, <3>1, <3>5, <4>3 DEF TextGrows
      <4> QED
        BY <4>4, <4>5 DEF LogFollowed
    <3> QED
      BY <3>1, <3>3, <3>4 DEF LogIsPrefix
  <2> QED
    BY <2>3, <2>4
<1> QED
  BY <1>3, <1>4, <1>5, <1>6

LEMMA FollowingStep == TInv /\ Following /\ [Next]_vars => Following'
<1> SUFFICES ASSUME TInv, Following, [Next]_vars PROVE Following'
  OBVIOUS
<1>1. TInv'
  BY TypeStep
<1>2. CASE UNCHANGED vars
  <2>1. UNCHANGED <<rows, log, data, fetch, runDetail, selected, view, offset, twice, clean>>
    BY <1>2 DEF vars, server, cache, drawer
  <2> QED
    BY <2>1, Refetched
<1>3. CASE Serving
  BY <1>1, <1>3, ServerFollowing, CacheFollowing DEF Serving
<1>4. CASE Fetching
  BY <1>1, <1>4, CacheFollowing DEF Fetching
<1>5. CASE Using
  <2>1. ASSUME NEW S \in SUBSET Runs, Acknowledge(S) PROVE Following'
    BY <1>1, <2>1, UserFollowing
  <2>2. Runs \in SUBSET Runs /\ \A r \in Runs : {r} \in SUBSET Runs
    OBVIOUS
  <2> QED
    BY <1>1, <1>5, <2>1, <2>2, RenderFollowing, UserFollowing, CacheFollowing DEF Using, markAllRead
<1> QED
  BY <1>2, <1>3, <1>4, <1>5 DEF Next
-----------------------------------------------------------------------------

LEMMA Inductive == Spec => []IInv
<1>1. IInv <=> TInv /\ RowFollowed /\ AllExcused /\ Following
  BY DEF IInv, TInv, AllExcused, Following
<1>2. Init => RowFollowed /\ AllExcused /\ Following
  <2> SUFFICES ASSUME Init PROVE RowFollowed /\ AllExcused /\ Following
    OBVIOUS
  <2>1. selected.id = NoRun /\ (\A k \in Keys : data[k] = NoData /\ fetch[k] = Idle) /\ \A r \in Runs : log[r] = 0
    BY NothingType DEF Init
  <2>2. RowFollowed /\ AllExcused
    BY <2>1 DEF RowFollowed, AllExcused, AnswerExcused
  <2>3. ASSUME NEW r \in Runs PROVE LogFollowed(r)
    BY <2>1, Kinds DEF LogFollowed, AnswersGrow, NoRun, List
  <2> QED
    BY <2>1, <2>2, <2>3 DEF Following, LogIsPrefix
<1>3. IInv' <=> TInv' /\ RowFollowed' /\ AllExcused' /\ Following'
  BY DEF IInv, TInv, AllExcused, Following
<1>4. Init => IInv
  BY <1>1, <1>2, TypeInit
<1>5. IInv /\ [Next]_vars => IInv'
  BY <1>1, <1>3, TypeStep, RowStep, ExcusedStep, FollowingStep
<1> QED
  BY <1>4, <1>5, PTL DEF Spec

\* What the browser keeps of the runs has its types: a query of the cache holds an
\* answer to its own question only, and a drawer is open only on the page that shows
\* a list.
THEOREM ViewTypes == Spec => []TypeOK
BY Inductive, PTL DEF IInv

\* History.tsx builds the text of the drawer from the deltas it fetched, in an effect that
\* runs some time after an answer came in: whatever the order in which fetches are
\* started, given up, answered and rendered while the user goes from run to run, the text
\* covers the beginning of the log of the run that is shown, up to the offset the next
\* fetch asks from, and is exactly that beginning unless a fetch was started while an
\* answer waited for the effect.  (Reopening a run that is still in the cache and clearing
\* the runs end what is said.)
THEOREM LogShown == Spec => []LogIsPrefix
BY Inductive, PTL DEF IInv

\* What the pages render of the runs differs from the table only while an answer is about
\* to be rendered, or the client will hear of it or fetches it, or for a reason that is
\* named: with the events that useServerEvents turns into invalidations, none of the
\* steps written down here loses a change unseen.
THEOREM StaleExplained == Spec => []StaleHasReason
<1>1. IInv => StaleHasReason
  BY ExcuseIsReason DEF IInv, AllExcused
<1> QED
  BY <1>1, Inductive, PTL

\* The drawer shows the status of the details it fetched and polls by the status of the
\* row it copied from the list: that the one says the run is at work and the other that
\* it is over has a reason, one of those for which the list or the details may be out
\* of date.  It follows from the theorem above and from the copy being kept up with the
\* list at every render.
THEOREM DrawerFollows == Spec => []DrawerAgrees
<1>1. IInv => DrawerAgrees
  BY ExcuseIsReason, ReasonsAgree DEF IInv, TInv, AllExcused
<1> QED
  BY <1>1, Inductive, PTL
=============================================================================
