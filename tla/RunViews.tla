------------------------------ MODULE RunViews ------------------------------
(***************************************************************************)
(* What a browser shows of the runs.  The server commits changes of runs   *)
(* and announces them on an event stream; the client keeps the answers of  *)
(* its last fetches in a query cache and refetches what an event names and *)
(* what it polls.  The history page renders what the cache holds, some     *)
(* time after it came in, and the effects of that rendering build the log  *)
(* of the run it shows from the deltas it fetched.                         *)
(***************************************************************************)
EXTENDS Integers, Sequences

CONSTANTS
  MaxRuns, MaxLog, \* bounds: ids, length of a log
  MaxQueue,        \* length of the queue of a subscriber
  Results,         \* how runs end, of Over
  MaxMoves         \* bound on moves: leaving the page, clearings, faults...

VARIABLES
  rows, log, alive,        \* the table runs; length of the log; tasks at work
  stream, queue,           \* the event stream, what is on its way on it
  data, invalid, fetch,    \* the query cache: answers, marks, fetches under way
  page, moves,             \* the history page is shown; moves made so far
  runs, runDetail,         \* the answers it rendered last
  selected, view, offset,  \* the run of its drawer, the text, logFromRef
  twice,                   \* a part of its log was asked for a second time
  asks,                    \* a change this page asked for is not answered yet
  lost, clean              \* keys changed without notice; the text is followed

server == <<rows, log, alive>>
wire == <<stream, queue>>
cache == <<data, invalid, fetch>>
drawer == <<runs, runDetail, selected, view, offset>>
vars == <<server, wire, cache, page, moves, drawer, twice, asks, lost, clean>>

ASSUME RunViewsAssumption == /\ MaxRuns \in Nat /\ MaxLog \in Nat
                             /\ MaxQueue \in Nat /\ MaxMoves \in Nat
                             /\ Results \subseteq {"failed", "over"}

Runs == 1 .. MaxRuns
List == 0              \* the key of the list; a run is the key of its details
Keys == {List} \cup Runs
NoRun == 0

Move == moves < MaxMoves /\ moves' = moves + 1

\* A row as far as the pages tell it apart: a run at work is "watched" when its alert
\* is marked read already; an unread failure is "failed", what else is over "over".
Active == {"running", "watched"}
Over == {"failed", "over"}
Status == {"none"} \cup Active \cup Over

NoData == [kind |-> "nothing"]
Idle == [kind |-> "idle"]
ListOf(table) == [kind |-> "list", rows |-> table]
RunOf(r, from) == [kind |-> "run", status |-> rows[r], from |-> from, length |-> log[r]]

-----------------------------------------------------------------------------
(* The query cache, as the pages use it. *)

ActiveKey(k) == page /\ (k = List \/ k = selected.id)
Exists(k) == data[k] # NoData \/ fetch[k] # Idle

\* The page is to render an answer that came in.  (One that says what the last one said
\* keeps its identity, and is no change.)
Rendered(k) == IF k = List THEN runs ELSE runDetail
RenderDue(k) == ActiveKey(k) /\ Rendered(k) # data[k]

\* What is cached of these keys is outdated, and nobody will tell the client.
Lost(S) == lost \cup {k \in S : Exists(k)}

\* A fetch takes the offset at the moment it starts.
NewFetch(k, from) == [kind |-> "fetch", from |-> IF k = List THEN 0 ELSE from, got |-> NoData]
Start(f, k, from) == IF f[k] = Idle THEN [f EXCEPT ![k] = NewFetch(k, from)] ELSE f

\* While an answer waits to be appended, logFromRef is behind it.
Asks(S) == twice' = (twice \/ \E r \in S \ {List} : RenderDue(r))

\* Mutant: a fetch under way is always left to go on.
MutRestarts(k) == ActiveKey(k) /\ fetch[k] = Idle

\* An invalidated query that is shown is fetched anew: a fetch under way is given
\* up, unless it is the first one.
Restarts(k) == ActiveKey(k) /\ (fetch[k] = Idle \/ data[k] # NoData)

Invalidate(S) ==
  /\ invalid' = invalid \cup {k \in S : Exists(k)}
  /\ fetch' = [k \in Keys |-> IF k \in S /\ Restarts(k) THEN NewFetch(k, offset) ELSE fetch[k]]
  /\ Asks({k \in S : Restarts(k)})
  /\ lost' = Lost({k \in S : /\ fetch[k] # Idle /\ fetch[k].got # NoData
                             /\ data[k] = NoData \/ ~ActiveKey(k)})

-----------------------------------------------------------------------------
(* The server: runs that log and end, and the events they publish. *)

RunsEvent == List       \* "runs"
Affects(e, k) == k = List \/ e = k

\* Mutant: the queue has no limit.
MutQueued(q, es) == q \o es

\* publish: a full queue drops the event, a closed stream has no queue.
Queued(q, es) == IF es = <<>> THEN q
                 ELSE LET room == MaxQueue - Len(q)
                      IN q \o SubSeq(es, 1, IF room < Len(es) THEN room ELSE Len(es))
Publish(r, es) ==
  IF stream = "open" /\ Len(queue) + Len(es) <= MaxQueue
  THEN queue' = queue \o es /\ UNCHANGED lost
  ELSE /\ queue' = IF stream = "open" THEN Queued(queue, es) ELSE queue
       /\ lost' = Lost({List, r})

\* (A run whose id may have been given before counts as a move.)
NewRun(r) ==
  /\ rows[r] = "none" /\ ~alive[r]
  /\ \A q \in Runs : q < r => rows[q] # "none" \/ \E p \in Runs : p >= q /\ rows[p] # "none"
  /\ \A q \in Runs : q > r => rows[q] = "none"
  /\ rows' = [rows EXCEPT ![r] = "running"]
  /\ log' = [log EXCEPT ![r] = 0]
  /\ alive' = [alive EXCEPT ![r] = TRUE]
  /\ Publish(r, <<RunsEvent, r>>)
  /\ IF clean THEN UNCHANGED moves ELSE Move
  /\ UNCHANGED <<stream, cache, page, drawer, twice, asks, clean>>

\* alert_read = False is what the runner's copy says already: nothing is written when
\* the alert was marked read meanwhile.
Result(row, st) == IF row = "watched" THEN "over" ELSE st

\* flush_log, which may write the result before the task is done.
FlushLog(r, st) ==
  /\ alive[r] /\ rows[r] # "none"
  /\ rows[r] # st => rows[r] \in Active
  /\ log[r] < MaxLog
  /\ rows' = [rows EXCEPT ![r] = IF st = @ THEN @ ELSE Result(@, st)]
  /\ log' = [log EXCEPT ![r] = @ + 1]
  /\ Publish(r, <<r>>)
  /\ UNCHANGED <<alive, stream, cache, page, moves, drawer, twice, asks, clean>>

\* The finally clause: the last lines and the result, if its row is still there.
TaskEnds(r, st, lines) ==
  /\ alive[r]
  /\ alive' = [alive EXCEPT ![r] = FALSE]
  /\ IF rows[r] = "none"
     THEN UNCHANGED <<rows, log, queue, lost>>
     ELSE /\ log[r] + lines <= MaxLog
          /\ rows' = [rows EXCEPT ![r] = IF @ \in Active THEN Result(@, st) ELSE @]
          /\ log' = [log EXCEPT ![r] = @ + lines]
          /\ Publish(r, <<RunsEvent, r>>)
  /\ UNCHANGED <<stream, cache, page, moves, drawer, twice, asks, clean>>

-----------------------------------------------------------------------------
(* The event stream. *)

Connect ==
  /\ stream = "closed"
  /\ stream' = "open" /\ queue' = <<>>
  /\ UNCHANGED <<server, cache, page, moves, drawer, twice, asks, lost, clean>>

\* onerror: what was on its way is gone.
Disconnect ==
  /\ Move
  /\ stream = "open"
  /\ stream' = "closed" /\ queue' = <<>>
  /\ lost' = Lost({k \in Keys : \E i \in DOMAIN queue : Affects(queue[i], k)})
  /\ UNCHANGED <<server, cache, page, drawer, twice, asks, clean>>

\* onmessage: "runs" concerns the lists, "run" its details and the lists.
Receive ==
  /\ queue # <<>>
  /\ queue' = Tail(queue)
  /\ Invalidate({k \in Keys : Affects(Head(queue), k)})
  /\ UNCHANGED <<server, stream, data, page, moves, drawer, asks, clean>>

-----------------------------------------------------------------------------
(* Fetches. *)

\* list_runs, get_run: what the table says when the server reads it.
Serve(k) ==
  /\ fetch[k] # Idle /\ fetch[k].got = NoData
  /\ k # List => rows[k] # "none"
  /\ fetch' = [fetch EXCEPT ![k].got = IF k = List THEN ListOf(rows) ELSE RunOf(k, fetch[k].from)]
  /\ lost' = lost \ {k}
  /\ UNCHANGED <<server, wire, data, invalid, page, moves, drawer, twice, asks, clean>>

\* The run is not found: an error, the last answer stays.
NotFound(k) ==
  /\ k # List /\ fetch[k] # Idle /\ fetch[k].got = NoData
  /\ rows[k] = "none"
  /\ fetch' = [fetch EXCEPT ![k] = Idle]
  /\ lost' = IF data[k] = NoData THEN lost \ {k} ELSE lost \cup {k}
  /\ UNCHANGED <<server, wire, data, invalid, page, moves, drawer, twice, asks, clean>>

\* The answer enters the cache.
Arrive(k) ==
  /\ fetch[k] # Idle /\ fetch[k].got # NoData
  /\ data' = [data EXCEPT ![k] = fetch[k].got]
  /\ fetch' = [fetch EXCEPT ![k] = Idle]
  /\ invalid' = invalid \ {k}
  /\ UNCHANGED <<server, wire, page, moves, drawer, twice, asks, lost, clean>>

\* A fetch and its retry fail.
Fails(k) ==
  /\ Move
  /\ fetch[k] # Idle
  /\ fetch' = [fetch EXCEPT ![k] = Idle]
  /\ lost' = IF data[k] = NoData THEN lost \ {k} ELSE lost \cup {k}
  /\ UNCHANGED <<server, wire, data, invalid, page, drawer, twice, asks, clean>>

isLive == selected.live

\* Mutant: the list is polled only while a live run is shown.
MutPoll(k) ==
  /\ ActiveKey(k) /\ isLive
  /\ fetch[k] = Idle
  /\ fetch' = Start(fetch, k, offset) /\ Asks({k})
  /\ UNCHANGED <<server, wire, data, invalid, page, moves, drawer, asks, lost, clean>>

\* refetchInterval of the list, and of the details while the run is live.
Poll(k) ==
  /\ ActiveKey(k) /\ (k # List => isLive)
  /\ fetch[k] = Idle
  /\ fetch' = Start(fetch, k, offset) /\ Asks({k})
  /\ UNCHANGED <<server, wire, data, invalid, page, moves, drawer, asks, lost, clean>>

\* The window gets the focus: what is shown and stale is fetched.
Focus(k) ==
  /\ Move
  /\ ActiveKey(k) /\ fetch[k] = Idle
  /\ fetch' = Start(fetch, k, offset) /\ Asks({k})
  /\ UNCHANGED <<server, wire, data, invalid, page, drawer, asks, lost, clean>>

\* An entry nobody looked at for a while is dropped.
Forget(k) ==
  /\ ~ActiveKey(k) /\ fetch[k] = Idle /\ data[k] # NoData
  /\ data' = [data EXCEPT ![k] = NoData]
  /\ invalid' = invalid \ {k} /\ lost' = lost \ {k}
  /\ UNCHANGED <<server, wire, fetch, page, moves, drawer, twice, asks, clean>>

-----------------------------------------------------------------------------
(* The history page. *)

\* log_output is the rest of the log after the offset.
Delta(from, to) == [i \in 1 .. (IF to > from THEN to - from ELSE 0) |-> from + i]
Row(r, table) == [id |-> r, live |-> table[r] \in Active]
Nothing == [id |-> NoRun, live |-> FALSE]

\* Mutant: a delta replaces the text.
MutText(v, d) == [kind |-> "text", chars |-> IF clean THEN Delta(d.from, d.length) ELSE <<>>]

\* localLog.  (What it says is not kept once it is not followed any more.)
Text(v, d) ==
  [kind |-> "text",
   chars |-> IF ~clean THEN <<>>
             ELSE (IF v = NoData THEN <<>> ELSE v.chars) \o Delta(d.from, d.length)]

\* The effect on runDetail: the text and the offset of the next fetch move on.
Appended ==
  LET d == data[selected.id]
  IN IF selected.id # NoRun /\ d # NoData /\ d # runDetail
     THEN view' = Text(view, d) /\ offset' = d.length
     ELSE UNCHANGED <<view, offset>>

\* Mutant: the drawer keeps the row it was opened with.
MutFollowed(row, list) == row

\* The effect on runs: the drawer follows the status of its row in the list.
Followed(row, list) ==
  IF row.id # NoRun /\ list.rows[row.id] # "none" THEN Row(row.id, list.rows) ELSE row

\* What a render shows of the cache.
Shows(row) ==
  /\ runs' = data[List]
  /\ runDetail' = IF row.id = NoRun THEN NoData ELSE data[row.id]
  /\ selected' = Followed(row, data[List])

Render ==
  /\ \E k \in Keys : RenderDue(k)
  /\ Shows(selected) /\ Appended
  /\ UNCHANGED <<server, wire, cache, page, moves, twice, asks, lost, clean>>

\* A query that is shown again is fetched if it is marked, or older than 30 s.
Shown(k, from, old) ==
  IF data[k] = NoData \/ k \in invalid \/ old THEN Start(fetch, k, from) ELSE fetch

EnterPage(old) ==
  /\ ~page /\ page' = TRUE
  /\ Shows(Nothing)
  /\ fetch' = Shown(List, 0, old)
  /\ UNCHANGED <<server, wire, data, invalid, moves, view, offset, twice, asks, lost, clean>>

\* What the page keeps of its own is gone with it.
LeavePage ==
  /\ Move
  /\ page /\ page' = FALSE
  /\ runs' = NoData /\ runDetail' = NoData
  /\ selected' = Nothing /\ view' = NoData /\ offset' = 0 /\ twice' = FALSE
  /\ UNCHANGED <<server, wire, cache, asks, lost, clean>>

\* A run that is opened unread, failed or not, is marked read; marking publishes nothing.
MarkedRead(row) == CASE row = "failed" -> "over" [] row = "running" -> "watched" [] OTHER -> row
Marks(S) == rows' = [r \in Runs |-> IF r \in S THEN MarkedRead(rows[r]) ELSE rows[r]]

\* A click on another run is rendered at once: the reset of the text comes first, then
\* the query starts to fetch from zero, and what the cache holds of the run is appended
\* at last.
openDrawer(r, old) ==
  /\ page /\ runs # NoData /\ runs.rows[r] # "none"
  /\ IF selected.id = r
     THEN selected' = Row(r, runs.rows) /\ UNCHANGED <<runs, runDetail, view, offset, fetch, twice, clean>>
     ELSE /\ Shows(Row(r, runs.rows))
          /\ twice' = FALSE
          /\ clean' = (clean /\ data[r] = NoData)
          /\ view' = IF data[r] = NoData THEN NoData
                     ELSE [kind |-> "text", chars |-> <<>>]
          /\ offset' = IF data[r] = NoData THEN 0 ELSE data[r].length
          /\ fetch' = Shown(r, 0, old)
  /\ \/ runs.rows[r] # "watched" /\ Marks({r}) /\ asks' = TRUE
     \/ runs.rows[r] \in {"watched", "over"} /\ UNCHANGED <<rows, asks>>
  /\ UNCHANGED <<log, alive, wire, data, invalid, page, moves, lost>>

isUnreadFailure(r) == runs.rows[r] = "failed"

\* Acknowledge, mark all read.
Acknowledge(S) ==
  /\ page /\ runs # NoData
  /\ Marks(S) /\ asks' = TRUE
  /\ UNCHANGED <<log, alive, wire, cache, page, moves, drawer, twice, lost, clean>>

markAllRead == runs # NoData /\ (\E r \in Runs : isUnreadFailure(r)) /\ Acknowledge(Runs)

Cleared(table) == [r \in Runs |-> IF table[r] \in Over THEN "none" ELSE table[r]]

\* Clear all: an id may be given again, so the text is not followed any more.
ClearAll ==
  /\ Move
  /\ page /\ runs # NoData
  /\ Cleared(rows) # rows
  /\ rows' = Cleared(rows)
  /\ asks' = TRUE
  /\ clean' = FALSE /\ view' = IF view = NoData THEN NoData ELSE [view EXCEPT !.chars = <<>>]
  /\ lost' = Lost({r \in Runs : rows'[r] # rows[r]})
  /\ UNCHANGED <<log, alive, wire, cache, page, runs, runDetail, selected, offset, twice>>

\* Any of these is answered.
Answered ==
  /\ asks /\ asks' = FALSE
  /\ Invalidate({List})
  /\ UNCHANGED <<server, wire, data, page, moves, drawer, clean>>

\* So is the cancellation of a run that was asked for in the drawer.
CancelAnswered ==
  /\ Move
  /\ selected.id # NoRun
  /\ Invalidate({List, selected.id})
  /\ UNCHANGED <<server, wire, data, page, drawer, asks, clean>>

\* Another browser marks runs read: no event is published.
OthersMark(r) ==
  /\ Move
  /\ Marks({r}) /\ rows' # rows
  /\ lost' = Lost({List, r})
  /\ UNCHANGED <<log, alive, wire, cache, page, drawer, twice, asks, clean>>

-----------------------------------------------------------------------------
Init ==
  /\ rows = [r \in Runs |-> "none"] /\ log = [r \in Runs |-> 0]
  /\ alive = [r \in Runs |-> FALSE]
  /\ stream = "open" /\ queue = <<>>
  /\ data = [k \in Keys |-> NoData] /\ invalid = {} /\ fetch = [k \in Keys |-> Idle]
  /\ page = FALSE /\ moves = 0
  /\ runs = NoData /\ runDetail = NoData
  /\ selected = Nothing /\ view = NoData /\ offset = 0 /\ twice = FALSE
  /\ asks = FALSE /\ lost = {} /\ clean = TRUE

Serving == \/ \E r \in Runs : \/ NewRun(r) \/ OthersMark(r)
                              \/ \E st \in {rows[r]} \cup Results : FlushLog(r, st)
                              \/ \E st \in Results, lines \in {0, 1} : TaskEnds(r, st, lines)
           \/ Disconnect
Fetching == \/ Connect \/ Receive
            \/ \E k \in Keys : Serve(k) \/ NotFound(k) \/ Arrive(k) \/ Fails(k) \/ Poll(k) \/ Focus(k) \/ Forget(k)
Using == \/ Render \/ LeavePage \/ ClearAll
         \/ \E old \in BOOLEAN : EnterPage(old) \/ \E r \in Runs : openDrawer(r, old)
         \/ runs # NoData /\ \E r \in Runs : isUnreadFailure(r) /\ Acknowledge({r})
         \/ markAllRead
         \/ Answered \/ CancelAnswered

Next == Serving \/ Fetching \/ Using

Spec == Init /\ [][Next]_vars

\* Timers fire and answers come in: a fetch that is given up for a new one again and
\* again gets through at some time.  What came in is rendered.
Answering(k) == SF_vars(Serve(k)) /\ SF_vars(Arrive(k)) /\ WF_vars(Poll(k))
PollingSpec == Spec /\ Answering(List) /\ WF_vars(Render)

-----------------------------------------------------------------------------
Answers(k) == IF k = List THEN [kind : {"list"}, rows : [Runs -> Status]]
              ELSE [kind : {"run"}, status : Status, from : 0 .. MaxLog, length : 0 .. MaxLog]
TypeOK ==
  /\ rows \in [Runs -> Status] /\ log \in [Runs -> 0 .. MaxLog]
  /\ alive \in [Runs -> BOOLEAN]
  /\ stream \in {"open", "closed"}
  /\ queue \in Seq(Keys) /\ Len(queue) <= MaxQueue
  /\ invalid \subseteq Keys /\ lost \subseteq Keys
  /\ \A k \in Keys :
       /\ data[k] \in {NoData} \cup Answers(k)
       /\ fetch[k] \in {Idle} \cup [kind : {"fetch"}, from : 0 .. MaxLog,
                                   got : {NoData} \cup Answers(k)]
  /\ page \in BOOLEAN /\ moves \in 0 .. MaxMoves
  /\ runs \in {NoData} \cup Answers(List)
  /\ runDetail \in {NoData} \cup UNION {Answers(r) : r \in Runs}
  /\ selected \in [id : {NoRun} \cup Runs, live : BOOLEAN]
  /\ offset \in 0 .. MaxLog
  /\ twice \in BOOLEAN /\ asks \in BOOLEAN /\ clean \in BOOLEAN

Covers(s, n) == {s[i] : i \in DOMAIN s} = 1 .. n

\* While the user goes from run to run and fetches are started, given up and answered
\* in whatever order, the text in the drawer is the beginning of the log of its run up
\* to the offset that the next fetch asks from: no part is missing or taken from
\* another run, and none is there twice, with these exceptions.  A fetch that is
\* started after an answer came in and before the effect appended it asks for the same
\* part again (twice), which then may be doubled; and the text is not followed any more
\* (clean) once a run was opened of which the cache still held an answer, a last delta
\* without its beginning, or the runs were cleared, which frees their ids.
LogIsPrefix ==
  clean /\ selected.id # NoRun =>
    IF view = NoData THEN offset = 0
    ELSE /\ Covers(view.chars, offset)
         /\ offset <= log[selected.id]
         /\ ~twice => view.chars = [i \in 1 .. offset |-> i]

\* What an answer says is so in the table.
Says(k, d) == IF k = List THEN d.rows = rows
              ELSE d.length = log[k] /\ (d.status \in Active <=> rows[k] \in Active)

\* The client will hear of it.
Announced(k) == (\E i \in DOMAIN queue : Affects(queue[i], k)) \/ (k = List /\ asks)

\* Why what is shown of a key may be out of date.
Reason(k) == RenderDue(k) \/ fetch[k] # Idle \/ Announced(k) \/ k \in lost

\* What is shown, of the list and of the status and the log of a run, differs from the
\* table only while an answer is about to be rendered, a fetch is under way or an event
\* is on its way, or for one of the reasons collected in lost: the stream was broken or
\* its queue full, another browser changed what publishes no event, a fetch failed, or
\* an event came when a fetch that is not restarted (the first one, or one of a query
\* that is not shown) was already answered by the server.
StaleHasReason ==
  \A k \in Keys : ActiveKey(k) /\ Rendered(k) # NoData => Says(k, Rendered(k)) \/ Reason(k)

\* The chip of the drawer shows the status of the details, and its live mark, with the
\* polling, goes by the copy of the row that was clicked: that one of them says the run
\* is at work and the other that it is over passes, or has one of the reasons above.
DrawerAgrees ==
  LET id == selected.id
  IN id # NoRun /\ runDetail # NoData /\ runs.rows[id] # "none" =>
       (runDetail.status \in Active <=> isLive) \/ Reason(List) \/ Reason(id)

\* Polling heals whatever was lost: the list that is shown is the table in the end.
ListConverges == []<>(page => runs # NoData /\ Says(List, runs))

\* "Every failed run sets runs.alert_read = false": a run that fails is an unread alert.
FailureRaisesAlert ==
  [][\A r \in Runs, lines \in {0, 1} :
       TaskEnds(r, "failed", lines) /\ rows[r] \in Active => rows'[r] = "failed"]_vars

-----------------------------------------------------------------------------
(* The inductive invariant behind the properties above. *)

CacheShape ==
  /\ data = [k \in Keys |-> data[k]] /\ fetch = [k \in Keys |-> fetch[k]]
  /\ stream = "closed" => queue = <<>>
  /\ selected.id # NoRun => runs # NoData
  /\ runs # NoData => page /\ data[List] # NoData
  /\ runDetail # NoData => selected.id # NoRun /\ data[selected.id] # NoData

\* The copy that the drawer keeps of its row is live as the row is.
RowFollowed == selected.id # NoRun /\ runs.rows[selected.id] # "none" =>
                 selected = Row(selected.id, runs.rows)

\* What is on its way to the cache is so, or the client will hear of it, or never; what
\* is in the cache besides may wait for a fetch, or for being shown.
Excused(k) == Announced(k) \/ k \in lost
AnswerExcused(k) ==
  /\ fetch[k] # Idle /\ fetch[k].got # NoData => Says(k, fetch[k].got) \/ Excused(k)
  /\ data[k] # NoData => \/ Says(k, data[k]) \/ Excused(k) \/ fetch[k] # Idle
                         \/ k \in invalid /\ ~ActiveKey(k)

\* A log that is followed only grows, and so do the answers about it; the first fetch of
\* a run starts at its beginning, and no fetch of the run that is shown after the end of
\* the text.
AnswersGrow(r) ==
  /\ rows[r] = "none" => log[r] = 0
  /\ data[r] # NoData => data[r].length <= log[r]
  /\ fetch[r] # Idle =>
       /\ data[r] = NoData => fetch[r].from = 0
       /\ fetch[r].from <= log[r]
       /\ fetch[r].got # NoData => /\ fetch[r].got.from = fetch[r].from
                                   /\ fetch[r].got.length <= log[r]
                                   /\ data[r] # NoData => data[r].length <= fetch[r].got.length
TextGrows(r) ==
  /\ view = NoData <=> runDetail = NoData
  /\ view # NoData => view.chars \in Seq(Nat)
  /\ runDetail # NoData => runDetail.length = offset
  /\ data[r] # NoData => data[r].from <= offset /\ offset <= data[r].length
  /\ fetch[r] # Idle => fetch[r].from <= offset
  /\ ~twice => /\ data[r] # runDetail => data[r].from = offset
               /\ fetch[r] # Idle => fetch[r].from = offset /\ data[r] = runDetail

LogFollowed(r) == AnswersGrow(r) /\ (selected.id = r => TextGrows(r))

IInv == /\ TypeOK /\ CacheShape /\ RowFollowed /\ LogIsPrefix
        /\ \A k \in Keys : AnswerExcused(k)
        /\ clean => \A r \in Runs : LogFollowed(r)
=============================================================================
