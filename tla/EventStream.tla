----------------------------- MODULE EventStream -----------------------------
(***************************************************************************)
(* The progress events of one backtest, from the worker to the page.       *)
(*                                                                         *)
(* The worker appends events to the job_events table, which keeps the last *)
(* Keep of them (tasks._append_event).  Three readers bring them to the    *)
(* page: the WebSocket loop of the server (routers/ws), the poll of the    *)
(* application shell and the poll of the monitor page (queries.ts), which  *)
(* share one cursor.  The page's store applies every event it is given     *)
(* unless it has seen its _idx (useJobStore), and reconciles itself with   *)
(* the list of active jobs and with the job's row.                         *)
(*                                                                         *)
(* Events are their event_index.  Event 0 is job_started, event FinalIndex *)
(* is job_complete or job_failed (either ends the job), the others report  *)
(* progress.  Each append, trim, read and count is a transaction of its    *)
(* own.  The Redis copy is a fast path nobody reads here; the in-memory    *)
(* list is read only when SQLite fails, which is left out.                 *)
(***************************************************************************)
EXTENDS Integers, Sequences, FiniteSets

CONSTANTS
  FinalIndex,  \* event_index of the final event
  Keep,        \* _JOB_EVENTS_MAX
  MaxDrops,    \* bound: connections lost
  MaxReloads,  \* bound: reloads of the page
  MonitorOpen  \* the monitor page is mounted and shows the job

EventStreamAssumption ==
  /\ FinalIndex \in Nat /\ Keep \in Nat \ {0}
  /\ {MaxDrops, MaxReloads} \subseteq Nat
  /\ MonitorOpen \in BOOLEAN

ASSUME Indexed == EventStreamAssumption

Pollers   == {"shell"} \cup (IF MonitorOpen THEN {"monitor"} ELSE {})
Events    == 0..FinalIndex
WireBound == FinalIndex + 1   \* bound: messages in flight on the socket

VARIABLES
  base, next, \* the table holds event_index base .. next - 1
  row,        \* the job's row: "running", then "ended"
  ws,         \* the server's end: [phase, cursor, done, idle]
  sent,       \* history: what this connection was sent
  wire,       \* messages on their way to the page
  job,        \* the page's job: "none", "stale", "running" or "ended"
  seen,       \* _processedEventIds of the job
  shown,      \* history: how often each event was applied to this job
  due,        \* activeJobs changed since the effects last ran
  connected,  \* connectedRef: the id was running when the effects ran
  listening,  \* the socket has its subscriber
  cursor,     \* _progressCursors
  synced,     \* syncedCursorRef: the shell's first poll was answered
  poll,       \* requests of the pollers
  listed, rest, \* the last active list and the last row the page read
  drops, reloads

table  == <<base, next, row>>
socket == <<ws, sent, wire>>
store  == <<job, seen, shown>>
hook   == <<connected, listening>>
rests  == <<cursor, synced, poll>>
polled == <<listed, rest>>
bounds == <<drops, reloads>>
eventVars == <<table, socket, store, due, hook, rests, polled, bounds>>

NoSocket == [phase |-> "none", cursor |-> 0, done |-> FALSE, idle |-> 0]
Idle     == [at |-> "idle", got |-> {}, skip |-> FALSE]
Stored   == base..(next - 1)
From(c)  == {i \in Stored : i >= c}

\* startJob has put the job in the store when the submission was answered
EventInit ==
  /\ base = 0 /\ next = 0 /\ row = "running"
  /\ ws = NoSocket /\ sent = {} /\ wire = <<>>
  /\ job = "running" /\ seen = {} /\ shown = [i \in Events |-> 0]
  /\ due = TRUE
  /\ connected = FALSE /\ listening = FALSE
  /\ cursor = 0 /\ synced = FALSE /\ poll = [p \in Pollers |-> Idle]
  /\ listed = "no" /\ rest = "none"
  /\ drops = 0 /\ reloads = 0
-----------------------------------------------------------------------------
(* The worker.                                                             *)

\* append_job_event: MAX(event_index) + 1.  The final event follows the row.
AppendEvent ==
  /\ next <= FinalIndex
  /\ next - base <= Keep
  /\ next = FinalIndex => row = "ended"
  /\ next' = next + 1
  /\ UNCHANGED <<base, row, socket, store, due, hook, rests, polled, bounds>>

\* trim_job_events, a transaction of its own
Trim ==
  /\ next - base > Keep
  /\ base' = next - Keep
  /\ UNCHANGED <<next, row, socket, store, due, hook, rests, polled, bounds>>

EndRow ==
  /\ row = "running" /\ next = FinalIndex
  /\ row' = "ended"
  /\ UNCHANGED <<base, next, socket, store, due, hook, rests, polled, bounds>>
-----------------------------------------------------------------------------
(* The server's end of the socket.                                         *)

Advance(w, S) == [w EXCEPT !.cursor = @ + Cardinality(S), !.idle = 0,
                           !.done = @ \/ FinalIndex \in S]

Rest(w) == [w EXCEPT !.idle = IF @ < 2 THEN @ + 1 ELSE @,
                     !.phase = IF w.done /\ w.idle >= 1 THEN "closed" ELSE @]

\* the last n events of the table, as they are read: in the order of their indexes
InOrder(n) == [k \in 1..n |-> next - n + k - 1]

\* one turn of _ws_polling_loop
WsRound ==
  /\ ws.phase = "open" /\ Len(wire) < WireBound
  /\ LET S == From(ws.cursor) IN
     IF S # {}
     THEN /\ ws' = Advance(ws, S)
          /\ wire' = wire \o InOrder(Cardinality(S))
          /\ sent' = sent \cup S
     ELSE /\ ws' = Rest(ws)
          /\ UNCHANGED <<wire, sent>>
  /\ UNCHANGED <<table, store, due, hook, rests, polled, bounds>>
-----------------------------------------------------------------------------
(* The page's store: handleWsEvent for the events S, in their order.       *)

\* slip: the index is looked up and never remembered
Forgetful(S) == seen
Remember(S) == seen \cup S

StatusAfter(S) ==
  IF FinalIndex \in S THEN row
  ELSE IF 0 \in S \/ (S # {} /\ job = "none") THEN "running" ELSE job

Apply(S) ==
  LET new == S \ seen IN
  /\ seen' = Remember(S)
  /\ job' = StatusAfter(new)
  /\ shown' = [i \in Events |-> IF i \in new /\ shown[i] < 2 THEN shown[i] + 1
                                                            ELSE shown[i]]
  /\ due' = (due \/ new # {})

\* removeJob forgets the job and the indexes it has seen
RemoveJob ==
  /\ job' = "none" /\ seen' = {} /\ shown' = [i \in Events |-> 0]
  /\ due' = TRUE
-----------------------------------------------------------------------------
(* The page's socket.                                                      *)

Open == /\ ws' = [NoSocket EXCEPT !.phase = "open"]
        /\ wire' = <<>> /\ sent' = {}

Shut == /\ ws' = NoSocket /\ wire' = <<>> /\ sent' = {}

\* onmessage: without a subscriber the message is dropped; the subscriber
\* marks the connection terminal on the final event
Receive ==
  /\ wire # <<>>
  /\ IF listening THEN Apply({Head(wire)}) ELSE UNCHANGED <<store, due>>
  /\ IF listening /\ Head(wire) = FinalIndex
     THEN Shut
     ELSE wire' = Tail(wire) /\ UNCHANGED <<ws, sent>>
  /\ UNCHANGED <<table, hook, rests, polled, bounds>>

\* the socket breaks and doConnect makes a new one; subscribers stay
Reconnect ==
  /\ ws.phase = "open" /\ drops < MaxDrops
  /\ drops' = drops + 1
  /\ Open
  /\ UNCHANGED <<table, store, due, hook, rests, polled, reloads>>

\* the effect of useBacktestWebSocket: its clean-up unsubscribes, and only an
\* id that was not connected is subscribed again
Effects ==
  /\ due /\ due' = FALSE
  /\ connected' = (job = "running")
  /\ listening' = (job = "running" /\ ~connected)
  /\ IF job = "running"
     THEN IF connected THEN UNCHANGED socket ELSE Open
     ELSE IF connected THEN Shut ELSE UNCHANGED socket
  /\ UNCHANGED <<table, store, rests, polled, bounds>>
-----------------------------------------------------------------------------
(* The polls of GET /backtest/{id}/events.                                 *)

\* the shell's first poll of a job only moves the cursor
Ask(p) ==
  /\ poll[p].at = "idle"
  /\ IF p = "shell" THEN connected ELSE job = "running"
  /\ poll' = [poll EXCEPT ![p] =
       [at |-> "read", got |-> From(cursor),
        skip |-> p = "shell" /\ ~synced /\ cursor = 0]]
  /\ UNCHANGED <<table, socket, store, due, hook, cursor, synced, polled, bounds>>

\* get_job_event_count: the events are counted after they were read
Total(q) == next - base

Answer(p) ==
  /\ poll[p].at = "read"
  /\ LET q == poll[p] IN
     IF q.skip
     THEN /\ cursor' = Total(q) /\ synced' = TRUE
          /\ UNCHANGED <<store, due>>
     ELSE /\ IF q.got = {} THEN UNCHANGED <<store, due, cursor>>
                           ELSE Apply(q.got) /\ cursor' = Total(q)
          /\ UNCHANGED synced
  /\ poll' = [poll EXCEPT ![p] = Idle]
  /\ UNCHANGED <<table, socket, hook, polled, bounds>>
-----------------------------------------------------------------------------
(* Reconciliation with the server.                                         *)

InList == IF row = "running" THEN "yes" ELSE "no"

\* useActiveBacktests; the monitor's effect runs when the list changes and
\* removes a job that is not in it and has not ended
FetchActive ==
  /\ listed # InList
  /\ listed' = InList
  /\ IF MonitorOpen /\ InList = "no" /\ job \in {"running", "stale"}
     THEN RemoveJob ELSE UNCHANGED <<store, due>>
  /\ UNCHANGED <<table, socket, hook, rests, rest, bounds>>

\* ensureJob: a listed job is in the store and is not stale
EnsureJob ==
  /\ listed = "yes" /\ job \in {"none", "stale"}
  /\ job' = "running" /\ due' = TRUE
  /\ UNCHANGED <<table, socket, seen, shown, hook, rests, polled, bounds>>

\* the monitor applies an end it reads in the row as an event without _idx
FetchStatus ==
  /\ MonitorOpen /\ rest # row
  /\ rest' = row
  /\ IF row = "ended" /\ job \notin {"none", row}
     THEN job' = row /\ due' = TRUE ELSE UNCHANGED <<job, due>>
  /\ UNCHANGED <<table, socket, seen, shown, hook, rests, listed, bounds>>

\* the page is loaded again: the store comes back from localStorage with its
\* unfinished job stale, everything kept in modules and refs starts over
Reload ==
  /\ reloads < MaxReloads /\ reloads' = reloads + 1
  /\ job' = IF job = "running" THEN "stale" ELSE job
  /\ seen' = {} /\ UNCHANGED shown
  /\ Shut /\ connected' = FALSE /\ listening' = FALSE
  /\ cursor' = 0 /\ synced' = FALSE /\ poll' = [p \in Pollers |-> Idle]
  /\ listed' = "none" /\ rest' = "none" /\ due' = TRUE
  /\ UNCHANGED <<table, drops>>
-----------------------------------------------------------------------------
PollStep(p) == Ask(p) \/ Answer(p)
Page == Receive \/ Effects \/ FetchActive \/ EnsureJob \/ FetchStatus
EventNext ==
  \/ AppendEvent \/ Trim \/ EndRow
  \/ WsRound \/ Page \/ Reconnect \/ Reload
  \/ \E p \in Pollers : PollStep(p)

EventSpec == EventInit /\ [][EventNext]_eventVars

\* The worker works, the loop sleeps half a second, the polls are timers.
EventFairSpec ==
  /\ EventSpec
  /\ WF_eventVars(AppendEvent) /\ WF_eventVars(Trim) /\ WF_eventVars(EndRow)
  /\ WF_eventVars(WsRound) /\ WF_eventVars(Receive) /\ WF_eventVars(Effects)
  /\ WF_eventVars(FetchActive) /\ WF_eventVars(EnsureJob) /\ WF_eventVars(FetchStatus)
  /\ \A p \in Pollers : WF_eventVars(PollStep(p))
-----------------------------------------------------------------------------
\* Every variable has its type, the table never holds more than one event
\* above Keep, and the shared cursor stays within the indexes.
EventTypeOK ==
  /\ base \in 0..next /\ next \in 0..(FinalIndex + 1) /\ next - base <= Keep + 1
  /\ row \in {"running", "ended"}
  /\ ws \in [phase : {"none", "open", "closed"}, cursor : Nat,
             done : BOOLEAN, idle : 0..2]
  /\ sent \subseteq Events /\ wire \in Seq(Events)
  /\ job \in {"none", "stale", "running", "ended"}
  /\ seen \subseteq Events /\ shown \in [Events -> 0..2]
  /\ {due, connected, listening, synced} \subseteq BOOLEAN
  /\ listed \in {"none", "yes", "no"}
  /\ cursor \in 0..(FinalIndex + 1)
  /\ poll \in [Pollers -> [at : {"idle", "read"}, got : SUBSET Events, skip : BOOLEAN]]
  /\ rest \in {"none", "running", "ended"}
  /\ drops \in 0..MaxDrops /\ reloads \in 0..MaxReloads

\* What the loop of the socket has passed it has sent: as long as an event is
\* in the table and below the cursor, this connection was given it.  The
\* cursor counts messages, not indexes, and a trim must not make it skip.
SocketSkipsNothing ==
  \A i \in Stored : ws.phase # "none" /\ i < ws.cursor => i \in sent

\* However the socket and the two polls overlap, repeat and fall behind each
\* other, an event is applied to a job of the store at most once, until the
\* page is loaded again.
AppliedOnce == reloads = 0 => \A i \in Events : shown[i] <= 1

\* Nothing is skipped by the socket and nothing shown twice.
ShownOnce == SocketSkipsNothing /\ AppliedOnce

\* When the job has ended and its final event is written, the page comes to
\* show the end (a lost socket falls back to the polls, which "merge any
\* missed updates").
EndIsShown == (next > FinalIndex) ~> (job = "ended")

\* The loop of a socket that was given the final event ends.
LoopEnds == [](ws.done => <>(ws.phase # "open"))

\* A job whose row has ended does not stay running on the page.
NoPhantom == (row = "ended") ~> [](job # "running")
=============================================================================
