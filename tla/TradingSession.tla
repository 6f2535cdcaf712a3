--------------------------- MODULE TradingSession ---------------------------
(***************************************************************************)
(* A trading session of the API: the session record in memory, the task    *)
(* that waits for bars and feeds the engine, the stop and emergency        *)
(* endpoints, the WebSocket with its queue, the page behind it, the row in *)
(* the database, and a restart of the server.                              *)
(*                                                                         *)
(* asyncio runs one step between two awaits, and no body under the         *)
(* session's lock awaits, so each action below is one such step.  The      *)
(* engines are in PaperEngine, LiveEngine and CommitteeEngine; here one    *)
(* only holds a position or not, counts closed trades, and may kill.       *)
(***************************************************************************)
EXTENDS Naturals, Sequences

CONSTANTS
  Kinds,      \* the kinds of session there may be
  MaxQueue,   \* messages a WebSocket may have waiting
  MaxTrades   \* trades of a session

SessionAssumption ==
  Kinds \subseteq {"paper", "live", "committee"} /\ MaxQueue \in Nat /\ MaxTrades \in Nat

VARIABLES
  kind,     \* whose endpoints and loop: "paper", "live" or "committee"
  up,       \* the server process runs
  sess,     \* the record: status ("none" before the start) and _kill_event
  task,     \* the loop: where it stands, and whether a cancel is under way
  engine,   \* "on", "stopped" or "killed"; an open position; closed trades
  ws,       \* the WebSocket handler: "off", "on", or "closed" by the server
  queue,    \* its queue
  page,     \* what the page shows: running, and trades in its journal
  row       \* the row of trading_sessions: its status, "none" if there is none

sessionVars == <<kind, up, sess, task, engine, ws, queue, page, row>>

NoSession == [status |-> "none", killEvent |-> FALSE]
NoTask    == [at |-> "none", cancelled |-> FALSE]
NewEngine == [state |-> "on", open |-> FALSE, trades |-> 0]

SessionInit ==
  /\ kind \in Kinds /\ up = TRUE /\ sess = NoSession /\ task = NoTask /\ engine = NewEngine
  /\ ws = "off" /\ queue = <<>> /\ page = [running |-> FALSE, trades |-> 0] /\ row = "none"

---------------------------------------------------------------------------
(* Messages.  A message has an event, or none, and events nested in it.    *)

Msg(e, subs) == [event |-> e, subs |-> subs]

\* A message, and each of its nested events as a message of its own.
Flattened(msg) == <<msg>> \o [i \in DOMAIN msg.subs |-> Msg(msg.subs[i], <<>>)]

\* put_nowait on the queue of every open WebSocket.
Put(msgs) == queue' = IF ws = "on" THEN queue \o msgs ELSE queue
Broadcast(msg) == Put(Flattened(msg))
BroadcastStop  == Put(<<Msg("stopped", <<>>)>>)

Has(msg, e) == e \in {msg.subs[i] : i \in DOMAIN msg.subs}

\* The page of a paper session reads paper events, which know no "kill"; so
\* does that of a committee deployed in paper mode.
ReadsKill == kind = "live"

\* The page after a message.
Shown(msg) ==
  [page EXCEPT !.running = @ /\ msg.event # "stopped" /\ ~(msg.event = "kill" /\ ReadsKill),
               !.trades = @ + IF msg.event = "closed" THEN 1
                              ELSE IF msg.event = "signal" /\ Has(msg, "closed") THEN 1 ELSE 0]

---------------------------------------------------------------------------
(* Start.                                                                  *)

Register ==
  /\ up /\ sess.status = "none"
  /\ sess' = [status |-> "running", killEvent |-> FALSE]
  /\ task' = [at |-> "head", cancelled |-> FALSE]
  /\ engine' = NewEngine
  /\ page' = [running |-> TRUE, trades |-> 0]
  /\ UNCHANGED <<up, ws, queue>>

\* The session, its task and its row; a model and, for live, the account
\* were obtained before, or the request failed.
StartPaper == kind = "paper" /\ Register /\ row' = "running"

StartLive == kind = "live" /\ Register /\ row' = "running"

\* The row of a committee names committee_name, which is not defined: the
\* NameError is logged and the session goes on without a row.
StartCommittee == kind = "committee" /\ Register /\ row' = row

---------------------------------------------------------------------------
(* The loop.                                                               *)

At(p) == up /\ task.at = p

\* After the loop: the status, and the "stopped" message.  A cancel that
\* arrives while the finally clause awaits may be swallowed there.
Finish ==
  /\ At("tail")
  /\ task' = NoTask
  /\ sess' = [sess EXCEPT !.status = "stopped"]
  /\ BroadcastStop
  /\ UNCHANGED <<up, engine, ws, page, row>>

\* CancelledError at an await: the finally clause runs and nothing after it.
Cancelled ==
  /\ up /\ task.at \in {"head", "read", "tail"} /\ task.cancelled
  /\ task' = NoTask
  /\ UNCHANGED <<up, sess, engine, ws, queue, page, row>>

\* slip: the wait for a bar is not interrupted by its time-out
WakeOnBar ==
  /\ At("head") /\ ~task.cancelled /\ ~sess.killEvent
  /\ task' = [task EXCEPT !.at = "read"]
  /\ UNCHANGED <<up, sess, engine, ws, queue, page, row>>

\* The wait ends, by a bar or by its time-out, and the loop looks at the kill
\* event: on to the candles and the prediction, or out.
Wake ==
  /\ At("head") /\ ~task.cancelled
  /\ task' = [task EXCEPT !.at = IF sess.killEvent THEN "tail" ELSE "read"]
  /\ UNCHANGED <<up, sess, engine, ws, queue, page, row>>

\* Nothing to read: no candles, or for a committee an error, which is logged.
Nothing ==
  /\ At("read") /\ ~task.cancelled
  /\ task' = [task EXCEPT !.at = "head"]
  /\ UNCHANGED <<up, sess, engine, ws, queue, page, row>>

\* An error ends the loop of a paper or live session: finally, status, message.
Fail ==
  /\ At("read") /\ ~task.cancelled /\ kind # "committee"
  /\ task' = [task EXCEPT !.at = "tail"]
  /\ UNCHANGED <<up, sess, engine, ws, queue, page, row>>

\* What process_signal may do to the engine, and what it answers.
Answers ==
  LET on == engine.state = "on"
      closed == [engine EXCEPT !.open = FALSE, !.trades = @ + 1]
      more == engine.open /\ engine.trades < MaxTrades
  IN {[after |-> engine, msg |-> Msg("signal", <<>>)]}
     \cup (IF on /\ ~engine.open
           THEN {[after |-> [engine EXCEPT !.open = TRUE], msg |-> Msg("signal", <<"opened">>)]} ELSE {})
     \cup (IF on /\ more THEN {[after |-> closed, msg |-> Msg("signal", <<"closed">>)]} ELSE {})
     \cup (IF kind = "live" /\ on /\ more
           THEN {[after |-> [closed EXCEPT !.state = "tripped"], msg |-> Msg("signal", <<"closedKilled">>)]}
           ELSE {})
     \cup (IF kind # "paper"
           THEN {[after |-> [engine EXCEPT !.state = "killed"], msg |-> Msg("kill", <<>>)]} ELSE {})
     \cup (IF kind # "paper" /\ on /\ more
           THEN {[after |-> [closed EXCEPT !.state = "killed"], msg |-> Msg("kill", <<"closed">>)]}
           ELSE {})

\* Under the lock: the engine, the message, and the kill event if it killed.
AfterSignal(a) ==
  /\ engine' = a.after
  /\ Broadcast(a.msg)
  /\ sess' = [sess EXCEPT !.killEvent = @ \/ a.msg.event = "kill"]
  /\ task' = [task EXCEPT !.at = "head"]

\* Under the lock, first: the kill event.
Signal ==
  /\ At("read") /\ ~task.cancelled
  /\ \/ /\ sess.killEvent
        /\ task' = [task EXCEPT !.at = "tail"] /\ UNCHANGED <<sess, engine, queue>>
     \/ /\ ~sess.killEvent /\ Len(queue) < MaxQueue
        /\ \E a \in Answers : AfterSignal(a)
  /\ UNCHANGED <<up, ws, page, row>>

---------------------------------------------------------------------------
(* The endpoints.                                                          *)

\* The kill event, and the cancellation of the task.
Halt ==
  /\ sess' = [sess EXCEPT !.killEvent = TRUE]
  /\ task' = IF task.at = "none" THEN task ELSE [task EXCEPT !.cancelled = TRUE]

\* The page that asked closes its socket and shows the session stopped,
\* whatever the answer; a request from elsewhere tells this page nothing.
AskedBy(mine) ==
  IF mine THEN page' = [page EXCEPT !.running = FALSE] /\ ws' = "off" /\ queue' = <<>>
          ELSE UNCHANGED <<page, ws>>

\* slip: a position survives the stop
SettledLate == [engine EXCEPT !.state = "stopped"]

\* The engine closes what it holds and is stopped.
Settled ==
  [engine EXCEPT !.state = IF @ = "killed" THEN @ ELSE "stopped", !.open = FALSE,
                 !.trades = IF engine.open /\ kind = "paper" THEN @ + 1 ELSE @]

StopPaper(mine) ==
  /\ up /\ kind = "paper" /\ sess.status # "none"
  /\ Halt /\ AskedBy(mine)
  /\ engine' = Settled
  /\ row' = "stopped"
  /\ mine \/ (Len(queue) < MaxQueue /\ Broadcast(Msg("none", IF engine.open THEN <<"closed">> ELSE <<>>)))
  /\ UNCHANGED up

\* A committee session is stopped here too, and its engine does not take the
\* argument: the request fails with the loop cancelled and the engine on.
StopLive(mine) ==
  /\ up /\ kind # "paper" /\ sess.status # "none"
  /\ Halt /\ AskedBy(mine)
  /\ IF kind = "live" THEN engine' = Settled /\ row' = "stopped" ELSE UNCHANGED <<engine, row>>
  /\ mine \/ (~mine /\ UNCHANGED queue)
  /\ UNCHANGED up

Emergency(mine) ==
  /\ up /\ kind # "paper" /\ sess.status # "none"
  /\ Halt /\ AskedBy(mine)
  /\ engine' = [engine EXCEPT !.state = "killed", !.open = @ /\ kind = "committee"]
  /\ mine \/ (Len(queue) < MaxQueue /\ Put(<<Msg("kill", <<>>)>>))
  /\ UNCHANGED <<up, row>>

---------------------------------------------------------------------------
(* The WebSocket.                                                          *)

Connect ==
  /\ up /\ ws = "off" /\ page.running /\ sess.status # "none"
  /\ ws' = IF sess.killEvent THEN "closed" ELSE "on"
  /\ queue' = <<>>
  /\ UNCHANGED <<up, sess, task, engine, page, row>>

\* A price of the stream, which the page ignores.
StreamTick ==
  /\ up /\ task.at \in {"head", "read"} /\ ~sess.killEvent /\ ws = "on" /\ Len(queue) < MaxQueue
  /\ Put(<<Msg("tick", <<>>)>>)
  /\ UNCHANGED <<up, sess, task, engine, ws, page, row>>

\* The loop of the handler goes on while the kill event is not set.
HandlerLooks == ws' = IF sess.killEvent THEN "closed" ELSE "on"

Deliver ==
  /\ up /\ ws = "on" /\ queue # <<>>
  /\ page' = Shown(Head(queue)) /\ queue' = Tail(queue)
  /\ HandlerLooks
  /\ UNCHANGED <<up, sess, task, engine, row>>

\* Nothing for thirty seconds: a heartbeat.
Heartbeat ==
  /\ up /\ ws = "on" /\ queue = <<>> /\ sess.killEvent
  /\ HandlerLooks
  /\ UNCHANGED <<up, sess, task, engine, queue, page, row>>

---------------------------------------------------------------------------
(* The server goes down and comes up: rows still running are orphaned.     *)

Crash ==
  /\ up /\ sess.status # "none"
  /\ up' = FALSE /\ sess' = NoSession /\ task' = NoTask /\ engine' = NewEngine
  /\ ws' = "off" /\ queue' = <<>>
  /\ UNCHANGED <<page, row>>

Startup ==
  /\ ~up /\ up' = TRUE
  /\ row' = IF row = "running" THEN "orphaned" ELSE row
  /\ UNCHANGED <<sess, task, engine, ws, queue, page>>

---------------------------------------------------------------------------
Loop == Wake \/ Nothing \/ Fail \/ Signal \/ Cancelled \/ Finish

SessionNext ==
  /\ UNCHANGED kind
  /\ \/ StartPaper \/ StartLive \/ StartCommittee
     \/ Loop
     \/ \E mine \in BOOLEAN : StopPaper(mine) \/ StopLive(mine) \/ Emergency(mine)
     \/ Connect \/ StreamTick \/ Deliver \/ Heartbeat
     \/ Crash \/ Startup

SessionSpec == SessionInit /\ [][SessionNext]_sessionVars

---------------------------------------------------------------------------
(* Properties.                                                             *)

\* The types of the state; a task exists only with its session.
SessionTypeOK ==
  /\ kind \in Kinds
  /\ up \in BOOLEAN
  /\ sess \in [status : {"none", "running", "stopped"}, killEvent : BOOLEAN]
  /\ task \in [at : {"none", "head", "read", "tail"}, cancelled : BOOLEAN]
  /\ engine \in [state : {"on", "tripped", "stopped", "killed"}, open : BOOLEAN, trades : 0..MaxTrades + 1]
  /\ ws \in {"off", "on", "closed"} /\ Len(queue) <= MaxQueue + 2
  /\ page \in [running : BOOLEAN, trades : 0..2 * MaxTrades + 2]
  /\ row \in {"none", "running", "stopped", "orphaned"}
  /\ (task.at # "none" => sess.status = "running")

\* A row that says running belongs to a session this process has, and whoever
\* stopped it left a row that says so.
NoGhostRow ==
  up => /\ (row = "running" => sess.status # "none")
        /\ (row = "stopped" => engine.state # "on" \/ sess.status = "none")

\* A position is not left open by a stop that was answered.
StopSettles == engine.state = "stopped" => ~engine.open

\* Once the engine is stopped no answer of it to a signal is queued for the
\* page, and once the kill event is set, by whomever, nothing is opened any
\* more, although a signal may be half way through the loop.
QuietAfterStop ==
  /\ engine.state = "stopped" /\ up /\ up' =>
       \A i \in (Len(queue) + 1)..Len(queue') : queue'[i].event # "signal"
  /\ sess.killEvent /\ engine'.open => engine.open

\* Whoever set the kill event of a paper or live session, an endpoint or the
\* answer to a signal, has turned its engine off.
KilledIsOff == sess.killEvent /\ kind # "committee" => engine.state # "on"

\* What rows, stops and kill events of a session promise.
SessionHolds == [](NoGhostRow /\ StopSettles /\ KilledIsOff) /\ [][QuietAfterStop]_sessionVars

\* Whatever set the kill event, the loop of the session comes to an end, unless
\* the server goes down first.
LoopEnds == sess.killEvent ~> task.at = "none"

\* A session whose loop has ended is not reported as running.
EndedIsNotRunning == up /\ sess.status # "none" /\ task.at = "none" => sess.status = "stopped"

\* The page has been told of the end before its WebSocket is closed.
EndIsTold == ws = "closed" => ~page.running

\* The page shows a closed trade once.
TradeShownOnce == sess.status # "none" => page.trades <= engine.trades

\* A stop of a session stops its engine.
StopStopsEngine == sess.killEvent => engine.state # "on"

=============================================================================
