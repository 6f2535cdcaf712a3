---------------------------- MODULE LiveEngine ----------------------------
(***************************************************************************)
(* trading/live_engine.py with the broker behind trading/oanda_client.py:  *)
(* one live session, from start() to stop() or the emergency button.       *)
(* Prices are abstracted: a close makes one of Pnls, a stop level is hit   *)
(* or not.  A call to the broker is answered, fails, or (in Faults) takes  *)
(* effect although the answer is lost.  The broker also closes on its own  *)
(* when the stop that came with the order is reached.                      *)
(* Sizes are in ExecutionModels; every order here has Cfg.size lots.       *)
(***************************************************************************)
EXTENDS RiskControls, FiniteSets

CONSTANTS Sessions,   \* the sessions that may be started, see Settings
          Pnls        \* what a closed trade can make

\* A session has its configuration, the calls to the broker that may go wrong
\* in it, and bounds on the clock and on signal_count.
Settings ==
  [cfg : [enabled : BOOLEAN, equity : Int, size : Int, stops : BOOLEAN,
          maxPosition : Int, maxDaily : Int, maxHourly : Nat, cooldown : Int, reversal : Int,
          useDd : BOOLEAN, maxDd : Int, useDaily : BOOLEAN, maxDailyLoss : Int,
          useConsec : BOOLEAN, maxLosses : Int, useRolling : BOOLEAN, rolling : Nat,
          minSharpe : Int, minWinRate : Int, minProfitFactor : Int,
          heartbeat : Int, lifetime : Int, maxErrors : Int, minEquity : Int],
   faults : SUBSET {"position", "close", "account", "order", "lost"}, time : Nat, signals : Nat]

ASSUME LiveAssumption ==
  /\ Sessions \subseteq Settings /\ Pnls \subseteq Int
  /\ HourTicks \in Nat \ {0} /\ WindowCap \in Nat \ {0}

VARIABLES session,  \* the session that was started
          st,       \* the engine: [pos, units, dir, levels, running, killed, signals]
          rs,       \* its risk state
          brk,      \* the broker's account: [units, cash], units signed
          stopped, now,
          booked,   \* PnL in the journal
          order     \* history: the last order, [dir, at, flat, hourly]

vars == <<session, st, rs, brk, stopped, now, booked, order>>

Cfg == session.cfg
Faults == session.faults

Units == IF Cfg.size > 1 THEN Cfg.size ELSE 1

Init ==
  /\ session \in Sessions
  /\ st = [pos |-> 0, units |-> 0, dir |-> 0, levels |-> FALSE, running |-> TRUE, killed |-> FALSE,
           signals |-> 0]
  /\ rs = NewSessionState(Cfg) /\ brk = [units |-> 0, cash |-> Cfg.equity]
  /\ stopped = FALSE /\ now = 0 /\ booked = 0
  /\ order = [dir |-> 0, at |-> Never, flat |-> FALSE, hourly |-> 0]

Tick == now < session.time /\ now' = now + 1 /\ UNCHANGED <<session, st, rs, brk, stopped, booked, order>>

\* The stop or target at the broker is reached.
BrokerStops(pnl) ==
  /\ Cfg.stops /\ brk.units # 0
  /\ brk' = [units |-> 0, cash |-> brk.cash + pnl]
  /\ UNCHANGED <<session, st, rs, stopped, now, booked, order>>

---------------------------------------------------------------------------
(* Calls.  The world w = [st, rs, brk, booked, order] is what a signal     *)
(* changes.                                                                *)

CloseAnswers ==
  {a \in {"closed", "unknown", "refused", "lost"} :
     \/ a = "closed" /\ brk.units # 0
     \/ a = "unknown" /\ "position" \in Faults
     \/ a = "refused" /\ ("close" \in Faults \/ brk.units = 0)
     \/ a = "lost" /\ "lost" \in Faults /\ brk.units # 0}

OrderAnswers == {"filled"} \cup (Faults \cap {"order", "lost"})
AccountAnswers == {"ok"} \cup (Faults \cap {"account"})

Flat(w) == [w EXCEPT !.st = [@ EXCEPT !.pos = 0, !.units = 0]]

\* slip: the position is closed on the engine's side only
CloseForgotten(w, a, pnl) == w

\* _close_position: a failed look-up reads as flat, a failed close is recorded,
\* and only an answered close is booked and monitored.
ClosePosition(w, a, pnl) ==
  LET r == AfterTrade(Cfg, RecordApiSuccess(w.rs), pnl)
      gone == [units |-> 0, cash |-> w.brk.cash + pnl]
  IN CASE a = "closed"  -> [w EXCEPT !.rs = r, !.brk = gone, !.booked = @ + pnl,
                                     !.st.killed = @ \/ Monitors(Cfg, r) # {}]
       [] a = "refused" -> [w EXCEPT !.rs = RecordApiError(@)]
       [] a = "lost"    -> [w EXCEPT !.rs = RecordApiError(@), !.brk = gone]
       [] OTHER -> w

\* _emit_kill
EmitKill(w) == [w EXCEPT !.st.running = FALSE, !.st.killed = TRUE]

\* get_account_summary, whose NAV becomes the equity.
ReadAccount(w, a) ==
  IF a # "ok" THEN [w EXCEPT !.rs = RecordApiError(@)]
  ELSE LET nav == IF w.brk.cash > 0 THEN w.brk.cash ELSE w.rs.equity
       IN [w EXCEPT !.rs = RecordApiSuccess([@ EXCEPT !.equity = nav])]

\* The history of an order that reached the broker.
Sent(o, target) ==
  [dir |-> target, at |-> now, flat |-> FALSE,
   hourly |-> IF o.at # Never /\ o.at \div HourTicks = now \div HourTicks THEN o.hourly + 1 ELSE 1]

\* slip: the engine takes the side whatever became of the order
PlaceOrderBlind(w, target, a) ==
  [w EXCEPT !.st = [@ EXCEPT !.pos = target, !.units = Units + Units, !.dir = target],
            !.brk.units = @ + Units, !.order = Sent(@, target)]

\* place_market_order and what follows it.  The units are positive whatever
\* the side.
PlaceOrder(w, target, a) ==
  LET atBroker == IF a = "order" THEN w
                  ELSE [w EXCEPT !.brk.units = @ + Units, !.order = Sent(@, target)]
      open == [w.st EXCEPT !.pos = target, !.units = Units, !.dir = target, !.levels = @ \/ Cfg.stops]
  IN IF a # "filled" THEN [atBroker EXCEPT !.rs = RecordApiError(@), !.st.levels = FALSE]
     ELSE [atBroker EXCEPT !.st = open, !.rs = RecordTradeSubmission(RecordApiSuccess(@), now)]

---------------------------------------------------------------------------
(* process_signal.                                                         *)

World == [st |-> [st EXCEPT !.signals = @ + 1], rs |-> [rs EXCEPT !.beat = now], brk |-> brk, booked |-> booked,
          order |-> order]

\* After the stop check: hit says that the quote reached a level.
AfterStops(hit, close, pnl) ==
  IF hit /\ st.pos # 0 /\ st.levels
  THEN [Flat(ClosePosition(World, close, pnl)) EXCEPT !.st.levels = FALSE] ELSE World

\* After leaving the side that the signal does not want.
AfterExit(w, close, pnl) == IF w.st.pos = 0 THEN w ELSE Flat(ClosePosition(w, close, pnl))

Holds(w, target) == target # 0 /\ w.st.pos = target

\* The checks before the order: the account, then the gates.
Checked(w, acct) == [ReadAccount(w, acct) EXCEPT !.rs = RollHour(Cfg, @, now)]

Refusals(w, target, s) ==
  Blocked(Cfg, w.rs, target, w.st.dir, now, Cfg.size, s.bad)

\* slip: an engine that was killed goes on
KilledGoesOn(w, target) == FALSE

KillNoticed(w, target) == w.rs.killed

\* The world after a signal, with the answers of the broker to the calls made.
Processed(target, s) ==
  LET w1 == AfterStops(s.hit, s.close, s.pnl)
      w2 == AfterExit(w1, s.close, s.pnl)
      w3 == Checked(w2, s.account)
  IN IF Guards(Cfg, World.rs, now, s.bad) # {} THEN EmitKill([World EXCEPT !.st = st])
     ELSE IF Holds(w1, target) THEN w1
     ELSE IF KillNoticed(w2, target) THEN EmitKill(w2)
     ELSE IF target = 0 THEN [w2 EXCEPT !.st.dir = 0, !.order.flat = TRUE]
     ELSE IF Refusals(w3, target, s) # {} THEN [w3 EXCEPT !.st.dir = target]
     ELSE PlaceOrder(w3, target, s.order)

\* What comes with a signal: whether the quote reached a level, one thing
\* outside the engine that may be bad, and the broker's answers.
Scenes == [hit : BOOLEAN, bad : {"", "stale", "doubtful", "weekend", "margin"}, pnl : Pnls,
           close : CloseAnswers, account : AccountAnswers, order : OrderAnswers]

ProcessSignal(target, s) ==
  LET w == Processed(target, s)
  IN /\ ~stopped /\ st.signals < session.signals
     /\ st' = w.st /\ rs' = w.rs /\ brk' = w.brk /\ booked' = w.booked /\ order' = w.order
     /\ UNCHANGED <<session, stopped, now>>

---------------------------------------------------------------------------
(* stop and emergency_kill.                                                *)

\* Both close what the broker holds, or fail to and go on.
BrokerCloses(pnl, answer) ==
  brk' = IF answer \in {"closed", "lost"} /\ brk.units # 0 THEN [units |-> 0, cash |-> brk.cash + pnl] ELSE brk

Stop(pnl, answer) ==
  /\ ~stopped /\ stopped' = TRUE
  /\ st' = [st EXCEPT !.running = FALSE, !.pos = 0, !.units = 0]
  /\ IF st.pos # 0 THEN BrokerCloses(pnl, answer) ELSE UNCHANGED brk
  /\ UNCHANGED <<session, rs, now, booked, order>>

EmergencyKill(pnl, answer) ==
  /\ st' = [st EXCEPT !.running = FALSE, !.killed = TRUE]
  /\ rs' = [rs EXCEPT !.killed = TRUE]
  /\ BrokerCloses(pnl, answer)
  /\ UNCHANGED <<session, now, booked, order, stopped>>

Next == \/ Tick
        \/ \E target \in {-1, 0, 1}, s \in Scenes : ProcessSignal(target, s)
        \/ \E pnl \in Pnls : BrokerStops(pnl)
        \/ \E pnl \in Pnls, a \in CloseAnswers : Stop(pnl, a) \/ EmergencyKill(pnl, a)

Spec == Init /\ [][Next]_vars

---------------------------------------------------------------------------
(* Properties.                                                             *)

\* The types of the state: a side goes with units, and an engine that is
\* running has not been killed from outside.
TypeOK ==
  /\ session \in Sessions
  /\ st \in [pos : {-1, 0, 1}, units : {0, Units}, dir : {-1, 0, 1}, levels : BOOLEAN,
             running : BOOLEAN, killed : BOOLEAN, signals : 0..session.signals]
  /\ (st.pos = 0) = (st.units = 0) /\ (st.running => ~rs.killed)
  /\ rs \in RiskStates /\ Len(rs.window) <= WindowCap
  /\ brk \in [units : Nat, cash : Int] /\ booked \in Int
  /\ order \in [dir : {-1, 0, 1}, at : Nat \cup {Never}, flat : BOOLEAN, hourly : Nat]
  /\ now \in 0..session.time /\ stopped \in BOOLEAN

\* While every call to the broker is answered, the broker holds what the
\* engine thinks it holds, or has closed it at its stop.
BrokerHoldsNoMore == brk.units \in {0, st.units}

\* When the engine is flat, the journal, and with it the monitors of closed
\* trades, has seen all that the account made.
JournalBalances == ~stopped /\ ~rs.killed /\ st.pos = 0 => brk.cash = Cfg.equity + booked

\* What the engine has in its books is what the broker has, when every call
\* is answered and, for the journal, nothing is closed behind its back.
BooksAgree == Faults = {} => BrokerHoldsNoMore /\ (~Cfg.stops => JournalBalances)

\* No clock hour has more orders than G3 allows.
HourlyCap == order.hourly <= Cfg.maxHourly

Placed == order'.at # order.at \/ order'.hourly # order.hourly

\* Unless a FLAT signal came between, orders keep the shorter of the two cooldowns.
GapWithoutFlat ==
  Placed /\ order.at # Never /\ ~order.flat
    => \E gap \in {Cfg.cooldown, Cfg.reversal} : now - order.at >= gap

\* The gates are on, and no order reaches the broker unknown to the engine.
GatesSeeOrders == Cfg.enabled /\ "lost" \notin Faults

\* What the two gates on frequency promise, as long as they see every order:
\* no hour has too many, and no two are closer than a cooldown.
OrdersSpaced == [](GatesSeeOrders => HourlyCap) /\ [][GatesSeeOrders => GapWithoutFlat]_vars

\* A window of losing trades only kills the session, whichever monitor sees it.
LosingWindowKills ==
  /\ Cfg.enabled /\ Cfg.useRolling /\ Cfg.minWinRate > 0 /\ Cfg.rolling > 0
  /\ booked' # booked /\ Len(rs'.window) >= Cfg.rolling /\ (\A k \in DOMAIN rs'.window : rs'.window[k] <= 0)
  => st'.killed

\* After the emergency button nothing is opened any more, even if a signal
\* that was on its way is still processed.
EmergencyIsFinal == rs.killed => ~Placed

\* What ends a session ends it: the button for good, and a losing window
\* whatever answers the broker gives.
KillsAreFinal == [][EmergencyIsFinal /\ LosingWindowKills]_vars

\* A SHORT signal sells.
ShortSells == st.pos = -1 => brk.units <= 0

\* A session that a monitor killed opens nothing.
KilledOpensNothing == [][st.killed => ~Placed]_vars

\* A closed trade that takes the account below its drawdown limit kills the session.
DrawdownKills ==
  [][booked' # booked /\ 100 * (rs'.peak - brk'.cash) >= Cfg.maxDd * rs'.peak => st'.killed]_vars

\* A session that was not heard of for longer than the timeout is killed by
\* the next signal.
HeartbeatKills ==
  [][rs'.beat # rs.beat /\ now - rs.beat > Cfg.heartbeat => st'.killed]_vars

\* No order is placed with an account below the equity floor.
FloorStopsOrders == [][Placed => 100 * brk'.cash >= Cfg.equity * Cfg.minEquity]_vars

\* Every two orders are a cooldown apart.
Cooldown ==
  [][Placed /\ order.at # Never => \E gap \in {Cfg.cooldown, Cfg.reversal} : now - order.at >= gap]_vars

\* Trades of an earlier day do not count against the limit of this day.
DailyCountIsDaily ==
  [][rs'.beat # rs.beat /\ rs'.daily > 0 => order'.at \div DayTicks = now \div DayTicks]_vars

\* The account never holds more than one order opens.
PositionBounded == brk.units <= Units
=============================================================================
