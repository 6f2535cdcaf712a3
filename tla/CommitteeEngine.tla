-------------------------- MODULE CommitteeEngine --------------------------
(***************************************************************************)
(* trading/committee_engine.py: one committee session, in paper mode or    *)
(* live with or without a broker client in the calls to process_signal.    *)
(* Prices are ticks, sizes are in units of 1/Lot, money is in half ticks   *)
(* times units, as in PaperEngine.  Sizing is fixed (the other methods are *)
(* in ExecutionModels) and scaled by the conviction of the signal.  The    *)
(* broker's NAV is the equity without open trades.                         *)
(***************************************************************************)
EXTENDS ExecutionModels, RiskControls

CONSTANTS Committees,   \* the sessions that may be started, see CommitteeAssumption
          Spread

\* A session has thresholds, stops and a size in cfg, whether its mode is live,
\* whether the caller of process_signal passes the broker client, the bids it
\* may see, the multipliers in 1/Lot that the runner's signals carry, and bounds
\* on its signals and on the clock.  start() clamps the trust to 0..1 and the
\* stop configuration has no partial close.  The code's sizes are floats and a
\* conviction is at least a quarter: Lot is fine enough that no size it scales
\* is cut to nothing.
CommitteeAssumption ==
  /\ Lot \in Nat \ {0} /\ Spread \in Nat /\ HourTicks \in Nat \ {0} /\ WindowCap \in Nat \ {0}
  /\ \A k \in Committees :
       /\ k.live \in BOOLEAN /\ k.client \in BOOLEAN /\ k.signals \in Nat /\ k.time \in Nat
       /\ k.bids \subseteq Nat \ {0} /\ k.convictions \subseteq Nat \ {0}
       /\ k.cfg.enabled \in BOOLEAN /\ k.cfg.useDd \in BOOLEAN /\ k.cfg.equity \in Int
       /\ k.cfg.lifetime \in Int /\ k.cfg.maxHourly \in Nat
       /\ k.cfg.sizing = "fixed" /\ k.cfg.trust \in 0..Lot
       /\ \A v \in k.convictions : k.cfg.trust > 0 => k.cfg.trust * v >= Lot
       /\ k.cfg.stop \in {"none", "fixed_pips", "atr"} /\ ~k.cfg.partial
       /\ k.cfg.sl \in Nat /\ k.cfg.tp \in Nat

VARIABLES committee,  \* the session that was started
          p,      \* the portfolio with the stop levels and signal_count
          rs,     \* the risk state
          brk,    \* units at the broker
          mid, now, stopped,
          event,  \* the last event is a kill
          hourly  \* history: trades opened in this clock hour

vars == <<committee, p, rs, brk, mid, now, stopped, event, hourly>>

Cfg  == committee.cfg
Live == committee.live

Initial == 2 * Cfg.equity
Risk == [Cfg EXCEPT !.equity = Initial]

Init ==
  /\ committee \in Committees
  /\ p = [pos |-> 0, size |-> 0, entry |-> 0, realized |-> 0, levels |-> NoLevels,
          equity |-> Initial, signals |-> 0]
  /\ rs = NewSessionState(Risk) /\ brk = 0
  /\ mid \in {2 * b + Spread : b \in committee.bids} /\ now = 0
  /\ stopped = FALSE /\ event = FALSE /\ hourly = 0

Tick ==
  /\ now < committee.time /\ now' = now + 1
  /\ hourly' = IF now' % HourTicks = 0 THEN 0 ELSE hourly
  /\ UNCHANGED <<committee, p, rs, brk, mid, stopped, event>>

---------------------------------------------------------------------------
(* process_signal on w = [p, rs, brk, event].                              *)

ExitQuote(pos, bid)  == IF pos = 1 THEN bid ELSE bid + Spread
EntryQuote(pos, bid) == IF pos = 1 THEN bid + Spread ELSE bid

Marked(a, m) == Initial + a.realized + a.pos * a.size * (m - 2 * a.entry)

\* slip: the PnL without the size
CloseInPoints(a, price) ==
  [a EXCEPT !.pos = 0, !.size = 0, !.entry = 0, !.realized = @ + 2 * a.pos * (price - a.entry)]

\* The portfolio's side of a close; the broker is not told.
CloseTrade(a, price) ==
  [a EXCEPT !.pos = 0, !.size = 0, !.entry = 0,
            !.realized = @ + 2 * a.pos * (price - a.entry) * a.size]

EmitKill(w) == [w EXCEPT !.event = TRUE]

\* A hit level is filled at its price and cleared; no monitor runs.
AfterStops(w, bid) ==
  LET q == ExitQuote(w.p.pos, bid)
      hit == IF w.p.pos = 0 THEN "" ELSE CheckStopHit(w.p.levels, w.p.pos, q, q)
      price == IF hit = "sl" THEN w.p.levels.sl ELSE IF hit = "tp2" THEN w.p.levels.tp2 ELSE w.p.levels.tp
  IN IF hit = "" THEN w ELSE [w EXCEPT !.p = [CloseTrade(@, price) EXCEPT !.levels = NoLevels]]

\* Leaving the side that the signal does not want, with the monitors.
AfterExit(w, bid) ==
  LET closed == CloseTrade(w.p, ExitQuote(w.p.pos, bid))
      r == AfterTrade(Risk, w.rs, closed.realized - w.p.realized)
      left == [w EXCEPT !.p = closed, !.rs = r]
  IN IF w.p.pos = 0 THEN w ELSE IF Monitors(Risk, r) # {} THEN EmitKill(left) ELSE left

\* The account is read, and orders are sent, only live and with a client.
Dealt == Live /\ committee.client

ReadAccount(w, ok) ==
  IF ~Dealt THEN w
  ELSE IF ~ok THEN [w EXCEPT !.rs = RecordApiError(@)]
  ELSE LET nav == Initial + w.p.realized
       IN [w EXCEPT !.rs = RecordApiSuccess([@ EXCEPT !.equity = nav]), !.p.equity = nav]

SizeFor(conviction) ==
  LET size == ComputeSize(Cfg, NewSizing(Cfg.equity), 0, 0)
  IN ((IF size <= 0 THEN Lot ELSE size) * conviction) \div Lot

OpenTrade(w, target, size, bid, atr, mark) ==
  LET entry == EntryQuote(target, bid)
      a == [w.p EXCEPT !.pos = target, !.size = size, !.entry = entry,
                       !.levels = ComputeStopLevels(Cfg, entry, target, atr, 0)]
  IN [w EXCEPT !.p = [a EXCEPT !.equity = Marked(a, mark)]]

\* An order that fails leaves the levels that were computed for it.
OrderFailed(w, target, bid, atr) ==
  [w EXCEPT !.rs = RecordApiError(@),
            !.p.levels = ComputeStopLevels(Cfg, EntryQuote(target, bid), target, atr, 0)]

\* Submissions are counted, and the broker gets an order, only when dealt.
Submit(w, size) ==
  IF ~Dealt THEN w
  ELSE [w EXCEPT !.rs = RecordTradeSubmission(RecordApiSuccess(@), now), !.brk = @ + size]

Enter(w, target, conviction, bid, atr, bad, answers) ==
  LET size == SizeFor(conviction)
      read == ReadAccount(w, answers.account)
      w2 == [read EXCEPT !.rs = RollHour(Risk, @, now)]
  IN IF Blocked(Risk, w2.rs, target, target, now, size, bad) # {} THEN w2
     ELSE IF Dealt /\ ~answers.order THEN OrderFailed(w2, target, bid, atr)
     ELSE OpenTrade(Submit(w2, size), target, size, bid, atr, 2 * bid + Spread)

KillNoticed(w) == w.rs.killed

Processed(target, conviction, bid, atr, bad, answers) ==
  LET w0 == [p |-> p, rs |-> [rs EXCEPT !.beat = now, !.equity = p.equity], brk |-> brk, event |-> FALSE]
      w1 == AfterStops([w0 EXCEPT !.p.signals = @ + 1], bid)
      w2 == AfterExit(w1, bid)
  IN IF Guards(Risk, w0.rs, now, "") # {} THEN EmitKill(w0)
     ELSE IF target # 0 /\ target = w1.p.pos
     THEN [w1 EXCEPT !.p.equity = Marked(w1.p, 2 * bid + Spread)]
     ELSE IF w2.event \/ KillNoticed(w2) THEN EmitKill(w2)
     ELSE IF target = 0 THEN w2
     ELSE Enter(w2, target, conviction, bid, atr, bad, answers)

ProcessSignal(target, conviction, bid, atr, bad, answers) ==
  LET w == Processed(target, conviction, bid, atr, bad, answers)
  IN /\ ~stopped /\ p.signals < committee.signals
     /\ p' = w.p /\ rs' = w.rs /\ brk' = w.brk /\ event' = w.event
     /\ mid' = 2 * bid + Spread
     /\ hourly' = IF w.p.pos # 0 /\ (w.p.pos # p.pos \/ w.p.realized # p.realized) THEN hourly + 1 ELSE hourly
     /\ UNCHANGED <<committee, now, stopped>>

---------------------------------------------------------------------------

\* Live, the broker is asked to close first and its failure is only noted.
Stop(bid, known, closes) ==
  LET price == IF known THEN ExitQuote(p.pos, bid) ELSE p.entry
      a == IF p.pos = 0 THEN p ELSE CloseTrade(p, price)
  IN /\ ~stopped /\ stopped' = TRUE
     /\ p' = [a EXCEPT !.equity = Initial + a.realized]
     /\ brk' = IF Live /\ p.pos # 0 /\ closes THEN 0 ELSE brk
     /\ mid' = IF known THEN 2 * bid + Spread ELSE IF p.pos # 0 THEN 2 * p.entry ELSE mid
     /\ UNCHANGED <<committee, rs, now, event, hourly>>

EmergencyKill(closes) ==
  /\ rs' = [rs EXCEPT !.killed = TRUE]
  /\ brk' = IF Live /\ closes THEN 0 ELSE brk
  /\ UNCHANGED <<committee, p, mid, now, stopped, event, hourly>>

Next ==
  \/ Tick
  \/ \E target \in {-1, 0, 1}, c \in committee.convictions, bid \in committee.bids, atr \in {0, 1}, bad \in {"", "doubtful", "weekend"},
        answers \in [account : {TRUE, ~Dealt}, order : {TRUE, ~Dealt}] :
       ProcessSignal(target, c, bid, atr, bad, answers)
  \/ \E bid \in committee.bids, known \in BOOLEAN, closes \in BOOLEAN : Stop(bid, known, closes)
  \/ \E closes \in BOOLEAN : EmergencyKill(closes)

Spec == Init /\ [][Next]_vars

---------------------------------------------------------------------------
(* Properties.                                                             *)

\* The types of the state; a flat portfolio has neither size nor entry.
TypeOK ==
  /\ committee \in Committees /\ rs \in RiskStates /\ Len(rs.window) <= WindowCap
  /\ p.pos \in {-1, 0, 1} /\ p.size \in Nat /\ p.realized \in Int /\ p.equity \in Int
  /\ (p.pos = 0) = (p.size = 0) /\ (p.pos = 0) = (p.entry = 0)
  /\ brk \in Nat /\ hourly \in Nat /\ now \in 0..committee.time /\ stopped \in BOOLEAN /\ event \in BOOLEAN

\* The portfolio is an account that pays and is paid what it deals at.
Ledger == INSTANCE Account WITH units <- p.pos * p.size, price <- mid,
                                equity <- Marked(p, mid), Fee <- 0, Scale <- 2, Slack <- Spread
IsAnAccount == Ledger!Spec

\* An open trade has its own stop levels, on their sides of its entry.
LevelsBelong ==
  p.pos # 0 /\ Cfg.stop # "none" => /\ p.pos * (p.entry - p.levels.sl) >= 0
                                    /\ p.pos * (p.levels.tp - p.entry) >= 0

\* After the emergency button no trade is opened.
EmergencyIsFinal == [][rs.killed /\ p.pos = 0 => p'.pos = 0]_vars

\* No clock hour has more trades than G3 allows.
HourlyCap == hourly <= Cfg.maxHourly

\* A trade that closed at a loss adds to the losing streak that M3 looks at.
LossesMonitored == [][~stopped' /\ p'.realized < p.realized => rs'.losses > rs.losses]_vars

\* A trade whose close takes the account below its drawdown limit kills the session.
DrawdownKills ==
  [][~stopped' /\ p'.realized # p.realized /\ 100 * (rs'.peak - (Initial + p'.realized)) >= Cfg.maxDd * rs'.peak
     => event']_vars

\* Live, the broker holds a position whenever the session does.
LiveIsDealt == Live /\ p.pos # 0 => brk # 0

\* Live, the broker holds no position when the session does not.
LiveIsFlat == Live /\ p.pos = 0 => brk = 0
=============================================================================
