-------------------------- MODULE ExecutionLoop --------------------------
(***************************************************************************)
(* The bar-by-bar loop of the backtester, run_execution_loop in           *)
(* pipeline/backtester/execution_patches.py, one step per bar.  A return is *)
(* the difference of two closes, an equity is counted in ticks times units *)
(* and the spread, slippage and impact of a deal are one fee per unit.     *)
(* Cfg.trail chooses between the loop's two paths: the one that keeps a    *)
(* trade with stops (Patch #2) and the plain one, which follows changes of *)
(* the prediction.                                                         *)
(***************************************************************************)
EXTENDS ExecutionModels

CONSTANTS Cfg,       \* PatchConfig: the record that MC modules define
          Bars,      \* the shapes of a bar, as changes from the last close
          StartClose, MaxBars

VARIABLES close,     \* the last close
          pred,      \* the last prediction, -1, 0 or 1
          pos,       \* prev_pos_actual
          trade,     \* in_pos, dirn, size_entry, ... and the active levels
          ramp,      \* the TWAP ramp, or where it stands at once: dst
          kill,      \* the kill switch
          sizing, risk,
          accum,     \* trade_pnl_accum
          n,         \* bars done
          seen       \* history: the gates that changed the last signal, the
                     \* bars suppressed in a row, what the position held made,
                     \* the losses in a row

vars == <<close, pred, pos, trade, ramp, kill, sizing, risk, accum, n, seen>>

Abs(x) == IF x < 0 THEN -x ELSE x

NoTrade == [in |-> FALSE, dirn |-> 0, size |-> 0, scaled |-> FALSE, cum |-> 0, mfe |-> 0,
            held |-> 0, sigma |-> 0, partial |-> FALSE, entry |-> 0,
            levels |-> NoLevels, trailing |-> NewTrailing(0)]

Init ==
  /\ close = StartClose /\ pred = 0 /\ pos = 0 /\ trade = NoTrade
  /\ ramp = [on |-> FALSE, k |-> 0, src |-> 0, dst |-> 0]
  /\ kill = [on |-> FALSE, left |-> 0, day |-> 0]
  /\ sizing = NewSizing(Cfg.equity) /\ risk = NewRisk(Cfg) /\ accum = 0 /\ n = 0
  /\ seen = [gates |-> {}, idle |-> 0, pnl |-> 0, losses |-> 0]

Close(b) == close + b.move
High(b)  == Max({close, Close(b)}) + b.up
Low(b)   == Min({close, Close(b)}) - b.down

---------------------------------------------------------------------------
(* What a bar does before the trading logic looks at it.                   *)

KillAtOpen(b) ==
  IF b.newDay \/ (Cfg.killToEnd /\ b.gap) THEN [on |-> FALSE, left |-> 0, day |-> 0] ELSE kill

RiskAtOpen(b) == IF b.newDay THEN ResetDaily(Cfg, risk) ELSE risk

\* The gates that turn the bar's prediction into no signal.
Gates(b) ==
  {g \in {"session", "spread", "risk", "kill"} :
     \/ g = "session" /\ ~b.session /\ ~trade.in
     \/ g = "spread" /\ Cfg.guard /\ pos = 0 /\ b.wide
     \/ g = "risk" /\ RiskActive(Cfg) /\ ShouldSuppress(RiskAtOpen(b))
     \/ g = "kill" /\ Cfg.kill /\ KillAtOpen(b).on}

Signal(b) == IF Gates(b) = {} THEN b.pred ELSE 0

RiskTicked(b) ==
  IF "risk" \in Gates(b) THEN TickCooloffs(RiskAtOpen(b)) ELSE RiskAtOpen(b)

KillTicked(b) ==
  LET k == KillAtOpen(b) left == Max({0, k.left - 1})
  IN IF Cfg.kill /\ k.on /\ ~Cfg.killToEnd THEN [k EXCEPT !.left = left, !.on = left # 0] ELSE k

EntrySize(b, s) ==
  LET size == IF Cfg.sizing # "fixed" THEN ComputeSize(Cfg, s, b.vol, b.atr)
              ELSE IF Cfg.volTarget THEN Min({Cfg.maxLev, Cfg.target \div Max({b.vol, 1})})
              ELSE Lot
  IN IF Cfg.conviction THEN (size * b.conv) \div 2 ELSE size

---------------------------------------------------------------------------
(* Moving to a target: at once, or over Cfg.span bars.                     *)

Toward(target) == [on |-> Cfg.twap, k |-> 0, src |-> pos, dst |-> target]

AtOnce(target) == [on |-> FALSE, k |-> 0, src |-> pos, dst |-> target]

Ramped(r) ==
  IF r.on THEN r.src + ((r.dst - r.src) * Min({Cfg.span, r.k + 1})) \div Cfg.span ELSE r.dst

RampNext(r) ==
  IF r.on /\ r.k + 1 < Cfg.span THEN [r EXCEPT !.k = @ + 1]
  ELSE [on |-> FALSE, k |-> 0, src |-> 0, dst |-> r.dst]

---------------------------------------------------------------------------
(* The end of a bar: book it, flush a closed trade into the statistics,    *)
(* then let the kill switch and the breakers look at the result.           *)

Flushed(net, closed) == accum + net

Accumulated(net, closed) == IF closed THEN 0 ELSE IF trade'.in THEN accum + net ELSE accum

\* slip: a stop books the whole trade after half of it was closed
GrossOfWhole(b, x, fill) == IF fill # 0 THEN trade.size * trade.dirn * (fill - close) ELSE x * b.move

Gross(b, x, fill) ==
  LET asked == fill - close
      got == IF Low(b) < High(b) THEN Min({Max({asked, Low(b) - close}), High(b) - close}) ELSE asked
  IN IF fill # 0 THEN Abs(pos) * trade.dirn * got ELSE x * b.move

History(b, x, net) ==
  LET pnl == seen.pnl + net
      over == pos # 0 /\ x * pos <= 0
  IN [gates |-> Gates(b),
      idle |-> IF "risk" \in Gates(b) THEN seen.idle + 1 ELSE 0,
      pnl |-> IF over \/ x = 0 THEN 0 ELSE pnl,
      losses |-> IF over THEN IF pnl > 0 THEN 0 ELSE seen.losses + 1 ELSE seen.losses]

\* s and r are the statistics after the trading logic, go the ramp, fill the
\* stop's price or 0; trade' is already set.
Book(b, go, fill, s, r) ==
  LET x      == Ramped(go)
      net    == Gross(b, x, fill) - Cfg.cost * Abs(x - pos)
      closed == trade.in /\ ~trade'.in
      done   == Flushed(net, closed)
      s1     == [s EXCEPT !.equity = @ + net]
      k      == KillTicked(b)
      day    == k.day + net
      limit  == IF Cfg.killSigma THEN Cfg.killLimit * b.vol ELSE Cfg.killLimit
      trip   == Cfg.kill /\ ~k.on /\ day <= -limit
  IN /\ close' = Close(b) /\ pred' = b.pred /\ pos' = x /\ n' = n + 1
     /\ accum' = Accumulated(net, closed)
     /\ sizing' = IF closed /\ Cfg.sizing # "fixed" THEN UpdateSizing(s1, done) ELSE s1
     /\ risk' = LET traded == IF closed THEN UpdateAfterTrade(Cfg, r, done) ELSE r
                IN CheckDailyLoss(Cfg, CheckDrawdown(Cfg, traded, s1.equity), net, b.vol)
     /\ kill' = IF ~Cfg.kill THEN k
                ELSE [on |-> k.on \/ trip, day |-> day,
                      left |-> IF trip /\ ~Cfg.killToEnd /\ Cfg.killCooloff > 0 THEN Cfg.killCooloff
                               ELSE k.left]
     /\ ramp' = RampNext(IF trip THEN [on |-> Cfg.twap, k |-> 0, src |-> x, dst |-> 0] ELSE go)
     /\ seen' = History(b, x, net)

---------------------------------------------------------------------------
(* The path with a trade and its stops.                                    *)

Enter(b) ==
  LET entry == IF n = 0 THEN Close(b) ELSE close
      size  == EntrySize(b, sizing)
  IN /\ Cfg.trail /\ ~trade.in /\ Signal(b) # 0
     /\ trade' = [NoTrade EXCEPT !.in = TRUE, !.dirn = Signal(b), !.size = size, !.sigma = b.vol,
                     !.entry = entry, !.trailing = NewTrailing(entry),
                     !.levels = ComputeStopLevels(Cfg, entry, Signal(b), b.atr, b.vol)]
     /\ Book(b, Toward(Signal(b) * size), 0, sizing, RiskTicked(b))

StayOut(b) ==
  /\ Cfg.trail /\ ~trade.in /\ Signal(b) = 0
  /\ UNCHANGED trade /\ Book(b, ramp, 0, sizing, RiskTicked(b))

\* The trade after the bar moved its trailing stop and its breakeven stop.
Held(b) ==
  LET t  == [trade EXCEPT !.held = @ + 1, !.cum = @ + trade.dirn * b.move,
               !.mfe = Max({@, trade.cum + trade.dirn * b.move}),
               !.trailing = IF Cfg.trailing = "none" THEN @
                            ELSE UpdateTrailing(Cfg, @, trade.entry, trade.dirn, Close(b), High(b), Low(b))]
      l1 == IF Cfg.trailing # "none" /\ t.trailing.on /\ Cfg.stop # "none"
            THEN Ratchet(t.levels, ComputeTrailingSl(Cfg, t.trailing, t.dirn, b.atr), t.dirn)
            ELSE t.levels
      l2 == IF t.partial THEN l1 ELSE CheckBreakeven(Cfg, l1, t.entry, t.dirn, Close(b))
  IN [t EXCEPT !.levels = IF Cfg.stop = "none" THEN @ ELSE l2]

Hit(b) == CheckStopHit(Held(b).levels, trade.dirn, High(b), Low(b))

StopPrice(b) ==
  LET l == Held(b).levels
  IN CASE Hit(b) = "sl" -> l.sl [] Hit(b) = "tp" -> l.tp [] Hit(b) = "tp2" -> l.tp2 [] OTHER -> 0

\* slip: the exit leaves the side of the trade behind
StopOutKeepsSide(b) ==
  /\ Cfg.trail /\ trade.in /\ Hit(b) \in {"sl", "tp", "tp2"}
  /\ trade' = [Held(b) EXCEPT !.in = FALSE, !.size = 0, !.scaled = FALSE, !.levels = NoLevels]
  /\ Book(b, AtOnce(0), StopPrice(b), sizing, RiskTicked(b))

\* A stop or a target closes the trade at its price, without a ramp.
StopOut(b) ==
  /\ Cfg.trail /\ trade.in /\ Hit(b) \in {"sl", "tp", "tp2"}
  /\ trade' = [Held(b) EXCEPT !.in = FALSE, !.dirn = 0, !.size = 0, !.scaled = FALSE, !.levels = NoLevels]
  /\ Book(b, AtOnce(0), StopPrice(b), sizing, RiskTicked(b))

\* The first target takes off half of the trade, and so does a profit of
\* Cfg.z[regime].tp1 volatilities.
PartialNow(b) == Hit(b) = "tp1" /\ Cfg.partial /\ ~trade.partial
Volatility(b) == IF Cfg.dynVol THEN b.vol ELSE trade.sigma
ScaleNow(b)   == ~trade.scaled /\ Held(b).cum >= Cfg.z[b.regime].tp1 * Volatility(b)

Reduced(b) ==
  IF PartialNow(b) \/ ScaleNow(b) THEN Toward((trade.dirn * trade.size) \div 2) ELSE ramp

\* What ends a trade that no level ended.
Ends(b) ==
  LET t     == Held(b)
      floor == t.mfe - Cfg.z[b.regime].trail * Volatility(b)
      level == IF Cfg.moveToBe /\ (t.scaled \/ ScaleNow(b)) THEN Max({floor, 0}) ELSE floor
  IN \/ t.cum <= level
     \/ Signal(b) = 0
     \/ Signal(b) = -trade.dirn /\ ~(Cfg.minHold > 0 /\ t.held < Cfg.minHold)
     \/ Cfg.kill /\ KillTicked(b).on
     \/ Cfg.maxHold > 0 /\ t.held >= Cfg.maxHold

Exit(b) ==
  /\ Cfg.trail /\ trade.in /\ Hit(b) \notin {"sl", "tp", "tp2"} /\ Ends(b)
  /\ trade' = [Held(b) EXCEPT !.in = FALSE, !.dirn = 0, !.size = 0, !.scaled = FALSE,
                 !.partial = @ \/ PartialNow(b)]
  /\ Book(b, Toward(0), 0, sizing, RiskTicked(b))

Hold(b) ==
  /\ Cfg.trail /\ trade.in /\ Hit(b) \notin {"sl", "tp", "tp2"} /\ ~Ends(b)
  /\ trade' = [Held(b) EXCEPT !.scaled = @ \/ ScaleNow(b), !.partial = @ \/ PartialNow(b)]
  /\ Book(b, Reduced(b), 0, sizing, RiskTicked(b))

---------------------------------------------------------------------------
(* The plain path: it compares the gated signal with the last prediction, *)
(* which no gate has touched, and acts on a difference only.  The target   *)
(* the code computes when there is none is read by nobody.                 *)

\* slip: the position is left open when the signal goes
FollowLazily(b, s) ==
  IF Signal(b) # pred /\ Signal(b) # 0 THEN Toward(Signal(b) * EntrySize(b, s)) ELSE ramp

Follow(b, s) ==
  IF Signal(b) # pred THEN Toward(Signal(b) * EntrySize(b, s)) ELSE ramp

Plain(b) ==
  LET over == Signal(b) # pred /\ pred # 0 /\ Cfg.sizing # "fixed"
      s == IF over THEN UpdateSizing(sizing, accum) ELSE sizing
      r == IF over THEN UpdateAfterTrade(Cfg, RiskTicked(b), accum) ELSE RiskTicked(b)
  IN /\ ~Cfg.trail
     /\ UNCHANGED trade /\ Book(b, Follow(b, s), 0, s, r)

Next ==
  /\ n < MaxBars
  /\ \E b \in Bars :
       /\ n = 0 => b.move = 0 /\ b.newDay
       /\ Enter(b) \/ StayOut(b) \/ StopOut(b) \/ Exit(b) \/ Hold(b) \/ Plain(b)

Spec == Init /\ [][Next]_vars

---------------------------------------------------------------------------
(* Properties.                                                             *)

\* The variables have their types, and the size of a trade its bound.
TypeOK ==
  /\ pred \in {-1, 0, 1} /\ trade.dirn \in {-1, 0, 1} /\ trade.in = (trade.dirn # 0)
  /\ trade.size \in 0..(2 * Cfg.maxLev) /\ {close, pos, accum, ramp.dst, sizing.equity} \subseteq Int
  /\ kill.left \in 0..Cfg.killCooloff /\ risk.ddLeft \in 0..Cfg.ddCooloff

\* The account of the loop is an account: over stops, half closes, ramps and
\* kills the equity is what buying and selling the positions at prices of the
\* bar would have left.
Wick == Max({Max({b.up, b.down}) : b \in Bars})
Ledger == INSTANCE Account WITH units <- pos, price <- close, equity <- sizing.equity, Fee <- Cfg.cost,
                                Scale <- 1, Slack <- Wick
IsAnAccount == Ledger!Spec

\* What the sizing and risk statistics are told of a trade is what the trade
\* made: while it is whole, its PnL is the move since the entry less the fee.
TradePnlExact ==
  trade.in /\ pos = trade.dirn * trade.size /\ ~trade.scaled /\ ~trade.partial
    => accum = pos * (close - trade.entry) - Cfg.cost * Abs(pos)

\* Breakeven and trailing write one stop, and it only ever moves toward the
\* price while the trade lasts.
StopRatchets ==
  [][trade.in /\ trade'.in => trade.dirn * (trade'.levels.sl - trade.levels.sl) >= 0]_vars

\* The breaker counts the losing trades there were, in a row.
LossesCounted == Cfg.useConsec => risk.losses = seen.losses

\* A bar that a kill or a breaker gates ends flat, on either path.
GatedIsFlat == seen.gates \cap {"risk", "kill"} # {} => pos = 0

\* Once a kill or a breaker gates a bar, that bar costs no more than closing.
GatedStopsLosing ==
  [][seen'.gates \cap {"risk", "kill"} # {}
       => sizing'.equity >= sizing.equity - Cfg.cost * Abs(pos)]_vars

\* However ramps overlap, the position never exceeds the largest size.
PositionBounded == Abs(pos) <= Cfg.maxLev

\* While the loop holds a trade it holds a position.
TradeHasPosition == trade.in => pos # 0

\* A cool-off ends: no pause is longer than the bars configured.
CooloffEnds == seen.idle <= Max({Cfg.ddCooloff, Cfg.consecCooloff})

\* A spread spike blocks the bars of the spike: with no gate closed, the
\* plain path holds the position of its signal.
SignalFollowed == seen.gates = {} /\ pred # 0 => pos * pred > 0

\* A bar outside the session closes no position.
SessionKeeps == [][seen'.gates = {"session"} /\ pos # 0 /\ pred' = pred => pos' = pos]_vars
=============================================================================
