------------------------- MODULE ExecutionModels -------------------------
(***************************************************************************)
(* The execution models that the backtest loop, the paper engine and the  *)
(* live engine share: stop levels, trailing stops, position sizes and the *)
(* risk breakers of pipeline/execution.  Pure operators: each takes the    *)
(* configuration c (a record) and the old state of the model and returns   *)
(* the new one.  Prices and distances are whole ticks, so a pip is one;    *)
(* sizes are in units of 1/Lot; a level of 0 is not set, as in the code.   *)
(* Left out: counters that only a report reads.                            *)
(***************************************************************************)
EXTENDS Integers, Sequences, FiniteSetsExt

CONSTANT Lot   \* units of one lot

NoLevels == [sl |-> 0, tp |-> 0, tp1 |-> 0, tp2 |-> 0]

\* What one unit of a configured distance stands for under each method.
Unit(method, atr, vol) ==
  CASE method = "atr" -> Max({atr, 0}) [] method = "sigma" -> Max({vol, 0}) [] OTHER -> 1

\* stops.py compute_stop_levels.
ComputeStopLevels(c, entry, dirn, atr, vol) ==
  LET u == Unit(c.stop, atr, vol)
      at(on, dist) == IF on THEN entry + dirn * dist ELSE 0
  IN IF c.stop = "none" THEN NoLevels
     ELSE [sl  |-> at(TRUE, -c.sl * u),  tp  |-> at(TRUE, c.tp * u),
           tp1 |-> at(c.partial, c.tp1), tp2 |-> at(c.partial /\ c.tp2 > 0, c.tp2)]

\* stops.py check_stop_hit: which level the bar reached, "" for none.  The
\* loss is looked at first; hi = lo = price when a caller has only a quote.
CheckStopHit(l, dirn, hi, lo) ==
  LET against(x) == x > 0 /\ IF dirn > 0 THEN lo <= x ELSE hi >= x
      for(x) == x > 0 /\ IF dirn > 0 THEN hi >= x ELSE lo <= x
  IN IF against(l.sl) THEN "sl"
     ELSE IF for(l.tp) THEN "tp"
     ELSE IF for(l.tp2) THEN "tp2"
     ELSE IF for(l.tp1) THEN "tp1" ELSE ""

\* stops.py check_breakeven.
CheckBreakeven(c, l, entry, dirn, price) ==
  IF c.be /\ dirn * (price - entry) >= c.beTrigger /\ dirn * (entry - l.sl) > 0
  THEN [l EXCEPT !.sl = entry] ELSE l

---------------------------------------------------------------------------
(* Trailing stops: t = [on, hwm, lwm, highs, lows].                        *)

NewTrailing(entry) == [on |-> FALSE, hwm |-> entry, lwm |-> entry, highs |-> <<>>, lows |-> <<>>]

LastOf(s, n) == IF Len(s) > n THEN SubSeq(s, Len(s) - n + 1, Len(s)) ELSE s

\* trailing.py update_trailing_state and is_activated.
UpdateTrailing(c, t, entry, dirn, price, hi, lo) ==
  [on    |-> t.on \/ dirn * (price - entry) >= c.activation,
   hwm   |-> Max({t.hwm, hi}), lwm |-> Min({t.lwm, lo}),
   highs |-> LastOf(t.highs \o <<hi>>, c.lookback), lows |-> LastOf(t.lows \o <<lo>>, c.lookback)]

\* trailing.py compute_trailing_sl.
ComputeTrailingSl(c, t, dirn, atr) ==
  LET dist == c.trailDist * (IF c.trailing = "fixed_pips" THEN 1 ELSE Max({atr, 0}))
      window(s) == {s[k] : k \in DOMAIN s}
      best == IF c.trailing = "chandelier" /\ t.highs # <<>>
              THEN IF dirn > 0 THEN Max(window(t.highs)) ELSE Min(window(t.lows))
              ELSE IF dirn > 0 THEN t.hwm ELSE t.lwm
  IN IF c.trailing = "none" THEN 0 ELSE best - dirn * dist

\* execution_patches.py: the loop takes the trailing level over the stop only
\* when it is tighter.
Ratchet(l, sl, dirn) ==
  IF sl > 0 /\ (dirn * (sl - l.sl) > 0 \/ (dirn < 0 /\ l.sl = 0))
  THEN [l EXCEPT !.sl = sl] ELSE l

---------------------------------------------------------------------------
(* Position sizes: s = [equity, trades, wins, won, lost].                  *)

NewSizing(equity) == [equity |-> equity, trades |-> 0, wins |-> 0, won |-> 0, lost |-> 0]

\* position_sizing.py update_state; the caller keeps s.equity.
UpdateSizing(s, pnl) ==
  IF pnl > 0 THEN [s EXCEPT !.trades = @ + 1, !.wins = @ + 1, !.won = @ + pnl]
  ELSE [s EXCEPT !.trades = @ + 1, !.lost = @ - pnl]

Fractional(c, s) ==
  IF c.equity <= 0 THEN Lot ELSE (c.fraction * s.equity) \div c.equity

\* Half Kelly of p - q / b, which is wins * (won - lost) / (trades * won);
\* rounded up to a unit, so that only a Kelly of zero gives a size of zero.
Kelly(c, s) ==
  IF s.trades < c.kellyMin THEN Fractional(c, s)
  ELSE IF s.won <= s.lost THEN 0
  ELSE Max({1, (c.kelly * s.wins * (s.won - s.lost) * Min({s.equity, c.equity}))
               \div (s.trades * s.won * c.equity)})

\* position_sizing.py compute_size, with the trust multiplier in 1/Lot.
ComputeSize(c, s, vol, atr) ==
  LET clamp(x) == Max({0, Min({c.maxLev, (x * c.trust) \div Lot})})
  IN IF s.equity <= 0 \/ c.trust <= 0 THEN 0
     ELSE CASE c.sizing = "fixed_fractional" -> clamp(Fractional(c, s))
            [] c.sizing = "kelly" -> clamp(Kelly(c, s))
            [] c.sizing = "atr" -> clamp(IF atr <= 0 THEN Fractional(c, s)
                                         ELSE (c.fraction * s.equity) \div (c.atrSl * atr))
            [] c.sizing = "vol_target" -> clamp(Min({c.maxLev, c.target \div Max({vol, 1})}))
            [] OTHER -> c.trust

---------------------------------------------------------------------------
(* Risk breakers: r = [peak, day, losses, dd, ddLeft, daily, consec,       *)
(* consecLeft].                                                            *)

NewRisk(c) == [peak |-> c.riskEquity, day |-> 0, losses |-> 0, dd |-> FALSE, ddLeft |-> 0,
               daily |-> FALSE, consec |-> FALSE, consecLeft |-> 0]

RiskActive(c) == c.useDd \/ c.useDaily \/ c.useConsec

\* risk_manager.py should_suppress_entry.
ShouldSuppress(r) == r.dd \/ r.daily \/ r.consec

\* risk_manager.py check_drawdown; the threshold is c.maxDd percent.
CheckDrawdown(c, r, equity) ==
  LET peak == Max({r.peak, equity})
  IN IF ~c.useDd THEN r
     ELSE IF peak > 0 /\ 100 * (peak - equity) >= c.maxDd * peak /\ ~r.dd
     THEN [r EXCEPT !.peak = peak, !.dd = TRUE,
                    !.ddLeft = IF c.ddCooloff > 0 THEN c.ddCooloff ELSE @]
     ELSE [r EXCEPT !.peak = peak]

\* risk_manager.py check_daily_loss; in sigma mode a flat market has no limit.
CheckDailyLoss(c, r, pnl, vol) ==
  LET limit == IF c.dailySigma THEN c.maxDaily * vol ELSE c.maxDaily
  IN IF ~c.useDaily THEN r
     ELSE [r EXCEPT !.day = @ + pnl,
             !.daily = @ \/ (~(c.dailySigma /\ vol <= 0) /\ r.day + pnl <= -limit)]

\* risk_manager.py update_after_trade.
UpdateAfterTrade(c, r, pnl) ==
  LET losses == IF pnl > 0 THEN 0 ELSE r.losses + 1
      trip == c.maxLosses > 0 /\ losses >= c.maxLosses /\ ~r.consec
  IN IF ~c.useConsec THEN r
     ELSE [r EXCEPT !.losses = losses, !.consec = @ \/ trip,
             !.consecLeft = IF trip /\ c.consecCooloff > 0 THEN c.consecCooloff ELSE @]

\* risk_manager.py tick_cooloffs; a cooloff of 0 is the mode "session_end".
TickCooloffs(r) ==
  LET left(k) == IF k > 0 THEN k - 1 ELSE 0
  IN [r EXCEPT !.dd = @ /\ r.ddLeft # 1, !.ddLeft = IF r.dd THEN left(@) ELSE @,
               !.consec = @ /\ r.consecLeft # 1,
               !.consecLeft = IF r.consec THEN left(@) ELSE @]

\* risk_manager.py reset_daily with its configuration.
ResetDaily(c, r) ==
  [r EXCEPT !.day = 0, !.daily = FALSE,
            !.dd = @ /\ c.ddCooloff > 0, !.ddLeft = IF c.ddCooloff > 0 THEN @ ELSE 0,
            !.consec = @ /\ c.consecCooloff > 0, !.consecLeft = IF c.consecCooloff > 0 THEN @ ELSE 0]
=============================================================================
