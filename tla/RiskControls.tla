--------------------------- MODULE RiskControls ---------------------------
(***************************************************************************)
(* trading/risk_controls.py: the gates, monitors and guards of a live      *)
(* session.  Pure operators over the configuration c and the risk state r. *)
(* Percentages are whole, time is in ticks, money is whole.  Left out: the *)
(* breach and rejection counters, which nothing reads.                     *)
(***************************************************************************)
EXTENDS Integers, Sequences, SequencesExt

CONSTANTS HourTicks,   \* ticks in a clock hour
          DayTicks,    \* ticks in a day
          WindowCap    \* maxlen of trade_pnl_window

Never == -1

RiskStates ==
  [equity : Int, peak : Int, day : Int, losses : Nat, window : Seq(Int), daily : Nat, hourly : Nat,
   hour : Nat, trade : Nat \cup {Never}, beat : Nat, errors : Nat, killed : BOOLEAN]

NewSessionState(c) ==
  [equity |-> c.equity, peak |-> c.equity, day |-> c.equity, losses |-> 0, window |-> <<>>,
   daily |-> 0, hourly |-> 0, hour |-> 0, trade |-> Never, beat |-> 0, errors |-> 0, killed |-> FALSE]

RecordApiError(r)   == [r EXCEPT !.errors = @ + 1]
RecordApiSuccess(r) == [r EXCEPT !.errors = 0]

\* slip: only the day's trades are counted
SubmissionPerDay(r, now) == [r EXCEPT !.daily = @ + 1, !.trade = now]

RecordTradeSubmission(r, now) == [r EXCEPT !.daily = @ + 1, !.hourly = @ + 1, !.trade = now]

---------------------------------------------------------------------------
(* Layer 1: the gates that refuse an order.                                *)

\* gate_max_hourly_trades starts the count of a new clock hour.
RollHour(c, r, now) ==
  IF c.enabled /\ now \div HourTicks # r.hour THEN [r EXCEPT !.hourly = 0, !.hour = now \div HourTicks]
  ELSE r

\* gate_trade_cooldown: how long after the last trade this direction must wait.
CooldownNeeded(c, dirn, lastDir) ==
  IF lastDir = 0 THEN 0 ELSE IF dirn = lastDir THEN c.cooldown ELSE c.reversal

\* check_all_pre_trade_gates, on a risk state whose hour is rolled; bad
\* is what is wrong outside: a low confidence, the weekend, a used up margin.
Blocked(c, r, dirn, lastDir, now, size, bad) ==
  {g \in {"G1", "G2", "G3", "G4", "G5", "G6", "G7"} :
     c.enabled /\ \/ g = "G1" /\ 100 * size > r.equity * c.maxPosition
                  \/ g = "G2" /\ r.daily >= c.maxDaily
                  \/ g = "G3" /\ r.hourly >= c.maxHourly
                  \/ g = "G4" /\ bad = "doubtful"
                  \/ g = "G5" /\ r.trade # Never /\ now - r.trade < CooldownNeeded(c, dirn, lastDir)
                  \/ g = "G6" /\ bad = "weekend"
                  \/ g = "G7" /\ bad = "margin"}

---------------------------------------------------------------------------
(* Layer 2: the monitors that run when a trade was closed.                 *)

\* check_all_post_trade_gates books the trade; check_drawdown_kill moves the peak.
AfterTrade(c, r, pnl) ==
  LET w == Append(r.window, pnl)
  IN IF ~c.enabled THEN r
     ELSE [r EXCEPT !.window = IF Len(w) > WindowCap THEN Tail(w) ELSE w,
                    !.losses = IF pnl > 0 THEN 0 ELSE @ + 1,
                    !.peak = IF c.useDd /\ r.equity > @ THEN r.equity ELSE @]

DrawdownExceeded(c, r) == c.useDd /\ r.peak > 0 /\ 100 * (r.peak - r.equity) >= c.maxDd * r.peak
DailyLossExceeded(c, r) ==
  c.useDaily /\ r.equity < r.day /\ 100 * (r.day - r.equity) >= c.maxDailyLoss * (IF r.day > 1 THEN r.day ELSE 1)
LossesExceeded(c, r) == c.useConsec /\ r.losses >= c.maxLosses

Recent(c, r) == SubSeq(r.window, Len(r.window) - c.rolling + 1, Len(r.window))
SumWhere(s, P(_)) == FoldSeq(LAMBDA x, acc : acc + (IF P(x) THEN x ELSE 0), 0, s)

\* mean / std * sqrt(n) below -minSharpe, squared so that it stays whole
SharpeLow(c, s) ==
  LET n == Len(s)  sum == SumWhere(s, LAMBDA x : TRUE)
      squares == FoldSeq(LAMBDA x, acc : acc + x * x, 0, s)
  IN sum < 0 /\ sum * sum * (n - 1) > c.minSharpe * c.minSharpe * (n * squares - sum * sum)

WinRateLow(c, s) == 100 * Cardinality({i \in DOMAIN s : s[i] > 0}) < c.minWinRate * Len(s)

ProfitFactorLow(c, s) ==
  LET lost == -SumWhere(s, LAMBDA x : x <= 0)
  IN 100 * SumWhere(s, LAMBDA x : x > 0) < c.minProfitFactor * lost

RollingReady(c, r) == Len(r.window) >= c.rolling

\* The monitors M1 to M6 that fire on r.
Monitors(c, r) ==
  {m \in {"M1", "M2", "M3", "M4", "M5", "M6"} :
     c.enabled /\ \/ m = "M1" /\ DrawdownExceeded(c, r)
                  \/ m = "M2" /\ DailyLossExceeded(c, r)
                  \/ m = "M3" /\ LossesExceeded(c, r)
                  \/ c.useRolling /\ RollingReady(c, r) /\
                       \/ m = "M4" /\ SharpeLow(c, Recent(c, r))
                       \/ m = "M5" /\ WinRateLow(c, Recent(c, r))
                       \/ m = "M6" /\ ProfitFactorLow(c, Recent(c, r))}

---------------------------------------------------------------------------
(* Layer 3: the guards that run before a signal is looked at.              *)

\* check_all_infra_guards; a session starts at time 0.
Guards(c, r, now, bad) ==
  {g \in {"I1", "I3", "I4", "I5", "I6"} :
     c.enabled /\ \/ g = "I1" /\ bad = "stale"
                  \/ g = "I3" /\ now - r.beat > c.heartbeat
                  \/ g = "I4" /\ now > c.lifetime
                  \/ g = "I5" /\ r.errors >= c.maxErrors
                  \/ g = "I6" /\ 100 * r.equity < c.equity * c.minEquity}
=============================================================================
