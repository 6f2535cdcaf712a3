---------------------------- MODULE StrategyGate ----------------------------
(* How a model's probabilities become the decisions of a test window:        *)
(* test_strategy of pipeline/backtester/strategy_mixin.py, for the tree      *)
(* models, the transformer and the LSTM on sequence windows, and the models  *)
(* fed row by row.  The window is evaluated again after each bar that is     *)
(* added to it, as if the data ended there.  Probabilities, thresholds and   *)
(* rates are percent; costs are what volatility, spread and slippage add.    *)
EXTENDS Integers, Sequences, FiniteSetsExt, SequencesExt

CONSTANTS
  Opts,       \* [path, cv, coverage, thr, qcap, backoff, day]; thr: the threshold calibrated
              \* for the coverage, 0 if calibration failed; day: bars of a session
  Looks,      \* [short, flat, long, cost] of a bar
  Night,      \* bars between two sessions
  Lead,       \* bars of the window before the first one evaluated
  MaxBars,
  Requested,  \* confidence_threshold
  MinThr, MaxThr, Floor,  \* min_conf_thr, max_conf_thr, conf_backoff_floor
  Target, Band, Step,     \* target_active_rate, its margin, runtime_conf_nudge
  Window, MinPeriods,     \* runtime_coverage_window (and coverage_rolling_window)
  Shapes      \* [rows, win, stride, most] of training windows

GateAssumption ==
  /\ Night \in Nat /\ Lead \in Nat /\ MaxBars \in Nat
  /\ 0 <= MinThr /\ MinThr <= MaxThr /\ MaxThr <= 100 /\ Floor \in 0..100 /\ Requested \in 0..100
  /\ Target \in 1..99 /\ Band \in 0..Target /\ Step \in Nat \ {0} /\ 2 * Step <= Band
  /\ Window \in Nat \ {0, 1} /\ MinPeriods \in 1..Window
  /\ \A o \in Opts : o.path \in {"tree", "transformer", "lstm", "rows"} /\ o.thr \in 0..100 /\ o.day \in Nat \ {0}

VARIABLES
  opt,   \* the settings of this evaluation
  bars,  \* the bars of the window: [look, at]
  pred,  \* test_data_for_eval["pred"]
  void   \* whether the evaluation returned no metrics

sg == <<opt, bars, pred, void>>

----------------------------------------------------------------------------
(* Training windows: the rows they end at, by stride, and the slice that     *)
(* spares building those that are not used.                                  *)

Ends(first, rows, win, stride) ==
  {first + win - 1 + k * stride : k \in {j \in 0..rows : first + win - 1 + j * stride < rows}}
Windows(s) == IF s.rows < s.win THEN 0 ELSE (s.rows - s.win + s.stride) \div s.stride
StartIdxAt(s) == IF Windows(s) <= s.most THEN 0 ELSE Windows(s) - s.most
StartIdx(s) == IF Windows(s) <= s.most THEN 0 ELSE (Windows(s) - s.most) * s.stride
Trained(s) == Ends(StartIdx(s), s.rows, s.win, s.stride)

----------------------------------------------------------------------------
(* What the model says.                                                      *)

Dir(l) == IF l.long > l.short THEN 1 ELSE IF l.short > l.long THEN -1 ELSE 0

(* The tree models count the certainty of a flat bar as well.                *)
Conf(l) == Max(IF opt.path = "tree" THEN {l.short, l.flat, l.long} ELSE {l.short, l.long})

Confs(bs, from, to) == [k \in 1..(to - from + 1) |-> Conf(bs[from + k - 1].look)]

(* numpy's quantile, q in percent, rounded down.                             *)
Quantile(s, q) ==
  LET r == SortSeq(s, <) at == (Len(s) - 1) * q lo == 1 + at \div 100 hi == Min({lo + 1, Len(s)})
  IN (r[lo] * (100 - (at % 100)) + r[hi] * (at % 100)) \div 100

Clip(x, low, high) == Max({low, Min({x, high})})

Evaluated(bs) == (Lead + 1)..Len(bs)

----------------------------------------------------------------------------
(* Thresholds.                                                               *)

(* The calibrated threshold; where there should be one and is none, a fold   *)
(* of the cross-validation is gated and anything else asks what was asked.   *)
Base == IF ~opt.coverage THEN Requested
        ELSE IF opt.thr # 0 THEN opt.thr
        ELSE IF opt.cv THEN MaxThr ELSE Requested

(* The LSTM prefers the quantile of the bars just before.                    *)
Rolled(bs, k) ==
  LET from == Max({1, k - Window})
  IN IF opt.path = "lstm" /\ opt.coverage /\ k - from >= MinPeriods
     THEN Quantile(Confs(bs, from, k - 1), 100 - Target) ELSE Base

Priced(bs) ==
  [k \in DOMAIN bs |-> Clip(Rolled(bs, k) + bs[k].look.cost, IF opt.path = "tree" THEN MinThr ELSE 0, MaxThr)]

Fires(bs, thr, k) == Dir(bs[k].look) # 0 /\ Conf(bs[k].look) >= thr[k]
Active(bs, thr, ks) == Cardinality({k \in ks : Fires(bs, thr, k)})

(* A transformer whose whole window is too quiet gets no more than the       *)
(* quantile of the bars before each bar.                                     *)
Starved(bs) ==
  /\ opt.path = "transformer" /\ opt.qcap /\ Cardinality(Evaluated(bs)) >= Window
  /\ 100 * Active(bs, Priced(bs), Evaluated(bs)) < (Target - Band) * Cardinality(Evaluated(bs))
Capped(bs) ==
  LET thr == Priced(bs) starved == Starved(bs)
  IN [k \in DOMAIN bs |->
        IF starved /\ k > Lead + Window
        THEN Min({thr[k], Quantile(Confs(bs, k - Window, k - 1), 100 - Target)})
        ELSE thr[k]]

(* Too quiet a window behind a bar lowers its threshold, too busy raises it. *)
RecentAhead(bs, thr, k) ==
  IF k + Window - 1 > Len(bs) THEN 0
  ELSE LET n == 100 * Active(bs, thr, k..(k + Window - 1))
       IN IF n < (Target - Band) * Window THEN -Step ELSE IF n > Min({100, Target + Band}) * Window THEN Step ELSE 0
Recent(bs, thr, k) ==
  IF k < Lead + Window THEN 0
  ELSE LET n == 100 * Active(bs, thr, (k - Window + 1)..k)
       IN IF n < (Target - Band) * Window THEN -Step ELSE IF n > Min({100, Target + Band}) * Window THEN Step ELSE 0
Nudged(bs) ==
  LET thr == Capped(bs)
  IN [k \in DOMAIN bs |->
        IF k <= Lead THEN thr[k] ELSE Clip(thr[k] + Recent(bs, thr, k), MinThr, MaxThr)]

(* Row by row there is one threshold: the first that lets a bar through.     *)
Candidates(bs) ==
  IF ~opt.backoff THEN <<Base>>
  ELSE LET c == Confs(bs, 1, Len(bs)) low == <<Base, Min({Base, Quantile(c, 90)}), Quantile(c, 75)>>
       IN [k \in 1..3 |-> Max({Floor, low[k]})] \o (IF opt.cv THEN <<>> ELSE <<Floor>>)
Opening(bs, t) == \E k \in DOMAIN bs : Dir(bs[k].look) # 0 /\ Conf(bs[k].look) >= t
Scalar(bs) ==
  LET c == Candidates(bs) ok == {i \in DOMAIN c : Opening(bs, c[i])}
  IN [k \in DOMAIN bs |-> IF ok = {} THEN 101 ELSE c[Min(ok)]]

Thresholds(bs) == IF opt.path = "rows" THEN Scalar(bs) ELSE Nudged(bs)

----------------------------------------------------------------------------
(* Decisions.                                                                *)

(* A bar is an edge if the next one is further than usual.                   *)
Dist(bs) == [k \in 1..(Len(bs) - Lead - 1) |-> bs[Lead + k + 1].at - bs[Lead + k].at]
TwiceUsual(bs) == IF Dist(bs) = <<>> THEN 0 ELSE Quantile([k \in DOMAIN Dist(bs) |-> 2 * Dist(bs)[k]], 50)
Edge(bs, k) == k = Len(bs) \/ 4 * (bs[k + 1].at - bs[k].at) > 3 * TwiceUsual(bs)

Decisions(bs) ==
  LET thr == Thresholds(bs)
  IN [k \in 1..(Len(bs) - Lead) |->
        IF Fires(bs, thr, Lead + k) /\ ~Edge(bs, Lead + k) THEN Dir(bs[Lead + k].look) ELSE 0]

(* Without a trade the sequence models return no metrics; the others do not  *)
(* in the cross-validation only.  Row by row the bars before the window count.  *)
Void(bs) ==
  LET thr == Thresholds(bs)
  IN CASE opt.path = "rows" -> opt.cv /\ \A k \in DOMAIN bs : ~Fires(bs, thr, k)
       [] opt.path = "tree" -> opt.cv /\ \A k \in Evaluated(bs) : ~Fires(bs, thr, k)
       [] OTHER -> \A k \in Evaluated(bs) : ~Fires(bs, thr, k)

NextBar ==
  /\ Len(bars) < MaxBars
  /\ \E l \in Looks :
       bars' = Append(bars, [look |-> l, at |-> Len(bars) + Night * (Len(bars) \div opt.day)])
  /\ pred' = IF Len(bars') > Lead THEN Decisions(bars') ELSE <<>>
  /\ void' = (Len(bars') <= Lead \/ Void(bars'))
  /\ UNCHANGED opt

Init == opt \in Opts /\ bars = <<>> /\ pred = <<>> /\ void = TRUE

Spec == Init /\ [][NextBar]_sg

----------------------------------------------------------------------------
TypeOK ==
  /\ opt \in Opts /\ \A k \in DOMAIN bars : bars[k].look \in Looks
  /\ pred \in Seq({-1, 0, 1}) /\ Len(pred) = Max({0, Len(bars) - Lead}) /\ void \in BOOLEAN

(* No decision depends on a bar that comes after it: what was decided for    *)
(* all but the last bar stays when a bar is added.  Three things look at the *)
(* whole window: the cap of a starved transformer, the thresholds that are   *)
(* tried one after the other, and the usual distance of bars.                *)
Causal ==
  [][\A k \in 1..(Len(pred) - 1) : pred'[k] # pred[k] =>
       \/ opt.path = "rows" /\ opt.backoff
       \/ Starved(bars') # Starved(bars)
       \/ TwiceUsual(bars') # TwiceUsual(bars)]_sg

(* However coverage pulls at the threshold, a trade follows the stronger     *)
(* side; a sequence model is at least as sure of it as the lowest threshold, *)
(* and a window without metrics holds no decision.                           *)
TradesMeant ==
  /\ \A k \in DOMAIN pred : pred[k] # 0 =>
       LET l == bars[Lead + k].look side == IF pred[k] = 1 THEN l.long ELSE l.short
       IN /\ side = Max({l.long, l.short}) /\ l.long # l.short
          /\ opt.path \in {"transformer", "lstm"} => side >= MinThr
          /\ opt.path = "rows" => side >= Min({Base, Floor})
          /\ opt.path = "tree" => Max({side, l.flat}) >= MinThr
  /\ void => \A k \in DOMAIN pred : pred[k] = 0

(* A nudge down silences no bar that is sure enough for the lowest           *)
(* threshold, and a nudge up lets none through that was held back.           *)
NudgesHelp ==
  opt.path # "rows" =>
    LET thr == Capped(bars) nudged == Nudged(bars)
    IN \A k \in Evaluated(bars) :
         LET was == Fires(bars, thr, k) is == Fires(bars, nudged, k)
         IN /\ Recent(bars, thr, k) < 0 /\ was /\ Conf(bars[k].look) >= MinThr => is
            /\ Recent(bars, thr, k) > 0 /\ ~was => ~is

(* Slicing the training rows first gives the same windows as taking the last *)
(* of all.                                                                   *)
TrainedOnLast ==
  bars = <<>> => \A s \in Shapes :
    LET all == Ends(0, s.rows, s.win, s.stride)
    IN Trained(s) = {e \in all : Cardinality({f \in all : f > e}) < s.most}

=============================================================================
