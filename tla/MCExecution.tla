----------------------------- MODULE MCExecution -----------------------------
(* The bar loop of the backtester, the paper engine, the cross-validation  *)
(* of a trial, the study around it and the gates of a model's decisions,   *)
(* for TLC.  The initial state chooses the part and its configuration; a   *)
(* bar loop switches on what it is about and leaves the rest at the        *)
(* defaults of PatchConfig, scaled down.                                   *)
EXTENDS PaperEngine

Base(lot) ==
  [trail |-> FALSE, twap |-> FALSE, span |-> 2, cost |-> 0, guard |-> FALSE,
   sizing |-> "fixed", equity |-> 100, trust |-> lot, fraction |-> lot, kelly |-> lot, kellyMin |-> 1,
   maxLev |-> lot, atrSl |-> 1, target |-> lot, volTarget |-> FALSE, conviction |-> FALSE,
   stop |-> "none", sl |-> 2, tp |-> 4, be |-> FALSE, beTrigger |-> 1,
   partial |-> FALSE, tp1 |-> 2, tp2 |-> 0,
   trailing |-> "none", trailDist |-> 1, lookback |-> 2, activation |-> 1,
   z |-> [r \in 0..2 |-> [tp1 |-> 100, trail |-> 100]], dynVol |-> TRUE, moveToBe |-> TRUE,
   minHold |-> 0, maxHold |-> 0,
   kill |-> FALSE, killToEnd |-> TRUE, killCooloff |-> 0, killSigma |-> FALSE, killLimit |-> lot,
   riskEquity |-> 100, useDd |-> FALSE, maxDd |-> 5, ddCooloff |-> 0,
   useDaily |-> FALSE, maxDaily |-> lot, dailySigma |-> FALSE,
   useConsec |-> FALSE, maxLosses |-> 2, consecCooloff |-> 0]

StopsCfg == [Base(2) EXCEPT !.trail = TRUE, !.stop = "fixed_pips", !.trailing = "fixed_pips", !.be = TRUE,
               !.cost = 1, !.partial = TRUE, !.tp1 = 2, !.tp = 4, !.trailDist = 3, !.useConsec = TRUE, !.maxLosses = 9]
ChandelierCfg == [Base(2) EXCEPT !.trail = TRUE, !.stop = "atr", !.trailing = "chandelier", !.trailDist = 3,
               !.cost = 1, !.z = [r \in 0..2 |-> [tp1 |-> 2, trail |-> 2 + r]], !.minHold = 2, !.maxHold = 3,
               !.sizing = "fixed_fractional", !.useDaily = TRUE]
BreakersCfg == [Base(2) EXCEPT !.guard = TRUE, !.kill = TRUE, !.useDaily = TRUE, !.useDd = TRUE,
               !.ddCooloff = 1, !.cost = 1, !.killLimit = 4]
CooloffCfg  == [BreakersCfg EXCEPT !.trail = TRUE, !.killToEnd = FALSE, !.killCooloff = 2]
TwapCfg     == [Base(16) EXCEPT !.twap = TRUE, !.cost = 1, !.kill = TRUE, !.killLimit = 32]

Bar == [pred |-> 0, move |-> 0, up |-> 0, down |-> 0, newDay |-> FALSE, gap |-> FALSE,
        wide |-> FALSE, session |-> TRUE, vol |-> 1, atr |-> 1, regime |-> 0, conv |-> 2]

Day1 == {[Bar EXCEPT !.pred = s, !.newDay = TRUE] : s \in {-1, 1}}

StopBars == Day1 \cup {[Bar EXCEPT !.pred = s, !.move = m, !.up = u, !.down = d] :
              s \in {-1, 0, 1}, m \in -2..2, u \in 0..1, d \in 0..1}
ChandelierBars == Day1 \cup {[Bar EXCEPT !.pred = s, !.move = m, !.regime = r, !.vol = v, !.atr = v] :
              s \in {-1, 0, 1}, m \in -2..2, r \in {0, 2}, v \in 1..2}
DayBars == {[Bar EXCEPT !.pred = s, !.move = m, !.newDay = d, !.wide = w] :
              s \in {-1, 0, 1}, m \in {-2, 0, 2}, d \in BOOLEAN, w \in BOOLEAN}
GapBars == DayBars \cup {[Bar EXCEPT !.pred = s, !.gap = TRUE, !.session = FALSE] : s \in {-1, 1}}

\* stops in pips, and in average true ranges with the size that follows from them
PipsCfg == [sizing |-> "fixed", equity |-> 20, trust |-> 2, fraction |-> 2, kelly |-> 2, kellyMin |-> 1,
            maxLev |-> 4, atrSl |-> 1, target |-> 2,
            stop |-> "fixed_pips", sl |-> 2, tp |-> 3, partial |-> FALSE, tp1 |-> 0, tp2 |-> 0]
AtrCfg  == [PipsCfg EXCEPT !.stop = "atr", !.sl = 1, !.tp = 2, !.sizing = "atr"]
PaperCfgs == {PipsCfg, AtrCfg}
PaperBids == 10..14
PaperAtrs == {1, 2}

\* cross-validations: anchored and spread, calendar months, a horizon beyond the
\* embargo, either gate, folds too short, too little data
Cv == [total |-> 2000, blocks |-> 4, valFrac |-> 5, minFrac |-> 75, embargo |-> 48, horizon |-> 24,
       tail |-> TRUE, monthly |-> FALSE, monthBars |-> 100, offset |-> 0, valMonths |-> 1,
       trainMonths |-> 6, rolling |-> FALSE, window |-> 50, lags |-> 5, adaptive |-> TRUE,
       strict |-> FALSE, relax |-> TRUE, precision |-> FALSE, scheduler |-> FALSE, trim |-> 20, pbo |-> 30]
CvCfgs == {
  [Cv EXCEPT !.relax = FALSE, !.minFrac = 70, !.blocks = 5],
  Cv,
  [Cv EXCEPT !.horizon = 60, !.rolling = TRUE, !.adaptive = FALSE],
  [Cv EXCEPT !.adaptive = FALSE, !.strict = TRUE, !.blocks = 3],
  [Cv EXCEPT !.monthly = TRUE, !.offset = 30, !.horizon = 60, !.tail = FALSE, !.relax = FALSE],
  [Cv EXCEPT !.monthly = TRUE, !.valMonths = 2],
  [Cv EXCEPT !.total = 450, !.blocks = 3, !.scheduler = TRUE, !.precision = TRUE],
  [Cv EXCEPT !.total = 500, !.blocks = 3, !.tail = FALSE, !.relax = FALSE],
  [Cv EXCEPT !.total = 300, !.window = 301],
  [Cv EXCEPT !.total = 100]}
\* 10 tanh(x / 10) in hundredths
Squashed == [x \in {-8, 1, 20} |-> CASE x = -8 -> -664 [] x = 1 -> 100 [] OTHER -> 964]

\* studies: two with the pruner, one of a process without pruning, two of no trials
Opt == [trials |-> 5, patience |-> 2, delta |-> 2, minTrials |-> 0, adaptive |-> TRUE, grace |-> 2,
        topN |-> 2, noPrune |-> FALSE, cached |-> FALSE, robust |-> "off", verify |-> FALSE, pool |-> 0]
StudyOpts == {
  Opt,
  [Opt EXCEPT !.trials = 4, !.minTrials = 4, !.robust = "require", !.topN = 1],
  [Opt EXCEPT !.trials = 3, !.noPrune = TRUE, !.robust = "note", !.verify = TRUE, !.adaptive = FALSE, !.pool = 2],
  [Opt EXCEPT !.trials = 0],
  [Opt EXCEPT !.trials = 0, !.cached = TRUE]}
Outcome(params, m, pen) == [params |-> params, mean |-> m, penalty |-> pen, enough |-> pen = 0]
StudyOutcomes == {Outcome(1, 2, 0), Outcome(4, 9, 1), Outcome(5, -2, 0)}

\* gates: each kind of model, with and without its calibrated threshold
GateOpt == [path |-> "tree", cv |-> FALSE, coverage |-> TRUE, thr |-> 55, qcap |-> TRUE,
            backoff |-> FALSE, day |-> 9]
Gates == {
  GateOpt,
  [GateOpt EXCEPT !.cv = TRUE, !.thr = 0, !.day = 2],
  [GateOpt EXCEPT !.path = "transformer"],
  [GateOpt EXCEPT !.path = "transformer", !.thr = 26, !.qcap = FALSE, !.day = 3],
  [GateOpt EXCEPT !.path = "lstm"],
  [GateOpt EXCEPT !.path = "lstm", !.coverage = FALSE, !.day = 3],
  [GateOpt EXCEPT !.path = "rows", !.backoff = TRUE],
  [GateOpt EXCEPT !.path = "rows", !.cv = TRUE]}
Look(s, f, l, cost) == [short |-> s, flat |-> f, long |-> l, cost |-> cost]
GateLooks == {Look(15, 60, 25, 0), Look(54, 4, 42, 0), Look(5, 38, 57, 2)}

VARIABLE part
VARIABLES  \* of ExecutionLoop
  close, xl_pred, pos, trade, ramp, kill, sizing, risk, accum, n, seen
VARIABLES  \* of CrossValidation
  c, cutoff, plan, rows, scores, result
VARIABLES  \* of StrategyGate
  sg_opt, bars, sg_pred, void
VARIABLES  \* of TuningStudy
  ts_opt, trials, champs, plateau, tmp, found

xl == <<close, xl_pred, pos, trade, ramp, kill, sizing, risk, accum, n, seen>>
cv == <<c, cutoff, plan, rows, scores, result>>
sg == <<sg_opt, bars, sg_pred, void>>
ts == <<ts_opt, trials, champs, plateau, tmp, found>>
suiteVars == <<part, vars, xl, cv, sg, ts>>

Stops == INSTANCE ExecutionLoop WITH Lot <- 2, StartClose <- 12, MaxBars <- 5,
  Cfg <- StopsCfg, Bars <- StopBars, pred <- xl_pred
Chandelier == INSTANCE ExecutionLoop WITH Lot <- 2, StartClose <- 12, MaxBars <- 4,
  Cfg <- ChandelierCfg, Bars <- ChandelierBars, pred <- xl_pred
Breakers == INSTANCE ExecutionLoop WITH Lot <- 2, StartClose <- 12, MaxBars <- 5,
  Cfg <- BreakersCfg, Bars <- GapBars, pred <- xl_pred
Cooloff == INSTANCE ExecutionLoop WITH Lot <- 2, StartClose <- 12, MaxBars <- 5,
  Cfg <- CooloffCfg, Bars <- GapBars, pred <- xl_pred
Twap == INSTANCE ExecutionLoop WITH Lot <- 16, StartClose <- 12, MaxBars <- 4,
  Cfg <- TwapCfg, Bars <- DayBars, pred <- xl_pred
Folds == INSTANCE CrossValidation WITH Cfgs <- CvCfgs, Scores <- DOMAIN Squashed,
  Squash <- Squashed, Cutoffs <- {0}
Gate == INSTANCE StrategyGate WITH Opts <- Gates, Looks <- GateLooks, Night <- 2, Lead <- 1,
  MaxBars <- 7, Requested <- 60, MinThr <- 33, MaxThr <- 90, Floor <- 33, Target <- 50,
  Band <- 10, Step <- 2, Window <- 3, MinPeriods <- 2, Shapes <- [rows : 0..9, win : 1..4,
  stride : 1..3, most : 1..4], opt <- sg_opt, pred <- sg_pred
Study == INSTANCE TuningStudy WITH Opts <- StudyOpts, Outcomes <- StudyOutcomes, Cap <- 6,
  Radius <- 1, Share <- 2, Verdicts <- {0, 1}, opt <- ts_opt

----------------------------------------------------------------------------
Assumed == Folds!CrossValidationAssumption /\ Study!TuningAssumption /\ Gate!GateAssumption
ASSUME Assumed

Loops   == {"stops", "chandelier", "breakers", "cooloff", "twap"}

SuiteInit ==
  /\ part \in Loops \cup {"paper", "folds", "study", "gate"}
  /\ CASE part = "stops"      -> Stops!Init
       [] part = "chandelier" -> Chandelier!Init
       [] part = "breakers"   -> Breakers!Init
       [] part = "cooloff"    -> Cooloff!Init
       [] OTHER               -> Twap!Init
  /\ Init /\ (part # "paper" => cfg = PipsCfg /\ mid = 21)
  /\ Folds!Init /\ (part # "folds" => c = Cv /\ cutoff = {})
  /\ Study!Init /\ (part # "study" => ts_opt = Opt)
  /\ Gate!Init /\ (part # "gate" => sg_opt = GateOpt)

SuiteNext ==
  \/ part = "stops"      /\ Stops!Next      /\ UNCHANGED <<part, vars, cv, ts, sg>>
  \/ part = "chandelier" /\ Chandelier!Next /\ UNCHANGED <<part, vars, cv, ts, sg>>
  \/ part = "breakers"   /\ Breakers!Next   /\ UNCHANGED <<part, vars, cv, ts, sg>>
  \/ part = "cooloff"    /\ Cooloff!Next    /\ UNCHANGED <<part, vars, cv, ts, sg>>
  \/ part = "twap"       /\ Twap!Next       /\ UNCHANGED <<part, vars, cv, ts, sg>>
  \/ part = "paper"      /\ Next            /\ UNCHANGED <<part, xl, cv, ts, sg>>
  \/ part = "folds"      /\ Folds!Next      /\ UNCHANGED <<part, vars, xl, ts, sg>>
  \/ part = "study"      /\ Study!Next      /\ UNCHANGED <<part, vars, xl, cv, sg>>
  \/ part = "gate"       /\ Gate!NextBar    /\ UNCHANGED <<part, vars, xl, cv, ts>>

Suite == SuiteInit /\ [][SuiteNext]_suiteVars

----------------------------------------------------------------------------
(* Properties: those of the parts.                                         *)

\* Every part keeps the types of its state.
TypesOK == CASE part = "stops"      -> Stops!TypeOK
             [] part = "chandelier" -> Chandelier!TypeOK
             [] part = "breakers"   -> Breakers!TypeOK
             [] part = "cooloff"    -> Cooloff!TypeOK
             [] part = "twap"       -> Twap!TypeOK
             [] part = "paper"      -> TypeOK
             [] part = "folds"      -> Folds!TypeOK
             [] part = "study"      -> Study!TypeOK
             [] part = "gate"       -> Gate!TypeOK

\* What the loop holds and what it tells sizing and risk is explained by its
\* trades: the sum of a whole trade is its move less the fee, the breaker counts
\* the losing trades in a row, however ramps overlap the position keeps its
\* bound, and a bar that a kill or a breaker gates ends flat, on either path; a
\* decision is one the model is sure enough of, however coverage pulls at its
\* threshold.
PositionsExplained == /\ part = "stops" => Stops!TradePnlExact /\ Stops!LossesCounted
                      /\ part = "chandelier" => Chandelier!TradePnlExact
                      /\ part = "twap" => Twap!PositionBounded
                      /\ part = "breakers" => Breakers!GatedIsFlat
                      /\ part = "cooloff"  => Cooloff!GatedIsFlat
                      /\ part = "gate"     => Gate!TradesMeant /\ Gate!NudgesHelp

\* No training label reaches into a validation, whichever windows the folds
\* are laid with, validations do not share bars, and a model of windows is
\* trained on the last of them.
FoldsSound == Folds!NothingLeaks /\ Folds!BlocksApart /\ (part = "gate" => Gate!TrainedOnLast)

\* A trial that is scored is scored on the folds it made, and no single fold
\* carries it; one given up for its invalid folds could not have been scored.
\* A search stops only where it stood still, gives up no trial that does as
\* well as its champions, and what it returns stands for all it has seen.
TrialsJudged == /\ Folds!ScoredIsAligned /\ Folds!SecondBestBounds /\ Folds!GivenUpIsLost
                /\ Study!PlateauIsFlat /\ Study!CutIsBelowChampions /\ Study!TopCovers

\* The tripwire of run_mixin.py:3014: as many scores as folds begun.
Aligned == Folds!Aligned

\* What was decided stands: breakeven and trailing only move a stop toward the
\* price, a bar gated by a kill or a breaker costs no more than closing, and no
\* decision of a gate is revised by a bar that comes after it.  A bar of the
\* loop implements Account: over stops, half closes and reversals its equity is
\* what dealing at prices of the bars would have left.
PastStands ==
  /\ Gate!Causal  \* the window of the other parts is empty
  /\ part = "stops" => Stops!Ledger!Init
  /\ [][/\ trade.in /\ part \in {"stops", "chandelier"} /\ trade'.in
           => trade.dirn * (trade'.levels.sl - trade.levels.sl) >= 0
        /\ part = "breakers" /\ seen'.gates \cap {"risk", "kill"} # {}
           => sizing'.equity >= sizing.equity - BreakersCfg.cost * (IF pos < 0 THEN -pos ELSE pos)
        /\ part = "stops" => Stops!Ledger!Next \/ UNCHANGED <<pos, close, sizing>>]_suiteVars

=============================================================================
