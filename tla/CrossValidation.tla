--------------------------- MODULE CrossValidation ---------------------------
(* The cross-validation of one trial of a study (_single_study_cv of         *)
(* pipeline/backtester/run_mixin.py): the folds it lays over the bars, what  *)
(* it records of each, when it gives the trial up, and the score it returns. *)
(* Bars are positions, a fold's training and validation bars are intervals   *)
(* <<first, end>> without their end.  What a model makes of a fold is any    *)
(* outcome; scores are whole numbers, the trial's score is in hundredths.    *)
EXTENDS Integers, Sequences, FiniteSetsExt, SequencesExt

CONSTANTS
  Cfgs,      \* the configurations and data a trial may have
  Scores,    \* the penalised Sharpe ratios of a fold
  Squash,    \* s tanh(x / s) of each score, in hundredths
  Cutoffs    \* what the history of the study asks of the mean of the folds

(* tanh bends scores toward zero and keeps their order.                      *)
CrossValidationAssumption ==
  /\ Scores \subseteq Int /\ Cutoffs \subseteq Int
  /\ Squash \in [Scores -> Int]
  /\ \A x, y \in Scores : x <= y => Squash[x] <= Squash[y]
  /\ \A c \in Cfgs : /\ c.total \in Nat \ {0} /\ c.blocks \in Nat \ {0}
                     /\ c.embargo \in Nat /\ c.horizon \in Nat
                     /\ c.trim \in 0..50 /\ c.pbo \in Nat

VARIABLES
  c,         \* the configuration of this trial and its data
  cutoff,    \* AdaptivePruner's cutoff: {} while it has no history, or one number
  plan,      \* fold_iter: the folds
  rows,      \* block_rows: how many folds were begun
  scores,    \* block_scores with the trades and reasons appended beside them
  result     \* what the caller got, or that the trial goes on

cv == <<c, cutoff, plan, rows, scores, result>>

(* Python's round: halves go to the even neighbour.                          *)
Round(a, b) == LET q == a \div b  r == a % b
               IN IF 2 * r > b \/ (2 * r = b /\ q % 2 = 1) THEN q + 1 ELSE q

----------------------------------------------------------------------------
(* Mini-blocks.                                                              *)

EmbargoCvOnly == c.embargo
Embargo == Max({c.embargo, c.horizon})

ValWindow == Max({Min({120, Max({30, Round(3 * c.total, 100)})}), Round(c.valFrac * c.total, 100)})

SMin == Round(c.minFrac * c.total, 100) + Embargo
SMax == c.total - ValWindow

Blocks == Min({c.blocks, Max({1, SMax - SMin}) \div ValWindow + 1})

(* n blocks from SMin on, spread over the span.                              *)
SpreadSplits(n) ==
  LET slack == SMax - SMin - n * ValWindow
      gap   == IF n = 1 THEN 0 ELSE Max({0, slack \div (n - 1)})
  IN [i \in 1..n |-> SMin + (i - 1) * (ValWindow + gap)]

Splits == IF c.tail THEN Append(SpreadSplits(Blocks - 1), SMax) ELSE SpreadSplits(Blocks)

(* Removes the bars whose label reaches into the validation; it counts from  *)
(* the first training bar and compares with a position in the data.          *)
Purge(train, valStart) ==
  IF Embargo = 0 THEN train
  ELSE <<train[1], train[1] + Min({train[2] - train[1], Max({0, valStart - Embargo})})>>

MiniBlock(split) ==
  LET end   == Max({0, split - Embargo})
      first == IF c.rolling THEN Max({0, end - Max({50, c.monthBars * c.trainMonths})}) ELSE 0
  IN [train |-> Purge(<<first, end>>, split),
      val   |-> <<split, Min({split + ValWindow, c.total})>>]

----------------------------------------------------------------------------
(* Calendar months: monthBars bars each, the first without its first         *)
(* c.offset bars.                                                            *)

Position(month) == Min({c.total, Max({0, month * c.monthBars - c.offset})})

MonthFold(month) ==
  LET valStart == Position(month)
      end      == Max({0, valStart - Embargo})
  IN [train |-> <<Min({end, Max({0, end - 1 - c.trainMonths * c.monthBars})}), end>>,
      val   |-> <<valStart, Position(month + c.valMonths)>>]

(* The last months, those long enough on both sides.                         *)
MonthlyFolds ==
  LET months == (c.offset + c.total - 1) \div c.monthBars + 1
      last   == [i \in 1..Min({c.blocks, months}) |->
                   MonthFold(months - Min({c.blocks, months}) + i - 1)]
      Enough(f) ==
        /\ f.train[2] - f.train[1] >= Max({50, 3 * c.monthBars})
        /\ f.val[2] - f.val[1] >= Max({10, Round(6 * c.monthBars * c.valMonths, 10)})
  IN SelectSeq(last, Enough)

Plan == IF c.monthly /\ Len(MonthlyFolds) >= 3
        THEN [i \in DOMAIN MonthlyFolds |->
                [MonthlyFolds[i] EXCEPT !.train = Purge(@, MonthlyFolds[i].val[1])]]
        ELSE [i \in DOMAIN Splits |-> MiniBlock(Splits[i])]

----------------------------------------------------------------------------
(* What is recorded.  An entry tells the fold it was made in, which the      *)
(* lists of the code do not.                                                 *)

None == [fold |-> 0, ok |-> FALSE, score |-> 0, active |-> FALSE]

Invalid(active) == [None EXCEPT !.fold = rows + 1, !.active = active \/ ~c.relax]
Valid(s, active) == [fold |-> rows + 1, ok |-> TRUE, score |-> s, active |-> active \/ ~c.relax]

ValidOf(es) == SelectSeq(es, LAMBDA e : e.ok)
Total(es)   == FoldSeq(LAMBDA e, n : e.score + n, 0, es)

(* _early_structural_prune_if_hopeless: no valid fold after two, too few     *)
(* left for four fifths, or a mean that the history or the threshold rules   *)
(* out.                                                                      *)
Hopeless(es) ==
  LET valid     == ValidOf(es)
      remaining == Max({0, Len(Splits) - Len(es)})
  IN /\ Len(Splits) > 1 /\ es # <<>>
     /\ \/ Len(es) >= 2 /\ valid = <<>>
        \/ 5 * (Len(valid) + remaining) < 4 * Len(Splits)
        \/ /\ Len(valid) >= 3
           /\ IF c.adaptive THEN \E x \in cutoff : Total(valid) < x * Len(valid)
                            ELSE c.relax /\ 4 * Total(valid) < -3 * Len(valid)

Begin(es) == /\ scores' = scores \o es
             /\ rows' = rows + 1
             /\ UNCHANGED <<c, cutoff, plan>>

EndWith(kind) == result' = [kind |-> kind, score |-> 0]

PruneIfHopeless == IF Hopeless(scores') THEN EndWith("pruned") ELSE UNCHANGED result

----------------------------------------------------------------------------
Running == result.kind = "running"
AtFold  == Running /\ plan # <<>> /\ rows < Len(plan)

Init ==
  /\ c \in Cfgs
  /\ cutoff \in {{}} \cup {{x} : x \in Cutoffs}
  /\ plan = <<>> /\ rows = 0 /\ scores = <<>>
  /\ result = [kind |-> "running", score |-> 0]

(* Too little data for the windows asked for is no score, blocks that cannot *)
(* be formed prune the trial.                                                *)
Start ==
  /\ Running /\ plan = <<>>
  /\ CASE c.window > c.total -> EndWith("nan") /\ UNCHANGED plan
       [] c.window <= c.total /\ SMax <= SMin -> EndWith("pruned") /\ UNCHANGED plan
       [] OTHER -> plan' = Plan /\ UNCHANGED result
  /\ UNCHANGED <<c, cutoff, rows, scores>>

TooShort(f) == \/ f.train[2] - f.train[1] < Max({100, c.lags + 5})
               \/ f.val[2] - f.val[1] < Max({20, c.lags + 1})

SkipShort ==
  /\ AtFold /\ TooShort(plan[rows + 1])
  /\ Begin(<<Invalid(FALSE)>>)
  /\ PruneIfHopeless

Evaluated == AtFold /\ ~TooShort(plan[rows + 1])

(* No trades, no Sharpe ratio, malformed metrics: the check for a hopeless   *)
(* trial is made inside the try of the evaluation, whose handler raises the  *)
(* pruning again into a try of its own, which swallows it, and appends once  *)
(* more.                                                                     *)
NotEvaluable(active) ==
  /\ Evaluated
  /\ LET one == Invalid(active)
     IN Begin(IF Hopeless(Append(scores, one)) THEN <<one, Invalid(FALSE)>> ELSE <<one>>)
  /\ UNCHANGED result

Raises == Evaluated /\ Begin(<<Invalid(FALSE)>>) /\ UNCHANGED result

(* A Sharpe ratio that stands for a failure, or more trades than the cap.    *)
Rejected(active) == Evaluated /\ Begin(<<Invalid(active)>>) /\ PruneIfHopeless

(* Intents that are wrong too often.                                         *)
Imprecise(active) ==
  /\ Evaluated /\ c.precision
  /\ Begin(<<Invalid(active)>>) /\ UNCHANGED result

(* The gate on the folds so far, at the weights of DEFAULT_CV: their mean is *)
(* below the larger of -32/3 and the median less three quarters of the       *)
(* quartiles' distance (of the range, for two folds).                        *)
BelowGate(es) ==
  LET v      == [i \in DOMAIN ValidOf(es) |-> ValidOf(es)[i].score]
      n      == Len(v)
      sorted == SortSeq(v, LAMBDA x, y : x < y)
      Q(k)   == LET at == k * (n - 1)  lo == at \div 4 + 1       \* 4 times a quartile
                IN 4 * sorted[lo] + (at % 4) * (sorted[Min({lo + 1, n})] - sorted[lo])
      spread == IF n >= 3 THEN Q(3) - Q(1) ELSE Q(4) - Q(0)
  IN n >= 2 /\ 48 * Total(ValidOf(es)) < n * Max({-512, 3 * (4 * Q(2) - 3 * spread)})

(* A scored fold.  The adaptive gate calls should_prune_fold with arguments  *)
(* it does not have and swallows the TypeError; the other one raises, and    *)
(* its handler appends an entry for the fold once more.                      *)
ScoreFold(s, active) ==
  /\ Evaluated
  /\ LET one == Valid(s, active)
         below == c.relax /\ ~c.adaptive /\ BelowGate(Append(scores, one))
     IN IF below /\ ~c.strict
        THEN Begin(<<one, Invalid(FALSE)>>) /\ PruneIfHopeless
        ELSE Begin(<<one>>) /\ IF below THEN EndWith("pruned") ELSE UNCHANGED result

(* Optuna's own pruner after a scored fold, where one is configured.         *)
SchedulerPrunes ==
  /\ Running /\ c.scheduler /\ scores # <<>> /\ Last(scores).ok
  /\ EndWith("pruned") /\ UNCHANGED <<c, cutoff, plan, rows, scores>>

----------------------------------------------------------------------------
(* The score.                                                                *)

Used == SubSeq(scores, 1, Min({c.blocks, Len(scores)}))

(* The rank of a fold's score among those that count, from 0; a tie goes to  *)
(* the earlier fold.                                                         *)
Rank(v, i) == Cardinality({j \in DOMAIN v : v[j] < v[i] \/ (v[j] = v[i] /\ j < i)})

TrimmedDown(v) == (Len(v) * c.trim) \div 100
Trimmed(v) == LET t == Round(Len(v) * c.trim, 100) IN IF 2 * t < Len(v) THEN t ELSE 0

Mean(v) ==
  LET kept == {i \in DOMAIN v : Rank(v, i) \in Trimmed(v)..(Len(v) - 1 - Trimmed(v))}
  IN MapThenSumSet(LAMBDA i : Squash[v[i]], kept) \div Cardinality(kept)

(* From three folds on, a part of it goes for scores that do not rise with   *)
(* time: pbo percent times one less the rank correlation.                    *)
Penalty(v, base) ==
  LET n  == Len(v)
      d2 == MapThenSumSet(LAMBDA i : (Rank(v, i) - (i - 1)) ^ 2, DOMAIN v)
      of == 100 * n * (n * n - 1)
  IN IF n < 3 THEN 0
     ELSE ((IF base < 0 THEN -base ELSE base) * Min({of, c.pbo * 6 * d2})) \div of

FinalScore(v) == Mean(v) - Penalty(v, Mean(v))

Finish ==
  /\ Running /\ plan # <<>> /\ rows = Len(plan)
  /\ LET valid == ValidOf(Used)
         v     == [i \in DOMAIN valid |-> valid[i].score]
     IN \/ /\ c.relax /\ \A i \in DOMAIN Used : ~Used[i].active
           /\ EndWith("pruned")
        \/ /\ c.relax => \E i \in DOMAIN Used : Used[i].active
           /\ 5 * Len(valid) < 4 * Len(Used)
           /\ EndWith("nan")
        \/ /\ c.relax => \E i \in DOMAIN Used : Used[i].active
           /\ 5 * Len(valid) >= 4 * Len(Used)
           /\ result' = [kind |-> "scored", score |-> FinalScore(v)]
  /\ UNCHANGED <<c, cutoff, plan, rows, scores>>

Next ==
  \/ Start \/ SkipShort \/ Raises \/ SchedulerPrunes \/ Finish
  \/ \E active \in BOOLEAN : \/ NotEvaluable(active) \/ Rejected(active) \/ Imprecise(active)
                             \/ \E s \in Scores : ScoreFold(s, active)

Spec == Init /\ [][Next]_cv

----------------------------------------------------------------------------
TypeOK ==
  /\ c \in Cfgs /\ \A x \in cutoff : x \in Cutoffs
  /\ \A i \in DOMAIN plan : DOMAIN plan[i] = {"train", "val"}
  /\ rows \in 0..Len(plan)
  /\ \A i \in DOMAIN scores : scores[i].fold \in 1..rows /\ scores[i].score \in Scores \cup {0}
  /\ result.kind \in {"running", "pruned", "nan", "scored"} /\ result.score \in Int

(* The label of no training bar reaches into the validation of its fold,     *)
(* although the purge itself removes nothing.                                *)
NothingLeaks ==
  \A i \in DOMAIN plan :
    \/ plan[i].train[1] = plan[i].train[2]
    \/ plan[i].train[2] - 1 + c.horizon < plan[i].val[1]

(* The validations are in order and do not overlap, mini-blocks keep their   *)
(* width, and an anchored plan ends with the newest bars.                    *)
BlocksApart ==
  /\ \A i \in DOMAIN plan : ~c.monthly => plan[i].val[2] = plan[i].val[1] + ValWindow
  /\ c.valMonths = 1 => \A i \in 2..Len(plan) : plan[i - 1].val[2] <= plan[i].val[1]
  /\ plan # <<>> /\ c.tail => Last(plan).val[2] = c.total

(* With the adaptive gate and fewer than ten blocks, the double entries of a *)
(* swallowed pruning shift nothing in a trial that gets a score: what counts *)
(* is the entry each fold made, the newest fold's included.  (With ten, two  *)
(* entries of one bad fold leave four fifths, and the newest score is cut    *)
(* off.)                                                                     *)
ScoredIsAligned ==
  result.kind = "scored" /\ c.adaptive /\ c.blocks < 10 =>
    Len(Used) = Len(plan) /\ \A i \in DOMAIN Used : Used[i].fold = i

(* One lucky fold does not make a trial: from three folds on, a score is no  *)
(* more than what the second best fold gives.                                *)
SecondBestBounds ==
  result.kind = "scored" /\ Len(ValidOf(Used)) >= 3 =>
    LET valid == ValidOf(Used)
    IN \E i, j \in DOMAIN valid : /\ i # j
                                  /\ result.score <= Squash[valid[i].score]
                                  /\ result.score <= Squash[valid[j].score]

(* A trial given up for its invalid folds could not have been scored: even   *)
(* with all folds left valid, fewer than four fifths would be.  (Calendar    *)
(* months are counted against the mini-blocks they replace.)                 *)
GivenUpIsLost ==
  /\ result.kind = "pruned" /\ c.adaptive /\ ~c.scheduler /\ ~c.monthly
  /\ rows < Len(plan) /\ cutoff = {}
  => 5 * (Len(ValidOf(scores)) + Len(plan) - rows) < 4 * Len(plan)

(* What has been scored has as many entries as folds were begun: the         *)
(* tripwire of run_mixin.py:3014, "[CV][ALIGNMENT_BUG] {name} len={len(lst)} *)
(* != block_scores len={L}" for block_rows.                                  *)
Aligned == Len(scores) = rows
=============================================================================
