----------------------------- MODULE TuningStudy -----------------------------
(* One hyperparameter search: run_optuna_tuning of pipeline/tuning/runner.py *)
(* with optuna_objective and the AdaptivePruner it shares with the           *)
(* cross-validation.  Trials run one after the other, so an attempt is one   *)
(* step; afterwards the search ranks, checks and returns.  What a trial's    *)
(* cross-validation makes of the parameters drawn is any of Outcomes;        *)
(* parameters are positions in the normalised space, scores whole numbers.   *)
EXTENDS Integers, Sequences, FiniteSetsExt, SequencesExt

CONSTANTS
  Opts,          \* the settings a search may have
  Outcomes,      \* [params, mean, penalty, enough]: mean of the folds, what the
                 \* guards take off, whether trades and activity reach the floors
  Cap,           \* the Sharpe ratio beyond which none is believed (6)
  Radius,        \* GEOM_RADIUS
  Share,         \* one completed trial in so many is a champion (5)
  Verdicts       \* scores of the monthly verification

TuningAssumption ==
  /\ Cap \in Nat /\ Radius \in Nat /\ Share \in Nat \ {0} /\ Verdicts \subseteq Int
  /\ \A o \in Outcomes : o.params \in Int /\ o.mean \in Int /\ o.penalty \in Nat
  /\ \A o \in Opts : /\ o.trials \in Int /\ o.patience \in Nat \ {0} /\ o.delta \in Nat
                     /\ o.grace \in Nat \ {0} /\ o.topN \in Nat \ {0}

VARIABLES
  opt,       \* the settings of this search
  trials,    \* study.trials: parameters, state and value of each
  champs,    \* AdaptivePruner._trials
  plateau,   \* _best (a set of at most one) and _no_improve
  tmp,       \* JOBLIB_TEMP_FOLDER (0: unset), the folders, the thread limits held
  found     \* what the caller has got, or how far the search is

ts == <<opt, trials, champs, plateau, tmp, found>>

----------------------------------------------------------------------------
(* AdaptivePruner.                                                           *)

Descending(es) == SortSeq([i \in DOMAIN es |-> [es[i] EXCEPT !.at = i]],
                    LAMBDA x, y : x.value > y.value \/ (x.value = y.value /\ x.at < y.at))

(* Twice the median of whole numbers.                                        *)
TwiceMedian(v) == LET s == SortSeq(v, LAMBDA x, y : x < y)  n == Len(v)
                  IN s[(n + 1) \div 2] + s[n \div 2 + 1]

Champions == SubSeq(Descending(champs), 1, Max({1, Len(champs) \div Share}))

(* Eight times the median of the champions less one and a half of their      *)
(* median deviation.                                                         *)
Cutoff(v) == LET m == TwiceMedian(v)
             IN 4 * m - 3 * TwiceMedian([i \in DOMAIN v |-> Max({2 * v[i] - m, m - 2 * v[i]})])

ShouldPrune(mean) ==
  LET v == [i \in DOMAIN Champions |-> Champions[i].mean]
  IN Len(champs) >= opt.grace /\ Len(v) >= 2 /\ 8 * mean < Cutoff(v)

----------------------------------------------------------------------------
(* The objective.                                                            *)

Running == found.kind = "searching" /\ Len(trials) < opt.trials
New     == Len(trials) + 1

Values(es) == {es[i].value : i \in {j \in DOMAIN es : es[j].state = "complete"}}

NoScore == [mean |-> 0, enough |-> FALSE]

Trial(params, state, value, o) ==
  [params |-> params, state |-> state, value |-> value, mean |-> o.mean, enough |-> o.enough, at |-> New]

(* The folder of the trial and the limit on threads are taken at its start,  *)
(* and given back at its end by a trial that returns a score; one that       *)
(* raises, or returns the bad objective, leaves before the clean-up.         *)
GivesBack == UNCHANGED tmp
Leaves    == tmp' = [folder |-> New, dirs |-> tmp.dirs \cup {New}, limits |-> tmp.limits + 1]

(* After each attempt the best value is compared with the one last taken.    *)
PlateauKeepsCount(best) ==
  plateau' = IF best = {} THEN plateau
             ELSE IF plateau.best = {} \/ Max(best) >= Max(plateau.best) + opt.delta
                  THEN [plateau EXCEPT !.best = {Max(best)}]
                  ELSE [plateau EXCEPT !.still = @ + 1]
Plateau(best) ==
  plateau' = IF best = {} THEN plateau
             ELSE IF plateau.best = {} \/ Max(best) >= Max(plateau.best) + opt.delta
                  THEN [best |-> {Max(best)}, still |-> 0]
                  ELSE [plateau EXCEPT !.still = @ + 1]

(* The attempt is over: the loop ends on a plateau or with the last trial.   *)
Attempted(t) ==
  /\ trials' = Append(trials, t)
  /\ Plateau(Values(trials'))
  /\ found' = IF New = opt.trials \/ (New >= opt.minTrials /\ plateau'.still >= opt.patience)
               THEN [found EXCEPT !.kind = "searched"] ELSE found
  /\ UNCHANGED opt

Ends(kind) == found' = [found EXCEPT !.kind = kind]

(* A score: capped, less what few trades, too much activity and bad          *)
(* calibration cost.                                                         *)
Scores(o) ==
  /\ Running
  /\ LET value == Max({-Cap, Min({Cap, o.mean})}) - o.penalty
         t     == Trial(o.params, "complete", value, o)
     IN /\ Attempted(t)
        /\ champs' = IF opt.adaptive THEN Append(champs, t) ELSE champs
  /\ GivesBack

(* The workers of the cross-validation die: the trial is complete with the   *)
(* bad objective, which the cap brings back to -Cap.                         *)
Breaks(o) ==
  /\ Running
  /\ Attempted(Trial(o.params, "complete", -Cap, NoScore))
  /\ GivesBack /\ UNCHANGED champs

(* The cross-validation gave the trial up or had no score, or anything       *)
(* raised: pruned, unless pruning is off for the process, when it counts as  *)
(* complete with the bad objective itself.                                   *)
Bad == -9999
Pruned(o) ==
  /\ Running
  /\ Attempted(IF opt.noPrune THEN Trial(o.params, "complete", Bad, NoScore)
                              ELSE Trial(0, "pruned", 0, NoScore))
  /\ Leaves /\ UNCHANGED champs

(* Given up against the champions.  The cross-validation asks only when a    *)
(* fold fails, so a trial with a lower mean may get its score.               *)
CutOff(o) == opt.adaptive /\ ShouldPrune(o.mean) /\ Pruned(o)
GivesUp   == \E o \in Outcomes : Pruned(o)

(* Memory under the hard floor: before the trial took anything, the study is *)
(* aborted, or goes on with the bad objective.                               *)
LowMemory ==
  /\ Running /\ UNCHANGED <<tmp, champs>>
  /\ IF opt.noPrune
     THEN \E o \in Outcomes : Attempted(Trial(o.params, "complete", Bad, NoScore))
     ELSE Ends("aborted") /\ UNCHANGED <<opt, trials, plateau>>

(* The progress callback of a cancelled job raises KeyboardInterrupt out of  *)
(* the study, over a prune as well.                                          *)
Cancel ==
  /\ Running /\ (GivesBack \/ Leaves)
  /\ Ends("cancelled") /\ UNCHANGED <<opt, trials, champs, plateau>>

----------------------------------------------------------------------------
(* After the search.                                                         *)

Completed == SelectSeq(trials, LAMBDA t : t.state = "complete")
Ranked    == Descending(Completed)

Similar(p, q) == p - q <= Radius /\ q - p <= Radius

(* The best, without those close to a better one that was taken.  (Equal     *)
(* values are ranked by calibration, here by age.)                           *)
Top == FoldLeft(LAMBDA taken, t :
                  IF Len(taken) = opt.topN \/ \E i \in DOMAIN taken : Similar(taken[i].params, t.params)
                  THEN taken ELSE Append(taken, t),
                <<>>, Ranked)

FirstEnough(es) == IF \E i \in DOMAIN es : es[i].enough
                   THEN Min({i \in DOMAIN es : es[i].enough}) ELSE 1
ParamsOf(es) == [i \in DOMAIN es |-> es[i].params]

(* The best of the study, the preselected winner among the top, and the pool *)
(* of a committee if one is asked for.                                       *)
Rank ==
  /\ found.kind = "searched"
  /\ IF Completed = <<>> THEN Ends("nothing")
     ELSE LET valid == SelectSeq(Ranked, LAMBDA t : t.enough)
              pool  == IF valid = <<>> THEN Ranked ELSE valid
          IN found' = [kind |-> "ranked", params |-> Ranked[1].params, score |-> {},
                        top |-> ParamsOf(Top), winner |-> FirstEnough(Top),
                        pool |-> ParamsOf(SubSeq(pool, 1, Min({opt.pool, Len(pool)}))), robust |-> {}]
  /\ UNCHANGED <<opt, trials, champs, plateau, tmp>>

(* Evaluation under other seeds, which refuses or only notes.                *)
Robust ==
  /\ found.kind = "ranked" /\ opt.robust # "off"
  /\ \E passed \in BOOLEAN :
       IF opt.robust = "require" /\ ~passed THEN Ends("refused")
       ELSE found' = [found EXCEPT !.kind = "robust", !.robust = {passed}]
  /\ UNCHANGED <<opt, trials, champs, plateau, tmp>>

(* Monthly verification of the top and the best: the best score there        *)
(* replaces parameters and score, what fails there ({}) does not count.      *)
Return(params, score) ==
  /\ found' = [found EXCEPT !.kind = "returned", !.params = params, !.score = {score}]
  /\ UNCHANGED <<opt, trials, champs, plateau, tmp>>

Checked == found.kind = "robust" \/ (found.kind = "ranked" /\ opt.robust = "off")

Candidates ==
  IF found.params \in ToSet(found.top) THEN found.top ELSE <<found.params>> \o found.top

Verify ==
  /\ Checked /\ opt.verify
  /\ \E verdict \in [DOMAIN Candidates -> Verdicts \cup {Bad}] :
       LET finite == {i \in DOMAIN verdict : verdict[i] # Bad}
           best   == {i \in finite : \A j \in finite : verdict[j] < verdict[i] \/ (verdict[j] = verdict[i] /\ i <= j)}
       IN IF finite = {} THEN Return(found.params, Max(Values(trials)))
          ELSE \E i \in best : Return(Candidates[i], verdict[i])

Unverified == Checked /\ ~opt.verify /\ Return(found.params, Max(Values(trials)))

(* No trials asked for: the configuration on disk, if there is one.          *)
LoadCached ==
  /\ found.kind = "searching" /\ opt.trials <= 0
  /\ Ends(IF opt.cached THEN "cached" ELSE "refused")
  /\ UNCHANGED <<opt, trials, champs, plateau, tmp>>

----------------------------------------------------------------------------
Init ==
  /\ opt \in Opts /\ trials = <<>> /\ champs = <<>>
  /\ plateau = [best |-> {}, still |-> 0]
  /\ tmp = [folder |-> 0, dirs |-> {}, limits |-> 0]
  /\ found = [kind |-> "searching", params |-> 0, score |-> {}, top |-> <<>>, winner |-> 1,
               pool |-> <<>>, robust |-> {}]

Next ==
  \/ \E o \in Outcomes : Scores(o) \/ Breaks(o) \/ CutOff(o)
  \/ GivesUp \/ LowMemory \/ Cancel
  \/ Rank \/ Robust \/ Verify \/ Unverified \/ LoadCached

Spec == Init /\ [][Next]_ts

----------------------------------------------------------------------------
TypeOK ==
  /\ opt \in Opts /\ Len(trials) <= Max({0, opt.trials})
  /\ \A i \in DOMAIN trials : trials[i].state \in {"complete", "pruned"} /\ trials[i].at = i
  /\ \A x \in plateau.best : x \in Values(trials)
  /\ tmp.dirs \subseteq 1..(Len(trials) + 1) /\ tmp.folder \in tmp.dirs \cup {0}
  /\ tmp.limits = Cardinality(tmp.dirs)
  /\ found.kind \in {"searching", "searched", "nothing", "aborted", "cancelled", "cached", "ranked",
                      "robust", "refused", "returned"}

(* A search ends before its last trial only on a plateau: its last patience  *)
(* trials together brought less than delta over what was known before them.  *)
PlateauIsFlat ==
  found.kind = "searched" /\ Len(trials) < opt.trials =>
    LET before == SubSeq(trials, 1, Len(trials) - opt.patience)
    IN Values(before) # {} /\ Max(Values(trials)) < Max(Values(before)) + opt.delta

(* The pruner learns only from scored trials of this study, gives up none    *)
(* in its grace period, and none that does as well as half the champions.    *)
CutIsBelowChampions ==
  /\ \A i \in DOMAIN champs : champs[i] = trials[champs[i].at] /\ champs[i].state = "complete"
  /\ \A o \in Outcomes : ShouldPrune(o.mean) =>
       /\ Len(champs) >= opt.grace
       /\ 2 * Cardinality({i \in DOMAIN Champions : Champions[i].mean > o.mean}) >= Len(Champions)

(* What is kept of the search stands for all of it: no two of the top are    *)
(* close, the best is the first, and any other completed trial is close to   *)
(* one of the top that is no worse, or the top is full of better ones.       *)
TopCovers ==
  found.kind = "ranked" =>
    /\ \A i, j \in DOMAIN Top : i < j => ~Similar(Top[i].params, Top[j].params) /\ Top[i].value >= Top[j].value
    /\ \A t \in ToSet(Completed) :
         \/ \E i \in DOMAIN Top : Similar(Top[i].params, t.params) /\ Top[i].value >= t.value
         \/ Len(Top) = opt.topN /\ \A i \in DOMAIN Top : Top[i].value >= t.value
    /\ found.params = found.top[1]

=============================================================================
