----------------------------- MODULE WalkForward -----------------------------
(* The walk-forward test of a backtest: real_trading_simulation of           *)
(* pipeline/backtester/real_trading_mixin.py, with the metrics of            *)
(* pipeline/metrics/metrics_eval.py that carry equity and position on, and   *)
(* the policy file of pipeline/backtester/dqn_mixin.py.  A bar is a position *)
(* in the data, a return a whole number (equities are their sums), candidate *)
(* parameters are positions in the normalised space.                         *)
EXTENDS Integers, Sequences, FiniteSetsExt, SequencesExt

CONSTANTS
  Opts,     \* settings of a run, see Settings
  N,        \* n_periods
  Bars,     \* bars of a period
  Lead,     \* periods of data before the first one tested (37)
  Span,     \* periods a model is trained on
  Session,  \* offsets within a period that lie in the New York session
  Warm,     \* compute_required_test_warmup_bars
  Ret,      \* returns of the bars of the data, a function on 0..End
  Wide,     \* bars whose spread is too wide for an entry
  Fee,      \* cost of a change of position by one
  Signals,  \* decisions a model may come to, for the offsets 0..Bars
  Target, Radius, Floor,  \* size of a committee, geometry radius, performance floor in percent
  Interval, \* cold_restart_interval
  Block     \* dqn_retrain_period

End == Max(DOMAIN Ret)

(* pool: the tuned candidates, the winner first.                             *)
Settings ==
  [dqn : BOOLEAN, warm : BOOLEAN, deploy : BOOLEAN, filter : BOOLEAN, runDir : BOOLEAN,
   alone : BOOLEAN, trials : BOOLEAN, once : BOOLEAN, pool : Seq([params : Int, value : Int])]

(* A period begins at midnight UTC, which is not in the session.             *)
WalkAssumption ==
  /\ {N, Bars, Lead, Span, Interval, Block} \subseteq Nat \ {0} /\ Warm \in Nat /\ Fee \in Nat
  /\ Target \in Nat \ {0, 1} /\ Floor \in 0..100 /\ Radius \in Nat
  /\ Session \subseteq 1..(Bars - 1) /\ Wide \subseteq DOMAIN Ret
  /\ DOMAIN Ret = 0..End /\ End \in Nat /\ \A b \in 0..End : Ret[b] \in Int
  /\ Signals \subseteq [0..Bars -> {-1, 0, 1}]
  /\ Opts \subseteq Settings /\ \A o \in Opts : o.pool # <<>>

VARIABLES
  opt,     \* the settings of this run
  stage,   \* how far the run is
  month,   \* period_idx: the month under test, from 1
  best,    \* _global_hpo_best: whether there is one
  carry,   \* prev_position, prev_eq_strategy, prev_eq_bh
  chain,   \* the warm start: months counted, month of the cold start the model
           \* on disk descends from (0: no model on disk)
  policy,  \* the file of the DQN policy: its author and month; months evaluated
  made,    \* what evaluation made of the month: {} or {[dec, pos]}
  months   \* results

wf == <<opt, stage, month, best, carry, chain, policy, made, months>>

----------------------------------------------------------------------------
(* Windows.  Slices of the data include both their ends.                     *)

TestStart == (Lead + month - 1) * Bars
TrainWindow == Max({0, TestStart - Span * Bars})..(TestStart - 1)
Raw == {b \in TestStart..(TestStart + Bars) : b <= End}
InSession(b) == ~opt.filter \/ b % Bars \in Session
Ascending(S) == [k \in 1..Cardinality(S) |-> CHOOSE b \in S : Cardinality({c \in S : c < b}) = k - 1]
EvalBars == Ascending({b \in Raw : InSession(b)})

(* A month without a model leaves out the bars a model would have needed to  *)
(* warm up, but the last.                                                    *)
FlatBars == LET n == Len(EvalBars)
            IN IF n = 0 THEN <<>> ELSE SubSeq(EvalBars, 1 + Min({Warm, n - 1}), n)

(* Executed positions: a decision counts from the next bar, the first bar    *)
(* carries the position of the month before; the loop itself starts flat and *)
(* enters at no bar with too wide a spread.                                  *)
Executed(bars, dec, in) ==
  LET p[k \in 0..Len(bars)] ==
        IF k = 0 \/ (bars[k] \in Wide /\ p[k - 1] = 0) THEN 0
        ELSE IF k = 1 THEN in ELSE dec[bars[k - 1] - TestStart]
  IN [k \in DOMAIN bars |-> p[k]]

Abs(x) == IF x < 0 THEN -x ELSE x
Sum(s) ==
  LET total[k \in 0..Len(s)] == IF k = 0 THEN 0 ELSE total[k - 1] + s[k]
  IN total[Len(s)]

(* compute_full_evaluation_metrics: what the month adds to the equities.     *)
EarnedOn(bars, pos) ==  \* slip: a position that was carried in pays no fee
  Sum([k \in DOMAIN bars |->
         pos[k] * Ret[bars[k]] - Fee * Abs(pos[k] - (IF k = 1 THEN carry.pos ELSE pos[k - 1]))])
Earned(bars, pos) ==
  Sum([k \in DOMAIN bars |->
         pos[k] * Ret[bars[k]] - Fee * Abs(pos[k] - (IF k = 1 THEN 0 ELSE pos[k - 1]))])
Market(bars) == Sum([k \in DOMAIN bars |-> Ret[bars[k]]])
CarriedFlat(bars, pos) ==  \* slip: the position is not carried
  IF bars = <<>> THEN carry
  ELSE [pos |-> 0, eq |-> carry.eq + Earned(bars, pos), bh |-> carry.bh + Market(bars)]
CarriedOn(bars, pos) ==
  IF bars = <<>> THEN carry
  ELSE [pos |-> pos[Len(pos)], eq |-> carry.eq + Earned(bars, pos), bh |-> carry.bh + Market(bars)]

----------------------------------------------------------------------------
(* The committee of a month.                                                 *)

Base == opt.pool[1]
BestValue == Max({c.value : c \in ToSet(opt.pool)})

Eligible(c) ==
  /\ Abs(c.params - Base.params) <= Radius
  /\ Floor = 0 \/ 100 * (BestValue - c.value) <= (100 - Floor) * Abs(BestValue)

(* The best neighbours up to the size of the committee; those with equal     *)
(* parameters are dropped after that.                                        *)
Neighbours ==
  LET near   == SelectSeq(opt.pool, Eligible)
      ranked == SortSeq([k \in DOMAIN near |-> [c |-> near[k], at |-> k]],
                        LAMBDA x, y : x.c.value > y.c.value \/ (x.c.value = y.c.value /\ x.at < y.at))
  IN IF Len(near) < Target THEN near ELSE [k \in 1..(Target - 1) |-> ranked[k].c]
Committee ==
  FoldLeft(LAMBDA js, c : IF \E k \in DOMAIN js : js[k].params = c.params THEN js ELSE Append(js, c),
           <<Base>>, Neighbours)

(* Signals that move together with those of the base are left out.  (A correlation   *)
(* beyond the limit is taken to be equality up to the sign.)                 *)
Steady(d) == \A x, y \in DOMAIN d : d[x] = d[y]
Alike(d, e) == ~Steady(d) /\ (d = e \/ \A x \in DOMAIN d : d[x] = -e[x])
Diverse(votes) ==
  IF Len(votes) <= 2 THEN votes
  ELSE <<votes[1]>> \o SelectSeq(Tail(votes), LAMBDA v : ~Alike(votes[1], v))

Sign(x) == IF x > 0 THEN 1 ELSE IF x < 0 THEN -1 ELSE 0
Vote(votes) == [o \in 0..Bars |-> Sign(Sum([k \in DOMAIN votes |-> votes[k][o]]))]

----------------------------------------------------------------------------
(* The search before the walk.                                               *)

(* The cache is asked for, or no trials are; a study finds parameters, or    *)
(* completes no trial.                                                       *)
Tune ==
  /\ stage = "hpo"
  /\ best' \in BOOLEAN /\ stage' = "month"
  /\ UNCHANGED <<opt, month, carry, chain, policy, made, months>>

(* Another error of a study, in the search or in a month's own, and a stop.  *)
Raise ==
  /\ \/ stage = "hpo" /\ opt.trials
     \/ stage = "tune" /\ ~(best /\ opt.once)
  /\ stage' = "raised"
  /\ UNCHANGED <<opt, month, best, carry, chain, policy, made, months>>

Stop ==
  /\ stage = "month" /\ month < N
  /\ stage' = "cancelled" /\ month' = month + 1
  /\ UNCHANGED <<opt, best, carry, chain, policy, made, months>>

(* A month begins: every Interval months the warm start is given up, and at  *)
(* the start of a block the DQN policy, but never the one in a run folder.   *)
Begin ==
  /\ stage = "month" /\ month < N
  /\ month' = month + 1 /\ made' = {}
  /\ chain' = IF opt.warm /\ chain.count + 1 >= Interval THEN [count |-> 0, since |-> 0]
              ELSE [chain EXCEPT !.count = @ + 1]
  /\ policy' = IF opt.dqn /\ ~opt.runDir /\ policy.count % Block = 0
               THEN [policy EXCEPT !.file = {}] ELSE policy
  /\ stage' = IF opt.dqn THEN "evaluate" ELSE "tune"
  /\ UNCHANGED <<opt, best, carry, months>>

(* A month's own search, if there are no parameters for all of them.         *)
TuneMonth ==
  /\ stage = "tune"
  /\ IF best /\ opt.once THEN stage' = "evaluate" ELSE stage' \in {"evaluate", "log"}
  /\ UNCHANGED <<opt, month, best, carry, chain, policy, made, months>>

(* Another job of the machine with the same policy file.                     *)
OtherJob ==
  /\ opt.dqn /\ ~opt.alone /\ ~opt.runDir /\ stage = "evaluate"
  /\ policy' \in {[policy EXCEPT !.file = f] : f \in {{}, {[mine |-> FALSE, at |-> month]}}}
  /\ UNCHANGED <<opt, stage, month, best, carry, chain, made, months>>

----------------------------------------------------------------------------
(* Evaluation.                                                               *)

(* Each model fitted starts from the one fitted last, if there is one.       *)
Fitted(fits) ==
  chain' = IF opt.warm /\ fits /\ chain.since = 0 THEN [chain EXCEPT !.since = month] ELSE chain

(* A month counts if some position was held; a single model is judged as if  *)
(* the month began flat, and what it did is then taken up from the carry.    *)
Made(dec, in) ==
  made' = IF \E k \in DOMAIN EvalBars : Executed(EvalBars, dec, in)[k] # 0
          THEN {[dec |-> dec, pos |-> Executed(EvalBars, dec, carry.pos)]} ELSE {}

Decided == stage' = "log" /\ UNCHANGED <<opt, month, best, carry, months>>

Single ==
  /\ stage = "evaluate" /\ ~opt.dqn /\ EvalBars # <<>>
  /\ \E dec \in Signals : Made(dec, 0)
  /\ Fitted(TRUE) /\ Decided /\ UNCHANGED policy

(* At least two of the committee have to be evaluated and differ.            *)
Consensus ==
  /\ stage = "evaluate" /\ ~opt.dqn /\ opt.deploy /\ EvalBars # <<>> /\ Len(Committee) >= 2
  /\ \E n \in 2..Len(Committee) : \E votes \in [1..n -> Signals] :
       Len(Diverse(votes)) >= 2 /\ Made(Vote(Diverse(votes)), carry.pos)
  /\ Fitted(TRUE) /\ Decided /\ UNCHANGED policy

(* The policy on disk is used, or one is trained and saved.                  *)
Policy ==
  /\ stage = "evaluate" /\ opt.dqn /\ EvalBars # <<>>
  /\ \E dec \in Signals : Made(dec, 0)
  /\ policy' = [file |-> IF policy.file = {} THEN {[mine |-> TRUE, at |-> month]} ELSE policy.file,
                count |-> policy.count + 1]
  /\ Fitted(FALSE) /\ Decided

(* Evaluation fails, before or after a model was fitted or a policy saved.   *)
Fails ==
  /\ stage = "evaluate" /\ made' = {}
  /\ \E late \in BOOLEAN :
       /\ Fitted(late /\ ~opt.dqn)
       /\ policy' = IF late /\ opt.dqn /\ policy.file = {}
                    THEN [policy EXCEPT !.file = {[mine |-> TRUE, at |-> month]}] ELSE policy
  /\ Decided

----------------------------------------------------------------------------
(* The month is entered.                                                     *)

Enter(kind, bars, pos) ==
  /\ stage = "log"
  /\ carry' = CarriedOn(bars, pos)
  /\ months' = Append(months, [kind |-> kind, month |-> month, from |-> Max(TrainWindow), bars |-> bars,
       pos |-> pos, eq |-> carry'.eq, bh |-> carry'.bh, since |-> chain.since,
       policy |-> IF kind = "model" /\ opt.dqn THEN policy.file ELSE {}, used |-> policy.count])
  /\ stage' = IF month = N THEN "done" ELSE "month"
  /\ UNCHANGED <<opt, month, best, chain, policy, made>>

LogMonth == \E m \in made : Enter("model", EvalBars, m.pos)

(* No model, or none with a position: what was held is held all month.       *)
FlatMonth ==
  /\ made = {}
  /\ Enter("flat", FlatBars, Executed(FlatBars, [o \in 0..Bars |-> carry.pos], carry.pos))

----------------------------------------------------------------------------
Init ==
  /\ opt \in Opts /\ stage = (IF opt.dqn THEN "month" ELSE "hpo") /\ month = 0 /\ best = FALSE
  /\ carry = [pos |-> 0, eq |-> 0, bh |-> 0] /\ chain = [count |-> 0, since |-> 0]
  /\ \E old \in {{}, {[mine |-> FALSE, at |-> 0]}} :
       policy = [file |-> IF opt.runDir THEN {} ELSE old, count |-> 0]
  /\ made = {} /\ months = <<>>

Next ==
  \/ Tune \/ Raise \/ Stop \/ Begin \/ TuneMonth \/ OtherJob
  \/ Single \/ Consensus \/ Policy \/ Fails \/ LogMonth \/ FlatMonth

Spec == Init /\ [][Next]_wf

----------------------------------------------------------------------------
TypeOK ==
  /\ opt \in Opts /\ month \in 0..N /\ best \in BOOLEAN
  /\ stage \in {"hpo", "month", "tune", "evaluate", "log", "done", "raised", "cancelled"}
  /\ carry.pos \in {-1, 0, 1} /\ carry.eq \in Int /\ carry.bh \in Int
  /\ chain.count \in 0..N /\ chain.since \in 0..month /\ policy.count \in 0..N
  /\ Len(months) \in {month, month - 1}

(* The months make one walk: each is trained on bars before all it is tested *)
(* on; with the session filter no bar is tested twice (without it, only the  *)
(* one two months share); the first bar holds what the last month ended with *)
(* unless the spread forbids it to be entered again.                         *)
MonthsJoin ==
  \A m \in DOMAIN months : LET this == months[m] IN this.bars # <<>> =>
    /\ this.month = m /\ this.from < this.bars[1]
    /\ m > 1 /\ months[m - 1].bars # <<>> =>
         LET last == months[m - 1] n == Len(last.bars)
         IN /\ IF opt.filter THEN last.bars[n] < this.bars[1] ELSE last.bars[n] <= this.bars[1]
            /\ this.pos[1] = last.pos[n] \/ (this.pos[1] = 0 /\ this.bars[1] \in Wide)

(* What the walk adds up to: the benchmark earns each bar of the session in  *)
(* the months tested but those that months without a model leave out; the    *)
(* strategy what its positions earned, less a fee for each change, where a   *)
(* position that is carried into a month pays for its entry again.           *)
Tested(m) == {b \in DOMAIN Ret : InSession(b) /\ b >= (Lead + m - 1) * Bars /\ b <= (Lead + m) * Bars}
LeftOut(m) ==
  IF months[m].kind = "model" \/ months[m].bars = <<>> THEN {} ELSE {b \in Tested(m) : b < months[m].bars[1]}
WalkAdds ==
  LET bars == FlattenSeq([m \in DOMAIN months |-> months[m].bars])
      pos  == FlattenSeq([m \in DOMAIN months |-> months[m].pos])
      turn == Sum([k \in DOMAIN pos |-> Abs(pos[k] - (IF k = 1 THEN 0 ELSE pos[k - 1]))])
      again(m) == IF m = 1 \/ months[m].bars = <<>> THEN 0
                  ELSE LET p == months[m].pos[1] q == months[m - 1].pos IN Abs(p) - Abs(p - q[Len(q)])
  IN /\ \A m \in DOMAIN months : Cardinality(LeftOut(m)) <= Warm
     /\ carry.bh = Sum([m \in DOMAIN months |-> Market(SetToSeq(Tested(m) \ LeftOut(m)))])
     /\ carry.eq = Sum([k \in DOMAIN bars |-> pos[k] * Ret[bars[k]]])
                   - Fee * (turn + Sum([m \in DOMAIN months |-> again(m)]))

(* No model is built further than Interval months from a cold start, and a   *)
(* policy that no other job can touch and no run folder hides is used for a  *)
(* block of evaluated months and was trained in this run.                    *)
ModelsAreFresh ==
  \A m \in DOMAIN months :
    /\ opt.warm /\ months[m].since # 0 => months[m].month - months[m].since < Interval
    /\ opt.alone /\ ~opt.runDir => \A p \in months[m].policy :
         p.mine /\ months[m].used - months[p.at].used < Block

(* A committee is the winner and others no worse, none twice; an eligible    *)
(* candidate is left out only for one as good, or for the winner's copy.     *)
CommitteeSound ==
  LET js == Committee
  IN /\ js[1] = Base /\ Len(js) <= Target
     /\ \A k, l \in DOMAIN js : k # l => js[k].params # js[l].params
     /\ \A k \in DOMAIN js : Eligible(js[k])
     /\ \A c \in ToSet(opt.pool) : Eligible(c) /\ (\A k \in DOMAIN js : js[k].params # c.params) =>
          /\ Len(js) = Target \/ \E k \in DOMAIN Neighbours : Neighbours[k].params = Base.params
          /\ \A k \in 2..Len(js) : js[k].value >= c.value

=============================================================================
