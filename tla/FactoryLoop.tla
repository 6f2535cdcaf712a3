------------------------------ MODULE FactoryLoop ------------------------------
(***************************************************************************)
(* The factory: a loop that proposes a change of the committee, tests the  *)
(* changed committee, keeps it when it is better, and stops by one of five *)
(* rules.  Proposals come from a greedy search of the performance matrix,  *)
(* from a language model, or from a bandit over a shortlist.               *)
(*                                                                         *)
(* Sharpe ratios are integers, in hundredths.  The test of a committee has *)
(* the same outcome each time; which one, is chosen when it is first run.  *)
(***************************************************************************)
EXTENDS Integers, Sequences, FiniteSets, SequencesExt

CONSTANTS
  RegimeOrder,  \* the regimes, sorted by name
  Committee,    \* the committee at the start: models of some regimes
  Fallback,     \* the models of the other regimes
  Setups,       \* what the search is started with: see setup
  Refresh,      \* llm_refresh_interval
  Patience, Tolerance, None

Regimes == Range(RegimeOrder)

FactoryAssumption ==
  /\ \A u \in Setups :
       /\ u.proposer \in {"greedy", "llm", "hybrid"} /\ Range(Fallback) \subseteq Range(u.models)
       /\ u.matrix \in [Regimes -> [Range(u.models) -> Int]]
       /\ Committee \in [DOMAIN Committee -> Seq(Range(u.models))]
       /\ u.iterations \in Nat \ {0} /\ u.ratios \subseteq Int /\ None \notin u.ratios
  /\ DOMAIN Committee \subseteq Regimes /\ \A r \in DOMAIN Committee : Committee[r] # <<>>
  /\ {Refresh, Patience} \subseteq Nat \ {0} /\ Tolerance \in Nat

VARIABLES
  setup,     \* the proposer, "greedy", "llm" or "hybrid"; the models of the matrix and
             \* their Sharpe ratios in each regime; the iterations at most; what a
             \* test may return
  config,    \* state.config: the models of each regime of the committee
  best,      \* global_best_sharpe, None at first
  tests,     \* the outcomes so far, by committee
  history,   \* per iteration: accepted, and the ratio after
  arms,      \* the arms of the bandit: how often each was pulled
  asked,     \* the iteration of the last shortlist
  trial,     \* the last proposal and the committee it was made for (history)
  done       \* the loop has ended

vars == <<setup, config, best, tests, history, arms, asked, trial, done>>

Init ==
  /\ setup \in Setups /\ config = Committee /\ best = None /\ tests = <<>> /\ history = <<>>
  /\ arms = <<>> /\ asked = -1 /\ trial = None /\ done = FALSE

iteration == Len(history)
Models == Range(setup.models)
Matrix == setup.matrix

---------------------------------------------------------------------------
(* The matrix.                                                             *)

\* _regime_models_for: a regime without models has those of the fallback.
Seated(r) == Range(IF r \in DOMAIN config THEN config[r] ELSE Fallback)

\* worst_model_in_regime and best_candidate_for_regime, all that tie
WorstIn(r) == {m \in Seated(r) : \A k \in Seated(r) : Matrix[r][m] <= Matrix[r][k]}
BestFor(r) == {m \in Models \ Seated(r) : \A k \in Models \ Seated(r) : Matrix[r][m] >= Matrix[r][k]}

Beats(r, margin) == \E b \in BestFor(r), w \in WorstIn(r) : Matrix[r][b] > Matrix[r][w] + margin

Total(r) == FoldSet(LAMBDA m, t : t + Matrix[r][m], 0, Seated(r))

\* weakest_regime, by the mean of its models
Weakest == {r \in Regimes : \A q \in Regimes :
              Total(r) * Cardinality(Seated(q)) <= Total(q) * Cardinality(Seated(r))}

---------------------------------------------------------------------------
(* Proposals.                                                              *)

SwapOf(r, w, b) == [type |-> "swap", regime |-> r, remove |-> w, add |-> b]
AddOf(r, b)     == [type |-> "add", regime |-> r, remove |-> None, add |-> b]
RemoveOf(r, w)  == [type |-> "remove", regime |-> r, remove |-> w, add |-> None]

\* The regimes of the committee that satisfy a condition: the first of them.
FirstSuch(S) == {r \in S : \A q \in S : \E i, j \in DOMAIN RegimeOrder :
                   i <= j /\ RegimeOrder[i] = r /\ RegimeOrder[j] = q}

Lonely    == {r \in DOMAIN config : Len(config[r]) = 1 /\ Beats(r, 2)}
Redundant == {r \in DOMAIN config : Len(config[r]) >= 3 /\ \A w \in WorstIn(r) : Matrix[r][w] < -10}

\* DeterministicProposer: a swap in the weakest regime, else an addition, else
\* a removal; no proposal is to halt.
Greedy ==
  UNION { IF Beats(r, 2) THEN {SwapOf(r, w, b) : w \in WorstIn(r), b \in BestFor(r)}
          ELSE IF Lonely # {} THEN UNION {{AddOf(q, b) : b \in BestFor(q)} : q \in FirstSuch(Lonely)}
          ELSE UNION {{RemoveOf(q, w) : w \in WorstIn(q)} : q \in FirstSuch(Redundant)} : r \in Weakest }

\* ResponseParser: any regime, any models of the matrix.
Parsed == {SwapOf(r, w, b) : r \in Regimes, w \in Models, b \in Models}
            \cup {AddOf(r, b) : r \in Regimes, b \in Models} \cup {RemoveOf(r, w) : r \in Regimes, w \in Models}

\* LLMProposer: what it answers; when it does not, the greedy proposal.
Advised == Parsed \cup Greedy

---------------------------------------------------------------------------
(* The bandit.                                                             *)

\* LLMProposer.shortlist: what the model lists, or else the greedy proposal.
Shortlists == {{p, q} : p, q \in Parsed} \cup {{g} : g \in Greedy}
                \cup (IF Greedy = {} THEN {{}} ELSE {})

\* load_shortlist: an arm that is listed again keeps its record.
Loaded(S) == [p \in S |-> IF p \in DOMAIN arms THEN arms[p] ELSE 0]

\* The list is renewed after an interval, when there is none, and maybe when
\* every arm was pulled: has_converged.
MayRefresh  == arms = <<>> \/ \A p \in DOMAIN arms : arms[p] > 0
MustRefresh == arms = <<>> \/ iteration - asked >= Refresh

\* UCB1Proposer.propose: an arm that was not pulled, else any.
Choice(A) == IF \E p \in DOMAIN A : A[p] = 0 THEN {p \in DOMAIN A : A[p] = 0} ELSE DOMAIN A

Pulled(A, p) == [A EXCEPT ![p] = IF @ = 2 THEN 2 ELSE @ + 1]

---------------------------------------------------------------------------
(* An iteration.                                                           *)

\* list.index: where a model comes first
IndexOf(ms, m) == CHOOSE i \in DOMAIN ms : ms[i] = m /\ \A j \in 1..(i - 1) : ms[j] # m

\* apply_action, on the regimes of the committee only.
Applied(p) ==
  IF p.regime \notin DOMAIN config THEN config
  ELSE LET ms == config[p.regime]
           has(x) == x \in Range(ms)
       IN  [config EXCEPT ![p.regime] =
              CASE p.type = "swap" /\ has(p.remove) -> ReplaceAt(ms, IndexOf(ms, p.remove), p.add)
                [] p.type = "add" /\ ~has(p.add) -> Append(ms, p.add)
                [] p.type = "remove" /\ has(p.remove) /\ Len(ms) > 1 -> RemoveAt(ms, IndexOf(ms, p.remove))
                [] OTHER -> ms]

\* A test has the outcome it had, or any if it is the first of its committee.
Outcomes(T, c) ==
  IF c \in DOMAIN T THEN {T}
  ELSE {[d \in DOMAIN T \cup {c} |-> IF d = c THEN x ELSE T[d]] : x \in setup.ratios}

\* track_iteration: the record, and the next iteration.
Track(accepted, after) == history' = Append(history, [accepted |-> accepted, after |-> after])

\* better by more than half a hundredth
Improved(after, before) == after > before

\* execute_iteration: a first test of the committee itself; the changed
\* committee is tested, and replaces it if it is better.
Execute(p) ==
  LET new == Applied(p)
  IN  \E T \in (IF best = None THEN Outcomes(tests, config) ELSE {tests}) : \E U \in Outcomes(T, new) :
        LET before == IF best = None THEN T[config] ELSE best
            after  == U[new]
            better == Improved(after, before)
        IN  /\ tests' = U /\ Track(better, after)
            /\ config' = (IF better THEN new ELSE config)
            /\ best' = (IF better THEN after ELSE before)
            /\ trial' = [proposal |-> p, of |-> config, made |-> new]

---------------------------------------------------------------------------
(* The stopping rules, in the order of the code.  Where the moves are       *)
(* exhausted the loop ends before the hard gate, once a test has been run.  *)

OutOfBudget == iteration >= setup.iterations

Divergence ==
  LET n == Len(history)
  IN  /\ n >= 3 /\ \A i \in n-2..n : history[i].accepted
      /\ history[n-2].after > history[n-1].after /\ history[n-1].after > history[n].after

\* A swap is promising: its model is better than the worst by a hundredth.
MovesLeft == \E r \in Regimes : Beats(r, 1)

\* The best accepted ratio after each of the last iterations; with none at the
\* start of the window the difference is infinite, or not a number.
BestAfter(k) == {history[i].after : i \in {j \in 1..k : history[j].accepted}}
Stalled ==
  LET n == Len(history)
  IN  /\ n >= Patience /\ BestAfter(n - Patience + 1) # {}
      /\ Max(BestAfter(n)) - Max(BestAfter(n - Patience + 1)) < Tolerance

ShouldStop ==
  \/ OutOfBudget
  \/ Divergence
  \/ /\ ~MovesLeft
     /\ iteration > 0 \/ Stalled

Halt == done' = TRUE /\ UNCHANGED <<config, best, tests, history, arms, asked, trial>>

Stop == ~done /\ ShouldStop /\ Halt

\* Proposals without a memory; no proposal ends the loop.
Propose ==
  /\ ~done /\ ~ShouldStop /\ setup.proposer \in {"greedy", "llm"}
  /\ LET P == IF setup.proposer = "greedy" THEN Greedy ELSE Advised
     IN  \/ (P = {} \/ setup.proposer = "llm") /\ Halt
         \/ \E p \in P : Execute(p) /\ UNCHANGED <<arms, asked, done>>

\* HybridLLMUCB1Proposer.propose
Bandit ==
  /\ ~done /\ ~ShouldStop /\ setup.proposer = "hybrid"
  /\ \E renew \in (IF MustRefresh THEN {TRUE} ELSE IF MayRefresh THEN BOOLEAN ELSE {FALSE}) :
     \E A \in (IF renew THEN {Loaded(S) : S \in Shortlists} ELSE {arms}) :
       /\ asked' = IF renew THEN iteration ELSE asked
       /\ IF A = <<>> THEN done' = TRUE /\ arms' = A /\ UNCHANGED <<config, best, tests, history, trial>>
          ELSE \E p \in Choice(A) : arms' = Pulled(A, p) /\ Execute(p) /\ UNCHANGED done

Next == (Stop \/ Propose \/ Bandit) /\ UNCHANGED setup

Spec == Init /\ [][Next]_vars

\* The loop is sequential code: it goes on as long as it can.
FairSpec == Spec /\ WF_vars(Next)

---------------------------------------------------------------------------
(* Properties.                                                             *)

Committees == [DOMAIN Committee -> Seq(Models)]

\* The types of the state; a regime of the committee never loses its last model.
TypeOK ==
  /\ setup \in Setups /\ config \in Committees /\ \A r \in DOMAIN config : config[r] # <<>>
  /\ best \in setup.ratios \cup {None} /\ DOMAIN tests \subseteq Committees /\ iteration \in 0..setup.iterations
  /\ asked \in -1..setup.iterations /\ done \in BOOLEAN

\* The committee in hand is the one that earned the best ratio.
BestIsCurrent == best # None => tests[config] = best

\* No test that was run is better than the best by more than half a hundredth.
BestIsBest == best # None => \A c \in DOMAIN tests : tests[c] <= best

\* The best ratio never falls, and the committee changes only when it rises.
BestNeverFalls == [][best # None => best' >= best /\ (config' # config => best' > best)]_vars

\* The greedy search never worsens the mean of the regime it swaps in.
Worth(c, r) ==
  LET sum[n \in 0..Len(c[r])] == IF n = 0 THEN 0 ELSE sum[n - 1] + Matrix[r][c[r][n]]
  IN  sum[Len(c[r])]
GreedyClimbs == [][setup.proposer = "greedy" => \A r \in DOMAIN config :
                     Len(config'[r]) = Len(config[r]) => Worth(config', r) >= Worth(config, r)]_vars

\* The loop ends.
Ends == <>done

\* Patience: a window without improvement is the end of the loop.
PatienceStops == [][Stalled => done']_vars

\* A change that was tested is not tested again on the same committee.
TestedNotRetried == [][iteration' > iteration => trial' # trial]_vars

\* Every trial is of another committee.
EveryTrialChanges == trial # None => trial.made # trial.of

=============================================================================
