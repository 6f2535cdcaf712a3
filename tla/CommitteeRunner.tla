--------------------------- MODULE CommitteeRunner ---------------------------
(***************************************************************************)
(* The runner of a live committee and what surrounds it: the loop that     *)
(* polls the latest candle and feeds it, the models by name and their      *)
(* health, and the retrain, whose models a thread fits and the event loop  *)
(* swaps in later.                                                         *)
(*                                                                         *)
(* A model is known by what it was fitted on; predictions, features and    *)
(* regimes are the broker's and the market's choice.                       *)
(***************************************************************************)
EXTENDS Naturals, Sequences, FiniteSets

CONSTANTS
  Regimes,      \* the regimes of the configuration
  Names,        \* the names of the models
  Assigned,     \* the models of each regime
  Lookback,     \* bars the features need
  MaxCandles,   \* candles of a behaviour
  MaxTrades,    \* outcomes recorded of one model
  MaxRetrains

RunnerAssumption ==
  /\ IsFiniteSet(Regimes) /\ IsFiniteSet(Names) /\ Assigned \in [Regimes -> SUBSET Names]
  /\ Lookback \in Nat \ {0} /\ MaxCandles \in Nat \ {0} /\ MaxTrades \in Nat /\ MaxRetrains \in Nat

VARIABLES
  running,   \* the session has not been stopped
  candle,    \* the latest candle in the table
  buffer,    \* _bar_buffer: the candles fed, the last Lookback of them
  models,    \* per name: what it was fitted on ("all" or a regime) and in which retrain
  trades,    \* per name: outcomes in its health record
  since,     \* per name: outcomes since the model of that name was loaded (history)
  retrain,   \* the status of the retrain, "idle" at first
  count,     \* retrains started
  swaps      \* hot swaps scheduled on the event loop: a set of fitted models each

vars == <<running, candle, buffer, models, trades, since, retrain, count, swaps>>

Init ==
  /\ running = TRUE /\ candle = 1 /\ buffer = <<>>
  /\ models = [n \in Names |-> [on |-> "all", at |-> 0]]
  /\ trades = [n \in Names |-> 0] /\ since = [n \in Names |-> 0]
  /\ retrain = "idle" /\ count = 0 /\ swaps = <<>>

NewCandle ==
  /\ candle < MaxCandles /\ candle' = candle + 1
  /\ UNCHANGED <<running, buffer, models, trades, since, retrain, count, swaps>>

\* deque(maxlen = Lookback)
Fed(b, c) == LET long == Append(b, c) IN IF Len(long) > Lookback THEN Tail(long) ELSE long

Ready == Len(buffer) >= Lookback

\* process_bar, once a poll: the latest candle goes into the buffer.
ProcessBar ==
  /\ running
  /\ buffer' = Fed(buffer, candle)
  /\ UNCHANGED <<running, candle, models, trades, since, retrain, count, swaps>>

\* record_trade_outcome: the outcome goes to the models that voted.
RecordOutcome(r) ==
  /\ running /\ Ready /\ \A n \in Assigned[r] : since[n] < MaxTrades
  /\ trades' = [n \in Names |-> IF n \in Assigned[r] THEN trades[n] + 1 ELSE trades[n]]
  /\ since' = [n \in Names |-> IF n \in Assigned[r] THEN since[n] + 1 ELSE since[n]]
  /\ UNCHANGED <<running, candle, buffer, models, retrain, count, swaps>>

Stop ==
  /\ running /\ running' = FALSE
  /\ UNCHANGED <<candle, buffer, models, trades, since, retrain, count, swaps>>

---------------------------------------------------------------------------
(* Retrain.                                                                *)

\* The request, one at a time.  The status stays running after a stop, so a
\* stopped session is not refused either.
StartRetrain ==
  /\ retrain # "running" /\ count < MaxRetrains
  /\ retrain' = "running" /\ count' = count + 1
  /\ UNCHANGED <<running, candle, buffer, models, trades, since, swaps>>

\* refit_primary_models: each model of each regime, on the rows of the regime,
\* unless there are too few of them or the fit fails.
Refits == {[name |-> n, on |-> r, at |-> count] : n \in Names, r \in Regimes}
RefitSets == {R \in SUBSET Refits : \A x \in R : x.name \in Assigned[x.on]}

\* The thread schedules the swap and then says complete.
FinishRetrain(R) ==
  /\ retrain = "running"
  /\ swaps' = Append(swaps, R)
  /\ retrain' = "complete"
  /\ UNCHANGED <<running, candle, buffer, models, trades, since, count>>

FailRetrain ==
  /\ retrain = "running" /\ retrain' = "failed"
  /\ UNCHANGED <<running, candle, buffer, models, trades, since, count, swaps>>

\* slip: the swapped model inherits the record of the old one
RotateKeepingHealth(new) == trades' = trades

\* rotate_model for the names of the new models: a record of its own.
RotateHealth(new) == trades' = [n \in Names |-> IF n \in DOMAIN new THEN 0 ELSE trades[n]]

\* The artifacts by name: of several with one name the last one loaded stays,
\* and those that do not load are left out.
ByName(R) ==
  UNION {[S -> R] : S \in SUBSET {x.name : x \in R}}

HotSwap ==
  /\ swaps # <<>> /\ swaps' = Tail(swaps)
  /\ \E new \in ByName(Head(swaps)) :
       /\ \A n \in DOMAIN new : new[n].name = n
       /\ models' = [n \in Names |-> IF n \in DOMAIN new THEN [on |-> new[n].on, at |-> new[n].at]
                                     ELSE models[n]]
       /\ RotateHealth(new)
       /\ since' = [n \in Names |-> IF n \in DOMAIN new THEN 0 ELSE since[n]]
  /\ UNCHANGED <<running, candle, buffer, retrain, count>>

Next ==
  \/ NewCandle \/ ProcessBar \/ Stop
  \/ \E r \in Regimes : RecordOutcome(r)
  \/ StartRetrain \/ FailRetrain \/ HotSwap
  \/ \E R \in RefitSets : FinishRetrain(R)

Spec == Init /\ [][Next]_vars

---------------------------------------------------------------------------
(* Properties.                                                             *)

\* The types of the state.
TypeOK ==
  /\ running \in BOOLEAN /\ candle \in 1..MaxCandles
  /\ buffer \in Seq(1..MaxCandles) /\ Len(buffer) <= Lookback
  /\ models \in [Names -> [on : Regimes \cup {"all"}, at : 0..MaxRetrains]]
  /\ trades \in [Names -> Nat] /\ since \in [Names -> 0..MaxTrades]
  /\ retrain \in {"idle", "running", "complete", "failed"} /\ count \in 0..MaxRetrains

\* The buffer is in the order of time.
BufferInOrder == \A i, j \in DOMAIN buffer : i < j => buffer[i] <= buffer[j]

\* A model is judged by its own trades, not by those of the one it replaced.
JudgedByItsOwn == \A n \in Names : trades[n] = since[n]

\* A model is never replaced by one of an earlier retrain.
NewestStays == [][\A n \in Names : models'[n].at >= models[n].at]_vars

\* The features are computed over as many bars as the models were trained with,
\* each of them once.
BarsAreDistinct == \A i, j \in DOMAIN buffer : i # j => buffer[i] # buffer[j]

\* In a regime vote models fitted on all rows or on that regime.
VotesForItsRegime == \A r \in Regimes : \A n \in Assigned[r] : models[n].on \in {"all", r}

\* When the retrain says complete, its models are in use.
CompleteIsSwapped == retrain = "complete" => swaps = <<>>

=============================================================================
