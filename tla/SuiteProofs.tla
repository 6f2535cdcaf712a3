----------------------------- MODULE SuiteProofs ----------------------------
(* Proofs about the parts that run beside the backtests, and about all of    *)
(* them together, for every value of their constants.                        *)
EXTENDS MarketProofs, SequenceTheorems

\* The elements of a sequence.
LEMMA ElementOf == ASSUME NEW S, NEW b \in Seq(S) PROVE \A i \in DOMAIN b : b[i] \in S
  OBVIOUS

-----------------------------------------------------------------------------
(* The runner of a live committee.                                           *)

Refitted == [name : RunnerModels, on : RunnerRegimes, at : 0..MaxRetrains]

RunnerTypes ==
  /\ running \in BOOLEAN /\ candle \in 1..MaxCandles
  /\ runner_buffer \in Seq(1..MaxCandles) /\ Len(runner_buffer) <= FeatureBars
  /\ runner_models \in [RunnerModels -> [on : RunnerRegimes \cup {"all"}, at : 0..MaxRetrains]]
  /\ trades \in [RunnerModels -> Nat] /\ runner_since \in [RunnerModels -> 0..MaxTrades]
  /\ retrain \in {"idle", "running", "complete", "failed"} /\ count \in 0..MaxRetrains
  /\ swaps \in Seq(SUBSET Refitted)

(* The swaps wait in the order of their retrains, none of them newer than    *)
(* the last retrain or older than what it replaces.                          *)
SwapInv ==
  /\ \A n \in RunnerModels : runner_models[n].at <= count
  /\ \A i \in DOMAIN swaps : \A x \in swaps[i] :
       /\ x.at <= count
       /\ \A n \in RunnerModels : runner_models[n].at <= x.at
       /\ \A j \in DOMAIN swaps : i < j => \A y \in swaps[j] : x.at <= y.at

FedInv == Runner!BufferInOrder /\ \A i \in DOMAIN runner_buffer : runner_buffer[i] <= candle

RunnerInv == Runner!RunnerAssumption /\ RunnerTypes /\ SwapInv /\ FedInv /\ Runner!JudgedByItsOwn

RunnerKeeps == \A n \in RunnerModels : runner_models'[n].at >= runner_models[n].at

\* What the constants of the runner are.
LEMMA RunnerBounds ==
  ASSUME Runner!RunnerAssumption
  PROVE  /\ FeatureBars \in Nat \ {0} /\ MaxCandles \in Nat \ {0} /\ MaxTrades \in Nat
         /\ MaxRetrains \in Nat /\ Assigned \in [RunnerRegimes -> SUBSET RunnerModels]
  BY DEF Runner!RunnerAssumption

\* The runner starts in its invariant.
LEMMA RunnerInitInv == Runner!RunnerAssumption /\ Runner!Init => RunnerInv
<1> SUFFICES ASSUME Runner!RunnerAssumption, Runner!Init PROVE RunnerInv
  OBVIOUS
<1> USE DEF Runner!Init
<1>1. running \in BOOLEAN /\ candle \in 1..MaxCandles /\ retrain = "idle" /\ count = 0
  BY RunnerBounds
<1>2. runner_buffer \in Seq(1..MaxCandles) /\ Len(runner_buffer) = 0 /\ DOMAIN runner_buffer = {}
  BY RunnerBounds
<1>3. swaps \in Seq(SUBSET Refitted) /\ DOMAIN swaps = {}
  BY RunnerBounds
<1>4. /\ runner_models \in [RunnerModels -> [on : RunnerRegimes \cup {"all"}, at : 0..MaxRetrains]]
      /\ \A n \in RunnerModels : runner_models[n].at = 0
  BY RunnerBounds
<1>5. trades \in [RunnerModels -> Nat] /\ runner_since \in [RunnerModels -> 0..MaxTrades]
  BY RunnerBounds
<1>6. RunnerTypes
  BY <1>1, <1>2, <1>3, <1>4, <1>5, RunnerBounds DEF RunnerTypes
<1>7. SwapInv /\ FedInv /\ Runner!JudgedByItsOwn
  BY <1>1, <1>2, <1>3, <1>4 DEF SwapInv, FedInv, Runner!BufferInOrder, Runner!JudgedByItsOwn
<1>8. QED
  BY <1>6, <1>7 DEF RunnerInv

\* The bars that are kept are the last of those that were fed.
LEMMA FedIs ==
  ASSUME NEW S, NEW b \in Seq(S), NEW c \in S, FeatureBars \in Nat \ {0}, Len(b) <= FeatureBars
  PROVE  /\ Runner!Fed(b, c) \in Seq(S) /\ Len(Runner!Fed(b, c)) <= FeatureBars
         /\ \E d \in {0, 1} : \A i \in DOMAIN Runner!Fed(b, c) :
              \/ i + d = Len(b) + 1 /\ Runner!Fed(b, c)[i] = c
              \/ i + d \in DOMAIN b /\ Runner!Fed(b, c)[i] = b[i + d]
<1> DEFINE long == Append(b, c)
<1>1. /\ long \in Seq(S) /\ Len(long) = Len(b) + 1 /\ long # <<>>
      /\ \A i \in 1..Len(long) : (i \in 1..Len(b) /\ long[i] = b[i]) \/ (i = Len(b) + 1 /\ long[i] = c)
  <2>1. long \in Seq(S) /\ Len(long) = Len(b) + 1 /\ long[Len(b) + 1] = c /\ Len(b) \in Nat
    OBVIOUS
  <2>2. \A i \in 1..Len(b) : long[i] = b[i]
    OBVIOUS
  <2>3. \A i \in 1..(Len(b) + 1) : i \in 1..Len(b) \/ i = Len(b) + 1
    BY <2>1
  <2>4. long # <<>>
    OBVIOUS
  <2> HIDE DEF long
  <2>5. QED
    BY <2>1, <2>2, <2>3, <2>4
<1>2. Len(b) \in Nat
  OBVIOUS
<1> HIDE DEF long
<1>3. CASE Len(long) > FeatureBars
  <2>1. Runner!Fed(b, c) = Tail(long)
    BY <1>3 DEF Runner!Fed, long
  <2>2. /\ Tail(long) \in Seq(S) /\ Len(Tail(long)) = Len(long) - 1
        /\ \A i \in 1..Len(Tail(long)) : Tail(long)[i] = long[i + 1]
    BY <1>1
  <2>3. \A i \in DOMAIN Tail(long) : i \in Nat /\ i + 1 \in 1..Len(long) /\ Tail(long)[i] = long[i + 1]
    BY <1>1, <1>2, <2>2
  <2>4. \A i \in DOMAIN Tail(long) : \/ i + 1 = Len(b) + 1 /\ Tail(long)[i] = c
                                     \/ i + 1 \in DOMAIN b /\ Tail(long)[i] = b[i + 1]
    BY <1>1, <2>3
  <2>5. QED
    BY <1>1, <1>2, <2>1, <2>2, <2>4
<1>4. CASE ~(Len(long) > FeatureBars)
  <2>1. Runner!Fed(b, c) = long
    BY <1>4 DEF Runner!Fed, long
  <2>2. \A i \in DOMAIN long : \/ i + 0 = Len(b) + 1 /\ long[i] = c
                               \/ i + 0 \in DOMAIN b /\ long[i] = b[i + 0]
    BY <1>1, <1>2
  <2>3. QED
    BY <1>1, <1>2, <1>4, <2>1, <2>2
<1>5. QED
  BY <1>3, <1>4

\* A bar: the votes of a regime, the bars that are kept, and what is judged.
LEMMA ProcessBarStep == ASSUME RunnerInv, Runner!ProcessBar PROVE RunnerInv' /\ RunnerKeeps
<1>1. /\ UNCHANGED <<running, candle, runner_models, trades, runner_since, retrain, count, swaps>>
      /\ runner_buffer' = Runner!Fed(runner_buffer, candle)
  BY DEF Runner!ProcessBar
<1>2. Runner!RunnerAssumption /\ RunnerTypes /\ SwapInv /\ FedInv /\ Runner!JudgedByItsOwn
  BY DEF RunnerInv
<1>3. /\ runner_buffer' \in Seq(1..MaxCandles) /\ Len(runner_buffer') <= FeatureBars
      /\ \E d \in {0, 1} : \A i \in DOMAIN runner_buffer' :
              \/ i + d = Len(runner_buffer) + 1 /\ runner_buffer'[i] = candle
              \/ i + d \in DOMAIN runner_buffer /\ runner_buffer'[i] = runner_buffer[i + d]
  <2>1. /\ runner_buffer \in Seq(1..MaxCandles) /\ candle \in 1..MaxCandles
        /\ Len(runner_buffer) <= FeatureBars
    BY <1>2 DEF RunnerTypes
  <2>2. FeatureBars \in Nat \ {0}
    BY <1>2, RunnerBounds
  <2>3. /\ Runner!Fed(runner_buffer, candle) \in Seq(1..MaxCandles)
        /\ Len(Runner!Fed(runner_buffer, candle)) <= FeatureBars
        /\ \E d \in {0, 1} : \A i \in DOMAIN Runner!Fed(runner_buffer, candle) :
              \/ i + d = Len(runner_buffer) + 1 /\ Runner!Fed(runner_buffer, candle)[i] = candle
              \/ i + d \in DOMAIN runner_buffer
                 /\ Runner!Fed(runner_buffer, candle)[i] = runner_buffer[i + d]
    BY ONLY <2>1, <2>2, FedIs
  <2>4. QED
    BY <1>1, <2>3, Zenon
<1>4. RunnerTypes'
  BY <1>1, <1>2, <1>3 DEF RunnerTypes, Refitted
<1>5. FedInv'
  <2>1. PICK d \in {0, 1} : \A i \in DOMAIN runner_buffer' :
              \/ i + d = Len(runner_buffer) + 1 /\ runner_buffer'[i] = candle
              \/ i + d \in DOMAIN runner_buffer /\ runner_buffer'[i] = runner_buffer[i + d]
    BY <1>3
  <2>2. /\ \A i, j \in DOMAIN runner_buffer : i < j => runner_buffer[i] <= runner_buffer[j]
        /\ \A i \in DOMAIN runner_buffer : runner_buffer[i] <= candle
        /\ candle \in Nat /\ DOMAIN runner_buffer = 1..Len(runner_buffer) /\ Len(runner_buffer) \in Nat
        /\ DOMAIN runner_buffer' \subseteq Nat
    BY <1>2, <1>3 DEF FedInv, Runner!BufferInOrder, RunnerTypes
  <2>3. \A i \in DOMAIN runner_buffer' : runner_buffer'[i] <= candle'
    BY <1>1, <2>1, <2>2
  <2>4. ASSUME NEW i \in DOMAIN runner_buffer', NEW j \in DOMAIN runner_buffer', i < j
        PROVE  runner_buffer'[i] <= runner_buffer'[j]
    <3>1. i \in Nat /\ j \in Nat /\ i + d < j + d
      BY <2>2, <2>4
    <3>2. j + d <= Len(runner_buffer) + 1
      BY <2>1, <2>2, <3>1
    <3>3. i + d \in DOMAIN runner_buffer /\ runner_buffer'[i] = runner_buffer[i + d]
      BY <2>1, <2>2, <3>1, <3>2
    <3>4. CASE runner_buffer'[j] = candle
      BY <2>2, <3>3, <3>4
    <3>5. CASE j + d \in DOMAIN runner_buffer /\ runner_buffer'[j] = runner_buffer[j + d]
      BY <2>2, <3>1, <3>3, <3>5
    <3>6. QED
      BY <2>1, <3>4, <3>5
  <2>5. QED
    BY <2>3, <2>4 DEF FedInv, Runner!BufferInOrder
<1>6. SwapInv' /\ Runner!JudgedByItsOwn' /\ RunnerKeeps
  BY <1>1, <1>2 DEF SwapInv, Runner!JudgedByItsOwn, RunnerKeeps, RunnerTypes
<1>7. QED
  BY <1>2, <1>4, <1>5, <1>6 DEF RunnerInv, Runner!RunnerAssumption

\* What leaves the bars and the swaps alone.
LEMMA RunnerQuiet ==
  ASSUME RunnerInv, RunnerTypes', UNCHANGED <<runner_buffer, runner_models, swaps>>,
         candle' >= candle, count' >= count,
         Runner!JudgedByItsOwn'
  PROVE  RunnerInv' /\ RunnerKeeps
<1>1. Runner!RunnerAssumption /\ RunnerTypes /\ SwapInv /\ FedInv
  BY DEF RunnerInv
<1>2. FedInv'
  <2>1. \A i \in DOMAIN runner_buffer : runner_buffer[i] \in Nat /\ runner_buffer[i] <= candle
    <3>1. runner_buffer \in Seq(1..MaxCandles)
      BY <1>1 DEF RunnerTypes
    <3>2. \A i \in DOMAIN runner_buffer : runner_buffer[i] \in 1..MaxCandles
      BY <3>1, ElementOf
    <3>3. MaxCandles \in Nat
      BY <1>1, RunnerBounds
    <3>4. QED
      BY <1>1, <3>2, <3>3 DEF FedInv
  <2>2. candle \in Nat /\ candle' \in Nat
    BY <1>1 DEF RunnerTypes
  <2>3. QED
    BY <1>1, <2>1, <2>2 DEF FedInv, Runner!BufferInOrder
<1>3. SwapInv'
  <2>1. count \in Nat /\ count' \in Nat
    BY <1>1 DEF RunnerTypes
  <2>2. \A i \in DOMAIN swaps : \A x \in swaps[i] : x.at \in Nat
    BY <1>1 DEF RunnerTypes, Refitted
  <2>3. \A n \in RunnerModels : runner_models[n].at \in Nat
    BY <1>1 DEF RunnerTypes
  <2>4. /\ \A n \in RunnerModels : runner_models[n].at <= count'
        /\ \A i \in DOMAIN swaps : \A x \in swaps[i] : x.at <= count'
    BY <1>1, <2>1, <2>2, <2>3 DEF SwapInv
  <2>5. QED
    BY <1>1, <2>4 DEF SwapInv
<1>4. RunnerKeeps
  <2>1. \A n \in RunnerModels : runner_models[n].at \in Nat
    BY <1>1 DEF RunnerTypes
  <2>2. QED
    BY <2>1 DEF RunnerKeeps
<1>5. QED
  BY <1>1, <1>2, <1>3, <1>4 DEF RunnerInv, Runner!RunnerAssumption

\* A candle, a stop, a retrain that starts or fails, and an outcome of a trade.
LEMMA RunnerOthers ==
  ASSUME RunnerInv,
         \/ Runner!NewCandle \/ Runner!Stop \/ Runner!StartRetrain \/ Runner!FailRetrain
         \/ \E r \in RunnerRegimes : Runner!RecordOutcome(r)
         \/ UNCHANGED Runner!vars
  PROVE  RunnerInv' /\ RunnerKeeps
<1>1. Runner!RunnerAssumption /\ RunnerTypes /\ SwapInv /\ FedInv /\ Runner!JudgedByItsOwn
  BY DEF RunnerInv
<1>2. UNCHANGED <<runner_buffer, runner_models, swaps>>
  BY DEF Runner!NewCandle, Runner!Stop, Runner!StartRetrain, Runner!FailRetrain,
     Runner!RecordOutcome, Runner!vars
<1>3. \/ UNCHANGED <<trades, runner_since>>
      \/ \E r \in RunnerRegimes :
           /\ \A n \in Assigned[r] : runner_since[n] < MaxTrades
           /\ trades' = [n \in RunnerModels |-> IF n \in Assigned[r] THEN trades[n] + 1 ELSE trades[n]]
           /\ runner_since' = [n \in RunnerModels |-> IF n \in Assigned[r] THEN runner_since[n] + 1
                                                      ELSE runner_since[n]]
  BY DEF Runner!NewCandle, Runner!Stop, Runner!StartRetrain, Runner!FailRetrain,
     Runner!RecordOutcome, Runner!vars
<1>4. /\ candle' = candle \/ (candle < MaxCandles /\ candle' = candle + 1)
      /\ count' = count \/ (count < MaxRetrains /\ count' = count + 1)
      /\ running' \in BOOLEAN
      /\ retrain' \in {"idle", "running", "complete", "failed"}
  BY <1>1 DEF Runner!NewCandle, Runner!Stop, Runner!StartRetrain, Runner!FailRetrain,
     Runner!RecordOutcome, Runner!vars,
       RunnerTypes
<1>5. trades' \in [RunnerModels -> Nat] /\ runner_since' \in [RunnerModels -> 0..MaxTrades]
  <2>1. trades \in [RunnerModels -> Nat] /\ runner_since \in [RunnerModels -> 0..MaxTrades] /\ MaxTrades \in Nat
    BY <1>1, RunnerBounds DEF RunnerTypes
  <2>2. ASSUME NEW r \in RunnerRegimes, \A n \in Assigned[r] : runner_since[n] < MaxTrades,
               trades' = [n \in RunnerModels |-> IF n \in Assigned[r] THEN trades[n] + 1 ELSE trades[n]],
               runner_since' = [n \in RunnerModels |-> IF n \in Assigned[r] THEN runner_since[n] + 1
                                                       ELSE runner_since[n]]
        PROVE  trades' \in [RunnerModels -> Nat] /\ runner_since' \in [RunnerModels -> 0..MaxTrades]
    <3>1. \A n \in RunnerModels : (IF n \in Assigned[r] THEN trades[n] + 1 ELSE trades[n]) \in Nat
      BY <2>1
    <3>2. \A n \in RunnerModels : (IF n \in Assigned[r] THEN runner_since[n] + 1
                                   ELSE runner_since[n]) \in 0..MaxTrades
      BY <2>1, <2>2
    <3>3. QED
      BY <2>2, <3>1, <3>2
  <2>3. QED
    BY <1>3, <2>1, <2>2
<1>6. Runner!JudgedByItsOwn'
  BY <1>1, <1>3 DEF Runner!JudgedByItsOwn, RunnerTypes
<1>7. candle' \in 1..MaxCandles /\ candle' >= candle /\ count' \in 0..MaxRetrains /\ count' >= count
  BY <1>1, <1>4, RunnerBounds DEF RunnerTypes
<1>8. RunnerTypes'
  BY <1>1, <1>2, <1>4, <1>5, <1>7 DEF RunnerTypes, Refitted
<1>9. QED
  BY <1>2, <1>6, <1>7, <1>8, RunnerQuiet

\* A retrain that ends hands its models over, each later than what runs.
LEMMA FinishStep == ASSUME RunnerInv, NEW R \in Runner!RefitSets, Runner!FinishRetrain(R)
    PROVE RunnerInv' /\ RunnerKeeps
<1>1. Runner!RunnerAssumption /\ RunnerTypes /\ SwapInv /\ FedInv /\ Runner!JudgedByItsOwn
  BY DEF RunnerInv
<1>2. /\ UNCHANGED <<running, candle, runner_buffer, runner_models, trades, runner_since, count>>
      /\ swaps' = Append(swaps, R) /\ retrain' = "complete"
  BY DEF Runner!FinishRetrain
<1>3. R \subseteq Refitted /\ \A x \in R : x.at = count /\ x.at \in Nat
  BY <1>1 DEF Runner!RefitSets, Runner!Refits, Refitted, RunnerTypes
<1>4. /\ swaps' \in Seq(SUBSET Refitted) /\ DOMAIN swaps' = 1..Len(swaps) + 1 /\ DOMAIN swaps = 1..Len(swaps)
      /\ Len(swaps) \in Nat /\ swaps'[Len(swaps) + 1] = R /\ \A i \in 1..Len(swaps) : swaps'[i] = swaps[i]
  BY <1>1, <1>2, <1>3 DEF RunnerTypes
<1>5. RunnerTypes'
  BY <1>1, <1>2, <1>4 DEF RunnerTypes, Refitted
<1>6. SwapInv'
  <2>1. \A i \in DOMAIN swaps : \A x \in swaps[i] : x.at <= count /\ x.at \in Nat
    BY <1>1 DEF SwapInv, RunnerTypes, Refitted
  <2>2. ASSUME NEW i \in DOMAIN swaps', NEW x \in swaps'[i]
        PROVE  /\ x.at <= count'
               /\ \A n \in RunnerModels : runner_models'[n].at <= x.at
               /\ \A j \in DOMAIN swaps' : i < j => \A y \in swaps'[j] : x.at <= y.at
    <3>1. CASE i = Len(swaps) + 1
      BY <1>1, <1>2, <1>3, <1>4, <2>2, <3>1 DEF SwapInv
    <3>2. CASE i \in DOMAIN swaps
      <4>1. x \in swaps[i] /\ x.at <= count
        BY <1>4, <2>1, <2>2, <3>2
      <4>2. ASSUME NEW j \in DOMAIN swaps', i < j, NEW y \in swaps'[j] PROVE x.at <= y.at
        <5>1. CASE j = Len(swaps) + 1
          BY <1>3, <1>4, <4>1, <4>2, <5>1
        <5>2. CASE j \in DOMAIN swaps
          BY <1>1, <1>4, <3>2, <4>1, <4>2, <5>2 DEF SwapInv
        <5>3. QED
          BY <1>4, <4>2, <5>1, <5>2
      <4>3. QED
        BY <1>1, <1>2, <3>2, <4>1, <4>2 DEF SwapInv
    <3>3. QED
      BY <1>4, <3>1, <3>2
  <2>3. QED
    BY <1>1, <1>2, <2>2 DEF SwapInv
<1>7. FedInv' /\ Runner!JudgedByItsOwn' /\ RunnerKeeps
  BY <1>1, <1>2 DEF FedInv, Runner!BufferInOrder, Runner!JudgedByItsOwn, RunnerKeeps, RunnerTypes
<1>8. QED
  BY <1>1, <1>5, <1>6, <1>7 DEF RunnerInv, Runner!RunnerAssumption

\* The models that were handed over replace those that run, at a bar.
LEMMA SwapStep == ASSUME RunnerInv, Runner!HotSwap PROVE RunnerInv' /\ RunnerKeeps
<1>1. Runner!RunnerAssumption /\ RunnerTypes /\ SwapInv /\ FedInv /\ Runner!JudgedByItsOwn
  BY DEF RunnerInv
<1>2. /\ UNCHANGED <<running, candle, runner_buffer, retrain, count>>
      /\ swaps # <<>> /\ swaps' = Tail(swaps)
  BY DEF Runner!HotSwap
<1>3. PICK new \in Runner!ByName(Head(swaps)) :
        /\ \A n \in DOMAIN new : new[n].name = n
        /\ runner_models' = [n \in RunnerModels |-> IF n \in DOMAIN new THEN [on |-> new[n].on, at |-> new[n].at]
                                     ELSE runner_models[n]]
        /\ trades' = [n \in RunnerModels |-> IF n \in DOMAIN new THEN 0 ELSE trades[n]]
        /\ runner_since' = [n \in RunnerModels |-> IF n \in DOMAIN new THEN 0 ELSE runner_since[n]]
  BY DEF Runner!HotSwap, Runner!RotateHealth
<1>4. \A n \in DOMAIN new : new[n] \in Head(swaps)
  BY DEF Runner!ByName
<1>5. /\ swaps' \in Seq(SUBSET Refitted) /\ Head(swaps) = swaps[1] /\ 1 \in DOMAIN swaps
      /\ Head(swaps) \subseteq Refitted
      /\ \A i \in DOMAIN swaps' : i \in Nat /\ i > 0 /\ i + 1 \in DOMAIN swaps /\ swaps'[i] = swaps[i + 1]
  <2>1. swaps \in Seq(SUBSET Refitted) /\ swaps # <<>>
    BY <1>1, <1>2 DEF RunnerTypes
  <2>2. /\ Tail(swaps) \in Seq(SUBSET Refitted) /\ Len(Tail(swaps)) = Len(swaps) - 1
        /\ \A i \in 1..Len(Tail(swaps)) : Tail(swaps)[i] = swaps[i + 1]
        /\ Len(swaps) \in Nat /\ Len(swaps) >= 1
    BY <2>1
  <2>3. Head(swaps) = swaps[1] /\ 1 \in DOMAIN swaps /\ Head(swaps) \in SUBSET Refitted
    BY <2>1, <2>2
  <2>4. DOMAIN Tail(swaps) = 1..Len(Tail(swaps)) /\ DOMAIN swaps = 1..Len(swaps)
    BY <2>1, <2>2
  <2>5. QED
    BY <1>2, <2>2, <2>3, <2>4
<1>6. \A n \in DOMAIN new : new[n].on \in RunnerRegimes /\ new[n].at \in 0..MaxRetrains
  BY <1>4, <1>5 DEF Refitted
<1>7. RunnerTypes'
  <2>1. runner_models' \in [RunnerModels -> [on : RunnerRegimes \cup {"all"}, at : 0..MaxRetrains]]
    BY <1>1, <1>3, <1>6 DEF RunnerTypes
  <2>2. trades' \in [RunnerModels -> Nat] /\ runner_since' \in [RunnerModels -> 0..MaxTrades]
    BY <1>1, <1>3, RunnerBounds DEF RunnerTypes
  <2>3. QED
    BY <1>1, <1>2, <1>5, <2>1, <2>2 DEF RunnerTypes, Refitted
<1>8. \A n \in RunnerModels : \/ runner_models'[n].at = runner_models[n].at
                              \/ \E x \in swaps[1] : runner_models'[n].at = x.at
  <2>1. ASSUME NEW n \in RunnerModels, n \in DOMAIN new PROVE \E x \in swaps[1] : runner_models'[n].at = x.at
    BY <1>3, <1>4, <1>5, <2>1
  <2>2. QED
    BY <1>3, <2>1
<1>9. RunnerKeeps
  <2>1. \A n \in RunnerModels : runner_models[n].at \in Nat
    BY <1>1 DEF RunnerTypes
  <2>2. \A x \in swaps[1] : \A n \in RunnerModels : runner_models[n].at <= x.at
    BY <1>1, <1>5 DEF SwapInv
  <2>3. \A x \in swaps[1] : x.at \in Nat
    BY <1>5 DEF Refitted
  <2>4. ASSUME NEW n \in RunnerModels PROVE runner_models'[n].at >= runner_models[n].at
    <3>1. CASE runner_models'[n].at = runner_models[n].at
      BY <2>1, <3>1
    <3>2. ASSUME NEW x \in swaps[1], runner_models'[n].at = x.at
        PROVE runner_models'[n].at >= runner_models[n].at
      <4>1. runner_models[n].at <= x.at /\ x.at \in Nat /\ runner_models[n].at \in Nat
        BY <2>1, <2>2, <2>3
      <4>2. QED
        BY <3>2, <4>1
    <3>3. QED
      BY <1>8, <3>1, <3>2
  <2>5. QED
    BY <2>4 DEF RunnerKeeps
<1>10. SwapInv'
  <2>1. \A n \in RunnerModels : runner_models'[n].at <= count'
    BY <1>1, <1>2, <1>5, <1>8 DEF SwapInv
  <2>2. ASSUME NEW i \in DOMAIN swaps', NEW x \in swaps'[i]
        PROVE  /\ x.at <= count'
               /\ \A n \in RunnerModels : runner_models'[n].at <= x.at
               /\ \A j \in DOMAIN swaps' : i < j => \A y \in swaps'[j] : x.at <= y.at
    <3>1. i + 1 \in DOMAIN swaps /\ x \in swaps[i + 1] /\ 1 < i + 1 /\ i \in Nat
      BY <1>5, <2>2
    <3>2. x.at <= count' /\ \A n \in RunnerModels : runner_models[n].at <= x.at
      BY <1>1, <1>2, <3>1 DEF SwapInv
    <3>3. \A y \in swaps[1] : y.at <= x.at
      BY <1>1, <1>5, <3>1 DEF SwapInv
    <3>4. \A n \in RunnerModels : runner_models'[n].at <= x.at
      BY <1>8, <3>2, <3>3
    <3>5. ASSUME NEW j \in DOMAIN swaps', i < j, NEW y \in swaps'[j] PROVE x.at <= y.at
      <4>1. j + 1 \in DOMAIN swaps /\ y \in swaps[j + 1] /\ j \in Nat
        BY <1>5, <3>5
      <4>2. i + 1 < j + 1
        BY <3>1, <3>5, <4>1
      <4>3. QED
        BY <1>1, <3>1, <4>1, <4>2 DEF SwapInv
    <3>6. QED
      BY <3>2, <3>4, <3>5
  <2>3. QED
    BY <2>1, <2>2 DEF SwapInv
<1>11. FedInv' /\ Runner!JudgedByItsOwn'
  BY <1>1, <1>2, <1>3 DEF FedInv, Runner!BufferInOrder, Runner!JudgedByItsOwn, RunnerTypes
<1>12. QED
  BY <1>1, <1>7, <1>9, <1>10, <1>11 DEF RunnerInv, Runner!RunnerAssumption

\* The runner keeps its invariant, and no model is replaced by an older one.
LEMMA RunnerStep == RunnerInv /\ [Runner!Next]_Runner!vars => RunnerInv' /\ RunnerKeeps
  BY ProcessBarStep, RunnerOthers, FinishStep, SwapStep DEF Runner!Next

\* The invariant of the runner says what is promised of it.
LEMMA RunnerInvHolds == RunnerInv => Runner!TypeOK /\ Runner!BufferInOrder /\ Runner!JudgedByItsOwn
<1> SUFFICES ASSUME RunnerInv PROVE Runner!TypeOK /\ Runner!BufferInOrder /\ Runner!JudgedByItsOwn
  OBVIOUS
<1>1. RunnerTypes
  BY DEF RunnerInv
<1>2. QED
  BY <1>1 DEF RunnerInv, RunnerTypes, Runner!TypeOK, FedInv

-----------------------------------------------------------------------------
(* The rotation of models.                                                   *)

RotNames == Rotation!Names
Ticks    == 0..LastTick

(* A list of stamps in the order of time, with a day between each of them    *)
(* and the one Cap before.                                                   *)
Stamps(s, t) ==
  /\ s \in Seq(Ticks)
  /\ \A i \in DOMAIN s : s[i] <= t
  /\ \A i, j \in DOMAIN s : i <= j => s[i] <= s[j]
  /\ \A i \in DOMAIN s : i > Cap => s[i] >= s[i - Cap] + DayTicks

RotationInv ==
  /\ Rotation!RotationAssumption
  /\ rotation_now \in Ticks /\ rotation_known \in Seq(RotNames)
  /\ rotation_models \subseteq RotNames /\ rotation_models \subseteq Rotation!Range(rotation_known)
  /\ bad \subseteq Rotation!Range(rotation_known) /\ blank \subseteq bad
  /\ Stamps(stamps, rotation_now) /\ cool \in [RotNames -> 0..(LastTick + Cooldown)]

CoolDownKept == \A m \in RotNames : cool'[m] # cool[m] => cool[m] <= rotation_now

(* What holds of a check between two records.                                *)
Working == [models : SUBSET RotNames, known : Seq(RotNames), bad : SUBSET RotNames,
            blank : SUBSET RotNames, stamps : Seq(Ticks), cool : [RotNames -> 0..(LastTick + Cooldown)],
            failed : BOOLEAN, unreadable : SUBSET RotNames]
Sound(w) ==
  /\ w \in Working
  /\ w.models \subseteq Rotation!Range(w.known) /\ w.bad \subseteq Rotation!Range(w.known)
  /\ Stamps(w.stamps, rotation_now)
  /\ \A m \in RotNames : w.cool[m] # cool[m] => cool[m] <= rotation_now

\* The part counts as this module does.
LEMMA RotationCounts == ASSUME NEW S PROVE Rotation!Cardinality(S) = Cardinality(S)
  BY DEF Rotation!Cardinality, Cardinality

\* What the constants of the rotation are.
LEMMA RotationBounds ==
  ASSUME Rotation!RotationAssumption
  PROVE  /\ Cap \in Nat /\ DayTicks \in Nat /\ Cooldown \in Nat /\ LastTick \in Nat
         /\ LoadedModels \in Seq(RotNames) /\ Snapshot \in Seq(RotNames)
         /\ Rotation!Members = Rotation!Range(LoadedModels) /\ Rotation!Members \subseteq RotNames
<1>1. /\ Cap \in Nat /\ DayTicks \in Nat /\ Cooldown \in Nat /\ LastTick \in Nat
      /\ LoadedModels \in Seq(Rotation!Members) /\ Snapshot \in Seq(RotNames)
  BY DEF Rotation!RotationAssumption, RotNames
<1>2. Rotation!Members = Rotation!Range(LoadedModels) /\ Rotation!Members \subseteq RotNames
  BY DEF Rotation!Members, RotNames, Rotation!Names
<1>3. LoadedModels \in Seq(RotNames)
  BY <1>1, <1>2
<1>4. QED
  BY <1>1, <1>2, <1>3

\* A further rotation keeps the cap: with fewer than Cap in the last day, the
\* one Cap before is a day old.
LEMMA CapKept ==
  ASSUME Rotation!RotationAssumption, rotation_now \in Ticks, NEW s, Stamps(s, rotation_now),
         Rotation!Recent(s) < Cap
  PROVE  Stamps(Append(s, rotation_now), rotation_now)
<1> DEFINE t == Append(s, rotation_now)
           R == {i \in DOMAIN s : s[i] + DayTicks > rotation_now}
<1>1. /\ Cap \in Nat /\ DayTicks \in Nat /\ LastTick \in Nat /\ rotation_now \in Nat
      /\ s \in Seq(Ticks) /\ Len(s) \in Nat /\ DOMAIN s = 1..Len(s)
  BY RotationBounds DEF Stamps, Ticks
<1>2. /\ t \in Seq(Ticks) /\ DOMAIN t = 1..(Len(s) + 1) /\ t[Len(s) + 1] = rotation_now
      /\ \A i \in 1..Len(s) : t[i] = s[i]
  BY <1>1
<1>3. \A i \in 1..(Len(s) + 1) : i \in 1..Len(s) \/ i = Len(s) + 1
  BY <1>1
<1>4. \A i \in 1..Len(s) : s[i] \in Nat /\ s[i] <= rotation_now
  <2>1. \A i \in DOMAIN s : s[i] \in Ticks
    BY <1>1, ElementOf
  <2>2. QED
    BY <1>1, <2>1 DEF Stamps, Ticks
<1>5. IsFiniteSet(R) /\ Cardinality(R) \in Nat /\ Cardinality(R) < Cap
  <2>1. IsFiniteSet(1..Len(s)) /\ R \in SUBSET (1..Len(s))
    BY <1>1, FS_Interval
  <2>2. IsFiniteSet(R) /\ Cardinality(R) \in Nat
    BY <2>1, FS_Subset, FS_CardinalityType
  <2>3. Rotation!Recent(s) = Cardinality(R)
    BY RotationCounts DEF Rotation!Recent
  <2>4. QED
    BY <2>2, <2>3
<1> HIDE DEF t, R
<1>6. ASSUME Len(s) + 1 > Cap PROVE rotation_now >= s[Len(s) + 1 - Cap] + DayTicks
  <2> DEFINE k == Len(s) + 1 - Cap
  <2>1. Cap > 0 /\ k \in 1..Len(s)
    BY <1>1, <1>5, <1>6
  <2>2. SUFFICES ASSUME s[k] + DayTicks > rotation_now PROVE FALSE
    <3>1. s[k] \in Nat
      BY <1>4, <2>1
    <3>2. QED
      BY <1>1, <2>2, <3>1
  <2>3. k..Len(s) \in SUBSET R
    <3>1. ASSUME NEW i \in k..Len(s) PROVE i \in R
      <4>1. i \in 1..Len(s) /\ k <= i
        BY <1>1, <2>1
      <4>2. s[k] <= s[i]
        BY <1>1, <2>1, <4>1 DEF Stamps
      <4>3. s[i] + DayTicks > rotation_now
        BY <1>1, <1>4, <2>1, <2>2, <4>1, <4>2
      <4>4. QED
        BY <1>1, <4>1, <4>3 DEF R
    <3>2. QED
      BY <3>1
  <2>4. Cardinality(k..Len(s)) = Cap
    <3>1. k \in Int /\ Len(s) \in Int /\ ~(k > Len(s)) /\ Len(s) - k + 1 = Cap
      BY <1>1, <2>1
    <3> HIDE DEF k
    <3>2. QED
      BY <3>1, FS_Interval
  <2> HIDE DEF k
  <2>5. Cardinality(k..Len(s)) <= Cardinality(R)
    BY <1>5, <2>3, FS_Subset
  <2>6. QED
    BY <1>1, <1>5, <2>4, <2>5
<1>7. \A i \in DOMAIN t : t[i] <= rotation_now
  BY <1>1, <1>2, <1>3, <1>4
<1>8. ASSUME NEW i \in DOMAIN t, NEW j \in DOMAIN t, i <= j PROVE t[i] <= t[j]
  <2>1. CASE j = Len(s) + 1
    BY <1>2, <1>7, <2>1
  <2>2. CASE j \in 1..Len(s)
    <3>1. i \in 1..Len(s)
      BY <1>1, <1>2, <1>8, <2>2
    <3>2. QED
      BY <1>1, <1>2, <1>8, <2>2, <3>1 DEF Stamps
  <2>3. QED
    BY <1>2, <1>3, <2>1, <2>2
<1>9. ASSUME NEW i \in DOMAIN t, i > Cap PROVE t[i] >= t[i - Cap] + DayTicks
  <2>1. CASE i = Len(s) + 1
    <3>1. Cap > 0 /\ i - Cap \in 1..Len(s) /\ i - Cap = Len(s) + 1 - Cap
      BY <1>1, <1>5, <1>9, <2>1
    <3>2. QED
      BY <1>2, <1>6, <1>9, <2>1, <3>1
  <2>2. CASE i \in 1..Len(s)
    <3>1. i - Cap \in 1..Len(s)
      BY <1>1, <1>9, <2>2
    <3>2. s[i] >= s[i - Cap] + DayTicks
      BY <1>1, <1>9, <2>2 DEF Stamps
    <3>3. QED
      BY <1>2, <2>2, <3>1, <3>2
  <2>3. QED
    BY <1>2, <1>3, <2>1, <2>2
<1>10. QED
  BY <1>2, <1>7, <1>8, <1>9 DEF Stamps, t

\* The first of some candidates is a name of the snapshot.
LEMMA FirstIs ==
  ASSUME Rotation!RotationAssumption, NEW C, C \subseteq Rotation!Range(Snapshot), C # {}
  PROVE  Rotation!FirstOf(C) \in RotNames
<1> DEFINE T == {i \in DOMAIN Snapshot : Snapshot[i] \in C}
<1>1. Snapshot \in Seq(RotNames) /\ DOMAIN Snapshot = 1..Len(Snapshot) /\ Len(Snapshot) \in Nat
  BY RotationBounds
<1>2. T \subseteq Nat /\ T # {}
  BY <1>1 DEF Rotation!Range
<1>3. PICK i \in T : \A j \in T : i <= j
  BY <1>2, Least
<1>4. \A j \in 1..(i - 1) : Snapshot[j] \notin C
  <2> SUFFICES ASSUME NEW j \in 1..(i - 1), Snapshot[j] \in C PROVE FALSE
    OBVIOUS
  <2>1. j \in DOMAIN Snapshot /\ j < i /\ i \in Nat /\ j \in Nat
    BY <1>1
  <2>2. i <= j
    BY <1>3, <2>1
  <2>3. QED
    BY <2>1, <2>2
<1>5. \E k \in DOMAIN Snapshot : Snapshot[k] \in C /\ \A j \in 1..(k - 1) : Snapshot[j] \notin C
  BY <1>3, <1>4
<1>6. \A k \in DOMAIN Snapshot : Snapshot[k] \in RotNames
  BY <1>1, ElementOf
<1>7. QED
  BY <1>5, <1>6 DEF Rotation!FirstOf

\* A list with one element more has what the list has, and that element.
LEMMA Appended ==
  ASSUME NEW S, NEW s \in Seq(S), NEW e \in S
  PROVE  /\ Append(s, e) \in Seq(S)
         /\ Rotation!Range(s) \subseteq Rotation!Range(Append(s, e)) /\ e \in Rotation!Range(Append(s, e))
<1>1. /\ Append(s, e) \in Seq(S) /\ Len(s) \in Nat /\ DOMAIN s = 1..Len(s)
      /\ DOMAIN Append(s, e) = 1..(Len(s) + 1) /\ Append(s, e)[Len(s) + 1] = e
      /\ \A i \in 1..Len(s) : Append(s, e)[i] = s[i]
  OBVIOUS
<1>2. 1..Len(s) \subseteq 1..(Len(s) + 1) /\ Len(s) + 1 \in 1..(Len(s) + 1)
  BY <1>1
<1>3. QED
  BY <1>1, <1>2 DEF Rotation!Range

\* One record of the check.
LEMMA CheckOneSound ==
  ASSUME Rotation!RotationAssumption, rotation_now \in Ticks, cool \in [RotNames -> 0..(LastTick + Cooldown)],
         NEW w, Sound(w), NEW m \in RotNames, NEW loaded
  PROVE  Sound(Rotation!CheckOne(loaded, m, w))
<1> DEFINE c    == Rotation!Candidates(m, loaded)
           new  == Rotation!FirstOf(c)
           made == Rotation!Rotate(w, m, new)
           next == [made EXCEPT !.stamps = Append(@, rotation_now), !.cool[m] = rotation_now + Cooldown,
                                !.failed = m \in w.blank]
<1>1. Cap \in Nat /\ DayTicks \in Nat /\ Cooldown \in Nat /\ LastTick \in Nat /\ rotation_now \in Nat
  BY RotationBounds DEF Ticks
<1>2. CASE w.failed \/ ~Rotation!ShouldRotate(w, m) \/ c = {} \/ new \in w.unreadable
  BY <1>2 DEF Rotation!CheckOne
<1>3. CASE ~(w.failed \/ ~Rotation!ShouldRotate(w, m) \/ c = {} \/ new \in w.unreadable)
  <2>1. Rotation!CheckOne(loaded, m, w) = next
    BY <1>3 DEF Rotation!CheckOne
  <2>2. Rotation!Recent(w.stamps) < Cap /\ rotation_now >= w.cool[m]
    BY <1>3 DEF Rotation!ShouldRotate
  <2>3. new \in RotNames
    BY <1>3, FirstIs DEF Rotation!Candidates
  <2>4. w \in Working
    BY DEF Sound
  <2> DEFINE known2 == IF new \in Rotation!Range(w.known) THEN w.known ELSE Append(w.known, new)
             stamps2 == Append(w.stamps, rotation_now)
             cool2 == [w.cool EXCEPT ![m] = rotation_now + Cooldown]
  <2>5. next = [models |-> (w.models \ {m}) \cup {new}, known |-> known2, bad |-> w.bad \ {new},
                blank |-> w.blank, stamps |-> stamps2, cool |-> cool2,
                failed |-> m \in w.blank, unreadable |-> w.unreadable]
    <3>1. w = [models |-> w.models, known |-> w.known, bad |-> w.bad, blank |-> w.blank,
               stamps |-> w.stamps, cool |-> w.cool, failed |-> w.failed, unreadable |-> w.unreadable]
      BY <2>4 DEF Working
    <3> HIDE DEF new, c
    <3>2. made = [w EXCEPT !.models = (@ \ {m}) \cup {new}, !.bad = @ \ {new}, !.known = known2]
      BY <3>1 DEF Rotation!Rotate
    <3>3. made = [models |-> (w.models \ {m}) \cup {new}, known |-> known2, bad |-> w.bad \ {new},
                  blank |-> w.blank, stamps |-> w.stamps, cool |-> w.cool,
                  failed |-> w.failed, unreadable |-> w.unreadable]
      BY <3>1, <3>2
    <3> HIDE DEF made, known2
    <3>4. made.stamps = w.stamps /\ made.cool = w.cool
      BY <3>3
    <3>5. next = [made EXCEPT !.stamps = stamps2, !.cool = cool2, !.failed = (m \in w.blank)]
      BY <3>4, Zenon
    <3> HIDE DEF next, stamps2, cool2
    <3>6. QED
      BY <3>3, <3>5
  <2>6. /\ known2 \in Seq(RotNames) /\ Rotation!Range(w.known) \subseteq Rotation!Range(known2)
        /\ new \in Rotation!Range(known2)
    <3>1. w.known \in Seq(RotNames)
      BY <2>4 DEF Working
    <3>2. QED
      BY <2>3, <3>1, Appended
  <2>7. Stamps(stamps2, rotation_now)
    BY <2>2, CapKept DEF Sound
  <2>8. /\ cool2 \in [RotNames -> 0..(LastTick + Cooldown)]
        /\ \A k \in RotNames : cool2[k] # cool[k] => cool[k] <= rotation_now
    <3>1. w.cool \in [RotNames -> 0..(LastTick + Cooldown)]
      BY <2>4 DEF Working
    <3>2. rotation_now + Cooldown \in 0..(LastTick + Cooldown)
      BY <1>1 DEF Ticks
    <3>3. cool[m] <= rotation_now
      <4>1. w.cool[m] = cool[m] \/ cool[m] <= rotation_now
        BY DEF Sound
      <4>2. cool[m] \in Nat /\ w.cool[m] \in Nat
        BY <3>1, <1>1
      <4>3. QED
        BY <1>1, <2>2, <4>1, <4>2
    <3>4. \A k \in RotNames : k # m => cool2[k] = w.cool[k]
      BY <3>1
    <3>5. QED
      BY <3>1, <3>2, <3>3, <3>4 DEF Sound
  <2> HIDE DEF next, known2, stamps2, cool2, new, c
  <2>9. w.models \subseteq RotNames /\ w.bad \subseteq RotNames /\ w.blank \subseteq RotNames
          /\ w.unreadable \subseteq RotNames
    BY <2>4 DEF Working
  <2>10. stamps2 \in Seq(Ticks)
    BY <2>7 DEF Stamps
  <2>11. (m \in w.blank) \in BOOLEAN
    OBVIOUS
  <2>12. (w.models \ {m}) \cup {new} \subseteq RotNames /\ w.bad \ {new} \subseteq RotNames
    BY <2>3, <2>9
  <2>13. next \in Working
    BY <2>5, <2>6, <2>8, <2>9, <2>10, <2>11, <2>12 DEF Working
  <2>14. next.models \subseteq Rotation!Range(next.known) /\ next.bad \subseteq Rotation!Range(next.known)
    <3>1. w.models \subseteq Rotation!Range(w.known) /\ w.bad \subseteq Rotation!Range(w.known)
      BY DEF Sound
    <3>2. QED
      BY <2>5, <2>6, <3>1
  <2>15. Stamps(next.stamps, rotation_now)
          /\ \A k \in RotNames : next.cool[k] # cool[k] => cool[k] <= rotation_now
    BY <2>5, <2>7, <2>8
  <2>16. QED
    BY <2>1, <2>13, <2>14, <2>15 DEF Sound
<1>4. QED
  BY <1>2, <1>3

\* The records of a check, one after the other: the states it goes through are
\* a function, and each of them is sound.
IsWalk(f, L, start, ks) ==
  f = [i \in 0..L |-> IF i = 0 THEN start ELSE Rotation!CheckOne(rotation_models, ks[i], f[i - 1])]

\* The function that is defined by recursion exists, or else there is a first
\* number up to which it does not.
LEMMA WalkExists ==
  ASSUME NEW L \in Nat, NEW start, NEW ks
  PROVE  \E f : IsWalk(f, L, start, ks)
<1> DEFINE Is(k, f) == f = [i \in 0..k |-> IF i = 0 THEN start
                                           ELSE Rotation!CheckOne(rotation_models, ks[i], f[i - 1])]
           Without == {k \in Nat : k <= L /\ ~\E f : Is(k, f)}
<1>1. ASSUME NEW k \in Without, \A j \in Without : k <= j PROVE FALSE
  <2>1. k \in Nat /\ k <= L /\ ~\E f : Is(k, f)
    OBVIOUS
  <2>2. CASE k = 0
    <3> DEFINE f == [i \in 0..0 |-> start]
    <3>1. Is(0, f)
      OBVIOUS
    <3>2. QED
      BY <2>1, <2>2, <3>1
  <2>3. CASE k # 0
    <3> HIDE DEF Is
    <3>0. k - 1 \in Nat /\ k - 1 <= L /\ ~(k <= k - 1)
      BY <2>1, <2>3
    <3>1. k - 1 \notin Without
      <4> HIDE DEF Without
      <4>1. QED
        BY <1>1, <3>0
    <3>9. \E f : Is(k - 1, f)
      BY <3>0, <3>1
    <3> USE DEF Is
    <3>2. PICK f : Is(k - 1, f)
      BY <3>9
    <3> DEFINE t == [n \in 0..k |-> IF n = k THEN Rotation!CheckOne(rotation_models, ks[k], f[k - 1]) ELSE f[n]]
    <3>3. \A n \in 0..(k - 1) : t[n] = f[n] /\ f[n] = IF n = 0 THEN start
                                                      ELSE Rotation!CheckOne(rotation_models, ks[n], f[n - 1])
      <4>1. \A n \in 0..(k - 1) : n \in 0..k /\ n # k
        BY <2>1, <3>0
      <4>2. \A n \in 0..(k - 1) : t[n] = f[n]
        BY <4>1
      <4>3. \A n \in 0..(k - 1) : f[n] = IF n = 0 THEN start
                                         ELSE Rotation!CheckOne(rotation_models, ks[n], f[n - 1])
        BY <3>2
      <4>4. QED
        BY <4>2, <4>3
    <3>4. \A n \in 0..k : t[n] = IF n = 0 THEN start ELSE Rotation!CheckOne(rotation_models, ks[n], t[n - 1])
      <4> SUFFICES ASSUME NEW n \in 0..k
          PROVE t[n] = IF n = 0 THEN start ELSE Rotation!CheckOne(rotation_models, ks[n], t[n - 1])
        OBVIOUS
      <4>1. t[k] = Rotation!CheckOne(rotation_models, ks[k], f[k - 1])
        BY <2>1
      <4> HIDE DEF t
      <4>2. CASE n = k
        <5>1. t[k - 1] = f[k - 1]
          BY <3>0, <3>3
        <5>2. QED
          BY <2>3, <4>1, <4>2, <5>1
      <4>3. CASE n # k
        <5>1. n \in 0..(k - 1) /\ (n # 0 => n - 1 \in 0..(k - 1))
          BY <2>1, <4>3
        <5>2. QED
          BY <3>3, <5>1
      <4>4. QED
        BY <4>2, <4>3
    <3>5. Is(k, t)
      <4>1. t = [n \in 0..k |-> t[n]]
        OBVIOUS
      <4> HIDE DEF t
      <4>2. t = [n \in 0..k |-> IF n = 0 THEN start ELSE Rotation!CheckOne(rotation_models, ks[n], t[n - 1])]
        BY <3>4, <4>1
      <4>3. QED
        BY <4>2
    <3>6. QED
      BY <2>1, <3>5
  <2>4. QED
    BY <2>2, <2>3
<1>2. Without \subseteq Nat
  OBVIOUS
<1>3. Without = {}
  BY <1>1, <1>2, Least
<1>4. L \in Nat /\ L <= L
  OBVIOUS
<1> HIDE DEF Is
<1>5. \E f : Is(L, f)
  BY <1>3, <1>4
<1>6. QED
  BY <1>5 DEF Is, IsWalk

\* Where such a walk ends is sound: there is no first state that is not.
LEMMA WalkSound ==
  ASSUME RotationInv, NEW start, Sound(start), NEW f,
         f = [i \in 0..Len(rotation_known) |->
                IF i = 0 THEN start ELSE Rotation!CheckOne(rotation_models, rotation_known[i], f[i - 1])]
  PROVE  Sound(f[Len(rotation_known)])
<1> DEFINE L == Len(rotation_known)
           Bad == {k \in Nat : k <= L /\ ~Sound(f[k])}
<1>1. /\ L \in Nat /\ \A i \in 1..L : rotation_known[i] \in RotNames
      /\ Rotation!RotationAssumption /\ rotation_now \in Ticks
      /\ cool \in [RotNames -> 0..(LastTick + Cooldown)]
  <2>1. rotation_known \in Seq(RotNames)
    BY DEF RotationInv
  <2>2. L \in Nat /\ DOMAIN rotation_known = 1..L
    BY <2>1
  <2>3. QED
    BY <2>1, <2>2, ElementOf DEF RotationInv
<1>2. f[0] = start /\ \A i \in 1..L : f[i] = Rotation!CheckOne(rotation_models, rotation_known[i], f[i - 1])
  <2>1. \A i \in 0..L : f[i] = IF i = 0 THEN start
                               ELSE Rotation!CheckOne(rotation_models, rotation_known[i], f[i - 1])
    OBVIOUS
  <2>2. 0 \in 0..L /\ \A i \in 1..L : i \in 0..L /\ i # 0
    BY <1>1
  <2>3. QED
    BY <2>1, <2>2
<1>3. ASSUME NEW k \in Bad, \A j \in Bad : k <= j PROVE FALSE
  <2>1. k \in Nat /\ k <= L /\ ~Sound(f[k])
    OBVIOUS
  <2>2. k # 0
    BY <1>2, <2>1
  <2>3. k - 1 \in Nat /\ k - 1 <= L /\ k \in 1..L
    BY <1>1, <2>1, <2>2
  <2>4. k - 1 \notin Bad
    BY <1>3, <2>1
  <2>5. Sound(f[k - 1])
    BY <2>3, <2>4
  <2>6. Sound(Rotation!CheckOne(rotation_models, rotation_known[k], f[k - 1]))
    BY <1>1, <2>3, <2>5, CheckOneSound
  <2>7. QED
    BY <1>2, <2>1, <2>3, <2>6
<1>4. Bad \subseteq Nat
  OBVIOUS
<1>5. Bad = {}
  BY <1>3, <1>4, Least
<1> HIDE DEF L
<1>6. L \in Nat /\ L <= L
  BY <1>1
<1>7. Sound(f[L])
  BY <1>5, <1>6
<1>8. QED
  BY <1>7 DEF L

\* A check ends in a sound state.
LEMMA CheckSound ==
  ASSUME RotationInv, NEW unreadable \in SUBSET (Rotation!Range(Snapshot) \ rotation_models),
         Rotation!Check(unreadable)
  PROVE  \E w : /\ Sound(w) /\ rotation_models' = w.models /\ rotation_known' = w.known /\ bad' = w.bad
                /\ stamps' = w.stamps /\ cool' = w.cool /\ blank' = blank \cap w.bad
<1> DEFINE start == [models |-> rotation_models, known |-> rotation_known, bad |-> bad, blank |-> blank,
                     stamps |-> stamps, cool |-> cool, failed |-> FALSE, unreadable |-> unreadable]
           Is(f) == f = [i \in 0..Len(rotation_known) |->
                IF i = 0 THEN start ELSE Rotation!CheckOne(rotation_models, rotation_known[i], f[i - 1])]
           after == CHOOSE f : Is(f)
           end   == after[Len(rotation_known)]
<1>1. Len(rotation_known) \in Nat
  BY DEF RotationInv
<1>2. Is(after)
  <2> HIDE DEF start
  <2>1. \E f : IsWalk(f, Len(rotation_known), start, rotation_known)
    BY <1>1, WalkExists
  <2>2. QED
    BY <2>1 DEF IsWalk
<1>3. Sound(start)
  <2>1. rotation_known \in Seq(RotNames)
    BY DEF RotationInv
  <2>2. Rotation!Range(rotation_known) \subseteq RotNames
    <3>1. \A i \in DOMAIN rotation_known : rotation_known[i] \in RotNames
      BY <2>1, ElementOf
    <3>2. QED
      BY <3>1 DEF Rotation!Range
  <2>3. Rotation!Range(Snapshot) \subseteq RotNames
    BY DEF RotNames, Rotation!Names
  <2>4. bad \subseteq RotNames /\ blank \subseteq RotNames /\ unreadable \subseteq RotNames
    BY <2>2, <2>3 DEF RotationInv
  <2>5. stamps \in Seq(Ticks) /\ Stamps(stamps, rotation_now)
    BY DEF RotationInv, Stamps
  <2>6. start \in Working
    BY <2>1, <2>4, <2>5 DEF Working, RotationInv
  <2>7. QED
    BY <2>5, <2>6 DEF Sound, RotationInv
<1>4. Sound(end)
  <2> HIDE DEF start, after
  <2>1. QED
    BY <1>2, <1>3, WalkSound
<1>5. /\ rotation_models' = end.models /\ rotation_known' = end.known /\ bad' = end.bad
      /\ stamps' = end.stamps /\ cool' = end.cool /\ blank' = blank \cap end.bad
  BY DEF Rotation!Check
<1>6. QED
  BY <1>4, <1>5

\* The rotation starts in its invariant.
LEMMA RotationInitInv == Rotation!RotationAssumption /\ Rotation!Init => RotationInv
<1> SUFFICES ASSUME Rotation!RotationAssumption, Rotation!Init PROVE RotationInv
  OBVIOUS
<1>1. /\ rotation_now = 0 /\ rotation_models = Rotation!Members /\ rotation_known = LoadedModels
      /\ bad = {} /\ blank = {}
      /\ stamps = <<>> /\ cool = [m \in RotNames |-> 0]
  BY DEF Rotation!Init, RotNames
<1>2. /\ Cap \in Nat /\ DayTicks \in Nat /\ Cooldown \in Nat /\ LastTick \in Nat
      /\ LoadedModels \in Seq(RotNames) /\ Rotation!Members = Rotation!Range(LoadedModels)
      /\ Rotation!Members \subseteq RotNames
  BY RotationBounds
<1>3. Stamps(stamps, rotation_now)
  <2>1. stamps \in Seq(Ticks) /\ DOMAIN stamps = {}
    BY <1>1
  <2>2. QED
    BY <2>1 DEF Stamps
<1>4. cool \in [RotNames -> 0..(LastTick + Cooldown)] /\ rotation_now \in Ticks
  BY <1>1, <1>2 DEF Ticks
<1>5. QED
  BY <1>1, <1>2, <1>3, <1>4 DEF RotationInv

\* The rotation keeps its cap and its cool-downs.
LEMMA RotationStep == RotationInv /\ [Rotation!Next]_Rotation!vars => RotationInv' /\ CoolDownKept
<1> SUFFICES ASSUME RotationInv, [Rotation!Next]_Rotation!vars PROVE RotationInv' /\ CoolDownKept
  OBVIOUS
<1>1. RotNames' = RotNames /\ Ticks' = Ticks
  BY DEF RotNames, Rotation!Names, Rotation!Members, Ticks
<1>2. ASSUME UNCHANGED <<rotation_now, rotation_models, rotation_known, stamps, cool>>,
             bad' \subseteq Rotation!Range(rotation_known), blank' \subseteq bad'
      PROVE  RotationInv' /\ CoolDownKept
  BY <1>1, <1>2 DEF RotationInv, CoolDownKept, Rotation!RotationAssumption, Rotation!Members,
     Rotation!Names, Stamps
<1>3. CASE UNCHANGED Rotation!vars
  BY <1>2, <1>3 DEF Rotation!vars, RotationInv
<1>4. ASSUME NEW m \in Rotation!Names, NEW none \in BOOLEAN, Rotation!Decline(m, none)
    PROVE RotationInv' /\ CoolDownKept
  <2>1. /\ UNCHANGED <<rotation_now, rotation_models, rotation_known, stamps, cool>>
        /\ m \in Rotation!Range(rotation_known) /\ bad' = bad \cup {m} /\ blank' \subseteq blank \cup {m}
    BY <1>4 DEF Rotation!Decline
  <2>2. QED
    BY <1>2, <2>1 DEF RotationInv
<1>5. ASSUME NEW m \in Rotation!Names, Rotation!Recover(m) PROVE RotationInv' /\ CoolDownKept
  <2>1. /\ UNCHANGED <<rotation_now, rotation_models, rotation_known, stamps, cool>>
        /\ bad' = bad \ {m} /\ blank' = blank \ {m}
    BY <1>5 DEF Rotation!Recover
  <2>2. QED
    BY <1>2, <2>1 DEF RotationInv
<1>6. CASE Rotation!Tick
  <2>1. rotation_now < LastTick /\ rotation_now' = rotation_now + 1
    BY <1>6 DEF Rotation!Tick
  <2>2. PICK w : /\ Sound(w) /\ rotation_models' = w.models /\ rotation_known' = w.known /\ bad' = w.bad
                 /\ stamps' = w.stamps /\ cool' = w.cool /\ blank' = blank \cap w.bad
    BY <1>6, CheckSound DEF Rotation!Tick
  <2>3. rotation_now' \in Ticks /\ rotation_now \in Nat
    BY <2>1, RotationBounds DEF Ticks, RotationInv
  <2>4. /\ rotation_known' \in Seq(RotNames) /\ rotation_models' \subseteq RotNames
        /\ cool' \in [RotNames -> 0..(LastTick + Cooldown)]
    BY <2>2 DEF Sound, Working
  <2>5. /\ rotation_models' \subseteq Rotation!Range(rotation_known')
        /\ bad' \subseteq Rotation!Range(rotation_known')
        /\ blank' \subseteq bad'
    BY <2>2 DEF Sound
  <2>6. Stamps(stamps', rotation_now)
    BY <2>2 DEF Sound
  <2>7. Stamps(stamps, rotation_now)'
    <3>1. stamps' \in Seq(Ticks)
      BY <2>6 DEF Stamps
    <3>2. \A i \in DOMAIN stamps' : stamps'[i] \in Ticks
      BY <3>1, ElementOf
    <3>3. LastTick \in Nat
      BY RotationBounds DEF RotationInv
    <3>4. \A i \in DOMAIN stamps' : stamps'[i] <= rotation_now'
      BY <2>1, <2>3, <2>6, <3>2, <3>3 DEF Stamps, Ticks
    <3>5. QED
      BY <1>1, <2>6, <3>4 DEF Stamps
  <2>8. Rotation!Range(rotation_known)' = Rotation!Range(rotation_known')
    BY DEF Rotation!Range
  <2>9. CoolDownKept
    BY <2>2 DEF Sound, CoolDownKept
  <2>10. RotationInv'
    BY <1>1, <2>3, <2>4, <2>5, <2>7, <2>8
    DEF RotationInv, Rotation!RotationAssumption, Rotation!Members, Rotation!Names
  <2>11. QED
    BY <2>9, <2>10
<1>7. QED
  BY <1>3, <1>4, <1>5, <1>6 DEF Rotation!Next

\* The invariant of the rotation says what is promised of it.
LEMMA RotationInvHolds == RotationInv => Rotation!TypeOK /\ Rotation!RotationsCapped
  BY DEF RotationInv, Rotation!TypeOK, Rotation!RotationsCapped, Stamps, RotNames, Ticks

-----------------------------------------------------------------------------
(* The factory's search.                                                     *)

\* What a proposal seats is a model of the matrix.
Adds(p) == p.type \in {"swap", "add"} => p.add \in Factory!Models

FactoryTypes ==
  /\ setup \in Setups
  /\ config \in Factory!Committees /\ \A r \in DOMAIN config : config[r] # <<>>
  /\ best \in setup.ratios \cup {None}
  /\ DOMAIN tests \subseteq Factory!Committees /\ \A c \in DOMAIN tests : tests[c] \in setup.ratios
  /\ history \in Seq([accepted : BOOLEAN, after : Int]) /\ Len(history) <= setup.iterations
  /\ asked \in -1..setup.iterations /\ done \in BOOLEAN
  /\ \A p \in DOMAIN arms : Adds(p)

(* Before the first test nothing has been tested; afterwards the committee   *)
(* in hand was, and nothing was better.                                      *)
BestInv ==
  /\ best = None => DOMAIN tests = {}
  /\ best # None => config \in DOMAIN tests
  /\ Factory!BestIsCurrent /\ Factory!BestIsBest

FactoryInv == Factory!FactoryAssumption /\ FactoryTypes /\ BestInv

FactoryRises == best # None => best' >= best /\ (config' # config => best' > best)

\* What the factory is started with.
LEMMA FactoryBounds ==
  ASSUME Factory!FactoryAssumption, setup \in Setups
  PROVE  /\ setup.iterations \in Nat \ {0} /\ setup.ratios \subseteq Int /\ None \notin setup.ratios
         /\ setup.matrix \in [Factory!Regimes -> [Factory!Models -> Int]]
         /\ Seats \in Factory!Committees /\ \A r \in DOMAIN Seats : Seats[r] # <<>>
         /\ Factory!Range(Fallback) \subseteq Factory!Models
         /\ DOMAIN Seats \subseteq Factory!Regimes
  BY DEF Factory!FactoryAssumption, Factory!Models, Factory!Committees, Factory!Range

\* The factory starts in its invariant.
LEMMA FactoryInitInv == Factory!FactoryAssumption /\ Factory!Init => FactoryInv
<1> SUFFICES ASSUME Factory!FactoryAssumption, Factory!Init PROVE FactoryInv
  OBVIOUS
<1>1. /\ setup \in Setups /\ config = Seats /\ best = None /\ tests = <<>> /\ history = <<>>
      /\ arms = <<>> /\ asked = -1 /\ done = FALSE
  BY DEF Factory!Init
<1>2. DOMAIN tests = {} /\ DOMAIN arms = {}
  BY <1>1
<1>3. history \in Seq([accepted : BOOLEAN, after : Int]) /\ Len(history) = 0
  BY <1>1
<1>4. -1 \in -1..setup.iterations /\ 0 <= setup.iterations
  BY <1>1, FactoryBounds
<1>5. FactoryTypes
  BY <1>1, <1>2, <1>3, <1>4, FactoryBounds DEF FactoryTypes
<1>6. BestInv
  BY <1>1, <1>2 DEF BestInv, Factory!BestIsCurrent, Factory!BestIsBest
<1>7. QED
  BY <1>5, <1>6 DEF FactoryInv

\* What the greedy search proposes: the best that is not seated, for the worst.
LEMMA GreedyIs ==
  ASSUME NEW p \in Factory!Greedy
  PROVE  /\ p.type \in {"swap", "add"} => p.add \in Factory!BestFor(p.regime)
         /\ p.type = "swap" => Factory!Beats(p.regime, 2) /\ p.remove \in Factory!WorstIn(p.regime)
         /\ p.type \in {"swap", "add", "remove"}
<1>1. PICK r \in Factory!Weakest :
        p \in (IF Factory!Beats(r, 2)
               THEN {Factory!SwapOf(r, w, b) : w \in Factory!WorstIn(r), b \in Factory!BestFor(r)}
               ELSE IF Factory!Lonely # {}
               THEN UNION {{Factory!AddOf(q, b) : b \in Factory!BestFor(q)} :
                             q \in Factory!FirstSuch(Factory!Lonely)}
               ELSE UNION {{Factory!RemoveOf(q, w) : w \in Factory!WorstIn(q)} :
                             q \in Factory!FirstSuch(Factory!Redundant)})
  BY DEF Factory!Greedy
<1>2. \/ Factory!Beats(r, 2)
        /\ \E w \in Factory!WorstIn(r), b \in Factory!BestFor(r) : p = Factory!SwapOf(r, w, b)
      \/ \E q : \E b \in Factory!BestFor(q) : p = Factory!AddOf(q, b)
      \/ \E q : \E w \in Factory!WorstIn(q) : p = Factory!RemoveOf(q, w)
  BY <1>1
<1>3. QED
  BY <1>2 DEF Factory!SwapOf, Factory!AddOf, Factory!RemoveOf

\* Whatever is proposed seats models of the matrix.
LEMMA ProposalsAdd == \A p \in Factory!Greedy \cup Factory!Parsed : Adds(p)
<1>1. \A p \in Factory!Greedy : Adds(p)
  <2>1. \A r : Factory!BestFor(r) \subseteq Factory!Models
    BY DEF Factory!BestFor
  <2>2. QED
    BY <2>1, GreedyIs DEF Adds
<1>2. \A p \in Factory!Parsed : Adds(p)
  BY DEF Factory!Parsed, Adds, Factory!SwapOf, Factory!AddOf, Factory!RemoveOf
<1>3. QED
  BY <1>1, <1>2

\* Two lists, one after the other.
LEMMA Joined ==
  ASSUME NEW S, NEW a \in Seq(S), NEW b \in Seq(S)
  PROVE  a \o b \in Seq(S) /\ Len(a \o b) = Len(a) + Len(b)
  OBVIOUS

\* The index of a model of a list is where that model is.
LEMMA IndexIs ==
  ASSUME NEW S, NEW ms \in Seq(S), NEW m \in Factory!Range(ms)
  PROVE  Factory!IndexOf(ms, m) \in 1..Len(ms) /\ ms[Factory!IndexOf(ms, m)] = m
<1> DEFINE T == {i \in DOMAIN ms : ms[i] = m}
<1>1. DOMAIN ms = 1..Len(ms) /\ Len(ms) \in Nat
  OBVIOUS
<1>2. T \subseteq Nat /\ T # {}
  BY <1>1 DEF Factory!Range
<1>3. PICK i \in T : \A j \in T : i <= j
  BY <1>2, Least
<1>4. \E k \in DOMAIN ms : ms[k] = m /\ \A j \in 1..(k - 1) : ms[j] # m
  <2>1. \A j \in 1..(i - 1) : ms[j] # m
    <3> SUFFICES ASSUME NEW j \in 1..(i - 1), ms[j] = m PROVE FALSE
      OBVIOUS
    <3>1. j \in DOMAIN ms /\ j < i /\ i \in Nat /\ j \in Nat
      BY <1>1
    <3>2. i <= j
      BY <1>3, <3>1
    <3>3. QED
      BY <3>1, <3>2
  <2>2. QED
    BY <1>3, <2>1
<1>5. QED
  BY <1>1, <1>4 DEF Factory!IndexOf

\* An action on the models of a regime: they remain models of the matrix, and one
\* remains.  As many as before are the same, or one of them in another's place.
LEMMA AppliedIs ==
  ASSUME Factory!FactoryAssumption, FactoryTypes, NEW p, Adds(p)
  PROVE  /\ Factory!Applied(p) \in Factory!Committees
         /\ \A r \in DOMAIN Factory!Applied(p) : Factory!Applied(p)[r] # <<>>
         /\ \A r \in DOMAIN config :
              \/ Factory!Applied(p)[r] = config[r]
              \/ Len(Factory!Applied(p)[r]) # Len(config[r])
              \/ /\ p.regime = r /\ p.type = "swap" /\ p.remove \in Factory!Range(config[r])
                 /\ \E i \in 1..Len(config[r]) :
                      config[r][i] = p.remove /\ Factory!Applied(p)[r] = [config[r] EXCEPT ![i] = p.add]
<1>1. /\ config \in [DOMAIN Seats -> Seq(Factory!Models)] /\ DOMAIN config = DOMAIN Seats
      /\ \A r \in DOMAIN config : config[r] # <<>>
  BY DEF FactoryTypes, Factory!Committees
<1>2. CASE p.regime \notin DOMAIN config
  BY <1>1, <1>2 DEF Factory!Applied, Factory!Committees
<1>3. CASE p.regime \in DOMAIN config
  <2> DEFINE ms  == config[p.regime]
             i   == Factory!IndexOf(ms, p.remove)
             has(x) == x \in Factory!Range(ms)
             new == CASE p.type = "swap" /\ has(p.remove) -> Factory!ReplaceAt(ms, i, p.add)
                      [] p.type = "add" /\ ~has(p.add) -> Append(ms, p.add)
                      [] p.type = "remove" /\ has(p.remove) /\ Len(ms) > 1 -> Factory!RemoveAt(ms, i)
                      [] OTHER -> ms
  <2>1. Factory!Applied(p) = [config EXCEPT ![p.regime] = new]
    BY <1>3 DEF Factory!Applied
  <2>2. ms \in Seq(Factory!Models) /\ ms # <<>> /\ Len(ms) \in Nat /\ Len(ms) >= 1
    BY <1>1, <1>3
  <2> HIDE DEF ms
  <2>3. has(p.remove) => i \in 1..Len(ms) /\ ms[i] = p.remove
    BY <2>2, IndexIs
  <2> HIDE DEF i
  <2>4. /\ new \in Seq(Factory!Models) /\ new # <<>>
        /\ \/ new = ms
           \/ Len(new) # Len(ms)
           \/ p.type = "swap" /\ has(p.remove) /\ new = [ms EXCEPT ![i] = p.add]
    <3>1. CASE p.type = "swap" /\ has(p.remove)
      <4>1. new = [ms EXCEPT ![i] = p.add]
        BY <3>1 DEF Factory!ReplaceAt
      <4>2. p.add \in Factory!Models
        BY <3>1 DEF Adds
      <4>3. [ms EXCEPT ![i] = p.add] \in Seq(Factory!Models) /\ Len([ms EXCEPT ![i] = p.add]) = Len(ms)
        BY <2>2, <2>3, <3>1, <4>2
      <4> HIDE DEF new
      <4>4. new \in Seq(Factory!Models) /\ Len(new) = Len(ms)
        BY <4>1, <4>3
      <4>5. new # <<>>
        BY <2>2, <4>4
      <4>6. QED
        BY <3>1, <4>1, <4>4, <4>5
    <3>2. CASE p.type = "add" /\ ~has(p.add)
      <4>1. new = Append(ms, p.add) /\ p.add \in Factory!Models
        BY <3>2 DEF Adds
      <4> HIDE DEF new
      <4>2. QED
        BY <2>2, <4>1
    <3>3. CASE p.type = "remove" /\ has(p.remove) /\ Len(ms) > 1
      <4>1. new = SubSeq(ms, 1, i - 1) \o SubSeq(ms, i + 1, Len(ms))
        BY <3>3 DEF Factory!RemoveAt
      <4>2. i \in 1..Len(ms)
        BY <2>3, <3>3
      <4> HIDE DEF new
      <4>3. SubSeq(ms, 1, i - 1) \in Seq(Factory!Models) /\ Len(SubSeq(ms, 1, i - 1)) = i - 1
        BY <2>2, <4>2
      <4>4. SubSeq(ms, i + 1, Len(ms)) \in Seq(Factory!Models) /\ Len(SubSeq(ms, i + 1, Len(ms))) = Len(ms) - i
        BY <2>2, <4>2
      <4>5. new \in Seq(Factory!Models) /\ Len(new) = Len(ms) - 1
        <5>1. i - 1 + (Len(ms) - i) = Len(ms) - 1
          BY <2>2, <4>2
        <5>2. QED
          BY <4>1, <4>3, <4>4, <5>1, Joined
      <4>6. QED
        BY <2>2, <3>3, <4>5
    <3>4. CASE /\ ~(p.type = "swap" /\ has(p.remove)) /\ ~(p.type = "add" /\ ~has(p.add))
               /\ ~(p.type = "remove" /\ has(p.remove) /\ Len(ms) > 1)
      BY <2>2, <3>4
    <3>5. QED
      BY <3>1, <3>2, <3>3, <3>4
  <2> HIDE DEF new
  <2>5. Factory!Applied(p) \in Factory!Committees
    BY <1>1, <1>3, <2>1, <2>4 DEF Factory!Committees
  <2>6. /\ DOMAIN Factory!Applied(p) = DOMAIN config
        /\ \A r \in DOMAIN config : Factory!Applied(p)[r] = IF r = p.regime THEN new ELSE config[r]
    BY <1>1, <2>1
  <2>7. \A r \in DOMAIN Factory!Applied(p) : Factory!Applied(p)[r] # <<>>
    BY <1>1, <2>4, <2>6
  <2>8. ASSUME NEW r \in DOMAIN config, Factory!Applied(p)[r] # config[r],
               Len(Factory!Applied(p)[r]) = Len(config[r])
        PROVE  /\ p.regime = r /\ p.type = "swap" /\ p.remove \in Factory!Range(config[r])
               /\ \E k \in 1..Len(config[r]) :
                      config[r][k] = p.remove /\ Factory!Applied(p)[r] = [config[r] EXCEPT ![k] = p.add]
    <3>1. r = p.regime /\ config[r] = ms /\ Factory!Applied(p)[r] = new
      BY <2>6, <2>8 DEF ms
    <3>2. p.type = "swap" /\ has(p.remove) /\ new = [ms EXCEPT ![i] = p.add]
      BY <2>4, <2>8, <3>1
    <3>3. i \in 1..Len(ms) /\ ms[i] = p.remove
      BY <2>3, <3>2
    <3>4. QED
      BY <3>1, <3>2, <3>3
  <2>9. QED
    BY <2>5, <2>7, <2>8
<1>4. QED
  BY <1>2, <1>3

\* What a test of a committee adds to the outcomes.
LEMMA OutcomeIs ==
  ASSUME NEW V, NEW c, NEW W \in Factory!Outcomes(V, c)
  PROVE  /\ DOMAIN W = DOMAIN V \cup {c} /\ \A d \in DOMAIN V : W[d] = V[d]
         /\ c \notin DOMAIN V => W[c] \in setup.ratios
<1>1. CASE c \in DOMAIN V
  BY <1>1 DEF Factory!Outcomes
<1>2. CASE c \notin DOMAIN V
  <2>1. PICK x \in setup.ratios : W = [d \in DOMAIN V \cup {c} |-> IF d = c THEN x ELSE V[d]]
    BY <1>2 DEF Factory!Outcomes
  <2>2. QED
    BY <1>2, <2>1
<1>3. QED
  BY <1>1, <1>2

\* An iteration: what it tests, what it keeps, and that it only keeps what is better.
LEMMA ExecuteStep ==
  ASSUME FactoryInv, NEW p, Adds(p), Factory!Execute(p), setup' = setup,
         Len(history) < setup.iterations
  PROVE  /\ config' \in Factory!Committees /\ \A r \in DOMAIN config' : config'[r] # <<>>
         /\ config' = config \/ config' = Factory!Applied(p)
         /\ best' \in setup.ratios
         /\ DOMAIN tests' \subseteq Factory!Committees /\ \A c \in DOMAIN tests' : tests'[c] \in setup.ratios
         /\ history' \in Seq([accepted : BOOLEAN, after : Int]) /\ Len(history') = Len(history) + 1
         /\ config' \in DOMAIN tests' /\ tests'[config'] = best' /\ \A c \in DOMAIN tests' : tests'[c] <= best'
         /\ FactoryRises
<1> DEFINE new == Factory!Applied(p)
<1>1. /\ Factory!FactoryAssumption /\ FactoryTypes /\ BestInv
      /\ new \in Factory!Committees /\ \A r \in DOMAIN new : new[r] # <<>>
      /\ config \in Factory!Committees /\ \A r \in DOMAIN config : config[r] # <<>>
  BY AppliedIs DEF FactoryInv, FactoryTypes
<1>2. /\ setup.ratios \subseteq Int /\ None \notin setup.ratios /\ setup.iterations \in Nat
  BY <1>1, FactoryBounds DEF FactoryTypes
<1>t. PICK T \in (IF best = None THEN Factory!Outcomes(tests, config) ELSE {tests}) :
      \E U \in Factory!Outcomes(T, new) :
        LET before == IF best = None THEN T[config] ELSE best
            after  == U[new]
            better == Factory!Improved(after, before)
        IN  /\ tests' = U /\ Factory!Track(better, after)
            /\ config' = (IF better THEN new ELSE config)
            /\ best' = (IF better THEN after ELSE before)
  BY DEF Factory!Execute
<1>3. PICK U \in Factory!Outcomes(T, new) :
        LET before == IF best = None THEN T[config] ELSE best
            after  == U[new]
            better == Factory!Improved(after, before)
        IN  /\ tests' = U /\ Factory!Track(better, after)
            /\ config' = (IF better THEN new ELSE config)
            /\ best' = (IF better THEN after ELSE before)
  BY <1>t
<1> DEFINE before == IF best = None THEN T[config] ELSE best
           after  == U[new]
<1>4. /\ tests' = U /\ history' = Append(history, [accepted |-> after > before, after |-> after])
      /\ after > before => config' = new /\ best' = after
      /\ ~(after > before) => config' = config /\ best' = before
  BY <1>3 DEF Factory!Improved, Factory!Track
<1>6. /\ config \in DOMAIN T /\ before \in setup.ratios /\ T[config] = before
      /\ DOMAIN T \subseteq Factory!Committees
      /\ \A c \in DOMAIN T : T[c] \in setup.ratios /\ T[c] <= before
  <2>1. CASE best = None
    <3>1. DOMAIN tests = {} /\ T \in Factory!Outcomes(tests, config)
      BY <1>1, <1>t, <2>1 DEF BestInv
    <3>2. DOMAIN T = {config} /\ T[config] \in setup.ratios
      <4>1. /\ DOMAIN T = DOMAIN tests \cup {config}
            /\ config \notin DOMAIN tests => T[config] \in setup.ratios
        BY <3>1, OutcomeIs
      <4>2. QED
        BY <3>1, <4>1
    <3>3. QED
      BY <1>1, <1>2, <2>1, <3>2
  <2>2. CASE best # None
    <3>1. /\ T = tests /\ before = best /\ best \in setup.ratios /\ config \in DOMAIN tests
          /\ tests[config] = best /\ \A c \in DOMAIN tests : tests[c] <= best /\ tests[c] \in setup.ratios
      BY <1>1, <1>t, <2>2 DEF BestInv, Factory!BestIsCurrent, Factory!BestIsBest, FactoryTypes
    <3>2. DOMAIN tests \subseteq Factory!Committees
      BY <1>1 DEF FactoryTypes
    <3>3. QED
      BY <3>1, <3>2
  <2>3. QED
    BY <2>1, <2>2
<1>7. /\ DOMAIN U = DOMAIN T \cup {new} /\ after \in setup.ratios
      /\ \A d \in DOMAIN T : U[d] = T[d]
  <2>1. U \in Factory!Outcomes(T, new)
    BY <1>3
  <2> HIDE DEF new
  <2>2. /\ DOMAIN U = DOMAIN T \cup {new} /\ (\A d \in DOMAIN T : U[d] = T[d])
        /\ new \notin DOMAIN T => U[new] \in setup.ratios
    BY <2>1, OutcomeIs
  <2>3. U[new] \in setup.ratios
    BY <1>6, <2>2
  <2>4. QED
    BY <2>2, <2>3
<1>8. best # None => before = best
  OBVIOUS
<1> HIDE DEF new, before, after
<1>9. before \in Int /\ after \in Int
  BY <1>2, <1>6, <1>7
<1>10. U[new] = after
  BY DEF after
<1>11. /\ DOMAIN tests' \subseteq Factory!Committees /\ \A c \in DOMAIN tests' : tests'[c] \in setup.ratios
       /\ best' \in setup.ratios
  BY <1>1, <1>4, <1>6, <1>7, <1>10
<1>12. /\ config' \in DOMAIN tests' /\ tests'[config'] = best'
  BY <1>4, <1>6, <1>7, <1>10
<1>13. ASSUME NEW c \in DOMAIN tests' PROVE tests'[c] <= best'
  <2>1. best' >= before /\ best' >= after /\ best' \in Int
    BY <1>4, <1>9
  <2>2. CASE c = new
    BY <1>4, <1>9, <1>10, <2>1, <2>2
  <2>3. CASE c \in DOMAIN T
    <3>1. tests'[c] = T[c] /\ T[c] <= before /\ T[c] \in Int
      BY <1>2, <1>4, <1>6, <1>7, <2>3
    <3>2. QED
      BY <1>9, <2>1, <3>1
  <2>4. QED
    BY <1>4, <1>7, <2>2, <2>3
<1>14. FactoryRises
  BY <1>4, <1>8, <1>9 DEF FactoryRises
<1>15. history' \in Seq([accepted : BOOLEAN, after : Int]) /\ Len(history') = Len(history) + 1
  <2>1. history \in Seq([accepted : BOOLEAN, after : Int])
    BY <1>1 DEF FactoryTypes
  <2>2. [accepted |-> after > before, after |-> after] \in [accepted : BOOLEAN, after : Int]
    BY <1>9
  <2>3. QED
    BY <1>4, <2>1, <2>2
<1>16. /\ config' \in Factory!Committees /\ \A r \in DOMAIN config' : config'[r] # <<>>
       /\ config' = config \/ config' = Factory!Applied(p)
  BY <1>1, <1>4 DEF new
<1>17. QED
  BY <1>11, <1>12, <1>13, <1>14, <1>15, <1>16

\* What an iteration leaves to be known: the arms, and when the last list was made.
LEMMA ExecuteKeeps ==
  ASSUME FactoryInv, NEW p, Adds(p), Factory!Execute(p), setup' = setup, ~Factory!ShouldStop,
         asked' \in {asked, Factory!iteration}, done' \in BOOLEAN,
         \A q \in DOMAIN arms' : Adds(q)
  PROVE  FactoryInv' /\ FactoryRises
<1>1. Factory!FactoryAssumption /\ FactoryTypes
  BY DEF FactoryInv
<1>2. setup.iterations \in Nat /\ None \notin setup.ratios /\ Len(history) \in Nat /\ asked \in Int
  BY <1>1, FactoryBounds DEF FactoryTypes
<1>3. Len(history) < setup.iterations
  BY <1>2 DEF Factory!ShouldStop, Factory!OutOfBudget, Factory!iteration
<1>4. /\ config' \in Factory!Committees /\ \A r \in DOMAIN config' : config'[r] # <<>>
      /\ best' \in setup.ratios
      /\ DOMAIN tests' \subseteq Factory!Committees /\ \A c \in DOMAIN tests' : tests'[c] \in setup.ratios
      /\ history' \in Seq([accepted : BOOLEAN, after : Int]) /\ Len(history') = Len(history) + 1
      /\ config' \in DOMAIN tests' /\ tests'[config'] = best' /\ \A c \in DOMAIN tests' : tests'[c] <= best'
      /\ FactoryRises
  BY <1>3, ExecuteStep
<1>5. Factory!Committees' = Factory!Committees /\ Factory!Models' = Factory!Models
  BY DEF Factory!Committees, Factory!Models
<1>6. asked' \in -1..setup.iterations
  BY <1>1, <1>2, <1>3 DEF FactoryTypes, Factory!iteration
<1>7. FactoryTypes'
  BY <1>1, <1>2, <1>3, <1>4, <1>5, <1>6 DEF FactoryTypes, Adds
<1>8. BestInv'
  BY <1>2, <1>4 DEF BestInv, Factory!BestIsCurrent, Factory!BestIsBest
<1>9. QED
  BY <1>1, <1>4, <1>7, <1>8 DEF FactoryInv, Factory!FactoryAssumption, Factory!Regimes

\* The loop ends, or it stands still.
LEMMA HaltKeeps ==
  ASSUME FactoryInv, UNCHANGED <<setup, config, best, tests, history>>, done' \in BOOLEAN,
         asked' \in {asked, Factory!iteration}, \A q \in DOMAIN arms' : Adds(q)
  PROVE  FactoryInv' /\ FactoryRises
<1>1. Factory!FactoryAssumption /\ FactoryTypes /\ BestInv
  BY DEF FactoryInv
<1>2. setup.iterations \in Nat /\ setup.ratios \subseteq Int /\ Len(history) \in Nat
  BY <1>1, FactoryBounds DEF FactoryTypes
<1>3. asked' \in -1..setup.iterations
  BY <1>1, <1>2 DEF FactoryTypes, Factory!iteration
<1>4. Factory!Committees' = Factory!Committees /\ Factory!Models' = Factory!Models
  BY DEF Factory!Committees, Factory!Models
<1>5. FactoryTypes'
  BY <1>1, <1>3, <1>4 DEF FactoryTypes, Adds
<1>6. BestInv'
  BY <1>1 DEF BestInv, Factory!BestIsCurrent, Factory!BestIsBest
<1>7. FactoryRises
  BY <1>1, <1>2 DEF FactoryRises, FactoryTypes
<1>8. QED
  BY <1>1, <1>5, <1>6, <1>7 DEF FactoryInv, Factory!FactoryAssumption, Factory!Regimes

\* The factory keeps its invariant, and its best never falls.
LEMMA FactoryStep == FactoryInv /\ [Factory!Next]_Factory!vars => FactoryInv' /\ FactoryRises
<1> SUFFICES ASSUME FactoryInv, [Factory!Next]_Factory!vars PROVE FactoryInv' /\ FactoryRises
  OBVIOUS
<1>1. (\A p \in DOMAIN arms : Adds(p)) /\ done \in BOOLEAN
  BY DEF FactoryInv, FactoryTypes
<1>2. CASE UNCHANGED Factory!vars
  BY <1>1, <1>2, HaltKeeps DEF Factory!vars
<1>3. CASE Factory!Stop /\ UNCHANGED setup
  BY <1>1, <1>3, HaltKeeps DEF Factory!Stop, Factory!Halt
<1>4. CASE Factory!Propose /\ UNCHANGED setup
  <2>1. CASE Factory!Halt
    BY <1>1, <1>4, <2>1, HaltKeeps DEF Factory!Halt
  <2>2. ASSUME NEW p \in Factory!Greedy \cup Factory!Advised, Factory!Execute(p), UNCHANGED <<arms, asked, done>>,
               ~Factory!ShouldStop
        PROVE  FactoryInv' /\ FactoryRises
    <3>1. Adds(p)
      BY ProposalsAdd DEF Factory!Advised
    <3>2. QED
      BY <1>1, <1>4, <2>2, <3>1, ExecuteKeeps
  <2>3. QED
    BY <1>4, <2>1, <2>2 DEF Factory!Propose
<1>5. CASE Factory!Bandit /\ UNCHANGED setup
  <2>1. PICK A : /\ A = arms \/ \E S \in Factory!Shortlists : A = Factory!Loaded(S)
                 /\ asked' \in {asked, Factory!iteration}
                 /\ \/ done' = TRUE /\ arms' = A /\ UNCHANGED <<config, best, tests, history, factory_trial>>
                    \/ \E p \in Factory!Choice(A) : arms' = Factory!Pulled(A, p)
                            /\ Factory!Execute(p) /\ UNCHANGED done
    BY <1>5 DEF Factory!Bandit
  <2>2. \A p \in DOMAIN A : Adds(p)
    <3>1. ASSUME NEW S \in Factory!Shortlists PROVE S \subseteq Factory!Greedy \cup Factory!Parsed
      BY DEF Factory!Shortlists
    <3>2. \A S : DOMAIN Factory!Loaded(S) = S
      BY DEF Factory!Loaded
    <3>3. QED
      BY <1>1, <2>1, <3>1, <3>2, ProposalsAdd
  <2>3. \A p : DOMAIN Factory!Pulled(A, p) = DOMAIN A
    BY DEF Factory!Pulled
  <2>4. \A p \in Factory!Choice(A) : p \in DOMAIN A
    BY DEF Factory!Choice
  <2>5. CASE done' = TRUE /\ arms' = A /\ UNCHANGED <<config, best, tests, history, factory_trial>>
    BY <1>5, <2>1, <2>2, <2>5, HaltKeeps
  <2>6. ASSUME NEW p \in Factory!Choice(A), arms' = Factory!Pulled(A, p), Factory!Execute(p), UNCHANGED done
        PROVE  FactoryInv' /\ FactoryRises
    <3>1. Adds(p) /\ (\A q \in DOMAIN arms' : Adds(q)) /\ done' \in BOOLEAN
      BY <1>1, <2>2, <2>3, <2>4, <2>6
    <3>2. ~Factory!ShouldStop /\ setup' = setup
      BY <1>5 DEF Factory!Bandit
    <3>3. QED
      BY <2>1, <2>6, <3>1, <3>2, ExecuteKeeps
  <2>7. QED
    BY <2>1, <2>5, <2>6
<1>6. QED
  BY <1>2, <1>3, <1>4, <1>5 DEF Factory!Next

\* The invariant of the factory says what is promised of it.
LEMMA FactoryInvHolds == FactoryInv => Factory!TypeOK /\ Factory!BestIsBest /\ Factory!BestIsCurrent
<1> SUFFICES ASSUME FactoryInv PROVE Factory!TypeOK /\ Factory!BestIsBest /\ Factory!BestIsCurrent
  OBVIOUS
<1>1. FactoryTypes /\ Factory!FactoryAssumption
  BY DEF FactoryInv
<1>2. setup.iterations \in Nat /\ Factory!iteration \in 0..setup.iterations
  BY <1>1, FactoryBounds DEF FactoryTypes, Factory!iteration
<1>3. QED
  BY <1>1, <1>2 DEF FactoryInv, FactoryTypes, BestInv, Factory!TypeOK

-----------------------------------------------------------------------------
(* The sum of the Sharpe ratios of the models of a regime: the function that *)
(* is defined by recursion exists, or else there is a first number up to     *)
(* which it does not.                                                        *)

Summed(w, L, s) == s = [n \in 0..L |-> IF n = 0 THEN 0 ELSE s[n - 1] + w[n]]

\* There is such a function.
LEMMA SumExists ==
  ASSUME NEW L \in Nat, NEW w, \A n \in 1..L : w[n] \in Int
  PROVE  \E s : Summed(w, L, s)
<1> DEFINE Without == {k \in Nat : k <= L /\ ~\E s : Summed(w, k, s)}
<1>1. ASSUME NEW k \in Without, \A j \in Without : k <= j PROVE FALSE
  <2>1. k \in Nat /\ k <= L /\ ~\E s : Summed(w, k, s)
    OBVIOUS
  <2>2. CASE k = 0
    <3> DEFINE s == [n \in 0..0 |-> 0]
    <3>1. Summed(w, 0, s)
      BY DEF Summed
    <3>2. QED
      BY <2>1, <2>2, <3>1
  <2>3. CASE k # 0
    <3>1. k - 1 \in Nat /\ k - 1 <= L /\ k - 1 \notin Without
      BY <1>1, <2>1, <2>3
    <3>2. PICK s : Summed(w, k - 1, s)
      BY <3>1
    <3> DEFINE t == [n \in 0..k |-> IF n = k THEN s[k - 1] + w[k] ELSE s[n]]
    <3>3. \A n \in 0..(k - 1) : t[n] = s[n] /\ s[n] = IF n = 0 THEN 0 ELSE s[n - 1] + w[n]
      <4>1. \A n \in 0..(k - 1) : n \in 0..k /\ n # k
        BY <2>1, <3>1
      <4>2. \A n \in 0..(k - 1) : t[n] = s[n]
        BY <4>1
      <4>3. \A n \in 0..(k - 1) : s[n] = IF n = 0 THEN 0 ELSE s[n - 1] + w[n]
        BY <3>2 DEF Summed
      <4>4. QED
        BY <4>2, <4>3
    <3>4. \A n \in 0..k : t[n] = IF n = 0 THEN 0 ELSE t[n - 1] + w[n]
      <4> SUFFICES ASSUME NEW n \in 0..k PROVE t[n] = IF n = 0 THEN 0 ELSE t[n - 1] + w[n]
        OBVIOUS
      <4>1. t[k] = s[k - 1] + w[k]
        BY <2>1
      <4> HIDE DEF t
      <4>2. CASE n = k
        <5>1. t[k - 1] = s[k - 1]
          BY <3>1, <3>3
        <5>2. QED
          BY <2>3, <4>1, <4>2, <5>1
      <4>3. CASE n # k
        <5>1. n \in 0..(k - 1) /\ (n # 0 => n - 1 \in 0..(k - 1))
          BY <2>1, <4>3
        <5>2. QED
          BY <3>3, <5>1
      <4>4. QED
        BY <4>2, <4>3
    <3>5. Summed(w, k, t)
      <4>1. t = [n \in 0..k |-> t[n]]
        OBVIOUS
      <4> HIDE DEF t
      <4>2. t = [n \in 0..k |-> IF n = 0 THEN 0 ELSE t[n - 1] + w[n]]
        BY <3>4, <4>1
      <4>3. QED
        BY <4>2 DEF Summed
    <3>6. QED
      BY <2>1, <3>5
  <2>4. QED
    BY <2>2, <2>3
<1>2. Without \subseteq Nat
  OBVIOUS
<1>3. Without = {}
  BY <1>1, <1>2, Least
<1>4. QED
  BY <1>3

\* It adds term after term.
LEMMA SumIs ==
  ASSUME NEW L \in Nat, NEW w, \A n \in 1..L : w[n] \in Int, NEW s, Summed(w, L, s)
  PROVE  s[0] = 0 /\ \A n \in 1..L : s[n] = s[n - 1] + w[n]
<1>1. \A n \in 0..L : s[n] = IF n = 0 THEN 0 ELSE s[n - 1] + w[n]
  BY DEF Summed
<1>2. 0 \in 0..L /\ \A n \in 1..L : n \in 0..L /\ n # 0
  OBVIOUS
<1>3. QED
  BY <1>1, <1>2

\* Terms that are not smaller have a sum that is not smaller.
LEMMA SumsCompare ==
  ASSUME NEW L \in Nat, NEW v, NEW w, NEW s, NEW t, Summed(v, L, s), Summed(w, L, t),
         \A n \in 1..L : v[n] \in Int /\ w[n] \in Int /\ v[n] <= w[n]
  PROVE  s[L] <= t[L]
<1>1. /\ s[0] = 0 /\ \A n \in 1..L : s[n] = s[n - 1] + v[n]
      /\ t[0] = 0 /\ \A n \in 1..L : t[n] = t[n - 1] + w[n]
  BY SumIs
<1> DEFINE Less == {k \in Nat : k <= L /\ ~(s[k] \in Int /\ t[k] \in Int /\ s[k] <= t[k])}
<1>2. ASSUME NEW k \in Less, \A j \in Less : k <= j PROVE FALSE
  <2>1. k \in Nat /\ k <= L /\ ~(s[k] \in Int /\ t[k] \in Int /\ s[k] <= t[k])
    OBVIOUS
  <2>2. k # 0
    BY <1>1, <2>1
  <2>3. k - 1 \in Nat /\ k - 1 <= L /\ k \in 1..L
    BY <2>1, <2>2
  <2>4. k - 1 \notin Less
    BY <1>2, <2>1
  <2>5. s[k - 1] \in Int /\ t[k - 1] \in Int /\ s[k - 1] <= t[k - 1]
    BY <2>3, <2>4
  <2>6. s[k] = s[k - 1] + v[k] /\ t[k] = t[k - 1] + w[k] /\ v[k] \in Int /\ w[k] \in Int /\ v[k] <= w[k]
    BY <1>1, <2>3
  <2>7. QED
    BY <2>1, <2>5, <2>6
<1>3. Less \subseteq Nat
  OBVIOUS
<1>4. Less = {}
  BY <1>2, <1>3, Least
<1>5. QED
  BY <1>4

\* A sum of integers is an integer.
LEMMA SumTyped ==
  ASSUME NEW L \in Nat, NEW w, \A n \in 1..L : w[n] \in Int, NEW s, Summed(w, L, s)
  PROVE  s[L] \in Int
<1>1. s[0] = 0 /\ \A n \in 1..L : s[n] = s[n - 1] + w[n]
  BY SumIs
<1> DEFINE Bad == {k \in Nat : k <= L /\ s[k] \notin Int}
<1>2. ASSUME NEW k \in Bad, \A j \in Bad : k <= j PROVE FALSE
  <2>1. k \in Nat /\ k <= L /\ s[k] \notin Int
    OBVIOUS
  <2>2. k # 0
    BY <1>1, <2>1
  <2>3. k - 1 \in Nat /\ k - 1 <= L /\ k \in 1..L
    BY <2>1, <2>2
  <2>4. k - 1 \notin Bad
    BY <1>2, <2>1
  <2>5. s[k - 1] \in Int /\ s[k] = s[k - 1] + w[k] /\ w[k] \in Int
    BY <1>1, <2>3, <2>4
  <2>6. QED
    BY <2>1, <2>5
<1>3. Bad \subseteq Nat
  OBVIOUS
<1>4. Bad = {}
  BY <1>2, <1>3, Least
<1>5. QED
  BY <1>4

\* The worth of a regime is such a sum.
LEMMA WorthIs ==
  ASSUME NEW c, NEW r, Len(c[r]) \in Nat, NEW w,
         \A n \in 1..Len(c[r]) : w[n] = setup.matrix[r][c[r][n]] /\ w[n] \in Int
  PROVE  \E s : Summed(w, Len(c[r]), s) /\ Factory!Worth(c, r) = s[Len(c[r])]
<1> DEFINE L == Len(c[r])
           Is(s) == s = [n \in 0..L |-> IF n = 0 THEN 0 ELSE s[n - 1] + Factory!Matrix[r][c[r][n]]]
           sum == CHOOSE s : Is(s)
<1>1. \A n \in 0..L : n # 0 => w[n] = Factory!Matrix[r][c[r][n]]
  BY DEF Factory!Matrix
<1>2. \A s : Is(s) <=> Summed(w, L, s)
  BY <1>1 DEF Summed
<1>3. \E s : Summed(w, L, s)
  BY SumExists
<1>4. Is(sum)
  BY <1>2, <1>3
<1>5. Factory!Worth(c, r) = sum[L]
  BY DEF Factory!Worth
<1>6. QED
  BY <1>2, <1>4, <1>5

\* What the greedy search swaps in is not worse than what it swaps out.
LEMMA SwapGains ==
  ASSUME FactoryInv, NEW p \in Factory!Greedy, p.type = "swap", p.regime \in DOMAIN config
  PROVE  /\ p.add \in Factory!Models /\ p.remove \in Factory!Models
         /\ setup.matrix[p.regime][p.remove] <= setup.matrix[p.regime][p.add]
<1> DEFINE r == p.regime
<1>1. Factory!FactoryAssumption /\ FactoryTypes
  BY DEF FactoryInv
<1>2. /\ config[r] \in Seq(Factory!Models) /\ r \in Factory!Regimes
      /\ setup.matrix \in [Factory!Regimes -> [Factory!Models -> Int]]
  BY <1>1, FactoryBounds DEF FactoryTypes, Factory!Committees
<1>3. Factory!Seated(r) \subseteq Factory!Models
  <2>1. Factory!Seated(r) = Factory!Range(config[r])
    BY DEF Factory!Seated
  <2>2. \A n \in DOMAIN config[r] : config[r][n] \in Factory!Models
    BY <1>2, ElementOf
  <2>3. QED
    BY <2>1, <2>2 DEF Factory!Range
<1>4. p.add \in Factory!BestFor(r) /\ Factory!Beats(r, 2) /\ p.remove \in Factory!WorstIn(r)
  BY GreedyIs
<1>5. PICK b \in Factory!BestFor(r), w \in Factory!WorstIn(r) : setup.matrix[r][b] > setup.matrix[r][w] + 2
  BY <1>4 DEF Factory!Beats, Factory!Matrix
<1>6. /\ b \in Factory!Models /\ w \in Factory!Models /\ p.add \in Factory!Models /\ p.remove \in Factory!Models
      /\ setup.matrix[r][p.add] >= setup.matrix[r][b] /\ setup.matrix[r][p.remove] <= setup.matrix[r][w]
  BY <1>3, <1>4 DEF Factory!BestFor, Factory!WorstIn, Factory!Matrix
<1>7. \A m \in Factory!Models : setup.matrix[r][m] \in Int
  BY <1>2
<1>8. QED
  BY <1>5, <1>6, <1>7

\* A step of the greedy search does not lower the mean of a regime it swaps in.
LEMMA ClimbStep ==
  ASSUME FactoryInv, [Factory!Next]_Factory!vars, setup.proposer = "greedy",
         NEW r \in DOMAIN config, Len(config'[r]) = Len(config[r])
  PROVE  Factory!Worth(config', r) >= Factory!Worth(config, r)
<1>1. Factory!FactoryAssumption /\ FactoryTypes
  BY DEF FactoryInv
<1>2. /\ config[r] \in Seq(Factory!Models) /\ r \in Factory!Regimes
      /\ setup.matrix[r] \in [Factory!Models -> Int]
  BY <1>1, FactoryBounds DEF FactoryTypes, Factory!Committees
<1>3. \/ config'[r] = config[r]
      \/ \E p \in Factory!Greedy : \E i \in 1..Len(config[r]) :
           /\ p.type = "swap" /\ p.regime = r /\ config[r][i] = p.remove
           /\ config'[r] = [config[r] EXCEPT ![i] = p.add]
  <2>1. config' = config \/ \E p \in Factory!Greedy : Factory!Execute(p)
    BY DEF Factory!Next, Factory!Stop, Factory!Propose, Factory!Bandit, Factory!Halt, Factory!vars
  <2>2. ASSUME NEW p \in Factory!Greedy, Factory!Execute(p)
        PROVE  \/ config'[r] = config[r]
               \/ \E i \in 1..Len(config[r]) :
                    /\ p.type = "swap" /\ p.regime = r /\ config[r][i] = p.remove
                    /\ config'[r] = [config[r] EXCEPT ![i] = p.add]
    <3>1. config' = config \/ config' = Factory!Applied(p)
      BY <2>2 DEF Factory!Execute
    <3>2. Adds(p)
      BY ProposalsAdd
    <3>3. \/ Factory!Applied(p)[r] = config[r]
          \/ Len(Factory!Applied(p)[r]) # Len(config[r])
          \/ /\ p.regime = r /\ p.type = "swap"
             /\ \E i \in 1..Len(config[r]) :
                  config[r][i] = p.remove /\ Factory!Applied(p)[r] = [config[r] EXCEPT ![i] = p.add]
      BY <1>1, <3>2, AppliedIs
    <3>4. QED
      BY <3>1, <3>3
  <2>3. QED
    BY <2>1, <2>2
<1> DEFINE L == Len(config[r])
           v == [n \in 1..L |-> setup.matrix[r][config[r][n]]]
           w == [n \in 1..L |-> setup.matrix[r][config'[r][n]]]
<1>4. L \in Nat /\ \A n \in 1..L : config[r][n] \in Factory!Models
  <2>1. L \in Nat /\ DOMAIN config[r] = 1..L
    BY <1>2
  <2>2. QED
    BY <1>2, <2>1, ElementOf
<1>5. \A n \in 1..L : config'[r][n] \in Factory!Models
        /\ setup.matrix[r][config[r][n]] <= setup.matrix[r][config'[r][n]]
  <2>1. \A m \in Factory!Models : setup.matrix[r][m] \in Int
    BY <1>2
  <2>2. CASE config'[r] = config[r]
    BY <1>4, <2>1, <2>2
  <2>3. ASSUME NEW p \in Factory!Greedy, NEW i \in 1..Len(config[r]),
               p.type = "swap", p.regime = r, config[r][i] = p.remove,
               config'[r] = [config[r] EXCEPT ![i] = p.add],
               NEW n \in 1..L
        PROVE  config'[r][n] \in Factory!Models
                /\ setup.matrix[r][config[r][n]] <= setup.matrix[r][config'[r][n]]
    <3>1. p.add \in Factory!Models /\ setup.matrix[r][p.remove] <= setup.matrix[r][p.add]
      BY <2>3, SwapGains
    <3>2. config'[r][n] = IF n = i THEN p.add ELSE config[r][n]
      BY <1>2, <2>3
    <3>3. QED
      BY <1>4, <2>1, <2>3, <3>1, <3>2
  <2>4. QED
    BY <1>3, <2>2, <2>3
<1>6. \A n \in 1..L : /\ v[n] = setup.matrix[r][config[r][n]] /\ v[n] \in Int
                      /\ w[n] = setup.matrix[r][config'[r][n]] /\ w[n] \in Int
                      /\ v[n] <= w[n]
  BY <1>2, <1>4, <1>5
<1> HIDE DEF v, w
<1>7. PICK s : Summed(v, L, s) /\ Factory!Worth(config, r) = s[L]
  <2>1. Len(config[r]) \in Nat /\ \A n \in 1..Len(config[r]) : v[n] = setup.matrix[r][config[r][n]]
          /\ v[n] \in Int
    BY <1>4, <1>6
  <2>2. \E s : Summed(v, Len(config[r]), s) /\ Factory!Worth(config, r) = s[Len(config[r])]
    BY <2>1, WorthIs
  <2>3. QED
    BY <2>2
<1>8. PICK t : Summed(w, L, t) /\ Factory!Worth(config', r) = t[L]
  <2>1. Len(config'[r]) \in Nat /\ Len(config'[r]) = L
    BY <1>4
  <2>2. \A n \in 1..Len(config'[r]) : w[n] = setup.matrix[r][config'[r][n]] /\ w[n] \in Int
    BY <1>6, <2>1
  <2>3. \E t : Summed(w, Len(config'[r]), t) /\ Factory!Worth(config', r) = t[Len(config'[r])]
    BY <2>1, <2>2, WorthIs
  <2>4. QED
    BY <2>1, <2>3
<1>9. s[L] <= t[L]
  BY <1>4, <1>6, <1>7, <1>8, SumsCompare
<1>10. s[L] \in Int /\ t[L] \in Int
  BY <1>4, <1>6, <1>7, <1>8, SumTyped
<1>11. QED
  BY <1>7, <1>8, <1>9, <1>10

-----------------------------------------------------------------------------
(* The full cycle.                                                           *)

Places == Cycle!Working \cup {"off", "new", "cancelling", "raised", "finally", "last", "dead", "gone"}
CyclePhases == {"none", "starting", "feature_sweep", "phase1_hpo", "phase2_assembly", "phase3_validation",
           "phase4_factory"} \cup Cycle!Terminal
Products == {"heart", "locked", "survivors", "folds", "matrix", "config", "validated", "final"}
Over == {"finally", "last", "dead", "gone"}

\* The last phase that the thread may have written when it is at a place.
Behind ==
  /\ cycle_pc \in {"off", "new", "load", "sweep"} => status.number = 0
  /\ cycle_pc = "prepare" => status.number <= 1
  /\ cycle_pc \in {"tune", "assemble"} => status.number <= 2
  /\ cycle_pc = "validate" => status.number <= 3
  /\ cycle_pc \in {"verdict", "factory"} => status.number <= 4
  /\ status.number <= 5

CycleTypes ==
  /\ Cycle!CycleAssumption /\ Cycle!TypeOK
  /\ status \in [phase : CyclePhases, number : 0..6]

(* Who is interrupted runs or has run; what was caught is interrupted or has *)
(* come past its handlers, from where no directory is made again.            *)
CatchInv ==
  /\ pending \/ cycle_known \/ caught => cycle_pc \notin {"off", "new"}
  /\ caught => pending \/ cycle_pc \in Over
  /\ cancel = "done" /\ caught => ~dir

(* What a place of the thread has behind it, and what its status may say.    *)
PhaseInv ==
  /\ cycle_pc = "off" => ~dir /\ status = [phase |-> "none", number |-> 0]
  /\ training => cycle_pc = "tune"
  /\ cycle_pc \in {"optimise", "write", "complete"} => "config" \in have
  /\ cycle_pc \in {"write", "complete"} => "final" \in have
  /\ cycle_pc = "complete" => "validated" \in have /\ (dir => cycle_results \in {"completed", "cancelled"})
  /\ status.phase \notin Cycle!Terminal => Behind
  /\ status.phase \in Cycle!Terminal \ {"cancelled"} => cycle_pc \in Over \cup {"reject", "raised"}
  /\ status.phase = "cancelled" => status.number = 0
  /\ status.number = 6 => /\ cycle_pc \in Over \ {"last"} /\ {"validated", "final", "config"} \subseteq have
                          /\ cycle_results \in {"completed", "cancelled"}

CycleInv == CycleTypes /\ CatchInv /\ PhaseInv

-----------------------------------------------------------------------------
\* The types are kept.
LEMMA CycleTypesStep == CycleTypes /\ [Cycle!Next]_Cycle!vars => CycleTypes'
<1> SUFFICES ASSUME CycleTypes, [Cycle!Next]_Cycle!vars PROVE CycleTypes'
  OBVIOUS
<1> USE DEF CycleTypes, Cycle!TypeOK, Cycle!CycleAssumption, CyclePhases, Cycle!Terminal, Cycle!Working
<1>1. CASE Cycle!Start
  BY <1>1 DEF Cycle!Start, Cycle!beat
<1>2. CASE Cycle!Launch
  BY <1>2 DEF Cycle!Launch, Cycle!files, Cycle!beat
<1>3. CASE Cycle!LoadData
  BY <1>3 DEF Cycle!LoadData, Cycle!Runs, Cycle!Still, Cycle!files
<1>4. ASSUME NEW skip \in BOOLEAN, Cycle!Sweep(skip) PROVE CycleTypes'
  BY <1>4
  DEF Cycle!Sweep, Cycle!Runs, Cycle!Still, Cycle!SetStatus, Cycle!GoOn, Cycle!files, Cycle!beat
<1>5. CASE Cycle!Prepare
  BY <1>5 DEF Cycle!Prepare, Cycle!Runs, Cycle!Still, Cycle!SetStatus, Cycle!beat
<1>6. CASE Cycle!Tune
  BY <1>6 DEF Cycle!Tune, Cycle!Runs, Cycle!Still, Cycle!SetStatus, Cycle!beat
<1>7. CASE Cycle!Progress
  BY <1>7 DEF Cycle!Progress, Cycle!Still, Cycle!SetStatus, Cycle!beat
<1>8. ASSUME NEW m \in CycleModels, NEW s \in BOOLEAN, Cycle!Tuned(m, s) PROVE CycleTypes'
  <2>1. /\ cycle_up' \in BOOLEAN /\ training' \in BOOLEAN /\ pending' \in BOOLEAN /\ cycle_known' \in BOOLEAN
        /\ dir' \in BOOLEAN /\ flag' \in BOOLEAN /\ beating' \in BOOLEAN /\ fresh' \in BOOLEAN
        /\ caught' \in BOOLEAN
    BY <1>8, Zenon DEF Cycle!Tuned, Cycle!Still, Cycle!files, Cycle!beat
  <2>2. /\ status' \in [phase : CyclePhases, number : 0..6] /\ cycle_pc' \in Places
        /\ cycle_results' \in {"none"} \cup Cycle!Terminal /\ cancel' \in {"off", "stopped", "marked", "done"}
    BY <1>8 DEF Places, Cycle!Tuned, Cycle!Still, Cycle!files, Cycle!beat
  <2>3. /\ opts' \subseteq {"p3", "p4", "p5", "p6"} /\ have' \subseteq Products
        /\ todo' \subseteq CycleModels \cup 1..MaxRounds
    BY <1>8 DEF Products, Cycle!Tuned, Cycle!Still, Cycle!files, Cycle!beat
  <2>4. QED
    BY <2>1, <2>2, <2>3 DEF Places, Products
<1>9. CASE Cycle!Collect
  BY <1>9 DEF Cycle!Collect, Cycle!Runs, Cycle!Still, Cycle!beat
<1>10. CASE Cycle!Assemble
  BY <1>10 DEF Cycle!Assemble, Cycle!Runs, Cycle!Still, Cycle!SetStatus, Cycle!files, Cycle!beat
<1>11. CASE Cycle!Validate
  BY <1>11
  DEF Cycle!Validate, Cycle!Runs, Cycle!Still, Cycle!SetStatus, Cycle!GoOn, Cycle!files, Cycle!beat
<1>12. ASSUME NEW a \in BOOLEAN, Cycle!Verdict(a) PROVE CycleTypes'
  <2>1. /\ cycle_up' \in BOOLEAN /\ training' \in BOOLEAN /\ pending' \in BOOLEAN /\ cycle_known' \in BOOLEAN
        /\ dir' \in BOOLEAN /\ flag' \in BOOLEAN /\ beating' \in BOOLEAN /\ fresh' \in BOOLEAN
        /\ caught' \in BOOLEAN
    BY <1>12, Zenon DEF Cycle!Verdict, Cycle!Runs, Cycle!Still, Cycle!SetStatus, Cycle!beat
  <2>2. /\ status' \in [phase : CyclePhases, number : 0..6] /\ cycle_pc' \in Places
        /\ cycle_results' \in {"none"} \cup Cycle!Terminal /\ cancel' \in {"off", "stopped", "marked", "done"}
    BY <1>12 DEF Places, Cycle!Verdict, Cycle!Runs, Cycle!Still, Cycle!SetStatus, Cycle!beat
  <2>3. /\ opts' \subseteq {"p3", "p4", "p5", "p6"} /\ have' \subseteq Products
        /\ todo' \subseteq CycleModels \cup 1..MaxRounds
    BY <1>12 DEF Products, Cycle!Verdict, Cycle!Runs, Cycle!Still, Cycle!SetStatus, Cycle!beat
  <2>4. QED
    BY <2>1, <2>2, <2>3 DEF Places, Products
<1>13. CASE Cycle!Reject
  BY <1>13 DEF Cycle!Reject, Cycle!Runs, Cycle!Still, Cycle!SetResults, Cycle!beat
<1>14. CASE Cycle!OpenFactory
  BY <1>14 DEF Cycle!OpenFactory, Cycle!Runs, Cycle!Still, Cycle!SetStatus, Cycle!files, Cycle!beat
<1>15. CASE Cycle!Iterate
  BY <1>15 DEF Cycle!Iterate, Cycle!Runs, Cycle!Still, Cycle!SetStatus, Cycle!GoOn, Cycle!beat
<1>16. CASE Cycle!Final
  BY <1>16 DEF Cycle!Final, Cycle!Runs, Cycle!Still, Cycle!SetStatus, Cycle!GoOn, Cycle!beat
<1>17. CASE Cycle!WriteResults
  BY <1>17 DEF Cycle!WriteResults, Cycle!Runs, Cycle!Still, Cycle!SetResults, Cycle!beat
<1>18. CASE Cycle!Complete
  BY <1>18 DEF Cycle!Complete, Cycle!Runs, Cycle!Still, Cycle!SetStatus, Cycle!beat
<1>19. ASSUME NEW pool \in BOOLEAN, Cycle!Raise(pool) PROVE CycleTypes'
  BY <1>19 DEF Cycle!Raise, Cycle!Still, Cycle!files, Cycle!beat
<1>20. CASE Cycle!Cancelling
  BY <1>20
  DEF Cycle!Cancelling, Cycle!Runs, Cycle!Still, Cycle!SetStatus, Cycle!SetResults, Cycle!beat
<1>21. CASE Cycle!Failed
  BY <1>21 DEF Cycle!Failed, Cycle!Runs, Cycle!Still, Cycle!SetStatus, Cycle!beat
<1>22. CASE Cycle!Interrupted
  <2>1. /\ cycle_up' \in BOOLEAN /\ training' \in BOOLEAN /\ pending' \in BOOLEAN /\ cycle_known' \in BOOLEAN
        /\ dir' \in BOOLEAN /\ flag' \in BOOLEAN /\ beating' \in BOOLEAN /\ fresh' \in BOOLEAN
        /\ caught' \in BOOLEAN
    BY <1>22, Zenon DEF Cycle!Interrupted, Cycle!files, Cycle!beat
  <2>2. /\ status' \in [phase : CyclePhases, number : 0..6] /\ cycle_pc' \in Places
        /\ cycle_results' \in {"none"} \cup Cycle!Terminal /\ cancel' \in {"off", "stopped", "marked", "done"}
    BY <1>22 DEF Places, Cycle!Interrupted, Cycle!files, Cycle!beat
  <2>3. /\ opts' \subseteq {"p3", "p4", "p5", "p6"} /\ have' \subseteq Products
        /\ todo' \subseteq CycleModels \cup 1..MaxRounds
    BY <1>22 DEF Products, Cycle!Interrupted, Cycle!files, Cycle!beat
  <2>4. QED
    BY <2>1, <2>2, <2>3 DEF Places, Products
<1>23. CASE Cycle!Finally
  <2>1. /\ cycle_up' \in BOOLEAN /\ training' \in BOOLEAN /\ pending' \in BOOLEAN /\ cycle_known' \in BOOLEAN
        /\ dir' \in BOOLEAN /\ flag' \in BOOLEAN /\ beating' \in BOOLEAN /\ fresh' \in BOOLEAN
        /\ caught' \in BOOLEAN
    BY <1>23, Zenon DEF Cycle!Finally, Cycle!Runs, Cycle!Still
  <2>2. /\ status' \in [phase : CyclePhases, number : 0..6] /\ cycle_pc' \in Places
        /\ cycle_results' \in {"none"} \cup Cycle!Terminal /\ cancel' \in {"off", "stopped", "marked", "done"}
    BY <1>23 DEF Places, Cycle!Finally, Cycle!Runs, Cycle!Still
  <2>3. /\ opts' \subseteq {"p3", "p4", "p5", "p6"} /\ have' \subseteq Products
        /\ todo' \subseteq CycleModels \cup 1..MaxRounds
    BY <1>23 DEF Products, Cycle!Finally, Cycle!Runs, Cycle!Still
  <2>4. QED
    BY <2>1, <2>2, <2>3 DEF Places, Products
<1>24. CASE Cycle!Last
  BY <1>24 DEF Cycle!Last, Cycle!Runs, Cycle!Still, Cycle!SetStatus, Cycle!beat
<1>25. CASE Cycle!Heartbeat
  BY <1>25 DEF Cycle!Heartbeat, Cycle!files, Cycle!thread
<1>26. CASE Cycle!Age
  <2>1. /\ cycle_up' \in BOOLEAN /\ training' \in BOOLEAN /\ pending' \in BOOLEAN /\ cycle_known' \in BOOLEAN
        /\ dir' \in BOOLEAN /\ flag' \in BOOLEAN /\ beating' \in BOOLEAN /\ fresh' \in BOOLEAN
        /\ caught' \in BOOLEAN
    BY <1>26, Zenon DEF Cycle!Age, Cycle!files, Cycle!thread
  <2>2. /\ status' \in [phase : CyclePhases, number : 0..6] /\ cycle_pc' \in Places
        /\ cycle_results' \in {"none"} \cup Cycle!Terminal /\ cancel' \in {"off", "stopped", "marked", "done"}
    BY <1>26 DEF Places, Cycle!Age, Cycle!files, Cycle!thread
  <2>3. /\ opts' \subseteq {"p3", "p4", "p5", "p6"} /\ have' \subseteq Products
        /\ todo' \subseteq CycleModels \cup 1..MaxRounds
    BY <1>26 DEF Products, Cycle!Age, Cycle!files, Cycle!thread
  <2>4. QED
    BY <2>1, <2>2, <2>3 DEF Places, Products
<1>27. CASE Cycle!ForceStop
  <2>1. /\ cycle_up' \in BOOLEAN /\ training' \in BOOLEAN /\ pending' \in BOOLEAN /\ cycle_known' \in BOOLEAN
        /\ dir' \in BOOLEAN /\ flag' \in BOOLEAN /\ beating' \in BOOLEAN /\ fresh' \in BOOLEAN
        /\ caught' \in BOOLEAN
    BY <1>27, Zenon DEF Cycle!ForceStop, Cycle!files, Cycle!thread, Cycle!beat
  <2>2. /\ status' \in [phase : CyclePhases, number : 0..6] /\ cycle_pc' \in Places
        /\ cycle_results' \in {"none"} \cup Cycle!Terminal /\ cancel' \in {"off", "stopped", "marked", "done"}
    BY <1>27 DEF Places, Cycle!ForceStop, Cycle!files, Cycle!thread, Cycle!beat
  <2>3. /\ opts' \subseteq {"p3", "p4", "p5", "p6"} /\ have' \subseteq Products
        /\ todo' \subseteq CycleModels \cup 1..MaxRounds
    BY <1>27 DEF Products, Cycle!ForceStop, Cycle!files, Cycle!thread, Cycle!beat
  <2>4. QED
    BY <2>1, <2>2, <2>3 DEF Places, Products
<1>28. CASE Cycle!Mark
  BY <1>28 DEF Cycle!Mark, Cycle!SetStatus, Cycle!thread, Cycle!beat
<1>29. CASE Cycle!Remove
  <2>1. /\ cycle_up' \in BOOLEAN /\ training' \in BOOLEAN /\ pending' \in BOOLEAN /\ cycle_known' \in BOOLEAN
        /\ dir' \in BOOLEAN /\ flag' \in BOOLEAN /\ beating' \in BOOLEAN /\ fresh' \in BOOLEAN
        /\ caught' \in BOOLEAN
    BY <1>29, Zenon DEF Cycle!Remove, Cycle!thread, Cycle!beat
  <2>2. /\ status' \in [phase : CyclePhases, number : 0..6] /\ cycle_pc' \in Places
        /\ cycle_results' \in {"none"} \cup Cycle!Terminal /\ cancel' \in {"off", "stopped", "marked", "done"}
    BY <1>29 DEF Places, Cycle!Remove, Cycle!thread, Cycle!beat
  <2>3. /\ opts' \subseteq {"p3", "p4", "p5", "p6"} /\ have' \subseteq Products
        /\ todo' \subseteq CycleModels \cup 1..MaxRounds
    BY <1>29 DEF Products, Cycle!Remove, Cycle!thread, Cycle!beat
  <2>4. QED
    BY <2>1, <2>2, <2>3 DEF Places, Products
<1>30. CASE Cycle!Crash
  BY <1>30 DEF Cycle!Crash, Cycle!files
<1>31. CASE Cycle!Restart
  BY <1>31 DEF Cycle!Restart, Cycle!files, Cycle!thread, Cycle!beat
<1>32. CASE UNCHANGED Cycle!vars
  BY <1>32 DEF Cycle!vars, Cycle!thread, Cycle!files, Cycle!beat
<1>33. QED
  BY <1>1, <1>2, <1>3, <1>4, <1>5, <1>6, <1>7, <1>8, <1>9, <1>10, <1>11, <1>12, <1>13,
     <1>14, <1>15, <1>16, <1>17, <1>18, <1>19, <1>20, <1>21, <1>22, <1>23, <1>24, <1>25,
     <1>26, <1>27, <1>28, <1>29, <1>30, <1>31, <1>32 DEF Cycle!Next, Cycle!Thread, Cycle!Cancel

\* Nobody who was caught comes to a step that makes the directory.
LEMMA CatchStep == CycleTypes /\ CatchInv /\ [Cycle!Next]_Cycle!vars => CatchInv'
<1> SUFFICES ASSUME CycleTypes /\ CatchInv, [Cycle!Next]_Cycle!vars PROVE CatchInv'
  OBVIOUS
<1> USE DEF CatchInv, Over, Cycle!Working
<1>1. CASE Cycle!Start
  BY <1>1 DEF Cycle!Start, Cycle!beat
<1>2. CASE Cycle!Launch
  BY <1>2 DEF Cycle!Launch, Cycle!files, Cycle!beat
<1>3. CASE Cycle!LoadData
  BY <1>3 DEF Cycle!LoadData, Cycle!Runs, Cycle!Still, Cycle!files
<1>4. ASSUME NEW skip \in BOOLEAN, Cycle!Sweep(skip) PROVE CatchInv'
  BY <1>4
  DEF Cycle!Sweep, Cycle!Runs, Cycle!Still, Cycle!SetStatus, Cycle!GoOn, Cycle!files, Cycle!beat
<1>5. CASE Cycle!Prepare
  BY <1>5 DEF Cycle!Prepare, Cycle!Runs, Cycle!Still, Cycle!SetStatus, Cycle!beat
<1>6. CASE Cycle!Tune
  BY <1>6 DEF Cycle!Tune, Cycle!Runs, Cycle!Still, Cycle!SetStatus, Cycle!beat
<1>7. CASE Cycle!Progress
  BY <1>7 DEF Cycle!Progress, Cycle!Still, Cycle!SetStatus, Cycle!beat
<1>8. ASSUME NEW m \in CycleModels, NEW s \in BOOLEAN, Cycle!Tuned(m, s) PROVE CatchInv'
  BY <1>8 DEF Cycle!Tuned, Cycle!Still, Cycle!files, Cycle!beat
<1>9. CASE Cycle!Collect
  BY <1>9 DEF Cycle!Collect, Cycle!Runs, Cycle!Still, Cycle!beat
<1>10. CASE Cycle!Assemble
  BY <1>10 DEF Cycle!Assemble, Cycle!Runs, Cycle!Still, Cycle!SetStatus, Cycle!files, Cycle!beat
<1>11. CASE Cycle!Validate
  BY <1>11
  DEF Cycle!Validate, Cycle!Runs, Cycle!Still, Cycle!SetStatus, Cycle!GoOn, Cycle!files, Cycle!beat
<1>12. ASSUME NEW a \in BOOLEAN, Cycle!Verdict(a) PROVE CatchInv'
  BY <1>12 DEF Cycle!Verdict, Cycle!Runs, Cycle!Still, Cycle!SetStatus, Cycle!beat
<1>13. CASE Cycle!Reject
  BY <1>13 DEF Cycle!Reject, Cycle!Runs, Cycle!Still, Cycle!SetResults, Cycle!beat
<1>14. CASE Cycle!OpenFactory
  BY <1>14 DEF Cycle!OpenFactory, Cycle!Runs, Cycle!Still, Cycle!SetStatus, Cycle!files, Cycle!beat
<1>15. CASE Cycle!Iterate
  BY <1>15 DEF Cycle!Iterate, Cycle!Runs, Cycle!Still, Cycle!SetStatus, Cycle!GoOn, Cycle!beat
<1>16. CASE Cycle!Final
  BY <1>16 DEF Cycle!Final, Cycle!Runs, Cycle!Still, Cycle!SetStatus, Cycle!GoOn, Cycle!beat
<1>17. CASE Cycle!WriteResults
  BY <1>17 DEF Cycle!WriteResults, Cycle!Runs, Cycle!Still, Cycle!SetResults, Cycle!beat
<1>18. CASE Cycle!Complete
  BY <1>18 DEF Cycle!Complete, Cycle!Runs, Cycle!Still, Cycle!SetStatus, Cycle!beat
<1>19. ASSUME NEW pool \in BOOLEAN, Cycle!Raise(pool) PROVE CatchInv'
  BY <1>19 DEF Cycle!Raise, Cycle!Still, Cycle!files, Cycle!beat
<1>20. CASE Cycle!Cancelling
  BY <1>20
  DEF Cycle!Cancelling, Cycle!Runs, Cycle!Still, Cycle!SetStatus, Cycle!SetResults, Cycle!beat
<1>21. CASE Cycle!Failed
  BY <1>21 DEF Cycle!Failed, Cycle!Runs, Cycle!Still, Cycle!SetStatus, Cycle!beat
<1>22. CASE Cycle!Interrupted
  BY <1>22 DEF Cycle!Interrupted, Cycle!files, Cycle!beat
<1>23. CASE Cycle!Finally
  BY <1>23 DEF Cycle!Finally, Cycle!Runs, Cycle!Still
<1>24. CASE Cycle!Last
  BY <1>24 DEF Cycle!Last, Cycle!Runs, Cycle!Still, Cycle!SetStatus, Cycle!beat
<1>25. CASE Cycle!Heartbeat
  BY <1>25 DEF Cycle!Heartbeat, Cycle!files, Cycle!thread
<1>26. CASE Cycle!Age
  BY <1>26 DEF Cycle!Age, Cycle!files, Cycle!thread
<1>27. CASE Cycle!ForceStop
  BY <1>27 DEF Cycle!ForceStop, Cycle!files, Cycle!thread, Cycle!beat
<1>28. CASE Cycle!Mark
  BY <1>28 DEF Cycle!Mark, Cycle!SetStatus, Cycle!thread, Cycle!beat
<1>29. CASE Cycle!Remove
  BY <1>29 DEF Cycle!Remove, Cycle!thread, Cycle!beat
<1>30. CASE Cycle!Crash
  BY <1>30 DEF Cycle!Crash, Cycle!files
<1>31. CASE Cycle!Restart
  BY <1>31 DEF Cycle!Restart, Cycle!files, Cycle!thread, Cycle!beat
<1>32. CASE UNCHANGED Cycle!vars
  BY <1>32 DEF Cycle!vars, Cycle!thread, Cycle!files, Cycle!beat
<1>33. QED
  BY <1>1, <1>2, <1>3, <1>4, <1>5, <1>6, <1>7, <1>8, <1>9, <1>10, <1>11, <1>12, <1>13,
     <1>14, <1>15, <1>16, <1>17, <1>18, <1>19, <1>20, <1>21, <1>22, <1>23, <1>24, <1>25,
     <1>26, <1>27, <1>28, <1>29, <1>30, <1>31, <1>32 DEF Cycle!Next, Cycle!Thread, Cycle!Cancel

\* The status follows the thread.
LEMMA PhaseStep == CycleTypes /\ PhaseInv /\ [Cycle!Next]_Cycle!vars => PhaseInv'
<1> SUFFICES ASSUME CycleTypes /\ PhaseInv, [Cycle!Next]_Cycle!vars PROVE PhaseInv'
  OBVIOUS
<1> USE DEF PhaseInv, Behind, Over, Cycle!Terminal
<1>1. CASE Cycle!Start
  BY <1>1 DEF Cycle!Start, Cycle!beat
<1>2. CASE Cycle!Launch
  BY <1>2 DEF Cycle!Launch, Cycle!files, Cycle!beat
<1>3. CASE Cycle!LoadData
  BY <1>3 DEF Cycle!LoadData, Cycle!Runs, Cycle!Still, Cycle!files
<1>4. ASSUME NEW skip \in BOOLEAN, Cycle!Sweep(skip) PROVE PhaseInv'
  BY <1>4
  DEF Cycle!Sweep, Cycle!Runs, Cycle!Still, Cycle!SetStatus, Cycle!GoOn, Cycle!files, Cycle!beat
<1>5. CASE Cycle!Prepare
  BY <1>5 DEF Cycle!Prepare, Cycle!Runs, Cycle!Still, Cycle!SetStatus, Cycle!beat
<1>6. CASE Cycle!Tune
  BY <1>6 DEF Cycle!Tune, Cycle!Runs, Cycle!Still, Cycle!SetStatus, Cycle!beat
<1>7. CASE Cycle!Progress
  BY <1>7 DEF Cycle!Progress, Cycle!Still, Cycle!SetStatus, Cycle!beat
<1>8. ASSUME NEW m \in CycleModels, NEW s \in BOOLEAN, Cycle!Tuned(m, s) PROVE PhaseInv'
  BY <1>8 DEF Cycle!Tuned, Cycle!Still, Cycle!files, Cycle!beat
<1>9. CASE Cycle!Collect
  BY <1>9 DEF Cycle!Collect, Cycle!Runs, Cycle!Still, Cycle!beat
<1>10. CASE Cycle!Assemble
  <2>1. CASE "p4" \in opts
    BY <1>10, <2>1 DEF CycleTypes, Cycle!Assemble, Cycle!Runs, Cycle!Still, Cycle!SetStatus,
       Cycle!files, Cycle!beat
  <2>2. CASE "p4" \notin opts
    BY <1>10, <2>2 DEF CycleTypes, Cycle!Assemble, Cycle!Runs, Cycle!Still, Cycle!SetStatus,
       Cycle!files, Cycle!beat
  <2>3. QED
    BY <2>1, <2>2
<1>11. CASE Cycle!Validate
  <2>1. CASE "p5" \in opts
    BY <1>11, <2>1 DEF CycleTypes, Cycle!Validate, Cycle!Runs, Cycle!Still, Cycle!SetStatus,
       Cycle!GoOn, Cycle!files, Cycle!beat
  <2>2. CASE "p5" \notin opts
    BY <1>11, <2>2 DEF CycleTypes, Cycle!Validate, Cycle!Runs, Cycle!Still, Cycle!SetStatus,
       Cycle!GoOn, Cycle!files, Cycle!beat
  <2>3. QED
    BY <2>1, <2>2
<1>12. ASSUME NEW a \in BOOLEAN, Cycle!Verdict(a) PROVE PhaseInv'
  BY <1>12 DEF Cycle!Verdict, Cycle!Runs, Cycle!Still, Cycle!SetStatus, Cycle!beat
<1>13. CASE Cycle!Reject
  BY <1>13 DEF Cycle!Reject, Cycle!Runs, Cycle!Still, Cycle!SetResults, Cycle!beat
<1>14. CASE Cycle!OpenFactory
  BY <1>14 DEF Cycle!OpenFactory, Cycle!Runs, Cycle!Still, Cycle!SetStatus, Cycle!files, Cycle!beat
<1>15. CASE Cycle!Iterate
  BY <1>15 DEF Cycle!Iterate, Cycle!Runs, Cycle!Still, Cycle!SetStatus, Cycle!GoOn, Cycle!beat
<1>16. CASE Cycle!Final
  BY <1>16 DEF Cycle!Final, Cycle!Runs, Cycle!Still, Cycle!SetStatus, Cycle!GoOn, Cycle!beat
<1>17. CASE Cycle!WriteResults
  BY <1>17 DEF Cycle!WriteResults, Cycle!Runs, Cycle!Still, Cycle!SetResults, Cycle!beat
<1>18. CASE Cycle!Complete
  BY <1>18 DEF Cycle!Complete, Cycle!Runs, Cycle!Still, Cycle!SetStatus, Cycle!beat
<1>19. ASSUME NEW pool \in BOOLEAN, Cycle!Raise(pool) PROVE PhaseInv'
  BY <1>19 DEF Cycle!Raise, Cycle!Working, Cycle!Still, Cycle!files
<1>20. CASE Cycle!Cancelling
  BY <1>20
  DEF Cycle!Cancelling, Cycle!Runs, Cycle!Still, Cycle!SetStatus, Cycle!SetResults, Cycle!beat
<1>21. CASE Cycle!Failed
  BY <1>21 DEF Cycle!Failed, Cycle!Runs, Cycle!Still, Cycle!SetStatus, Cycle!beat
<1>22. CASE Cycle!Interrupted
  BY <1>22 DEF Cycle!Interrupted, Cycle!files, Cycle!beat
<1>23. CASE Cycle!Finally
  BY <1>23 DEF Cycle!Finally, Cycle!Runs, Cycle!Still
<1>24. CASE Cycle!Last
  BY <1>24 DEF Cycle!Last, Cycle!Runs, Cycle!Still, Cycle!SetStatus, Cycle!beat
<1>25. CASE Cycle!Heartbeat
  BY <1>25 DEF Cycle!Heartbeat, Cycle!files, Cycle!thread
<1>26. CASE Cycle!Age
  BY <1>26 DEF Cycle!Age, Cycle!files, Cycle!thread
<1>27. CASE Cycle!ForceStop
  BY <1>27 DEF Cycle!ForceStop, Cycle!files, Cycle!thread, Cycle!beat
<1>28. CASE Cycle!Mark
  BY <1>28 DEF Cycle!Mark, Cycle!SetStatus, Cycle!thread, Cycle!beat
<1>29. CASE Cycle!Remove
  BY <1>29 DEF Cycle!Remove, Cycle!thread, Cycle!beat
<1>30. CASE Cycle!Crash
  BY <1>30 DEF Cycle!Crash, Cycle!files
<1>31. CASE Cycle!Restart
  BY <1>31 DEF Cycle!Restart, Cycle!files, Cycle!thread, Cycle!beat
<1>32. CASE UNCHANGED Cycle!vars
  BY <1>32 DEF Cycle!vars, Cycle!thread, Cycle!files, Cycle!beat
<1>33. QED
  BY <1>1, <1>2, <1>3, <1>4, <1>5, <1>6, <1>7, <1>8, <1>9, <1>10, <1>11, <1>12, <1>13,
     <1>14, <1>15, <1>16, <1>17, <1>18, <1>19, <1>20, <1>21, <1>22, <1>23, <1>24, <1>25,
     <1>26, <1>27, <1>28, <1>29, <1>30, <1>31, <1>32 DEF Cycle!Next, Cycle!Thread, Cycle!Cancel

\* The invariant holds before the thread is started.
LEMMA CycleInitInv == Cycle!CycleAssumption /\ Cycle!Init => CycleInv
<1> SUFFICES ASSUME Cycle!CycleAssumption, Cycle!Init PROVE CycleInv
  OBVIOUS
<1>1. status = [phase |-> "none", number |-> 0] /\ status \in [phase : CyclePhases, number : 0..6]
  BY DEF Cycle!Init, CyclePhases
<1>2. status.phase = "none" /\ status.number = 0 /\ status.phase \notin Cycle!Terminal
  BY <1>1 DEF Cycle!Terminal
<1>3. Cycle!TypeOK
  BY <1>1 DEF Cycle!Init, Cycle!TypeOK, Cycle!CycleAssumption, Cycle!Terminal, Cycle!Working
<1>4. CatchInv
  BY DEF Cycle!Init, CatchInv, Over
<1>5. PhaseInv
  BY <1>1, <1>2 DEF Cycle!Init, PhaseInv, Behind, Over
<1>6. QED
  BY <1>1, <1>3, <1>4, <1>5 DEF CycleInv, CycleTypes

\* A step advances the phase, or ends it, and leaves what was cancelled.
CycleKeeps ==
  /\ status'.number >= status.number \/ status'.phase \in Cycle!Terminal \/ ~dir'
  /\ status.phase = "cancelled" /\ dir' => status'.phase = "cancelled"

\* Each step of the cycle advances its phase or ends it, and spares what was cancelled.
LEMMA CyclePromises == CycleTypes /\ PhaseInv /\ [Cycle!Next]_Cycle!vars => CycleKeeps
<1> SUFFICES ASSUME CycleTypes /\ PhaseInv, [Cycle!Next]_Cycle!vars PROVE CycleKeeps
  OBVIOUS
<1> USE DEF CycleKeeps, PhaseInv, Behind, Over, Cycle!Terminal, CycleTypes, Cycle!TypeOK, CyclePhases
<1>1. CASE Cycle!Start
  BY <1>1 DEF Cycle!Start, Cycle!beat
<1>2. CASE Cycle!Launch
  BY <1>2 DEF Cycle!Launch, Cycle!files, Cycle!beat
<1>3. CASE Cycle!LoadData
  BY <1>3 DEF Cycle!LoadData, Cycle!Runs, Cycle!Still, Cycle!files
<1>4. ASSUME NEW skip \in BOOLEAN, Cycle!Sweep(skip) PROVE CycleKeeps
  BY <1>4
  DEF Cycle!Sweep, Cycle!Runs, Cycle!Still, Cycle!SetStatus, Cycle!GoOn, Cycle!files, Cycle!beat
<1>5. CASE Cycle!Prepare
  BY <1>5 DEF Cycle!Prepare, Cycle!Runs, Cycle!Still, Cycle!SetStatus, Cycle!beat
<1>6. CASE Cycle!Tune
  BY <1>6 DEF Cycle!Tune, Cycle!Runs, Cycle!Still, Cycle!SetStatus, Cycle!beat
<1>7. CASE Cycle!Progress
  BY <1>7 DEF Cycle!Progress, Cycle!Still, Cycle!SetStatus, Cycle!beat
<1>8. ASSUME NEW m \in CycleModels, NEW s \in BOOLEAN, Cycle!Tuned(m, s) PROVE CycleKeeps
  BY <1>8 DEF Cycle!Tuned, Cycle!Still, Cycle!files, Cycle!beat
<1>9. CASE Cycle!Collect
  BY <1>9 DEF Cycle!Collect, Cycle!Runs, Cycle!Still, Cycle!beat
<1>10. CASE Cycle!Assemble
  BY <1>10 DEF Cycle!Assemble, Cycle!Runs, Cycle!Still, Cycle!SetStatus, Cycle!files, Cycle!beat
<1>11. CASE Cycle!Validate
  BY <1>11
  DEF Cycle!Validate, Cycle!Runs, Cycle!Still, Cycle!SetStatus, Cycle!GoOn, Cycle!files, Cycle!beat
<1>12. ASSUME NEW a \in BOOLEAN, Cycle!Verdict(a) PROVE CycleKeeps
  BY <1>12 DEF Cycle!Verdict, Cycle!Runs, Cycle!Still, Cycle!SetStatus, Cycle!beat
<1>13. CASE Cycle!Reject
  BY <1>13 DEF Cycle!Reject, Cycle!Runs, Cycle!Still, Cycle!SetResults, Cycle!beat
<1>14. CASE Cycle!OpenFactory
  BY <1>14 DEF Cycle!OpenFactory, Cycle!Runs, Cycle!Still, Cycle!SetStatus, Cycle!files, Cycle!beat
<1>15. CASE Cycle!Iterate
  BY <1>15 DEF Cycle!Iterate, Cycle!Runs, Cycle!Still, Cycle!SetStatus, Cycle!GoOn, Cycle!beat
<1>16. CASE Cycle!Final
  BY <1>16 DEF Cycle!Final, Cycle!Runs, Cycle!Still, Cycle!SetStatus, Cycle!GoOn, Cycle!beat
<1>17. CASE Cycle!WriteResults
  BY <1>17 DEF Cycle!WriteResults, Cycle!Runs, Cycle!Still, Cycle!SetResults, Cycle!beat
<1>18. CASE Cycle!Complete
  BY <1>18 DEF Cycle!Complete, Cycle!Runs, Cycle!Still, Cycle!SetStatus, Cycle!beat
<1>19. ASSUME NEW pool \in BOOLEAN, Cycle!Raise(pool) PROVE CycleKeeps
  BY <1>19 DEF Cycle!Raise, Cycle!Still, Cycle!files, Cycle!beat
<1>20. CASE Cycle!Cancelling
  BY <1>20
  DEF Cycle!Cancelling, Cycle!Runs, Cycle!Still, Cycle!SetStatus, Cycle!SetResults, Cycle!beat
<1>21. CASE Cycle!Failed
  BY <1>21 DEF Cycle!Failed, Cycle!Runs, Cycle!Still, Cycle!SetStatus, Cycle!beat
<1>22. CASE Cycle!Interrupted
  BY <1>22 DEF Cycle!Interrupted, Cycle!files, Cycle!beat
<1>23. CASE Cycle!Finally
  BY <1>23 DEF Cycle!Finally, Cycle!Runs, Cycle!Still
<1>24. CASE Cycle!Last
  BY <1>24 DEF Cycle!Last, Cycle!Runs, Cycle!Still, Cycle!SetStatus, Cycle!beat
<1>25. CASE Cycle!Heartbeat
  BY <1>25 DEF Cycle!Heartbeat, Cycle!files, Cycle!thread
<1>26. CASE Cycle!Age
  BY <1>26 DEF Cycle!Age, Cycle!files, Cycle!thread
<1>27. CASE Cycle!ForceStop
  BY <1>27 DEF Cycle!ForceStop, Cycle!files, Cycle!thread, Cycle!beat
<1>28. CASE Cycle!Mark
  BY <1>28 DEF Cycle!Mark, Cycle!SetStatus, Cycle!thread, Cycle!beat
<1>29. CASE Cycle!Remove
  BY <1>29 DEF Cycle!Remove, Cycle!thread, Cycle!beat
<1>30. CASE Cycle!Crash
  BY <1>30 DEF Cycle!Crash, Cycle!files
<1>31. CASE Cycle!Restart
  BY <1>31 DEF Cycle!Restart, Cycle!files, Cycle!thread, Cycle!beat
<1>32. CASE UNCHANGED Cycle!vars
  BY <1>32 DEF Cycle!vars, Cycle!thread, Cycle!files, Cycle!beat
<1>33. QED
  BY <1>1, <1>2, <1>3, <1>4, <1>5, <1>6, <1>7, <1>8, <1>9, <1>10, <1>11, <1>12, <1>13,
     <1>14, <1>15, <1>16, <1>17, <1>18, <1>19, <1>20, <1>21, <1>22, <1>23, <1>24, <1>25,
     <1>26, <1>27, <1>28, <1>29, <1>30, <1>31, <1>32 DEF Cycle!Next, Cycle!Thread, Cycle!Cancel

\* The cycle keeps its invariant.
LEMMA CycleStep == CycleInv /\ [Cycle!Next]_Cycle!vars => CycleInv'
  BY CycleTypesStep, CatchStep, PhaseStep DEF CycleInv

-----------------------------------------------------------------------------
(* The licence.                                                              *)

LicenceRow == [key : Keys, verified : 0..LastHalfDay]

(* What a request has read is rows of the table, and a verification has read *)
(* one; the status says a licence exactly when a row is there.               *)
LicenceInv ==
  /\ Licence!LicensingAssumption
  /\ licence_now \in 0..LastHalfDay /\ rows \in Seq(LicenceRow) /\ Len(rows) <= MaxRows
  /\ \A i \in DOMAIN rows : rows[i].verified <= licence_now
  /\ licence_trial \in [ends : -1..LastHalfDay + TrialTime, active : BOOLEAN]
  /\ cached \in {"none", "free", "trial", "pro"} /\ valid \subseteq Keys
  /\ call.kind \in {"none", "activate", "verify", "deactivate"}
  /\ call.kind = "verify" => call.read \in Seq(LicenceRow) /\ call.read # <<>>
  /\ call.kind = "activate" => call.key \in Keys
  /\ Licence!ProHasRow

\* The plan of rows says a licence exactly when there is a row, and ending a
\* trial keeps its type.
LEMMA ComputedIsSound ==
  ASSUME NEW rs, NEW tr \in [ends : -1..LastHalfDay + TrialTime, active : BOOLEAN], Licence!Computed(rs, tr)
  PROVE  /\ cached' \in {"free", "trial", "pro"} /\ (cached' = "pro" <=> rs # <<>>)
         /\ licence_trial' \in [ends : -1..LastHalfDay + TrialTime, active : BOOLEAN]
<1>1. cached' = Licence!PlanOf(rs, tr) /\ licence_trial' = Licence!TrialAfter(rs, tr)
  BY DEF Licence!Computed
<1>2. [tr EXCEPT !.active = FALSE] \in [ends : -1..LastHalfDay + TrialTime, active : BOOLEAN]
  OBVIOUS
<1>3. licence_trial' \in [ends : -1..LastHalfDay + TrialTime, active : BOOLEAN]
  BY <1>1, <1>2 DEF Licence!TrialAfter
<1>4. cached' \in {"free", "trial", "pro"} /\ (cached' = "pro" <=> rs # <<>>)
  BY <1>1 DEF Licence!PlanOf
<1>5. QED
  BY <1>3, <1>4

\* The licence starts in its invariant.
LEMMA LicenceInitInv == Licence!LicensingAssumption /\ Licence!Init => LicenceInv
<1> SUFFICES ASSUME Licence!LicensingAssumption, Licence!Init PROVE LicenceInv
  OBVIOUS
<1>1. /\ TrialTime \in Nat /\ Grace \in Nat /\ LastHalfDay \in Nat /\ MaxRows \in Nat
  BY DEF Licence!LicensingAssumption
<1>2. /\ rows \in Seq(LicenceRow) /\ Len(rows) = 0 /\ DOMAIN rows = {}
  BY DEF Licence!Init
<1>3. licence_trial \in [ends : -1..LastHalfDay + TrialTime, active : BOOLEAN]
  BY <1>1 DEF Licence!Init, Licence!NoTrial
<1>4. QED
  BY <1>1, <1>2, <1>3 DEF Licence!Init, Licence!NoCall, LicenceInv, Licence!ProHasRow

\* Whatever the page asks and the server answers, the licence keeps its invariant.
LEMMA LicenceStep == LicenceInv /\ [Licence!Next]_Licence!vars => LicenceInv'
<1> SUFFICES ASSUME LicenceInv, [Licence!Next]_Licence!vars PROVE LicenceInv'
  OBVIOUS
<1>1. /\ TrialTime \in Nat /\ Grace \in Nat /\ LastHalfDay \in Nat /\ MaxRows \in Nat
      /\ Licence!LicensingAssumption
  BY DEF LicenceInv, Licence!LicensingAssumption
<1>2. /\ licence_now \in 0..LastHalfDay /\ rows \in Seq(LicenceRow) /\ Len(rows) <= MaxRows
      /\ \A i \in DOMAIN rows : rows[i].verified <= licence_now
      /\ licence_trial \in [ends : -1..LastHalfDay + TrialTime, active : BOOLEAN]
      /\ cached \in {"none", "free", "trial", "pro"} /\ valid \subseteq Keys
      /\ call.kind \in {"none", "activate", "verify", "deactivate"}
      /\ call.kind = "verify" => call.read \in Seq(LicenceRow) /\ call.read # <<>>
      /\ call.kind = "activate" => call.key \in Keys
      /\ cached = "pro" <=> rows # <<>> /\ cached # "none"
  BY DEF LicenceInv, Licence!ProHasRow
<1>r. rows # <<>> => 1 \in DOMAIN rows /\ rows[1] \in LicenceRow
  BY <1>2
<1> USE DEF LicenceInv, Licence!ProHasRow
<1>3. CASE Licence!Tick
  <2>1. licence_now' \in 0..LastHalfDay /\ licence_now <= licence_now'
    BY <1>1, <1>2, <1>3 DEF Licence!Tick
  <2>2. \A i \in DOMAIN rows' : rows'[i].verified <= licence_now'
    <3> SUFFICES ASSUME NEW i \in DOMAIN rows PROVE rows[i].verified <= licence_now'
      BY <1>3 DEF Licence!Tick
    <3>1. rows[i] \in LicenceRow
      BY <1>2
    <3>2. rows[i].verified \in Nat /\ rows[i].verified <= licence_now
      BY <3>1, <1>2, <1>1 DEF LicenceRow
    <3>3. QED
      BY <3>2, <2>1, <1>1, <1>2
  <2>3. QED
    BY <1>1, <1>2, <1>3, <2>1, <2>2 DEF Licence!Tick
<1>4. CASE Licence!Restart
  BY <1>1, <1>2, <1>4 DEF Licence!Restart, Licence!NoCall
<1>5. CASE Licence!GetStatus
  <2>1. CASE cached = "none"
    <3>1. Licence!Computed(rows, licence_trial)
      BY <1>5, <2>1 DEF Licence!GetStatus
    <3>2. QED
      BY <1>1, <1>2, <1>5, <3>1, ComputedIsSound DEF Licence!GetStatus
  <2>2. CASE cached # "none"
    BY <1>1, <1>2, <1>5, <2>2 DEF Licence!GetStatus
  <2>3. QED
    BY <2>1, <2>2
<1>6. CASE Licence!StartTrial
  <2> DEFINE started == [ends |-> licence_now + TrialTime, active |-> TRUE]
  <2>1. started \in [ends : -1..LastHalfDay + TrialTime, active : BOOLEAN]
    BY <1>1, <1>2
  <2>2. \/ UNCHANGED <<licence_trial, cached>>
        \/ Licence!Computed(rows, started)
    BY <1>6 DEF Licence!StartTrial
  <2> HIDE DEF started
  <2>3. QED
    BY <1>1, <1>2, <1>6, <2>1, <2>2, ComputedIsSound DEF Licence!StartTrial
<1>7. CASE Licence!AskVerify
  <2>1. call'.kind = "verify" /\ call'.read = rows /\ rows # <<>>
    BY <1>7 DEF Licence!AskVerify, Licence!Ask
  <2>2. QED
    BY <1>1, <1>2, <1>7, <2>1 DEF Licence!AskVerify, Licence!Ask
<1>8. CASE Licence!AskDeactivate
  <2>1. call'.kind = "deactivate"
    BY <1>8 DEF Licence!AskDeactivate, Licence!Ask
  <2>2. QED
    BY <1>1, <1>2, <1>8, <2>1 DEF Licence!AskDeactivate, Licence!Ask
<1>9. CASE \E k \in Keys : Licence!Revoke(k) \/ Licence!AskActivate(k)
  <2> PICK k \in Keys : Licence!Revoke(k) \/ Licence!AskActivate(k)
    BY <1>9
  <2>1. CASE Licence!Revoke(k)
    BY <1>1, <1>2, <2>1 DEF Licence!Revoke
  <2>2. CASE Licence!AskActivate(k)
    <3>1. call'.kind = "activate" /\ call'.key = k
      BY <2>2 DEF Licence!AskActivate, Licence!Ask
    <3>2. QED
      BY <1>1, <1>2, <2>2, <3>1 DEF Licence!AskActivate, Licence!Ask
  <2>3. QED
    BY <2>1, <2>2
<1>10. CASE Licence!Activated
  <2> DEFINE new == [key |-> call.key, verified |-> licence_now]
  <2>1. new \in LicenceRow
    BY <1>2, <1>10 DEF Licence!Activated, LicenceRow
  <2>2. rows' = Append(rows, new) /\ Licence!Computed(rows', licence_trial)
    BY <1>10 DEF Licence!Activated
  <2>3. new.verified = licence_now
    OBVIOUS
  <2> HIDE DEF new
  <2>4. /\ rows' \in Seq(LicenceRow) /\ Len(rows') = Len(rows) + 1 /\ rows' # <<>>
        /\ rows'[Len(rows) + 1] = new /\ \A i \in DOMAIN rows : rows'[i] = rows[i]
        /\ DOMAIN rows' = DOMAIN rows \cup {Len(rows) + 1}
    BY <2>1, <2>2, <1>2
  <2>5. \A i \in DOMAIN rows' : rows'[i].verified <= licence_now
    BY <2>3, <2>4, <1>2, <1>1
  <2>6. Len(rows') <= MaxRows
    BY <1>1, <1>2, <1>10, <2>4 DEF Licence!Activated
  <2>7. call'.kind = "none" /\ UNCHANGED <<licence_now, valid, restarts>>
    BY <1>10 DEF Licence!Activated, Licence!NoCall
  <2>8. /\ cached' \in {"free", "trial", "pro"} /\ (cached' = "pro" <=> rows' # <<>>)
        /\ licence_trial' \in [ends : -1..LastHalfDay + TrialTime, active : BOOLEAN]
    BY <1>2, <2>2, ComputedIsSound
  <2>9. QED
    BY <1>1, <1>2, <2>4, <2>5, <2>6, <2>7, <2>8
<1>11. CASE Licence!Verified
  BY <1>1, <1>2, <1>11 DEF Licence!Verified, Licence!NoCall
<1>12. CASE Licence!NotVerified
  <2>1. \/ UNCHANGED <<licence_trial, cached>>
        \/ Licence!Computed(rows, licence_trial)
    BY <1>12 DEF Licence!NotVerified
  <2>2. call'.kind = "none" /\ UNCHANGED <<licence_now, rows, valid, restarts>>
    BY <1>12 DEF Licence!NotVerified, Licence!NoCall
  <2>3. QED
    BY <1>1, <1>2, <2>1, <2>2, ComputedIsSound
<1>13. CASE Licence!Deactivated
  <2>1. rows' = <<>> /\ Licence!Computed(<<>>, licence_trial) /\ call'.kind = "none"
          /\ UNCHANGED <<licence_now, valid>>
    BY <1>13 DEF Licence!Deactivated, Licence!NoCall
  <2>2. rows' \in Seq(LicenceRow) /\ Len(rows') = 0 /\ DOMAIN rows' = {}
    BY <2>1
  <2>3. QED
    BY <1>1, <1>2, <2>1, <2>2, ComputedIsSound
<1>14. CASE Licence!Refused
  BY <1>1, <1>2, <1>14 DEF Licence!Refused, Licence!NoCall
<1>15. CASE UNCHANGED Licence!vars
  BY <1>1, <1>2, <1>15 DEF Licence!vars
<1>16. QED
  BY <1>3, <1>4, <1>5, <1>6, <1>7, <1>8, <1>9, <1>10, <1>11, <1>12, <1>13, <1>14, <1>15
  DEF Licence!Next

\* The promises about a step: rows are added for keys the server takes, given up
\* by a deactivation, and a verification is refused past the grace period only.
LEMMA LicencePromises ==
  LicenceInv /\ [Licence!Next]_Licence!vars =>
    /\ (\A i \in DOMAIN rows' : i > Len(rows) => rows'[i].key \in valid)
    /\ (last'.result = "deactivated" /\ last' # last => rows' = <<>> /\ cached' # "pro")
    /\ (last'.kind = "verify" /\ last'.result = "failed" /\ last' # last =>
          licence_now - call.read[1].verified >= Grace)
<1> SUFFICES ASSUME LicenceInv, [Licence!Next]_Licence!vars
    PROVE  /\ (\A i \in DOMAIN rows' : i > Len(rows) => rows'[i].key \in valid)
           /\ (last'.result = "deactivated" /\ last' # last => rows' = <<>> /\ cached' # "pro")
           /\ (last'.kind = "verify" /\ last'.result = "failed" /\ last' # last =>
                 licence_now - call.read[1].verified >= Grace)
  OBVIOUS
<1>1. /\ rows \in Seq(LicenceRow) /\ licence_now \in 0..LastHalfDay /\ LastHalfDay \in Nat /\ Grace \in Nat
      /\ licence_trial \in [ends : -1..LastHalfDay + TrialTime, active : BOOLEAN]
      /\ call.kind = "verify" => call.read \in Seq(LicenceRow) /\ call.read # <<>>
  BY DEF LicenceInv, Licence!LicensingAssumption
<1>2. \A i \in DOMAIN rows : ~(i > Len(rows))
  BY <1>1
<1>3. CASE last' = last /\ rows' = rows
  BY <1>2, <1>3
<1>4. CASE Licence!GetStatus
  <2>1. /\ rows' = rows /\ last'.kind = "status" /\ cached \in {"none", "free", "trial", "pro"}
        /\ last'.result \in {Licence!PlanOf(rows, licence_trial), cached}
    BY <1>4 DEF Licence!GetStatus, Licence!Said, LicenceInv
  <2>2. last'.result # "deactivated"
    BY <2>1 DEF Licence!PlanOf
  <2>3. QED
    BY <1>2, <2>1, <2>2
<1>5. CASE Licence!StartTrial
  BY <1>2, <1>5 DEF Licence!StartTrial, Licence!Said
<1>6. CASE Licence!Activated
  <2>1. /\ rows' = Append(rows, [key |-> call.key, verified |-> licence_now]) /\ call.key \in valid
        /\ last'.result = "activated"
    BY <1>6 DEF Licence!Activated, Licence!Said
  <2>2. \A i \in DOMAIN rows' : i > Len(rows) => rows'[i].key = call.key
    BY <2>1, <1>1
  <2>3. QED
    BY <2>1, <2>2
<1>7. CASE Licence!Verified
  BY <1>2, <1>7 DEF Licence!Verified, Licence!Said
<1>8. CASE Licence!NotVerified
  <2>1. rows' = rows /\ last'.result \in {"grace", "failed"}
    BY <1>8 DEF Licence!NotVerified, Licence!Said
  <2>2. call.read[1] \in LicenceRow
    BY <1>1, <1>8 DEF Licence!NotVerified
  <2>3. call.read[1].verified \in 0..LastHalfDay
    BY <2>2 DEF LicenceRow
  <2>4. Licence!InGrace(call.read[1].verified) => last'.result = "grace"
    BY <1>8 DEF Licence!NotVerified, Licence!Said
  <2>5. QED
    BY <1>1, <1>2, <2>1, <2>3, <2>4 DEF Licence!InGrace
<1>9. CASE Licence!Deactivated
  <2>1. rows' = <<>> /\ Licence!Computed(<<>>, licence_trial) /\ last'.kind = "deactivate"
    BY <1>9 DEF Licence!Deactivated, Licence!Said
  <2>2. cached' # "pro"
    BY <2>1, <1>1, ComputedIsSound
  <2>3. QED
    BY <2>1, <2>2
<1>10. CASE Licence!Refused
  BY <1>2, <1>10 DEF Licence!Refused, Licence!Said
<1>11. \/ last' = last /\ rows' = rows
       \/ Licence!GetStatus \/ Licence!StartTrial \/ Licence!Activated \/ Licence!Verified
       \/ Licence!NotVerified \/ Licence!Deactivated \/ Licence!Refused
  BY DEF Licence!Next, Licence!Tick, Licence!Revoke, Licence!AskActivate, Licence!AskVerify,
     Licence!AskDeactivate, Licence!Restart, Licence!vars
<1>12. QED
  BY <1>3, <1>4, <1>5, <1>6, <1>7, <1>8, <1>9, <1>10, <1>11

\* The invariant of the licence has the types.
LEMMA LicenceInvTypes == LicenceInv => Licence!TypeOK
<1> SUFFICES ASSUME LicenceInv PROVE Licence!TypeOK
  OBVIOUS
<1>1. \A i \in DOMAIN rows : rows[i].key \in Keys /\ rows[i].verified \in 0..licence_now
  <2> SUFFICES ASSUME NEW i \in DOMAIN rows PROVE rows[i].key \in Keys /\ rows[i].verified \in 0..licence_now
    OBVIOUS
  <2>1. rows[i] \in LicenceRow
    BY DEF LicenceInv
  <2>2. QED
    BY <2>1 DEF LicenceInv, Licence!LicensingAssumption, LicenceRow
<1>2. QED
  BY <1>1 DEF LicenceInv, Licence!TypeOK

-----------------------------------------------------------------------------
(* All of them together.                                                     *)

\* A model is judged by its own trades on bars in order and never replaced by an
\* older one, rotations keep their cap and cool-down, and the factory's committee
\* is the best that was tested, each change of it an improvement.
THEOREM CommitteesAlwaysImprove == ASSUME DeskAssumption PROVE Suite => CommitteesImprove
<1> DEFINE CommitteeInv == RunnerInv /\ RotationInv /\ FactoryInv
<1>1. SuiteInit => CommitteeInv
  BY RunnerInitInv, RotationInitInv, FactoryInitInv DEF SuiteInit, DeskAssumption
<1>2. CommitteeInv /\ [SuiteNext]_suiteVars => CommitteeInv'
  BY EachMovesAlone, RunnerStep, RotationStep, FactoryStep
<1>3. CommitteeInv => /\ Runner!JudgedByItsOwn /\ Runner!BufferInOrder /\ Rotation!RotationsCapped
                      /\ Factory!BestIsBest /\ Factory!BestIsCurrent
  BY RunnerInvHolds, RotationInvHolds, FactoryInvHolds
<1>4. CommitteeInv /\ [SuiteNext]_suiteVars =>
        [\A n \in RunnerModels : runner_models'[n].at >= runner_models[n].at]_Runner!vars
  BY EachMovesAlone, RunnerStep DEF RunnerKeeps
<1>5. CommitteeInv /\ [SuiteNext]_suiteVars =>
        [\A m \in Rotation!Names : cool'[m] # cool[m] => cool[m] <= rotation_now]_Rotation!vars
  BY EachMovesAlone, RotationStep DEF CoolDownKept, RotNames
<1>6. CommitteeInv /\ [SuiteNext]_suiteVars =>
        [best # None => best' >= best /\ (config' # config => best' > best)]_Factory!vars
  BY EachMovesAlone, FactoryStep DEF FactoryRises
<1>7. CommitteeInv /\ [SuiteNext]_suiteVars =>
        [setup.proposer = "greedy" => \A r \in DOMAIN config :
           Len(config'[r]) = Len(config[r]) => Factory!Worth(config', r) >= Factory!Worth(config, r)]_Factory!vars
  BY EachMovesAlone, ClimbStep
<1>8. QED
  BY <1>1, <1>2, <1>3, <1>4, <1>5, <1>6, <1>7, PTL
  DEF Suite, CommitteesImprove, Runner!NewestStays, Rotation!CoolDownHeld, Factory!BestNeverFalls,
      Factory!GreedyClimbs

\* A cycle's phase only advances until its directory is gone, a cancelled one is
\* not overwritten, one whose thread was caught stays gone; and a licence has a
\* row, is stored for a key the server takes, given up by a deactivation and not
\* refused within the grace period.
THEOREM RecordsAlwaysHold == ASSUME DeskAssumption PROVE Suite => RecordsHold
<1> DEFINE RecordInv == CycleInv /\ LicenceInv
<1>1. SuiteInit => RecordInv
  BY CycleInitInv, LicenceInitInv DEF SuiteInit, DeskAssumption
<1>2. RecordInv /\ [SuiteNext]_suiteVars => RecordInv'
  BY EachMovesAlone, CycleStep, LicenceStep
<1>3. RecordInv => Cycle!CaughtStaysGone /\ Cycle!SixIsWhole /\ Licence!ProHasRow
  BY DEF CycleInv, CatchInv, PhaseInv, LicenceInv, Cycle!CaughtStaysGone, Cycle!SixIsWhole
<1>4. RecordInv /\ [SuiteNext]_suiteVars =>
        [status'.number >= status.number \/ status'.phase \in Cycle!Terminal \/ ~dir']_Cycle!vars
  BY EachMovesAlone, CyclePromises DEF CycleInv, CycleKeeps
<1>5. RecordInv /\ [SuiteNext]_suiteVars =>
        [status.phase = "cancelled" /\ dir' => status'.phase = "cancelled"]_Cycle!vars
  BY EachMovesAlone, CyclePromises DEF CycleInv, CycleKeeps
<1>6. RecordInv /\ [SuiteNext]_suiteVars =>
        [\A i \in DOMAIN rows' : i > Len(rows) => rows'[i].key \in valid]_Licence!vars
  BY EachMovesAlone, LicencePromises
<1>7. RecordInv /\ [SuiteNext]_suiteVars =>
        [last'.result = "deactivated" /\ last' # last => rows' = <<>> /\ cached' # "pro"]_Licence!vars
  BY EachMovesAlone, LicencePromises
<1>8. RecordInv /\ [SuiteNext]_suiteVars =>
        [last'.kind = "verify" /\ last'.result = "failed" /\ last' # last =>
           licence_now - call.read[1].verified >= Grace]_Licence!vars
  BY EachMovesAlone, LicencePromises
<1>9. QED
  BY <1>1, <1>2, <1>3, <1>4, <1>5, <1>6, <1>7, <1>8, PTL
  DEF Suite, RecordsHold, Cycle!PhaseAdvances, Cycle!CancelledHolds, Licence!RowsAreValid,
      Licence!DeactivatedIsFree, Licence!GraceIsGiven

\* Every part keeps the types of its state.
THEOREM SuiteTypesHold == ASSUME DeskAssumption PROVE Suite => []TypesOK
<1> DEFINE SuiteInv == /\ part \in Parts /\ StreamInv /\ StoreInv /\ RunnerInv /\ RotationInv
                       /\ CycleInv /\ FactoryInv /\ LicenceInv /\ Inv /\ RentalInv /\ NewsInv
<1>1. SuiteInit => SuiteInv
  BY StreamInitInv, StoreInductive, RunnerInitInv, RotationInitInv, CycleInitInv, FactoryInitInv,
     LicenceInitInv, InvStarts, RentalStarts, NewsStarts DEF SuiteInit, DeskAssumption
<1>2. SuiteInv /\ [SuiteNext]_suiteVars => SuiteInv'
  <2> SUFFICES ASSUME SuiteInv, [SuiteNext]_suiteVars PROVE SuiteInv'
    OBVIOUS
  <2>1. part' \in Parts
    BY EachMovesAlone DEF Parts
  <2>2. StreamInv' /\ StoreInv' /\ RunnerInv' /\ RotationInv'
    BY EachMovesAlone, StreamStep, StoreInductive, RunnerStep, RotationStep
  <2>3. CycleInv' /\ FactoryInv' /\ LicenceInv'
    BY EachMovesAlone, CycleStep, FactoryStep, LicenceStep
  <2>4. Inv' /\ RentalInv' /\ NewsInv'
    BY EachMovesAlone, InvIsInductive, RentalInductive, NewsInductive DEF DeskAssumption
  <2>5. QED
    BY <2>1, <2>2, <2>3, <2>4
<1>3. SuiteInv => TypesOK
  <2> SUFFICES ASSUME SuiteInv PROVE TypesOK
    OBVIOUS
  <2>1. Stream!TypeOK /\ Store!TypeOK /\ Runner!TypeOK /\ Rotation!TypeOK
    BY StreamInvHolds, StoreInvHolds, RunnerInvHolds, RotationInvHolds
  <2>2. Cycle!TypeOK /\ Factory!TypeOK /\ Licence!TypeOK
    BY FactoryInvHolds, LicenceInvTypes DEF CycleInv, CycleTypes
  <2>3. TypeOK /\ RentalTypeOK /\ NewsTypeOK
    BY DEF Inv, RentalInv, NewsInv
  <2>4. part \in Parts
    OBVIOUS
  <2> HIDE DEF SuiteInv
  <2>5. QED
    BY <2>1, <2>2, <2>3, <2>4 DEF TypesOK, Parts
<1>4. QED
  BY <1>1, <1>2, <1>3, PTL DEF Suite

=============================================================================
