--------------------------- MODULE BacktestService ---------------------------
(***************************************************************************)
(* What POST /backtest and the process manager promise together: a         *)
(* submitted backtest starts at most once and ends once, and the backtests *)
(* that use the card are started only while their budgets fit in it.       *)
(* Queues, pools, ledger and callbacks are how, and are not seen here.     *)
(***************************************************************************)
EXTENDS Integers, FiniteSets

CONSTANTS Jobs, Budget, TotalVram

VARIABLES
  run,    \* "waiting", "running" or "ended", for each job
  card    \* the running jobs that hold memory of the card

ServiceInit ==
  /\ run = [j \in Jobs |-> "waiting"]
  /\ card = {}

StartOnCpu(j) ==
  /\ run[j] = "waiting"
  /\ run' = [run EXCEPT ![j] = "running"]
  /\ UNCHANGED card

StartOnCard(j) ==
  /\ run[j] = "waiting"
  /\ Budget * Cardinality(card \cup {j}) <= TotalVram
  /\ run' = [run EXCEPT ![j] = "running"]
  /\ card' = card \cup {j}

(* One job ends, or all the jobs of an executor that breaks.               *)
EndSome(S) ==
  /\ \A j \in S : run[j] = "running"
  /\ run' = [j \in Jobs |-> IF j \in S THEN "ended" ELSE run[j]]
  /\ card' = card \ S

ServiceNext ==
  \/ \E j \in Jobs : StartOnCpu(j) \/ StartOnCard(j)
  \/ \E S \in SUBSET Jobs : EndSome(S)

ServiceSpec == ServiceInit /\ [][ServiceNext]_<<run, card>>
=============================================================================
