----------------------------- MODULE MCBacktests -----------------------------
(* What a backtest goes through, for TLC: its row, its worker, the bridge  *)
(* to the runner, its events, its log and its walk-forward test.  A        *)
(* behaviour is one of the part that the initial state chooses; the other  *)
(* parts stand still.                                                      *)
EXTENDS JobLifecycle, EventStream, TLC

CONSTANTS
  BridgeLines, MaxPrinted, MaxErr, OutPipe, ErrPipe,  \* WslBridge
  WorkJobs, Names, Repeats, Trials, Periods,          \* BacktestWorker
  Capacity, MaxLines,                                 \* LogBuffer
  Walks, Months, Bars, Lead, Span, Session, Warm, Ret, Wide, Fee, Signals,
  Target, Radius, Floor, Interval, Block              \* WalkForward

CONSTANTS a, b,  \* jobs by their rows
          c, d   \* jobs by their workers
BothJobs == {a, b}
SameConfig == [j \in BothJobs |-> 0]
\* c has two models and two repetitions
TwoWorkers   == {c, d}
ModelsOfTwo  == (c :> <<"logistic", "xgboost">>) @@ (d :> <<"xgboost">>)
RepeatsOfTwo == (c :> 2) @@ (d :> 1)
Symmetry == Permutations(BothJobs)

\* what a model may say of the bars of a month; pools of tuned candidates
MonthSignals == {[o \in 0..4 |-> 1], [o \in 0..4 |-> IF o < 3 THEN 1 ELSE -1], [o \in 0..4 |-> 0],
                 [o \in 0..4 |-> IF o = 2 THEN -1 ELSE 0]}
Returns == [k \in 0..18 |-> (k % 3) - 1]

Candidate(p, v) == [params |-> p, value |-> v]
Twins == <<Candidate(5, 10), Candidate(5, 10), Candidate(6, 9), Candidate(7, 9), Candidate(20, 10)>>
Near  == <<Candidate(5, 8), Candidate(6, 7), Candidate(4, 9), Candidate(3, 1)>>
Plain == [dqn |-> FALSE, warm |-> FALSE, deploy |-> FALSE, filter |-> TRUE, runDir |-> FALSE,
          alone |-> TRUE, trials |-> TRUE, once |-> TRUE, pool |-> Twins]
OneOfEach == {Plain, [Plain EXCEPT !.deploy = TRUE, !.trials = FALSE],
              [Plain EXCEPT !.deploy = TRUE, !.pool = Near, !.warm = TRUE],
              [Plain EXCEPT !.filter = FALSE, !.once = FALSE], [Plain EXCEPT !.warm = TRUE],
              [Plain EXCEPT !.dqn = TRUE], [Plain EXCEPT !.dqn = TRUE, !.alone = FALSE],
              [Plain EXCEPT !.dqn = TRUE, !.runDir = TRUE]}

VARIABLE part
VARIABLES  \* of WslBridge
  worker, line, runner, out, err, printed, complained, wb_row, wb_stopped, said, metrics,
  wb_file
VARIABLES  \* of BacktestWorker
  pc, cycle, rep, left, work, rows, events, held, newest, bw_stopped
VARIABLES  \* of LogBuffer
  buffer, counter, lb_file, page, answer
VARIABLES  \* of WalkForward
  opt, stage, month, best, carry, chain, policy, made, months

wb == <<worker, line, runner, out, err, printed, complained, wb_row, wb_stopped, said,
        metrics, wb_file>>
bw == <<pc, cycle, rep, left, work, rows, events, held, newest, bw_stopped>>
lb == <<buffer, counter, lb_file, page, answer>>
wf == <<opt, stage, month, best, carry, chain, policy, made, months>>
suiteVars == <<part, vars, eventVars, wb, bw, lb, wf>>

Bridge == INSTANCE WslBridge WITH Lines <- BridgeLines, MaxLines <- MaxPrinted,
  row <- wb_row, stopped <- wb_stopped, file <- wb_file
Worker == INSTANCE BacktestWorker WITH Jobs <- WorkJobs, stopped <- bw_stopped
Logs == INSTANCE LogBuffer WITH file <- lb_file
Walk == INSTANCE WalkForward WITH Opts <- Walks, N <- Months

----------------------------------------------------------------------------
ASSUME Assumptions ==
  /\ JobLifecycleAssumption /\ Bridge!BridgeAssumption
  /\ Worker!WorkerAssumption /\ Logs!LogAssumption /\ Walk!WalkAssumption

SuiteInit ==
  /\ part \in {"rows", "events", "bridge", "worker", "logs", "walk"}
  /\ Init /\ EventInit /\ Bridge!Init /\ Worker!Init /\ Logs!Init /\ Walk!Init
  /\ part # "walk" => opt = (CHOOSE o \in Walks : TRUE) /\ policy.file = {}

SuiteNext ==
  /\ UNCHANGED part
  /\ \/ part = "rows"   /\ Next        /\ UNCHANGED <<eventVars, wb, bw, lb, wf>>
     \/ part = "events" /\ EventNext   /\ UNCHANGED <<vars, wb, bw, lb, wf>>
     \/ part = "bridge" /\ Bridge!Next /\ UNCHANGED <<vars, eventVars, bw, lb, wf>>
     \/ part = "worker" /\ Worker!Next /\ UNCHANGED <<vars, eventVars, wb, lb, wf>>
     \/ part = "logs"   /\ Logs!Next   /\ UNCHANGED <<vars, eventVars, wb, bw, wf>>
     \/ part = "walk"   /\ Walk!Next   /\ UNCHANGED <<vars, eventVars, wb, bw, lb>>

Suite == SuiteInit /\ [][SuiteNext]_suiteVars

----------------------------------------------------------------------------
(* Properties: those of the parts.  The rows' own, RowsHold, StopsHold and *)
(* UsesService, are in JobLifecycle, ShownOnce of the events in EventStream: *)
(* the other parts leave their state alone.                                 *)

\* Every part keeps the types of its state.
TypesOK == CASE part = "rows"     -> TypeOK
             [] part = "events"   -> EventTypeOK
             [] part = "bridge"   -> Bridge!TypeOK
             [] part = "worker"   -> Worker!TypeOK
             [] part = "logs"     -> Logs!TypeOK
             [] part = "walk"     -> Walk!TypeOK

\* An ended worker has published one end, as its last event, has a row for
\* each model and the work of all its repetitions, and holds nothing; it begins
\* no further model after a stop.  A job completed through the bridge is one
\* whose runner came to a good end with all it printed read, and the job file
\* lives exactly as long as somebody reads the runner; the lines of the log are
\* shown once, in their order, and the page misses only those the buffer dropped.
WorkerReports == /\ [](part = "worker" => /\ Worker!OneEnd /\ Worker!RowPerModel
                                         /\ Worker!AllWork /\ Worker!NothingHeld)
                 /\ [](part = "bridge" => Bridge!CompleteIsTrue /\ Bridge!FileWhileRead)
                 /\ [](part = "logs"   => Logs!ShownInOrder /\ Logs!MissedIsDropped)
                 /\ Worker!NoModelAfterStop

\* The months of a walk-forward test follow one another without a gap or a bar
\* counted twice, each takes up the position the last one left, and the models
\* and policies it used are of its own time.
MonthsFollow == part = "walk" => Walk!MonthsJoin /\ Walk!ModelsAreFresh

\* The equities of a walk-forward test are what its bars add up to, and its
\* committees leave nobody better out.
WalkHolds == part = "walk" => Walk!WalkAdds /\ Walk!CommitteeSound

=============================================================================
