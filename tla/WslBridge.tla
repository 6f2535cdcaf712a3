-------------------------------- MODULE WslBridge --------------------------------
(***************************************************************************)
(* A backtest with models for the graphics card is handed to a runner in   *)
(* the Linux subsystem: the worker reads the runner's output line by line, *)
(* repeats its progress, and writes the end of the job.  Standard output   *)
(* and standard error are pipes, and a writer waits while its pipe is full.*)
(***************************************************************************)
EXTENDS Naturals, Sequences

CONSTANTS
  Lines,       \* the lines the runner may print, of {"progress", "event", "callback", "other"}
  MaxLines,    \* lines of a behaviour
  MaxErr,      \* lumps of standard error of a behaviour
  OutPipe, ErrPipe  \* what the pipes hold

BridgeAssumption ==
  /\ Lines \subseteq {"progress", "event", "callback", "other"}
  /\ {MaxLines, MaxErr} \subseteq Nat /\ {OutPipe, ErrPipe} \subseteq Nat \ {0}

VARIABLES
  worker,    \* where the worker is
  line,      \* the line in its hand
  runner,    \* "none", "runs", or its exit code: "zero", "nonzero"
  out, err,  \* the pipes
  printed, complained,  \* how much the runner has written
  row,       \* the status of the job's row
  stopped,   \* the user has stopped the job
  said,      \* the terminal event that was published, or "none"
  metrics,   \* the runner's results have reached the row
  file       \* the job file exists

pipes == <<out, err, printed, complained>>
vars == <<worker, line, runner, pipes, row, stopped, said, metrics, file>>

Init ==
  /\ worker = "start" /\ line = "none" /\ runner = "none" /\ out = <<>> /\ err = 0
  /\ printed = 0 /\ complained = 0 /\ row = "queued" /\ stopped = FALSE /\ said = "none"
  /\ metrics = FALSE /\ file = FALSE

---------------------------------------------------------------------------
(* The runner.                                                             *)

Emit(l) ==
  /\ runner = "runs" /\ printed < MaxLines /\ Len(out) < OutPipe
  /\ out' = Append(out, l) /\ printed' = printed + 1
  /\ UNCHANGED <<worker, line, runner, err, complained, row, stopped, said, metrics, file>>

Complain ==
  /\ runner = "runs" /\ complained < MaxErr /\ err < ErrPipe
  /\ err' = err + 1 /\ complained' = complained + 1
  /\ UNCHANGED <<worker, line, runner, out, printed, row, stopped, said, metrics, file>>

\* main ends, or raises and exits with 1.  The runner has to write all it has
\* to say; its own stop flag is set by a signal and read by nobody.
Exit ==
  /\ runner = "runs" /\ complained = MaxErr
  /\ runner' \in {"zero", "nonzero"}
  /\ UNCHANGED <<worker, line, pipes, row, stopped, said, metrics, file>>

\* slip: the loop looks at the process, not at its output
EndWithProcess ==
  /\ worker = "read" /\ line = "none" /\ runner \in {"zero", "nonzero"} /\ worker' = "wait"
  /\ UNCHANGED <<line, runner, pipes, row, stopped, said, metrics, file>>

---------------------------------------------------------------------------
(* The worker.                                                             *)

\* Without the subsystem the job runs where it is.
Fallback ==
  /\ worker = "start" /\ worker' = "native"
  /\ UNCHANGED <<line, runner, pipes, row, stopped, said, metrics, file>>

\* The row, the job file and the process.
Dispatch ==
  /\ worker = "start" /\ worker' = "read" /\ row' = "running" /\ file' = TRUE /\ runner' = "runs"
  /\ UNCHANGED <<line, pipes, stopped, said, metrics>>

ReadLine ==
  /\ worker = "read" /\ line = "none" /\ out # <<>>
  /\ line' = Head(out) /\ out' = Tail(out)
  /\ UNCHANGED <<worker, runner, err, printed, complained, row, stopped, said, metrics, file>>

\* The check with each line: the process is terminated and the loop left.
Cancelled ==
  /\ worker = "read" /\ line # "none" /\ stopped
  /\ runner' = (IF runner = "runs" THEN "nonzero" ELSE runner) /\ worker' = "wait" /\ line' = "none"
  /\ UNCHANGED <<pipes, row, stopped, said, metrics, file>>

Passed ==
  /\ worker = "read" /\ line # "none" /\ ~stopped /\ worker' = "handle"
  /\ UNCHANGED <<line, runner, pipes, row, stopped, said, metrics, file>>

\* The progress callback looks for a stop again, and raises KeyboardInterrupt,
\* which no handler on the way catches.
Handle ==
  /\ worker = "handle" /\ line' = "none"
  /\ worker' = IF line = "callback" /\ stopped THEN "interrupted" ELSE "read"
  /\ file' = (worker' = "read")
  /\ UNCHANGED <<runner, pipes, row, stopped, said, metrics>>

EndOfOutput ==
  /\ worker = "read" /\ line = "none" /\ out = <<>> /\ runner \in {"zero", "nonzero"}
  /\ worker' = "wait"
  /\ UNCHANGED <<line, runner, pipes, row, stopped, said, metrics, file>>

\* The exit code decides; the results are empty; the file is removed.
Finish ==
  /\ worker = "wait" /\ runner \in {"zero", "nonzero"}
  /\ IF runner = "zero" THEN row' = "completed" /\ said' = "job_complete"
     ELSE row' = "failed" /\ said' = "job_failed"
  /\ worker' = "ended" /\ file' = FALSE
  /\ UNCHANGED <<line, runner, pipes, stopped, metrics>>

\* Force stop: the row of an active job.
ForceStop ==
  /\ ~stopped /\ row = "running" /\ stopped' = TRUE /\ row' = "failed"
  /\ UNCHANGED <<worker, line, runner, pipes, said, metrics, file>>

Runner == (\E l \in Lines : Emit(l)) \/ Complain \/ Exit
Worker == Fallback \/ Dispatch \/ ReadLine \/ Cancelled \/ Passed \/ Handle \/ EndOfOutput \/ Finish

Next == Runner \/ Worker \/ ForceStop

Spec == Init /\ [][Next]_vars

\* Both processes run.  Nobody has to stop the job.
FairSpec == Spec /\ WF_vars(Worker) /\ WF_vars(Complain) /\ WF_vars(Exit)

---------------------------------------------------------------------------
(* Properties.                                                             *)

\* The types of the state.
TypeOK ==
  /\ worker \in {"start", "native", "read", "handle", "wait", "ended", "interrupted"}
  /\ line \in Lines \cup {"none"} /\ runner \in {"none", "runs", "zero", "nonzero"}
  /\ out \in Seq(Lines) /\ Len(out) <= OutPipe /\ err \in 0..ErrPipe
  /\ row \in {"queued", "running", "completed", "failed"} /\ said \in {"none", "job_complete", "job_failed"}
  /\ {stopped, metrics, file} \subseteq BOOLEAN

\* A job that nobody stopped is completed only by a runner that has come to a
\* good end, with all that it printed read.
CompleteIsTrue == row = "completed" /\ ~stopped => runner = "zero" /\ out = <<>>

\* The job file lives as long as somebody reads the runner, and no longer.
FileWhileRead == file <=> worker \in {"read", "handle", "wait"}

\* A job that was dispatched comes to an end, whatever it prints.
Returns == (worker = "read") ~> (worker \in {"ended", "interrupted"})

\* A worker that has left its job has left no runner behind.
NoRunnerLeft == worker \in {"ended", "interrupted"} => runner # "runs"

\* Whoever listens hears the end of the job.
EndIsSaid == worker \in {"ended", "interrupted"} => said # "none"

\* What was stopped is not completed afterwards.
StoppedNotCompleted == stopped => row # "completed"

\* A completed job has the runner's results.
ResultsArrive == row = "completed" => metrics

=============================================================================
