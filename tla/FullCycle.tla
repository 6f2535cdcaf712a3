------------------------------- MODULE FullCycle -------------------------------
(***************************************************************************)
(* One full cycle of the committee: a thread of the service that sweeps    *)
(* features, tunes models, assembles a committee, validates it and         *)
(* optimises it, and writes what it does into the files of a directory.    *)
(* Beside it run a heartbeat, the cancel request, and the pages that read  *)
(* the files; the service may die.                                         *)
(*                                                                         *)
(* A step of the thread is what it does between two writes or checks of    *)
(* those files.  Scores are abstracted to the verdicts taken from them.    *)
(***************************************************************************)
EXTENDS Naturals, FiniteSets

CONSTANTS
  OptionSets,   \* the sets of phases that requests enable, of {"p3", "p4", "p5", "p6"}
  Models,       \* the models of the request
  MaxRounds     \* factory iterations of a behaviour

CycleAssumption ==
  OptionSets \subseteq SUBSET {"p3", "p4", "p5", "p6"} /\ IsFiniteSet(Models) /\ Models # {} /\ MaxRounds \in Nat

VARIABLES
  up,        \* the service runs
  pc,        \* where the thread is
  opts,      \* the phases the request enables
  have,      \* what the thread has produced or, for a name of the code, bound
  todo,      \* models to collect, and later rounds and seeds, as numbers
  training,  \* a model is being trained on behalf of the thread
  pending,   \* SystemExit waits to be raised in the thread
  known,     \* the registries of the clean-up module know the thread
  dir,       \* the directory exists
  status,    \* status.json: phase and phase_number
  results,   \* results.json: its status, or "none"
  flag,      \* cancel.json exists
  beating,   \* the heartbeat thread runs
  fresh,     \* the last heartbeat is less than five minutes old
  cancel,    \* where the cancel request is
  caught     \* the thread was known when the request stopped it

files  == <<dir, status, results, flag>>
thread == <<pc, opts, have, todo, training>>
beat   == <<beating, fresh>>
vars == <<up, thread, pending, known, files, beat, cancel, caught>>

Terminal == {"completed", "failed", "validation_failed", "cancelled"}

\* What get_full_cycle_status says: a phase without a heartbeat is orphaned.
Shown == IF ~dir THEN "not found"
         ELSE IF status.phase \notin Terminal /\ ~fresh THEN "orphaned" ELSE status.phase

Init ==
  /\ up = TRUE /\ pc = "off" /\ opts \in OptionSets /\ have = {} /\ todo = {} /\ training = FALSE
  /\ pending = FALSE /\ known = FALSE /\ dir = FALSE
  /\ status = [phase |-> "none", number |-> 0] /\ results = "none" /\ flag = FALSE
  /\ beating = FALSE /\ fresh = TRUE /\ cancel = "off" /\ caught = FALSE

---------------------------------------------------------------------------
(* The files.                                                              *)

\* _update_full_cycle_status: whoever cancelled has the last word.  Without the
\* directory the write raises.
SetStatus(p, n) ==
  /\ dir
  /\ status' = IF status.phase = "cancelled" /\ p # "cancelled" THEN status
               ELSE [phase |-> p, number |-> n]

SetResults(r) == dir /\ results' = r

\* start_full_cycle: the directory and its first status, then the thread.
Start ==
  /\ up /\ pc = "off" /\ ~dir
  /\ dir' = TRUE /\ status' = [phase |-> "starting", number |-> 0] /\ pc' = "new"
  /\ UNCHANGED <<up, opts, have, todo, training, pending, known, results, flag, beat, cancel, caught>>

Launch ==
  /\ up /\ pc = "new" /\ pc' = "load" /\ known' = TRUE
  /\ UNCHANGED <<up, opts, have, todo, training, pending, files, beat, cancel, caught>>

---------------------------------------------------------------------------
(* The thread.                                                             *)

Runs(l) == up /\ pc = l /\ ~pending
Still == UNCHANGED <<up, opts, pending, known, cancel, caught>>

\* The data are read before the heartbeat starts.
LoadData ==
  /\ Runs("load") /\ pc' = "sweep" /\ have' = {"heart"} /\ beating' = TRUE
  /\ Still /\ UNCHANGED <<todo, training, files, fresh>>

\* _check_cancel at the end of a step
GoOn(l) == pc' = IF flag THEN "cancelling" ELSE l

\* Phase 1: from the cache, skipped, or run; locked_count is bound after the check.
Sweep(skip) ==
  /\ Runs("sweep")
  /\ IF skip THEN UNCHANGED files ELSE SetStatus("feature_sweep", 1) /\ UNCHANGED <<dir, results, flag>>
  /\ GoOn("prepare") /\ have' = IF flag THEN have ELSE have \cup {"locked"}
  /\ Still /\ UNCHANGED <<todo, training, beat>>

\* Phase 2: with phase 3 of the request, every model is to be tuned.
Prepare ==
  /\ Runs("prepare") /\ SetStatus("phase1_hpo", 2) /\ UNCHANGED <<dir, results, flag>>
  /\ IF "p3" \in opts THEN pc' = "tune" /\ todo' = Models ELSE pc' = "assemble" /\ todo' = {}
  /\ have' = have \cup {"survivors"}
  /\ Still /\ UNCHANGED <<training, beat>>

\* _run_hpo_for_model: a worker trains, and the thread waits for it, however
\* long; a timeout is noticed when the worker has ended.
Tune ==
  /\ Runs("tune") /\ ~training /\ todo # {}
  /\ SetStatus("phase1_hpo", 2) /\ UNCHANGED <<dir, results, flag>>
  /\ training' = TRUE
  /\ Still /\ UNCHANGED <<pc, have, todo, beat>>

\* _on_progress, from the worker
Progress ==
  /\ up /\ training /\ SetStatus("phase1_hpo", 2)
  /\ Still /\ UNCHANGED <<pc, have, todo, training, dir, results, flag, beat>>

\* success, or no folds, a crash or a timeout
Tuned(m, success) ==
  /\ up /\ pc = "tune" /\ training /\ m \in todo
  /\ training' = FALSE /\ todo' = todo \ {m}
  /\ have' = IF success THEN have \cup {"folds"} ELSE have
  /\ Still /\ UNCHANGED <<pc, files, beat>>

\* The results of all models; the directory of a model's summary is made with
\* its parents.  Without a success the cycle fails.
Collect ==
  /\ Runs("tune") /\ ~training /\ todo = {}
  /\ dir' = (dir \/ "folds" \in have)
  /\ IF flag THEN pc' = "cancelling" ELSE
     IF "folds" \in have /\ dir' THEN pc' = "assemble" ELSE pc' = "raised"
  /\ have' = IF "folds" \in have /\ ~flag THEN have \cup {"matrix"} ELSE have
  /\ Still /\ UNCHANGED <<todo, training, status, results, flag, beat>>

\* Phase 3: the configuration is written only when the phase is enabled.
Assemble ==
  /\ Runs("assemble") /\ pc' = "validate"
  /\ IF "p4" \in opts THEN SetStatus("phase2_assembly", 3) /\ UNCHANGED <<dir, results, flag>>
     ELSE UNCHANGED files
  /\ have' = IF "p4" \in opts THEN have \cup {"config"} ELSE have
  /\ Still /\ UNCHANGED <<todo, training, beat>>

\* Phase 4: the walk-forward test; it looks at the flag itself.
Validate ==
  /\ Runs("validate")
  /\ IF "p5" \in opts THEN SetStatus("phase3_validation", 4) /\ GoOn("verdict") /\ UNCHANGED <<dir, results, flag>>
     ELSE pc' = "factory" /\ UNCHANGED files
  /\ Still /\ UNCHANGED <<have, todo, training, beat>>

\* The verdict after scores and seeds; a failed test or a low trust score ends
\* the cycle as validation_failed, status before results.
Verdict(accept) ==
  /\ Runs("verdict")
  /\ IF flag THEN pc' = "cancelling" /\ UNCHANGED <<have, status>>
     ELSE IF accept THEN pc' = "factory" /\ have' = have \cup {"validated"} /\ dir /\ UNCHANGED status
     ELSE pc' = "reject" /\ SetStatus("validation_failed", 4) /\ UNCHANGED have
  /\ Still /\ UNCHANGED <<todo, training, dir, results, flag, beat>>

Reject ==
  /\ Runs("reject") /\ SetResults("validation_failed") /\ pc' = "finally"
  /\ Still /\ UNCHANGED <<have, todo, training, dir, status, flag, beat>>

\* Phase 5: the state of the factory is loaded from the files of phases 2 and 3.
OpenFactory ==
  /\ Runs("factory")
  /\ IF "p6" \notin opts THEN pc' = "finally" /\ UNCHANGED <<files, todo>>
     ELSE /\ SetStatus("phase4_factory", 5) /\ UNCHANGED <<dir, results, flag>>
          /\ pc' = IF {"config", "matrix"} \subseteq have THEN "optimise" ELSE "raised"
          /\ todo' = 1..MaxRounds
  /\ Still /\ UNCHANGED <<have, training, beat>>

\* An iteration: a status, a test, and the check.
Iterate ==
  /\ Runs("optimise") /\ todo # {}
  /\ SetStatus("phase4_factory", 5) /\ UNCHANGED <<dir, results, flag>>
  /\ GoOn("optimise") /\ \E n \in todo : todo' = todo \ {n}
  /\ Still /\ UNCHANGED <<have, training, beat>>

\* The loop stops; the final test and its seeds look at the flag.
Final ==
  /\ Runs("optimise")
  /\ SetStatus("phase4_factory", 5) /\ UNCHANGED <<dir, results, flag>>
  /\ GoOn("write") /\ todo' = {} /\ have' = IF flag THEN have ELSE have \cup {"final"}
  /\ Still /\ UNCHANGED <<training, beat>>

\* The models are saved and the results put together, out of names that are
\* bound only if the validation has run.
WriteResults ==
  /\ Runs("write")
  /\ IF "validated" \in have THEN SetResults("completed") /\ pc' = "complete"
     ELSE pc' = "raised" /\ UNCHANGED results
  /\ Still /\ UNCHANGED <<have, todo, training, dir, status, flag, beat>>

Complete ==
  /\ Runs("complete") /\ SetStatus("completed", 6) /\ pc' = "finally"
  /\ Still /\ UNCHANGED <<have, todo, training, dir, results, flag, beat>>

Working == {"load", "sweep", "prepare", "tune", "assemble", "validate", "verdict", "reject",
            "factory", "optimise", "write", "complete"}

\* Any of these steps may raise; a broken pool has a handler of its own.
Raise(pool) ==
  /\ up /\ pc \in Working /\ ~pending /\ ~training
  /\ pc' = IF pool THEN "finally" ELSE "raised"
  /\ Still /\ UNCHANGED <<have, todo, training, files, beat>>

\* except FullCycleCancelled
Cancelling ==
  /\ Runs("cancelling") /\ pc' = "finally"
  /\ IF results = "none" /\ dir THEN SetStatus("cancelled", 0) /\ SetResults("cancelled")
     ELSE UNCHANGED <<status, results>>
  /\ Still /\ UNCHANGED <<have, todo, training, dir, flag, beat>>

\* except Exception
Failed ==
  /\ Runs("raised") /\ pc' = "finally"
  /\ IF results = "none" /\ dir THEN SetStatus("failed", 0) ELSE UNCHANGED status
  /\ Still /\ UNCHANGED <<have, todo, training, dir, results, flag, beat>>

\* SystemExit is raised when the thread runs again, and passes the handlers.
Interrupted ==
  /\ up /\ pending /\ ~training /\ pc \in Working \cup {"cancelling", "raised", "finally", "last"}
  /\ pending' = FALSE /\ pc' = IF pc \in {"finally", "last"} THEN "dead" ELSE "finally"
  /\ UNCHANGED <<up, opts, have, todo, training, known, files, beat, cancel, caught>>

\* finally: without results the cycle is completed, if the names needed are
\* bound; heartbeat_stop is not before the data are read.
Finally ==
  /\ Runs("finally")
  /\ IF "heart" \notin have THEN pc' = "dead" /\ UNCHANGED <<results, flag, beating>>
     ELSE /\ flag' = FALSE /\ beating' = FALSE
          /\ IF results = "none" /\ dir /\ "locked" \in have THEN results' = "completed" /\ pc' = "last"
             ELSE pc' = "dead" /\ UNCHANGED results
  /\ Still /\ UNCHANGED <<have, todo, training, dir, status, fresh>>

Last ==
  /\ Runs("last") /\ pc' = "dead"
  /\ IF dir THEN SetStatus("completed", 5) ELSE UNCHANGED status
  /\ Still /\ UNCHANGED <<have, todo, training, dir, results, flag, beat>>

---------------------------------------------------------------------------
(* The heartbeat, the request to cancel, and the end of the service.       *)

Heartbeat ==
  /\ up /\ beating /\ ~fresh /\ fresh' = TRUE
  /\ UNCHANGED <<up, thread, pending, known, files, beating, cancel, caught>>

\* Five minutes pass.
Age ==
  /\ fresh /\ pc # "off" /\ fresh' = FALSE
  /\ UNCHANGED <<up, thread, pending, known, files, beating, cancel, caught>>

\* slip: the thread is not interrupted
StopNothing ==
  /\ up /\ dir /\ cancel = "off" /\ cancel' = "stopped"
  /\ known' = FALSE /\ caught' = known
  /\ UNCHANGED <<up, thread, pending, files, beat>>

\* cancel_full_cycle: force_stop_job first; it waits three seconds for the thread.
ForceStop ==
  /\ up /\ dir /\ cancel = "off" /\ cancel' = "stopped"
  /\ known' = FALSE /\ caught' = known /\ pending' = (pending \/ (known /\ pc # "dead"))
  /\ UNCHANGED <<up, thread, files, beat>>

\* The flag, the status and the results of a cancelled cycle.
Mark ==
  /\ up /\ cancel = "stopped" /\ cancel' = "marked"
  /\ flag' = TRUE /\ SetStatus("cancelled", 0) /\ results' = "cancelled"
  /\ UNCHANGED <<up, thread, pending, known, dir, beat, caught>>

\* The directory is removed, and the request answered.
Remove ==
  /\ up /\ cancel = "marked" /\ cancel' = "done"
  /\ dir' = FALSE /\ flag' = FALSE /\ results' = "none" /\ status' = [phase |-> "none", number |-> 0]
  /\ UNCHANGED <<up, thread, pending, known, beat, caught>>

\* The service dies, and comes back without the thread.
Crash ==
  /\ up /\ up' = FALSE
  /\ pc' = (IF pc = "off" THEN "off" ELSE "gone") /\ training' = FALSE /\ pending' = FALSE
  /\ known' = FALSE /\ beating' = FALSE
  /\ cancel' = IF cancel \in {"off", "done"} THEN cancel ELSE "off"
  /\ UNCHANGED <<opts, have, todo, files, fresh, caught>>

Restart == ~up /\ up' = TRUE /\ UNCHANGED <<thread, pending, known, files, beat, cancel, caught>>

Thread ==
  \/ Launch \/ LoadData \/ \E skip \in BOOLEAN : Sweep(skip)
  \/ Prepare \/ Tune \/ Progress \/ \E m \in Models, s \in BOOLEAN : Tuned(m, s)
  \/ Collect \/ Assemble \/ Validate \/ \E a \in BOOLEAN : Verdict(a)
  \/ Reject \/ OpenFactory \/ Iterate \/ Final \/ WriteResults \/ Complete
  \/ \E pool \in BOOLEAN : Raise(pool)
  \/ Cancelling \/ Failed \/ Interrupted \/ Finally \/ Last

Cancel == ForceStop \/ Mark \/ Remove

Next == Start \/ Thread \/ Heartbeat \/ Age \/ Cancel \/ Crash \/ Restart

Spec == Init /\ [][Next]_vars

\* The thread is scheduled, trainings end, time passes and beats come: fairness
\* of the interpreter and of the clock.  Nobody has to cancel or to restart.
FairSpec == Spec /\ WF_vars(Thread) /\ WF_vars(Heartbeat) /\ WF_vars(Age)

---------------------------------------------------------------------------
(* Properties.                                                             *)

\* The types of the state.
TypeOK ==
  /\ up \in BOOLEAN /\ opts \subseteq {"p3", "p4", "p5", "p6"} /\ training \in BOOLEAN
  /\ pc \in Working \cup {"off", "new", "cancelling", "raised", "finally", "last", "dead", "gone"}
  /\ have \subseteq {"heart", "locked", "survivors", "folds", "matrix", "config", "validated", "final"}
  /\ todo \subseteq Models \cup 1..MaxRounds
  /\ pending \in BOOLEAN /\ known \in BOOLEAN /\ dir \in BOOLEAN /\ flag \in BOOLEAN
  /\ status.number \in 0..6 /\ results \in {"none"} \cup Terminal
  /\ beating \in BOOLEAN /\ fresh \in BOOLEAN /\ cancel \in {"off", "stopped", "marked", "done"} /\ caught \in BOOLEAN

\* A cycle whose thread was caught stays gone: no late write brings it back.
CaughtStaysGone == cancel = "done" /\ caught => ~dir

\* A cycle that was cancelled stays gone, whenever that was.
GoneStaysGone == cancel = "done" => ~dir

\* Phase number 6 stands for a committee that was validated and optimised.
SixIsWhole == status.number = 6 => {"validated", "final", "config"} \subseteq have /\ results \in {"completed", "cancelled"}

\* While the cycle runs its phases only advance, until it ends.
PhaseAdvances == [][status'.number >= status.number \/ status'.phase \in Terminal \/ ~dir']_vars

\* A cancelled status is not overwritten.
CancelledHolds == [][status.phase = "cancelled" /\ dir' => status'.phase = "cancelled"]_vars

\* A cycle that was started ends, or is shown as orphaned.
EndIsShown == (dir /\ status.phase = "starting") ~> (Shown \in Terminal \cup {"orphaned", "not found"})

\* A cycle whose thread met an exception is not completed.
FailedStaysFailed == [][status.phase = "failed" => status'.phase # "completed"]_vars

\* What a completed cycle found is kept.
ResultsKept == [][status.number = 6 => status'.number = 6]_vars

\* When the request to cancel is answered nothing trains any more.
CancelStops == cancel = "done" => ~training

=============================================================================
