---------------------------- MODULE JobLifecycle ----------------------------
(***************************************************************************)
(* The row of a backtest in the jobs table, and everybody who writes it:   *)
(* the request that submits the job, the worker process that runs it, the  *)
(* force stop, the stale clean-up, the committee's cancel, the deletion,   *)
(* and the shutdown and the start of the server (api/services, api/tasks,  *)
(* api/shutdown, api/routers/backtest).                                    *)
(*                                                                         *)
(* Every SQL statement is a transaction of its own, so every statement is  *)
(* a step.  The desktop build runs: there is no Celery and no task_id.     *)
(* What the process manager does with a job (BacktestService) is reduced   *)
(* to task[j]: waiting in its memory, handed to a worker process, ended.   *)
(***************************************************************************)
EXTENDS Integers, FiniteSets

CONSTANTS
  Jobs,        \* job ids
  Config,      \* the backtest configuration of a job
  KeysSorted,  \* are the keys of a configuration built in sorted order?
  Posix,       \* a child whose parent died has parent 1, and is reaped
  MaxRestart,  \* bound: restarts of the server
  MaxDeath     \* bound: worker processes killed by the operating system

Viewer  == "viewer"                \* the request thread of GET /active
Active  == {"pending", "queued", "running"}
Final   == {"completed", "failed"}
Working == {"ensure", "mark", "remark", "loop", "complete", "fail", "stop"}

JobLifecycleAssumption ==
  /\ Viewer \notin Jobs
  /\ {KeysSorted, Posix} \subseteq BOOLEAN
  /\ {MaxRestart, MaxDeath} \subseteq Nat
  /\ DOMAIN Config = Jobs

VARIABLES
  status,   \* the status column, or "absent" when there is no row
  why,      \* the error column
  old,      \* updated_at is older than the stale threshold
  post,     \* where the request that submits the job is
  task,     \* "none", "waiting", a step of the worker, or how that ended
  stale,    \* the ids a clean-up has selected, per thread that runs one
  stopping, \* the jobs whose force stop has passed its check
  server,   \* "up", "stopping" or "down"
  restarts, deaths,
  heard     \* history: jobs that were stopped while in their loop

rowVars    == <<status, why, old>>
boundVars  == <<restarts, deaths>>
vars == <<rowVars, post, task, stale, stopping, server, boundVars, heard>>

Init ==
  /\ status = [j \in Jobs |-> "absent"]
  /\ why = [j \in Jobs |-> "none"]
  /\ old = [j \in Jobs |-> FALSE]
  /\ post = [j \in Jobs |-> "new"]
  /\ task = [j \in Jobs |-> "none"]
  /\ stale = [t \in Jobs \cup {Viewer} |-> {}]
  /\ stopping = {}
  /\ server = "up"
  /\ restarts = 0 /\ deaths = 0
  /\ heard = {}

Exists(j) == status[j] # "absent"
IsActive(j) == status[j] \in Active
Live(j) == task[j] \in Working

(* UPDATE jobs SET status, error, updated_at for the rows of S that exist. *)
Write(S, s, e) ==
  LET W == {j \in S : Exists(j)} IN
  /\ status' = [j \in Jobs |-> IF j \in W THEN s ELSE status[j]]
  /\ why' = [j \in Jobs |-> IF j \in W THEN e ELSE why[j]]
  /\ old' = [j \in Jobs |-> IF j \in W THEN FALSE ELSE old[j]]

(* The same with AND status IN ('pending', 'running', 'queued').           *)
WriteAny(S, s, e)    == Write(S, s, e)      \* slip: no status condition
WriteActive(S, s, e) == Write({j \in S : IsActive(j)}, s, e)

Insert(j, s) ==
  /\ status' = [status EXCEPT ![j] = s]
  /\ why' = [why EXCEPT ![j] = "none"]
  /\ old' = [old EXCEPT ![j] = FALSE]

GoTask(j, l) == task' = [task EXCEPT ![j] = l]
GoPost(j, l) == post' = [post EXCEPT ![j] = l]

-----------------------------------------------------------------------------
(* _cleanup_stale_jobs: select, then update what is still active.  Without *)
(* a task_id no worker is asked.                                           *)

StaleRows == {j \in Jobs : IsActive(j) /\ old[j]}

CleanSelect(t) == stale' = [stale EXCEPT ![t] = StaleRows]

CleanUpdate(t) ==
  /\ WriteActive(stale[t], "failed", "orphaned")
  /\ stale' = [stale EXCEPT ![t] = {}]

(* GET /active, which the front end polls; nothing stale writes nothing.   *)
ListActive ==
  /\ server = "up"
  /\ stale[Viewer] = {} /\ StaleRows # {}
  /\ CleanSelect(Viewer)
  /\ UNCHANGED <<rowVars, post, task, stopping, server, boundVars, heard>>

ListCleans ==
  /\ server = "up"
  /\ stale[Viewer] # {}
  /\ CleanUpdate(Viewer)
  /\ UNCHANGED <<post, task, stopping, server, boundVars, heard>>

-----------------------------------------------------------------------------
(* POST /backtest.  create_job_atomic holds a lock from its clean-up to    *)
(* its insert.                                                             *)

LockFree   == \A k \in Jobs : post[k] \notin {"cleaning", "checking", "inserting"}

BeginCreate(j) ==
  /\ server = "up"
  /\ post[j] = "new"
  /\ LockFree
  /\ CleanSelect(j)
  /\ GoPost(j, "cleaning")
  /\ UNCHANGED <<rowVars, task, stopping, server, boundVars, heard>>

CreateCleans(j) ==
  /\ post[j] = "cleaning"
  /\ CleanUpdate(j)
  /\ GoPost(j, "checking")
  /\ UNCHANGED <<task, stopping, server, boundVars, heard>>

(* The text of the new configuration, its keys sorted, is compared with    *)
(* the stored texts, whose keys are as they were built.                    *)
SameText(j, k) == Config[j] = Config[k] /\ KeysSorted

CheckDuplicate(j) ==
  /\ post[j] = "checking"
  /\ \/ /\ \E k \in Jobs : IsActive(k) /\ SameText(j, k)
        /\ GoPost(j, "refused")
     \/ /\ \A k \in Jobs : IsActive(k) => ~SameText(j, k)
        /\ GoPost(j, "inserting")
  /\ UNCHANGED <<rowVars, task, stale, stopping, server, boundVars, heard>>

CreateRow(j) ==
  /\ post[j] = "inserting"
  /\ Insert(j, "pending")
  /\ GoPost(j, "created")
  /\ UNCHANGED <<task, stale, stopping, server, boundVars, heard>>

(* submit_or_queue: dispatched, queued, or RuntimeError, which answers 409 *)
(* and leaves the row as it is.                                            *)
SubmitDispatches(j) ==
  /\ post[j] = "created"
  /\ GoTask(j, "ensure")
  /\ GoPost(j, "answered")
  /\ UNCHANGED <<rowVars, stale, stopping, server, boundVars, heard>>

SubmitQueues(j) ==
  /\ post[j] = "created"
  /\ GoTask(j, "waiting")
  /\ GoPost(j, "queued")
  /\ UNCHANGED <<rowVars, stale, stopping, server, boundVars, heard>>

SubmitRefused(j) ==
  /\ post[j] = "created"
  /\ GoPost(j, "refused")
  /\ UNCHANGED <<rowVars, task, stale, stopping, server, boundVars, heard>>

WriteQueuedName(j) ==                       \* slip: a status of its own
  /\ post[j] = "queued"
  /\ Write({j}, "waiting", "none")
  /\ GoPost(j, "answered")
  /\ UNCHANGED <<task, stale, stopping, server, boundVars, heard>>

(* update_status("queued"), after submit_or_queue has returned.            *)
WriteQueued(j) ==
  /\ post[j] = "queued"
  /\ Write({j}, "queued", "none")
  /\ GoPost(j, "answered")
  /\ heard' = heard \ {j}
  /\ UNCHANGED <<task, stale, stopping, server, boundVars>>

(* The pump hands a waiting job to a worker.                               *)
WaitsOrRan(j) == task[j] \in {"waiting", "ended"}    \* slip: not popped
Waits(j)      == task[j] = "waiting"

Pump(j) ==
  /\ server = "up"
  /\ Waits(j)
  /\ GoTask(j, "ensure")
  /\ UNCHANGED <<rowVars, post, stale, stopping, server, boundVars, heard>>

-----------------------------------------------------------------------------
(* _run_backtest_impl in the worker process.                               *)

(* ensure_job_exists.                                                      *)
Ensure(j) ==
  /\ task[j] = "ensure"
  /\ IF Exists(j) THEN UNCHANGED rowVars ELSE Insert(j, "running")
  /\ GoTask(j, "mark")
  /\ UNCHANGED <<post, stale, stopping, server, boundVars, heard>>

MarkRunning(j) ==
  /\ task[j] = "mark"
  /\ Write({j}, "running", "none")
  /\ GoTask(j, "remark")
  /\ UNCHANGED <<post, stale, stopping, server, boundVars, heard>>

MarkRunningAgain(j) ==
  /\ task[j] = "remark"
  /\ Write({j}, "running", "none")
  /\ GoTask(j, "loop")
  /\ UNCHANGED <<post, stale, stopping, server, boundVars, heard>>

(* _is_cancelled: the event is that of the worker's own process, which no  *)
(* request sets; the row is what counts.                                   *)
NeverAsked(j)  == FALSE                     \* slip: only the event is read
IsCancelled(j) == status[j] = "failed" /\ why[j] = "stopped"

(* A check point of the loop: between cycles, or in the progress callback, *)
(* which also touches the row.  The last one leads out of the loop.        *)
CheckPoint(j) ==
  /\ task[j] = "loop"
  /\ IF IsCancelled(j)
     THEN GoTask(j, "stop") /\ UNCHANGED old
     ELSE \/ old' = [old EXCEPT ![j] = FALSE] /\ UNCHANGED task
          \/ \E l \in {"complete", "fail"} : GoTask(j, l) /\ UNCHANGED old
  /\ UNCHANGED <<status, why, post, stale, stopping, server, boundVars, heard>>

(* The last write: the result, the traceback, or "Force stopped by user".  *)
Finish(j) ==
  /\ task[j] \in {"complete", "fail", "stop"}
  /\ Write({j}, IF task[j] = "complete" THEN "completed" ELSE "failed",
                CASE task[j] = "complete" -> "none"
                  [] task[j] = "fail" -> "raised"
                  [] task[j] = "stop" -> "stopped")
  /\ GoTask(j, "ended")
  /\ UNCHANGED <<post, stale, stopping, server, boundVars, heard>>

(* The operating system kills the process; nobody writes the row.          *)
WorkerDies(j) ==
  /\ Live(j)
  /\ deaths < MaxDeath
  /\ deaths' = deaths + 1
  /\ GoTask(j, "dead")
  /\ UNCHANGED <<rowVars, post, stale, stopping, server, restarts, heard>>

-----------------------------------------------------------------------------
(* The other writers.                                                      *)

(* POST /{id}/force-stop reads the row, then force_stop_job; revoke_task   *)
(* finds no event and no task_id in the server's process.                  *)
StopChecks(j) ==
  /\ server = "up"
  /\ j \notin stopping
  /\ status[j] \in {"pending", "running"}
  /\ stopping' = stopping \cup {j}
  /\ UNCHANGED <<rowVars, post, task, stale, server, boundVars, heard>>

StopWrites(j) ==
  /\ j \in stopping
  /\ WriteActive({j}, "failed", "stopped")
  /\ stopping' = stopping \ {j}
  /\ heard' = IF IsActive(j) /\ task[j] = "loop" THEN heard \cup {j} ELSE heard
  /\ UNCHANGED <<post, task, stale, server, boundVars>>

(* clear_pending_queue, called by the cancellation of a committee cycle.   *)
ClearQueue ==
  /\ server = "up"
  /\ \E j \in Jobs : IsActive(j)
  /\ WriteActive(Jobs, "failed", "cleared")
  /\ UNCHANGED <<post, task, stale, stopping, server, boundVars, heard>>

DeleteJob(j) ==
  /\ server = "up"
  /\ Exists(j) /\ post[j] \in {"answered", "refused"}
  /\ status' = [status EXCEPT ![j] = "absent"]
  /\ why' = [why EXCEPT ![j] = "none"]
  /\ old' = [old EXCEPT ![j] = FALSE]
  /\ UNCHANGED <<post, task, stale, stopping, server, boundVars, heard>>

(* Ninety minutes without an update.                                       *)
Age(j) ==
  /\ IsActive(j) /\ ~old[j]
  /\ old' = [old EXCEPT ![j] = TRUE]
  /\ UNCHANGED <<status, why, post, task, stale, stopping, server, boundVars,
                 heard>>

-----------------------------------------------------------------------------
(* The server.                                                             *)

(* mark_running_jobs_interrupted, then ProcessManager.shutdown, which      *)
(* waits for the running futures; nothing reads the flags it sets.         *)
ShutDown ==
  /\ server = "up" /\ restarts < MaxRestart
  /\ \A j \in Jobs : post[j] \in {"new", "answered", "refused"}
  /\ stopping = {} /\ \A t \in DOMAIN stale : stale[t] = {}
  /\ LET R == {j \in Jobs : status[j] = "running"} IN
       Write(R, "running", "interrupted")
  /\ server' = "stopping"
  /\ UNCHANGED <<post, task, stale, stopping, boundVars, heard>>

(* The process is gone, with its requests and its queue: at the end of the *)
(* shutdown, or killed at any time, with a part of the workers.            *)
PowerOff(S) ==
  /\ server # "down" /\ restarts < MaxRestart
  /\ server' = "down"
  /\ restarts' = restarts + 1
  /\ task' = [j \in Jobs |->
                CASE task[j] = "waiting"       -> "lost"
                  [] Live(j) /\ j \notin S -> "dead"
                  [] OTHER                     -> task[j]]
  /\ post' = [j \in Jobs |-> IF post[j] \in {"new", "answered", "refused"}
                             THEN post[j] ELSE "refused"]
  /\ stale' = [t \in DOMAIN stale |-> {}]
  /\ stopping' = {}
  /\ UNCHANGED <<rowVars, deaths, heard>>

(* startup_cleanup: reap_orphaned_processes, then mark_stale_jobs_failed.  *)
RunningRows  == {j \in Jobs : status[j] = "running"}

StartUp ==
  /\ server = "down"
  /\ server' = "up"
  /\ task' = [j \in Jobs |-> IF Posix /\ Live(j) THEN "dead" ELSE task[j]]
  /\ Write(RunningRows, "pending", "restarted")
  /\ UNCHANGED <<post, stale, stopping, boundVars, heard>>

-----------------------------------------------------------------------------
WorkerStep(j) ==
  Ensure(j) \/ MarkRunning(j) \/ MarkRunningAgain(j) \/ CheckPoint(j) \/ Finish(j)

PostStep(j) ==
  CreateCleans(j) \/ CheckDuplicate(j) \/ CreateRow(j) \/ SubmitDispatches(j)
  \/ SubmitQueues(j) \/ SubmitRefused(j) \/ WriteQueued(j)

Next ==
  \/ \E j \in Jobs : \/ BeginCreate(j) \/ PostStep(j) \/ Pump(j)
                     \/ WorkerStep(j) \/ WorkerDies(j)
                     \/ StopChecks(j) \/ StopWrites(j) \/ DeleteJob(j) \/ Age(j)
  \/ ListActive \/ ListCleans \/ ClearQueue
  \/ ShutDown \/ (\E S \in SUBSET Jobs : PowerOff(S)) \/ StartUp

Spec == Init /\ [][Next]_vars

(* A worker is a process that runs, the front end polls the active jobs,   *)
(* and time passes.                                                        *)
FairSpec ==
  /\ Spec
  /\ \A j \in Jobs : WF_vars(WorkerStep(j)) /\ WF_vars(Pump(j))
                                /\ WF_vars(PostStep(j)) /\ WF_vars(Age(j))
  /\ WF_vars(ListActive) /\ WF_vars(ListCleans) /\ WF_vars(StartUp)

-----------------------------------------------------------------------------
TypeOK ==
  /\ status \in [Jobs -> {"absent"} \cup Active \cup Final]
  /\ why \in [Jobs -> {"none", "orphaned", "stopped", "cleared", "raised",
                       "interrupted", "restarted"}]
  /\ old \in [Jobs -> BOOLEAN]
  /\ post \in [Jobs -> {"new", "cleaning", "checking", "inserting", "created", "queued",
                        "answered", "refused"}]
  /\ task \in [Jobs -> {"none", "waiting", "ended", "dead", "lost"} \cup Working]
  /\ stale \in [Jobs \cup {Viewer} -> SUBSET Jobs]
  /\ stopping \subseteq Jobs /\ heard \subseteq Jobs
  /\ server \in {"up", "stopping", "down"}
  /\ restarts \in 0..MaxRestart /\ deaths \in 0..MaxDeath

(* While the server is up, a row that says running has a worker process,   *)
(* or had one that the operating system killed: also after a restart that  *)
(* killed the workers, or left some behind.                                *)
NoGhostRunning ==
  server = "up" => \A j \in Jobs :
    status[j] = "running" => Live(j) \/ (task[j] = "dead" /\ deaths > 0)

(* No two identical backtests wait to be run: create_job_atomic checks     *)
(* and inserts under its lock, against all the other writers of the rows.  *)
PendingUnique ==
  \A j, k \in Jobs :
     /\ Config[j] = Config[k]
     /\ \A i \in {j, k} : status[i] = "pending" /\ why[i] = "none"
     => j = k

(* A force stop written while the worker is in its loop is never           *)
(* answered by a completed row.                                            *)
StoppedNeverCompletes == \A j \in heard : status[j] # "completed"

(* A force stop that the worker heard is not answered by a completed row;  *)
(* one configuration is submitted once while it is pending, when rows are  *)
(* stored with sorted keys; and no row is running that nobody runs.        *)
RowsHold == StoppedNeverCompletes /\ (KeysSorted => PendingUnique) /\ NoGhostRunning

(* Nothing but the deletion of the row changes what a finished worker      *)
(* wrote: a clean-up or a stop that decided on an older row does not.      *)
FinishedStays ==
  [][\A j \in Jobs :
       task[j] = "ended" /\ post[j] = "answered" /\ status[j] \in Final
       => status'[j] \in {status[j], "absent"} /\ (Exists(j)' => why'[j] = why[j])
    ]_vars

(* A worker is stopped by a force stop of its own job only: not by the     *)
(* clean-up, the clearing of the queue or somebody else's stop.            *)
OnlyItsStopStops ==
  [][\A j \in Jobs : task[j] = "loop" /\ task'[j] = "stop" => j \in heard]_vars

(* A worker is stopped by the stop of its own job only, and once it is     *)
(* finished only a deletion changes its row.                               *)
StopsHold == FinishedStays /\ OnlyItsStopStops

(* The rows' view of a job is one the service allows: it starts once and   *)
(* ends once, whatever its row says.                                       *)
RunOf == [j \in Jobs |-> CASE Live(j)                     -> "running"
                           [] task[j] \in {"ended", "dead"} -> "ended"
                           [] OTHER                        -> "waiting"]
Service == INSTANCE BacktestService
             WITH run <- RunOf, card <- {}, Budget <- 1, TotalVram <- 0
UsesService == Service!ServiceSpec

(* A force stop that the worker can still hear, and that the handler of    *)
(* the submission does not overwrite, ends it, and the row keeps saying so. *)
StopIsObeyed ==
  \A j \in Jobs : (j \in heard /\ why[j] = "stopped" /\ post[j] = "answered")
                   ~> \/ task[j] = "ended" /\ why[j] = "stopped"
                      \/ task[j] = "dead" \/ ~Exists(j)

(* The row of a worker that the system killed does not stay running: the   *)
(* clean-up behind GET /active gets it.                                    *)
GhostsAreCleaned ==
  \A j \in Jobs : (task[j] = "dead" /\ status[j] = "running")
                   ~> (status[j] # "running")

-----------------------------------------------------------------------------
(* What the repository says and the code does not do.                      *)

(* _cleanup_stale_jobs does not fail a job whose worker is active.         *)
LiveIsNotOrphaned ==
  [][\A j \in Jobs : status[j] = "running" /\ Live(j) => why'[j] # "orphaned"]_vars

(* A job that was force-stopped does not come back.                        *)
StoppedStaysStopped ==
  [][\A j \in Jobs : status[j] = "failed" /\ why[j] = "stopped"
                      => status'[j] \in {"failed", "absent"}]_vars

(* A job reset to pending by the start-up is picked up again.              *)
ResetRunsAgain ==
  \A j \in Jobs : (status[j] = "pending" /\ why[j] = "restarted")
                   ~> (status[j] \in {"running", "absent"}
                       \/ why[j] \in {"stopped", "cleared"})
=============================================================================
