-------------------------- MODULE JobLifecycleProofs --------------------------
(***************************************************************************)
(* Proofs about JobLifecycle for every set of jobs, every configuration    *)
(* and every number of restarts and deaths: the types, that a stop which   *)
(* was heard stands, that a pending configuration is there once, that no   *)
(* row runs on its own, who may change the row of a finished job, and that *)
(* the rows implement BacktestService; and about EventStream for every     *)
(* number of events, size of the table, lost connections and reloads: the  *)
(* types, that the socket's loop, which counts what it sent while the      *)
(* table is trimmed by index, passes over nothing that is still there, and *)
(* that socket and polls together apply an event once.  Then about the     *)
(* worker itself: WslBridge, BacktestWorker, LogBuffer and the walk-forward *)
(* test, in the suite that MCBacktests makes of them, with its constants   *)
(* left open.                                                              *)
(***************************************************************************)
EXTENDS MCBacktests, FiniteSetTheorems, SequenceTheorems, TLAPS

Fresh    == {"new", "cleaning", "checking", "inserting", "created"}
Critical == {"cleaning", "checking", "inserting"}

(* Nobody has a job before the request that submits it hands it over.      *)
TaskAfterPost == \A j \in Jobs : post[j] \in Fresh => task[j] = "none"

(* The lock of create_job_atomic is held by one request.                   *)
OneCreates == \A j, k \in Jobs : post[j] \in Critical /\ post[k] \in Critical => j = k

(* Between the check for a duplicate and the insert no identical pending   *)
(* row appears, although other threads go on writing rows.                 *)
StillFirst ==
  KeysSorted => \A j, k \in Jobs : /\ post[j] = "inserting" /\ Config[j] = Config[k]
                                   => ~(status[k] = "pending" /\ why[k] = "none")

(* A worker that finds itself stopped was stopped in its loop.             *)
StopIsHeard ==
  \A j \in Jobs : task[j] = "loop" /\ status[j] = "failed" /\ why[j] = "stopped" => j \in heard

(* What a heard stop has written stays until the worker has seen it, or    *)
(* the row is gone and nobody writes it any more.                          *)
HeardStands ==
  \A j \in heard :
    /\ post[j] \in {"queued", "answered", "refused"}
    /\ task[j] \in {"loop", "complete", "fail", "stop", "ended", "dead"}
    /\ status[j] \in {"absent", "failed"}
    /\ task[j] = "loop" /\ status[j] = "failed" => why[j] = "stopped"
    /\ task[j] = "complete" => status[j] = "absent"

(* As NoGhostRunning, while the server stops as well.                      *)
NoGhostBefore ==
  server # "down" => \A j \in Jobs :
    status[j] = "running" => Live(j) \/ (task[j] = "dead" /\ deaths > 0)

Inv == /\ TypeOK /\ TaskAfterPost /\ OneCreates /\ StillFirst
       /\ (KeysSorted => PendingUnique) /\ StopIsHeard /\ HeardStands /\ NoGhostBefore

-------------------------------------------------------------------------------
(* Each part is kept by every step.                                        *)

(* Every writer of a row, a request, a worker or the server keeps the types.*)
LEMMA TypesKept ==
  ASSUME JobLifecycleAssumption, TypeOK, [Next]_vars
  PROVE  TypeOK'
<1> USE DEF JobLifecycleAssumption, TypeOK, Active, Final, Working, Exists, IsActive, rowVars, boundVars
<1>1. ASSUME NEW j \in Jobs, BeginCreate(j) PROVE TypeOK'
  BY <1>1 DEF BeginCreate, CleanSelect, StaleRows, GoPost
<1>2. ASSUME NEW j \in Jobs, CreateCleans(j) PROVE TypeOK'
  BY <1>2 DEF CreateCleans, CleanUpdate, WriteActive, Write, GoPost
<1>3. ASSUME NEW j \in Jobs, CheckDuplicate(j) PROVE TypeOK'
  BY <1>3 DEF CheckDuplicate, GoPost
<1>4. ASSUME NEW j \in Jobs, CreateRow(j) PROVE TypeOK'
  BY <1>4 DEF CreateRow, Insert, GoPost
<1>5. ASSUME NEW j \in Jobs, SubmitDispatches(j) PROVE TypeOK'
  BY <1>5 DEF SubmitDispatches, GoTask, GoPost
<1>6. ASSUME NEW j \in Jobs, SubmitQueues(j) PROVE TypeOK'
  BY <1>6 DEF SubmitQueues, GoTask, GoPost
<1>7. ASSUME NEW j \in Jobs, SubmitRefused(j) PROVE TypeOK'
  BY <1>7 DEF SubmitRefused, GoPost
<1>8. ASSUME NEW j \in Jobs, WriteQueued(j) PROVE TypeOK'
  BY <1>8 DEF WriteQueued, Write, GoPost
<1>9. ASSUME NEW j \in Jobs, Pump(j) PROVE TypeOK'
  BY <1>9 DEF Pump, Waits, GoTask
<1>10. ASSUME NEW j \in Jobs, Ensure(j) PROVE TypeOK'
  BY <1>10 DEF Ensure, Insert, GoTask
<1>11. ASSUME NEW j \in Jobs, MarkRunning(j) PROVE TypeOK'
  BY <1>11 DEF MarkRunning, Write, GoTask
<1>12. ASSUME NEW j \in Jobs, MarkRunningAgain(j) PROVE TypeOK'
  BY <1>12 DEF MarkRunningAgain, Write, GoTask
<1>13. ASSUME NEW j \in Jobs, CheckPoint(j) PROVE TypeOK'
  BY <1>13 DEF CheckPoint, GoTask, IsCancelled
<1>14. ASSUME NEW j \in Jobs, Finish(j) PROVE TypeOK'
  BY <1>14 DEF Finish, Write, GoTask
<1>15. ASSUME NEW j \in Jobs, WorkerDies(j) PROVE TypeOK'
  BY <1>15 DEF WorkerDies, GoTask, Live
<1>16. ASSUME NEW j \in Jobs, StopChecks(j) PROVE TypeOK'
  BY <1>16 DEF StopChecks
<1>17. ASSUME NEW j \in Jobs, StopWrites(j) PROVE TypeOK'
  BY <1>17 DEF StopWrites, WriteActive, Write
<1>18. ASSUME NEW j \in Jobs, DeleteJob(j) PROVE TypeOK'
  BY <1>18 DEF DeleteJob
<1>19. ASSUME NEW j \in Jobs, Age(j) PROVE TypeOK'
  BY <1>19 DEF Age
<1>20. ASSUME ListActive PROVE TypeOK'
  BY <1>20 DEF ListActive, CleanSelect, StaleRows
<1>21. ASSUME ListCleans PROVE TypeOK'
  BY <1>21 DEF ListCleans, CleanUpdate, WriteActive, Write
<1>22. ASSUME ClearQueue PROVE TypeOK'
  BY <1>22 DEF ClearQueue, WriteActive, Write
<1>23. ASSUME ShutDown PROVE TypeOK'
  BY <1>23 DEF ShutDown, Write
<1>24. ASSUME NEW S \in SUBSET Jobs, PowerOff(S) PROVE TypeOK'
  BY <1>24 DEF PowerOff, Live
<1>25. ASSUME StartUp PROVE TypeOK'
  BY <1>25 DEF StartUp, Write, RunningRows, Live
<1>26. CASE UNCHANGED vars
  BY <1>26 DEF vars
<1> QED BY <1>1, <1>2, <1>3, <1>4, <1>5, <1>6, <1>7, <1>8, <1>9, <1>10, <1>11, <1>12, <1>13, <1>14,
     <1>15, <1>16, <1>17, <1>18, <1>19, <1>20, <1>21, <1>22, <1>23, <1>24, <1>25, <1>26 DEF Next, PostStep, WorkerStep

(* Only the two answers of submit_or_queue hand a job over.                *)
LEMMA TaskKeepsAfterPost ==
  ASSUME JobLifecycleAssumption, TypeOK, TaskAfterPost, [Next]_vars
  PROVE  TaskAfterPost'
<1> USE DEF TypeOK, Active, Final, Working, Exists, IsActive, rowVars, boundVars, TaskAfterPost, Fresh
<1>1. ASSUME NEW j \in Jobs, BeginCreate(j) PROVE TaskAfterPost'
  BY <1>1 DEF BeginCreate, CleanSelect, StaleRows, GoPost
<1>2. ASSUME NEW j \in Jobs, CreateCleans(j) PROVE TaskAfterPost'
  BY <1>2 DEF CreateCleans, CleanUpdate, WriteActive, Write, GoPost
<1>3. ASSUME NEW j \in Jobs, CheckDuplicate(j) PROVE TaskAfterPost'
  BY <1>3 DEF CheckDuplicate, GoPost
<1>4. ASSUME NEW j \in Jobs, CreateRow(j) PROVE TaskAfterPost'
  BY <1>4 DEF CreateRow, Insert, GoPost
<1>5. ASSUME NEW j \in Jobs, SubmitDispatches(j) PROVE TaskAfterPost'
  BY <1>5 DEF SubmitDispatches, GoTask, GoPost
<1>6. ASSUME NEW j \in Jobs, SubmitQueues(j) PROVE TaskAfterPost'
  BY <1>6 DEF SubmitQueues, GoTask, GoPost
<1>7. ASSUME NEW j \in Jobs, SubmitRefused(j) PROVE TaskAfterPost'
  BY <1>7 DEF SubmitRefused, GoPost
<1>8. ASSUME NEW j \in Jobs, WriteQueued(j) PROVE TaskAfterPost'
  BY <1>8 DEF WriteQueued, Write, GoPost
<1>9. ASSUME NEW j \in Jobs, Pump(j) PROVE TaskAfterPost'
  BY <1>9 DEF Pump, Waits, GoTask
<1>10. ASSUME NEW j \in Jobs, Ensure(j) PROVE TaskAfterPost'
  BY <1>10 DEF Ensure, Insert, GoTask
<1>11. ASSUME NEW j \in Jobs, MarkRunning(j) PROVE TaskAfterPost'
  BY <1>11 DEF MarkRunning, Write, GoTask
<1>12. ASSUME NEW j \in Jobs, MarkRunningAgain(j) PROVE TaskAfterPost'
  BY <1>12 DEF MarkRunningAgain, Write, GoTask
<1>13. ASSUME NEW j \in Jobs, CheckPoint(j) PROVE TaskAfterPost'
  BY <1>13 DEF CheckPoint, GoTask, IsCancelled
<1>14. ASSUME NEW j \in Jobs, Finish(j) PROVE TaskAfterPost'
  BY <1>14 DEF Finish, Write, GoTask
<1>15. ASSUME NEW j \in Jobs, WorkerDies(j) PROVE TaskAfterPost'
  BY <1>15 DEF WorkerDies, GoTask, Live
<1>16. ASSUME NEW S \in SUBSET Jobs, PowerOff(S) PROVE TaskAfterPost'
  BY <1>16 DEF PowerOff, Live
<1>17. ASSUME StartUp PROVE TaskAfterPost'
  BY <1>17 DEF StartUp, Write, RunningRows, Live
<1>18. ASSUME NEW j \in Jobs, StopChecks(j) \/ StopWrites(j) \/ DeleteJob(j) \/ Age(j) PROVE TaskAfterPost'
  BY <1>18 DEF StopChecks, StopWrites, DeleteJob, Age
<1>19. ASSUME ListActive \/ ListCleans \/ ClearQueue \/ ShutDown PROVE TaskAfterPost'
  BY <1>19 DEF ListActive, ListCleans, ClearQueue, ShutDown
<1>20. CASE UNCHANGED vars
  BY <1>20 DEF vars
<1> QED BY <1>1, <1>2, <1>3, <1>4, <1>5, <1>6, <1>7, <1>8, <1>9, <1>10, <1>11, <1>12, <1>13, <1>14,
     <1>15, <1>16, <1>17, <1>18, <1>19, <1>20 DEF Next, PostStep, WorkerStep

(* A request enters create_job_atomic only when no other is in it.         *)
LEMMA LockKept ==
  ASSUME JobLifecycleAssumption, TypeOK, OneCreates, [Next]_vars
  PROVE  OneCreates'
<1> USE DEF TypeOK, Active, Final, Working, Exists, IsActive, rowVars, boundVars, OneCreates, Critical
<1>1. ASSUME NEW j \in Jobs, BeginCreate(j) PROVE OneCreates'
  BY <1>1 DEF BeginCreate, CleanSelect, StaleRows, GoPost, LockFree
<1>2. ASSUME NEW j \in Jobs, CreateCleans(j) PROVE OneCreates'
  BY <1>2 DEF CreateCleans, CleanUpdate, WriteActive, Write, GoPost
<1>3. ASSUME NEW j \in Jobs, CheckDuplicate(j) PROVE OneCreates'
  BY <1>3 DEF CheckDuplicate, GoPost
<1>4. ASSUME NEW j \in Jobs, CreateRow(j) PROVE OneCreates'
  BY <1>4 DEF CreateRow, Insert, GoPost
<1>5. ASSUME NEW j \in Jobs, SubmitDispatches(j) PROVE OneCreates'
  BY <1>5 DEF SubmitDispatches, GoTask, GoPost
<1>6. ASSUME NEW j \in Jobs, SubmitQueues(j) PROVE OneCreates'
  BY <1>6 DEF SubmitQueues, GoTask, GoPost
<1>7. ASSUME NEW j \in Jobs, SubmitRefused(j) PROVE OneCreates'
  BY <1>7 DEF SubmitRefused, GoPost
<1>8. ASSUME NEW j \in Jobs, WriteQueued(j) PROVE OneCreates'
  BY <1>8 DEF WriteQueued, Write, GoPost
<1>9. ASSUME NEW S \in SUBSET Jobs, PowerOff(S) PROVE OneCreates'
  BY <1>9 DEF PowerOff, Live
<1>10. ASSUME NEW j \in Jobs, Pump(j) \/ Ensure(j) \/ MarkRunning(j) \/ MarkRunningAgain(j)
                              \/ CheckPoint(j) \/ Finish(j) \/ WorkerDies(j) \/ StopChecks(j)
                              \/ StopWrites(j) \/ DeleteJob(j) \/ Age(j) PROVE OneCreates'
  BY <1>10 DEF Pump, GoTask, Ensure, MarkRunning, MarkRunningAgain, CheckPoint, Finish, WorkerDies,
       StopChecks, StopWrites, DeleteJob, Age
<1>11. ASSUME ListActive \/ ListCleans \/ ClearQueue \/ ShutDown \/ StartUp PROVE OneCreates'
  BY <1>11 DEF ListActive, ListCleans, ClearQueue, ShutDown, StartUp
<1>12. CASE UNCHANGED vars
  BY <1>12 DEF vars
<1> QED BY <1>1, <1>2, <1>3, <1>4, <1>5, <1>6, <1>7, <1>8, <1>9, <1>10, <1>11, <1>12 DEF Next, PostStep, WorkerStep

(* Only the insert of create_job_atomic writes a pending row without an    *)
(* error, and the lock keeps the inserts apart.                            *)
LEMMA FirstKept ==
  ASSUME JobLifecycleAssumption, TypeOK, OneCreates, StillFirst, [Next]_vars
  PROVE  StillFirst'
<1> USE DEF TypeOK, Active, Final, Working, Exists, IsActive, rowVars, boundVars, StillFirst, OneCreates, Critical
<1>1. ASSUME NEW j \in Jobs, BeginCreate(j) PROVE StillFirst'
  BY <1>1 DEF BeginCreate, CleanSelect, StaleRows, GoPost
<1>2. ASSUME NEW j \in Jobs, CreateCleans(j) PROVE StillFirst'
  BY <1>2 DEF CreateCleans, CleanUpdate, WriteActive, Write, GoPost
<1>3. ASSUME NEW j \in Jobs, CheckDuplicate(j) PROVE StillFirst'
  BY <1>3 DEF CheckDuplicate, GoPost, SameText
<1>4. ASSUME NEW j \in Jobs, CreateRow(j) PROVE StillFirst'
  BY <1>4 DEF CreateRow, Insert, GoPost
<1>5. ASSUME NEW j \in Jobs, SubmitDispatches(j) PROVE StillFirst'
  BY <1>5 DEF SubmitDispatches, GoTask, GoPost
<1>6. ASSUME NEW j \in Jobs, SubmitQueues(j) PROVE StillFirst'
  BY <1>6 DEF SubmitQueues, GoTask, GoPost
<1>7. ASSUME NEW j \in Jobs, SubmitRefused(j) PROVE StillFirst'
  BY <1>7 DEF SubmitRefused, GoPost
<1>8. ASSUME NEW j \in Jobs, WriteQueued(j) PROVE StillFirst'
  BY <1>8 DEF WriteQueued, Write, GoPost
<1>9. ASSUME NEW j \in Jobs, Ensure(j) PROVE StillFirst'
  BY <1>9 DEF Ensure, Insert, GoTask
<1>10. ASSUME NEW j \in Jobs, MarkRunning(j) PROVE StillFirst'
  BY <1>10 DEF MarkRunning, Write, GoTask
<1>11. ASSUME NEW j \in Jobs, MarkRunningAgain(j) PROVE StillFirst'
  BY <1>11 DEF MarkRunningAgain, Write, GoTask
<1>12. ASSUME NEW j \in Jobs, Finish(j) PROVE StillFirst'
  BY <1>12 DEF Finish, Write, GoTask
<1>13. ASSUME NEW j \in Jobs, StopWrites(j) PROVE StillFirst'
  BY <1>13 DEF StopWrites, WriteActive, Write
<1>14. ASSUME NEW j \in Jobs, DeleteJob(j) PROVE StillFirst'
  BY <1>14 DEF DeleteJob
<1>15. ASSUME ListCleans PROVE StillFirst'
  BY <1>15 DEF ListCleans, CleanUpdate, WriteActive, Write
<1>16. ASSUME ClearQueue PROVE StillFirst'
  BY <1>16 DEF ClearQueue, WriteActive, Write
<1>17. ASSUME ShutDown PROVE StillFirst'
  BY <1>17 DEF ShutDown, Write
<1>18. ASSUME NEW S \in SUBSET Jobs, PowerOff(S) PROVE StillFirst'
  BY <1>18 DEF PowerOff, Live
<1>19. ASSUME StartUp PROVE StillFirst'
  BY <1>19 DEF StartUp, Write, RunningRows, Live
<1>20. ASSUME NEW j \in Jobs, Pump(j) \/ CheckPoint(j) \/ WorkerDies(j) \/ StopChecks(j)
                              \/ Age(j) PROVE StillFirst'
  BY <1>20 DEF Pump, GoTask, CheckPoint, WorkerDies, StopChecks, Age
<1>21. ASSUME ListActive PROVE StillFirst'
  BY <1>21 DEF ListActive
<1>22. CASE UNCHANGED vars
  BY <1>22 DEF vars
<1> QED BY <1>1, <1>2, <1>3, <1>4, <1>5, <1>6, <1>7, <1>8, <1>9, <1>10, <1>11, <1>12, <1>13, <1>14,
     <1>15, <1>16, <1>17, <1>18, <1>19, <1>20, <1>21, <1>22 DEF Next, PostStep, WorkerStep

(* The insert finds no identical pending row.                              *)
LEMMA UniqueKept ==
  ASSUME JobLifecycleAssumption, TypeOK, StillFirst, KeysSorted => PendingUnique, [Next]_vars
  PROVE  (KeysSorted => PendingUnique)'
<1> USE DEF TypeOK, Active, Final, Working, Exists, IsActive, rowVars, boundVars, StillFirst, PendingUnique
<1>1. ASSUME NEW j \in Jobs, CreateCleans(j) PROVE (KeysSorted => PendingUnique)'
  BY <1>1 DEF CreateCleans, CleanUpdate, WriteActive, Write, GoPost
<1>2. ASSUME NEW j \in Jobs, CreateRow(j) PROVE (KeysSorted => PendingUnique)'
  BY <1>2 DEF CreateRow, Insert, GoPost
<1>3. ASSUME NEW j \in Jobs, WriteQueued(j) PROVE (KeysSorted => PendingUnique)'
  BY <1>3 DEF WriteQueued, Write, GoPost
<1>4. ASSUME NEW j \in Jobs, Ensure(j) PROVE (KeysSorted => PendingUnique)'
  BY <1>4 DEF Ensure, Insert, GoTask
<1>5. ASSUME NEW j \in Jobs, MarkRunning(j) PROVE (KeysSorted => PendingUnique)'
  BY <1>5 DEF MarkRunning, Write, GoTask
<1>6. ASSUME NEW j \in Jobs, MarkRunningAgain(j) PROVE (KeysSorted => PendingUnique)'
  BY <1>6 DEF MarkRunningAgain, Write, GoTask
<1>7. ASSUME NEW j \in Jobs, Finish(j) PROVE (KeysSorted => PendingUnique)'
  BY <1>7 DEF Finish, Write, GoTask
<1>8. ASSUME NEW j \in Jobs, StopWrites(j) PROVE (KeysSorted => PendingUnique)'
  BY <1>8 DEF StopWrites, WriteActive, Write
<1>9. ASSUME NEW j \in Jobs, DeleteJob(j) PROVE (KeysSorted => PendingUnique)'
  BY <1>9 DEF DeleteJob
<1>10. ASSUME ListCleans PROVE (KeysSorted => PendingUnique)'
  BY <1>10 DEF ListCleans, CleanUpdate, WriteActive, Write
<1>11. ASSUME ClearQueue PROVE (KeysSorted => PendingUnique)'
  BY <1>11 DEF ClearQueue, WriteActive, Write
<1>12. ASSUME ShutDown PROVE (KeysSorted => PendingUnique)'
  BY <1>12 DEF ShutDown, Write
<1>13. ASSUME StartUp PROVE (KeysSorted => PendingUnique)'
  BY <1>13 DEF StartUp, Write, RunningRows, Live
<1>14. ASSUME NEW j \in Jobs, BeginCreate(j) \/ CheckDuplicate(j) \/ SubmitDispatches(j)
                              \/ SubmitQueues(j) \/ SubmitRefused(j) \/ Pump(j) \/ CheckPoint(j)
                              \/ WorkerDies(j) \/ StopChecks(j) \/ Age(j) PROVE (KeysSorted => PendingUnique)'
  BY <1>14 DEF BeginCreate, GoPost, CheckDuplicate, SubmitDispatches, GoTask, SubmitQueues,
       SubmitRefused, Pump, CheckPoint, WorkerDies, StopChecks, Age
<1>15. ASSUME ListActive PROVE (KeysSorted => PendingUnique)'
  BY <1>15 DEF ListActive
<1>16. CASE UNCHANGED vars
  BY <1>16 DEF vars
<1>17. ASSUME NEW S \in SUBSET Jobs, PowerOff(S) PROVE (KeysSorted => PendingUnique)'
  BY <1>17 DEF PowerOff
<1> QED BY <1>1, <1>2, <1>3, <1>4, <1>5, <1>6, <1>7, <1>8, <1>9, <1>10, <1>11, <1>12, <1>13, <1>14,
     <1>15, <1>16, <1>17 DEF Next, PostStep, WorkerStep

(* A worker enters its loop with a row that says running, or without one.  *)
LEMMA HeardKept ==
  ASSUME JobLifecycleAssumption, TypeOK, StopIsHeard, [Next]_vars
  PROVE  StopIsHeard'
<1> USE DEF TypeOK, Active, Final, Working, Exists, IsActive, rowVars, boundVars, StopIsHeard
<1>1. ASSUME NEW j \in Jobs, CreateCleans(j) PROVE StopIsHeard'
  BY <1>1 DEF CreateCleans, CleanUpdate, WriteActive, Write, GoPost
<1>2. ASSUME NEW j \in Jobs, CreateRow(j) PROVE StopIsHeard'
  BY <1>2 DEF CreateRow, Insert, GoPost
<1>3. ASSUME NEW j \in Jobs, SubmitDispatches(j) PROVE StopIsHeard'
  BY <1>3 DEF SubmitDispatches, GoTask, GoPost
<1>4. ASSUME NEW j \in Jobs, SubmitQueues(j) PROVE StopIsHeard'
  BY <1>4 DEF SubmitQueues, GoTask, GoPost
<1>5. ASSUME NEW j \in Jobs, WriteQueued(j) PROVE StopIsHeard'
  BY <1>5 DEF WriteQueued, Write, GoPost
<1>6. ASSUME NEW j \in Jobs, Pump(j) PROVE StopIsHeard'
  BY <1>6 DEF Pump, Waits, GoTask
<1>7. ASSUME NEW j \in Jobs, Ensure(j) PROVE StopIsHeard'
  BY <1>7 DEF Ensure, Insert, GoTask
<1>8. ASSUME NEW j \in Jobs, MarkRunning(j) PROVE StopIsHeard'
  BY <1>8 DEF MarkRunning, Write, GoTask
<1>9. ASSUME NEW j \in Jobs, MarkRunningAgain(j) PROVE StopIsHeard'
  BY <1>9 DEF MarkRunningAgain, Write, GoTask
<1>10. ASSUME NEW j \in Jobs, CheckPoint(j) PROVE StopIsHeard'
  BY <1>10 DEF CheckPoint, GoTask, IsCancelled
<1>11. ASSUME NEW j \in Jobs, Finish(j) PROVE StopIsHeard'
  BY <1>11 DEF Finish, Write, GoTask
<1>12. ASSUME NEW j \in Jobs, WorkerDies(j) PROVE StopIsHeard'
  BY <1>12 DEF WorkerDies, GoTask, Live
<1>13. ASSUME NEW j \in Jobs, StopWrites(j) PROVE StopIsHeard'
  BY <1>13 DEF StopWrites, WriteActive, Write
<1>14. ASSUME NEW j \in Jobs, DeleteJob(j) PROVE StopIsHeard'
  BY <1>14 DEF DeleteJob
<1>15. ASSUME ListCleans PROVE StopIsHeard'
  BY <1>15 DEF ListCleans, CleanUpdate, WriteActive, Write
<1>16. ASSUME ClearQueue PROVE StopIsHeard'
  BY <1>16 DEF ClearQueue, WriteActive, Write
<1>17. ASSUME ShutDown PROVE StopIsHeard'
  BY <1>17 DEF ShutDown, Write
<1>18. ASSUME NEW S \in SUBSET Jobs, PowerOff(S) PROVE StopIsHeard'
  BY <1>18 DEF PowerOff, Live
<1>19. ASSUME StartUp PROVE StopIsHeard'
  BY <1>19 DEF StartUp, Write, RunningRows, Live
<1>20. ASSUME NEW j \in Jobs, BeginCreate(j) \/ CheckDuplicate(j) \/ SubmitRefused(j)
                              \/ StopChecks(j) \/ Age(j) PROVE StopIsHeard'
  BY <1>20 DEF BeginCreate, GoPost, CheckDuplicate, SubmitRefused, StopChecks, Age
<1>21. ASSUME ListActive PROVE StopIsHeard'
  BY <1>21 DEF ListActive
<1>22. CASE UNCHANGED vars
  BY <1>22 DEF vars
<1> QED BY <1>1, <1>2, <1>3, <1>4, <1>5, <1>6, <1>7, <1>8, <1>9, <1>10, <1>11, <1>12, <1>13, <1>14,
     <1>15, <1>16, <1>17, <1>18, <1>19, <1>20, <1>21, <1>22 DEF Next, PostStep, WorkerStep

(* After a heard stop only a row that is active is written, or by the      *)
(* worker as the stop makes it, or by the request that queued the job,     *)
(* which takes the stop back.                                              *)
LEMMA StopStands ==
  ASSUME JobLifecycleAssumption, TypeOK, TaskAfterPost, StopIsHeard, HeardStands, [Next]_vars
  PROVE  HeardStands'
<1> USE DEF TypeOK, Active, Final, Working, Exists, IsActive, rowVars, boundVars, TaskAfterPost, Fresh, StopIsHeard, HeardStands
<1>1. ASSUME NEW j \in Jobs, BeginCreate(j) PROVE HeardStands'
  BY <1>1 DEF BeginCreate, CleanSelect, StaleRows, GoPost
<1>2. ASSUME NEW j \in Jobs, CreateCleans(j) PROVE HeardStands'
  BY <1>2 DEF CreateCleans, CleanUpdate, WriteActive, Write, GoPost
<1>3. ASSUME NEW j \in Jobs, CheckDuplicate(j) PROVE HeardStands'
  BY <1>3 DEF CheckDuplicate, GoPost
<1>4. ASSUME NEW j \in Jobs, CreateRow(j) PROVE HeardStands'
  BY <1>4 DEF CreateRow, Insert, GoPost
<1>5. ASSUME NEW j \in Jobs, SubmitDispatches(j) PROVE HeardStands'
  BY <1>5 DEF SubmitDispatches, GoTask, GoPost
<1>6. ASSUME NEW j \in Jobs, SubmitQueues(j) PROVE HeardStands'
  BY <1>6 DEF SubmitQueues, GoTask, GoPost
<1>7. ASSUME NEW j \in Jobs, SubmitRefused(j) PROVE HeardStands'
  BY <1>7 DEF SubmitRefused, GoPost
<1>8. ASSUME NEW j \in Jobs, WriteQueued(j) PROVE HeardStands'
  BY <1>8 DEF WriteQueued, Write, GoPost
<1>9. ASSUME NEW j \in Jobs, Pump(j) PROVE HeardStands'
  BY <1>9 DEF Pump, Waits, GoTask
<1>10. ASSUME NEW j \in Jobs, Ensure(j) PROVE HeardStands'
  BY <1>10 DEF Ensure, Insert, GoTask
<1>11. ASSUME NEW j \in Jobs, MarkRunning(j) PROVE HeardStands'
  BY <1>11 DEF MarkRunning, Write, GoTask
<1>12. ASSUME NEW j \in Jobs, MarkRunningAgain(j) PROVE HeardStands'
  BY <1>12 DEF MarkRunningAgain, Write, GoTask
<1>13. ASSUME NEW j \in Jobs, CheckPoint(j) PROVE HeardStands'
  BY <1>13 DEF CheckPoint, GoTask, IsCancelled
<1>14. ASSUME NEW j \in Jobs, Finish(j) PROVE HeardStands'
  BY <1>14 DEF Finish, Write, GoTask
<1>15. ASSUME NEW j \in Jobs, WorkerDies(j) PROVE HeardStands'
  BY <1>15 DEF WorkerDies, GoTask, Live
<1>16. ASSUME NEW j \in Jobs, StopWrites(j) PROVE HeardStands'
  BY <1>16 DEF StopWrites, WriteActive, Write
<1>17. ASSUME NEW j \in Jobs, DeleteJob(j) PROVE HeardStands'
  BY <1>17 DEF DeleteJob
<1>18. ASSUME ListCleans PROVE HeardStands'
  BY <1>18 DEF ListCleans, CleanUpdate, WriteActive, Write
<1>19. ASSUME ClearQueue PROVE HeardStands'
  BY <1>19 DEF ClearQueue, WriteActive, Write
<1>20. ASSUME ShutDown PROVE HeardStands'
  BY <1>20 DEF ShutDown, Write
<1>21. ASSUME NEW S \in SUBSET Jobs, PowerOff(S) PROVE HeardStands'
  BY <1>21 DEF PowerOff, Live
<1>22. ASSUME StartUp PROVE HeardStands'
  BY <1>22 DEF StartUp, Write, RunningRows, Live
<1>23. ASSUME NEW j \in Jobs, StopChecks(j) \/ Age(j) PROVE HeardStands'
  BY <1>23 DEF StopChecks, Age
<1>24. ASSUME ListActive PROVE HeardStands'
  BY <1>24 DEF ListActive
<1>25. CASE UNCHANGED vars
  BY <1>25 DEF vars
<1> QED BY <1>1, <1>2, <1>3, <1>4, <1>5, <1>6, <1>7, <1>8, <1>9, <1>10, <1>11, <1>12, <1>13, <1>14,
     <1>15, <1>16, <1>17, <1>18, <1>19, <1>20, <1>21, <1>22, <1>23, <1>24, <1>25 DEF Next, PostStep, WorkerStep

(* Whoever takes the worker of a running row away leaves it dead by the    *)
(* system, or takes the server down, whose start writes the row.           *)
LEMMA RunningKept ==
  ASSUME JobLifecycleAssumption, TypeOK, NoGhostBefore, TaskAfterPost, [Next]_vars
  PROVE  NoGhostBefore'
<1> USE DEF TypeOK, Active, Final, Working, Exists, IsActive, rowVars, boundVars, NoGhostBefore, Live, TaskAfterPost, Fresh
<1>1. ASSUME NEW j \in Jobs, CreateCleans(j) PROVE NoGhostBefore'
  BY <1>1 DEF CreateCleans, CleanUpdate, WriteActive, Write, GoPost
<1>2. ASSUME NEW j \in Jobs, CreateRow(j) PROVE NoGhostBefore'
  BY <1>2 DEF CreateRow, Insert, GoPost
<1>3. ASSUME NEW j \in Jobs, SubmitDispatches(j) PROVE NoGhostBefore'
  BY <1>3 DEF SubmitDispatches, GoTask, GoPost
<1>4. ASSUME NEW j \in Jobs, SubmitQueues(j) PROVE NoGhostBefore'
  BY <1>4 DEF SubmitQueues, GoTask, GoPost
<1>5. ASSUME NEW j \in Jobs, WriteQueued(j) PROVE NoGhostBefore'
  BY <1>5 DEF WriteQueued, Write, GoPost
<1>6. ASSUME NEW j \in Jobs, Pump(j) PROVE NoGhostBefore'
  BY <1>6 DEF Pump, Waits, GoTask
<1>7. ASSUME NEW j \in Jobs, Ensure(j) PROVE NoGhostBefore'
  BY <1>7 DEF Ensure, Insert, GoTask
<1>8. ASSUME NEW j \in Jobs, MarkRunning(j) PROVE NoGhostBefore'
  BY <1>8 DEF MarkRunning, Write, GoTask
<1>9. ASSUME NEW j \in Jobs, MarkRunningAgain(j) PROVE NoGhostBefore'
  BY <1>9 DEF MarkRunningAgain, Write, GoTask
<1>10. ASSUME NEW j \in Jobs, CheckPoint(j) PROVE NoGhostBefore'
  BY <1>10 DEF CheckPoint, GoTask, IsCancelled
<1>11. ASSUME NEW j \in Jobs, Finish(j) PROVE NoGhostBefore'
  BY <1>11 DEF Finish, Write, GoTask
<1>12. ASSUME NEW j \in Jobs, WorkerDies(j) PROVE NoGhostBefore'
  BY <1>12 DEF WorkerDies, GoTask
<1>13. ASSUME NEW j \in Jobs, StopWrites(j) PROVE NoGhostBefore'
  BY <1>13 DEF StopWrites, WriteActive, Write
<1>14. ASSUME NEW j \in Jobs, DeleteJob(j) PROVE NoGhostBefore'
  BY <1>14 DEF DeleteJob
<1>15. ASSUME ListCleans PROVE NoGhostBefore'
  BY <1>15 DEF ListCleans, CleanUpdate, WriteActive, Write
<1>16. ASSUME ClearQueue PROVE NoGhostBefore'
  BY <1>16 DEF ClearQueue, WriteActive, Write
<1>17. ASSUME ShutDown PROVE NoGhostBefore'
  BY <1>17 DEF ShutDown, Write
<1>18. ASSUME NEW S \in SUBSET Jobs, PowerOff(S) PROVE NoGhostBefore'
  BY <1>18 DEF PowerOff
<1>19. ASSUME StartUp PROVE NoGhostBefore'
  BY <1>19 DEF StartUp, Write, RunningRows
<1>20. ASSUME NEW j \in Jobs, BeginCreate(j) \/ CheckDuplicate(j) \/ SubmitRefused(j)
                              \/ StopChecks(j) \/ Age(j) PROVE NoGhostBefore'
  BY <1>20 DEF BeginCreate, GoPost, CheckDuplicate, SubmitRefused, StopChecks, Age
<1>21. ASSUME ListActive PROVE NoGhostBefore'
  BY <1>21 DEF ListActive
<1>22. CASE UNCHANGED vars
  BY <1>22 DEF vars
<1> QED BY <1>1, <1>2, <1>3, <1>4, <1>5, <1>6, <1>7, <1>8, <1>9, <1>10, <1>11, <1>12, <1>13, <1>14,
     <1>15, <1>16, <1>17, <1>18, <1>19, <1>20, <1>21, <1>22 DEF Next, PostStep, WorkerStep

-------------------------------------------------------------------------------
(* The inductive invariant.                                                *)

LEMMA InitInv == JobLifecycleAssumption /\ Init => Inv
<1> SUFFICES ASSUME JobLifecycleAssumption, Init PROVE Inv
  OBVIOUS
<1>1. TypeOK
  BY DEF JobLifecycleAssumption, Init, TypeOK, Active, Final, Working
<1>2. TaskAfterPost /\ OneCreates /\ StillFirst /\ StopIsHeard /\ HeardStands
  BY DEF Init, TaskAfterPost, OneCreates, StillFirst, StopIsHeard, HeardStands, Critical
<1>3. (KeysSorted => PendingUnique) /\ NoGhostBefore
  BY DEF Init, PendingUnique, NoGhostBefore
<1> QED BY <1>1, <1>2, <1>3 DEF Inv

LEMMA NextInv == JobLifecycleAssumption /\ Inv /\ [Next]_vars => Inv'
<1> SUFFICES ASSUME JobLifecycleAssumption, Inv, [Next]_vars PROVE Inv'
  OBVIOUS
<1>1. TypeOK /\ TaskAfterPost /\ OneCreates /\ StillFirst /\ StopIsHeard /\ HeardStands
  BY DEF Inv
<1>2. (KeysSorted => PendingUnique) /\ NoGhostBefore
  BY DEF Inv
<1>3. TypeOK' /\ TaskAfterPost' /\ OneCreates' /\ StillFirst'
  BY <1>1, TypesKept, TaskKeepsAfterPost, LockKept, FirstKept
<1>4. (KeysSorted => PendingUnique)' /\ NoGhostBefore'
  BY <1>1, <1>2, UniqueKept, RunningKept
<1>5. StopIsHeard' /\ HeardStands'
  BY <1>1, HeardKept, StopStands
<1> QED BY <1>3, <1>4, <1>5 DEF Inv

(* The invariant is inductive, for any jobs, restarts and deaths.          *)
THEOREM Inductive == ASSUME JobLifecycleAssumption PROVE Spec => []Inv
<1>1. Init => Inv
  BY InitInv
<1>2. Inv /\ [Next]_vars => Inv'
  BY NextInv
<1> QED BY <1>1, <1>2, PTL DEF Spec

(* The columns, the requests and the tasks keep their types.               *)
THEOREM TypesHold == ASSUME JobLifecycleAssumption PROVE Spec => []TypeOK
<1>1. Inv => TypeOK
  BY DEF Inv
<1> QED BY <1>1, Inductive, PTL

(* A heard stop is not answered by a completed row, a pending              *)
(* configuration is there once, and no row is running that nobody runs.    *)
THEOREM RowsAreTrue == ASSUME JobLifecycleAssumption PROVE Spec => []RowsHold
<1>1. Inv => RowsHold
  <2> SUFFICES ASSUME Inv PROVE RowsHold
    OBVIOUS
  <2>1. StoppedNeverCompletes
    BY DEF Inv, HeardStands, StoppedNeverCompletes
  <2>2. KeysSorted => PendingUnique
    BY DEF Inv
  <2>3. NoGhostRunning
    BY DEF Inv, NoGhostBefore, NoGhostRunning
  <2> QED BY <2>1, <2>2, <2>3 DEF RowsHold
<1> QED BY <1>1, Inductive, PTL

-------------------------------------------------------------------------------
(* What a step may never do.                                               *)

FinishedStep ==
  \A j \in Jobs :
    task[j] = "ended" /\ post[j] = "answered" /\ status[j] \in Final
    => status'[j] \in {status[j], "absent"} /\ (Exists(j)' => why'[j] = why[j])

OwnStopStep == \A j \in Jobs : task[j] = "loop" /\ task'[j] = "stop" => j \in heard

(* Every write but those of the job's own request and worker asks whether  *)
(* the row is active.                                                      *)
LEMMA FinishedKept ==
  ASSUME JobLifecycleAssumption, TypeOK, [Next]_vars
  PROVE  FinishedStep
<1> USE DEF TypeOK, Active, Final, Working, Exists, IsActive, rowVars, boundVars, FinishedStep
<1>1. ASSUME NEW j \in Jobs, CreateCleans(j) PROVE FinishedStep
  BY <1>1 DEF CreateCleans, CleanUpdate, WriteActive, Write, GoPost
<1>2. ASSUME NEW j \in Jobs, CreateRow(j) PROVE FinishedStep
  BY <1>2 DEF CreateRow, Insert, GoPost
<1>3. ASSUME NEW j \in Jobs, WriteQueued(j) PROVE FinishedStep
  BY <1>3 DEF WriteQueued, Write, GoPost
<1>4. ASSUME NEW j \in Jobs, Ensure(j) PROVE FinishedStep
  BY <1>4 DEF Ensure, Insert, GoTask
<1>5. ASSUME NEW j \in Jobs, MarkRunning(j) PROVE FinishedStep
  BY <1>5 DEF MarkRunning, Write, GoTask
<1>6. ASSUME NEW j \in Jobs, MarkRunningAgain(j) PROVE FinishedStep
  BY <1>6 DEF MarkRunningAgain, Write, GoTask
<1>7. ASSUME NEW j \in Jobs, Finish(j) PROVE FinishedStep
  BY <1>7 DEF Finish, Write, GoTask
<1>8. ASSUME NEW j \in Jobs, StopWrites(j) PROVE FinishedStep
  BY <1>8 DEF StopWrites, WriteActive, Write
<1>9. ASSUME NEW j \in Jobs, DeleteJob(j) PROVE FinishedStep
  BY <1>9 DEF DeleteJob
<1>10. ASSUME ListCleans PROVE FinishedStep
  BY <1>10 DEF ListCleans, CleanUpdate, WriteActive, Write
<1>11. ASSUME ClearQueue PROVE FinishedStep
  BY <1>11 DEF ClearQueue, WriteActive, Write
<1>12. ASSUME ShutDown PROVE FinishedStep
  BY <1>12 DEF ShutDown, Write
<1>13. ASSUME StartUp PROVE FinishedStep
  BY <1>13 DEF StartUp, Write, RunningRows, Live
<1>14. ASSUME NEW j \in Jobs, BeginCreate(j) \/ CheckDuplicate(j) \/ SubmitDispatches(j)
                              \/ SubmitQueues(j) \/ SubmitRefused(j) \/ Pump(j) \/ CheckPoint(j)
                              \/ WorkerDies(j) \/ StopChecks(j) \/ Age(j) PROVE FinishedStep
  BY <1>14 DEF BeginCreate, GoPost, CheckDuplicate, SubmitDispatches, GoTask, SubmitQueues,
       SubmitRefused, Pump, CheckPoint, WorkerDies, StopChecks, Age
<1>15. ASSUME ListActive PROVE FinishedStep
  BY <1>15 DEF ListActive
<1>16. CASE UNCHANGED vars
  BY <1>16 DEF vars
<1>17. ASSUME NEW S \in SUBSET Jobs, PowerOff(S) PROVE FinishedStep
  BY <1>17 DEF PowerOff
<1> QED BY <1>1, <1>2, <1>3, <1>4, <1>5, <1>6, <1>7, <1>8, <1>9, <1>10, <1>11, <1>12, <1>13, <1>14,
     <1>15, <1>16, <1>17 DEF Next, PostStep, WorkerStep

(* The check points are where a worker stops.                              *)
LEMMA OwnStops ==
  ASSUME JobLifecycleAssumption, TypeOK, StopIsHeard, [Next]_vars
  PROVE  OwnStopStep
<1> USE DEF TypeOK, Active, Final, Working, Exists, IsActive, rowVars, boundVars, StopIsHeard, OwnStopStep
<1>1. ASSUME NEW j \in Jobs, SubmitDispatches(j) PROVE OwnStopStep
  BY <1>1 DEF SubmitDispatches, GoTask, GoPost
<1>2. ASSUME NEW j \in Jobs, SubmitQueues(j) PROVE OwnStopStep
  BY <1>2 DEF SubmitQueues, GoTask, GoPost
<1>3. ASSUME NEW j \in Jobs, Pump(j) PROVE OwnStopStep
  BY <1>3 DEF Pump, Waits, GoTask
<1>4. ASSUME NEW j \in Jobs, Ensure(j) PROVE OwnStopStep
  BY <1>4 DEF Ensure, Insert, GoTask
<1>5. ASSUME NEW j \in Jobs, MarkRunning(j) PROVE OwnStopStep
  BY <1>5 DEF MarkRunning, Write, GoTask
<1>6. ASSUME NEW j \in Jobs, MarkRunningAgain(j) PROVE OwnStopStep
  BY <1>6 DEF MarkRunningAgain, Write, GoTask
<1>7. ASSUME NEW j \in Jobs, CheckPoint(j) PROVE OwnStopStep
  BY <1>7 DEF CheckPoint, GoTask, IsCancelled
<1>8. ASSUME NEW j \in Jobs, Finish(j) PROVE OwnStopStep
  BY <1>8 DEF Finish, Write, GoTask
<1>9. ASSUME NEW j \in Jobs, WorkerDies(j) PROVE OwnStopStep
  BY <1>9 DEF WorkerDies, GoTask, Live
<1>10. ASSUME NEW S \in SUBSET Jobs, PowerOff(S) PROVE OwnStopStep
  BY <1>10 DEF PowerOff, Live
<1>11. ASSUME StartUp PROVE OwnStopStep
  BY <1>11 DEF StartUp, Write, RunningRows, Live
<1>12. ASSUME NEW j \in Jobs, BeginCreate(j) \/ CreateCleans(j) \/ CheckDuplicate(j)
                              \/ CreateRow(j) \/ SubmitRefused(j) \/ WriteQueued(j)
                              \/ StopChecks(j) \/ StopWrites(j) \/ DeleteJob(j) \/ Age(j) PROVE OwnStopStep
  BY <1>12 DEF BeginCreate, GoPost, CreateCleans, CheckDuplicate, CreateRow, SubmitRefused,
       WriteQueued, StopChecks, StopWrites, DeleteJob, Age
<1>13. ASSUME ListActive \/ ListCleans \/ ClearQueue \/ ShutDown PROVE OwnStopStep
  BY <1>13 DEF ListActive, ListCleans, ClearQueue, ShutDown
<1>14. CASE UNCHANGED vars
  BY <1>14 DEF vars
<1> QED BY <1>1, <1>2, <1>3, <1>4, <1>5, <1>6, <1>7, <1>8, <1>9, <1>10, <1>11, <1>12, <1>13, <1>14 DEF Next, PostStep, WorkerStep

(* A worker is stopped by the stop of its own job only, and what a         *)
(* finished worker wrote is changed by a deletion only.                    *)
THEOREM StopsStand == ASSUME JobLifecycleAssumption PROVE Spec => StopsHold
<1>1. Inv /\ [Next]_vars => FinishedStep /\ OwnStopStep
  BY FinishedKept, OwnStops DEF Inv
<1>2. Spec => [][FinishedStep]_vars /\ [][OwnStopStep]_vars
  BY <1>1, Inductive, PTL DEF Spec
<1> QED BY <1>2 DEF StopsHold, FinishedStays, OnlyItsStopStops, FinishedStep, OwnStopStep

-------------------------------------------------------------------------------
(* The rows implement the service.                                         *)

LEMMA ServiceStarts == Init => Service!ServiceInit
  BY DEF Init, Service!ServiceInit, RunOf, Live, Working

(* One job moves in the service, or none.                                  *)
LEMMA RunMoves ==
  ASSUME TypeOK, NEW j \in Jobs, NEW l \in {"none", "waiting", "ended", "dead", "lost"} \cup Working,
         task' = [task EXCEPT ![j] = l]
  PROVE  RunOf' = [RunOf EXCEPT ![j] = IF l \in Working THEN "running"
                                       ELSE IF l \in {"ended", "dead"} THEN "ended" ELSE "waiting"]
  BY DEF TypeOK, RunOf, Live, Working

LEMMA ServiceSteps ==
  ASSUME TypeOK, TaskAfterPost, [Next]_vars
  PROVE  [Service!ServiceNext]_<<RunOf, {}>>
<1> DEFINE Steps == [Service!ServiceNext]_<<RunOf, {}>>
<1> USE DEF TypeOK, Working
<1>1. ASSUME UNCHANGED task PROVE Steps
  BY <1>1 DEF RunOf, Live
<1>2. ASSUME NEW j \in Jobs, RunOf[j] = "waiting", GoTask(j, "ensure") PROVE Steps
  <2>1. RunOf' = [RunOf EXCEPT ![j] = "running"]
    BY <1>2, RunMoves DEF GoTask
  <2>2. Service!StartOnCpu(j)
    BY <1>2, <2>1 DEF Service!StartOnCpu
  <2> QED BY <2>2 DEF Service!ServiceNext
<1>3. ASSUME NEW S \in SUBSET Jobs, \A j \in S : RunOf[j] = "running",
             RunOf' = [j \in Jobs |-> IF j \in S THEN "ended" ELSE RunOf[j]]
      PROVE  Steps
  BY <1>3 DEF Service!ServiceNext, Service!EndSome
<1>4. ASSUME NEW j \in Jobs, NEW l \in {"ended", "dead"}, Live(j), GoTask(j, l) PROVE Steps
  <2>1. RunOf' = [i \in Jobs |-> IF i \in {j} THEN "ended" ELSE RunOf[i]]
    BY <1>4, RunMoves DEF GoTask, RunOf, Live
  <2>2. \A i \in {j} : RunOf[i] = "running"
    BY <1>4 DEF RunOf, Live
  <2>3. {j} \in SUBSET Jobs
    OBVIOUS
  <2> QED BY <1>3, <2>1, <2>2, <2>3
<1>5. ASSUME NEW j \in Jobs, NEW l \in Working, Live(j), GoTask(j, l) PROVE Steps
  <2>1. RunOf' = [RunOf EXCEPT ![j] = "running"]
    BY <1>5, RunMoves DEF GoTask
  <2>2. RunOf' = RunOf
    BY <1>5, <2>1 DEF RunOf, Live
  <2> QED BY <2>2
<1>6. ASSUME NEW j \in Jobs, BeginCreate(j) \/ CreateCleans(j) \/ CheckDuplicate(j) \/ CreateRow(j)
                             \/ SubmitRefused(j) \/ WriteQueued(j) PROVE Steps
  BY <1>6, <1>1 DEF BeginCreate, CreateCleans, CheckDuplicate, CreateRow, SubmitRefused, WriteQueued
<1>7. ASSUME NEW j \in Jobs, SubmitDispatches(j) PROVE Steps
  BY <1>7, <1>2 DEF SubmitDispatches, TaskAfterPost, Fresh, RunOf, Live
<1>8. ASSUME NEW j \in Jobs, SubmitQueues(j) PROVE Steps
  <2>1. RunOf' = [RunOf EXCEPT ![j] = "waiting"] /\ RunOf[j] = "waiting"
    BY <1>8, RunMoves DEF SubmitQueues, GoTask, TaskAfterPost, Fresh, RunOf, Live
  <2>2. RunOf' = RunOf
    BY <2>1 DEF RunOf
  <2> QED BY <2>2
<1>9. ASSUME NEW j \in Jobs, Pump(j) PROVE Steps
  BY <1>9, <1>2 DEF Pump, Waits, RunOf, Live
<1>10. ASSUME NEW j \in Jobs, Ensure(j) \/ MarkRunning(j) \/ MarkRunningAgain(j) PROVE Steps
  BY <1>10, <1>5 DEF Ensure, MarkRunning, MarkRunningAgain, Live
<1>11. ASSUME NEW j \in Jobs, CheckPoint(j) PROVE Steps
  BY <1>11, <1>1, <1>5 DEF CheckPoint, Live
<1>12. ASSUME NEW j \in Jobs, Finish(j) \/ WorkerDies(j) PROVE Steps
  BY <1>12, <1>4 DEF Finish, WorkerDies, Live
<1>13. ASSUME NEW j \in Jobs, StopChecks(j) \/ StopWrites(j) \/ DeleteJob(j) \/ Age(j) PROVE Steps
  BY <1>13, <1>1 DEF StopChecks, StopWrites, DeleteJob, Age
<1>14. ASSUME ListActive \/ ListCleans \/ ClearQueue \/ ShutDown PROVE Steps
  BY <1>14, <1>1 DEF ListActive, ListCleans, ClearQueue, ShutDown
<1>15. ASSUME NEW S \in SUBSET Jobs, PowerOff(S) PROVE Steps
  <2> DEFINE Killed == {j \in Jobs : Live(j) /\ j \notin S}
  <2>1. \A j \in Killed : RunOf[j] = "running"
    BY DEF RunOf, Live
  <2>2. RunOf' = [j \in Jobs |-> IF j \in Killed THEN "ended" ELSE RunOf[j]]
    BY <1>15 DEF PowerOff, RunOf, Live
  <2> QED BY <2>1, <2>2, <1>3
<1>16. ASSUME StartUp PROVE Steps
  <2> DEFINE Killed == {j \in Jobs : Posix /\ Live(j)}
  <2>1. \A j \in Killed : RunOf[j] = "running"
    BY DEF RunOf, Live
  <2>2. RunOf' = [j \in Jobs |-> IF j \in Killed THEN "ended" ELSE RunOf[j]]
    BY <1>16 DEF StartUp, RunOf, Live
  <2> QED BY <2>1, <2>2, <1>3
<1>17. CASE UNCHANGED vars
  BY <1>17, <1>1 DEF vars
<1> QED
  BY <1>6, <1>7, <1>8, <1>9, <1>10, <1>11, <1>12, <1>13, <1>14, <1>15, <1>16, <1>17
     DEF Next, PostStep, WorkerStep

(* However rows are stopped, cleaned up and deleted, and however the server *)
(* and its workers go, a job starts once and ends once.                    *)
THEOREM RowsImplementService == ASSUME JobLifecycleAssumption PROVE Spec => UsesService
<1>1. Inv /\ [Next]_vars => [Service!ServiceNext]_<<RunOf, {}>>
  BY ServiceSteps DEF Inv
<1> QED BY <1>1, ServiceStarts, Inductive, PTL DEF Spec, UsesService, Service!ServiceSpec

-----------------------------------------------------------------------------
(* EventStream.                                                              *)

(* The cursor counts messages; as no more were sent than written it never  *)
(* runs ahead of the table, and what it has passed was sent.               *)
Watched == ws.phase # "none" => /\ ws.cursor <= next
                                /\ \A i \in Stored : i < ws.cursor => i \in sent

(* What was applied is what is remembered.                                 *)
Counted == reloads = 0 => \A i \in Events : shown[i] = IF i \in seen THEN 1 ELSE 0

EventInv == EventTypeOK /\ Watched /\ Counted

-------------------------------------------------------------------------------
(* What the store does.                                                    *)

\* Events that are applied are remembered and counted, those seen before are
\* not counted again.
LEMMA AppliesOnce ==
  ASSUME NEW S \in SUBSET Events, seen \in SUBSET Events, shown \in [Events -> 0..2],
         due \in BOOLEAN, job \in {"none", "stale", "running", "ended"}, row \in {"running", "ended"},
         Apply(S)
  PROVE  /\ seen' \in SUBSET Events /\ shown' \in [Events -> 0..2] /\ due' \in BOOLEAN
         /\ job' \in {"none", "stale", "running", "ended"}
         /\ (\A i \in Events : shown[i] = IF i \in seen THEN 1 ELSE 0)
            => \A i \in Events : shown'[i] = IF i \in seen' THEN 1 ELSE 0
<1>1. seen' = seen \cup (S \ seen)
  BY DEF Apply, Remember
<1>2. \A i \in Events : shown'[i] = IF i \in S \ seen /\ shown[i] < 2 THEN shown[i] + 1 ELSE shown[i]
  BY DEF Apply
<1>3. shown' \in [Events -> 0..2]
  <2>1. \A i \in Events : (IF i \in S \ seen /\ shown[i] < 2 THEN shown[i] + 1 ELSE shown[i]) \in 0..2
    OBVIOUS
  <2>2. QED
    BY <2>1 DEF Apply
<1>4. job' \in {"none", "stale", "running", "ended"}
  BY DEF Apply, StatusAfter
<1>5. due' \in BOOLEAN
  BY Zenon DEF Apply
<1>6. ASSUME \A i \in Events : shown[i] = IF i \in seen THEN 1 ELSE 0, NEW i \in Events
      PROVE  shown'[i] = IF i \in seen' THEN 1 ELSE 0
  BY <1>1, <1>2, <1>6
<1>7. QED
  BY <1>1, <1>3, <1>4, <1>5, <1>6

\* Removing the job forgets both.
LEMMA RemovesBoth ==
  ASSUME RemoveJob
  PROVE  /\ seen' \in SUBSET Events /\ shown' \in [Events -> 0..2] /\ due' \in BOOLEAN
         /\ job' \in {"none", "stale", "running", "ended"}
         /\ \A i \in Events : shown'[i] = IF i \in seen' THEN 1 ELSE 0
BY DEF RemoveJob

-------------------------------------------------------------------------------
(* What the table holds.                                                   *)

\* The events from an index on are an interval that ends at the table's end.
LEMMA FromIsInterval ==
  ASSUME NEW k \in Nat, base \in Nat, next \in Nat, base <= next
  PROVE  /\ IsFiniteSet(From(k)) /\ Cardinality(From(k)) \in Nat
         /\ Cardinality(From(k)) <= next - base
         /\ k <= next => k + Cardinality(From(k)) <= next
         /\ From(k) # {} => k <= next
         /\ \A i \in From(k) : next - Cardinality(From(k)) <= i
<1> DEFINE lo == IF k < base THEN base ELSE IF k <= next THEN k ELSE next
<1>1. lo \in Nat /\ base <= lo /\ lo <= next /\ (k <= next => k <= lo)
  OBVIOUS
<1>2. From(k) = lo..(next - 1)
  BY DEF From, Stored
<1> HIDE DEF lo
<1>3. IsFiniteSet(From(k)) /\ Cardinality(From(k)) = next - lo
  <2>1. lo \in Int /\ next - 1 \in Int
    BY <1>1
  <2>2. /\ IsFiniteSet(lo..(next - 1))
        /\ Cardinality(lo..(next - 1)) = IF lo > next - 1 THEN 0 ELSE (next - 1) - lo + 1
    BY <2>1, FS_Interval
  <2>3. Cardinality(lo..(next - 1)) = next - lo
    BY <1>1, <2>2
  <2>4. QED
    BY <1>2, <2>2, <2>3
<1>4. \A i \in From(k) : lo <= i /\ k <= i /\ i < next
  BY <1>1, <1>2 DEF From, Stored
<1>5. From(k) # {} => k <= next
  <2>1. \A i \in From(k) : i \in Int /\ k <= i /\ i < next
    BY <1>1, <1>4 DEF From, Stored
  <2>2. \A i \in From(k) : k <= next
    BY <2>1
  <2>3. QED
    BY <2>2
<1>6. /\ Cardinality(From(k)) \in Nat /\ Cardinality(From(k)) <= next - base
      /\ k <= next => k + Cardinality(From(k)) <= next
      /\ next - Cardinality(From(k)) = lo
  BY <1>1, <1>3
<1>7. QED
  BY <1>3, <1>4, <1>5, <1>6

-------------------------------------------------------------------------------
(* The types.                                                              *)

Numbers ==
  /\ base \in Nat /\ next \in Nat /\ base <= next /\ next <= FinalIndex + 1
  /\ next - base <= Keep + 1 /\ cursor \in 0..(FinalIndex + 1)
  /\ drops \in 0..MaxDrops /\ reloads \in 0..MaxReloads

Flags == {due, connected, listening, synced} \subseteq BOOLEAN

PageTypes ==
  /\ row \in {"running", "ended"} /\ listed \in {"none", "yes", "no"}
  /\ rest \in {"none", "running", "ended"} /\ job \in {"none", "stale", "running", "ended"}
  /\ seen \in SUBSET Events /\ shown \in [Events -> 0..2]

Channel ==
  /\ ws \in [phase : {"none", "open", "closed"}, cursor : Nat, done : BOOLEAN, idle : 0..2]
  /\ sent \in SUBSET Events /\ wire \in Seq(Events)

Requests == poll \in [Pollers -> [at : {"idle", "read"}, got : SUBSET Events, skip : BOOLEAN]]

\* The type invariant, by what changes together.
LEMMA TypeParts == EventStreamAssumption => (EventTypeOK <=> Numbers /\ Flags /\ PageTypes /\ Channel /\ Requests)
BY DEF EventStreamAssumption, EventTypeOK, Numbers, Flags, PageTypes, Channel, Requests

\* The table grows at its end by one and is cut to Keep at its start; a poll's
\* count of it is a cursor within the indexes.
LEMMA NumbersKept ==
  ASSUME EventStreamAssumption, EventTypeOK, [EventNext]_eventVars
  PROVE  Numbers'
<1> USE DEF EventStreamAssumption, Numbers
<1>0. Numbers
  BY TypeParts
<1>1. CASE AppendEvent
  BY <1>0, <1>1 DEF AppendEvent, rests, bounds
<1>2. CASE Trim
  BY <1>0, <1>2 DEF Trim, rests, bounds
<1>3. CASE Reconnect
  BY <1>0, <1>3 DEF Reconnect, rests, table
<1>4. CASE Reload
  BY <1>0, <1>4 DEF Reload, table
<1>5. ASSUME NEW q \in Pollers, Answer(q) PROVE Numbers'
  BY <1>0, <1>5 DEF Answer, Total, table, bounds
<1>6. CASE UNCHANGED <<base, next, cursor, drops, reloads>>
  BY <1>0, <1>6
<1>7. CASE EndRow \/ WsRound \/ Page \/ \E q \in Pollers : Ask(q)
  BY <1>6, <1>7 DEF EndRow, WsRound, Page, Receive, Effects, FetchActive, EnsureJob, FetchStatus, Ask, table, rests, bounds
<1>8. QED
  BY <1>1, <1>2, <1>3, <1>4, <1>5, <1>6, <1>7 DEF EventNext, PollStep, eventVars, table, rests, bounds

\* Effects, polls and reloads set the flags.
LEMMA FlagsKept ==
  ASSUME EventStreamAssumption, EventTypeOK, [EventNext]_eventVars
  PROVE  Flags'
<1>0. Flags
  BY TypeParts
<1>1. ASSUME NEW q \in Pollers, Answer(q) PROVE Flags'
  <2>1. UNCHANGED <<connected, listening>> /\ (synced' = TRUE \/ UNCHANGED synced)
    BY <1>1 DEF Answer, hook
  <2>2. due' \in BOOLEAN
    BY <1>0, <1>1, Zenon DEF Answer, Apply, store, Flags
  <2>3. QED
    BY <1>0, <2>1, <2>2, Zenon DEF Flags
<1>2. CASE Receive
  <2>1. UNCHANGED <<connected, listening, synced>>
    BY <1>2 DEF Receive, hook, rests
  <2>2. due' \in BOOLEAN
    BY <1>0, <1>2, Zenon DEF Receive, Apply, store, Flags
  <2>3. QED
    BY <1>0, <2>1, <2>2, Zenon DEF Flags
<1>3. CASE Effects
  <2>1. UNCHANGED synced
    BY <1>3 DEF Effects, rests
  <2>2. /\ due' = FALSE /\ connected' = (job = "running") /\ listening' = (job = "running" /\ ~connected)
    BY <1>3, Zenon DEF Effects
  <2>3. QED
    BY <1>0, <2>1, <2>2, Zenon DEF Flags
<1>4. CASE Reload
  BY <1>4, Zenon DEF Reload, Flags
<1>5. CASE UNCHANGED <<connected, listening, synced>> /\ (due' = TRUE \/ UNCHANGED due)
  <2>1. /\ connected' = connected /\ listening' = listening /\ synced' = synced
    BY <1>5
  <2>2. QED
    BY <1>0, <1>5, <2>1, Zenon DEF Flags
<1>6. CASE AppendEvent \/ Trim \/ EndRow \/ WsRound \/ Reconnect
  BY <1>5, <1>6 DEF AppendEvent, Trim, EndRow, WsRound, Reconnect, hook, rests
<1>7. CASE FetchActive \/ EnsureJob \/ FetchStatus \/ \E q \in Pollers : Ask(q)
  BY <1>5, <1>7 DEF FetchActive, RemoveJob, EnsureJob, FetchStatus, Ask, hook, rests
<1>8. CASE UNCHANGED eventVars
  BY <1>5, <1>8 DEF eventVars, hook, rests
<1>9. QED
  BY <1>1, <1>2, <1>3, <1>4, <1>6, <1>7, <1>8 DEF EventNext, Page, PollStep

\* A poll reads events of the table.
LEMMA RequestsKept ==
  ASSUME EventStreamAssumption, EventTypeOK, [EventNext]_eventVars
  PROVE  Requests'
<1>0. Requests /\ Numbers
  BY TypeParts
<1>1. ASSUME NEW q \in Pollers, Ask(q) PROVE Requests'
  <2> DEFINE new == [at |-> "read", got |-> From(cursor), skip |-> q = "shell" /\ ~synced /\ cursor = 0]
  <2>1. From(cursor) \in SUBSET Events
    BY <1>0 DEF Numbers, From, Stored, Events, EventStreamAssumption
  <2>2. new \in [at : {"idle", "read"}, got : SUBSET Events, skip : BOOLEAN]
    BY <2>1, Zenon
  <2> HIDE DEF new
  <2>3. poll' = [poll EXCEPT ![q] = new]
    BY <1>1, Zenon DEF Ask, new
  <2>4. QED
    BY <1>0, <2>2, <2>3 DEF Requests
<1>2. ASSUME NEW q \in Pollers, Answer(q) PROVE Requests'
  <2>1. Idle \in [at : {"idle", "read"}, got : SUBSET Events, skip : BOOLEAN]
    BY Zenon DEF Idle
  <2>2. poll' = [poll EXCEPT ![q] = Idle]
    BY <1>2 DEF Answer
  <2>3. QED
    BY <1>0, <2>1, <2>2 DEF Requests
<1>3. CASE Reload
  <2>1. Idle \in [at : {"idle", "read"}, got : SUBSET Events, skip : BOOLEAN]
    BY Zenon DEF Idle
  <2>2. QED
    BY <1>3, <2>1 DEF Reload, Requests
<1>4. CASE UNCHANGED poll
  BY <1>0, <1>4 DEF Requests
<1>5. CASE AppendEvent \/ Trim \/ EndRow \/ WsRound \/ Reconnect \/ Page
  BY <1>4, <1>5 DEF AppendEvent, Trim, EndRow, WsRound, Reconnect, Page, Receive, Effects, FetchActive,
                    EnsureJob, FetchStatus, rests
<1>6. QED
  BY <1>1, <1>2, <1>3, <1>4, <1>5 DEF EventNext, PollStep, eventVars, rests

\* Only a connection that is asked for, or given up, and the loop of the one
\* there is change the socket.
LEMMA ChannelKept ==
  ASSUME EventStreamAssumption, EventTypeOK, [EventNext]_eventVars
  PROVE  Channel'
<1> DEFINE Ends == [phase : {"none", "open", "closed"}, cursor : Nat, done : BOOLEAN, idle : 0..2]
<1>0. Channel /\ Numbers
  BY TypeParts
<1>1. ASSUME Open \/ Shut PROVE Channel'
  <2>1. 0 \in Nat /\ 0 \in 0..2
    OBVIOUS
  <2>2. NoSocket \in Ends
    BY <2>1, Zenon DEF NoSocket
  <2>3. NoSocket.cursor \in Nat /\ NoSocket.idle \in 0..2 /\ NoSocket.done \in BOOLEAN
    BY <2>2
  <2>4. [NoSocket EXCEPT !.phase = "open"] \in Ends
    BY <2>2
  <2>5. ws' \in Ends
    BY <1>1, <2>2, <2>4, Zenon DEF Open, Shut
  <2>6. sent' = {} /\ wire' = <<>>
    BY <1>1 DEF Open, Shut
  <2>7. sent' \in SUBSET Events /\ wire' \in Seq(Events)
    BY <2>6
  <2>8. QED
    BY <2>5, <2>7, Zenon DEF Channel
<1>2. CASE WsRound
  <2> DEFINE S == From(ws.cursor)
  <2>1. /\ IsFiniteSet(S) /\ Cardinality(S) \in Nat /\ Cardinality(S) <= next - base /\ S \in SUBSET Events
    BY <1>0, FromIsInterval DEF Channel, Numbers, From, Stored, Events, EventStreamAssumption
  <2>2. CASE S # {}
    <3>1. InOrder(Cardinality(S)) \in Seq(Events)
      <4>1. \A k \in 1..Cardinality(S) : next - Cardinality(S) + k - 1 \in Events
        BY <1>0, <2>1 DEF Numbers, Events, EventStreamAssumption
      <4>2. QED
        BY <2>1, <4>1 DEF InOrder
    <3>2. wire' \in Seq(Events) /\ sent' \in SUBSET Events
      <4>1. wire' = wire \o InOrder(Cardinality(S)) /\ sent' = sent \cup S
        BY <1>2, <2>2 DEF WsRound
      <4>2. wire \in Seq(Events) /\ sent \in SUBSET Events
        BY <1>0, Zenon DEF Channel
      <4>3. QED
        BY <2>1, <3>1, <4>1, <4>2
    <3>3. ws' = [phase |-> ws.phase, cursor |-> ws.cursor + Cardinality(S), done |-> ws.done \/ FinalIndex \in S,
                 idle |-> 0]
      BY <1>0, <1>2, <2>2 DEF WsRound, Advance, Channel
    <3>4. /\ ws.phase \in {"none", "open", "closed"} /\ ws.cursor + Cardinality(S) \in Nat /\ 0 \in 0..2
      BY <1>0, <2>1 DEF Channel
    <3>5. (ws.done \/ FinalIndex \in S) \in BOOLEAN
      BY Zenon
    <3>6. ws' \in Ends
      BY <3>3, <3>4, <3>5, Zenon
    <3>7. QED
      BY <3>2, <3>6 DEF Channel
  <2>3. CASE S = {}
    <3>1. ws' = [phase |-> IF ws.done /\ ws.idle >= 1 THEN "closed" ELSE ws.phase, cursor |-> ws.cursor,
                 done |-> ws.done, idle |-> IF ws.idle < 2 THEN ws.idle + 1 ELSE ws.idle]
      BY <1>0, <1>2, <2>3 DEF WsRound, Rest, Channel
    <3>2. ws' \in Ends
      BY <1>0, <3>1 DEF Channel
    <3>3. QED
      BY <1>0, <1>2, <2>3, <3>2 DEF WsRound, Channel
  <2>4. QED
    BY <2>2, <2>3
<1>3. CASE Receive
  <2>1. CASE Shut
    BY <1>1, <2>1
  <2>2. CASE wire' = Tail(wire) /\ UNCHANGED <<ws, sent>>
    BY <1>0, <1>3, <2>2 DEF Receive, Channel
  <2>3. QED
    BY <1>3, <2>1, <2>2 DEF Receive
<1>4. CASE UNCHANGED socket
  BY <1>0, <1>4 DEF socket, Channel
<1>5. CASE Effects \/ Reconnect \/ Reload
  BY <1>1, <1>4, <1>5 DEF Effects, Reconnect, Reload
<1>6. CASE AppendEvent \/ Trim \/ EndRow \/ FetchActive \/ EnsureJob \/ FetchStatus \/ \E q \in Pollers : PollStep(q)
  BY <1>4, <1>6 DEF AppendEvent, Trim, EndRow, FetchActive, EnsureJob, FetchStatus, PollStep, Ask, Answer
<1>7. QED
  BY <1>2, <1>3, <1>4, <1>5, <1>6 DEF EventNext, Page, eventVars

\* Messages and answers carry events, which the store applies.
LEMMA PageKept ==
  ASSUME EventStreamAssumption, EventTypeOK, [EventNext]_eventVars
  PROVE  PageTypes'
<1> DEFINE Kept == seen' \in SUBSET Events /\ shown' \in [Events -> 0..2] /\ job' \in {"none", "stale", "running", "ended"}
<1>0. PageTypes /\ due \in BOOLEAN /\ Requests /\ wire \in Seq(Events)
  BY TypeParts, Zenon DEF Flags, Channel
<1>1. ASSUME NEW S \in SUBSET Events, Apply(S) PROVE Kept
  BY <1>0, <1>1, AppliesOnce DEF PageTypes
<1>2. ASSUME UNCHANGED store PROVE Kept
  BY <1>0, <1>2 DEF PageTypes, store
<1>3. CASE Receive
  <2>1. wire # <<>> /\ (Apply({Head(wire)}) \/ UNCHANGED store) /\ UNCHANGED <<row, listed, rest>>
    BY <1>3 DEF Receive, table, polled
  <2>2. {Head(wire)} \in SUBSET Events
    BY <1>0, <2>1
  <2>3. Kept
    BY <1>1, <1>2, <2>1, <2>2
  <2>4. QED
    BY <1>0, <2>1, <2>3 DEF PageTypes
<1>4. ASSUME NEW q \in Pollers, Answer(q) PROVE PageTypes'
  <2>1. (Apply(poll[q].got) \/ UNCHANGED store) /\ UNCHANGED <<row, listed, rest>>
    BY <1>4 DEF Answer, table, polled
  <2>2. poll[q].got \in SUBSET Events
    BY <1>0 DEF Requests
  <2>3. Kept
    BY <1>1, <1>2, <2>1, <2>2
  <2>4. QED
    BY <1>0, <2>1, <2>3 DEF PageTypes
<1>5. CASE FetchActive
  <2>1. Kept
    BY <1>2, <1>5, RemovesBoth DEF FetchActive
  <2>2. QED
    BY <1>0, <1>5, <2>1 DEF FetchActive, InList, PageTypes, table
<1>6. CASE AppendEvent \/ Trim \/ EndRow \/ WsRound \/ Reconnect \/ Effects \/ \E q \in Pollers : Ask(q)
  BY <1>0, <1>6 DEF AppendEvent, Trim, EndRow, WsRound, Reconnect, Effects, Ask, table, store, polled, PageTypes
<1>7. CASE EnsureJob \/ FetchStatus \/ Reload
  BY <1>0, <1>7 DEF EnsureJob, FetchStatus, Reload, table, store, polled, PageTypes
<1>8. QED
  BY <1>0, <1>3, <1>4, <1>5, <1>6, <1>7 DEF EventNext, Page, PollStep, eventVars, table, store, polled, PageTypes

-------------------------------------------------------------------------------
(* The parts of the invariant.                                             *)

\* The loop sends what is in the table from its cursor on and moves the cursor
\* by as many: it stays within the table, and what it passes was sent.  What is
\* written is beyond it, what is trimmed is of no concern.
LEMMA WatchedKept ==
  ASSUME EventStreamAssumption, EventTypeOK, Watched, [EventNext]_eventVars
  PROVE  Watched'
<1>0. Numbers /\ ws.cursor \in Nat
  BY TypeParts DEF Channel
<1>1. CASE WsRound
  <2> DEFINE S == From(ws.cursor)
  <2>1. ws.phase = "open" /\ UNCHANGED <<base, next>>
    BY <1>1 DEF WsRound, table
  <2>2. ws.cursor <= next /\ \A i \in Stored : i < ws.cursor => i \in sent
    BY <2>1 DEF Watched
  <2>3. CASE S # {}
    <3>1. ws'.cursor = ws.cursor + Cardinality(S) /\ sent' = sent \cup S
      BY <1>0, <1>1, <2>3, TypeParts DEF WsRound, Advance, Channel
    <3>2. Cardinality(S) \in Nat /\ ws.cursor + Cardinality(S) <= next
      BY <1>0, <2>2, FromIsInterval DEF Numbers
    <3>3. \A i \in Stored : i < ws.cursor \/ i \in S
      BY <1>0 DEF From, Stored, Numbers
    <3>4. Stored' = Stored
      BY <2>1 DEF Stored
    <3>5. QED
      BY <2>1, <2>2, <3>1, <3>2, <3>3, <3>4 DEF Watched
  <2>4. CASE S = {}
    <3>1. ws'.cursor = ws.cursor /\ sent' = sent
      BY <1>0, <1>1, <2>4, TypeParts DEF WsRound, Rest, Channel
    <3>2. QED
      BY <2>1, <2>2, <3>1 DEF Watched, Stored
  <2>5. QED
    BY <2>3, <2>4
<1>2. CASE Open \/ Shut
  <2>1. ws'.cursor = 0
    BY <1>2 DEF Open, Shut, NoSocket
  <2>2. next' \in Nat /\ base' \in Nat
    BY NumbersKept DEF Numbers
  <2>3. \A i \in Stored' : ~(i < 0)
    BY <2>2 DEF Stored
  <2>4. ws'.cursor <= next' /\ \A i \in Stored' : ~(i < ws'.cursor)
    BY <2>1, <2>2, <2>3
  <2>5. QED
    BY <2>4 DEF Watched
<1>3. CASE AppendEvent \/ Trim
  <2>1. /\ UNCHANGED <<ws, sent>> /\ next <= next' /\ base <= base' /\ next' \in Nat /\ base' \in Nat
        /\ (next' = next \/ next' = next + 1)
    BY <1>0, <1>3 DEF AppendEvent, Trim, socket, Numbers, EventStreamAssumption
  <2>2. \A i \in Stored' : i \in Stored \/ i >= next
    BY <1>0, <2>1 DEF Stored, Numbers
  <2>3. ws.cursor <= next => ws.cursor <= next'
    BY <1>0, <2>1 DEF Numbers
  <2>4. \A i \in Stored' : i \in Int
    BY <2>1 DEF Stored
  <2>5. \A i \in Stored' : ws.cursor <= next /\ i < ws.cursor => i \in Stored
    BY <1>0, <2>2, <2>4 DEF Numbers
  <2>6. QED
    BY <2>1, <2>3, <2>5 DEF Watched
<1>4. CASE UNCHANGED <<base, next, ws, sent>>
  BY <1>4 DEF Watched, Stored
<1>5. CASE Receive \/ Effects
  BY <1>2, <1>4, <1>5 DEF Receive, Effects, table, socket
<1>6. CASE Reconnect \/ Reload
  BY <1>2, <1>6 DEF Reconnect, Reload
<1>7. CASE EndRow \/ FetchActive \/ EnsureJob \/ FetchStatus \/ \E q \in Pollers : PollStep(q)
  BY <1>4, <1>7 DEF EndRow, FetchActive, EnsureJob, FetchStatus, PollStep, Ask, Answer, table, socket
<1>8. QED
  BY <1>1, <1>3, <1>4, <1>5, <1>6, <1>7 DEF EventNext, Page, eventVars, table, socket

\* Whoever brings an event, it is counted when it is first remembered; only the
\* removal of the job forgets, and a reload, which forgets what was counted.
LEMMA CountedKept ==
  ASSUME EventStreamAssumption, EventTypeOK, Counted, [EventNext]_eventVars
  PROVE  Counted'
<1> DEFINE Equal == \A i \in Events : shown[i] = IF i \in seen THEN 1 ELSE 0
<1>0. PageTypes /\ due \in BOOLEAN /\ Requests /\ wire \in Seq(Events) /\ reloads \in Nat
  <2>1. reloads \in Nat
    BY TypeParts DEF Numbers, EventStreamAssumption
  <2>2. QED
    BY <2>1, TypeParts, Zenon DEF Flags, Channel
<1>1. ASSUME NEW S \in SUBSET Events, Apply(S), UNCHANGED reloads PROVE Counted'
  BY <1>0, <1>1, AppliesOnce DEF PageTypes, Counted
<1>2. ASSUME UNCHANGED <<seen, shown, reloads>> PROVE Counted'
  BY <1>2 DEF Counted
<1>3. CASE Receive
  <2>1. wire # <<>> /\ (Apply({Head(wire)}) \/ UNCHANGED store) /\ UNCHANGED reloads
    BY <1>3 DEF Receive, bounds
  <2>2. {Head(wire)} \in SUBSET Events
    BY <1>0, <2>1
  <2>3. QED
    BY <1>1, <1>2, <2>1, <2>2 DEF store
<1>4. ASSUME NEW q \in Pollers, Answer(q) PROVE Counted'
  <2>1. (Apply(poll[q].got) \/ UNCHANGED store) /\ UNCHANGED reloads
    BY <1>4 DEF Answer, bounds
  <2>2. poll[q].got \in SUBSET Events
    BY <1>0 DEF Requests
  <2>3. QED
    BY <1>1, <1>2, <2>1, <2>2 DEF store
<1>5. CASE FetchActive
  <2>1. (RemoveJob \/ UNCHANGED store) /\ UNCHANGED reloads
    BY <1>5 DEF FetchActive, bounds
  <2>2. QED
    BY <1>2, <2>1, RemovesBoth DEF Counted, store
<1>6. CASE Reload
  <2>1. reloads' # 0
    BY <1>0, <1>6 DEF Reload
  <2>2. QED
    BY <2>1 DEF Counted
<1>7. CASE AppendEvent \/ Trim \/ EndRow \/ WsRound \/ Reconnect \/ Effects \/ EnsureJob \/ FetchStatus
  BY <1>2, <1>7 DEF AppendEvent, Trim, EndRow, WsRound, Reconnect, Effects, EnsureJob, FetchStatus, store, bounds
<1>8. ASSUME NEW q \in Pollers, Ask(q) PROVE Counted'
  BY <1>2, <1>8 DEF Ask, store, bounds
<1>9. QED
  BY <1>2, <1>3, <1>4, <1>5, <1>6, <1>7, <1>8 DEF EventNext, Page, PollStep, eventVars, store, bounds

-------------------------------------------------------------------------------
(* The theorems.                                                           *)

\* A submitted job is in the store, with nothing written, sent or seen.
LEMMA InvStarts == EventStreamAssumption /\ EventInit => EventInv
<1> SUFFICES ASSUME EventStreamAssumption, EventInit PROVE EventInv
  OBVIOUS
<1>1. Numbers /\ PageTypes
  BY DEF EventStreamAssumption, EventInit, Numbers, PageTypes, Events
<1>2. Flags
  BY Zenon DEF EventInit, Flags
<1>3. Requests
  <2>1. Idle \in [at : {"idle", "read"}, got : SUBSET Events, skip : BOOLEAN]
    BY Zenon DEF Idle
  <2>2. QED
    BY <2>1 DEF EventInit, Requests
<1>4. Channel
  <2>1. 0 \in Nat /\ 0 \in 0..2
    OBVIOUS
  <2>2. NoSocket \in [phase : {"none", "open", "closed"}, cursor : Nat, done : BOOLEAN, idle : 0..2]
    BY <2>1, Zenon DEF NoSocket
  <2>3. sent \in SUBSET Events /\ wire \in Seq(Events)
    BY DEF EventInit
  <2>4. QED
    BY <2>2, <2>3, Zenon DEF EventInit, Channel
<1>5. Watched /\ Counted
  BY DEF EventInit, Watched, Counted, NoSocket
<1>6. QED
  BY <1>1, <1>2, <1>3, <1>4, <1>5, TypeParts DEF EventInv

\* Every step keeps the invariant.
LEMMA InvIsInductive == EventStreamAssumption /\ EventInv /\ [EventNext]_eventVars => EventInv'
<1> SUFFICES ASSUME EventStreamAssumption, EventInv, [EventNext]_eventVars PROVE EventInv'
  OBVIOUS
<1>1. Numbers' /\ Flags' /\ PageTypes' /\ Channel' /\ Requests'
  BY NumbersKept, FlagsKept, PageKept, ChannelKept, RequestsKept DEF EventInv
<1>2. EventTypeOK'
  <2>1. Numbers'
    BY <1>1
  <2>2. /\ base' \in Nat /\ next' \in Nat /\ base' <= next' /\ next' <= FinalIndex + 1
        /\ next' - base' <= Keep + 1 /\ cursor' \in 0..(FinalIndex + 1)
        /\ drops' \in 0..MaxDrops /\ reloads' \in 0..MaxReloads
    BY <2>1, Zenon DEF Numbers
  <2>3. base' \in 0..next' /\ next' \in 0..(FinalIndex + 1)
    BY <2>2 DEF EventStreamAssumption
  <2>4. seen' \subseteq Events /\ sent' \subseteq Events
    BY <1>1, Zenon DEF PageTypes, Channel
  <2>5. QED
    BY <1>1, <2>2, <2>3, <2>4, Zenon DEF EventTypeOK, Flags, PageTypes, Channel, Requests
<1>3. QED
  BY <1>2, WatchedKept, CountedKept DEF EventInv

\* The table, the socket, the page's store and the requests of the polls keep
\* their types.
THEOREM EventTypesHold == EventSpec => []EventTypeOK
<1>1. EventInv => EventTypeOK
  BY DEF EventInv
<1>2. QED
  BY <1>1, InvStarts, InvIsInductive, Indexed, PTL DEF EventSpec

\* The loop of the socket passes over no event that is still in the table, in
\* spite of trims and lost connections, and until the page is loaded again an
\* event that socket and polls bring is applied to a job once.
THEOREM EventsShownOnce == EventSpec => []ShownOnce
<1>1. EventInv => ShownOnce
  <2>1. Watched => SocketSkipsNothing
    BY DEF Watched, SocketSkipsNothing
  <2>2. Counted => AppliedOnce
    BY DEF Counted, AppliedOnce
  <2>3. QED
    BY <2>1, <2>2 DEF EventInv, ShownOnce
<1>2. QED
  BY <1>1, InvStarts, InvIsInductive, Indexed, PTL DEF EventSpec

-------------------------------------------------------------------------------
(* WslBridge.                                                                *)

(* What the worker of a dispatched job has read, and what it may write.     *)
BridgeInv ==
  /\ worker \in {"read", "handle"} => runner \in {"runs", "zero", "nonzero"}
  /\ worker \in {"wait", "ended"} => runner \in {"zero", "nonzero"} /\ (~wb_stopped => out = <<>>)
  /\ wb_row = "completed" => worker = "ended" /\ runner = "zero"
  /\ Bridge!FileWhileRead

(* A job that was not dispatched has no file and is not completed.          *)
LEMMA BridgeStarts == Bridge!Init => BridgeInv
  BY DEF Bridge!Init, BridgeInv, Bridge!FileWhileRead

(* The types hold from the start, and every step keeps them.                 *)
LEMMA BridgeTyped == Bridge!Init => Bridge!TypeOK
<1>1. OutPipe \in Nat /\ ErrPipe \in Nat
  BY Assumptions DEF Bridge!BridgeAssumption
<1>2. <<>> \in Seq(BridgeLines) /\ Len(<<>>) = 0
  BY EmptySeq
<1> SUFFICES ASSUME Bridge!Init PROVE Bridge!TypeOK
  OBVIOUS
<1>3. out \in Seq(BridgeLines) /\ Len(out) <= OutPipe /\ err \in 0..ErrPipe
  BY <1>1, <1>2 DEF Bridge!Init
<1> QED
  BY <1>3 DEF Bridge!Init, Bridge!TypeOK

LEMMA BridgeTypesKept == ASSUME Bridge!TypeOK, [Bridge!Next]_wb PROVE Bridge!TypeOK'
<1>1. OutPipe \in Nat /\ ErrPipe \in Nat
  BY Assumptions DEF Bridge!BridgeAssumption
<1> USE DEF Bridge!TypeOK, Bridge!pipes
<1>2. ASSUME NEW l \in BridgeLines, Bridge!Emit(l) PROVE Bridge!TypeOK'
  <2>1. out' \in Seq(BridgeLines) /\ Len(out') = Len(out) + 1 /\ Len(out) \in Nat
    BY <1>2, AppendProperties DEF Bridge!Emit
  <2>2. Len(out') <= OutPipe
    BY <1>1, <1>2, <2>1 DEF Bridge!Emit
  <2> QED
    BY <1>2, <2>1, <2>2 DEF Bridge!Emit
<1>3. CASE Bridge!Complain
  BY <1>1, <1>3 DEF Bridge!Complain
<1>4. CASE Bridge!ReadLine
  <2>1. out' \in Seq(BridgeLines) /\ Len(out') = Len(out) - 1 /\ Len(out) \in Nat /\ Head(out) \in BridgeLines
    BY <1>4, HeadTailProperties DEF Bridge!ReadLine
  <2> QED
    BY <1>1, <1>4, <2>1 DEF Bridge!ReadLine
<1>5. CASE Bridge!Exit \/ Bridge!Fallback \/ Bridge!Dispatch \/ Bridge!Cancelled \/ Bridge!Passed
  BY <1>5 DEF Bridge!Exit, Bridge!Fallback, Bridge!Dispatch, Bridge!Cancelled, Bridge!Passed
<1>6. CASE Bridge!Handle
  BY <1>6 DEF Bridge!Handle
<1>7. CASE Bridge!EndOfOutput \/ Bridge!Finish
  BY <1>7 DEF Bridge!EndOfOutput, Bridge!Finish
<1>8. CASE Bridge!ForceStop
  BY <1>8 DEF Bridge!ForceStop
<1>9. CASE UNCHANGED wb
  BY <1>9 DEF wb
<1> QED
  BY <1>2, <1>3, <1>4, <1>5, <1>6, <1>7, <1>8, <1>9 DEF Bridge!Next, Bridge!Runner, Bridge!Worker

(* Every step of the runner, the worker and the user keeps the invariant.   *)
LEMMA BridgeKept == ASSUME BridgeInv, [Bridge!Next]_wb PROVE BridgeInv'
<1> USE DEF BridgeInv, Bridge!FileWhileRead, Bridge!pipes
<1>1. ASSUME NEW l \in BridgeLines, Bridge!Emit(l) PROVE BridgeInv'
  BY <1>1 DEF Bridge!Emit
<1>2. CASE Bridge!Complain
  BY <1>2 DEF Bridge!Complain
<1>3. CASE Bridge!Exit
  BY <1>3 DEF Bridge!Exit
<1>4. CASE Bridge!Fallback
  BY <1>4 DEF Bridge!Fallback
<1>5. CASE Bridge!Dispatch
  BY <1>5 DEF Bridge!Dispatch
<1>6. CASE Bridge!ReadLine
  BY <1>6 DEF Bridge!ReadLine
<1>7. CASE Bridge!Cancelled
  BY <1>7 DEF Bridge!Cancelled
<1>8. CASE Bridge!Passed
  BY <1>8 DEF Bridge!Passed
<1>9. CASE Bridge!Handle
  BY <1>9 DEF Bridge!Handle
<1>10. CASE Bridge!EndOfOutput
  BY <1>10 DEF Bridge!EndOfOutput
<1>11. CASE Bridge!Finish
  BY <1>11 DEF Bridge!Finish
<1>12. CASE Bridge!ForceStop
  BY <1>12 DEF Bridge!ForceStop
<1>13. CASE UNCHANGED wb
  BY <1>13 DEF wb
<1> QED
  BY <1>1, <1>2, <1>3, <1>4, <1>5, <1>6, <1>7, <1>8, <1>9, <1>10, <1>11, <1>12, <1>13
  DEF Bridge!Next, Bridge!Runner, Bridge!Worker

(* And it says what is promised.                                            *)
LEMMA BridgeTells == BridgeInv => Bridge!CompleteIsTrue /\ Bridge!FileWhileRead
  BY DEF BridgeInv, Bridge!CompleteIsTrue

-------------------------------------------------------------------------------
(* BacktestWorker.                                                           *)

(* The types of the workers' state; nothing but its domain is said of what   *)
(* the clean-up module holds.                                               *)
WorkPlaces == {"begin", "cycle", "repeat", "simulate", "free", "interrupted", "raised", "finally", "ended"}
EndMarks  == {"job_started", "model_complete", "job_complete", "job_failed"}
RowType == [model : STRING, rep : Nat, importances : WorkJobs \cup {"none"}]

WorkTypes ==
  /\ pc \in [WorkJobs -> WorkPlaces] /\ cycle \in [WorkJobs -> Nat] /\ rep \in [WorkJobs -> Nat]
  /\ left \in [WorkJobs -> [trials : 0..Trials, periods : 0..Periods]]
  /\ work \in [WorkJobs -> Int] /\ rows \in [WorkJobs -> Seq(RowType)]
  /\ events \in [WorkJobs -> Seq(EndMarks)] /\ DOMAIN held = WorkJobs /\ held = [j \in WorkJobs |-> held[j]]
  /\ newest \in WorkJobs \cup {"none"} /\ bw_stopped \in [WorkJobs -> BOOLEAN]
  /\ \A j \in WorkJobs : cycle[j] <= Len(Names[j]) /\ rep[j] <= Repeats[j]

OfOneRepetition == Trials + Periods
PerModel(j)     == Repeats[j] * OfOneRepetition

(* The work that was counted and the rows that were written are those of    *)
(* the models and repetitions behind the worker.                            *)
Behind(j) ==
  /\ pc[j] = "begin" => cycle[j] = 0 /\ work[j] = 0 /\ rows[j] = <<>>
  /\ pc[j] \in {"cycle", "free"} => work[j] = cycle[j] * PerModel(j) /\ Len(rows[j]) = cycle[j]
  /\ pc[j] \in {"repeat", "simulate"} =>
       /\ cycle[j] > 0 /\ Len(rows[j]) = cycle[j] - 1
       /\ work[j] + (IF pc[j] = "simulate" THEN left[j].trials + left[j].periods ELSE 0)
            = (cycle[j] - 1) * PerModel(j) + rep[j] * OfOneRepetition
  /\ \A i \in DOMAIN rows[j] : rows[j][i].model = Names[j][i]

(* Nothing was said of an end before the worker is at it, and then once.    *)
EndTold(j) ==
  /\ pc[j] \notin {"finally", "ended"} => \A i \in DOMAIN events[j] : events[j][i] \notin {"job_complete", "job_failed"}
  /\ pc[j] \in {"finally", "ended"} =>
       /\ Worker!Ends(j) = {Len(events[j])}
       /\ events[j][Len(events[j])] = "job_complete" =>
            work[j] = Len(Names[j]) * PerModel(j) /\ Len(rows[j]) = Len(Names[j])
  /\ pc[j] = "ended" => held[j] = {}

WorkInv == WorkTypes /\ \A j \in WorkJobs : Behind(j) /\ EndTold(j)

(* Nobody has begun.                                                        *)
LEMMA WorkStarts == Worker!Init => WorkInv
<1> SUFFICES ASSUME Worker!Init PROVE WorkInv
  OBVIOUS
<1> USE Assumptions DEF Worker!WorkerAssumption, Worker!Init, Worker!None
<1>1. WorkTypes
  BY DEF WorkTypes, WorkPlaces
<1>2. ASSUME NEW j \in WorkJobs PROVE Behind(j) /\ EndTold(j)
  <2>1. pc[j] = "begin" /\ cycle[j] = 0 /\ work[j] = 0 /\ rows[j] = <<>> /\ events[j] = <<>>
    OBVIOUS
  <2> QED
    BY <2>1 DEF Behind, EndTold
<1> QED
  BY <1>1, <1>2 DEF WorkInv

(* The steps of one worker, and what they leave to another.                 *)
JobSteps(j) ==
  \/ Worker!Begin(j) \/ Worker!StartCycle(j) \/ Worker!StartRep(j) \/ Worker!Trial(j)
  \/ Worker!SaveImportances(j) \/ Worker!Period(j) \/ Worker!EndRep(j) \/ Worker!Collect(j)
  \/ Worker!Free(j) \/ Worker!Complete(j) \/ Worker!Raise(j) \/ Worker!Handle(j)
  \/ Worker!Finally(j) \/ Worker!Stop(j)

(* A worker leaves the state of the other jobs as it is.                    *)
SameJob(k) ==
  /\ pc'[k] = pc[k] /\ cycle'[k] = cycle[k] /\ rep'[k] = rep[k] /\ left'[k] = left[k]
  /\ work'[k] = work[k] /\ rows'[k] = rows[k] /\ events'[k] = events[k]
  /\ held'[k] = held[k] \/ held'[k] = {}

(* A step of one worker leaves the others.                                  *)
LEMMA OthersRest ==
  ASSUME WorkTypes, NEW j \in WorkJobs, JobSteps(j), NEW k \in WorkJobs, k # j
  PROVE  SameJob(k)
<1> USE DEF WorkTypes, SameJob, Worker!Go, Worker!Say, Worker!At
<1>1. CASE Worker!Begin(j)
  BY <1>1 DEF Worker!Begin
<1>2. CASE Worker!StartCycle(j)
  BY <1>2 DEF Worker!StartCycle
<1>3. CASE Worker!StartRep(j)
  BY <1>3 DEF Worker!StartRep
<1>4. CASE Worker!Trial(j)
  BY <1>4 DEF Worker!Trial, Worker!Report
<1>5. CASE Worker!SaveImportances(j)
  BY <1>5 DEF Worker!SaveImportances
<1>6. CASE Worker!Period(j)
  BY <1>6 DEF Worker!Period, Worker!Report
<1>7. CASE Worker!EndRep(j)
  BY <1>7 DEF Worker!EndRep
<1>8. CASE Worker!Collect(j)
  BY <1>8 DEF Worker!Collect
<1>9. CASE Worker!Free(j)
  BY <1>9 DEF Worker!Free
<1>10. CASE Worker!Complete(j)
  BY <1>10 DEF Worker!Complete
<1>11. CASE Worker!Raise(j)
  BY <1>11 DEF Worker!Raise
<1>12. CASE Worker!Handle(j)
  BY <1>12 DEF Worker!Handle
<1>13. CASE Worker!Finally(j)
  BY <1>13 DEF Worker!Finally
<1>14. CASE Worker!Stop(j)
  BY <1>14 DEF Worker!Stop
<1> QED
  BY <1>1, <1>2, <1>3, <1>4, <1>5, <1>6, <1>7, <1>8, <1>9, <1>10, <1>11, <1>12, <1>13, <1>14 DEF JobSteps

(* A function stays one into its set when one of its values is replaced.    *)
LEMMA PutTyped ==
  ASSUME NEW S, NEW T, NEW f \in [S -> T], NEW k \in S, NEW v \in T
  PROVE  [f EXCEPT ![k] = v] \in [S -> T]
  OBVIOUS

(* A step of a worker keeps the types of the state.                         *)
LEMMA WorkTypesKept ==
  ASSUME WorkTypes, NEW j \in WorkJobs, JobSteps(j), Behind(j)
  PROVE  WorkTypes'
<1>pc. pc \in [WorkJobs -> WorkPlaces]
  BY DEF WorkTypes
<1>cycle. cycle \in [WorkJobs -> Nat] /\ \A k \in WorkJobs : cycle[k] <= Len(Names[k])
  BY DEF WorkTypes
<1>rep. rep \in [WorkJobs -> Nat] /\ \A k \in WorkJobs : rep[k] <= Repeats[k]
  BY DEF WorkTypes
<1>left. left \in [WorkJobs -> [trials : 0..Trials, periods : 0..Periods]]
  BY DEF WorkTypes
<1>work. work \in [WorkJobs -> Int]
  BY DEF WorkTypes
<1>rows. rows \in [WorkJobs -> Seq(RowType)]
  BY DEF WorkTypes
<1>events. events \in [WorkJobs -> Seq(EndMarks)]
  BY DEF WorkTypes
<1>held. DOMAIN held = WorkJobs /\ held = [k \in WorkJobs |-> held[k]]
  BY DEF WorkTypes
<1>newest. newest \in WorkJobs \cup {"none"}
  BY DEF WorkTypes
<1>bw_stopped. bw_stopped \in [WorkJobs -> BOOLEAN]
  BY DEF WorkTypes
<1> USE DEF Worker!Go, Worker!Say, Worker!At
<1>0. /\ Names \in [WorkJobs -> Seq(STRING)] /\ Repeats \in [WorkJobs -> Nat \ {0}]
      /\ Trials \in Nat \ {0} /\ Periods \in Nat \ {0}
      /\ \A k \in WorkJobs : Len(Names[k]) \in Nat
  <2>1. /\ Names \in [WorkJobs -> Seq(STRING)] /\ Repeats \in [WorkJobs -> Nat \ {0}]
        /\ Trials \in Nat \ {0} /\ Periods \in Nat \ {0}
    BY Assumptions DEF Worker!WorkerAssumption
  <2> QED
    BY <2>1
<1>1. CASE Worker!Begin(j)
  <2>1. pc' \in [WorkJobs -> WorkPlaces]
    BY <1>pc, <1>1 DEF Worker!Begin, WorkPlaces
  <2>2. events' \in [WorkJobs -> Seq(EndMarks)]
    <3>1. events[j] \in Seq(EndMarks)
      BY <1>events
    <3>2. Append(events[j], "job_started") \in Seq(EndMarks)
      <4>1. "job_started" \in EndMarks
        BY DEF EndMarks
      <4> QED
        BY <3>1, <4>1, AppendProperties
    <3>3. events' = [events EXCEPT ![j] = Append(events[j], "job_started")]
      BY <1>1 DEF Worker!Begin
    <3> QED
      BY <1>events, <3>2, <3>3, PutTyped
  <2>3. UNCHANGED <<cycle, rep, left, work, rows, held, newest, bw_stopped>>
    BY <1>1 DEF Worker!Begin
  <2> QED
 BY <1>pc, <1>cycle, <1>rep, <1>left, <1>work, <1>rows, <1>events, <1>held, <1>newest, <1>bw_stopped,
       <2>1, <2>2, <2>3 DEF WorkTypes
<1>2. CASE Worker!StartCycle(j)
  <2>1. pc' \in [WorkJobs -> WorkPlaces]
    BY <1>pc, <1>2 DEF Worker!StartCycle, WorkPlaces
  <2>2. cycle' \in [WorkJobs -> Nat] /\ \A k \in WorkJobs : cycle'[k] <= Len(Names[k])
    <3>1. CASE bw_stopped[j]
      <4>1. cycle' = cycle
        BY <1>2, <3>1 DEF Worker!StartCycle
      <4> QED
        BY <1>cycle, <4>1
    <3>2. CASE ~bw_stopped[j]
      <4>1. cycle' = [cycle EXCEPT ![j] = cycle[j] + 1] /\ cycle[j] < Len(Names[j])
        BY <1>2, <3>2 DEF Worker!StartCycle
      <4>2. cycle[j] \in Nat /\ cycle[j] + 1 \in Nat
        BY <1>cycle
      <4>3. cycle' \in [WorkJobs -> Nat]
        BY <1>cycle, <4>1, <4>2, PutTyped
      <4>4. \A k \in WorkJobs : cycle'[k] = IF k = j THEN cycle[j] + 1 ELSE cycle[k]
        BY <1>cycle, <4>1
      <4>5. cycle[j] + 1 <= Len(Names[j])
        BY <1>0, <4>1, <4>2
      <4> QED
        BY <1>cycle, <4>3, <4>4, <4>5
    <3> QED
      BY <3>1, <3>2
  <2>3. rep' \in [WorkJobs -> Nat] /\ \A k \in WorkJobs : rep'[k] <= Repeats[k]
    <3>1. CASE bw_stopped[j]
      <4>1. rep' = rep
        BY <1>2, <3>1 DEF Worker!StartCycle
      <4> QED
        BY <1>rep, <4>1
    <3>2. CASE ~(bw_stopped[j])
      <4>1. rep' = [rep EXCEPT ![j] = 0]
        BY <1>2, <3>2 DEF Worker!StartCycle
      <4>2. rep[j] \in Nat /\ 0 \in Nat /\ Repeats[j] \in Nat
        BY <1>0, <1>rep
      <4>3. rep' \in [WorkJobs -> Nat]
        BY <1>rep, <4>1, <4>2, PutTyped
      <4>4. \A k \in WorkJobs : rep'[k] = IF k = j THEN 0 ELSE rep[k]
        BY <1>rep, <4>1
      <4>5. 0 <= Repeats[j]
        BY <4>1, <4>2
      <4> QED
        BY <1>rep, <4>3, <4>4, <4>5
    <3> QED
      BY <3>1, <3>2
  <2>4. UNCHANGED <<left, work, rows, events, held, newest, bw_stopped>>
    BY <1>2 DEF Worker!StartCycle
  <2> QED
 BY <1>pc, <1>cycle, <1>rep, <1>left, <1>work, <1>rows, <1>events, <1>held, <1>newest, <1>bw_stopped,
       <2>1, <2>2, <2>3, <2>4 DEF WorkTypes
<1>3. CASE Worker!StartRep(j)
  <2>1. pc' \in [WorkJobs -> WorkPlaces]
    BY <1>pc, <1>3 DEF Worker!StartRep, WorkPlaces
  <2>2. rep' \in [WorkJobs -> Nat] /\ \A k \in WorkJobs : rep'[k] <= Repeats[k]
    <3>1. CASE Repeats[j] > 1 /\ bw_stopped[j]
      <4>1. rep' = rep
        BY <1>3, <3>1 DEF Worker!StartRep
      <4> QED
        BY <1>rep, <4>1
    <3>2. CASE ~(Repeats[j] > 1 /\ bw_stopped[j])
      <4>1. rep' = [rep EXCEPT ![j] = rep[j] + 1] /\ rep[j] < Repeats[j]
        BY <1>3, <3>2 DEF Worker!StartRep
      <4>2. rep[j] \in Nat /\ rep[j] + 1 \in Nat /\ Repeats[j] \in Nat
        BY <1>0, <1>rep
      <4>3. rep' \in [WorkJobs -> Nat]
        BY <1>rep, <4>1, <4>2, PutTyped
      <4>4. \A k \in WorkJobs : rep'[k] = IF k = j THEN rep[j] + 1 ELSE rep[k]
        BY <1>rep, <4>1
      <4>5. rep[j] + 1 <= Repeats[j]
        BY <4>1, <4>2
      <4> QED
        BY <1>rep, <4>3, <4>4, <4>5
    <3> QED
      BY <3>1, <3>2
  <2>3. left' \in [WorkJobs -> [trials : 0..Trials, periods : 0..Periods]]
    <3>1. CASE Repeats[j] > 1 /\ bw_stopped[j]
      <4>1. left' = left
        BY <1>3, <3>1 DEF Worker!StartRep
      <4> QED
        BY <1>left, <4>1
    <3>2. CASE ~(Repeats[j] > 1 /\ bw_stopped[j])
      <4>1. left' = [left EXCEPT ![j] = [trials |-> Trials, periods |-> Periods]]
        BY <1>3, <3>2 DEF Worker!StartRep
      <4>2. left[j] \in [trials : 0..Trials, periods : 0..Periods]
        BY <1>left
      <4>3. [trials |-> Trials, periods |-> Periods] \in [trials : 0..Trials, periods : 0..Periods]
        BY <1>0, <4>1, <4>2
      <4> QED
        BY <1>left, <4>1, <4>3, PutTyped
    <3> QED
      BY <3>1, <3>2
  <2>4. DOMAIN held' = WorkJobs /\ held' = [k \in WorkJobs |-> held'[k]]
    BY <1>held, <1>3 DEF Worker!StartRep
  <2>5. UNCHANGED <<cycle, work, rows, events, newest, bw_stopped>>
    BY <1>3 DEF Worker!StartRep
  <2> QED
 BY <1>pc, <1>cycle, <1>rep, <1>left, <1>work, <1>rows, <1>events, <1>held, <1>newest, <1>bw_stopped,
       <2>1, <2>2, <2>3, <2>4, <2>5 DEF WorkTypes
<1>4. CASE Worker!Trial(j)
  <2>1. pc' \in [WorkJobs -> WorkPlaces]
    BY <1>pc, <1>4 DEF Worker!Trial, Worker!Report, WorkPlaces
  <2>2. left' \in [WorkJobs -> [trials : 0..Trials, periods : 0..Periods]]
    <3>1. CASE bw_stopped[j]
      <4>1. left' = left
        BY <1>4, <3>1 DEF Worker!Trial, Worker!Report
      <4> QED
        BY <1>left, <4>1
    <3>2. CASE ~(bw_stopped[j])
      <4>1. left' = [left EXCEPT ![j] = [left[j] EXCEPT !.trials = left[j].trials - 1]] /\ left[j].trials > 0
        BY <1>4, <3>2 DEF Worker!Trial, Worker!Report
      <4>2. left[j] \in [trials : 0..Trials, periods : 0..Periods]
        BY <1>left
      <4>3. [left[j] EXCEPT !.trials = left[j].trials - 1] \in [trials : 0..Trials, periods : 0..Periods]
        <5>1. left[j].trials \in 0..Trials
          BY <4>2
        <5>2. left[j].trials - 1 \in 0..Trials
          BY <1>0, <4>1, <5>1
        <5> QED
          BY <4>2, <5>2
      <4> QED
        BY <1>left, <4>1, <4>3, PutTyped
    <3> QED
      BY <3>1, <3>2
  <2>3. work' \in [WorkJobs -> Int]
    BY <1>work, <1>4 DEF Worker!Trial, Worker!Report
  <2>4. UNCHANGED <<cycle, rep, rows, events, held, newest, bw_stopped>>
    BY <1>4 DEF Worker!Trial, Worker!Report
  <2> QED
 BY <1>pc, <1>cycle, <1>rep, <1>left, <1>work, <1>rows, <1>events, <1>held, <1>newest, <1>bw_stopped,
       <2>1, <2>2, <2>3, <2>4 DEF WorkTypes
<1>5. CASE Worker!SaveImportances(j)
  <2>1. newest' \in WorkJobs \cup {"none"}
    BY <1>newest, <1>5 DEF Worker!SaveImportances
  <2>2. UNCHANGED <<pc, cycle, rep, left, work, rows, events, held, bw_stopped>>
    BY <1>5 DEF Worker!SaveImportances
  <2> QED
 BY <1>pc, <1>cycle, <1>rep, <1>left, <1>work, <1>rows, <1>events, <1>held, <1>newest, <1>bw_stopped,
       <2>1, <2>2 DEF WorkTypes
<1>6. CASE Worker!Period(j)
  <2>1. pc' \in [WorkJobs -> WorkPlaces]
    BY <1>pc, <1>6 DEF Worker!Period, Worker!Report, WorkPlaces
  <2>2. left' \in [WorkJobs -> [trials : 0..Trials, periods : 0..Periods]]
    <3>1. CASE bw_stopped[j]
      <4>1. left' = left
        BY <1>6, <3>1 DEF Worker!Period, Worker!Report
      <4> QED
        BY <1>left, <4>1
    <3>2. CASE ~(bw_stopped[j])
      <4>1. left' = [left EXCEPT ![j] = [left[j] EXCEPT !.periods = left[j].periods - 1]] /\ left[j].periods > 0
        BY <1>6, <3>2 DEF Worker!Period, Worker!Report
      <4>2. left[j] \in [trials : 0..Trials, periods : 0..Periods]
        BY <1>left
      <4>3. [left[j] EXCEPT !.periods = left[j].periods - 1] \in [trials : 0..Trials, periods : 0..Periods]
        <5>1. left[j].periods \in 0..Periods
          BY <4>2
        <5>2. left[j].periods - 1 \in 0..Periods
          BY <1>0, <4>1, <5>1
        <5> QED
          BY <4>2, <5>2
      <4> QED
        BY <1>left, <4>1, <4>3, PutTyped
    <3> QED
      BY <3>1, <3>2
  <2>3. work' \in [WorkJobs -> Int]
    BY <1>work, <1>6 DEF Worker!Period, Worker!Report
  <2>4. UNCHANGED <<cycle, rep, rows, events, held, newest, bw_stopped>>
    BY <1>6 DEF Worker!Period, Worker!Report
  <2> QED
 BY <1>pc, <1>cycle, <1>rep, <1>left, <1>work, <1>rows, <1>events, <1>held, <1>newest, <1>bw_stopped,
       <2>1, <2>2, <2>3, <2>4 DEF WorkTypes
<1>7. CASE Worker!EndRep(j)
  <2>1. pc' \in [WorkJobs -> WorkPlaces]
    BY <1>pc, <1>7 DEF Worker!EndRep, WorkPlaces
  <2>2. UNCHANGED <<cycle, rep, left, work, rows, events, held, newest, bw_stopped>>
    BY <1>7 DEF Worker!EndRep
  <2> QED
 BY <1>pc, <1>cycle, <1>rep, <1>left, <1>work, <1>rows, <1>events, <1>held, <1>newest, <1>bw_stopped,
       <2>1, <2>2 DEF WorkTypes
<1>8. CASE Worker!Collect(j)
  <2>1. pc' \in [WorkJobs -> WorkPlaces]
    BY <1>pc, <1>8 DEF Worker!Collect, WorkPlaces
  <2>2. rows' \in [WorkJobs -> Seq(RowType)]
    <3>1. rows' = [rows EXCEPT ![j] = Append(rows[j], Worker!RowOf(j))] /\ pc[j] = "repeat"
      BY <1>8 DEF Worker!Collect
    <3>2. cycle[j] \in 1..Len(Names[j])
      <4>1. cycle[j] > 0
        BY <3>1 DEF Behind
      <4> QED
        BY <1>0, <1>cycle, <4>1
    <3>3. Names[j][cycle[j]] \in STRING
      <4>1. Names[j] \in Seq(STRING)
        BY <1>0
      <4> QED
        BY <3>2, <4>1
    <3>4. rep[j] \in Nat
      BY <1>rep
    <3>5. Worker!RowOf(j) \in RowType
      BY <1>newest, <3>3, <3>4 DEF Worker!RowOf, RowType
    <3>6. rows[j] \in Seq(RowType)
      BY <1>rows
    <3>7. Append(rows[j], Worker!RowOf(j)) \in Seq(RowType)
      BY <3>5, <3>6
    <3> QED
      BY <1>rows, <3>1, <3>7, PutTyped
  <2>3. events' \in [WorkJobs -> Seq(EndMarks)]
    <3>1. events[j] \in Seq(EndMarks)
      BY <1>events
    <3>2. Append(events[j], "model_complete") \in Seq(EndMarks)
      <4>1. "model_complete" \in EndMarks
        BY DEF EndMarks
      <4> QED
        BY <3>1, <4>1, AppendProperties
    <3>3. events' = [events EXCEPT ![j] = Append(events[j], "model_complete")]
      BY <1>8 DEF Worker!Collect
    <3> QED
      BY <1>events, <3>2, <3>3, PutTyped
  <2>4. UNCHANGED <<cycle, rep, left, work, held, newest, bw_stopped>>
    BY <1>8 DEF Worker!Collect
  <2> QED
 BY <1>pc, <1>cycle, <1>rep, <1>left, <1>work, <1>rows, <1>events, <1>held, <1>newest, <1>bw_stopped,
       <2>1, <2>2, <2>3, <2>4 DEF WorkTypes
<1>9. CASE Worker!Free(j)
  <2>1. pc' \in [WorkJobs -> WorkPlaces]
    BY <1>pc, <1>9 DEF Worker!Free, WorkPlaces
  <2>2. UNCHANGED <<cycle, rep, left, work, rows, events, held, newest, bw_stopped>>
    BY <1>9 DEF Worker!Free
  <2> QED
 BY <1>pc, <1>cycle, <1>rep, <1>left, <1>work, <1>rows, <1>events, <1>held, <1>newest, <1>bw_stopped,
       <2>1, <2>2 DEF WorkTypes
<1>10. CASE Worker!Complete(j)
  <2>1. pc' \in [WorkJobs -> WorkPlaces]
    BY <1>pc, <1>10 DEF Worker!Complete, WorkPlaces
  <2>2. events' \in [WorkJobs -> Seq(EndMarks)]
    <3>1. events[j] \in Seq(EndMarks)
      BY <1>events
    <3>2. Append(events[j], "job_complete") \in Seq(EndMarks)
      <4>1. "job_complete" \in EndMarks
        BY DEF EndMarks
      <4> QED
        BY <3>1, <4>1, AppendProperties
    <3>3. events' = [events EXCEPT ![j] = Append(events[j], "job_complete")]
      BY <1>10 DEF Worker!Complete
    <3> QED
      BY <1>events, <3>2, <3>3, PutTyped
  <2>3. UNCHANGED <<cycle, rep, left, work, rows, held, newest, bw_stopped>>
    BY <1>10 DEF Worker!Complete
  <2> QED
 BY <1>pc, <1>cycle, <1>rep, <1>left, <1>work, <1>rows, <1>events, <1>held, <1>newest, <1>bw_stopped,
       <2>1, <2>2, <2>3 DEF WorkTypes
<1>11. CASE Worker!Raise(j)
  <2>1. pc' \in [WorkJobs -> WorkPlaces]
    BY <1>pc, <1>11 DEF Worker!Raise, WorkPlaces
  <2>2. UNCHANGED <<cycle, rep, left, work, rows, events, held, newest, bw_stopped>>
    BY <1>11 DEF Worker!Raise
  <2> QED
 BY <1>pc, <1>cycle, <1>rep, <1>left, <1>work, <1>rows, <1>events, <1>held, <1>newest, <1>bw_stopped,
       <2>1, <2>2 DEF WorkTypes
<1>12. CASE Worker!Handle(j)
  <2>1. pc' \in [WorkJobs -> WorkPlaces]
    BY <1>pc, <1>12 DEF Worker!Handle, WorkPlaces
  <2>2. events' \in [WorkJobs -> Seq(EndMarks)]
    <3>1. events[j] \in Seq(EndMarks)
      BY <1>events
    <3>2. Append(events[j], "job_failed") \in Seq(EndMarks)
      <4>1. "job_failed" \in EndMarks
        BY DEF EndMarks
      <4> QED
        BY <3>1, <4>1, AppendProperties
    <3>3. events' = [events EXCEPT ![j] = Append(events[j], "job_failed")]
      BY <1>12 DEF Worker!Handle
    <3> QED
      BY <1>events, <3>2, <3>3, PutTyped
  <2>3. DOMAIN held' = WorkJobs /\ held' = [k \in WorkJobs |-> held'[k]]
    BY <1>held, <1>12 DEF Worker!Handle
  <2>4. UNCHANGED <<cycle, rep, left, work, rows, newest, bw_stopped>>
    BY <1>12 DEF Worker!Handle
  <2> QED
 BY <1>pc, <1>cycle, <1>rep, <1>left, <1>work, <1>rows, <1>events, <1>held, <1>newest, <1>bw_stopped,
       <2>1, <2>2, <2>3, <2>4 DEF WorkTypes
<1>13. CASE Worker!Finally(j)
  <2>1. pc' \in [WorkJobs -> WorkPlaces]
    BY <1>pc, <1>13 DEF Worker!Finally, WorkPlaces
  <2>2. DOMAIN held' = WorkJobs /\ held' = [k \in WorkJobs |-> held'[k]]
    BY <1>held, <1>13 DEF Worker!Finally
  <2>3. UNCHANGED <<cycle, rep, left, work, rows, events, newest, bw_stopped>>
    BY <1>13 DEF Worker!Finally
  <2> QED
 BY <1>pc, <1>cycle, <1>rep, <1>left, <1>work, <1>rows, <1>events, <1>held, <1>newest, <1>bw_stopped,
       <2>1, <2>2, <2>3 DEF WorkTypes
<1>14. CASE Worker!Stop(j)
  <2>1. bw_stopped' \in [WorkJobs -> BOOLEAN]
    BY <1>bw_stopped, <1>14 DEF Worker!Stop
  <2>2. UNCHANGED <<pc, cycle, rep, left, work, rows, events, held, newest>>
    BY <1>14 DEF Worker!Stop
  <2> QED
 BY <1>pc, <1>cycle, <1>rep, <1>left, <1>work, <1>rows, <1>events, <1>held, <1>newest, <1>bw_stopped,
       <2>1, <2>2 DEF WorkTypes
<1> QED
  BY <1>1, <1>2, <1>3, <1>4, <1>5, <1>6, <1>7, <1>8, <1>9, <1>10, <1>11, <1>12, <1>13, <1>14 DEF JobSteps
(* What is left alone keeps what was said of it.                            *)
LEMMA OthersKeep ==
  ASSUME NEW k \in WorkJobs, SameJob(k), Behind(k), EndTold(k)
  PROVE  Behind(k)' /\ EndTold(k)'
<1>1. Worker!Ends(k)' = Worker!Ends(k)
  BY DEF SameJob, Worker!Ends
<1>2. PerModel(k)' = PerModel(k) /\ OfOneRepetition' = OfOneRepetition
  BY DEF PerModel, OfOneRepetition
<1>3. Behind(k)'
  BY <1>2 DEF SameJob, Behind
<1>4. EndTold(k)'
  BY <1>1, <1>2 DEF SameJob, EndTold
<1> QED
  BY <1>3, <1>4

(* The numbers of a job are numbers.                                        *)
LEMMA JobNumbers ==
  ASSUME WorkTypes, NEW j \in WorkJobs
  PROVE  /\ OfOneRepetition \in Nat /\ PerModel(j) \in Nat /\ PerModel(j) = Repeats[j] * OfOneRepetition
         /\ Repeats[j] \in Nat /\ cycle[j] \in Nat /\ rep[j] \in Nat /\ work[j] \in Int
         /\ left[j].trials \in Nat /\ left[j].periods \in Nat /\ Len(Names[j]) \in Nat
         /\ rows[j] \in Seq(RowType) /\ events[j] \in Seq(EndMarks)
         /\ Trials \in Nat /\ Periods \in Nat
<1>1. /\ Names \in [WorkJobs -> Seq(STRING)] /\ Repeats \in [WorkJobs -> Nat \ {0}]
      /\ Trials \in Nat \ {0} /\ Periods \in Nat \ {0}
  BY Assumptions DEF Worker!WorkerAssumption
<1>2. OfOneRepetition \in Nat /\ Repeats[j] \in Nat /\ Len(Names[j]) \in Nat /\ Trials \in Nat /\ Periods \in Nat
  BY <1>1 DEF OfOneRepetition
<1>3. PerModel(j) \in Nat /\ PerModel(j) = Repeats[j] * OfOneRepetition
  BY <1>2 DEF PerModel
<1>4. cycle[j] \in Nat /\ rep[j] \in Nat /\ work[j] \in Int
  BY DEF WorkTypes
<1>5. left[j] \in [trials : 0..Trials, periods : 0..Periods]
  BY DEF WorkTypes
<1>6. rows[j] \in Seq(RowType) /\ events[j] \in Seq(EndMarks)
  BY DEF WorkTypes
<1> QED
  BY <1>2, <1>3, <1>4, <1>5, <1>6

(* A product of whole numbers is one.                                       *)
LEMMA ProductTyped == ASSUME NEW x \in Int, NEW y \in Int PROVE x * y \in Int
  OBVIOUS

(* A row that is collected is of a model of the job.                        *)
LEMMA RowTyped ==
  ASSUME WorkTypes, NEW j \in WorkJobs, Behind(j), pc[j] = "repeat"
  PROVE  Worker!RowOf(j) \in RowType
<1>1. Names[j] \in Seq(STRING)
  BY Assumptions DEF Worker!WorkerAssumption
<1>2. cycle[j] \in 1..Len(Names[j])
  <2>1. cycle[j] > 0 /\ cycle[j] \in Nat /\ cycle[j] <= Len(Names[j])
    BY DEF Behind, WorkTypes
  <2> QED
    BY <1>1, <2>1
<1>3. Names[j][cycle[j]] \in STRING
  BY <1>1, <1>2
<1>4. rep[j] \in Nat /\ newest \in WorkJobs \cup {"none"}
  BY DEF WorkTypes
<1> QED
  BY <1>3, <1>4 DEF Worker!RowOf, RowType

(* A step adds to the work what it takes from the repetition.               *)
LEMMA BehindKept ==
  ASSUME WorkTypes, NEW j \in WorkJobs, JobSteps(j), Behind(j)
  PROVE  Behind(j)'
<1>0. /\ j \in DOMAIN pc /\ j \in DOMAIN cycle /\ j \in DOMAIN rep /\ j \in DOMAIN left
      /\ j \in DOMAIN work /\ j \in DOMAIN rows
  BY DEF WorkTypes
<1>n. /\ OfOneRepetition \in Nat /\ PerModel(j) \in Nat /\ PerModel(j) = Repeats[j] * OfOneRepetition
      /\ Repeats[j] \in Nat /\ cycle[j] \in Nat /\ rep[j] \in Nat /\ work[j] \in Int
      /\ left[j].trials \in Nat /\ left[j].periods \in Nat /\ rows[j] \in Seq(RowType)
      /\ Trials \in Nat /\ Periods \in Nat
  BY JobNumbers
<1>m. /\ cycle[j] \in Nat /\ rep[j] \in Nat /\ work[j] \in Int /\ Trials \in Nat /\ Periods \in Nat
      /\ left[j].trials \in Nat /\ left[j].periods \in Nat
  BY <1>n
<1>c. PerModel(j)' = PerModel(j) /\ OfOneRepetition' = OfOneRepetition
  BY DEF PerModel, OfOneRepetition
<1>l. left[j] \in [trials : 0..Trials, periods : 0..Periods]
  BY DEF WorkTypes
<1> USE DEF Worker!Go, Worker!At
<1>1. CASE Worker!Begin(j)
  <2>1. pc[j] = "begin" /\ pc'[j] = "cycle" /\ cycle'[j] = cycle[j] /\ rep'[j] = rep[j] /\ left'[j] = left[j] /\ work'[j] = work[j] /\ rows'[j] = rows[j]
    BY <1>0, <1>1 DEF Worker!Begin
  <2> QED
    BY <1>c, <1>n, <2>1 DEF Behind
<1>2. CASE Worker!StartCycle(j)
  <2>1. /\ pc[j] = "cycle" /\ work'[j] = work[j] /\ rows'[j] = rows[j]
        /\ \/ pc'[j] = "interrupted"
           \/ pc'[j] = "repeat" /\ cycle'[j] = cycle[j] + 1 /\ rep'[j] = 0
    BY <1>0, <1>2 DEF Worker!StartCycle
  <2> QED
    BY <1>c, <1>n, <2>1 DEF Behind
<1>3. CASE Worker!StartRep(j)
  <2>1. /\ pc[j] = "repeat" /\ work'[j] = work[j] /\ rows'[j] = rows[j]
        /\ \/ pc'[j] = "interrupted"
           \/ /\ pc'[j] = "simulate" /\ cycle'[j] = cycle[j] /\ rep'[j] = rep[j] + 1
              /\ left'[j].trials = Trials /\ left'[j].periods = Periods
    BY <1>0, <1>3 DEF Worker!StartRep
  <2>2. work[j] = (cycle[j] - 1) * PerModel(j) + rep[j] * OfOneRepetition /\ Len(rows[j]) = cycle[j] - 1 /\ cycle[j] > 0
        /\ \A i \in DOMAIN rows[j] : rows[j][i].model = Names[j][i]
    BY <2>1, <1>n DEF Behind
  <2>3. (rep[j] + 1) * OfOneRepetition = rep[j] * OfOneRepetition + (Trials + Periods)
    BY <1>n DEF OfOneRepetition
  <2>4. pc'[j] = "simulate" =>
          work'[j] + (left'[j].trials + left'[j].periods) = (cycle'[j] - 1) * PerModel(j) + rep'[j] * OfOneRepetition
    <3> DEFINE A == (cycle[j] - 1) * PerModel(j)  B == rep[j] * OfOneRepetition
    <3>1. A \in Int /\ B \in Int /\ work[j] = A + B
      <4>1. A \in Int
        <5>1. cycle[j] - 1 \in Int /\ PerModel(j) \in Int
          BY <1>m, <1>n
        <5> QED
          BY <5>1, ProductTyped
      <4>2. B \in Int
        BY <1>n, ProductTyped
      <4> QED
        BY <2>2, <4>1, <4>2
    <3>2. pc'[j] = "simulate" => (cycle'[j] - 1) * PerModel(j) = A /\ rep'[j] * OfOneRepetition = B + (Trials + Periods)
      BY <2>1, <2>3
    <3> HIDE DEF A, B
    <3> QED
      <4>1. pc'[j] = "simulate" => left'[j].trials = Trials /\ left'[j].periods = Periods /\ work'[j] = work[j]
        BY <2>1
      <4> QED
        BY <1>m, <3>1, <3>2, <4>1
  <2> QED
    BY <1>c, <2>1, <2>2, <2>4 DEF Behind
<1>4. CASE Worker!Trial(j)
  <2>1. /\ pc[j] = "simulate" /\ rows'[j] = rows[j] /\ cycle'[j] = cycle[j] /\ rep'[j] = rep[j]
        /\ \/ pc'[j] = "interrupted"
           \/ /\ pc'[j] = "simulate" /\ work'[j] = work[j] + 1 /\ left'[j] = [left[j] EXCEPT !.trials = @ - 1]
    BY <1>0, <1>4 DEF Worker!Trial, Worker!Report
  <2>2. pc'[j] = "simulate" => left'[j].trials = left[j].trials - 1 /\ left'[j].periods = left[j].periods
    BY <1>l, <2>1
  <2>3. /\ work[j] + (left[j].trials + left[j].periods) = (cycle[j] - 1) * PerModel(j) + rep[j] * OfOneRepetition
        /\ Len(rows[j]) = cycle[j] - 1 /\ cycle[j] > 0
        /\ \A i \in DOMAIN rows[j] : rows[j][i].model = Names[j][i]
    BY <2>1 DEF Behind
  <2>4. pc'[j] = "simulate" =>
          work'[j] + (left'[j].trials + left'[j].periods) = (cycle'[j] - 1) * PerModel(j) + rep'[j] * OfOneRepetition
    <3> DEFINE A == (cycle[j] - 1) * PerModel(j) + rep[j] * OfOneRepetition
    <3>1. work[j] + (left[j].trials + left[j].periods) = A
      BY <2>3
    <3>2. (cycle'[j] - 1) * PerModel(j) + rep'[j] * OfOneRepetition = A
      BY <2>1
    <3> HIDE DEF A
    <3> QED
      <4>1. pc'[j] = "simulate" => work'[j] = work[j] + 1
        BY <2>1
      <4> QED
        BY <1>m, <2>2, <3>1, <3>2, <4>1
  <2> QED
    BY <1>c, <2>1, <2>3, <2>4 DEF Behind
<1>6. CASE Worker!Period(j)
  <2>1. /\ pc[j] = "simulate" /\ rows'[j] = rows[j] /\ cycle'[j] = cycle[j] /\ rep'[j] = rep[j]
        /\ \/ pc'[j] = "interrupted"
           \/ /\ pc'[j] = "simulate" /\ work'[j] = work[j] + 1 /\ left'[j] = [left[j] EXCEPT !.periods = @ - 1]
    BY <1>0, <1>6 DEF Worker!Period, Worker!Report
  <2>2. pc'[j] = "simulate" => left'[j].periods = left[j].periods - 1 /\ left'[j].trials = left[j].trials
    BY <1>l, <2>1
  <2>3. /\ work[j] + (left[j].trials + left[j].periods) = (cycle[j] - 1) * PerModel(j) + rep[j] * OfOneRepetition
        /\ Len(rows[j]) = cycle[j] - 1 /\ cycle[j] > 0
        /\ \A i \in DOMAIN rows[j] : rows[j][i].model = Names[j][i]
    BY <2>1 DEF Behind
  <2>4. pc'[j] = "simulate" =>
          work'[j] + (left'[j].trials + left'[j].periods) = (cycle'[j] - 1) * PerModel(j) + rep'[j] * OfOneRepetition
    <3> DEFINE A == (cycle[j] - 1) * PerModel(j) + rep[j] * OfOneRepetition
    <3>1. work[j] + (left[j].trials + left[j].periods) = A
      BY <2>3
    <3>2. (cycle'[j] - 1) * PerModel(j) + rep'[j] * OfOneRepetition = A
      BY <2>1
    <3> HIDE DEF A
    <3> QED
      <4>1. pc'[j] = "simulate" => work'[j] = work[j] + 1
        BY <2>1
      <4> QED
        BY <1>m, <2>2, <3>1, <3>2, <4>1
  <2> QED
    BY <1>c, <2>1, <2>3, <2>4 DEF Behind
<1>5. CASE Worker!SaveImportances(j)
  <2>1. pc'[j] = pc[j] /\ cycle'[j] = cycle[j] /\ rep'[j] = rep[j] /\ left'[j] = left[j] /\ work'[j] = work[j] /\ rows'[j] = rows[j]
    BY <1>0, <1>5 DEF Worker!SaveImportances
  <2> QED
    BY <1>c, <1>n, <2>1 DEF Behind
<1>7. CASE Worker!EndRep(j)
  <2>1. pc[j] = "simulate" /\ pc'[j] = "repeat" /\ left[j].trials = 0 /\ left[j].periods = 0 /\ cycle'[j] = cycle[j] /\ rep'[j] = rep[j] /\ left'[j] = left[j] /\ work'[j] = work[j] /\ rows'[j] = rows[j]
    BY <1>0, <1>7 DEF Worker!EndRep
  <2> QED
    BY <1>c, <1>n, <2>1 DEF Behind
<1>8. CASE Worker!Collect(j)
  <2>1. /\ pc[j] = "repeat" /\ pc'[j] = "free" /\ rep[j] = Repeats[j] /\ cycle'[j] = cycle[j]
        /\ work'[j] = work[j] /\ rows'[j] = Append(rows[j], Worker!RowOf(j))
    BY <1>0, <1>8 DEF Worker!Collect
  <2>2. cycle[j] > 0 /\ Len(rows[j]) = cycle[j] - 1 /\ work[j] = (cycle[j] - 1) * PerModel(j) + PerModel(j)
    BY <1>n, <2>1 DEF Behind
  <2>3. work[j] = cycle[j] * PerModel(j)
    BY <1>n, <2>2
  <2>6. Worker!RowOf(j) \in RowType
    BY <2>1, RowTyped
  <2>7. /\ Len(rows'[j]) = Len(rows[j]) + 1 /\ rows'[j][Len(rows[j]) + 1] = Worker!RowOf(j)
        /\ rows'[j] \in Seq(RowType) /\ \A i \in 1..Len(rows[j]) : rows'[j][i] = rows[j][i]
    BY <1>n, <2>1, <2>6, AppendProperties
  <2>4. Len(rows'[j]) = cycle[j] /\ rows'[j][cycle[j]].model = Names[j][cycle[j]]
    <3>1. Len(rows[j]) + 1 = cycle[j]
      BY <1>m, <2>2
    <3>2. Worker!RowOf(j).model = Names[j][cycle[j]]
      BY DEF Worker!RowOf
    <3> QED
      BY <2>7, <3>1, <3>2
  <2>5. \A i \in DOMAIN rows'[j] : rows'[j][i].model = Names[j][i]
    <3> SUFFICES ASSUME NEW i \in DOMAIN rows'[j] PROVE rows'[j][i].model = Names[j][i]
      OBVIOUS
    <3>1. i = cycle[j] \/ (i \in DOMAIN rows[j] /\ rows'[j][i] = rows[j][i])
      <4>1. DOMAIN rows'[j] = 1..cycle[j] /\ DOMAIN rows[j] = 1..(cycle[j] - 1) /\ Len(rows[j]) = cycle[j] - 1
        <5>1. DOMAIN rows'[j] = 1..Len(rows'[j]) /\ DOMAIN rows[j] = 1..Len(rows[j])
          BY <1>n, <2>7
        <5> QED
          BY <2>2, <2>4, <5>1
      <4> QED
        <5>1. i \in 1..cycle[j] /\ cycle[j] \in Nat
          BY <1>m, <4>1
        <5>2. i = cycle[j] \/ i \in 1..(cycle[j] - 1)
          BY <5>1
        <5>3. i \in 1..(cycle[j] - 1) => i \in DOMAIN rows[j] /\ i \in 1..Len(rows[j])
          BY <4>1
        <5>4. i \in 1..Len(rows[j]) => rows'[j][i] = rows[j][i]
          BY <2>7
        <5> QED
          BY <5>2, <5>3, <5>4
    <3> QED
      BY <2>4, <3>1 DEF Behind
  <2> QED
    BY <1>c, <1>n, <2>1, <2>3, <2>4, <2>5 DEF Behind
<1>9. CASE Worker!Free(j)
  <2>1. pc[j] = "free" /\ pc'[j] = "cycle" /\ cycle'[j] = cycle[j] /\ rep'[j] = rep[j] /\ left'[j] = left[j] /\ work'[j] = work[j] /\ rows'[j] = rows[j]
    BY <1>0, <1>9 DEF Worker!Free
  <2> QED
    BY <1>c, <1>n, <2>1 DEF Behind
<1>10. CASE Worker!Complete(j)
  <2>1. pc[j] = "cycle" /\ pc'[j] = "finally" /\ cycle'[j] = cycle[j] /\ rep'[j] = rep[j] /\ left'[j] = left[j] /\ work'[j] = work[j] /\ rows'[j] = rows[j]
    BY <1>0, <1>10 DEF Worker!Complete
  <2> QED
    BY <1>c, <1>n, <2>1 DEF Behind
<1>11. CASE Worker!Raise(j)
  <2>1. pc'[j] = "raised" /\ cycle'[j] = cycle[j] /\ rep'[j] = rep[j] /\ left'[j] = left[j] /\ work'[j] = work[j] /\ rows'[j] = rows[j]
    BY <1>0, <1>11 DEF Worker!Raise
  <2> QED
    BY <1>c, <1>n, <2>1 DEF Behind
<1>12. CASE Worker!Handle(j)
  <2>1. pc'[j] = "finally" /\ cycle'[j] = cycle[j] /\ rep'[j] = rep[j] /\ left'[j] = left[j] /\ work'[j] = work[j] /\ rows'[j] = rows[j]
    BY <1>0, <1>12 DEF Worker!Handle
  <2> QED
    BY <1>c, <1>n, <2>1 DEF Behind
<1>13. CASE Worker!Finally(j)
  <2>1. pc'[j] = "ended" /\ cycle'[j] = cycle[j] /\ rep'[j] = rep[j] /\ left'[j] = left[j] /\ work'[j] = work[j] /\ rows'[j] = rows[j]
    BY <1>0, <1>13 DEF Worker!Finally
  <2> QED
    BY <1>c, <1>n, <2>1 DEF Behind
<1>14. CASE Worker!Stop(j)
  <2>1. pc'[j] = pc[j] /\ cycle'[j] = cycle[j] /\ rep'[j] = rep[j] /\ left'[j] = left[j] /\ work'[j] = work[j] /\ rows'[j] = rows[j]
    BY <1>0, <1>14 DEF Worker!Stop
  <2> QED
    BY <1>c, <1>n, <2>1 DEF Behind
<1> QED
  BY <1>1, <1>2, <1>3, <1>4, <1>5, <1>6, <1>7, <1>8, <1>9, <1>10, <1>11, <1>12, <1>13, <1>14 DEF JobSteps
(* An end is told once, and by a worker that is through.                    *)
LEMMA EndToldKept ==
  ASSUME WorkTypes, NEW j \in WorkJobs, JobSteps(j), Behind(j), EndTold(j)
  PROVE  EndTold(j)'
<1>0. /\ j \in DOMAIN pc /\ j \in DOMAIN work /\ j \in DOMAIN rows /\ j \in DOMAIN events
      /\ j \in DOMAIN held /\ events[j] \in Seq(EndMarks) /\ held = [k \in WorkJobs |-> held[k]]
  BY DEF WorkTypes
<1>c. PerModel(j)' = PerModel(j)
  BY DEF PerModel, OfOneRepetition
<1> DEFINE Tell(e) ==
      /\ pc[j] \notin {"finally", "ended"} /\ events'[j] = Append(events[j], e)
<1>t. ASSUME NEW e \in EndMarks, Tell(e)
      PROVE  /\ Len(events'[j]) = Len(events[j]) + 1 /\ events'[j][Len(events'[j])] = e
             /\ DOMAIN events'[j] = 1..(Len(events[j]) + 1) /\ Len(events[j]) \in Nat
             /\ \A i \in 1..Len(events[j]) : events'[j][i] \notin {"job_complete", "job_failed"}
  <2>1. /\ Append(events[j], e) \in Seq(EndMarks) /\ Len(Append(events[j], e)) = Len(events[j]) + 1
        /\ Append(events[j], e)[Len(events[j]) + 1] = e
        /\ \A i \in 1..Len(events[j]) : Append(events[j], e)[i] = events[j][i]
    BY <1>0, AppendProperties
  <2>2. DOMAIN events[j] = 1..Len(events[j]) /\ Len(events[j]) \in Nat
    BY <1>0
  <2>3. \A i \in 1..Len(events[j]) : events[j][i] \notin {"job_complete", "job_failed"}
    BY <1>t, <2>2 DEF EndTold
  <2>4. DOMAIN Append(events[j], e) = 1..(Len(events[j]) + 1)
    BY <2>1
  <2> QED
    BY <1>t, <2>1, <2>2, <2>3, <2>4
\* What is not an end is told by a worker that goes on.
<1>g. ASSUME NEW e \in {"job_started", "model_complete"}, Tell(e), pc'[j] \notin {"finally", "ended"}
      PROVE  EndTold(j)'
  <2>1. e \in EndMarks
    BY DEF EndMarks
  <2> HIDE DEF Tell
  <2>2. /\ Len(events'[j]) = Len(events[j]) + 1 /\ events'[j][Len(events'[j])] = e
        /\ DOMAIN events'[j] = 1..(Len(events[j]) + 1) /\ Len(events[j]) \in Nat
        /\ \A i \in 1..Len(events[j]) : events'[j][i] \notin {"job_complete", "job_failed"}
    BY <1>t, <1>g, <2>1
  <2>3. \A i \in DOMAIN events'[j] : events'[j][i] \notin {"job_complete", "job_failed"}
    <3> SUFFICES ASSUME NEW i \in DOMAIN events'[j] PROVE events'[j][i] \notin {"job_complete", "job_failed"}
      OBVIOUS
    <3>1. i \in 1..Len(events[j]) \/ i = Len(events'[j])
      BY <2>2
    <3> QED
      BY <2>2, <3>1
  <2> QED
    BY <1>g, <2>3 DEF EndTold
\* An end is the first one and the last event.
<1>e. ASSUME NEW e \in {"job_complete", "job_failed"}, Tell(e), pc'[j] = "finally",
             e = "job_complete" => work'[j] = Len(Names[j]) * PerModel(j) /\ Len(rows'[j]) = Len(Names[j])
      PROVE  EndTold(j)'
  <2>1. e \in EndMarks
    BY DEF EndMarks
  <2> HIDE DEF Tell
  <2>2. /\ Len(events'[j]) = Len(events[j]) + 1 /\ events'[j][Len(events'[j])] = e
        /\ DOMAIN events'[j] = 1..(Len(events[j]) + 1) /\ Len(events[j]) \in Nat
        /\ \A i \in 1..Len(events[j]) : events'[j][i] \notin {"job_complete", "job_failed"}
    BY <1>t, <1>e, <2>1
  <2>3. \A i \in DOMAIN events'[j] : events'[j][i] \in {"job_complete", "job_failed"} <=> i = Len(events'[j])
    <3> SUFFICES ASSUME NEW i \in DOMAIN events'[j]
                 PROVE  events'[j][i] \in {"job_complete", "job_failed"} <=> i = Len(events'[j])
      OBVIOUS
    <3>1. (i \in 1..Len(events[j]) /\ i # Len(events'[j])) \/ i = Len(events'[j])
      BY <2>2
    <3> QED
      BY <2>2, <3>1
  <2>4. Len(events'[j]) \in DOMAIN events'[j]
    BY <2>2
  <2>5. Worker!Ends(j)' = {Len(events'[j])}
    BY <2>3, <2>4 DEF Worker!Ends
  <2> QED
    BY <1>c, <1>e, <2>2, <2>5 DEF EndTold
\* JobSteps that say nothing.
<1>s. ASSUME pc[j] \notin {"finally", "ended"}, pc'[j] \notin {"finally", "ended"}, events'[j] = events[j]
      PROVE  EndTold(j)'
  BY <1>s DEF EndTold
<1> HIDE DEF Tell
<1> USE DEF Worker!Go, Worker!At, Worker!Say
<1>1. CASE Worker!Begin(j)
  <2>1. pc[j] \notin {"finally", "ended"} /\ pc'[j] \notin {"finally", "ended"}
        /\ events'[j] = Append(events[j], "job_started")
    BY <1>0, <1>1 DEF Worker!Begin
  <2>2. Tell("job_started")
    BY <2>1 DEF Tell
  <2> QED
    BY <1>g, <2>1, <2>2
<1>2. CASE Worker!StartCycle(j)
  <2>1. pc[j] \notin {"finally", "ended"} /\ pc'[j] \notin {"finally", "ended"} /\ events'[j] = events[j]
    BY <1>0, <1>2 DEF Worker!StartCycle
  <2> QED
    BY <1>s, <2>1
<1>3. CASE Worker!StartRep(j)
  <2>1. pc[j] \notin {"finally", "ended"} /\ pc'[j] \notin {"finally", "ended"} /\ events'[j] = events[j]
    BY <1>0, <1>3 DEF Worker!StartRep
  <2> QED
    BY <1>s, <2>1
<1>4. CASE Worker!Trial(j)
  <2>1. pc[j] \notin {"finally", "ended"} /\ pc'[j] \notin {"finally", "ended"} /\ events'[j] = events[j]
    BY <1>0, <1>4 DEF Worker!Trial, Worker!Report
  <2> QED
    BY <1>s, <2>1
<1>5. CASE Worker!SaveImportances(j)
  <2>1. pc[j] \notin {"finally", "ended"} /\ pc'[j] \notin {"finally", "ended"} /\ events'[j] = events[j]
    BY <1>0, <1>5 DEF Worker!SaveImportances
  <2> QED
    BY <1>s, <2>1
<1>6. CASE Worker!Period(j)
  <2>1. pc[j] \notin {"finally", "ended"} /\ pc'[j] \notin {"finally", "ended"} /\ events'[j] = events[j]
    BY <1>0, <1>6 DEF Worker!Period, Worker!Report
  <2> QED
    BY <1>s, <2>1
<1>7. CASE Worker!EndRep(j)
  <2>1. pc[j] \notin {"finally", "ended"} /\ pc'[j] \notin {"finally", "ended"} /\ events'[j] = events[j]
    BY <1>0, <1>7 DEF Worker!EndRep
  <2> QED
    BY <1>s, <2>1
<1>8. CASE Worker!Collect(j)
  <2>1. pc[j] \notin {"finally", "ended"} /\ pc'[j] \notin {"finally", "ended"}
        /\ events'[j] = Append(events[j], "model_complete")
    BY <1>0, <1>8 DEF Worker!Collect
  <2>2. Tell("model_complete")
    BY <2>1 DEF Tell
  <2> QED
    BY <1>g, <2>1, <2>2
<1>9. CASE Worker!Free(j)
  <2>1. pc[j] \notin {"finally", "ended"} /\ pc'[j] \notin {"finally", "ended"} /\ events'[j] = events[j]
    BY <1>0, <1>9 DEF Worker!Free
  <2> QED
    BY <1>s, <2>1
<1>10. CASE Worker!Complete(j)
  <2>1. /\ pc[j] = "cycle" /\ pc'[j] = "finally" /\ cycle[j] = Len(Names[j])
        /\ work'[j] = work[j] /\ rows'[j] = rows[j] /\ events'[j] = Append(events[j], "job_complete")
    BY <1>0, <1>10 DEF Worker!Complete
  <2>2. work[j] = Len(Names[j]) * PerModel(j) /\ Len(rows[j]) = Len(Names[j])
    BY <2>1 DEF Behind
  <2>3. Tell("job_complete")
    BY <2>1 DEF Tell
  <2> QED
    BY <1>e, <2>1, <2>2, <2>3
<1>11. CASE Worker!Raise(j)
  <2>1. pc[j] \notin {"finally", "ended"} /\ pc'[j] \notin {"finally", "ended"} /\ events'[j] = events[j]
    BY <1>0, <1>11 DEF Worker!Raise
  <2> QED
    BY <1>s, <2>1
<1>12. CASE Worker!Handle(j)
  <2>1. pc[j] \notin {"finally", "ended"} /\ pc'[j] = "finally" /\ events'[j] = Append(events[j], "job_failed")
    BY <1>0, <1>12 DEF Worker!Handle
  <2>2. Tell("job_failed")
    BY <2>1 DEF Tell
  <2>3. "job_failed" # "job_complete"
    OBVIOUS
  <2> QED
    BY <1>e, <2>1, <2>2, <2>3
<1>13. CASE Worker!Finally(j)
  <2>1. /\ pc[j] = "finally" /\ pc'[j] = "ended" /\ work'[j] = work[j] /\ rows'[j] = rows[j]
        /\ events' = events /\ held'[j] = {}
    BY <1>0, <1>13 DEF Worker!Finally
  <2>2. Worker!Ends(j)' = Worker!Ends(j)
    BY <2>1 DEF Worker!Ends
  <2> QED
    BY <1>c, <2>1, <2>2 DEF EndTold
<1>14. CASE Worker!Stop(j)
  <2>1. UNCHANGED <<pc, work, rows, events, held>>
    BY <1>0, <1>14 DEF Worker!Stop
  <2>2. Worker!Ends(j)' = Worker!Ends(j)
    BY <2>1 DEF Worker!Ends
  <2> QED
    BY <1>c, <2>1, <2>2 DEF EndTold
<1> QED
  BY <1>1, <1>2, <1>3, <1>4, <1>5, <1>6, <1>7, <1>8, <1>9, <1>10, <1>11, <1>12, <1>13, <1>14 DEF JobSteps

(* Every step keeps the invariant of the workers.                           *)
LEMMA WorkKept == ASSUME WorkInv, [Worker!Next]_bw PROVE WorkInv'
<1>1. ASSUME NEW j \in WorkJobs, JobSteps(j) PROVE WorkInv'
  <2>1. WorkTypes /\ \A k \in WorkJobs : Behind(k) /\ EndTold(k)
    BY DEF WorkInv
  <2>2. WorkTypes'
    BY <1>1, <2>1, WorkTypesKept
  <2>3. Behind(j)' /\ EndTold(j)'
    BY <1>1, <2>1, BehindKept, EndToldKept
  <2>4. \A k \in WorkJobs : k # j => Behind(k)' /\ EndTold(k)'
    BY <1>1, <2>1, OthersRest, OthersKeep
  <2> QED
    BY <2>2, <2>3, <2>4 DEF WorkInv
<1>2. CASE UNCHANGED bw
  BY <1>2 DEF bw, WorkInv, WorkTypes, Behind, EndTold, Worker!Ends, PerModel, OfOneRepetition
<1>3. CASE Worker!Next
  <2>1. PICK j \in WorkJobs : JobSteps(j)
    BY <1>3 DEF Worker!Next, JobSteps
  <2> QED
    BY <1>1, <2>1
<1> QED
  BY <1>2, <1>3

(* And it says what is promised of them.                                    *)
LEMMA WorkTells ==
  WorkInv => Worker!TypeOK /\ Worker!OneEnd /\ Worker!RowPerModel /\ Worker!AllWork /\ Worker!NothingHeld
<1> SUFFICES ASSUME WorkInv
             PROVE  Worker!TypeOK /\ Worker!OneEnd /\ Worker!RowPerModel /\ Worker!AllWork /\ Worker!NothingHeld
  OBVIOUS
<1>1. WorkTypes /\ \A j \in WorkJobs : Behind(j) /\ EndTold(j)
  BY DEF WorkInv
<1>2. Worker!OneEnd /\ Worker!NothingHeld
  BY <1>1 DEF Worker!OneEnd, Worker!NothingHeld, EndTold
<1>3. ASSUME NEW j \in WorkJobs, Len(events[j]) > 0, events[j][Len(events[j])] = "job_complete"
      PROVE  /\ work[j] = Len(Names[j]) * PerModel(j) /\ Len(rows[j]) = Len(Names[j])
             /\ \A i \in DOMAIN rows[j] : rows[j][i].model = Names[j][i]
  <2>1. Len(events[j]) \in DOMAIN events[j]
    <3>1. events[j] \in Seq(EndMarks)
      BY <1>1 DEF WorkTypes
    <3> QED
      BY <1>3, <3>1
  <2>2. pc[j] \in {"finally", "ended"}
    BY <1>1, <1>3, <2>1 DEF EndTold
  <2> QED
    BY <1>1, <1>3, <2>2 DEF EndTold, Behind
<1>4. Worker!RowPerModel
  BY <1>3 DEF Worker!RowPerModel
<1>5. Worker!AllWork
  <2>1. ASSUME NEW j \in WorkJobs, Len(events[j]) > 0, events[j][Len(events[j])] = "job_complete"
        PROVE  work[j] = Repeats[j] * Worker!TotalWork(j)
    <3>1. work[j] = Len(Names[j]) * (Repeats[j] * (Trials + Periods))
      BY <1>3, <2>1 DEF PerModel, OfOneRepetition
    <3>2. Len(Names[j]) \in Int /\ Repeats[j] \in Int /\ Trials + Periods \in Int
      <4>1. Names[j] \in Seq(STRING) /\ Repeats[j] \in Nat /\ Trials \in Nat /\ Periods \in Nat
        BY Assumptions DEF Worker!WorkerAssumption
      <4> QED
        BY <4>1
    <3>3. Len(Names[j]) * (Repeats[j] * (Trials + Periods)) = Repeats[j] * (Len(Names[j]) * (Trials + Periods))
      BY <3>2
    <3> QED
      BY <3>1, <3>3 DEF Worker!TotalWork
  <2> QED
    BY <2>1 DEF Worker!AllWork
<1>6. Worker!TypeOK
  <2>1. \A j \in WorkJobs : Len(Names[j]) \in Nat /\ Repeats[j] \in Nat
    <3>1. Names \in [WorkJobs -> Seq(STRING)] /\ Repeats \in [WorkJobs -> Nat \ {0}]
      BY Assumptions DEF Worker!WorkerAssumption
    <3> QED
      BY <3>1
  <2>2. \A j \in WorkJobs : cycle[j] \in 0..Len(Names[j]) /\ rep[j] \in 0..Repeats[j]
    BY <1>1, <2>1 DEF WorkTypes
  <2> QED
    BY <1>1, <2>2 DEF WorkTypes, Worker!TypeOK, Worker!None
<1> QED
  BY <1>2, <1>4, <1>5, <1>6

(* A model is begun only by a worker that has looked for a stop.            *)
LEMMA StopsModels ==
  ASSUME WorkInv, [Worker!Next]_bw
  PROVE  [\A k \in WorkJobs : bw_stopped[k] => cycle'[k] = cycle[k]]_bw
<1>1. WorkTypes
  BY DEF WorkInv
<1>2. ASSUME NEW j \in WorkJobs, JobSteps(j), NEW k \in WorkJobs, bw_stopped[k] PROVE cycle'[k] = cycle[k]
  <2>1. CASE k # j
    BY <1>1, <1>2, <2>1, OthersRest DEF SameJob
  <2>2. CASE k = j
 BY <1>2, <2>2 DEF JobSteps, Worker!Begin, Worker!StartCycle, Worker!StartRep, Worker!Trial,
       Worker!SaveImportances,
       Worker!Period, Worker!EndRep, Worker!Collect, Worker!Free, Worker!Complete, Worker!Raise, Worker!Handle,
       Worker!Finally, Worker!Stop
  <2> QED
    BY <2>1, <2>2
<1>3. CASE Worker!Next
  BY <1>2, <1>3 DEF Worker!Next, JobSteps
<1>4. CASE UNCHANGED bw
  BY <1>4
<1> QED
  BY <1>3, <1>4

-------------------------------------------------------------------------------
(* LogBuffer.                                                                *)

(* The entries of the log.                                                  *)
Entries == [index : Nat, notice : BOOLEAN]
Rising(s) == \A i, k \in DOMAIN s : i < k => s[i].index < s[k].index
Has(s, e) == \E i \in DOMAIN s : s[i] = e

(* Entries of the buffer in their order, below the limit index.              *)
BufferInOrder(s, limit) ==
  /\ s \in Seq(Entries) /\ Len(s) <= Capacity /\ Rising(s)
  /\ \A i \in DOMAIN s : s[i].index < limit

(* An answer under way holds what was asked for and is still in the buffer. *)
AnswerCarries ==
  answer # Logs!NoAnswer =>
    /\ answer \in [lines : Seq(Entries), next : Nat] /\ Rising(answer.lines)
    /\ page.since <= answer.next /\ answer.next <= counter
    /\ answer.lines = <<>> => answer.next = page.since
    /\ \A i \in DOMAIN answer.lines : answer.lines[i].index \in page.since..(answer.next - 1)
    /\ \A i \in DOMAIN buffer : buffer[i].index \in page.since..(answer.next - 1) => Has(answer.lines, buffer[i])

(* The page shows in their order what the buffer has of the lines behind.   *)
PageShows ==
  /\ page \in [since : Nat, shows : Seq(Entries)] /\ page.since <= counter /\ Rising(page.shows)
  /\ \A i \in DOMAIN page.shows : page.shows[i].index < page.since
  /\ \A i \in DOMAIN buffer : buffer[i].index < page.since => Has(page.shows, buffer[i])

LogInv ==
  /\ counter \in Nat /\ BufferInOrder(buffer, counter) /\ lb_file \in Seq(Nat) /\ Len(lb_file) <= MaxLines
  /\ PageShows /\ AnswerCarries

(* An empty log is in order.                                                *)
LEMMA LogStarts == Logs!Init => LogInv
<1> SUFFICES ASSUME Logs!Init PROVE LogInv
  OBVIOUS
<1>1. Capacity \in Nat /\ MaxLines \in Nat
  BY Assumptions DEF Logs!LogAssumption
<1>2. buffer = <<>> /\ counter = 0 /\ lb_file = <<>> /\ page = [since |-> 0, shows |-> <<>>] /\ answer = Logs!NoAnswer
  BY DEF Logs!Init
<1>3. BufferInOrder(buffer, counter)
  BY <1>1, <1>2 DEF BufferInOrder, Rising
<1>4. PageShows
  BY <1>2 DEF PageShows, Rising
<1>5. lb_file \in Seq(Nat) /\ Len(lb_file) <= MaxLines
  BY <1>1, <1>2
<1> QED
  BY <1>2, <1>3, <1>4, <1>5 DEF LogInv, AnswerCarries

(* A line that is added leaves some of those before, and itself.            *)
LEMMA PushKeeps ==
  ASSUME NEW s, NEW limit \in Nat, BufferInOrder(s, limit), NEW e \in Entries, e.index = limit
  PROVE  /\ BufferInOrder(Logs!Push(s, e), limit + 1)
         /\ \A i \in DOMAIN Logs!Push(s, e) : Logs!Push(s, e)[i] = e \/ Has(s, Logs!Push(s, e)[i])
<1>1. Capacity \in Nat \ {0, 1}
  BY Assumptions DEF Logs!LogAssumption
<1>2. s \in Seq(Entries) /\ Len(s) <= Capacity /\ Rising(s) /\ \A i \in DOMAIN s : s[i].index < limit
  BY DEF BufferInOrder
<1>3. ASSUME NEW t \in Seq(Entries), Len(t) < Capacity, NEW shift \in Nat, Len(t) + shift = Len(s),
             \A i \in 1..Len(t) : t[i] = s[i + shift]
      PROVE  /\ BufferInOrder(Append(t, e), limit + 1)
             /\ \A i \in DOMAIN Append(t, e) : Append(t, e)[i] = e \/ Has(s, Append(t, e)[i])
  <2>1. /\ Append(t, e) \in Seq(Entries) /\ Len(Append(t, e)) = Len(t) + 1
        /\ \A i \in 1..Len(t) : Append(t, e)[i] = t[i]
        /\ Append(t, e)[Len(t) + 1] = e
    BY <1>3, AppendProperties
  <2>2. DOMAIN Append(t, e) = 1..(Len(t) + 1) /\ Len(t) \in Nat /\ DOMAIN s = 1..Len(s) /\ Len(s) \in Nat
    BY <1>2, <1>3, <2>1
  <2>3. \A i \in 1..Len(t) : i + shift \in DOMAIN s /\ Append(t, e)[i] = s[i + shift]
    BY <1>3, <2>1, <2>2
  <2>4. \A i \in DOMAIN Append(t, e) : i \in 1..Len(t) \/ i = Len(t) + 1
    BY <2>2
  <2>5. \A i \in 1..Len(t) : Append(t, e)[i].index < limit
    BY <1>2, <2>3
  <2>6. Rising(Append(t, e))
    <3> SUFFICES ASSUME NEW i \in DOMAIN Append(t, e), NEW k \in DOMAIN Append(t, e), i < k
                 PROVE  Append(t, e)[i].index < Append(t, e)[k].index
      BY DEF Rising
    <3>1. i \in 1..Len(t)
      BY <2>2
    <3>2. CASE k \in 1..Len(t)
      <4>1. i + shift < k + shift
        BY <1>3, <2>2, <3>1, <3>2
      <4> QED
        BY <1>2, <2>3, <3>1, <3>2, <4>1 DEF Rising
    <3>3. CASE k = Len(t) + 1
      BY <2>1, <2>5, <3>1, <3>3
    <3> QED
      BY <2>4, <3>2, <3>3
  <2>7. \A i \in DOMAIN Append(t, e) : Append(t, e)[i].index < limit + 1
    <3> SUFFICES ASSUME NEW i \in DOMAIN Append(t, e) PROVE Append(t, e)[i].index < limit + 1
      OBVIOUS
    <3>1. Append(t, e)[i] \in Entries
      BY <2>1
    <3>2. Append(t, e)[i].index \in Nat
      BY <3>1 DEF Entries
    <3>3. Append(t, e)[i].index < limit \/ Append(t, e)[i].index = limit
      BY <2>1, <2>4, <2>5
    <3> QED
      BY <3>2, <3>3
  <2>8. Len(Append(t, e)) <= Capacity
    BY <1>1, <1>3, <2>1, <2>2
  <2>9. \A i \in DOMAIN Append(t, e) : Append(t, e)[i] = e \/ Has(s, Append(t, e)[i])
    BY <2>1, <2>3, <2>4 DEF Has
  <2> QED
    BY <2>1, <2>6, <2>7, <2>8, <2>9 DEF BufferInOrder
<1>4. CASE Len(s) = Capacity
  <2>1. s # <<>>
    BY <1>1, <1>2, <1>4
  <2>2. /\ Tail(s) \in Seq(Entries) /\ Len(Tail(s)) = Len(s) - 1
        /\ \A i \in 1..Len(Tail(s)) : Tail(s)[i] = s[i + 1]
    BY <1>2, <2>1, HeadTailProperties
  <2>3. Len(Tail(s)) < Capacity /\ Len(Tail(s)) + 1 = Len(s)
    BY <1>1, <1>4, <2>2
  <2> QED
    BY <1>3, <1>4, <2>2, <2>3 DEF Logs!Push
<1>5. CASE Len(s) # Capacity
  <2>1. Len(s) < Capacity /\ Len(s) + 0 = Len(s) /\ \A i \in 1..Len(s) : s[i] = s[i + 0]
    BY <1>1, <1>2, <1>5
  <2> QED
    BY <1>2, <1>3, <1>5, <2>1 DEF Logs!Push
<1> QED
  BY <1>4, <1>5

(* A line, with its notice or without, is beyond all that was asked for.    *)
LEMMA AppendLineKeeps == ASSUME LogInv, Logs!AppendLine PROVE LogInv'
<1>1. /\ counter \in Nat /\ BufferInOrder(buffer, counter) /\ lb_file \in Seq(Nat) /\ Len(lb_file) <= MaxLines
      /\ PageShows /\ AnswerCarries
  BY DEF LogInv
<1>2. /\ Len(lb_file) < MaxLines /\ lb_file' = Append(lb_file, counter) /\ page' = page /\ answer' = answer
  BY DEF Logs!AppendLine
<1>3. lb_file' \in Seq(Nat) /\ Len(lb_file') <= MaxLines
  <2>1. MaxLines \in Nat
    BY Assumptions DEF Logs!LogAssumption
  <2>2. lb_file' \in Seq(Nat) /\ Len(lb_file') = Len(lb_file) + 1 /\ Len(lb_file) \in Nat
    BY <1>1, <1>2, AppendProperties
  <2> QED
    BY <1>2, <2>1, <2>2
<1> DEFINE line_of == [index |-> counter, notice |-> FALSE]
           one == Logs!Push(buffer, line_of)
           notice_of == [index |-> counter + 1, notice |-> TRUE]
<1>4. /\ BufferInOrder(one, counter + 1)
      /\ \A i \in DOMAIN one : one[i] = line_of \/ Has(buffer, one[i])
  <2>1. line_of \in Entries /\ line_of.index = counter
    BY <1>1 DEF Entries
  <2> HIDE DEF line_of
  <2> QED
    BY <1>1, <2>1, PushKeeps
<1>5. /\ counter' \in Nat /\ counter <= counter' /\ BufferInOrder(buffer', counter')
      /\ \A i \in DOMAIN buffer' : buffer'[i].index >= counter \/ Has(buffer, buffer'[i])
  <2>0. line_of.index = counter /\ notice_of.index = counter + 1 /\ notice_of \in Entries
    BY <1>1 DEF Entries
  <2>1. CASE Logs!Full /\ ~Logs!Truncated
    <3>1. buffer' = Logs!Push(one, notice_of) /\ counter' = counter + 2
      BY <2>1 DEF Logs!AppendLine
    <3> HIDE DEF one, line_of, notice_of
    <3>2. /\ BufferInOrder(Logs!Push(one, notice_of), counter + 1 + 1)
          /\ \A i \in DOMAIN Logs!Push(one, notice_of) :
               Logs!Push(one, notice_of)[i] = notice_of \/ Has(one, Logs!Push(one, notice_of)[i])
      BY <1>1, <1>4, <2>0, PushKeeps
    <3>3. counter + 1 + 1 = counter + 2 /\ counter + 2 \in Nat /\ counter <= counter + 2 /\ counter + 1 >= counter
      BY <1>1
    <3>4. ASSUME NEW i \in DOMAIN buffer' PROVE buffer'[i].index >= counter \/ Has(buffer, buffer'[i])
      <4>1. buffer'[i] = notice_of \/ Has(one, buffer'[i])
        BY <3>1, <3>2
      <4>2. ASSUME Has(one, buffer'[i]) PROVE buffer'[i].index >= counter \/ Has(buffer, buffer'[i])
        <5>1. PICK k \in DOMAIN one : one[k] = buffer'[i]
          BY <4>2 DEF Has
        <5>2. buffer'[i] = line_of \/ Has(buffer, buffer'[i])
          BY <1>4, <5>1
        <5>3. counter >= counter
          BY <1>1
        <5> QED
          BY <2>0, <5>2, <5>3
      <4> QED
        BY <2>0, <3>3, <4>1, <4>2
    <3> QED
      BY <3>1, <3>2, <3>3, <3>4
  <2>2. CASE ~(Logs!Full /\ ~Logs!Truncated)
    <3>1. buffer' = one /\ counter' = counter + 1
      BY <2>2 DEF Logs!AppendLine
    <3> HIDE DEF one, line_of, notice_of
    <3>2. counter + 1 \in Nat /\ counter <= counter + 1 /\ counter >= counter
      BY <1>1
    <3> QED
      BY <1>4, <2>0, <3>1, <3>2
  <2> QED
    BY <2>1, <2>2
<1> HIDE DEF one, line_of, notice_of
<1>6. page \in [since : Nat, shows : Seq(Entries)] /\ page.since <= counter /\ page.since \in Nat
  BY <1>1 DEF PageShows
<1>7. PageShows'
  <2>1. page.since <= counter'
    BY <1>1, <1>5, <1>6
  <2>2. ASSUME NEW i \in DOMAIN buffer', buffer'[i].index < page.since PROVE Has(page.shows, buffer'[i])
    <3>1. buffer'[i].index \in Nat
      <4>1. buffer' \in Seq(Entries)
        BY <1>5 DEF BufferInOrder
      <4>2. buffer'[i] \in Entries
        BY <4>1
      <4> QED
        BY <4>2 DEF Entries
    <3>2. Has(buffer, buffer'[i])
      BY <1>1, <1>5, <1>6, <2>2, <3>1
    <3>3. PICK k \in DOMAIN buffer : buffer[k] = buffer'[i]
      BY <3>2 DEF Has
    <3>4. Has(page.shows, buffer[k])
      BY <1>1, <2>2, <3>3 DEF PageShows
    <3> QED
      BY <3>3, <3>4
  <2>3. \A i \in DOMAIN buffer' : buffer'[i].index < page'.since => Has(page'.shows, buffer'[i])
    BY <1>2, <2>2
  <2> QED
    BY <1>1, <1>2, <2>1, <2>3 DEF PageShows, Rising
<1>8. AnswerCarries'
  <2> SUFFICES ASSUME answer # Logs!NoAnswer PROVE AnswerCarries'
    BY <1>2 DEF AnswerCarries, Logs!NoAnswer
  <2>1. /\ answer \in [lines : Seq(Entries), next : Nat] /\ Rising(answer.lines)
        /\ page.since <= answer.next /\ answer.next <= counter
        /\ answer.lines = <<>> => answer.next = page.since
        /\ \A i \in DOMAIN answer.lines : answer.lines[i].index \in page.since..(answer.next - 1)
        /\ \A i \in DOMAIN buffer : buffer[i].index \in page.since..(answer.next - 1) => Has(answer.lines, buffer[i])
    BY <1>1 DEF AnswerCarries
  <2>2. answer.next \in Nat /\ answer.next <= counter'
    BY <1>1, <1>5, <2>1
  <2>3. ASSUME NEW i \in DOMAIN buffer', buffer'[i].index \in page.since..(answer.next - 1)
        PROVE  Has(answer.lines, buffer'[i])
    <3>1. ~(buffer'[i].index >= counter)
      BY <1>1, <1>6, <2>1, <2>2, <2>3
    <3>2. PICK k \in DOMAIN buffer : buffer[k] = buffer'[i]
      BY <1>5, <3>1 DEF Has
    <3>3. Has(answer.lines, buffer[k])
      BY <2>1, <2>3, <3>2
    <3> QED
      BY <3>2, <3>3
  <2>4. Rising(answer'.lines)
    BY <1>2, <2>1
  <2>5. /\ answer' \in [lines : Seq(Entries), next : Nat]
        /\ page'.since <= answer'.next /\ answer'.next <= counter'
        /\ answer'.lines = <<>> => answer'.next = page'.since
        /\ \A i \in DOMAIN answer'.lines : answer'.lines[i].index \in page'.since..(answer'.next - 1)
    BY <1>2, <2>1, <2>2
  <2>6. \A i \in DOMAIN buffer' :
          buffer'[i].index \in page'.since..(answer'.next - 1) => Has(answer'.lines, buffer'[i])
    BY <1>2, <2>3
  <2> QED
    BY <2>4, <2>5, <2>6 DEF AnswerCarries, Rising, Has
<1> QED
  BY <1>3, <1>5, <1>7, <1>8 DEF LogInv, BufferInOrder, Rising

(* An answer is the end of the buffer.                                      *)
LEMMA PollKeeps == ASSUME LogInv, Logs!Poll PROVE LogInv'
<1>1. /\ counter \in Nat /\ BufferInOrder(buffer, counter) /\ lb_file \in Seq(Nat) /\ Len(lb_file) <= MaxLines
      /\ PageShows
  BY DEF LogInv
<1>2. buffer' = buffer /\ counter' = counter /\ lb_file' = lb_file /\ page' = page
  BY DEF Logs!Poll
<1>3. PICK first \in 1..(Len(buffer) + 1) :
        /\ \A i \in DOMAIN buffer : i >= first <=> buffer[i].index >= page.since
        /\ answer' = [lines |-> SubSeq(buffer, first, Len(buffer)),
                      next |-> IF SubSeq(buffer, first, Len(buffer)) = <<>> THEN page.since
                               ELSE Logs!Last(SubSeq(buffer, first, Len(buffer))).index + 1]
  BY DEF Logs!Poll
<1> DEFINE lines == SubSeq(buffer, first, Len(buffer))
           n == Len(buffer)
           since == page.since
<1>4. /\ buffer \in Seq(Entries) /\ Rising(buffer) /\ n \in Nat /\ DOMAIN buffer = 1..n /\ since \in Nat /\ since <= counter
      /\ \A i \in 1..n : buffer[i] \in Entries /\ buffer[i].index \in Nat /\ buffer[i].index < counter
  <2>1. buffer \in Seq(Entries) /\ Rising(buffer) /\ \A i \in DOMAIN buffer : buffer[i].index < counter
    BY <1>1 DEF BufferInOrder
  <2>2. n \in Nat /\ DOMAIN buffer = 1..n /\ \A i \in 1..n : buffer[i] \in Entries
    BY <2>1
  <2>3. since \in Nat /\ since <= counter
    BY <1>1 DEF PageShows
  <2> QED
    BY <2>1, <2>2, <2>3 DEF Entries
<1>5. first \in Nat /\ first >= 1 /\ first <= n + 1
  BY <1>4
<1>6. /\ lines \in Seq(Entries) /\ Len(lines) = n - first + 1
      /\ \A i \in 1..(n - first + 1) : lines[i] = buffer[first + i - 1]
  <2>1. \A i \in first..n : buffer[i] \in Entries
    BY <1>4, <1>5
  <2>2. /\ lines \in Seq(Entries) /\ Len(lines) = IF first <= n THEN n - first + 1 ELSE 0
        /\ \A i \in 1..(n - first + 1) : lines[i] = buffer[first + i - 1]
    BY <1>4, <1>5, <2>1, SubSeqProperties
  <2> QED
    BY <1>4, <1>5, <2>2
<1> HIDE DEF lines, n, since
<1>7. /\ DOMAIN lines = 1..(n - first + 1) /\ n - first + 1 \in Nat
      /\ \A i \in DOMAIN lines : first + i - 1 \in 1..n /\ first + i - 1 >= first /\ lines[i] = buffer[first + i - 1]
  <2>1. DOMAIN lines = 1..(n - first + 1) /\ n - first + 1 \in Nat
    BY <1>4, <1>5, <1>6
  <2>2. \A i \in 1..(n - first + 1) : first + i - 1 \in 1..n /\ first + i - 1 >= first
    BY <1>4, <1>5
  <2> QED
    BY <1>6, <2>1, <2>2
<1>8. \A i \in 1..n : i >= first <=> buffer[i].index >= since
  BY <1>3, <1>4 DEF since
<1>9. Rising(lines)
  <2> SUFFICES ASSUME NEW i \in DOMAIN lines, NEW k \in DOMAIN lines, i < k PROVE lines[i].index < lines[k].index
    BY DEF Rising
  <2>1. first + i - 1 < first + k - 1
    BY <1>5, <1>7
  <2>2. buffer[first + i - 1].index < buffer[first + k - 1].index
    BY <1>4, <1>7, <2>1 DEF Rising
  <2> QED
    BY <1>7, <2>2
<1>10. CASE lines = <<>>
  <2>1. answer' = [lines |-> <<>>, next |-> since]
    BY <1>3, <1>10 DEF lines, n, since
  <2>2. answer'.lines = <<>> /\ answer'.next = since /\ answer' \in [lines : Seq(Entries), next : Nat]
    BY <1>4, <2>1
  <2>3. Rising(answer'.lines) /\ since..(answer'.next - 1) = {}
    BY <1>4, <2>2 DEF Rising
  <2>4. AnswerCarries'
    BY <1>1, <1>2, <1>4, <2>2, <2>3 DEF AnswerCarries, Rising, since
  <2> QED
    BY <1>1, <1>2, <2>4 DEF LogInv, BufferInOrder, PageShows, Rising, Has
<1>11. CASE lines # <<>>
  <2>1. n - first + 1 >= 1
    <3>1. Len(lines) # 0 /\ Len(lines) \in Nat
      BY <1>6, <1>11
    <3> QED
      BY <1>6, <3>1
  <2>2. lines[Len(lines)] = buffer[n] /\ n \in 1..n /\ n >= first
    <3>1. n - first + 1 \in DOMAIN lines /\ first + (n - first + 1) - 1 = n
      BY <1>4, <1>5, <1>7, <2>1
    <3>2. lines[n - first + 1] = buffer[n]
      BY <1>7, <3>1
    <3> QED
      BY <1>4, <1>5, <1>6, <2>1, <3>2
  <2>3. answer' = [lines |-> lines, next |-> buffer[n].index + 1]
    BY <1>3, <1>11, <2>2 DEF lines, n, Logs!Last
  <2>4. answer'.lines = lines /\ answer'.next = buffer[n].index + 1
    BY <2>3
  <2>5. answer' \in [lines : Seq(Entries), next : Nat]
    BY <1>4, <1>6, <2>2, <2>3
  <2>6. since <= answer'.next /\ answer'.next <= counter
    <3>1. buffer[n].index >= since /\ buffer[n].index \in Nat /\ buffer[n].index < counter
      BY <1>4, <1>8, <2>2
    <3> QED
      BY <1>1, <1>4, <2>4, <3>1
  <2>7. \A i \in 1..n : buffer[i].index <= buffer[n].index
    BY <1>4, <2>2 DEF Rising
  <2>8. ASSUME NEW i \in DOMAIN lines PROVE lines[i].index \in since..(answer'.next - 1)
    <3>1. first + i - 1 \in 1..n /\ first + i - 1 >= first /\ lines[i] = buffer[first + i - 1]
      BY <1>7
    <3>2. buffer[first + i - 1].index >= since /\ buffer[first + i - 1].index <= buffer[n].index
          /\ buffer[first + i - 1].index \in Nat
      BY <1>4, <1>8, <2>7, <3>1
    <3>3. answer'.next - 1 = buffer[n].index
      BY <1>4, <2>2, <2>4
    <3> QED
      BY <1>4, <2>2, <3>1, <3>2, <3>3
  <2>9. ASSUME NEW i \in DOMAIN buffer, buffer[i].index \in since..(answer'.next - 1) PROVE Has(lines, buffer[i])
    <3>1. i \in 1..n /\ buffer[i].index >= since
      BY <1>4, <2>9
    <3>2. i >= first
      BY <1>8, <3>1
    <3>3. i - first + 1 \in 1..(n - first + 1) /\ first + (i - first + 1) - 1 = i
      BY <1>4, <1>5, <3>1, <3>2
    <3>4. lines[i - first + 1] = buffer[i] /\ i - first + 1 \in DOMAIN lines
      BY <1>7, <3>3
    <3> QED
      BY <3>4 DEF Has
  <2>10. Rising(answer'.lines) /\ ~(answer'.lines = <<>>)
    BY <1>9, <1>11, <2>4
  <2>11. \A i \in DOMAIN answer'.lines : answer'.lines[i].index \in page'.since..(answer'.next - 1)
    BY <1>2, <2>4, <2>8 DEF since
  <2>12. \A i \in DOMAIN buffer' : buffer'[i].index \in page'.since..(answer'.next - 1) => Has(answer'.lines, buffer'[i])
    BY <1>2, <2>4, <2>9 DEF since
  <2>13. page'.since <= answer'.next /\ answer'.next <= counter'
    BY <1>2, <2>6 DEF since
  <2>14. AnswerCarries'
    BY <2>5, <2>10, <2>11, <2>12, <2>13 DEF AnswerCarries, Rising, Has
  <2> QED
    BY <1>1, <1>2, <2>14 DEF LogInv, BufferInOrder, PageShows, Rising, Has
<1> QED
  BY <1>10, <1>11

(* The page adds it to what it shows.                                       *)
LEMMA ShowKeeps == ASSUME LogInv, Logs!Show PROVE LogInv'
<1>1. /\ counter \in Nat /\ BufferInOrder(buffer, counter) /\ lb_file \in Seq(Nat) /\ Len(lb_file) <= MaxLines
  BY DEF LogInv
<1>2. /\ page \in [since : Nat, shows : Seq(Entries)] /\ page.since <= counter /\ Rising(page.shows)
      /\ \A i \in DOMAIN page.shows : page.shows[i].index < page.since
      /\ \A i \in DOMAIN buffer : buffer[i].index < page.since => Has(page.shows, buffer[i])
  BY DEF LogInv, PageShows
<1>3. /\ answer \in [lines : Seq(Entries), next : Nat] /\ Rising(answer.lines)
      /\ page.since <= answer.next /\ answer.next <= counter
      /\ \A i \in DOMAIN answer.lines : answer.lines[i].index \in page.since..(answer.next - 1)
      /\ \A i \in DOMAIN buffer : buffer[i].index \in page.since..(answer.next - 1) => Has(answer.lines, buffer[i])
  BY DEF LogInv, AnswerCarries, Logs!Show
<1>4. buffer' = buffer /\ counter' = counter /\ lb_file' = lb_file /\ answer' = Logs!NoAnswer
  BY DEF Logs!Show
<1>5. AnswerCarries'
  BY <1>4 DEF AnswerCarries, Logs!NoAnswer
<1>6. CASE answer.lines = <<>>
  <2>1. page' = page
    BY <1>6 DEF Logs!Show
  <2>2. PageShows'
    BY <1>2, <1>4, <2>1 DEF PageShows, Rising, Has
  <2> QED
    BY <1>1, <1>4, <1>5, <2>2 DEF LogInv, BufferInOrder, Rising
<1>7. CASE answer.lines # <<>>
  <2> DEFINE before == page.shows  came == answer.lines  all == before \o came
  <2>1. page' = [since |-> answer.next, shows |-> all]
    BY <1>7 DEF Logs!Show
  <2>2. before \in Seq(Entries) /\ came \in Seq(Entries) /\ page.since \in Nat /\ answer.next \in Nat
    BY <1>2, <1>3
  <2>3. /\ DOMAIN before = 1..Len(before) /\ DOMAIN came = 1..Len(came) /\ Len(before) \in Nat /\ Len(came) \in Nat
        /\ \A i \in DOMAIN before : before[i].index \in Nat
    <3>1. \A i \in DOMAIN before : before[i] \in Entries
      BY <2>2
    <3> QED
      BY <2>2, <3>1 DEF Entries
  <2>4. /\ all \in Seq(Entries) /\ Len(all) = Len(before) + Len(came)
        /\ \A i \in 1..(Len(before) + Len(came)) : all[i] = IF i <= Len(before) THEN before[i] ELSE came[i - Len(before)]
    BY <2>2, ConcatProperties
  <2>5. DOMAIN all = 1..(Len(before) + Len(came))
    BY <2>3, <2>4
  <2>6. /\ Rising(before) /\ Rising(came) /\ \A i \in DOMAIN before : before[i].index < page.since
        /\ \A i \in DOMAIN came : came[i].index \in page.since..(answer.next - 1)
    BY <1>2, <1>3
  <2> HIDE DEF before, came, all
  <2>7. \A i \in DOMAIN all : \/ i \in DOMAIN before /\ all[i] = before[i]
                              \/ ~(i <= Len(before)) /\ i - Len(before) \in DOMAIN came /\ all[i] = came[i - Len(before)]
    BY <2>3, <2>4, <2>5
  <2>8. Rising(all)
    <3> SUFFICES ASSUME NEW i \in DOMAIN all, NEW k \in DOMAIN all, i < k PROVE all[i].index < all[k].index
      BY DEF Rising
    <3>1. i \in Nat /\ k \in Nat
      BY <2>3, <2>5
    <3>2. CASE k \in DOMAIN before /\ all[k] = before[k]
      <4>1. i \in DOMAIN before /\ all[i] = before[i]
        BY <2>3, <2>7, <3>1, <3>2
      <4> QED
        BY <2>6, <3>2, <4>1 DEF Rising
    <3>3. CASE ~(k <= Len(before)) /\ k - Len(before) \in DOMAIN came /\ all[k] = came[k - Len(before)]
      <4>1. all[k].index \in page.since..(answer.next - 1)
        BY <2>6, <3>3
      <4>2. CASE i \in DOMAIN before /\ all[i] = before[i]
        <5>1. all[i].index < page.since /\ all[i].index \in Nat
          BY <2>3, <2>6, <4>2
        <5> QED
          BY <2>2, <4>1, <5>1
      <4>3. CASE ~(i <= Len(before)) /\ i - Len(before) \in DOMAIN came /\ all[i] = came[i - Len(before)]
        <5>1. i - Len(before) < k - Len(before)
          BY <2>3, <3>1
        <5> QED
          BY <2>6, <3>3, <4>3, <5>1 DEF Rising
      <4> QED
        BY <2>7, <4>2, <4>3
    <3> QED
      BY <2>7, <3>2, <3>3
  <2>9. ASSUME NEW i \in DOMAIN all PROVE all[i].index < answer.next
    <3>1. CASE i \in DOMAIN before /\ all[i] = before[i]
      <4>1. all[i].index < page.since /\ all[i].index \in Nat
        BY <2>3, <2>6, <3>1
      <4> QED
        BY <1>3, <2>2, <4>1
    <3>2. CASE i - Len(before) \in DOMAIN came /\ all[i] = came[i - Len(before)]
      <4>1. all[i].index \in page.since..(answer.next - 1)
        BY <2>6, <3>2
      <4> QED
        BY <2>2, <4>1
    <3> QED
      BY <2>7, <3>1, <3>2
  <2>10. ASSUME NEW e, Has(before, e) \/ Has(came, e) PROVE Has(all, e)
    <3>1. ASSUME NEW i \in DOMAIN before, before[i] = e PROVE Has(all, e)
      <4>1. i \in 1..(Len(before) + Len(came)) /\ i <= Len(before)
        BY <2>3
      <4>2. i \in DOMAIN all /\ all[i] = e
        BY <2>4, <2>5, <3>1, <4>1
      <4> QED
        BY <4>2 DEF Has
    <3>2. ASSUME NEW i \in DOMAIN came, came[i] = e PROVE Has(all, e)
      <4>1. Len(before) + i \in 1..(Len(before) + Len(came)) /\ ~(Len(before) + i <= Len(before)) /\ (Len(before) + i) - Len(before) = i
        BY <2>3
      <4>2. Len(before) + i \in DOMAIN all /\ all[Len(before) + i] = e
        BY <2>4, <2>5, <3>2, <4>1
      <4> QED
        BY <4>2 DEF Has
    <3> QED
      BY <2>10, <3>1, <3>2 DEF Has
  <2>11. ASSUME NEW i \in DOMAIN buffer, buffer[i].index < answer.next PROVE Has(all, buffer[i])
    <3>1. buffer[i].index \in Nat
      <4>1. buffer \in Seq(Entries)
        BY <1>1 DEF BufferInOrder
      <4>2. buffer[i] \in Entries
        BY <4>1
      <4> QED
        BY <4>2 DEF Entries
    <3>2. CASE buffer[i].index < page.since
      <4>1. Has(before, buffer[i])
        BY <1>2, <3>2 DEF before
      <4> QED
        BY <2>10, <4>1
    <3>3. CASE ~(buffer[i].index < page.since)
      <4>1. buffer[i].index \in page.since..(answer.next - 1)
        BY <2>2, <2>11, <3>1, <3>3
      <4>2. Has(came, buffer[i])
        BY <1>3, <4>1 DEF came
      <4> QED
        BY <2>10, <4>2
    <3> QED
      BY <3>2, <3>3
  <2>12. page'.since = answer.next /\ page'.shows = all /\ page' \in [since : Nat, shows : Seq(Entries)]
    BY <2>1, <2>2, <2>4
  <2>13. Rising(page'.shows)
    BY <2>8, <2>12
  <2>14. PageShows'
    BY <1>3, <1>4, <2>9, <2>11, <2>12, <2>13 DEF PageShows, Rising, Has
  <2> QED
    BY <1>1, <1>4, <1>5, <2>14 DEF LogInv, BufferInOrder, Rising
<1> QED
  BY <1>6, <1>7

(* Every step keeps the invariant of the log.                               *)
LEMMA LogKept == ASSUME LogInv, [Logs!Next]_lb PROVE LogInv'
<1>1. CASE UNCHANGED lb
  BY <1>1 DEF lb, LogInv, BufferInOrder, PageShows, AnswerCarries, Rising, Has, Logs!NoAnswer
<1> QED
  BY <1>1, AppendLineKeeps, PollKeeps, ShowKeeps DEF Logs!Next

(* And it says what is promised of it.                                      *)
LEMMA LogTells == LogInv => Logs!TypeOK /\ Logs!ShownInOrder /\ Logs!MissedIsDropped
<1> SUFFICES ASSUME LogInv PROVE Logs!TypeOK /\ Logs!ShownInOrder /\ Logs!MissedIsDropped
  OBVIOUS
<1>1. counter \in Nat /\ BufferInOrder(buffer, counter) /\ Len(lb_file) <= MaxLines /\ PageShows
  BY DEF LogInv
<1>2. ASSUME NEW s \in Seq(Entries), Rising(s), NEW i \in DOMAIN s, i > 1 PROVE s[i].index > s[i - 1].index
  <2>1. i - 1 \in DOMAIN s /\ i - 1 < i
    BY <1>2
  <2>2. s[i - 1].index < s[i].index
    BY <1>2, <2>1 DEF Rising
  <2>3. s[i] \in Entries /\ s[i - 1] \in Entries
    BY <1>2, <2>1
  <2> QED
    BY <2>2, <2>3 DEF Entries
<1>3. Logs!TypeOK
  BY <1>1, <1>2 DEF BufferInOrder, Logs!TypeOK
<1>4. Logs!ShownInOrder
  BY <1>1, <1>2 DEF PageShows, Logs!ShownInOrder
<1>5. Logs!MissedIsDropped
  BY <1>1 DEF PageShows, Has, Logs!MissedIsDropped, Logs!ToSet
<1> QED
  BY <1>3, <1>4, <1>5

-------------------------------------------------------------------------------
(* The walk-forward test.  First what its operators return: recursive       *)
(* functions exist, and what holds of all their values, by a least          *)
(* counterexample, in the place of an induction.                            *)

Before == {p \in Nat \X Nat : p[1] < p[2]}

(* Every set of natural numbers that is not empty has a least element.      *)
LEMMA LeastOf == ASSUME NEW T, T \subseteq Nat, T # {} PROVE \E x \in T : \A y \in T : x <= y
<1>1. IsWellFoundedOn(Before, Nat)
  <2>1. Before = OpToRel(<, Nat)
    BY DEF Before, OpToRel
  <2> QED BY <2>1, NatLessThanWellFounded
<1>2. PICK x \in T : \A y \in T : ~(<<y, x>> \in Before)
  BY <1>1, WFMin
<1>3. ASSUME NEW y \in T PROVE x <= y
  <2>1. <<y, x>> \in Nat \X Nat
    OBVIOUS
  <2>2. y < x => <<y, x>> \in Before
    BY <2>1 DEF Before
  <2> QED BY <1>2, <2>2
<1> QED BY <1>3

(* What is true at 0 and after each number at which it is true, is true up  *)
(* to any number.                                                           *)
LEMMA UpTo ==
  ASSUME NEW L \in Nat, NEW Good, 0 \in Good, \A k \in 1..L : k - 1 \in Good => k \in Good
  PROVE  \A k \in 0..L : k \in Good
<1> DEFINE Bad == {k \in 0..L : k \notin Good}
<1>1. ASSUME NEW k \in Bad, \A j \in Bad : k <= j PROVE FALSE
  <2>1. k \in 1..L /\ k - 1 \in 0..L /\ ~(k <= k - 1)
    OBVIOUS
  <2>2. k - 1 \notin Bad
    BY <1>1, <2>1
  <2> QED
    BY <2>1, <2>2
<1>2. Bad \subseteq Nat
  OBVIOUS
<1> HIDE DEF Bad
<1>3. Bad = {}
  BY <1>1, <1>2, LeastOf
<1> QED
  BY <1>3 DEF Bad

(* Nothing lies between a number and the next: a remainder is what is left   *)
(* of a sum with a multiple, and counting on by one turns it by one.         *)
LEMMA OneQuotient ==
  ASSUME NEW B \in Nat \ {0}, NEW q \in Int, NEW p \in Int, NEW r \in 0..(B - 1), NEW s \in 0..(B - 1),
         B * q + r = B * p + s
  PROVE  r = s
<1>1. CASE q = p
  BY <1>1
<1>2. CASE q > p
  <2>1. B * q >= B * (p + 1)
    BY <1>2
  <2> QED
    BY <2>1
<1>3. CASE q < p
  <2>1. B * p >= B * (q + 1)
    BY <1>3
  <2> QED
    BY <2>1
<1> QED
  BY <1>1, <1>2, <1>3

LEMMA Remainder ==
  ASSUME NEW B \in Nat \ {0}, NEW num \in Nat
  PROVE  /\ num % B \in 0..(B - 1)
         /\ (num + 1) % B = 0 \/ (num + 1) % B = (num % B) + 1
<1>1. \A n \in Nat : n % B \in 0..(B - 1) /\ n = B * (n \div B) + (n % B) /\ (n \div B) \in Int
  <2> SUFFICES ASSUME NEW n \in Nat
      PROVE n % B \in 0..(B - 1) /\ n = B * (n \div B) + (n % B) /\ (n \div B) \in Int
    OBVIOUS
  <2>1. n % B \in 0..(B - 1)
    OBVIOUS
  <2>2. n = B * (n \div B) + (n % B)
    OBVIOUS
  <2>3. (n \div B) \in Int
    OBVIOUS
  <2> QED
    BY <2>1, <2>2, <2>3
<1>2. PICK q \in Int, r \in 0..(B - 1) : r = num % B /\ num = B * q + r
  BY <1>1
<1>3. PICK p \in Int, s \in 0..(B - 1) : s = (num + 1) % B /\ num + 1 = B * p + s
  <2>1. num + 1 \in Nat
    OBVIOUS
  <2> QED
    BY <1>1, <2>1
<1>4. ASSUME r + 1 \in 0..(B - 1) PROVE s = r + 1
  <2>1. B * q + (r + 1) = B * p + s
    BY <1>2, <1>3
  <2> QED
    BY <2>1, <1>4, OneQuotient
<1>5. ASSUME r + 1 = B PROVE s = 0
  <2>3. B * (q + 1) = B * q + B
    OBVIOUS
  <2>4. num + 1 = B * q + B
    <3>1. PICK x \in Int : x = B * q
      OBVIOUS
    <3>2. num = x + r
      BY <1>2, <3>1
    <3>3. num + 1 = x + B
      BY <3>2, <1>5
    <3> QED
      BY <3>1, <3>3
  <2>1. B * (q + 1) + 0 = B * p + s
    BY <1>3, <2>3, <2>4
  <2>2. q + 1 \in Int /\ 0 \in 0..(B - 1)
    OBVIOUS
  <2> QED
    BY <2>1, <2>2, OneQuotient
<1>6. r + 1 \in 0..(B - 1) \/ r + 1 = B
  OBVIOUS
<1>7. num % B = r /\ (num + 1) % B = s
  BY <1>2, <1>3
<1> QED
  BY <1>4, <1>5, <1>6, <1>7

(* A function that is defined by recursion over the numbers up to one exists. *)
Follows(f, start, g, L) == f[0] = start /\ \A n \in 1..L : f[n] = g[n][f[n - 1]]

LEMMA Recursion ==
  ASSUME NEW L \in Nat, NEW V, NEW start \in V, NEW g \in [1..L -> [V -> V]]
  PROVE  \E f \in [0..L -> V] : Follows(f, start, g, L)
<1> USE DEF Follows
<1> DEFINE Is(k, f) == f[0] = start /\ \A n \in 1..k : f[n] = g[n][f[n - 1]]
           Good == {k \in 0..L : \E f \in [0..k -> V] : Is(k, f)}
<1>1. 0 \in Good
  <2>1. [n \in 0..0 |-> start] \in [0..0 -> V] /\ Is(0, [n \in 0..0 |-> start])
    OBVIOUS
  <2>2. 0 \in 0..L
    OBVIOUS
  <2> HIDE DEF Is
  <2> QED
    BY <2>1, <2>2
<1>2. ASSUME NEW k \in 1..L, k - 1 \in Good PROVE k \in Good
  <2>1. PICK f \in [0..(k - 1) -> V] : Is(k - 1, f)
    BY <1>2
  <2> DEFINE h == [n \in 0..k |-> IF n = k THEN g[k][f[k - 1]] ELSE f[n]]
  <2>2. f[k - 1] \in V /\ k - 1 \in 0..(k - 1)
    OBVIOUS
  <2>3. g[k][f[k - 1]] \in V
    BY <2>2
  <2>4. \A n \in 0..k : n = k \/ n \in 0..(k - 1)
    OBVIOUS
  <2>5. h \in [0..k -> V]
    BY <2>3, <2>4
  <2>6. h[0] = start
    <3>1. 0 \in 0..k /\ 0 # k
      OBVIOUS
    <3> QED
      BY <2>1, <3>1
  <2>7. ASSUME NEW n \in 1..k PROVE h[n] = g[n][h[n - 1]]
    <3>1. n \in 0..k /\ n - 1 \in 0..k /\ n - 1 # k /\ (n # k => n \in 1..(k - 1))
      OBVIOUS
    <3>2. h[n - 1] = f[n - 1]
      BY <3>1
    <3>3. CASE n = k
      <4>1. h[n] = g[k][f[k - 1]]
        BY <3>1, <3>3
      <4> QED
        BY <4>1, <3>2, <3>3
    <3>4. CASE n # k
      <4>1. h[n] = f[n]
        BY <3>1, <3>4
      <4>2. f[n] = g[n][f[n - 1]]
        BY <2>1, <3>1, <3>4
      <4> QED
        BY <4>1, <4>2, <3>2
    <3> QED
      BY <3>3, <3>4
  <2> HIDE DEF h
  <2>8. Is(k, h)
    BY <2>6, <2>7
  <2>9. k \in 0..L
    OBVIOUS
  <2> QED
    BY <2>5, <2>8, <2>9
<1> HIDE DEF Good
<1>3. L \in Good
  <2>1. \A k \in 0..L : k \in Good
    BY <1>1, <1>2, UpTo
  <2> QED
    BY <2>1
<1> QED
  BY <1>3 DEF Good

(* The sum of whole numbers is one.                                         *)
LEMMA SumsAre ==
  ASSUME NEW L \in Nat, NEW s, Len(s) = L, \A k \in 1..L : s[k] \in Int
  PROVE  Walk!Sum(s) \in Int
<1> DEFINE Is(f) == f = [k \in 0..L |-> IF k = 0 THEN 0 ELSE f[k - 1] + s[k]]
           g == [k \in 1..L |-> [x \in Int |-> x + s[k]]]
           total == CHOOSE f : Is(f)
<1>1. g \in [1..L -> [Int -> Int]]
  OBVIOUS
<1>2. PICK f \in [0..L -> Int] : f[0] = 0 /\ \A n \in 1..L : f[n] = g[n][f[n - 1]]
  <2> DEFINE V == Int
             zero == 0
  <2>1. zero \in V /\ g \in [1..L -> [V -> V]]
    BY <1>1
  <2> HIDE DEF g, V, zero
  <2>2. \E f \in [0..L -> V] : Follows(f, zero, g, L)
    BY <2>1, Recursion
  <2> QED
    BY <2>2 DEF V, zero, Follows
<1>3. \A n \in 0..L : f[n] = IF n = 0 THEN 0 ELSE f[n - 1] + s[n]
  <2> SUFFICES ASSUME NEW n \in 0..L, n # 0 PROVE f[n] = f[n - 1] + s[n]
    BY <1>2
  <2>1. n \in 1..L /\ f[n - 1] \in Int
    OBVIOUS
  <2> QED
    BY <1>2, <2>1
<1>4. Is(f)
  <2>1. f = [n \in 0..L |-> f[n]]
    OBVIOUS
  <2> QED
    BY <1>3, <2>1
<1>5. Is(total)
  <2> HIDE DEF Is
  <2> QED
    BY <1>4
<1>6. total[L] \in Int
  <2> DEFINE Good == {k \in 0..L : total[k] \in Int}
  <2>0. \A k \in 0..L : total[k] = IF k = 0 THEN 0 ELSE total[k - 1] + s[k]
    <3> HIDE DEF total
    <3> QED
      BY <1>5
  <2> HIDE DEF total
  <2>1. 0 \in Good
    BY <2>0
  <2>2. ASSUME NEW k \in 1..L, k - 1 \in Good PROVE k \in Good
    <3>1. k \in 0..L /\ k # 0 /\ total[k - 1] \in Int /\ s[k] \in Int
      BY <2>2
    <3>2. total[k] = total[k - 1] + s[k]
      BY <2>0, <3>1
    <3> QED
      BY <3>1, <3>2
  <2> HIDE DEF Good
  <2>3. L \in Good
    <3>1. \A k \in 0..L : k \in Good
      BY <2>1, <2>2, UpTo
    <3> QED
      BY <3>1
  <2> QED
    BY <2>3 DEF Good
<1>7. Walk!Sum(s) = total[L]
  BY DEF Walk!Sum
<1> QED
  BY <1>6, <1>7

Positions == {-1, 0, 1}

(* The positions of a month are positions, and the first bar holds what was  *)
(* carried in, unless its spread forbids an entry.                           *)
LEMMA ExecutedAre ==
  ASSUME NEW n \in Nat, NEW bars, DOMAIN bars = 1..n, Len(bars) = n, NEW dec, NEW in \in Positions,
         \A k \in 1..n : dec[bars[k] - Walk!TestStart] \in Positions
  PROVE  /\ DOMAIN Walk!Executed(bars, dec, in) = 1..n
         /\ \A k \in 1..n : Walk!Executed(bars, dec, in)[k] \in Positions
         /\ n > 0 => \/ Walk!Executed(bars, dec, in)[1] = in
                     \/ Walk!Executed(bars, dec, in)[1] = 0 /\ bars[1] \in Wide
<1> DEFINE Of(k, x) == IF k = 0 \/ (bars[k] \in Wide /\ x = 0) THEN 0
                       ELSE IF k = 1 THEN in ELSE dec[bars[k - 1] - Walk!TestStart]
           Is(f) == f = [k \in 0..n |-> IF k = 0 \/ (bars[k] \in Wide /\ f[k - 1] = 0) THEN 0
                                        ELSE IF k = 1 THEN in ELSE dec[bars[k - 1] - Walk!TestStart]]
           g == [k \in 1..n |-> [x \in Positions |-> Of(k, x)]]
           zero == 0
           p == CHOOSE f : Is(f)
<1>0. \A k \in 0..n : \A x : Of(k, x) \in Positions
  <2> SUFFICES ASSUME NEW k \in 0..n, NEW x PROVE Of(k, x) \in Positions
    OBVIOUS
  <2>1. k > 1 => k - 1 \in 1..n
    OBVIOUS
  <2>2. CASE k > 1
    BY <2>1, <2>2 DEF Positions
  <2>3. CASE ~(k > 1)
    <3>1. k = 0 \/ k = 1
      BY <2>3
    <3> QED
      BY <3>1 DEF Positions
  <2> QED
    BY <2>2, <2>3
<1>1. g \in [1..n -> [Positions -> Positions]] /\ zero \in Positions
  <2> HIDE DEF Of
  <2> QED
    BY <1>0 DEF Positions
<1>2. PICK f \in [0..n -> Positions] : Follows(f, zero, g, n)
  <2> HIDE DEF g, zero
  <2> QED
    BY <1>1, Recursion
<1>3. \A k \in 0..n : f[k] = Of(k, f[k - 1])
  <2> SUFFICES ASSUME NEW k \in 0..n PROVE f[k] = Of(k, f[k - 1])
    OBVIOUS
  <2>1. CASE k = 0
    BY <1>2, <2>1 DEF Follows
  <2>2. CASE k # 0
    <3>1. k \in 1..n /\ f[k - 1] \in Positions
      BY <2>2
    <3>2. f[k] = g[k][f[k - 1]]
      BY <1>2, <3>1 DEF Follows
    <3> HIDE DEF Of
    <3> QED
      BY <3>1, <3>2
  <2> QED
    BY <2>1, <2>2
<1>4. Is(f)
  <2>1. f = [k \in 0..n |-> f[k]]
    OBVIOUS
  <2> QED
    BY <1>3, <2>1
<1>5. Is(p)
  <2> HIDE DEF Is
  <2> QED
    BY <1>4
<1>6. \A k \in 0..n : p[k] = Of(k, p[k - 1])
  <2> HIDE DEF p
  <2> QED
    BY <1>5
<1>7. Walk!Executed(bars, dec, in) = [k \in 1..n |-> p[k]]
  BY DEF Walk!Executed
<1> HIDE DEF p
<1>8. \A k \in 1..n : p[k] \in Positions
  <2>1. \A k \in 1..n : k \in 0..n
    OBVIOUS
  <2> HIDE DEF Of
  <2> QED
    BY <1>0, <1>6, <2>1
<1>9. n > 0 => p[1] = in \/ (p[1] = 0 /\ bars[1] \in Wide)
  <2> SUFFICES ASSUME n > 0 PROVE p[1] = in \/ (p[1] = 0 /\ bars[1] \in Wide)
    OBVIOUS
  <2>1. 1 \in 0..n
    OBVIOUS
  <2>2. p[1] = Of(1, p[1 - 1])
    BY <1>6, <2>1
  <2> QED
    BY <2>2
<1>10. n > 0 => 1 \in 1..n
  OBVIOUS
<1> HIDE DEF Of
<1> QED
  BY <1>7, <1>8, <1>9, <1>10

(* The bars below one of them.                                              *)
Under(S, bar) == {one \in S : one < bar}

(* A set of bars in their order: each has as many of them before it as come  *)
(* before it.                                                                *)
LEMMA RankTaken ==
  ASSUME NEW S \in SUBSET Nat, IsFiniteSet(S), NEW k \in 1..Cardinality(S)
  PROVE  \E bar \in S : Cardinality(Under(S, bar)) = k - 1
<1> DEFINE Upto(bar) == {one \in S : one <= bar}
           Enough == {bar \in S : Cardinality(Upto(bar)) >= k}
<1>0. Cardinality(S) \in Nat
  BY FS_CardinalityType
<1>1. \A bar : IsFiniteSet(Under(S, bar)) /\ Cardinality(Under(S, bar)) \in Nat
             /\ IsFiniteSet(Upto(bar)) /\ Cardinality(Upto(bar)) \in Nat
  <2> SUFFICES ASSUME NEW bar
      PROVE IsFiniteSet(Under(S, bar)) /\ Cardinality(Under(S, bar)) \in Nat
            /\ IsFiniteSet(Upto(bar)) /\ Cardinality(Upto(bar)) \in Nat
    OBVIOUS
  <2>1. Under(S, bar) \in SUBSET S /\ Upto(bar) \in SUBSET S
    BY DEF Under
  <2>2. IsFiniteSet(Under(S, bar)) /\ IsFiniteSet(Upto(bar))
    BY <2>1, FS_Subset
  <2> QED
    BY <2>2, FS_CardinalityType
<1>2. ASSUME Enough = {} PROVE FALSE
  <2>1. S # {}
    BY <1>0, FS_EmptySet
  <2> DEFINE Above(bar) == {one \in S : one > bar}
             Fewer == {Cardinality(Above(bar)) : bar \in S}
  <2>2. \A bar \in S : IsFiniteSet(Above(bar)) /\ Cardinality(Above(bar)) \in Nat
    <3> SUFFICES ASSUME NEW bar \in S PROVE IsFiniteSet(Above(bar)) /\ Cardinality(Above(bar)) \in Nat
      OBVIOUS
    <3>1. Above(bar) \in SUBSET S
      OBVIOUS
    <3>2. IsFiniteSet(Above(bar))
      BY <3>1, FS_Subset
    <3> QED
      BY <3>2, FS_CardinalityType
  <2> HIDE DEF Above
  <2>3. Fewer \subseteq Nat /\ Fewer # {}
    BY <2>1, <2>2
  <2>4. PICK top \in S : \A y \in Fewer : Cardinality(Above(top)) <= y
    <3> HIDE DEF Fewer
    <3>1. PICK x \in Fewer : \A y \in Fewer : x <= y
      BY <2>3, LeastOf
    <3> QED
      BY <3>1 DEF Fewer
  <2>5. \A bar \in S : bar <= top
    <3> SUFFICES ASSUME NEW bar \in S, ~(bar <= top) PROVE FALSE
      OBVIOUS
    <3>0. \A one \in S : one \in Nat
      OBVIOUS
    <3>1. top \in Nat /\ bar \in Nat
      OBVIOUS
    <3>5. bar > top
      BY <3>1
    <3>6. \A one \in S : one > bar => one > top
      BY <3>0, <3>1, <3>5
    <3>7. ~(bar > bar)
      BY <3>1
    <3>2. Above(bar) \in SUBSET Above(top) /\ bar \in Above(top) /\ bar \notin Above(bar)
      BY <3>5, <3>6, <3>7 DEF Above
    <3>3. Cardinality(Above(bar)) <= Cardinality(Above(top)) /\ Cardinality(Above(bar)) # Cardinality(Above(top))
      BY <2>2, <3>2, FS_Subset
    <3>4. Cardinality(Above(top)) <= Cardinality(Above(bar))
      BY <2>4
    <3>8. Cardinality(Above(top)) \in Nat /\ Cardinality(Above(bar)) \in Nat
      BY <2>2
    <3> QED
      BY <3>3, <3>4, <3>8
  <2>6. Upto(top) = S
    BY <2>5
  <2>7. top \in Enough
    BY <1>0, <2>6
  <2> QED
    BY <1>2, <2>7
<1>3. PICK bar \in Enough : \A one \in Enough : bar <= one
  <2>1. Enough \subseteq Nat
    OBVIOUS
  <2> HIDE DEF Enough
  <2> QED
    BY <1>2, <2>1, LeastOf
<1>4. bar \in S /\ bar \in Nat /\ Cardinality(Upto(bar)) >= k
  OBVIOUS
<1>5. Upto(bar) = Under(S, bar) \cup {bar} /\ bar \notin Under(S, bar)
  <2>1. \A one \in S : (one <= bar <=> one < bar \/ one = bar)
    <3>1. \A one \in S : one \in Nat
      OBVIOUS
    <3> QED
      BY <1>4, <3>1
  <2>2. ~(bar < bar)
    BY <1>4
  <2> QED
    BY <1>4, <2>1, <2>2 DEF Under
<1>6. Cardinality(Upto(bar)) = Cardinality(Under(S, bar)) + 1
  BY <1>1, <1>5, FS_AddElement
<1>7. Cardinality(Under(S, bar)) < k
  <2>1. CASE Under(S, bar) = {}
    BY <2>1, FS_EmptySet
  <2>2. CASE Under(S, bar) # {}
    <3> DEFINE Gaps == {bar - one : one \in Under(S, bar)}
    <3>9. \A one \in Under(S, bar) : one \in Nat /\ one < bar
      BY DEF Under
    <3>8. \A one \in Under(S, bar) : bar - one \in Nat
      BY <1>4, <3>9
    <3>1. Gaps \subseteq Nat /\ Gaps # {}
      BY <2>2, <3>8
    <3>2. PICK prev \in Under(S, bar) : \A x \in Gaps : bar - prev <= x
      <4> HIDE DEF Gaps
      <4>1. PICK x \in Gaps : \A y \in Gaps : x <= y
        BY <3>1, LeastOf
      <4> QED
        BY <4>1 DEF Gaps
    <3>3. \A one \in Under(S, bar) : one <= prev
      <4> SUFFICES ASSUME NEW one \in Under(S, bar) PROVE one <= prev
        OBVIOUS
      <4>1. bar - prev <= bar - one
        BY <3>2
      <4>2. one \in Nat /\ prev \in Nat
        BY DEF Under
      <4> QED
        BY <1>4, <4>1, <4>2
    <3>4. prev \in S /\ prev \in Nat /\ prev < bar
      BY DEF Under
    <3>5. Upto(prev) = Under(S, bar)
      <4>1. \A one \in Upto(prev) : one \in Nat /\ one < bar
        BY <1>4, <3>4
      <4>2. Upto(prev) \subseteq Under(S, bar)
        BY <4>1 DEF Under
      <4>3. Under(S, bar) \subseteq Upto(prev)
        BY <3>3 DEF Under
      <4> QED
        BY <4>2, <4>3
    <3>6. prev \notin Enough
      <4> HIDE DEF Enough
      <4> QED
        BY <1>3, <1>4, <3>4
    <3> QED
      BY <1>1, <3>4, <3>5, <3>6
  <2> QED
    BY <2>1, <2>2
<1> HIDE DEF Enough, Upto
<1> QED
  BY <1>1, <1>4, <1>6, <1>7

(* The instance of WalkForward counts as this module does.                  *)
LEMMA SameCount == ASSUME NEW S PROVE Walk!Cardinality(S) = Cardinality(S)
  BY DEF Walk!Cardinality, Cardinality

LEMMA AscendingIs ==
  ASSUME NEW S \in SUBSET Nat, IsFiniteSet(S)
  PROVE  /\ Cardinality(S) \in Nat /\ Walk!Ascending(S) \in [1..Cardinality(S) -> S]
         /\ \A i, j \in 1..Cardinality(S) : i < j => Walk!Ascending(S)[i] < Walk!Ascending(S)[j]
<1> DEFINE n == Cardinality(S)
           asc == Walk!Ascending(S)
<1>0. n \in Nat
  BY FS_CardinalityType
<1>1. asc = [k \in 1..n |-> CHOOSE bar \in S : Walk!Cardinality({one \in S : one < bar}) = k - 1]
  <2>1. asc = [k \in 1..Walk!Cardinality(S) |-> CHOOSE bar \in S : Walk!Cardinality({one \in S : one < bar}) = k - 1]
    BY DEF Walk!Ascending
  <2>2. Walk!Cardinality(S) = n
    BY SameCount
  <2> HIDE DEF n, asc
  <2> QED
    BY <2>1, <2>2
<1>2. ASSUME NEW k \in 1..n PROVE asc[k] \in S /\ Cardinality(Under(S, asc[k])) = k - 1
  <2>1. \E bar \in S : Walk!Cardinality({one \in S : one < bar}) = k - 1
    BY RankTaken, SameCount DEF Under
  <2>2. asc[k] = CHOOSE bar \in S : Walk!Cardinality({one \in S : one < bar}) = k - 1
    <3> HIDE DEF asc
    <3> QED
      BY <1>1
  <2> HIDE DEF asc
  <2>3. asc[k] \in S /\ Walk!Cardinality({one \in S : one < asc[k]}) = k - 1
    BY <2>1, <2>2
  <2> QED
    BY <2>3, SameCount DEF Under
<1>3. asc \in [1..n -> S]
  <2>1. asc = [k \in 1..n |-> asc[k]]
    <3> DEFINE e(k) == CHOOSE bar \in S : Walk!Cardinality({one \in S : one < bar}) = k - 1
    <3>1. asc = [k \in 1..n |-> e(k)]
      BY <1>1
    <3> HIDE DEF asc, n, e
    <3> QED
      BY <3>1
  <2> HIDE DEF asc, n
  <2> QED
    BY <1>2, <2>1
<1>4. ASSUME NEW i \in 1..n, NEW j \in 1..n, i < j PROVE asc[i] < asc[j]
  <2> SUFFICES ASSUME ~(asc[i] < asc[j]) PROVE FALSE
    OBVIOUS
  <2>0. asc[i] \in Nat /\ asc[j] \in Nat
    <3> HIDE DEF asc, n
    <3> QED
      BY <1>2
  <2>1. Under(S, asc[j]) \in SUBSET Under(S, asc[i])
    <3> HIDE DEF asc, n
    <3>1. \A one \in S : one \in Nat
      OBVIOUS
    <3>2. \A one \in S : one < asc[j] => one < asc[i]
      BY <2>0, <3>1
    <3> QED
      BY <3>2 DEF Under
  <2>2. IsFiniteSet(Under(S, asc[i]))
    <3>1. Under(S, asc[i]) \in SUBSET S
      BY DEF Under
    <3> QED
      BY <3>1, FS_Subset
  <2>3. Cardinality(Under(S, asc[j])) <= Cardinality(Under(S, asc[i]))
    BY <2>1, <2>2, FS_Subset
  <2>4. Cardinality(Under(S, asc[i])) = i - 1 /\ Cardinality(Under(S, asc[j])) = j - 1
    BY <1>2
  <2> HIDE DEF asc, n
  <2>5. i \in Int /\ j \in Int
    OBVIOUS
  <2> QED
    BY <1>4, <2>3, <2>4, <2>5
<1> HIDE DEF asc, n
<1>5. QED
  BY <1>0, <1>3, <1>4 DEF asc, n

-------------------------------------------------------------------------------
(* The first bar of a month; the last one is the first of the next.          *)
First(m) == (Lead + m - 1) * Bars

LEMMA WalkBounds ==
  /\ Months \in Nat /\ Bars \in Nat \ {0} /\ Lead \in Nat \ {0} /\ Span \in Nat \ {0}
  /\ Interval \in Nat \ {0} /\ Block \in Nat \ {0} /\ Warm \in Nat /\ Fee \in Nat
  /\ Session \subseteq 1..(Bars - 1) /\ Walk!End \in Nat /\ \A bar \in 0..Walk!End : Ret[bar] \in Int
  /\ Signals \subseteq [0..Bars -> {-1, 0, 1}] /\ Walks \subseteq Walk!Settings
  BY Assumptions DEF Walk!WalkAssumption

LEMMA Firsts ==
  ASSUME NEW m \in Nat \ {0}
  PROVE  First(m) \in Nat \ {0} /\ First(m + 1) = First(m) + Bars /\ First(m) % Bars = 0
<1>1. Lead \in Nat \ {0} /\ Bars \in Nat \ {0}
  BY WalkBounds
<1>2. PICK l \in Nat \ {0} : l = Lead + m - 1
  BY <1>1
<1>3. First(m) = l * Bars /\ First(m + 1) = (l + 1) * Bars
  BY <1>1, <1>2 DEF First
<1>4. l * Bars \in Nat \ {0} /\ (l + 1) * Bars = l * Bars + Bars /\ (l * Bars) % Bars = 0
  <2>1. l * Bars \in Nat \ {0}
    BY <1>1
  <2>2. (l + 1) * Bars = l * Bars + Bars
    BY <1>1
  <2>3. (l * Bars) % Bars = 0
    BY <1>1
  <2> QED
    BY <2>1, <2>2, <2>3
<1> QED
  BY <1>3, <1>4

(* Bars of a month, in their order, each in the session if there is a filter. *)
InMonth(m, bars) ==
  /\ bars \in Seq(0..Walk!End)
  /\ \A k \in DOMAIN bars : bars[k] \in First(m)..(First(m) + Bars) /\ Walk!InSession(bars[k])
  /\ \A i, j \in DOMAIN bars : i < j => bars[i] < bars[j]

LEMMA EvalBarsAre ==
  ASSUME month \in Nat \ {0}
  PROVE  InMonth(month, Walk!EvalBars)
<1> DEFINE S == {bar \in Walk!Raw : Walk!InSession(bar)}
<1>1. Walk!Raw = {bar \in First(month)..(First(month) + Bars) : bar <= Walk!End}
  BY DEF Walk!Raw, Walk!TestStart, First
<1>2. First(month) \in Nat /\ Bars \in Nat /\ Walk!End \in Nat
  BY WalkBounds, Firsts
<1>3. S \subseteq 0..Walk!End /\ \A bar \in S : bar \in First(month)..(First(month) + Bars) /\ Walk!InSession(bar)
  BY <1>1, <1>2
<1>4. IsFiniteSet(S)
  <2>1. IsFiniteSet(0..Walk!End)
    BY <1>2, FS_Interval
  <2> HIDE DEF S
  <2> QED
    BY <1>3, <2>1, FS_Subset
<1>5. S \in SUBSET Nat
  <2> HIDE DEF S
  <2>1. 0..Walk!End \subseteq Nat
    BY <1>2
  <2> QED
    BY <1>3, <2>1
<1> DEFINE bars == Walk!EvalBars
           n == Cardinality(S)
<1>6. bars = Walk!Ascending(S)
  BY DEF Walk!EvalBars
<1> HIDE DEF S, bars
<1>7. n \in Nat /\ bars \in [1..n -> S] /\ \A i, j \in 1..n : i < j => bars[i] < bars[j]
  BY <1>4, <1>5, <1>6, AscendingIs
<1> HIDE DEF n
<1>8. DOMAIN bars = 1..n /\ \A k \in 1..n : bars[k] \in S
  BY <1>7
<1>9. bars \in Seq(0..Walk!End)
  <2>1. bars \in [1..n -> 0..Walk!End]
    BY <1>3, <1>7
  <2>2. \A T : [1..n -> T] \subseteq Seq(T)
    BY <1>7
  <2> QED
    BY <2>1, <2>2
<1> QED
  BY <1>3, <1>7, <1>8, <1>9 DEF InMonth, bars

(* A part of them, from some bar on.                                        *)
LEMMA FlatBarsAre ==
  ASSUME month \in Nat \ {0}
  PROVE  InMonth(month, Walk!FlatBars)
<1> DEFINE all == Walk!EvalBars
           n == Len(all)
           from == 1 + Walk!Min({Warm, n - 1})
<1>1. InMonth(month, all)
  BY EvalBarsAre
<1>2. Warm \in Nat
  BY WalkBounds
<1> HIDE DEF all
<1>3. all \in Seq(0..Walk!End) /\ n \in Nat /\ DOMAIN all = 1..n
  BY <1>1 DEF InMonth
<1>4. CASE n = 0
  <2>1. Walk!FlatBars = <<>>
    BY <1>4 DEF Walk!FlatBars, all
  <2> QED
    BY <2>1 DEF InMonth
<1>5. CASE n # 0
  <2>1. Walk!FlatBars = SubSeq(all, from, n)
    BY <1>5 DEF Walk!FlatBars, all
  <2>2. from \in 1..n
    <3>1. Walk!Min({Warm, n - 1}) \in {Warm, n - 1} /\ Walk!Min({Warm, n - 1}) <= n - 1
      <4>1. \E x \in {Warm, n - 1} : \A y \in {Warm, n - 1} : x <= y
        BY <1>2, <1>3
      <4> QED
        BY <4>1 DEF Walk!Min
    <3> QED
      BY <1>2, <1>3, <1>5, <3>1
  <2> HIDE DEF from, n
  <2> DEFINE s == SubSeq(all, from, n)
  <2>3. s \in Seq(0..Walk!End) /\ Len(s) = n - from + 1 /\ \A k \in 1..(n - from + 1) : s[k] = all[from + k - 1]
    <3>1. from \in Int /\ n \in Int /\ from <= n
      BY <1>3, <2>2
    <3>4. \A i \in from..n : i \in 1..n
      BY <1>3, <2>2
    <3>5. \A i \in 1..n : all[i] \in 0..Walk!End
      BY <1>3, ElementOfSeq DEF n
    <3>2. \A i \in from..n : all[i] \in 0..Walk!End
      BY <3>4, <3>5
    <3>3. n - from + 1 = n - from + 1
      OBVIOUS
    <3> QED
      BY <3>1, <3>2, SubSeqProperties
  <2>4. \A k \in 1..(n - from + 1) : from + k - 1 \in 1..n
    BY <1>3, <2>2
  <2>5. DOMAIN s = 1..(n - from + 1)
    BY <2>3
  <2> HIDE DEF s
  <2>6. \A k \in DOMAIN s : s[k] \in First(month)..(First(month) + Bars) /\ Walk!InSession(s[k])
    BY <1>1, <1>3, <2>3, <2>4, <2>5 DEF InMonth
  <2>7. ASSUME NEW i \in DOMAIN s, NEW j \in DOMAIN s, i < j PROVE s[i] < s[j]
    <3>1. from + i - 1 \in 1..n /\ from + j - 1 \in 1..n /\ from + i - 1 < from + j - 1
      BY <1>3, <2>2, <2>4, <2>5, <2>7
    <3>2. all[from + i - 1] < all[from + j - 1]
      BY <1>1, <1>3, <3>1 DEF InMonth
    <3> QED
      BY <2>3, <2>5, <3>2
  <2> QED
    BY <2>1, <2>3, <2>6, <2>7 DEF InMonth, s
<1> QED
  BY <1>4, <1>5

-------------------------------------------------------------------------------
(* The invariant of the walk.                                               *)

Papers  == [mine : BOOLEAN, at : 0..Months]
Entered == [kind : {"model", "flat"}, month : 0..Months, from : Int, bars : Seq(0..Walk!End), pos : Seq(Positions),
            eq : Int, bh : Int, since : 0..Months, policy : SUBSET Papers, used : 0..Months]
Stages  == {"hpo", "month", "tune", "evaluate", "log", "done", "raised", "cancelled"}

(* Types, and how many months are entered at each stage.                    *)
WalkTypes ==
  /\ opt \in Walks /\ month \in 0..Months /\ best \in BOOLEAN /\ stage \in Stages
  /\ carry \in [pos : Positions, eq : Int, bh : Int]
  /\ chain \in [count : 0..Months, since : 0..Months] /\ chain.count <= month /\ chain.since <= month
  /\ policy \in [file : SUBSET Papers, count : 0..Months] /\ policy.count <= month
  /\ made \in SUBSET [dec : [0..Bars -> Positions], pos : Seq(Positions)]
  /\ months \in Seq(Entered)
  /\ stage \in {"hpo", "month", "done"} => Len(months) = month
  /\ stage \in {"tune", "evaluate", "log", "cancelled"} => Len(months) = month - 1
  /\ stage = "raised" => Len(months) \in {month, month - 1}
  /\ stage = "hpo" => month = 0
  /\ stage \in {"tune", "evaluate"} => policy.count < month
  /\ stage \in {"hpo", "tune"} => ~opt.dqn

(* The first position of a month is the one that was carried into it.       *)
TakesUp(bars, pos) ==
  /\ DOMAIN pos = DOMAIN bars
  /\ bars # <<>> => pos[1] = carry.pos \/ (pos[1] = 0 /\ bars[1] \in Wide)

MadeInv ==
  /\ stage = "tune" => made = {}
  /\ stage = "log" => \A m \in made : TakesUp(Walk!EvalBars, m.pos)

(* Each month has the bars and the training window of its place.            *)
MonthIs(m) ==
  /\ months[m].month = m /\ months[m].from = First(m) - 1
  /\ InMonth(m, months[m].bars) /\ DOMAIN months[m].pos = DOMAIN months[m].bars

Ended(m) == months[m].pos[Len(months[m].bars)]

JoinInv ==
  /\ \A m \in DOMAIN months : MonthIs(m)
  /\ \A m \in DOMAIN months : m > 1 /\ months[m].bars # <<>> /\ months[m - 1].bars # <<>> =>
       months[m].pos[1] = Ended(m - 1) \/ (months[m].pos[1] = 0 /\ months[m].bars[1] \in Wide)
  /\ Len(months) > 0 /\ months[Len(months)].bars # <<>> => carry.pos = Ended(Len(months))

(* A model on disk is no further from its cold start than months were       *)
(* counted since the chain was given up.                                    *)
ChainInv ==
  opt.warm =>
    /\ chain.count < Interval
    /\ stage # "cancelled" /\ chain.since # 0 => month - chain.since <= chain.count
    /\ \A m \in DOMAIN months : months[m].since # 0 => m - months[m].since < Interval

(* A policy that nobody else can touch is of this run and of this block of   *)
(* evaluated months: the months evaluated since it was made are fewer than   *)
(* those of the block.                                                       *)
Own      == opt.alone /\ ~opt.runDir
OfBlock  == policy.count % Block
PaperInv ==
  Own =>
    /\ \A m \in DOMAIN months : \A p \in months[m].policy :
         p.mine /\ p.at \in 1..m /\ months[m].used - months[p.at].used < Block
    /\ opt.dqn =>
         /\ stage = "month" /\ OfBlock # 0 => \A p \in policy.file :
              p.mine /\ p.at \in 1..month /\ policy.count - months[p.at].used < OfBlock
         /\ stage = "evaluate" => \A p \in policy.file :
              p.mine /\ p.at \in 1..(month - 1) /\ OfBlock # 0 /\ policy.count - months[p.at].used < OfBlock
         /\ stage = "log" => \A p \in policy.file :
              /\ p.mine /\ p.at \in 1..month
              /\ p.at # month => LET age == policy.count - months[p.at].used
                                 IN age < Block /\ (OfBlock # 0 => age < OfBlock)

WalkInv == WalkTypes /\ MadeInv /\ JoinInv /\ ChainInv /\ PaperInv

(* Nothing is entered and nothing is carried: the months stay as they are.   *)
LEMMA JoinStays == ASSUME JoinInv, UNCHANGED <<opt, carry, months>> PROVE JoinInv'
  BY DEF JoinInv, MonthIs, InMonth, Ended, Walk!InSession, First

(* The run begins.                                                          *)
LEMMA WalkStarts == ASSUME Walk!Init PROVE WalkInv
<1>1. /\ opt \in Walks /\ stage \in {"month", "hpo"} /\ (stage = "hpo" => ~opt.dqn) /\ month = 0 /\ best = FALSE
      /\ carry = [pos |-> 0, eq |-> 0, bh |-> 0] /\ chain = [count |-> 0, since |-> 0]
      /\ made = {} /\ months = <<>>
  BY DEF Walk!Init
<1>2. policy.count = 0 /\ policy \in [file : SUBSET Papers, count : {0}]
  <2>1. PICK was \in {{}, {[mine |-> FALSE, at |-> 0]}} : policy = [file |-> IF opt.runDir THEN {} ELSE was, count |-> 0]
    BY DEF Walk!Init
  <2>2. [mine |-> FALSE, at |-> 0] \in Papers
    BY WalkBounds DEF Papers
  <2>3. policy.file \in SUBSET Papers
    BY <2>1, <2>2
  <2> QED
    BY <2>1, <2>3
<1>3. WalkTypes
  <2>1. carry \in [pos : Positions, eq : Int, bh : Int] /\ chain \in [count : 0..Months, since : 0..Months]
    BY <1>1, WalkBounds DEF Positions
  <2>2. policy \in [file : SUBSET Papers, count : 0..Months]
    BY <1>2, WalkBounds
  <2>3. months \in Seq(Entered) /\ Len(months) = 0
    BY <1>1
  <2>6. best \in BOOLEAN
    BY <1>1
  <2>7. stage \in Stages
    BY <1>1 DEF Stages
  <2>8. month \in 0..Months
    BY <1>1, WalkBounds
  <2>4. opt \in Walks /\ month \in 0..Months /\ best \in BOOLEAN /\ stage \in Stages
    BY <1>1, <2>6, <2>7, <2>8
  <2>5. chain.count = 0 /\ chain.since = 0
    BY <1>1
  <2> QED
    BY <1>1, <1>2, <2>1, <2>2, <2>3, <2>4, <2>5 DEF WalkTypes
<1>4. MadeInv /\ JoinInv /\ ChainInv
  BY <1>1, WalkBounds DEF MadeInv, JoinInv, ChainInv
<1>5. PaperInv
  <2>1. OfBlock = 0
    BY <1>2, WalkBounds DEF OfBlock
  <2> QED
    BY <1>1, <2>1 DEF PaperInv
<1> QED
  BY <1>3, <1>4, <1>5 DEF WalkInv

(* The search, a stop, an error.                                            *)
LEMMA TuneKeeps == ASSUME WalkInv, Walk!Tune PROVE WalkInv'
<1>1. /\ stage = "hpo" /\ best' \in BOOLEAN /\ stage' = "month"
      /\ UNCHANGED <<opt, month, carry, chain, policy, made, months>>
  BY DEF Walk!Tune
<1>2. WalkTypes'
  BY <1>1 DEF WalkInv, WalkTypes, Stages
<1>3. MadeInv' /\ JoinInv'
  BY <1>1, JoinStays DEF WalkInv, MadeInv
<1>4. ChainInv'
  BY <1>1 DEF WalkInv, ChainInv
<1>5. PaperInv'
  BY <1>1 DEF WalkInv, PaperInv, Own, OfBlock, WalkTypes
<1> QED
  BY <1>2, <1>3, <1>4, <1>5 DEF WalkInv

LEMMA RaiseKeeps == ASSUME WalkInv, Walk!Raise PROVE WalkInv'
<1>1. /\ stage \in {"hpo", "tune"} /\ stage' = "raised"
      /\ UNCHANGED <<opt, month, best, carry, chain, policy, made, months>>
  BY DEF Walk!Raise
<1>2. WalkTypes'
  BY <1>1 DEF WalkInv, WalkTypes, Stages
<1>3. MadeInv' /\ JoinInv'
  BY <1>1, JoinStays DEF WalkInv, MadeInv
<1>4. ChainInv'
  BY <1>1 DEF WalkInv, ChainInv
<1>5. PaperInv'
  BY <1>1 DEF WalkInv, PaperInv, Own, OfBlock
<1> QED
  BY <1>2, <1>3, <1>4, <1>5 DEF WalkInv

LEMMA WalkStopKeeps == ASSUME WalkInv, Walk!Stop PROVE WalkInv'
<1>1. /\ stage = "month" /\ month < Months /\ stage' = "cancelled" /\ month' = month + 1
      /\ UNCHANGED <<opt, best, carry, chain, policy, made, months>>
  BY DEF Walk!Stop
<1>2. WalkTypes'
  BY <1>1, WalkBounds DEF WalkInv, WalkTypes, Stages
<1>3. MadeInv' /\ JoinInv'
  BY <1>1, JoinStays DEF WalkInv, MadeInv
<1>4. ChainInv'
  BY <1>1 DEF WalkInv, ChainInv
<1>5. PaperInv'
  BY <1>1 DEF WalkInv, PaperInv, Own, OfBlock
<1> QED
  BY <1>2, <1>3, <1>4, <1>5 DEF WalkInv

LEMMA TuneMonthKeeps == ASSUME WalkInv, Walk!TuneMonth PROVE WalkInv'
<1>1. /\ stage = "tune" /\ stage' \in {"evaluate", "log"}
      /\ UNCHANGED <<opt, month, best, carry, chain, policy, made, months>>
  BY DEF Walk!TuneMonth
<1>2. WalkTypes'
  BY <1>1 DEF WalkInv, WalkTypes, Stages
<1>3. MadeInv' /\ JoinInv'
  BY <1>1, JoinStays DEF WalkInv, MadeInv
<1>4. ChainInv'
  BY <1>1 DEF WalkInv, ChainInv
<1>5. PaperInv'
  BY <1>1 DEF WalkInv, WalkTypes, PaperInv, Own, OfBlock
<1> QED
  BY <1>2, <1>3, <1>4, <1>5 DEF WalkInv

(* A month begins: the chain and the policy are given up at their ends.      *)
LEMMA BeginKeeps == ASSUME WalkInv, Walk!Begin PROVE WalkInv'
<1>1. /\ stage = "month" /\ month < Months /\ month' = month + 1 /\ made' = {}
      /\ stage' = IF opt.dqn THEN "evaluate" ELSE "tune"
      /\ UNCHANGED <<opt, best, carry, months>>
  BY DEF Walk!Begin
<1>2. /\ chain \in [count : 0..Months, since : 0..Months] /\ chain.count <= month /\ chain.since <= month
      /\ policy \in [file : SUBSET Papers, count : 0..Months] /\ policy.count <= month /\ month \in 0..Months
      /\ Len(months) = month /\ months \in Seq(Entered) /\ DOMAIN months = 1..Len(months)
  BY <1>1 DEF WalkInv, WalkTypes
<1>5. \/ chain' = [count |-> 0, since |-> 0]
      \/ /\ ~(opt.warm /\ chain.count + 1 >= Interval)
         /\ chain' \in [count : 0..Months, since : 0..Months]
         /\ chain'.count = chain.count + 1 /\ chain'.since = chain.since
  <2>1. CASE opt.warm /\ chain.count + 1 >= Interval
    BY <2>1 DEF Walk!Begin
  <2>2. CASE ~(opt.warm /\ chain.count + 1 >= Interval)
    <3>1. chain' = [chain EXCEPT !.count = @ + 1]
      BY <2>2 DEF Walk!Begin
    <3>2. chain.count + 1 \in 0..Months /\ chain.since \in 0..Months
      BY <1>1, <1>2, WalkBounds
    <3>3. chain' = [count |-> chain.count + 1, since |-> chain.since]
      BY <1>2, <3>1
    <3> QED
      BY <2>2, <3>2, <3>3
  <2> QED
    BY <2>1, <2>2
<1>6. /\ policy' \in [file : SUBSET Papers, count : 0..Months] /\ policy'.count = policy.count
      /\ policy'.file \in {{}, policy.file}
      /\ opt.dqn /\ ~opt.runDir /\ OfBlock = 0 => policy'.file = {}
  <2>1. CASE opt.dqn /\ ~opt.runDir /\ policy.count % Block = 0
    <3>1. policy' = [policy EXCEPT !.file = {}]
      BY <2>1 DEF Walk!Begin
    <3> QED
      BY <1>2, <3>1
  <2>2. CASE ~(opt.dqn /\ ~opt.runDir /\ policy.count % Block = 0)
    <3>1. policy' = policy
      BY <2>2 DEF Walk!Begin
    <3> QED
      BY <1>2, <2>2, <3>1 DEF OfBlock
  <2> QED
    BY <2>1, <2>2
<1>7. WalkTypes'
  <2>1. chain' \in [count : 0..Months, since : 0..Months] /\ chain'.count <= month' /\ chain'.since <= month'
    BY <1>1, <1>2, <1>5, WalkBounds
  <2>2. month' \in 0..Months /\ policy'.count < month' /\ Len(months') = month' - 1 /\ stage' \in Stages
    BY <1>1, <1>2, <1>6, WalkBounds DEF Stages
  <2> QED
    BY <1>1, <1>6, <2>1, <2>2 DEF WalkInv, WalkTypes
<1>8. MadeInv' /\ JoinInv'
  BY <1>1, JoinStays DEF WalkInv, MadeInv
<1>9. ChainInv'
  <2>1. CASE chain' = [count |-> 0, since |-> 0]
    BY <1>1, <2>1, WalkBounds DEF WalkInv, ChainInv
  <2>2. CASE ~(chain' = [count |-> 0, since |-> 0])
    BY <1>1, <1>2, <1>5, <2>2, WalkBounds DEF WalkInv, ChainInv
  <2> QED
    BY <2>1, <2>2
<1>10. PaperInv'
  <2>1. OfBlock' = OfBlock
    BY <1>6 DEF OfBlock
  <2>2. ASSUME Own, opt.dqn, NEW p \in policy'.file
        PROVE p.mine /\ p.at \in 1..(month' - 1) /\ OfBlock # 0 /\ policy'.count - months[p.at].used < OfBlock
    <3>1. OfBlock # 0 /\ p \in policy.file
      BY <1>6, <2>2 DEF Own
    <3>2. p.mine /\ p.at \in 1..month /\ policy.count - months[p.at].used < OfBlock
      BY <1>1, <2>2, <3>1 DEF WalkInv, PaperInv
    <3>3. month' - 1 = month
      BY <1>1, <1>2
    <3> QED
      BY <1>6, <3>1, <3>2, <3>3
  <2>3. stage' \notin {"month", "log"}
    BY <1>1
  <2> QED
    BY <1>1, <2>1, <2>2, <2>3 DEF WalkInv, PaperInv, Own
<1> QED
  BY <1>7, <1>8, <1>9, <1>10 DEF WalkInv

(* Another job writes the file of the policy, which then is not of this one. *)
LEMMA OtherJobKeeps == ASSUME WalkInv, Walk!OtherJob PROVE WalkInv'
<1>1. /\ ~opt.alone /\ stage = "evaluate" /\ UNCHANGED <<opt, stage, month, best, carry, chain, made, months>>
  BY DEF Walk!OtherJob
<1>2. policy' \in [file : SUBSET Papers, count : 0..Months] /\ policy'.count = policy.count
  <2>1. PICK f \in {{}, {[mine |-> FALSE, at |-> month]}} : policy' = [policy EXCEPT !.file = f]
    BY DEF Walk!OtherJob
  <2>3. month \in 0..Months /\ policy \in [file : SUBSET Papers, count : 0..Months]
    BY DEF WalkInv, WalkTypes
  <2>4. [mine |-> FALSE, at |-> month] \in Papers
    BY <2>3 DEF Papers
  <2>2. f \in SUBSET Papers /\ policy \in [file : SUBSET Papers, count : 0..Months]
    BY <2>1, <2>3, <2>4
  <2> QED
    BY <2>1, <2>2
<1>3. WalkTypes'
  BY <1>1, <1>2 DEF WalkInv, WalkTypes
<1>4. MadeInv' /\ JoinInv'
  BY <1>1, JoinStays DEF WalkInv, MadeInv
<1>5. ChainInv' /\ PaperInv'
  BY <1>1 DEF WalkInv, ChainInv, PaperInv, Own
<1> QED
  BY <1>3, <1>4, <1>5 DEF WalkInv

(* Positions held in a month: those of its bars, the first carried in.       *)
LEMMA HeldAre ==
  ASSUME month \in Nat \ {0}, carry.pos \in Positions, NEW bars, InMonth(month, bars),
         NEW dec \in [0..Bars -> Positions]
  PROVE  /\ Walk!Executed(bars, dec, carry.pos) \in Seq(Positions)
         /\ TakesUp(bars, Walk!Executed(bars, dec, carry.pos))
<1> DEFINE pos == Walk!Executed(bars, dec, carry.pos)
<1> HIDE DEF pos
<1>1. month \in Nat \ {0} /\ carry.pos \in Positions /\ InMonth(month, bars)
  OBVIOUS
<1>4. PICK n \in Nat : n = Len(bars) /\ DOMAIN bars = 1..n
  BY <1>1 DEF InMonth
<1>5. ASSUME NEW k \in 1..n PROVE dec[bars[k] - Walk!TestStart] \in Positions
  <2>1. bars[k] \in First(month)..(First(month) + Bars) /\ First(month) \in Nat /\ Bars \in Nat
    BY <1>1, <1>4, Firsts, WalkBounds DEF InMonth
  <2>2. Walk!TestStart = First(month)
    BY DEF Walk!TestStart, First
  <2>3. bars[k] - Walk!TestStart \in 0..Bars
    BY <2>1, <2>2
  <2> QED
    BY <2>3
<1>6. /\ DOMAIN pos = 1..n /\ \A k \in 1..n : pos[k] \in Positions
      /\ n > 0 => pos[1] = carry.pos \/ (pos[1] = 0 /\ bars[1] \in Wide)
  <2>1. PICK carried \in Positions : carried = carry.pos
    BY <1>1
  <2>2. /\ DOMAIN Walk!Executed(bars, dec, carried) = 1..n
        /\ \A k \in 1..n : Walk!Executed(bars, dec, carried)[k] \in Positions
        /\ n > 0 => \/ Walk!Executed(bars, dec, carried)[1] = carried
                    \/ Walk!Executed(bars, dec, carried)[1] = 0 /\ bars[1] \in Wide
    BY <1>4, <1>5, ExecutedAre
  <2>3. pos = Walk!Executed(bars, dec, carried)
    BY <2>1 DEF pos
  <2> QED
    BY <2>1, <2>2, <2>3
<1>7. pos \in Seq(Positions)
  <2>1. pos = [k \in DOMAIN bars |-> pos[k]]
    <3> DEFINE e(k) == (CHOOSE p : p = [l \in 0..Len(bars) |->
                          IF l = 0 \/ (bars[l] \in Wide /\ p[l - 1] = 0) THEN 0
                          ELSE IF l = 1 THEN carry.pos ELSE dec[bars[l - 1] - Walk!TestStart]])[k]
    <3>1. pos = [k \in DOMAIN bars |-> e(k)]
      BY DEF pos, Walk!Executed
    <3> HIDE DEF e
    <3> QED
      BY <3>1
  <2>2. pos \in [1..n -> Positions]
    BY <1>4, <1>6, <2>1
  <2> QED
    BY <2>2
<1>8. TakesUp(bars, pos)
  <2>1. bars # <<>> => n > 0
    BY <1>1, <1>4, EmptySeq DEF InMonth
  <2> QED
    BY <1>4, <1>6, <2>1 DEF TakesUp
<1> QED
  BY <1>7, <1>8 DEF pos

(* What is made of a month.                                                 *)
LEMMA MadeIs ==
  ASSUME WalkInv, stage = "evaluate", NEW dec \in [0..Bars -> Positions], NEW in, Walk!Made(dec, in)
  PROVE  /\ made' \in SUBSET [dec : [0..Bars -> Positions], pos : Seq(Positions)]
         /\ \A m \in made' : TakesUp(Walk!EvalBars, m.pos)
<1> DEFINE pos == Walk!Executed(Walk!EvalBars, dec, carry.pos)
<1>1. month \in Nat \ {0} /\ carry.pos \in Positions
  BY DEF WalkInv, WalkTypes
<1>2. pos \in Seq(Positions) /\ TakesUp(Walk!EvalBars, pos)
  BY <1>1, EvalBarsAre, HeldAre
<1>3. made' \in {{}, {[dec |-> dec, pos |-> pos]}}
  BY DEF Walk!Made
<1> HIDE DEF pos
<1> QED
  BY <1>2, <1>3

(* A month is evaluated: its model starts a chain or goes on with one, its   *)
(* policy is the one on disk or its own.                                     *)
Evaluates ==
  /\ stage = "evaluate" /\ stage' = "log" /\ UNCHANGED <<opt, month, best, carry, months>>
  /\ chain' = chain \/ (chain.since = 0 /\ chain' = [chain EXCEPT !.since = month])
  /\ policy' \in [file : {policy.file, {[mine |-> TRUE, at |-> month]}}, count : {policy.count, policy.count + 1}]
  /\ made' \in SUBSET [dec : [0..Bars -> Positions], pos : Seq(Positions)]
  /\ \A m \in made' : TakesUp(Walk!EvalBars, m.pos)

LEMMA EvaluatesKeeps == ASSUME WalkInv, Evaluates PROVE WalkInv'
<1>1. /\ stage = "evaluate" /\ stage' = "log" /\ UNCHANGED <<opt, month, best, carry, months>>
      /\ policy'.file \in {policy.file, {[mine |-> TRUE, at |-> month]}}
      /\ policy'.count \in {policy.count, policy.count + 1}
      /\ policy' = [file |-> policy'.file, count |-> policy'.count]
  BY DEF Evaluates
<1>2. /\ month \in 1..Months /\ chain \in [count : 0..Months, since : 0..Months] /\ chain.count <= month
      /\ policy \in [file : SUBSET Papers, count : 0..Months] /\ policy.count < month
      /\ Len(months) = month - 1 /\ months \in Seq(Entered) /\ DOMAIN months = 1..(month - 1)
  BY <1>1, WalkBounds DEF WalkInv, WalkTypes
<1>3. chain' \in [count : 0..Months, since : 0..Months] /\ chain'.count = chain.count
      /\ chain'.since \in {chain.since, month} /\ chain'.since <= month
  <2>1. CASE chain' = chain
    BY <1>2, <2>1 DEF WalkInv, WalkTypes
  <2>2. CASE chain' = [chain EXCEPT !.since = month]
    BY <1>2, <2>2
  <2> QED
    BY <2>1, <2>2 DEF Evaluates
<1>4. policy' \in [file : SUBSET Papers, count : 0..Months] /\ policy'.count <= month
  <2>1. [mine |-> TRUE, at |-> month] \in Papers
    BY <1>2 DEF Papers
  <2>2. policy'.file \in SUBSET Papers
    BY <1>1, <1>2, <2>1
  <2>4. policy.count \in 0..Months /\ Months \in Nat
    BY <1>2, WalkBounds
  <2>3. policy'.count \in 0..Months /\ policy'.count <= month
    BY <1>1, <1>2, <2>4
  <2> QED
    BY <1>1, <2>2, <2>3
<1>5. WalkTypes'
  BY <1>1, <1>2, <1>3, <1>4 DEF WalkInv, WalkTypes, Evaluates, Stages
<1>6. MadeInv'
  <2>1. Walk!EvalBars' = Walk!EvalBars
    BY <1>1 DEF Walk!EvalBars, Walk!Raw, Walk!InSession, Walk!TestStart
  <2> QED
    BY <1>1, <2>1 DEF MadeInv, TakesUp, Evaluates
<1>7. JoinInv'
  BY <1>1, JoinStays DEF WalkInv
<1>8. ChainInv'
  BY <1>1, <1>2, <1>3 DEF WalkInv, ChainInv
<1>9. PaperInv'
  <2>1. OfBlock \in 0..(Block - 1) /\ (OfBlock' = OfBlock \/ OfBlock' = 0 \/ OfBlock' = OfBlock + 1)
        /\ (policy'.count = policy.count => OfBlock' = OfBlock)
        /\ (policy'.count = policy.count + 1 => OfBlock' = 0 \/ OfBlock' = OfBlock + 1)
    BY <1>1, <1>2, WalkBounds, Remainder DEF OfBlock
  <2>2. ASSUME Own, opt.dqn, NEW p \in policy'.file
        PROVE /\ p.mine /\ p.at \in 1..month
              /\ p.at # month => LET age == policy'.count - months[p.at].used
                                 IN age < Block /\ (OfBlock' # 0 => age < OfBlock')
    <3>1. CASE p = [mine |-> TRUE, at |-> month]
      BY <1>2, <3>1
    <3>2. CASE p \in policy.file
      <4>1. p.mine /\ p.at \in 1..(month - 1) /\ policy.count - months[p.at].used < OfBlock
        BY <1>1, <2>2, <3>2 DEF WalkInv, PaperInv
      <4>5. p.at \in 1..Len(months) /\ months \in Seq(Entered)
        BY <1>2, <4>1
      <4>6. months[p.at] \in Entered
        BY <4>5
      <4>7. months[p.at].used \in 0..Months
        BY <4>6 DEF Entered
      <4>2. months[p.at].used \in Int /\ policy.count \in Int /\ Block \in Int
        BY <1>2, <4>7, WalkBounds
      <4>3. PICK u \in Int : u = months[p.at].used
        BY <4>2
      <4>4. policy'.count - u < Block /\ (OfBlock' # 0 => policy'.count - u < OfBlock')
        BY <1>1, <2>1, <4>1, <4>2, <4>3
      <4> QED
        BY <1>2, <4>1, <4>3, <4>4
    <3> QED
      BY <1>1, <3>1, <3>2
  <2> QED
    BY <1>1, <2>2 DEF WalkInv, PaperInv, Own
<1> QED
  BY <1>5, <1>6, <1>7, <1>8, <1>9 DEF WalkInv

(* Signs are positions, and so what a committee votes for.                  *)
LEMMA VotesAre == ASSUME NEW votes PROVE Walk!Vote(votes) \in [0..Bars -> Positions]
<1>1. \A x : Walk!Sign(x) \in Positions
  BY DEF Walk!Sign, Positions
<1> QED
  BY <1>1 DEF Walk!Vote

(* A model, a committee, a policy, a failure.                               *)
LEMMA EvaluationKeeps ==
  ASSUME WalkInv, Walk!Single \/ Walk!Consensus \/ Walk!Policy \/ Walk!Fails PROVE WalkInv'
<1>0. policy \in [file : SUBSET Papers, count : 0..Months]
  BY DEF WalkInv, WalkTypes
<1>1. \A fits : Walk!Fitted(fits) => chain' = chain \/ (chain.since = 0 /\ chain' = [chain EXCEPT !.since = month])
  BY DEF Walk!Fitted
<1>2. \A dec \in Signals : dec \in [0..Bars -> Positions]
  BY WalkBounds DEF Positions
<1>3. CASE Walk!Single
  <2>1. PICK dec \in Signals : Walk!Made(dec, 0)
    BY <1>3 DEF Walk!Single
  <2>2. /\ stage = "evaluate" /\ stage' = "log" /\ UNCHANGED <<opt, month, best, carry, months>>
        /\ Walk!Fitted(TRUE) /\ policy' = policy
    BY <1>3 DEF Walk!Single, Walk!Decided
  <2>3. Evaluates
    BY <1>0, <1>1, <1>2, <2>1, <2>2, MadeIs DEF Evaluates
  <2> QED
    BY <2>3, EvaluatesKeeps
<1>4. CASE Walk!Consensus
  <2>1. PICK votes : Walk!Made(Walk!Vote(votes), carry.pos)
    BY <1>4 DEF Walk!Consensus
  <2>2. /\ stage = "evaluate" /\ stage' = "log" /\ UNCHANGED <<opt, month, best, carry, months>>
        /\ Walk!Fitted(TRUE) /\ policy' = policy
    BY <1>4 DEF Walk!Consensus, Walk!Decided
  <2>3. Evaluates
    BY <1>0, <1>1, <2>1, <2>2, VotesAre, MadeIs DEF Evaluates
  <2> QED
    BY <2>3, EvaluatesKeeps
<1>5. CASE Walk!Policy
  <2>1. PICK dec \in Signals : Walk!Made(dec, 0)
    BY <1>5 DEF Walk!Policy
  <2>2. /\ stage = "evaluate" /\ stage' = "log" /\ UNCHANGED <<opt, month, best, carry, months>>
        /\ Walk!Fitted(FALSE)
        /\ policy' = [file |-> IF policy.file = {} THEN {[mine |-> TRUE, at |-> month]} ELSE policy.file,
                      count |-> policy.count + 1]
    BY <1>5 DEF Walk!Policy, Walk!Decided
  <2>3. Evaluates
    BY <1>0, <1>1, <1>2, <2>1, <2>2, MadeIs DEF Evaluates
  <2> QED
    BY <2>3, EvaluatesKeeps
<1>6. CASE Walk!Fails
  <2>1. /\ stage = "evaluate" /\ stage' = "log" /\ UNCHANGED <<opt, month, best, carry, months>> /\ made' = {}
    BY <1>6 DEF Walk!Fails, Walk!Decided
  <2>2. PICK late \in BOOLEAN :
          /\ Walk!Fitted(late /\ ~opt.dqn)
          /\ policy' = IF late /\ opt.dqn /\ policy.file = {}
                       THEN [policy EXCEPT !.file = {[mine |-> TRUE, at |-> month]}] ELSE policy
    BY <1>6 DEF Walk!Fails
  <2>3. policy' \in [file : {policy.file, {[mine |-> TRUE, at |-> month]}}, count : {policy.count, policy.count + 1}]
    BY <1>0, <2>2
  <2>4. Evaluates
    BY <1>1, <2>1, <2>2, <2>3 DEF Evaluates
  <2> QED
    BY <2>4, EvaluatesKeeps
<1> QED
  BY <1>3, <1>4, <1>5, <1>6

-------------------------------------------------------------------------------
(* A month is entered.                                                      *)

(* Training ends before the month.                                          *)
LEMMA TrainedBefore == ASSUME month \in Nat \ {0} PROVE Walk!Max(Walk!TrainWindow) = First(month) - 1
<1>1. PICK f \in Nat \ {0} : f = First(month)
  BY Firsts
<1>2. Walk!TestStart = f
  BY <1>1 DEF Walk!TestStart, First
<1>3. PICK back \in Nat \ {0} : back = Span * Bars
  BY WalkBounds
<1>4. PICK from \in 0..(f - 1) : Walk!TrainWindow = from..(f - 1)
  <2> DEFINE from == Walk!Max({0, f - back})
  <2>1. \E x \in {0, f - back} : \A y \in {0, f - back} : x >= y
    OBVIOUS
  <2>2. from \in {0, f - back} /\ \A y \in {0, f - back} : from >= y
    BY <2>1 DEF Walk!Max
  <2>3. Walk!TrainWindow = from..(f - 1)
    BY <1>2, <1>3 DEF Walk!TrainWindow
  <2> HIDE DEF from
  <2>4. from \in 0..(f - 1)
    BY <2>2
  <2> QED
    BY <2>3, <2>4
<1>5. \A x \in from..(f - 1) : (\A y \in from..(f - 1) : x >= y) <=> x = f - 1
  OBVIOUS
<1>6. \E x \in from..(f - 1) : \A y \in from..(f - 1) : x >= y
  BY <1>5
<1> QED
  BY <1>1, <1>4, <1>5, <1>6 DEF Walk!Max

(* What is carried out of a month.                                          *)
LEMMA CarriedIs ==
  ASSUME carry \in [pos : Positions, eq : Int, bh : Int], NEW bars \in Seq(0..Walk!End), NEW pos \in Seq(Positions),
         DOMAIN pos = DOMAIN bars
  PROVE  /\ Walk!CarriedOn(bars, pos) \in [pos : Positions, eq : Int, bh : Int]
         /\ bars # <<>> => Walk!CarriedOn(bars, pos).pos = pos[Len(bars)]
<1>1. CASE bars = <<>>
  BY <1>1 DEF Walk!CarriedOn
<1>2. CASE bars # <<>>
  <2>1. PICK n \in Nat \ {0} : n = Len(bars) /\ DOMAIN bars = 1..n
    BY <1>2, EmptySeq
  <2>2. Len(pos) = n
    BY <2>1
  <2>3. \A k \in 1..n : bars[k] \in 0..Walk!End /\ pos[k] \in Positions
    BY <2>1, <2>2, ElementOfSeq
  <2>4. \A k \in 1..n : Ret[bars[k]] \in Int /\ pos[k] \in Int
    BY <2>3, WalkBounds DEF Positions
  <2>5. Walk!Market(bars) \in Int
    <3> DEFINE s == [k \in 1..n |-> Ret[bars[k]]]
    <3>1. Len(s) = n /\ \A k \in 1..n : s[k] \in Int
      BY <2>1, <2>4
    <3>2. Walk!Market(bars) = Walk!Sum(s)
      BY <2>1 DEF Walk!Market
    <3> HIDE DEF s
    <3> QED
      BY <2>1, <3>1, <3>2, SumsAre
  <2>6. Walk!Earned(bars, pos) \in Int
    <3> DEFINE cost(k) == Fee * Walk!Abs(pos[k] - (IF k = 1 THEN 0 ELSE pos[k - 1]))
               gain(k) == pos[k] * Ret[bars[k]]
               s == [k \in 1..n |-> gain(k) - cost(k)]
    <3>1. ASSUME NEW k \in 1..n PROVE gain(k) \in Int /\ cost(k) \in Int
      <4>1. pos[k] \in Int /\ Ret[bars[k]] \in Int
        BY <2>4
      <4>2. k # 1 => k - 1 \in 1..n
        BY <2>1
      <4>3. PICK y \in Int : y = pos[k] - (IF k = 1 THEN 0 ELSE pos[k - 1])
        BY <2>4, <4>1, <4>2
      <4>4. Walk!Abs(y) \in Int
        BY DEF Walk!Abs
      <4>5. Fee * Walk!Abs(y) \in Int
        BY <4>4, WalkBounds
      <4>6. gain(k) \in Int
        BY <4>1
      <4> QED
        BY <4>3, <4>5, <4>6
    <3>2. Walk!Earned(bars, pos) = Walk!Sum(s)
      BY <2>1 DEF Walk!Earned
    <3> HIDE DEF gain, cost
    <3>3. Len(s) = n /\ \A k \in 1..n : s[k] \in Int
      BY <2>1, <3>1
    <3> HIDE DEF s
    <3> QED
      BY <2>1, <3>2, <3>3, SumsAre
  <2>7. Walk!CarriedOn(bars, pos) = [pos |-> pos[n], eq |-> carry.eq + Walk!Earned(bars, pos), bh |-> carry.bh + Walk!Market(bars)]
    BY <1>2, <2>2 DEF Walk!CarriedOn
  <2>8. pos[n] \in Positions /\ carry.eq + Walk!Earned(bars, pos) \in Int /\ carry.bh + Walk!Market(bars) \in Int
    BY <2>1, <2>3, <2>5, <2>6
  <2> QED
    BY <2>1, <2>7, <2>8
<1> QED
  BY <1>1, <1>2

LEMMA EnterKeeps ==
  ASSUME WalkInv, NEW kind \in {"model", "flat"}, NEW bars, InMonth(month, bars), NEW pos \in Seq(Positions),
         TakesUp(bars, pos), Walk!Enter(kind, bars, pos)
  PROVE  WalkInv'
<1> DEFINE e == [kind |-> kind, month |-> month, from |-> Walk!Max(Walk!TrainWindow), bars |-> bars,
                 pos |-> pos, eq |-> carry'.eq, bh |-> carry'.bh, since |-> chain.since,
                 policy |-> IF kind = "model" /\ opt.dqn THEN policy.file ELSE {}, used |-> policy.count]
<1>1. /\ stage = "log" /\ carry' = Walk!CarriedOn(bars, pos) /\ months' = Append(months, e)
      /\ stage' = IF month = Months THEN "done" ELSE "month"
      /\ UNCHANGED <<opt, month, best, chain, policy, made>>
  BY DEF Walk!Enter
<1>2. /\ month \in 1..Months /\ carry \in [pos : Positions, eq : Int, bh : Int]
      /\ chain \in [count : 0..Months, since : 0..Months]
      /\ policy \in [file : SUBSET Papers, count : 0..Months]
      /\ Len(months) = month - 1 /\ months \in Seq(Entered)
  BY <1>1 DEF WalkInv, WalkTypes
<1>3. bars \in Seq(0..Walk!End) /\ DOMAIN pos = DOMAIN bars
  BY DEF InMonth, TakesUp
<1>4. carry' \in [pos : Positions, eq : Int, bh : Int] /\ (bars # <<>> => carry'.pos = pos[Len(bars)])
  BY <1>1, <1>2, <1>3, CarriedIs
<1>5. First(month) \in Nat /\ Walk!Max(Walk!TrainWindow) = First(month) - 1
  <2>1. month \in Nat \ {0}
    BY <1>2
  <2> QED
    BY <2>1, Firsts, TrainedBefore
<1>6. e \in Entered
  <2>1. e.policy \in SUBSET Papers
    BY <1>2
  <2>2. Walk!Max(Walk!TrainWindow) \in Int /\ carry'.eq \in Int /\ carry'.bh \in Int
    BY <1>4, <1>5
  <2>3. month \in 0..Months /\ chain.since \in 0..Months /\ policy.count \in 0..Months
    BY <1>2
  <2>4. e = [kind |-> kind, month |-> month, from |-> Walk!Max(Walk!TrainWindow), bars |-> bars,
             pos |-> pos, eq |-> carry'.eq, bh |-> carry'.bh, since |-> chain.since,
             policy |-> e.policy, used |-> policy.count]
    OBVIOUS
  <2> HIDE DEF e
  <2> QED
    BY <1>3, <2>1, <2>2, <2>3, <2>4 DEF Entered
<1>7. /\ e.month = month /\ e.from = First(month) - 1 /\ e.bars = bars /\ e.pos = pos
      /\ e.since = chain.since /\ e.used = policy.count /\ e.policy \subseteq policy.file
      /\ e.policy # {} => opt.dqn
  BY <1>5
<1> HIDE DEF e
<1>8. /\ months' \in Seq(Entered) /\ Len(months') = month /\ DOMAIN months' = 1..month
      /\ DOMAIN months = 1..(month - 1)
      /\ months'[month] = e /\ \A m \in 1..(month - 1) : months'[m] = months[m]
  <2>1. /\ months' \in Seq(Entered) /\ Len(months') = Len(months) + 1
        /\ \A i \in 1..Len(months) : months'[i] = months[i]
        /\ months'[Len(months) + 1] = e
    BY <1>1, <1>2, <1>6, AppendProperties
  <2> QED
    BY <1>2, <2>1
<1>9. WalkTypes'
  <2>1. stage' \in {"done", "month"}
    BY <1>1
  <2>2. opt \in Walks /\ best \in BOOLEAN /\ chain.count <= month /\ chain.since <= month /\ policy.count <= month
        /\ made \in SUBSET [dec : [0..Bars -> Positions], pos : Seq(Positions)] /\ month \in 0..Months
    BY DEF WalkInv, WalkTypes
  <2> QED
    BY <1>1, <1>2, <1>4, <1>8, <2>1, <2>2 DEF WalkTypes, Stages
<1>10. MadeInv'
  BY <1>1 DEF MadeInv
<1>11. JoinInv'
  <2>2. ASSUME NEW m \in 1..month PROVE MonthIs(m)'
    <3>1. CASE m = month
      <4>1. months'[m] = e /\ First(m)' = First(m)
        BY <1>8, <3>1 DEF First
      <4> QED
        BY <1>3, <1>7, <3>1, <4>1, <1>1 DEF MonthIs, InMonth, Walk!InSession, First
    <3>2. CASE m # month
      <4>1. m \in DOMAIN months /\ months'[m] = months[m]
        BY <1>2, <1>8, <3>2
      <4>2. MonthIs(m)
        BY <4>1 DEF WalkInv, JoinInv
      <4> QED
        BY <4>1, <4>2, <1>1 DEF MonthIs, InMonth, Walk!InSession, First
    <3> QED
      BY <3>1, <3>2
  <2>3. ASSUME NEW m \in 1..month, m > 1, months'[m].bars # <<>>, months'[m - 1].bars # <<>>
        PROVE months'[m].pos[1] = Ended(m - 1)' \/ (months'[m].pos[1] = 0 /\ months'[m].bars[1] \in Wide)
    <3>0. m - 1 \in 1..(month - 1) /\ months'[m - 1] = months[m - 1]
      BY <1>2, <1>8, <2>3
    <3>1. Ended(m - 1)' = Ended(m - 1)
      BY <3>0 DEF Ended
    <3>2. CASE m = month
      <4>1. months'[m] = e /\ m - 1 = Len(months) /\ Len(months) > 0
        BY <1>2, <1>8, <2>3, <3>2
      <4>2. carry.pos = Ended(m - 1)
        BY <2>3, <3>0, <4>1 DEF WalkInv, JoinInv
      <4>3. bars # <<>>
        BY <1>7, <2>3, <4>1
      <4> QED
        BY <1>7, <3>1, <4>1, <4>2, <4>3 DEF TakesUp
    <3>3. CASE m # month
      <4>1. m \in DOMAIN months /\ months'[m] = months[m]
        BY <1>2, <1>8, <3>3
      <4> QED
        BY <2>3, <3>0, <3>1, <4>1 DEF WalkInv, JoinInv
    <3> QED
      BY <3>2, <3>3
  <2>4. months'[Len(months')].bars # <<>> => carry'.pos = Ended(Len(months))'
    <3>1. months'[Len(months')] = e
      BY <1>8
    <3>2. Ended(Len(months))' = e.pos[Len(e.bars)]
      BY <3>1 DEF Ended
    <3> QED
      BY <1>4, <1>7, <3>1, <3>2
  <2>5. (\A m \in DOMAIN months : MonthIs(m))'
    BY <1>8, <2>2
  <2>6. (\A m \in DOMAIN months : m > 1 /\ months[m].bars # <<>> /\ months[m - 1].bars # <<>> =>
           months[m].pos[1] = Ended(m - 1) \/ (months[m].pos[1] = 0 /\ months[m].bars[1] \in Wide))'
    <3> SUFFICES ASSUME NEW m \in 1..month, m > 1, months'[m].bars # <<>>, months'[m - 1].bars # <<>>
                 PROVE months'[m].pos[1] = Ended(m - 1)' \/ (months'[m].pos[1] = 0 /\ months'[m].bars[1] \in Wide)
      BY <1>8
    <3> QED
      BY <2>3
  <2>7. (Len(months) > 0 /\ months[Len(months)].bars # <<>> => carry.pos = Ended(Len(months)))'
    BY <2>4
  <2> QED
    BY <2>5, <2>6, <2>7 DEF JoinInv
<1>12. ChainInv'
  <2> SUFFICES ASSUME opt.warm PROVE ChainInv'
    BY <1>1 DEF ChainInv
  <2>1. chain.count < Interval /\ (chain.since # 0 => month - chain.since <= chain.count)
    BY <1>1 DEF WalkInv, ChainInv
  <2>2. ASSUME NEW m \in 1..month, months'[m].since # 0 PROVE m - months'[m].since < Interval
    <3>1. CASE m = month
      <4>1. months'[m].since = chain.since
        BY <1>7, <1>8, <3>1
      <4> QED
        BY <1>2, <2>1, <2>2, <3>1, <4>1, WalkBounds
    <3>2. CASE m # month
      <4>1. m \in DOMAIN months /\ months'[m] = months[m]
        BY <1>2, <1>8, <3>2
      <4> QED
        BY <2>2, <4>1 DEF WalkInv, ChainInv
    <3> QED
      BY <3>1, <3>2
  <2> QED
    BY <1>1, <1>8, <2>1, <2>2 DEF ChainInv
<1>13. PaperInv'
  <2> SUFFICES ASSUME Own PROVE PaperInv'
    BY <1>1 DEF PaperInv, Own
  <2>1. OfBlock' = OfBlock /\ OfBlock \in 0..(Block - 1) /\ Block \in Nat \ {0} /\ policy.count \in Nat
    <3>1. policy' = policy /\ policy.count \in Nat /\ Block \in Nat \ {0}
      BY <1>1, <1>2, WalkBounds
    <3>2. policy.count % Block \in 0..(Block - 1)
      BY <3>1, Remainder
    <3> QED
      BY <3>1, <3>2 DEF OfBlock
  <2>2. ASSUME opt.dqn, NEW p \in policy.file
        PROVE /\ p.mine /\ p.at \in 1..month
              /\ policy.count - months'[p.at].used < Block
              /\ OfBlock # 0 => policy.count - months'[p.at].used < OfBlock
    <3>1. /\ p.mine /\ p.at \in 1..month
          /\ p.at # month => LET age == policy.count - months[p.at].used
                             IN age < Block /\ (OfBlock # 0 => age < OfBlock)
      BY <1>1, <2>2 DEF WalkInv, PaperInv
    <3>2. CASE p.at = month
      <4>1. months'[p.at].used = policy.count
        BY <1>7, <1>8, <3>2
      <4>2. policy.count - policy.count = 0
        BY <2>1
      <4> QED
        BY <2>1, <3>1, <4>1, <4>2
    <3>3. CASE p.at # month
      <4>1. p.at \in 1..(month - 1)
        BY <1>2, <3>1, <3>3
      <4>2. months'[p.at] = months[p.at]
        BY <1>8, <4>1
      <4> QED
        BY <3>1, <3>3, <4>2
    <3> QED
      BY <3>2, <3>3
  <2>3. ASSUME NEW m \in 1..month, NEW p \in months'[m].policy
        PROVE p.mine /\ p.at \in 1..m /\ months'[m].used - months'[p.at].used < Block
    <3>1. CASE m = month
      <4>1. p \in e.policy /\ months'[m].used = policy.count
        BY <1>7, <1>8, <2>3, <3>1
      <4>2. opt.dqn /\ p \in policy.file
        BY <1>7, <4>1
      <4> QED
        BY <2>2, <3>1, <4>1, <4>2
    <3>2. CASE m # month
      <4>1. m \in DOMAIN months /\ months'[m] = months[m]
        BY <1>2, <1>8, <3>2
      <4>2. p.mine /\ p.at \in 1..m /\ months[m].used - months[p.at].used < Block
        BY <2>3, <4>1 DEF WalkInv, PaperInv
      <4>3. p.at \in 1..(month - 1)
        BY <1>2, <3>2, <4>2
      <4>4. months'[p.at] = months[p.at]
        BY <1>8, <4>3
      <4> QED
        BY <4>1, <4>2, <4>4
    <3> QED
      BY <3>1, <3>2
  <2>4. stage' \notin {"evaluate", "log"}
    BY <1>1
  <2> QED
    BY <1>1, <1>8, <2>1, <2>2, <2>3, <2>4 DEF PaperInv, Own
<1> QED
  BY <1>9, <1>10, <1>11, <1>12, <1>13 DEF WalkInv

(* A month with a model, and one without.                                   *)
LEMMA LogKeeps == ASSUME WalkInv, Walk!LogMonth \/ Walk!FlatMonth PROVE WalkInv'
<1>1. CASE Walk!LogMonth
  <2>1. PICK m \in made : Walk!Enter("model", Walk!EvalBars, m.pos)
    BY <1>1 DEF Walk!LogMonth
  <2>2. stage = "log"
    BY <2>1 DEF Walk!Enter
  <2>3. month \in Nat \ {0} /\ m.pos \in Seq(Positions)
    BY <2>2 DEF WalkInv, WalkTypes
  <2>4. TakesUp(Walk!EvalBars, m.pos)
    BY <2>2 DEF WalkInv, MadeInv
  <2> QED
    BY <2>1, <2>3, <2>4, EvalBarsAre, EnterKeeps
<1>2. CASE Walk!FlatMonth
  <2> DEFINE still == [o \in 0..Bars |-> carry.pos]
             pos == Walk!Executed(Walk!FlatBars, still, carry.pos)
  <2>1. Walk!Enter("flat", Walk!FlatBars, pos)
    BY <1>2 DEF Walk!FlatMonth
  <2>2. stage = "log"
    BY <2>1 DEF Walk!Enter
  <2>3. month \in Nat \ {0} /\ carry.pos \in Positions
    BY <2>2 DEF WalkInv, WalkTypes
  <2>4. still \in [0..Bars -> Positions]
    BY <2>3
  <2>5. InMonth(month, Walk!FlatBars)
    BY <2>3, FlatBarsAre
  <2>6. pos \in Seq(Positions) /\ TakesUp(Walk!FlatBars, pos)
    <3> HIDE DEF still
    <3> QED
      BY <2>3, <2>4, <2>5, HeldAre
  <2> HIDE DEF pos
  <2> QED
    BY <2>1, <2>5, <2>6, EnterKeeps
<1> QED
  BY <1>1, <1>2

(* Every step of the walk keeps the invariant.                              *)
LEMMA WalkKept == ASSUME WalkInv, [Walk!Next]_wf PROVE WalkInv'
<1>1. CASE UNCHANGED wf
  BY <1>1, JoinStays DEF wf, WalkInv, WalkTypes, MadeInv, TakesUp, ChainInv, PaperInv, Own, OfBlock,
     Walk!EvalBars, Walk!Raw, Walk!InSession, Walk!TestStart
<1>2. CASE Walk!Next
  BY <1>2, TuneKeeps, RaiseKeeps, WalkStopKeeps, BeginKeeps, TuneMonthKeeps, OtherJobKeeps,
     EvaluationKeeps, LogKeeps DEF Walk!Next
<1> QED
  BY <1>1, <1>2

(* What the invariant says of the months is what is promised of them.        *)
LEMMA MonthsFollowed == ASSUME WalkInv PROVE Walk!MonthsJoin /\ Walk!ModelsAreFresh
<1>1. Walk!MonthsJoin
  <2> SUFFICES ASSUME NEW m \in DOMAIN months, months[m].bars # <<>>
      PROVE /\ months[m].month = m /\ months[m].from < months[m].bars[1]
            /\ m > 1 /\ months[m - 1].bars # <<>> =>
                 /\ IF opt.filter THEN months[m - 1].bars[Len(months[m - 1].bars)] < months[m].bars[1]
                    ELSE months[m - 1].bars[Len(months[m - 1].bars)] <= months[m].bars[1]
                 /\ \/ months[m].pos[1] = months[m - 1].pos[Len(months[m - 1].bars)]
                    \/ months[m].pos[1] = 0 /\ months[m].bars[1] \in Wide
    BY DEF Walk!MonthsJoin
  <2>0. m \in Nat \ {0} /\ m \in 1..Len(months) /\ Len(months) \in Nat
    BY DEF WalkInv, WalkTypes
  <2>1. MonthIs(m) /\ First(m) \in Nat
    BY <2>0, Firsts DEF WalkInv, JoinInv
  <2>2. 1 \in DOMAIN months[m].bars /\ months[m].bars[1] \in First(m)..(First(m) + Bars)
        /\ Walk!InSession(months[m].bars[1])
    <3>1. 1 \in DOMAIN months[m].bars
      BY <2>1, EmptySeq DEF MonthIs, InMonth
    <3> QED
      BY <2>1, <3>1 DEF MonthIs, InMonth
  <2>3. months[m].month = m /\ months[m].from < months[m].bars[1]
    BY <2>1, <2>2, WalkBounds DEF MonthIs
  <2>4. ASSUME m > 1, months[m - 1].bars # <<>>
        PROVE /\ IF opt.filter THEN months[m - 1].bars[Len(months[m - 1].bars)] < months[m].bars[1]
                 ELSE months[m - 1].bars[Len(months[m - 1].bars)] <= months[m].bars[1]
              /\ \/ months[m].pos[1] = months[m - 1].pos[Len(months[m - 1].bars)]
                 \/ months[m].pos[1] = 0 /\ months[m].bars[1] \in Wide
    <3>0. m - 1 \in DOMAIN months /\ m - 1 \in Nat \ {0} /\ (m - 1) + 1 = m
      BY <2>0, <2>4 DEF WalkInv, WalkTypes
    <3>1. MonthIs(m - 1) /\ First(m) = First(m - 1) + Bars /\ First(m) % Bars = 0
      <4>1. First((m - 1) + 1) = First(m - 1) + Bars
        BY <3>0, Firsts
      <4>2. First(m) % Bars = 0
        BY <2>0, Firsts
      <4> QED
        BY <3>0, <4>1, <4>2 DEF WalkInv, JoinInv
    <3> DEFINE last == months[m - 1].bars[Len(months[m - 1].bars)]
               head == months[m].bars[1]
    <3>2. last \in First(m - 1)..(First(m - 1) + Bars)
      <4>1. Len(months[m - 1].bars) \in DOMAIN months[m - 1].bars
        BY <2>4, <3>1, EmptySeq DEF MonthIs, InMonth
      <4> QED
        BY <3>1, <4>1 DEF MonthIs, InMonth
    <3>3. head \in First(m)..(First(m) + Bars) /\ Walk!InSession(head)
      BY <2>2
    <3> HIDE DEF last, head
    <3>4. last \in Int /\ head \in Int /\ last <= First(m) /\ First(m) <= head
      BY <3>1, <3>2, <3>3
    <3>5. opt.filter => head # First(m)
      <4>1. opt.filter => head % Bars \in Session
        BY <3>3 DEF Walk!InSession
      <4>2. 0 \notin Session
        BY WalkBounds
      <4> QED
        BY <3>1, <4>1, <4>2
    <3>6. IF opt.filter THEN last < head ELSE last <= head
      BY <2>1, <3>4, <3>5
    <3>7. \/ months[m].pos[1] = Ended(m - 1)
          \/ months[m].pos[1] = 0 /\ months[m].bars[1] \in Wide
      BY <2>4 DEF WalkInv, JoinInv
    <3> QED
      BY <3>6, <3>7 DEF Ended, last, head
  <2> QED
    BY <2>3, <2>4
<1>2. Walk!ModelsAreFresh
  <2> SUFFICES ASSUME NEW m \in DOMAIN months
      PROVE /\ opt.warm /\ months[m].since # 0 => months[m].month - months[m].since < Interval
            /\ opt.alone /\ ~opt.runDir => \A p \in months[m].policy :
                 p.mine /\ months[m].used - months[p.at].used < Block
    BY DEF Walk!ModelsAreFresh
  <2>1. months[m].month = m
    BY DEF WalkInv, JoinInv, MonthIs
  <2> QED
    BY <2>1 DEF WalkInv, ChainInv, PaperInv, Own
<1> QED
  BY <1>1, <1>2

(* The invariant has the types of the walk.                                  *)
LEMMA WalkTyped == WalkInv => Walk!TypeOK
<1> SUFFICES ASSUME WalkInv PROVE Walk!TypeOK
  OBVIOUS
<1>1. WalkTypes
  BY DEF WalkInv
<1>2. /\ opt \in Walks /\ month \in 0..Months /\ best \in BOOLEAN
      /\ stage \in {"hpo", "month", "tune", "evaluate", "log", "done", "raised", "cancelled"}
  BY <1>1 DEF WalkTypes, Stages
<1>3. carry.pos \in {-1, 0, 1} /\ carry.eq \in Int /\ carry.bh \in Int
  BY <1>1 DEF WalkTypes, Positions
<1>4. chain.count \in 0..Months /\ chain.since \in 0..month /\ policy.count \in 0..Months
  BY <1>1, WalkBounds DEF WalkTypes
<1>5. Len(months) \in {month, month - 1}
  BY <1>1 DEF WalkTypes, Stages
<1> QED
  BY <1>2, <1>3, <1>4, <1>5 DEF Walk!TypeOK

-------------------------------------------------------------------------------

(* What the parts of the suite promise together: each moves on its own and   *)
(* keeps its invariant.                                                     *)
PartsInv ==
  /\ part \in {"rows", "events", "bridge", "worker", "logs", "walk"}
  /\ Inv /\ EventInv /\ Bridge!TypeOK /\ BridgeInv /\ WorkInv /\ LogInv /\ WalkInv

(* All parts start with their invariants.                                   *)
LEMMA PartsStart == SuiteInit => PartsInv
  BY Assumptions, Indexed, InitInv, InvStarts, BridgeTyped, BridgeStarts, WorkStarts, LogStarts, WalkStarts
  DEF SuiteInit, PartsInv

(* A step of the suite is one of a part, or leaves it alone.                *)
LEMMA PartsMove ==
  ASSUME [SuiteNext]_suiteVars
  PROVE  /\ part' = part /\ [Next]_vars /\ [EventNext]_eventVars
         /\ [Bridge!Next]_wb /\ [Worker!Next]_bw /\ [Logs!Next]_lb /\ [Walk!Next]_wf
<1>1. CASE UNCHANGED suiteVars
  BY <1>1 DEF suiteVars
<1>2. CASE SuiteNext
  BY <1>2 DEF SuiteNext
<1> QED
  BY <1>1, <1>2

(* So that their invariants are kept.                                       *)
LEMMA PartsKept == ASSUME PartsInv, [SuiteNext]_suiteVars PROVE PartsInv'
<1>1. /\ part' = part /\ [Next]_vars /\ [EventNext]_eventVars
      /\ [Bridge!Next]_wb /\ [Worker!Next]_bw /\ [Logs!Next]_lb /\ [Walk!Next]_wf
  BY PartsMove
<1>2. Inv' /\ EventInv'
  BY <1>1, Assumptions, Indexed, NextInv, InvIsInductive DEF PartsInv
<1>3. Bridge!TypeOK' /\ BridgeInv' /\ WorkInv' /\ LogInv' /\ WalkInv'
  BY <1>1, BridgeTypesKept, BridgeKept, WorkKept, LogKept, WalkKept DEF PartsInv
<1> QED
  BY <1>1, <1>2, <1>3 DEF PartsInv

\* The rows, the events, the bridge, the workers, the log and the walk keep the
\* types of their state (JobLifecycle, EventStream, WslBridge, BacktestWorker,
\* LogBuffer and WalkForward, for any values of the constants).
THEOREM SuiteTypesHold == Suite => []TypesOK
<1>1. PartsInv => TypesOK
  <2>1. Inv => TypeOK
    BY DEF Inv
  <2>2. EventInv => EventTypeOK
    BY DEF EventInv
  <2>4. WorkInv => Worker!TypeOK
    BY WorkTells
  <2>5. LogInv => Logs!TypeOK
    BY LogTells
  <2>6. WalkInv => Walk!TypeOK
    BY WalkTyped
  <2> QED
    BY <2>1, <2>2, <2>4, <2>5, <2>6 DEF PartsInv, TypesOK
<1> QED
  BY <1>1, PartsStart, PartsKept, PTL DEF Suite

\* Each month of a walk-forward test is trained on bars before all those it is
\* tested on, with the session filter no bar is tested twice, and the first bar
\* holds what the last month ended with unless its spread forbids that; a warm
\* start never leads back further than the interval of cold starts, and a policy
\* nobody else can touch is used for one block of evaluated months (WalkForward:
\* real_trading_simulation, for any data, models, settings and numbers of months).
THEOREM MonthsAlwaysFollow == Suite => []MonthsFollow
<1>1. PartsInv => MonthsFollow
  BY MonthsFollowed DEF PartsInv, MonthsFollow
<1> QED
  BY <1>1, PartsStart, PartsKept, PTL DEF Suite

\* The bridge completes only jobs whose runner came to a good end with all it
\* printed read, and keeps the job file as long as somebody reads the runner; an
\* ended worker has published one end, a row for each model and the work of all
\* repetitions, holds nothing and began no model after a stop; the log is shown
\* once and in order, and only what the buffer dropped is missed (WslBridge,
\* BacktestWorker and LogBuffer, for any pipes, jobs, models, repetitions and
\* capacities).
THEOREM ReportsHold == Suite => WorkerReports
<1>1. PartsInv => /\ (part = "worker" => Worker!OneEnd /\ Worker!RowPerModel /\ Worker!AllWork /\ Worker!NothingHeld)
                  /\ (part = "bridge" => Bridge!CompleteIsTrue /\ Bridge!FileWhileRead)
                  /\ (part = "logs" => Logs!ShownInOrder /\ Logs!MissedIsDropped)
  BY BridgeTells, WorkTells, LogTells DEF PartsInv
<1>2. ASSUME PartsInv, [SuiteNext]_suiteVars
      PROVE  [\A j \in WorkJobs : bw_stopped[j] => cycle'[j] = cycle[j]]_(Worker!vars)
  <2>1. [\A j \in WorkJobs : bw_stopped[j] => cycle'[j] = cycle[j]]_bw
    BY <1>2, PartsMove, StopsModels DEF PartsInv
  <2> QED
    BY <2>1 DEF bw, Worker!vars
<1>3. SuiteInit => PartsInv
  BY PartsStart
<1>4. PartsInv /\ [SuiteNext]_suiteVars => PartsInv'
  BY PartsKept
<1> QED
  BY <1>1, <1>2, <1>3, <1>4, PTL DEF Suite, WorkerReports, Worker!NoModelAfterStop

=============================================================================
