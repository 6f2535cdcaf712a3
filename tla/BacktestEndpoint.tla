-------------------------- MODULE BacktestEndpoint --------------------------
(***************************************************************************)
(* POST /backtest (submit_backtest in api/routers/backtest.py, desktop     *)
(* build) in front of the process manager: the handler reserves VRAM by    *)
(* itself, creates the job row, hands the job to submit_or_queue, which    *)
(* takes the budget a second time, and gives its own reservation back when *)
(* the row or the submission is refused.                                   *)
(***************************************************************************)
EXTENDS ProcessManager

VARIABLE post   \* the state of the request that submits each job

evars == <<vars, post>>

EndpointInit == Init /\ post = [j \in Jobs |-> "new"]

Answer(j, verdict) == post' = [post EXCEPT ![j] = verdict]

GiveBackTwice(j) == used' = IF 2 * vram[j] > used THEN 0    \* slip: released
                            ELSE used - 2 * vram[j]         \* by two handlers
GiveBack(j)      == ReleaseVram(vram[j])

(* settings.gpu_enabled is what the last PUT /execution asked for.         *)
Reserve(j) ==
  /\ post[j] = "new"
  /\ \/ /\ j \in GpuJobs /\ request.on /\ Fits(Budget)
        /\ used' = used + Budget
        /\ vram' = [vram EXCEPT ![j] = Budget]
        /\ Answer(j, "reserved")
     \/ /\ j \in GpuJobs /\ request.on /\ ~Fits(Budget)
        /\ Answer(j, "refused")
        /\ UNCHANGED <<used, vram>>
     \/ /\ ~(j \in GpuJobs /\ request.on)
        /\ Answer(j, "reserved")
        /\ UNCHANGED <<used, vram>>
  /\ UNCHANGED <<jobVram, pendingVram, queue, jobVars, execVars, pc, frameVars>>

(* create_job_atomic inserts the row and submit_or_queue is called ...     *)
CreateRow(j) ==
  /\ post[j] = "reserved"
  /\ Answer(j, "submitted")
  /\ Goto(j, "select")
  /\ UNCHANGED <<ledgerVars, vram, queue, jobVars, execVars, frameVars>>

(* ... or it raises, for an identical active job, and the request is 409.  *)
RefuseDuplicate(j) ==
  /\ post[j] = "reserved"
  /\ Answer(j, "refused")
  /\ GiveBack(j)
  /\ UNCHANGED <<jobVram, pendingVram, vram, queue, jobVars, execVars, pc,
                 frameVars>>

(* RuntimeError out of submit_or_queue: the reservation is released.       *)
SubmitRefused(j) ==
  /\ post[j] = "submitted"
  /\ At(j, "raised")
  /\ Answer(j, "refused")
  /\ GiveBack(j)
  /\ UNCHANGED <<jobVram, pendingVram, vram, queue, jobVars, execVars, pc,
                 frameVars>>

(* submit_or_queue returned, or raised what the handler does not catch.    *)
SubmitReturned(j) ==
  /\ post[j] = "submitted"
  /\ \/ pc[j] \in {"queued", "dispatched"} /\ Answer(j, "accepted")
     \/ At(j, "failed") /\ Answer(j, "error")
  /\ UNCHANGED vars

HandlerStep(j) ==
  \/ Reserve(j)
  \/ CreateRow(j)
  \/ RefuseDuplicate(j)
  \/ SubmitRefused(j)
  \/ SubmitReturned(j)

EndpointNext ==
  \/ \E j \in Jobs : HandlerStep(j)
  \/ (ManagerStep \/ Requests) /\ UNCHANGED post

EndpointSpec == EndpointInit /\ [][EndpointNext]_evars

EndpointFairSpec ==
  /\ EndpointSpec
  /\ \A t \in Threads : WF_evars(ThreadStep(t) /\ UNCHANGED post)
  /\ \A j \in Jobs : /\ WF_evars(SubmitterStep(j) /\ UNCHANGED post)
                     /\ WF_evars(HandlerStep(j))
                     /\ WF_evars(WorkerDone(j) /\ UNCHANGED post)
  /\ \A e \in Managers :
       WF_evars((\E j \in Jobs : BeginCallback(e, j)) /\ UNCHANGED post)
  /\ WF_evars(ConfigStep /\ UNCHANGED post)

-----------------------------------------------------------------------------

PostStates == {"new", "reserved", "submitted", "accepted", "refused", "error"}

EndpointTypeOK == TypeOK /\ post \in [Jobs -> PostStates]

(* The jobs whose reservation has not been given back: from Reserve until  *)
(* the refusal or the release in the done callback.                        *)
Reservations ==
  {j \in Jobs : /\ vram[j] > 0
                /\ post[j] \notin {"new", "refused"}
                /\ future[j] = "none" \/ j \in jobVram}

(* Every job that still owns a reservation is paid for in the ledger, so   *)
(* no release can take the memory of another job (max(0, ..) never bites). *)
ReservationsCovered == Budget * Cardinality(Reservations) <= used

(* In no hand but that of its own request, which has not submitted it,     *)
(* in no queue, and never started.                                         *)
Untouched(j) ==
  /\ future[j] = "none" /\ ~Queued(j)
  /\ \A t \in Threads : Holds(t) /\ cur[t] = j => t = j /\ pc[t] = "new"

(* Why ReservationsCovered is inductive: a release is always made by the   *)
(* one owner of a reservation.  The handler releases for a job nobody else *)
(* touches, the callback for a job that has run and whose budget is noted. *)
Ownership ==
  /\ \A j \in Jobs :
       /\ post[j] = "new" => vram[j] = 0
       /\ post[j] \in {"new", "reserved"} => pc[j] = "new"
       /\ post[j] \in {"new", "reserved", "refused"} => Untouched(j)
       /\ pc[j] \in {"raised", "failed"} => Untouched(j)
       /\ future[j] = "live" /\ vram[j] > 0 => j \in jobVram
  /\ \A t \in Threads :
       /\ pc[t] = "submit" /\ vram[cur[t]] > 0 => cur[t] \in jobVram
       /\ pc[t] \in {"callback", "cbRelease"} => future[cur[t]] = "done"

EndpointInv ==
  /\ IInv
  /\ post \in [Jobs -> PostStates]
  /\ Ownership
  /\ ReservationsCovered
  /\ LedgerWithinTotal

(* The endpoint and the manager implement BacktestService.                 *)
RunOf == [j \in Jobs |-> CASE future[j] = "none" -> "waiting"
                           [] future[j] = "live" -> "running"
                           [] OTHER -> "ended"]

OnCard == {j \in Jobs : future[j] = "live" /\ vram[j] > 0}

Service == INSTANCE BacktestService WITH run <- RunOf, card <- OnCard

(* Every behaviour of the threads, pools, queues and ledger is one of the  *)
(* service that submit_backtest and submit_or_queue promise.               *)
ImplementsService == Service!ServiceSpec

(* "VRAM released in done_callback regardless of success/crash": when all  *)
(* requests are answered and no job runs or waits, the ledger is at zero.  *)
VramReturned ==
  /\ AtRest
  /\ \A j \in Jobs : ~Queued(j) /\ post[j] \notin {"reserved", "submitted"}
  => used = 0

(* An accepted backtest runs: submit_or_queue "Submit job to pool or       *)
(* enqueue if full".                                                       *)
AcceptedRuns == \A j \in Jobs : post[j] = "accepted" ~> future[j] # "none"
=============================================================================
