----------------------------- MODULE VastRental -----------------------------
(* A backtest sent to a rented machine: api/routers/vast.py and              *)
(* services/vast_executor.py, the page that follows the run (SettingsPage,   *)
(* queries.ts) and the row that mirrors it in the local jobs table.  The     *)
(* machine runs the same service; it and the network are the environment.    *)
EXTENDS Naturals, FiniteSets

CONSTANTS Jobs,       \* ids the machine gives out
          Pages,      \* windows that show the settings
          None,
          MaxFaults   \* bound: database errors, which every mirroring call swallows

RentalAssumption == None \notin Jobs /\ MaxFaults \in Nat

VARIABLES
  up,       \* whether the machine can be reached
  remote,   \* its jobs: "none" if not yet submitted
  row,      \* the local row, "absent" if there is none
  results,  \* the rows that hold results
  submit,   \* the request of a page: [at, job]
  run,      \* activeRun of a page
  poll,     \* the status request of a page: [at, job, says]
  data,     \* the status a page shows
  faults

rental == <<up, remote, row, results, submit, run, poll, data, faults>>

Terminal == {"completed", "failed", "cancelled"}  \* TERMINAL_STATUSES; nothing writes "error"
NotSent == [at |-> "idle", job |-> None]
Quiet == [at |-> "idle", job |-> None, says |-> "none"]

(* A write of a mirroring call, or its error, which is swallowed.            *)
Fault(unwritten) == faults < MaxFaults /\ faults' = faults + 1 /\ unwritten

----------------------------------------------------------------------------
(* POST /vast/run-backtest.                                                  *)

Run(p) ==
  /\ submit[p] = NotSent /\ up
  /\ submit' = [submit EXCEPT ![p].at = "sent"]
  /\ UNCHANGED <<up, remote, row, results, run, poll, data, faults>>

(* The machine takes one run of a configuration at a time.                   *)
Accepted(p) ==
  /\ submit[p].at = "sent" /\ up
  /\ \A j \in Jobs : remote[j] \in {"none"} \cup Terminal
  /\ \E j \in Jobs :
       /\ remote[j] = "none" /\ remote' = [remote EXCEPT ![j] = "pending"]
       /\ submit' = [submit EXCEPT ![p] = [at |-> "answer", job |-> j]]
  /\ UNCHANGED <<up, row, results, run, poll, data, faults>>

(* Refused, unreachable, or accepted with an answer that came too late.      *)
Refused(p) ==
  /\ submit[p].at \in {"sent", "answer"}
  /\ submit' = [submit EXCEPT ![p] = NotSent]
  /\ UNCHANGED <<up, remote, row, results, run, poll, data, faults>>

(* _mirror_local_job: the row, then its status.                              *)
CreateRow(p) ==
  /\ submit[p].at = "answer"
  /\ \/ /\ row' = [row EXCEPT ![submit[p].job] = "pending"]
        /\ submit' = [submit EXCEPT ![p].at = "created"] /\ UNCHANGED faults
     \/ /\ Fault(UNCHANGED row)
        /\ submit' = [submit EXCEPT ![p].at = "mirrored"]
  /\ UNCHANGED <<up, remote, results, run, poll, data>>

\* slip: a row that was given up stays so
UpdateActive(j, s, has) ==
  IF row[j] \notin {"pending", "running"} THEN UNCHANGED <<row, results>>
  ELSE row' = [row EXCEPT ![j] = s] /\ results' = IF has THEN results \cup {j} ELSE results \ {j}

Update(j, s, has) ==
  IF row[j] = "absent" THEN UNCHANGED <<row, results>>
  ELSE /\ row' = [row EXCEPT ![j] = s]
       /\ results' = IF has THEN results \cup {j} ELSE results \ {j}

MarkRunning(p) ==
  /\ submit[p].at = "created"
  /\ \/ Update(submit[p].job, "running", FALSE) /\ UNCHANGED faults
     \/ Fault(UNCHANGED <<row, results>>)
  /\ submit' = [submit EXCEPT ![p].at = "mirrored"]
  /\ UNCHANGED <<up, remote, run, poll, data>>

Answered(p) ==
  /\ submit[p].at = "mirrored"
  /\ run' = [run EXCEPT ![p] = submit[p].job] /\ submit' = [submit EXCEPT ![p] = NotSent]
  /\ data' = [data EXCEPT ![p] = "none"]
  /\ UNCHANGED <<up, remote, row, results, poll, faults>>

----------------------------------------------------------------------------
(* GET /vast/runs/{job}, every three seconds until the status is terminal.   *)

Poll(p) ==
  /\ run[p] # None /\ poll[p] = Quiet /\ data[p] \notin Terminal /\ up
  /\ poll' = [poll EXCEPT ![p] = [at |-> IF remote[run[p]] = "completed" THEN "results"
                                         ELSE IF remote[run[p]] \in Terminal THEN "mirror" ELSE "answer",
                                  job |-> run[p], says |-> remote[run[p]]]]
  /\ UNCHANGED <<up, remote, row, results, submit, run, data, faults>>

Fetch(p) ==
  /\ poll[p].at = "results"
  /\ poll' = [poll EXCEPT ![p] = IF up THEN [@ EXCEPT !.at = "mirror"] ELSE Quiet]
  /\ UNCHANGED <<up, remote, row, results, submit, run, data, faults>>

(* Whatever else the machine calls an end is a failure here.                 *)
UpdateMirror(p) ==
  /\ poll[p].at = "mirror"
  /\ \/ /\ UNCHANGED faults
        /\ IF poll[p].says = "completed" THEN Update(poll[p].job, "completed", TRUE)
           ELSE Update(poll[p].job, "failed", FALSE)
     \/ Fault(UNCHANGED <<row, results>>)
  /\ poll' = [poll EXCEPT ![p].at = "answer"]
  /\ UNCHANGED <<up, remote, submit, run, data>>

Show(p) ==
  /\ poll[p].at = "answer"
  /\ data' = [data EXCEPT ![p] = IF poll[p].job = run[p] THEN poll[p].says ELSE @]
  /\ poll' = [poll EXCEPT ![p] = Quiet]
  /\ UNCHANGED <<up, remote, row, results, submit, run, faults>>

(* The page is left or loaded again, and forgets its run; a request goes on. *)
Leave(p) ==
  /\ run[p] # None
  /\ run' = [run EXCEPT ![p] = None] /\ data' = [data EXCEPT ![p] = "none"]
  /\ UNCHANGED <<up, remote, row, results, submit, poll, faults>>

----------------------------------------------------------------------------
(* The environment.                                                          *)

Works(j) ==
  /\ remote[j] \in {"pending", "running"} /\ up
  /\ \E s \in {"running"} \cup Terminal :
       s # remote[j] /\ remote' = [remote EXCEPT ![j] = s]
  /\ UNCHANGED <<up, row, results, submit, run, poll, data, faults>>

Unreachable ==
  /\ up /\ up' = FALSE
  /\ UNCHANGED <<remote, row, results, submit, run, poll, data, faults>>

(* The stale clean-up, a force stop or a start of the service: polling does  *)
(* not renew the row.                                                        *)
GivenUp(j) ==
  /\ row[j] \in {"pending", "running"} /\ Update(j, "failed", FALSE)
  /\ UNCHANGED <<up, remote, submit, run, poll, data, faults>>

Delete(j) ==
  /\ row[j] \in Terminal
  /\ row' = [row EXCEPT ![j] = "absent"] /\ results' = results \ {j}
  /\ UNCHANGED <<up, remote, submit, run, poll, data, faults>>

RentalInit ==
  /\ up = TRUE /\ remote = [j \in Jobs |-> "none"] /\ row = [j \in Jobs |-> "absent"] /\ results = {}
  /\ submit = [p \in Pages |-> NotSent] /\ run = [p \in Pages |-> None]
  /\ poll = [p \in Pages |-> Quiet] /\ data = [p \in Pages |-> "none"] /\ faults = 0

RentalNext ==
  \/ \E p \in Pages : \/ Run(p) \/ Accepted(p) \/ Refused(p) \/ CreateRow(p) \/ MarkRunning(p) \/ Answered(p)
                      \/ Poll(p) \/ Fetch(p) \/ UpdateMirror(p) \/ Show(p) \/ Leave(p)
  \/ \E j \in Jobs : Works(j) \/ GivenUp(j) \/ Delete(j)
  \/ Unreachable

RentalSpec == RentalInit /\ [][RentalNext]_rental

(* The page polls on; the machine's runs end.                                *)
RentalFairSpec ==
  /\ RentalSpec
  /\ \A p \in Pages : WF_rental(Poll(p)) /\ WF_rental(Fetch(p)) /\ WF_rental(UpdateMirror(p)) /\ WF_rental(Show(p))
  /\ \A j \in Jobs : WF_rental(Works(j) /\ remote'[j] \in Terminal)

----------------------------------------------------------------------------
RentalTypeOK ==
  /\ up \in BOOLEAN /\ faults \in 0..MaxFaults /\ results \subseteq Jobs
  /\ remote \in [Jobs -> {"none", "pending", "running"} \cup Terminal]
  /\ row \in [Jobs -> {"absent", "pending", "running", "completed", "failed"}]
  /\ submit \in [Pages -> [at : {"idle", "sent", "answer", "created", "mirrored"}, job : Jobs \cup {None}]]
  /\ run \in [Pages -> Jobs \cup {None}]
  /\ poll \in [Pages -> [at : {"idle", "results", "mirror", "answer"}, job : Jobs \cup {None},
                         says : {"none", "pending", "running"} \cup Terminal]]
  /\ data \in [Pages -> {"none", "pending", "running"} \cup Terminal]

(* The row of a run says completed only of a run that is, and then holds its *)
(* results.  Once the page shows how a run ended the row says so too, though *)
(* it was given up meanwhile, unless it was deleted or a write of it failed. *)
MirrorIsTrue ==
  /\ \A j \in Jobs : row[j] = "completed" => remote[j] = "completed" /\ j \in results
  /\ faults = 0 => \A p \in Pages :
       data[p] \in Terminal => row[run[p]] \in {"absent", IF data[p] = "completed" THEN "completed" ELSE "failed"}

(* A page that stays learns how its run ended, while the machine is there.   *)
RunIsFollowed == \A p \in Pages : run[p] # None ~> (data[p] \in Terminal \/ run[p] = None \/ ~up)

=============================================================================
