----------------------------- MODULE BacktestWorker -----------------------------
(***************************************************************************)
(* What a worker process does with a backtest: for each model of the job   *)
(* its repetitions, each a tuning and a walk through the periods, then a   *)
(* row of metrics, and at the end the result.  The jobs share the results  *)
(* directory, from which a row takes the newest importances.               *)
(*                                                                         *)
(* JobLifecycle has the job's row and who writes it; here it is reduced to *)
(* a stop the user asks for.  Numbers of a row are abstracted to where     *)
(* they come from.                                                         *)
(***************************************************************************)
EXTENDS Naturals, Sequences, FiniteSets

CONSTANTS
  Jobs,
  Names,     \* job -> its models, in order
  Repeats,   \* job -> repetitions of each model
  Trials,    \* trials of a tuning
  Periods    \* periods of a walk

WorkerAssumption ==
  /\ Names \in [Jobs -> Seq(STRING)] /\ Repeats \in [Jobs -> Nat \ {0}]
  /\ {Trials, Periods} \subseteq Nat \ {0}

VARIABLES
  pc,        \* where the worker of the job is
  cycle,     \* the model it works on, an index of Names
  rep,       \* the repetition
  left,      \* trials and periods left in the repetition
  work,      \* completed_work
  rows,      \* all_metrics: per row the model, the repetition, and whose
             \* importances it holds
  events,    \* the events that were published, but for progress
  held,      \* what the clean-up module knows of the job's backtesters
  newest,    \* the job that wrote importances last
  stopped    \* the user has stopped the job

vars == <<pc, cycle, rep, left, work, rows, events, held, newest, stopped>>

None == "none"

Init ==
  /\ pc = [j \in Jobs |-> "begin"] /\ cycle = [j \in Jobs |-> 0] /\ rep = [j \in Jobs |-> 0]
  /\ left = [j \in Jobs |-> [trials |-> 0, periods |-> 0]] /\ work = [j \in Jobs |-> 0]
  /\ rows = [j \in Jobs |-> <<>>] /\ events = [j \in Jobs |-> <<>>] /\ held = [j \in Jobs |-> {}]
  /\ newest = None /\ stopped = [j \in Jobs |-> FALSE]

At(j, l)  == pc[j] = l
Go(j, l)  == pc' = [pc EXCEPT ![j] = l]
Say(j, e) == events' = [events EXCEPT ![j] = Append(@, e)]

\* _compute_total_work: of one repetition of each model.
TotalWork(j) == Len(Names[j]) * (Trials + Periods)

Begin(j) ==
  /\ At(j, "begin") /\ Go(j, "cycle") /\ Say(j, "job_started")
  /\ UNCHANGED <<cycle, rep, left, work, rows, held, newest, stopped>>

\* The next model, after a check.
StartCycle(j) ==
  /\ At(j, "cycle") /\ cycle[j] < Len(Names[j])
  /\ IF stopped[j] THEN Go(j, "interrupted") /\ UNCHANGED <<cycle, rep>>
     ELSE cycle' = [cycle EXCEPT ![j] = @ + 1] /\ rep' = [rep EXCEPT ![j] = 0] /\ Go(j, "repeat")
  /\ UNCHANGED <<left, work, rows, events, held, newest, stopped>>

\* The next repetition: a backtester, known to the clean-up module in place of
\* the one before.  With one repetition there is no check.
StartRep(j) ==
  /\ At(j, "repeat") /\ rep[j] < Repeats[j]
  /\ IF Repeats[j] > 1 /\ stopped[j] THEN Go(j, "interrupted") /\ UNCHANGED <<rep, left, held>>
     ELSE /\ rep' = [rep EXCEPT ![j] = @ + 1]
          /\ left' = [left EXCEPT ![j] = [trials |-> Trials, periods |-> Periods]]
          /\ held' = [held EXCEPT ![j] = {<<cycle[j], rep[j] + 1>>}] /\ Go(j, "simulate")
  /\ UNCHANGED <<cycle, work, rows, events, newest, stopped>>

\* The callback: a check, and the work that was done.
Report(j, k) ==
  IF stopped[j] THEN Go(j, "interrupted") /\ UNCHANGED <<left, work>>
  ELSE /\ left' = [left EXCEPT ![j][k] = @ - 1] /\ work' = [work EXCEPT ![j] = @ + 1] /\ UNCHANGED pc

Trial(j) ==
  /\ At(j, "simulate") /\ left[j].trials > 0 /\ Report(j, "trials")
  /\ UNCHANGED <<cycle, rep, rows, events, held, newest, stopped>>

\* The study is over and its importances are written to the results.
SaveImportances(j) ==
  /\ At(j, "simulate") /\ left[j].trials = 0 /\ left[j].periods = Periods /\ newest # j
  /\ newest' = j
  /\ UNCHANGED <<pc, cycle, rep, left, work, rows, events, held, stopped>>

Period(j) ==
  /\ At(j, "simulate") /\ left[j].trials = 0 /\ left[j].periods > 0 /\ Report(j, "periods")
  /\ UNCHANGED <<cycle, rep, rows, events, held, newest, stopped>>

EndRep(j) ==
  /\ At(j, "simulate") /\ left[j].trials = 0 /\ left[j].periods = 0 /\ Go(j, "repeat")
  /\ UNCHANGED <<cycle, rep, left, work, rows, events, held, newest, stopped>>

RowOf(j) == [model |-> Names[j][cycle[j]], rep |-> rep[j], importances |-> newest]

\* After the repetitions: the row, of the last of them.
Collect(j) ==
  /\ At(j, "repeat") /\ rep[j] = Repeats[j]
  /\ rows' = [rows EXCEPT ![j] = Append(@, RowOf(j))] /\ Say(j, "model_complete") /\ Go(j, "free")
  /\ UNCHANGED <<cycle, rep, left, work, held, newest, stopped>>

\* The snapshot, and the backtester is freed; the clean-up module keeps it.
Free(j) ==
  /\ At(j, "free") /\ Go(j, "cycle")
  /\ UNCHANGED <<cycle, rep, left, work, rows, events, held, newest, stopped>>

Complete(j) ==
  /\ At(j, "cycle") /\ cycle[j] = Len(Names[j]) /\ Go(j, "finally") /\ Say(j, "job_complete")
  /\ UNCHANGED <<cycle, rep, left, work, rows, held, newest, stopped>>

\* Anything may raise in a repetition or between.
Raise(j) ==
  /\ pc[j] \in {"cycle", "repeat", "simulate", "free"} /\ Go(j, "raised")
  /\ UNCHANGED <<cycle, rep, left, work, rows, events, held, newest, stopped>>

\* slip: the handler of the stop goes on into the one of errors
HandleTwice(j) ==
  /\ pc[j] \in {"interrupted", "raised"} /\ held' = [held EXCEPT ![j] = {}]
  /\ Go(j, IF pc[j] = "interrupted" THEN "raised" ELSE "finally") /\ Say(j, "job_failed")
  /\ UNCHANGED <<cycle, rep, left, work, rows, newest, stopped>>

\* The handlers: job_failed, and the clean-up of the job.
Handle(j) ==
  /\ pc[j] \in {"interrupted", "raised"} /\ Go(j, "finally") /\ Say(j, "job_failed")
  /\ held' = [held EXCEPT ![j] = {}]
  /\ UNCHANGED <<cycle, rep, left, work, rows, newest, stopped>>

Finally(j) ==
  /\ At(j, "finally") /\ Go(j, "ended") /\ held' = [held EXCEPT ![j] = {}]
  /\ UNCHANGED <<cycle, rep, left, work, rows, events, newest, stopped>>

Stop(j) ==
  /\ pc[j] # "ended" /\ ~stopped[j] /\ stopped' = [stopped EXCEPT ![j] = TRUE]
  /\ UNCHANGED <<pc, cycle, rep, left, work, rows, events, held, newest>>

Next == \E j \in Jobs :
  \/ Begin(j) \/ StartCycle(j) \/ StartRep(j) \/ Trial(j) \/ SaveImportances(j) \/ Period(j) \/ EndRep(j)
  \/ Collect(j) \/ Free(j) \/ Complete(j) \/ Raise(j) \/ Handle(j) \/ Finally(j) \/ Stop(j)

Spec == Init /\ [][Next]_vars

---------------------------------------------------------------------------
(* Properties.                                                             *)

\* The types of the state.
TypeOK ==
  /\ \A j \in Jobs : cycle[j] \in 0..Len(Names[j]) /\ rep[j] \in 0..Repeats[j]
  /\ left \in [Jobs -> [trials : 0..Trials, periods : 0..Periods]]
  /\ newest \in Jobs \cup {None} /\ stopped \in [Jobs -> BOOLEAN]

Ends(j) == {i \in DOMAIN events[j] : events[j][i] \in {"job_complete", "job_failed"}}

\* An ended job has published one end, as its last event.
OneEnd == \A j \in Jobs : pc[j] = "ended" => Ends(j) = {Len(events[j])}

\* A completed job has one row for each of its models, in their order.
RowPerModel == \A j \in Jobs : Len(events[j]) > 0 /\ events[j][Len(events[j])] = "job_complete" =>
                 /\ Len(rows[j]) = Len(Names[j])
                 /\ \A i \in DOMAIN rows[j] : rows[j][i].model = Names[j][i]

\* An ended job has left nothing with the clean-up module.
NothingHeld == \A j \in Jobs : pc[j] = "ended" => held[j] = {}

\* A stopped job does not begin another model.
NoModelAfterStop == [][\A j \in Jobs : stopped[j] => cycle'[j] = cycle[j]]_vars

\* Every repetition that was run is in the result.
EveryRepReported == \A j \in Jobs : pc[j] = "finally" /\ Ends(j) # {} /\ events[j][Len(events[j])] = "job_complete" =>
                      \A i \in DOMAIN Names[j], r \in 1..Repeats[j] :
                        \E k \in DOMAIN rows[j] : rows[j][k].model = Names[j][i] /\ rows[j][k].rep = r

\* The importances of a row are those of its own study.
OwnImportances == \A j \in Jobs : \A i \in DOMAIN rows[j] : rows[j][i].importances \in {j, None}

\* A completed job has done the work of all its repetitions.
AllWork == \A j \in Jobs : Len(events[j]) > 0 /\ events[j][Len(events[j])] = "job_complete" =>
             work[j] = Repeats[j] * TotalWork(j)

=============================================================================
