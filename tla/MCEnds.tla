-------------------------------- MODULE MCEnds --------------------------------
(* What must come to an end, for TLC: the initial state chooses the part,    *)
(* and the fairness is the one that the part's module states.                *)
EXTENDS Integers, Sequences, TLC

CONSTANTS a, b,   \* jobs, or the models of a cycle
          None

Advised == [proposer |-> "llm", models |-> <<"svm", "mlp">>, iterations |-> 3, ratios |-> {0, 40},
            matrix |-> "up" :> ("svm" :> 10 @@ "mlp" :> 40) @@ "flat" :> ("svm" :> 50 @@ "mlp" :> -20)]
Start  == "up" :> <<"svm">> @@ "flat" :> <<"mlp", "svm">>

VARIABLE part
VARIABLES  \* of ProcessManager
  used, vram, jobVram, pendingVram, pm_queue, jobPool, pm_cancel, future, onExec, hooked,
  poolExec, exSize, exState, nExec, crashes, request, pm_pc, cur, pool, size, exec, repend,
  stack
VARIABLES  \* of JobLifecycle
  jl_status, why, old, post, jl_task, stale, stopping, server, restarts, deaths, heard
VARIABLES  \* of EventStream
  base, next, es_row, es_ws, sent, wire, job, seen, shown, due, connected, listening,
  cursor, synced, es_poll, listed, rest, drops, reloads
VARIABLES  \* of WslBridge
  worker, line, runner, out, err, printed, complained, wb_row, stopped, said, metrics,
  wb_file
VARIABLES  \* of LogBuffer
  buffer, counter, lb_file, lb_page, answer
VARIABLES  \* of TradingSession
  ts_kind, ts_up, sess, ts_task, engine, ts_ws, ts_queue, ts_page, ts_row
VARIABLES  \* of CandleStore
  cs_page, cs_now, candles, sync, download, cs_stops
VARIABLES  \* of FullCycle
  fc_up, fc_pc, opts, have, todo, training, pending, known, dir, fc_status, fc_results,
  flag, beating, fresh, fc_cancel, caught
VARIABLES  \* of FactoryLoop
  setup, config, best, tests, history, arms, asked, trial, done
VARIABLES  \* of DesktopShell
  system, life, ds_pc, window, tray, manager, procs, proc, timers, retries, shuttingDown,
  phase, watch, midStart
VARIABLES  \* of VastRental
  vr_up, remote, vr_row, vr_results, submit, run, vr_poll, data, faults
VARIABLES  \* of NewsStore
  ns_now, ns_file, tmp, caller, shared, ns_stops

pm == <<used, vram, jobVram, pendingVram, pm_queue, jobPool, pm_cancel, future, onExec,
        hooked, poolExec, exSize, exState, nExec, crashes, request, pm_pc, cur, pool, size,
        exec, repend, stack>>
jl == <<jl_status, why, old, post, jl_task, stale, stopping, server, restarts, deaths,
        heard>>
es == <<base, next, es_row, es_ws, sent, wire, job, seen, shown, due, connected, listening,
        cursor, synced, es_poll, listed, rest, drops, reloads>>
wb == <<worker, line, runner, out, err, printed, complained, wb_row, stopped, said, metrics,
        wb_file>>
lb == <<buffer, counter, lb_file, lb_page, answer>>
ts == <<ts_kind, ts_up, sess, ts_task, engine, ts_ws, ts_queue, ts_page, ts_row>>
cs == <<cs_page, cs_now, candles, sync, download, cs_stops>>
fc == <<fc_up, fc_pc, opts, have, todo, training, pending, known, dir, fc_status,
        fc_results, flag, beating, fresh, fc_cancel, caught>>
fl == <<setup, config, best, tests, history, arms, asked, trial, done>>
ds == <<system, life, ds_pc, window, tray, manager, procs, proc, timers, retries,
        shuttingDown, phase, watch, midStart>>
vr == <<vr_up, remote, vr_row, vr_results, submit, run, vr_poll, data, faults>>
ns == <<ns_now, ns_file, tmp, caller, shared, ns_stops>>
vars == <<part, pm, jl, es, wb, lb, ts, cs, fc, fl, ds, vr, ns>>

Manager == INSTANCE ProcessManager WITH Jobs <- {a, b}, GpuJobs <- {a, b}, Budget <- 1,
  TotalVram <- 1, CpuSize <- 1, GpuSize <- 1, NewSizes <- {}, MaxExec <- 2, MaxCrash <- 1,
  queue <- pm_queue, cancel <- pm_cancel, pc <- pm_pc
Rows == INSTANCE JobLifecycle WITH Jobs <- {a}, Config <- (a :> 0), KeysSorted <- FALSE,
  Posix <- TRUE, MaxRestart <- 0, MaxDeath <- 1, status <- jl_status, task <- jl_task
Events == INSTANCE EventStream WITH FinalIndex <- 0, Keep <- 2, MaxDrops <- 0, MaxReloads <- 1,
  MonitorOpen <- TRUE, row <- es_row, ws <- es_ws, poll <- es_poll
Bridge == INSTANCE WslBridge WITH Lines <- {"progress", "callback"}, MaxLines <- 4,
  MaxErr <- 2, OutPipe <- 2, ErrPipe <- 2, row <- wb_row, file <- wb_file
Logs == INSTANCE LogBuffer WITH Capacity <- 3, MaxLines <- 7, file <- lb_file,
  page <- lb_page
Trading == INSTANCE TradingSession WITH Kinds <- {"live", "committee"}, MaxQueue <- 2,
  MaxTrades <- 1, kind <- ts_kind, up <- ts_up, task <- ts_task, ws <- ts_ws,
  queue <- ts_queue, page <- ts_page, row <- ts_row
Store == INSTANCE CandleStore WITH Syncs <- {"loop"}, MaxTime <- 6, Closed <- {4},
  Lookback <- 2, Pages <- {7}, Chunk <- 2, Years <- 4, PerDay <- 2, MaxStops <- 1,
  Downloads <- FALSE, page <- cs_page, now <- cs_now, stops <- cs_stops
Cycle == INSTANCE FullCycle WITH OptionSets <- {{"p3", "p4", "p5", "p6"}}, Models <- {a, b},
  MaxRounds <- 1, up <- fc_up, pc <- fc_pc, status <- fc_status, results <- fc_results,
  cancel <- fc_cancel
Search == INSTANCE FactoryLoop WITH RegimeOrder <- <<"up", "flat">>, Committee <- Start,
  Fallback <- <<"svm">>, Setups <- {Advised}, Refresh <- 2, Patience <- 2, Tolerance <- 2
Shell == INSTANCE DesktopShell WITH Systems <- {"windows", "other"}, MaxRetries <- 1,
  pc <- ds_pc
Rental == INSTANCE VastRental WITH Jobs <- {a}, Pages <- {"page"}, MaxFaults <- 1,
  up <- vr_up, row <- vr_row, results <- vr_results, poll <- vr_poll
Archive == INSTANCE NewsStore WITH Fetchers <- {"socket"}, Window <- 2, Keep <- 2,
  Limit <- 2, MaxTime <- 4, MaxStops <- 1, now <- ns_now, file <- ns_file, stops <- ns_stops

----------------------------------------------------------------------------
ASSUME Assumptions ==
  /\ Manager!ProcessManagerAssumption /\ Rows!JobLifecycleAssumption /\ Events!EventStreamAssumption
  /\ Bridge!BridgeAssumption /\ Logs!LogAssumption /\ Trading!SessionAssumption
  /\ Store!CandleAssumption /\ Cycle!CycleAssumption /\ Search!FactoryAssumption
  /\ Shell!ShellAssumption /\ Rental!RentalAssumption /\ Archive!NewsAssumption

Init ==
  /\ part \in {"manager", "rows", "events", "bridge", "logs", "session", "store", "cycle", "search",
              "shell", "rental", "archive"}
  /\ Manager!Init /\ Rows!Init /\ Events!EventInit /\ Bridge!Init /\ Logs!Init /\ Trading!SessionInit
  /\ Store!Init /\ Cycle!Init /\ Search!Init /\ Shell!Init /\ Rental!RentalInit /\ Archive!NewsInit
  /\ part # "shell" => system = "other"
  /\ part # "session" => ts_kind = "live"

Next ==
  /\ UNCHANGED part
  /\ \/ part = "manager" /\ Manager!Next /\ UNCHANGED <<jl, es, wb, lb, ts, cs, fc, fl, ds, vr, ns>>
     \/ part = "rows"    /\ Rows!Next    /\ UNCHANGED <<pm, es, wb, lb, ts, cs, fc, fl, ds, vr, ns>>
     \/ part = "events"  /\ Events!EventNext /\ UNCHANGED <<pm, jl, wb, lb, ts, cs, fc, fl, ds, vr, ns>>
     \/ part = "bridge"  /\ Bridge!Next  /\ UNCHANGED <<pm, jl, es, lb, ts, cs, fc, fl, ds, vr, ns>>
     \/ part = "logs"    /\ Logs!Next    /\ UNCHANGED <<pm, jl, es, wb, ts, cs, fc, fl, ds, vr, ns>>
     \/ part = "session" /\ Trading!SessionNext /\ UNCHANGED <<pm, jl, es, wb, lb, cs, fc, fl, ds, vr, ns>>
     \/ part = "store"   /\ Store!Next   /\ UNCHANGED <<pm, jl, es, wb, lb, ts, fc, fl, ds, vr, ns>>
     \/ part = "cycle"   /\ Cycle!Next   /\ UNCHANGED <<pm, jl, es, wb, lb, ts, cs, fl, ds, vr, ns>>
     \/ part = "search"  /\ Search!Next  /\ UNCHANGED <<pm, jl, es, wb, lb, ts, cs, fc, ds, vr, ns>>
     \/ part = "shell"   /\ Shell!Next   /\ UNCHANGED <<pm, jl, es, wb, lb, ts, cs, fc, fl, vr, ns>>
     \/ part = "rental"  /\ Rental!RentalNext  /\ UNCHANGED <<pm, jl, es, wb, lb, ts, cs, fc, fl, ds, ns>>
     \/ part = "archive" /\ Archive!NewsNext /\ UNCHANGED <<pm, jl, es, wb, lb, ts, cs, fc, fl, ds, vr>>

Spec == Init /\ [][Next]_vars

FairSpec ==
  /\ Spec
  \* threads, workers, submitters, and the thread that runs callbacks
  /\ \A t \in Manager!Threads : WF_pm(part = "manager" /\ Manager!ThreadStep(t))
  /\ \A j \in {a, b} : /\ WF_pm(part = "manager" /\ Manager!SubmitterStep(j))
                       /\ WF_pm(part = "manager" /\ Manager!WorkerDone(j))
  /\ \A e \in Manager!Managers : WF_pm(part = "manager" /\ \E j \in {a, b} : Manager!BeginCallback(e, j))
  /\ WF_pm(part = "manager" /\ Manager!ConfigStep)
  \* workers, the queue, the handler, the clock and the page's poll
  /\ WF_jl(part = "rows" /\ Rows!WorkerStep(a)) /\ WF_jl(part = "rows" /\ Rows!Pump(a))
  /\ WF_jl(part = "rows" /\ Rows!PostStep(a)) /\ WF_jl(part = "rows" /\ Rows!Age(a))
  /\ WF_jl(part = "rows" /\ Rows!ListActive) /\ WF_jl(part = "rows" /\ Rows!ListCleans)
  /\ WF_jl(part = "rows" /\ Rows!StartUp)
  \* the worker, the loop of the socket, the page and its timers
  /\ WF_es(part = "events" /\ Events!AppendEvent) /\ WF_es(part = "events" /\ Events!Trim)
  /\ WF_es(part = "events" /\ Events!EndRow) /\ WF_es(part = "events" /\ Events!WsRound)
  /\ WF_es(part = "events" /\ Events!Receive) /\ WF_es(part = "events" /\ Events!Effects)
  /\ WF_es(part = "events" /\ Events!FetchActive) /\ WF_es(part = "events" /\ Events!EnsureJob)
  /\ WF_es(part = "events" /\ Events!FetchStatus)
  /\ \A q \in Events!Pollers : WF_es(part = "events" /\ Events!PollStep(q))
  \* the worker and the runner
  /\ WF_wb(part = "bridge" /\ Bridge!Worker) /\ WF_wb(part = "bridge" /\ Bridge!Complain)
  /\ WF_wb(part = "bridge" /\ Bridge!Exit)
  \* the page's poll of the log
  /\ WF_lb(part = "logs" /\ Logs!Poll) /\ WF_lb(part = "logs" /\ Logs!Show)
  \* the loop of the session and its timers
  /\ WF_ts(part = "session" /\ Trading!Loop /\ UNCHANGED ts_kind)
  /\ WF_ts(part = "session" /\ Trading!Deliver /\ UNCHANGED ts_kind)
  /\ WF_ts(part = "session" /\ Trading!Heartbeat /\ UNCHANGED ts_kind)
  \* time, and a loop that gets an answer again and again
  /\ WF_cs(part = "store" /\ Store!Tick) /\ WF_cs(part = "store" /\ Store!Start("loop"))
  /\ SF_cs(part = "store" /\ Store!Fetch("loop")) /\ WF_cs(part = "store" /\ Store!Again("loop"))
  /\ WF_cs(part = "store" /\ (Store!InsertChunk("loop") \/ Store!InsertLast("loop")))
  \* the thread of the cycle, its heartbeat and the clock
  /\ WF_fc(part = "cycle" /\ Cycle!Thread) /\ WF_fc(part = "cycle" /\ Cycle!Heartbeat)
  /\ WF_fc(part = "cycle" /\ Cycle!Age)
  /\ WF_fl(part = "search" /\ Search!Next)
  \* the shell's timers and promises
  /\ WF_ds(part = "shell" /\ Shell!FoundPort) /\ WF_ds(part = "shell" /\ Shell!Waited)
  /\ WF_ds(part = "shell" /\ Shell!LoadFrontend) /\ WF_ds(part = "shell" /\ Shell!Restart)
  /\ WF_ds(part = "shell" /\ Shell!WillQuit)
  /\ \A c \in Shell!Callers : WF_ds(part = "shell" /\ (Shell!Taskkill(c) \/ Shell!Waits(c) \/ Shell!CleanedUp(c)))
  \* the page's poll of a rented run, and the run
  /\ WF_vr(part = "rental" /\ Rental!Poll("page")) /\ WF_vr(part = "rental" /\ Rental!Fetch("page"))
  /\ WF_vr(part = "rental" /\ Rental!UpdateMirror("page")) /\ WF_vr(part = "rental" /\ Rental!Show("page"))
  /\ WF_vr(part = "rental" /\ Rental!Works(a) /\ remote'[a] \in Rental!Terminal)
  \* the news socket, and feeds that answer again and again
  /\ WF_ns(part = "archive" /\ Archive!NewsTick) /\ WF_ns(part = "archive" /\ Archive!Fetches("socket"))
  /\ SF_ns(part = "archive" /\ Archive!FetchRss("socket") /\ caller'["socket"].at = "save")

----------------------------------------------------------------------------
(* Properties: those of the parts.                                         *)

\* A job comes to its end: a started one gives its memory back, whether its
\* worker returns, raises or dies; one that heard a stop ends stopped; the row
\* of a killed worker does not stay running; and a job on the bridge returns,
\* whatever its runner prints.
JobsEnd ==
  /\ \A j \in {a, b} : (part = "manager" /\ future[j] = "live") ~>
                         future[j] = "done" /\ jobPool[j] = "none" /\ j \notin jobVram
  /\ (part = "rows" /\ a \in heard /\ why[a] = "stopped" /\ post[a] = "answered") ~>
       (jl_task[a] = "ended" /\ why[a] = "stopped") \/ jl_task[a] = "dead" \/ ~Rows!Exists(a)
  /\ (part = "rows" /\ jl_task[a] = "dead" /\ jl_status[a] = "running") ~> jl_status[a] # "running"
  /\ (part = "bridge" /\ worker = "read") ~> worker \in {"ended", "interrupted"}

\* Who waits is answered: the socket's loop ends with its job, the loop of a
\* session with the session, a cycle that was started shows an end, the search
\* stops, and candles, log and news catch up.  The service of the shell comes back
\* while restarts are left, the shell leaves when it quits, and the page of a
\* rented run learns how it ended.
LoopsEnd ==
  /\ (part = "events" /\ es_ws.done) ~> es_ws.phase # "open"
  /\ Trading!LoopEnds
  /\ (part = "cycle" /\ dir /\ fc_status.phase = "starting") ~>
       Cycle!Shown \in Cycle!Terminal \cup {"orphaned", "not found"}
  /\ <>(part = "search" => done)
  /\ <>[](part = "store" => /\ cs_now \in Store!Stored
                            /\ \A s \in Store!Stored : s < cs_now => candles[s] = "final")
  /\ (part = "shell" /\ life = "runs" /\ ~shuttingDown /\ Shell!Alive = {}) ~>
       (Shell!Alive # {} \/ shuttingDown \/ retries = 1 \/ life # "runs")
  /\ Shell!ShellLeaves
  /\ Rental!RunIsFollowed
  /\ <>[](part = "logs" => buffer = <<>> \/ lb_page.since = buffer[Len(buffer)].index + 1)
  /\ <>[](part = "archive" => \A n \in Archive!Feed :
             n \in ns_file.has \/ n \notin Archive!Trim(Archive!Feed \cup ns_file.has))

=============================================================================
