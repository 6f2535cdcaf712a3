--------------------------- MODULE ProcessManager ---------------------------
(***************************************************************************)
(* api/process_manager.py: the process pools that run backtests, the FIFO  *)
(* of jobs waiting for a slot or for GPU memory, and the VRAM ledger.      *)
(*                                                                         *)
(* Several threads of the API process execute this code at once:           *)
(*   - a request thread of FastAPI's thread pool per submitted job (the    *)
(*     thread is named by its job);                                        *)
(*   - the management thread of every ProcessPoolExecutor, which runs the  *)
(*     done callbacks of its futures one at a time (thread e, e the        *)
(*     executor);                                                          *)
(*   - the request thread of PUT /execution, which resizes the pools.      *)
(* Only the ledger and the deques are locked, so every access to them, and *)
(* every access to an unlocked dict, is a step of its own.                 *)
(***************************************************************************)
EXTENDS Integers, SequencesExt

CONSTANTS
  Jobs,        \* job ids (uuid4, never reused)
  GpuJobs,     \* the jobs whose config names a model of GPU_MODELS
  Budget,      \* vram_budget_mb of a GPU job
  TotalVram,   \* settings.gpu_total_vram_mb
  CpuSize,     \* max_workers of the first CPU pool
  GpuSize,     \* max_workers of the first GPU pool
  NewSizes,    \* pool sizes that PUT /execution may ask for
  MaxExec,     \* bound: executors ever created
  MaxCrash     \* bound: executors broken by the death of a worker

Threads  == Jobs \cup (0..MaxExec)
Config   == 0
Managers == 1..MaxExec
Pools    == {"cpu", "gpu"}

(* The endpoint takes min(.., total), so a budget above the total, which   *)
(* submit_or_queue refuses, does not occur.                                *)
ASSUME ProcessManagerAssumption ==
  /\ Jobs \cap Int = {}
  /\ IsFiniteSet(Jobs)
  /\ GpuJobs \subseteq Jobs
  /\ Budget \in Nat \ {0}
  /\ TotalVram \in Nat /\ Budget <= TotalVram
  /\ CpuSize \in Nat \ {0}
  /\ GpuSize \in Nat \ {0}
  /\ NewSizes \subseteq Nat \ {0}
  /\ MaxExec \in Nat /\ MaxExec >= 2
  /\ MaxCrash \in Nat

VARIABLES
  used,         \* _gpu_vram_used_mb
  vram,         \* the vram_budget_mb a job was submitted with
  jobVram,      \* the keys of _job_vram (the value is vram[j])
  pendingVram,  \* the keys of _pending_vram (the value is vram[j])
  queue,        \* _pending: one FIFO of jobs per pool
  jobPool,      \* _active_futures and _job_pool: "none" when not active
  cancel,       \* _cancel_events: "absent", "clear" (False) or "set" (True)
  future,       \* "none", "live" until the worker returns or dies, "done"
  onExec,       \* the executor a future was submitted to
  hooked,       \* jobs whose done callback is attached and has not begun
  poolExec,     \* _cpu_pool, _gpu_pool: an executor, or 0 for None
  exSize,       \* _max_workers of an executor
  exState,      \* "absent", "open", "retired" (shutdown called), "broken"
  nExec,        \* executors created so far
  crashes,      \* executors broken so far
  request,      \* the PUT /execution request being served
  pc,           \* where each thread is
  cur,          \* job_id in the thread's innermost frame, 0 for none
  pool,         \* pool_name in that frame
  size,         \* pool_size read by that frame
  exec,         \* the executor _dispatch_to_pool read
  repend,       \* pending_vram > 0 in the pump's frame
  stack         \* pool_size of the pump frames suspended below it

ledgerVars == <<used, jobVram, pendingVram>>
jobVars    == <<jobPool, cancel, future, onExec, hooked>>
execVars   == <<poolExec, exSize, exState, nExec, crashes, request>>
frameVars  == <<cur, pool, size, exec, repend, stack>>
vars       == <<ledgerVars, vram, queue, jobVars, execVars, pc, frameVars>>

Absent == 0

Goto(t, label) == pc' = [pc EXCEPT ![t] = label]
At(t, label)   == pc[t] = label

(* Is t inside _pump_queue, rather than in its own job's submission?       *)
Pumping(t) == cur[t] # t

Active(p) == {j \in Jobs : jobPool[j] = p}

Init ==
  /\ used = 0
  /\ vram = [j \in Jobs |-> 0]
  /\ jobVram = {}
  /\ pendingVram = {}
  /\ queue = [p \in Pools |-> <<>>]
  /\ jobPool = [j \in Jobs |-> "none"]
  /\ cancel = [j \in Jobs |-> "absent"]
  /\ future = [j \in Jobs |-> "none"]
  /\ onExec = [j \in Jobs |-> Absent]
  /\ hooked = {}
  /\ poolExec = [p \in Pools |-> IF p = "cpu" THEN 1 ELSE 2]
  /\ exSize = [e \in Managers |->
                 IF e = 1 THEN CpuSize ELSE IF e = 2 THEN GpuSize ELSE 0]
  /\ exState = [e \in Managers |-> IF e <= 2 THEN "open" ELSE "absent"]
  /\ nExec = 2
  /\ crashes = 0
  /\ request = [cpu |-> CpuSize, gpu |-> GpuSize, on |-> TRUE, old |-> Absent]
  /\ pc = [t \in Threads |-> IF t \in Jobs THEN "new" ELSE "idle"]
  /\ cur = [t \in Threads |-> IF t \in Jobs THEN t ELSE 0]
  /\ pool = [t \in Threads |-> "cpu"]
  /\ size = [t \in Threads |-> 0]
  /\ exec = [t \in Threads |-> Absent]
  /\ repend = [t \in Threads |-> FALSE]
  /\ stack = [t \in Threads |-> <<>>]

-----------------------------------------------------------------------------
(* The VRAM ledger.  A budget of 0 leaves it alone.                        *)

FitsUnchecked(b) == TRUE                 \* slip: the comparison is left out
Fits(b)          == used + b <= TotalVram

HasRoom(j) == Fits(vram[j])

AllocateDown(j) == used' = used - vram[j]     \* slip: counts free memory
AllocateVram(j) == used' = used + vram[j]

(* What _dispatch_to_pool notes for the callback, which pops it.           *)
NoteNothing(j) == jobVram' = jobVram          \* slip: not noted
NoteVram(j)    == jobVram' = IF vram[j] > 0 THEN jobVram \cup {j} ELSE jobVram

ForgetLate(j) == jobVram' = jobVram           \* slip: get instead of pop
ForgetVram(j) == jobVram' = jobVram \ {j}

ReleaseVram(b) == used' = IF b > used THEN 0 ELSE used - b

-----------------------------------------------------------------------------
(* submit_or_queue, run by the request thread of job j.                    *)

SelectPool(j) ==
  LET p == IF j \in GpuJobs /\ poolExec["gpu"] # Absent THEN "gpu" ELSE "cpu"
  IN  /\ At(j, "select")
      /\ pool' = [pool EXCEPT ![j] = p]
      /\ size' = [size EXCEPT ![j] = exSize[poolExec[p]]]
      /\ Goto(j, IF p = "gpu" /\ vram[j] > 0 THEN "gate" ELSE "count")
      /\ UNCHANGED <<ledgerVars, vram, queue, jobVars, execVars,
                     cur, exec, repend, stack>>

(* The VRAM gate: a job that does not fit is parked.                       *)
VramGate(j) ==
  /\ At(j, "gate")
  /\ \/ /\ HasRoom(j)
        /\ AllocateVram(j)
        /\ Goto(j, "count")
     \/ /\ ~HasRoom(j)
        /\ Goto(j, "park")
        /\ UNCHANGED used
  /\ UNCHANGED <<jobVram, pendingVram, vram, queue, jobVars, execVars,
                 frameVars>>

Park(j) ==
  /\ At(j, "park")
  /\ pendingVram' = pendingVram \cup {j}
  /\ queue' = [queue EXCEPT ![pool[j]] = Append(@, j)]
  /\ Goto(j, "queued")
  /\ UNCHANGED <<used, jobVram, vram, jobVars, execVars, frameVars>>

(* A concurrent insertion into or removal from _active_futures makes the   *)
(* iteration that counts the active jobs raise RuntimeError.               *)
CountRaces(t) ==
  \E u \in Threads \ {t} :
     \/ pc[u] \in {"register", "callback"}
     \/ u \in Managers /\ pc[u] = "idle"
        /\ \E j \in hooked : future[j] = "done" /\ onExec[j] = u

CountSlots(j) ==
  /\ At(j, "count")
  /\ \/ /\ Cardinality(Active(pool[j])) >= size[j]
        /\ Goto(j, "enqueue")
     \/ /\ Cardinality(Active(pool[j])) < size[j]
        /\ Goto(j, "dispatch")
     \/ /\ CountRaces(j)
        /\ Goto(j, "raised")
  /\ UNCHANGED <<ledgerVars, vram, queue, jobVars, execVars, frameVars>>

(* The pool was full: the job waits for a slot and keeps its allocation.   *)
Enqueue(j) ==
  /\ At(j, "enqueue")
  /\ queue' = [queue EXCEPT ![pool[j]] = Append(@, j)]
  /\ Goto(j, "queued")
  /\ UNCHANGED <<ledgerVars, vram, jobVars, execVars, frameVars>>

-----------------------------------------------------------------------------
(* _dispatch_to_pool, run by any thread for the job in its frame.          *)

(* Reads the pool, then registers the cancel flag and the VRAM to release. *)
Dispatch(t) ==
  LET j == cur[t] IN
  /\ At(t, "dispatch")
  /\ exec' = [exec EXCEPT ![t] = poolExec[pool[t]]]
  /\ cancel' = [cancel EXCEPT ![j] = "clear"]
  /\ NoteVram(j)
  /\ Goto(t, "submit")
  /\ UNCHANGED <<used, pendingVram, vram, queue, jobPool, future, onExec,
                 hooked, execVars, cur, pool, size, repend, stack>>

(* pool.submit raises AttributeError on None and RuntimeError on a pool    *)
(* that was shut down or broke.  The pump catches both.                    *)
PoolSubmit(t) ==
  LET j == cur[t]
      e == exec[t]
      accepts == e # Absent /\ exState[e] = "open"
  IN
  /\ At(t, "submit")
  /\ \/ /\ accepts
        /\ future' = [future EXCEPT ![j] = "live"]
        /\ onExec' = [onExec EXCEPT ![j] = e]
        /\ Goto(t, "register")
     \/ /\ ~accepts
        /\ Goto(t, IF Pumping(t) THEN "pumpFail"
                   ELSE IF e = Absent THEN "failed" ELSE "raised")
        /\ UNCHANGED <<future, onExec>>
  /\ UNCHANGED <<ledgerVars, vram, queue, jobPool, cancel, hooked, execVars,
                 frameVars>>

(* Enters the job in _active_futures and _job_pool and attaches the done   *)
(* callback, which runs at once, here, if the future is already done.      *)
Register(t) ==
  LET j == cur[t] IN
  /\ At(t, "register")
  /\ jobPool' = [jobPool EXCEPT ![j] = pool[t]]
  /\ \/ /\ future[j] = "done"
        /\ stack' = IF Pumping(t) THEN [stack EXCEPT ![t] = Cons(size[t], @)]
                                  ELSE stack
        /\ Goto(t, "callback")
        /\ UNCHANGED hooked
     \/ /\ future[j] # "done"
        /\ hooked' = hooked \cup {j}
        /\ Goto(t, IF Pumping(t) THEN "pumpCount" ELSE "dispatched")
        /\ UNCHANGED stack
  /\ UNCHANGED <<ledgerVars, vram, queue, cancel, future, onExec, execVars,
                 cur, pool, size, exec, repend>>

-----------------------------------------------------------------------------
(* _done_callback.                                                         *)

DropEntries(j) ==
  /\ jobPool' = [jobPool EXCEPT ![j] = "none"]
  /\ cancel' = [cancel EXCEPT ![j] = "absent"]

(* An idle management thread runs the callback of a finished future.       *)
BeginCallback(e, j) ==
  /\ At(e, "idle")
  /\ j \in hooked
  /\ future[j] = "done"
  /\ onExec[j] = e
  /\ hooked' = hooked \ {j}
  /\ DropEntries(j)
  /\ cur' = [cur EXCEPT ![e] = j]
  /\ pool' = [pool EXCEPT ![e] = jobPool[j]]
  /\ Goto(e, "cbRelease")
  /\ UNCHANGED <<ledgerVars, vram, queue, future, onExec, execVars,
                 size, exec, repend, stack>>

(* The dispatching thread runs it, the future having finished before.      *)
InlineCallback(t) ==
  /\ At(t, "callback")
  /\ DropEntries(cur[t])
  /\ Goto(t, "cbRelease")
  /\ UNCHANGED <<ledgerVars, vram, queue, future, onExec, hooked, execVars,
                 frameVars>>

(* _release_vram_for_job.                                                  *)
CallbackRelease(t) ==
  LET j == cur[t] IN
  /\ At(t, "cbRelease")
  /\ ReleaseVram(IF j \in jobVram THEN vram[j] ELSE 0)
  /\ ForgetVram(j)
  /\ cur' = [cur EXCEPT ![t] = 0]
  /\ Goto(t, "pump")
  /\ UNCHANGED <<pendingVram, vram, queue, jobVars, execVars,
                 pool, size, exec, repend, stack>>

-----------------------------------------------------------------------------
(* _pump_queue(pool[t]).                                                   *)

(* Return, normally or by an exception a done callback swallows: to the    *)
(* pump frame below, or to whatever the thread was doing before.           *)
PumpReturn(t) ==
  IF stack[t] # <<>>
  THEN /\ stack' = [stack EXCEPT ![t] = Tail(@)]
       /\ size' = [size EXCEPT ![t] = Head(stack[t])]
       /\ Goto(t, "pumpCount")
  ELSE /\ Goto(t, IF t \in Jobs THEN "dispatched"
                  ELSE IF t = Config /\ pool[t] = "cpu" THEN "pumpGpu"
                  ELSE "idle")
       /\ UNCHANGED <<stack, size>>

PumpEnter(t) ==
  /\ At(t, "pump")
  /\ \/ /\ poolExec[pool[t]] = Absent
        /\ PumpReturn(t)
     \/ /\ poolExec[pool[t]] # Absent
        /\ size' = [size EXCEPT ![t] = exSize[poolExec[pool[t]]]]
        /\ Goto(t, "pumpCount")
        /\ UNCHANGED stack
  /\ UNCHANGED <<ledgerVars, vram, queue, jobVars, execVars,
                 cur, pool, exec, repend>>

PumpCount(t) ==
  /\ At(t, "pumpCount")
  /\ \/ /\ Cardinality(Active(pool[t])) >= size[t]
        /\ PumpReturn(t)
     \/ /\ Cardinality(Active(pool[t])) < size[t]
        /\ Goto(t, "pumpPop")
        /\ UNCHANGED <<size, stack>>
  /\ UNCHANGED <<ledgerVars, vram, queue, jobVars, execVars,
                 cur, pool, exec, repend>>

(* The count raises: the callback's pump is abandoned, or resize_pools is. *)
PumpCountRaises(t) ==
  /\ At(t, "pumpCount")
  /\ CountRaces(t)
  /\ \/ /\ t = Config /\ stack[t] = <<>>
        /\ Goto(t, "idle")
        /\ UNCHANGED <<size, stack>>
     \/ /\ ~(t = Config /\ stack[t] = <<>>)
        /\ PumpReturn(t)
  /\ UNCHANGED <<ledgerVars, vram, queue, jobVars, execVars,
                 cur, pool, exec, repend>>

PeekHead(p) == queue' = queue            \* slip: reads [0], pops later
TakeHead(p) == queue' = [queue EXCEPT ![p] = Tail(@)]

PumpPop(t) ==
  LET p == pool[t] IN
  /\ At(t, "pumpPop")
  /\ \/ /\ queue[p] = <<>>
        /\ PumpReturn(t)
        /\ UNCHANGED <<queue, cur>>
     \/ /\ queue[p] # <<>>
        /\ TakeHead(p)
        /\ cur' = [cur EXCEPT ![t] = Head(queue[p])]
        /\ Goto(t, "pumpGate")
        /\ UNCHANGED <<size, stack>>
  /\ UNCHANGED <<ledgerVars, vram, jobVars, execVars, pool, exec, repend>>

(* A job the VRAM gate parked passes it now, or goes back to the front.    *)
PumpGate(t) ==
  LET j == cur[t] IN
  /\ At(t, "pumpGate")
  /\ \/ /\ j \in pendingVram /\ ~HasRoom(j)
        /\ Goto(t, "pumpBack")
        /\ UNCHANGED <<used, pendingVram, repend>>
     \/ /\ j \in pendingVram /\ HasRoom(j)
        /\ AllocateVram(j)
        /\ pendingVram' = pendingVram \ {j}
        /\ repend' = [repend EXCEPT ![t] = TRUE]
        /\ Goto(t, "dispatch")
     \/ /\ j \notin pendingVram
        /\ repend' = [repend EXCEPT ![t] = FALSE]
        /\ Goto(t, "dispatch")
        /\ UNCHANGED <<used, pendingVram>>
  /\ UNCHANGED <<jobVram, vram, queue, jobVars, execVars,
                 cur, pool, size, exec, stack>>

PushFront(t) ==
  /\ queue' = [queue EXCEPT ![pool[t]] = Cons(cur[t], @)]
  /\ cur' = [cur EXCEPT ![t] = 0]

PumpBack(t) ==
  /\ At(t, "pumpBack")
  /\ PushFront(t)
  /\ PumpReturn(t)
  /\ UNCHANGED <<ledgerVars, vram, jobVars, execVars, pool, exec, repend>>

(* The dispatch raised: the job goes back to the front; what it allocated  *)
(* is neither released nor remembered.                                     *)
PumpFail(t) ==
  /\ At(t, "pumpFail")
  /\ PushFront(t)
  /\ pendingVram' = IF repend[t] THEN pendingVram \cup {cur[t]} ELSE pendingVram
  /\ PumpReturn(t)
  /\ UNCHANGED <<used, jobVram, vram, jobVars, execVars, pool, exec, repend>>

-----------------------------------------------------------------------------
(* resize_pools, run by the thread of PUT /execution.                      *)

NewExecutor(p, n) ==
  /\ nExec' = nExec + 1
  /\ poolExec' = [poolExec EXCEPT ![p] = nExec + 1]
  /\ exSize' = [exSize EXCEPT ![nExec + 1] = n]
  /\ exState' = [exState EXCEPT ![nExec + 1] = "open"]

(* The request is saved in the settings before the pools are resized.      *)
UpdateExecution(c, g, on) ==
  /\ At(Config, "idle")
  /\ nExec + 2 <= MaxExec
  /\ request' = [cpu |-> c, gpu |-> g, on |-> on, old |-> Absent]
  /\ Goto(Config, "swapCpu")
  /\ UNCHANGED <<ledgerVars, vram, queue, jobVars, poolExec, exSize, exState,
                 nExec, crashes, frameVars>>

SwapCpu ==
  /\ At(Config, "swapCpu")
  /\ \/ /\ exSize[poolExec["cpu"]] = request.cpu
        /\ Goto(Config, "swapGpu")
        /\ UNCHANGED <<poolExec, exSize, exState, nExec, request>>
     \/ /\ exSize[poolExec["cpu"]] # request.cpu
        /\ NewExecutor("cpu", request.cpu)
        /\ request' = [request EXCEPT !.old = poolExec["cpu"]]
        /\ Goto(Config, "retireCpu")
  /\ UNCHANGED <<ledgerVars, vram, queue, jobVars, crashes, frameVars>>

(* old.shutdown(wait=False, cancel_futures=False): its jobs run on.        *)
Retire ==
  exState' = [exState EXCEPT ![request.old] = IF @ = "open" THEN "retired" ELSE @]

RetireCpu ==
  /\ At(Config, "retireCpu")
  /\ Retire
  /\ Goto(Config, "swapGpu")
  /\ UNCHANGED <<ledgerVars, vram, queue, jobVars, poolExec, exSize, nExec,
                 crashes, request, frameVars>>

SwapGpu ==
  LET e == poolExec["gpu"]
      n == IF e = Absent THEN 0 ELSE exSize[e]
  IN
  /\ At(Config, "swapGpu")
  /\ \/ /\ request.on /\ n # request.gpu
        /\ NewExecutor("gpu", request.gpu)
        /\ Goto(Config, IF e = Absent THEN "pumpCpu" ELSE "retireGpu")
     \/ /\ request.on /\ n = request.gpu
        /\ Goto(Config, "pumpCpu")
        /\ UNCHANGED <<poolExec, exSize, exState, nExec>>
     \/ /\ ~request.on
        /\ Goto(Config, IF e = Absent THEN "pumpCpu" ELSE "retireGpu")
        /\ UNCHANGED <<poolExec, exSize, exState, nExec>>
  /\ request' = [request EXCEPT !.old = e]
  /\ UNCHANGED <<ledgerVars, vram, queue, jobVars, crashes, frameVars>>

(* A disabled pool is shut down before its attribute is set to None.       *)
RetireGpu ==
  /\ At(Config, "retireGpu")
  /\ Retire
  /\ Goto(Config, IF request.on THEN "pumpCpu" ELSE "dropGpu")
  /\ UNCHANGED <<ledgerVars, vram, queue, jobVars, poolExec, exSize, nExec,
                 crashes, request, frameVars>>

DropGpu ==
  /\ At(Config, "dropGpu")
  /\ poolExec' = [poolExec EXCEPT !["gpu"] = Absent]
  /\ Goto(Config, "pumpCpu")
  /\ UNCHANGED <<ledgerVars, vram, queue, jobVars, exSize, exState, nExec,
                 crashes, request, frameVars>>

(* resize_pools ends by pumping the CPU queue, then the GPU queue.         *)
PumpBoth ==
  /\ \/ /\ At(Config, "pumpCpu")
        /\ pool' = [pool EXCEPT ![Config] = "cpu"]
     \/ /\ At(Config, "pumpGpu")
        /\ pool' = [pool EXCEPT ![Config] = "gpu"]
  /\ Goto(Config, "pump")
  /\ UNCHANGED <<ledgerVars, vram, queue, jobVars, execVars,
                 cur, size, exec, repend, stack>>

-----------------------------------------------------------------------------
(* The rest of the program, and the workers.                               *)

Submit(j) ==
  /\ At(j, "new")
  /\ vram' = [vram EXCEPT ![j] = IF j \in GpuJobs THEN Budget ELSE 0]
  /\ Goto(j, "select")
  /\ UNCHANGED <<ledgerVars, queue, jobVars, execVars, frameVars>>

(* Slip: no look for an entry, so that a queued job can be cancelled.      *)
CancelUnchecked(j) ==
  /\ cancel[j] # "set"
  /\ cancel' = [cancel EXCEPT ![j] = "set"]
  /\ UNCHANGED <<ledgerVars, vram, queue, jobPool, future, onExec, hooked,
                 execVars, pc, frameVars>>

(* request_cancellation: refused (FALSE) unless the job has an entry.      *)
RequestCancellation(j) ==
  /\ cancel[j] = "clear"
  /\ cancel' = [cancel EXCEPT ![j] = "set"]
  /\ UNCHANGED <<ledgerVars, vram, queue, jobPool, future, onExec, hooked,
                 execVars, pc, frameVars>>

(* The worker returns or raises: the future is done either way.            *)
WorkerDone(j) ==
  /\ future[j] = "live"
  /\ future' = [future EXCEPT ![j] = "done"]
  /\ UNCHANGED <<ledgerVars, vram, queue, jobPool, cancel, onExec, hooked,
                 execVars, pc, frameVars>>

(* A worker process dies: the executor breaks and all its futures fail.    *)
WorkerDies(j) ==
  LET e == onExec[j] IN
  /\ future[j] = "live"
  /\ crashes < MaxCrash
  /\ crashes' = crashes + 1
  /\ exState' = [exState EXCEPT ![e] = "broken"]
  /\ future' = [k \in Jobs |-> IF future[k] = "live" /\ onExec[k] = e
                               THEN "done" ELSE future[k]]
  /\ UNCHANGED <<ledgerVars, vram, queue, jobPool, cancel, onExec, hooked,
                 poolExec, exSize, nExec, request, pc, frameVars>>

ThreadStep(t) ==
  \/ Dispatch(t)
  \/ PoolSubmit(t)
  \/ Register(t)
  \/ InlineCallback(t)
  \/ CallbackRelease(t)
  \/ PumpEnter(t)
  \/ PumpCount(t)
  \/ PumpCountRaises(t)
  \/ PumpPop(t)
  \/ PumpGate(t)
  \/ PumpBack(t)
  \/ PumpFail(t)

SubmitterStep(j) ==
  \/ SelectPool(j)
  \/ VramGate(j)
  \/ Park(j)
  \/ CountSlots(j)
  \/ Enqueue(j)

ConfigStep == SwapCpu \/ RetireCpu \/ SwapGpu \/ RetireGpu \/ DropGpu \/ PumpBoth

(* What the manager does once it has been called.                          *)
ManagerStep ==
  \/ \E t \in Threads : ThreadStep(t)
  \/ \E j \in Jobs : SubmitterStep(j)
  \/ \E e \in Managers, j \in Jobs : BeginCallback(e, j)
  \/ ConfigStep
  \/ \E j \in Jobs : WorkerDone(j) \/ WorkerDies(j)

Requests ==
  \/ \E j \in Jobs : RequestCancellation(j)
  \/ \E c, g \in NewSizes, on \in BOOLEAN : UpdateExecution(c, g, on)

Next == ManagerStep \/ Requests \/ \E j \in Jobs : Submit(j)

Spec == Init /\ [][Next]_vars

(* The operating system runs every thread, and every backtest ends.        *)
Fairness ==
  /\ \A t \in Threads : WF_vars(ThreadStep(t))
  /\ \A j \in Jobs : WF_vars(SubmitterStep(j)) /\ WF_vars(WorkerDone(j))
  /\ \A e \in Managers : WF_vars(\E j \in Jobs : BeginCallback(e, j))
  /\ WF_vars(ConfigStep)

FairSpec == Spec /\ Fairness

-----------------------------------------------------------------------------
(* Where a job is.                                                         *)

SubmitLabels == {"new", "select", "gate", "park", "count", "enqueue"}
FrameLabels  == {"dispatch", "submit", "register", "callback", "cbRelease"}
PumpLabels   == {"pumpGate", "pumpBack", "pumpFail"}
RestLabels   == {"idle", "queued", "dispatched", "raised", "failed",
                 "pump", "pumpCount", "pumpPop", "pumpCpu", "pumpGpu",
                 "swapCpu", "retireCpu", "swapGpu", "retireGpu", "dropGpu"}

Labels == SubmitLabels \cup FrameLabels \cup PumpLabels \cup RestLabels

(* Thread t has the job of its frame in hand.                              *)
Holds(t) == pc[t] \in SubmitLabels \cup FrameLabels \cup PumpLabels

Queued(j) == \E p \in Pools : j \in ToSet(queue[p])

-----------------------------------------------------------------------------
(* Properties.                                                             *)

TypeOK ==
  /\ used \in Nat
  /\ vram \in [Jobs -> {0, Budget}]
  /\ jobVram \subseteq Jobs
  /\ pendingVram \subseteq Jobs
  /\ queue \in [Pools -> Seq(Jobs)]
  /\ jobPool \in [Jobs -> Pools \cup {"none"}]
  /\ cancel \in [Jobs -> {"absent", "clear", "set"}]
  /\ future \in [Jobs -> {"none", "live", "done"}]
  /\ onExec \in [Jobs -> 0..MaxExec]
  /\ hooked \subseteq Jobs
  /\ poolExec \in [Pools -> 0..MaxExec]
  /\ exSize \in [Managers -> Nat]
  /\ exState \in [Managers -> {"absent", "open", "retired", "broken"}]
  /\ nExec \in 2..MaxExec
  /\ crashes \in 0..MaxCrash
  /\ request \in [cpu : Nat, gpu : Nat, on : BOOLEAN, old : 0..MaxExec]
  /\ pc \in [Threads -> Labels]
  /\ cur \in [Threads -> Jobs \cup {0}]
  /\ pool \in [Threads -> Pools]
  /\ size \in [Threads -> Nat]
  /\ exec \in [Threads -> 0..MaxExec]
  /\ repend \in [Threads -> BOOLEAN]
  /\ stack \in [Threads -> Seq(Nat)]

(* The ledger never exceeds the memory of the card, whatever threads       *)
(* allocate and release (allocate_vram).                                   *)
LedgerWithinTotal == used <= TotalVram

(* A job is in one place: no two threads have it in hand, it waits at most *)
(* once in at most one queue, and a job in hand or started does not wait.  *)
OnePlace ==
  /\ \A t, u \in Threads : Holds(t) /\ Holds(u) /\ cur[t] = cur[u] => t = u
  /\ \A p \in Pools : IsInjective(queue[p])
  /\ ToSet(queue["cpu"]) \cap ToSet(queue["gpu"]) = {}
  /\ \A t \in Threads : Holds(t) => ~Queued(cur[t])
  /\ \A j \in Jobs : future[j] # "none" => ~Queued(j)

(* Why OnePlace is inductive: a job in hand is a real job, is in its own   *)
(* thread until it is queued or dispatched, and has no future before it is *)
(* submitted to a pool; a job whose callback is attached is in no hand.    *)
Placement ==
  /\ OnePlace
  /\ \A t \in Threads : Holds(t) =>
       /\ cur[t] \in Jobs
       /\ pc[t] \in SubmitLabels => t \in Jobs /\ cur[t] = t
       /\ future[cur[t]] # "none" <=> pc[t] \in {"register", "callback", "cbRelease"}
       /\ cur[t] \notin hooked
  /\ \A j \in hooked : future[j] # "none" /\ jobPool[j] \in Pools

(* The CPU pool is always there, and a resize has executors left to make.  *)
PoolsOK ==
  /\ poolExec["cpu"] # Absent
  /\ pc[Config] = "swapCpu" => nExec + 2 <= MaxExec
  /\ pc[Config] \in {"retireCpu", "swapGpu"} => nExec + 1 <= MaxExec

IInv == TypeOK /\ Placement /\ PoolsOK

(* A job is handed to an executor at most once, whatever queueing, pumping *)
(* by several callbacks, resizing and failed dispatches it goes through.   *)
StartedOnce ==
  [][\A j \in Jobs : future'[j] = "live" /\ future[j] # "live"
                       => future[j] = "none"]_vars

(* A running job is in the books: shutdown finds it in _active_futures (or *)
(* its dispatcher is about to enter it), its cancel flag exists, and the   *)
(* memory its callback has to release is noted.                            *)
LiveIsTracked ==
  \A j \in Jobs : future[j] = "live" =>
    /\ \/ jobPool[j] # "none" /\ j \in hooked
       \/ \E t \in Threads : pc[t] = "register" /\ cur[t] = j
    /\ cancel[j] # "absent"
    /\ vram[j] > 0 => j \in jobVram

(* The jobs that have passed the VRAM gate and not released their memory.  *)
GrantHolders ==
  {j \in Jobs : vram[j] > 0 /\ j \notin pendingVram /\
     \/ j \in jobVram
     \/ Queued(j)
     \/ pc[j] \in {"count", "enqueue", "raised"}
     \/ \E t \in Threads : cur[t] = j /\ pc[t] \in {"pumpGate", "dispatch"}}

(* The ledger is exactly the budgets of the jobs that hold a grant: no     *)
(* interleaving of gate, queue, pump and callback loses or forgets memory. *)
LedgerExact == used = Budget * Cardinality(GrantHolders)

(* The running jobs that use the card fit in it together (the gate of      *)
(* submit_or_queue and _pump_queue against the release of _done_callback). *)
GpuFits == Budget * Cardinality({j \in Jobs : future[j] = "live" /\ vram[j] > 0})
             <= TotalVram

(* Nothing runs, nothing waits, and no thread is about to do anything.     *)
AtRest ==
  /\ \A t \in Threads : pc[t] \in {"new", "idle", "queued", "dispatched",
                                  "raised", "failed"}
  /\ \A j \in Jobs : future[j] # "live"
  /\ hooked = {}

(* "Pull next job from pending queue and dispatch if a slot is free": no   *)
(* job waits in a queue while nothing runs (_pump_queue).                  *)
NobodyWaitsAtRest == AtRest => \A j \in Jobs : ~Queued(j)

(* A cancellation that request_cancellation accepted stays set until the   *)
(* done callback drops it: no step clears it under the worker.             *)
CancelSticks ==
  [][\A j \in Jobs : cancel[j] = "set" => cancel'[j] # "clear"]_vars

(* Every started job leaves the books and gives its memory back, whether   *)
(* its worker returns, raises or dies (_done_callback).                    *)
CallbackReleases ==
  \A j \in Jobs : future[j] = "live" ~>
    future[j] = "done" /\ jobPool[j] = "none" /\ j \notin jobVram
=============================================================================
