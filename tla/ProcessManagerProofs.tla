------------------------ MODULE ProcessManagerProofs ------------------------
(***************************************************************************)
(* Proofs about ProcessManager, for any number of jobs, threads, pool      *)
(* sizes and budgets, with resizing and worker deaths.                     *)
(***************************************************************************)
EXTENDS ProcessManager, SequenceTheorems, TLAPS

-----------------------------------------------------------------------------
(* The deque operations of _PendingQueue on a sequence without repetition. *)

(* append: the new job is the only new element.                            *)
LEMMA AppendPlace ==
  ASSUME NEW S, NEW s \in Seq(S), NEW x \in S
  PROVE  /\ Append(s, x) \in Seq(S)
         /\ ToSet(Append(s, x)) = ToSet(s) \cup {x}
         /\ IsInjective(s) /\ x \notin ToSet(s) => IsInjective(Append(s, x))
BY AppendProperties DEF ToSet, IsInjective

(* appendleft: likewise at the other end.                                  *)
LEMMA ConsPlace ==
  ASSUME NEW S, NEW s \in Seq(S), NEW x \in S
  PROVE  /\ Cons(x, s) \in Seq(S)
         /\ ToSet(Cons(x, s)) = ToSet(s) \cup {x}
         /\ IsInjective(s) /\ x \notin ToSet(s) => IsInjective(Cons(x, s))
<1>1. /\ Cons(x, s) \in Seq(S)
      /\ Len(Cons(x, s)) = Len(s) + 1
      /\ \A i \in 1..Len(s)+1 : Cons(x, s)[i] = IF i = 1 THEN x ELSE s[i-1]
  BY ConcatProperties DEF Cons
<1>2. /\ DOMAIN Cons(x, s) = 1..Len(s)+1 /\ DOMAIN s = 1..Len(s)
      /\ Cons(x, s)[1] = x
      /\ \A i \in 1..Len(s) : i+1 \in 1..Len(s)+1 /\ Cons(x, s)[i+1] = s[i]
      /\ \A i \in 1..Len(s)+1 : i # 1 => i-1 \in 1..Len(s)
  BY <1>1
<1>3. ToSet(Cons(x, s)) = ToSet(s) \cup {x}
  <2>1. \A y \in ToSet(s) : y \in ToSet(Cons(x, s))
    BY <1>2 DEF ToSet
  <2>2. x \in ToSet(Cons(x, s))
    BY <1>2 DEF ToSet
  <2>3. \A y \in ToSet(Cons(x, s)) : y = x \/ y \in ToSet(s)
    BY <1>1, <1>2 DEF ToSet
  <2>4. QED
    BY <2>1, <2>2, <2>3
<1>4. ASSUME IsInjective(s), x \notin ToSet(s)
      PROVE  IsInjective(Cons(x, s))
  <2> SUFFICES ASSUME NEW i \in 1..Len(s)+1, NEW k \in 1..Len(s)+1,
                      Cons(x, s)[i] = Cons(x, s)[k]
               PROVE  i = k
    BY <1>2 DEF IsInjective
  <2>1. \A m \in 1..Len(s)+1 : m # 1 => Cons(x, s)[m] = s[m-1] /\ s[m-1] \in ToSet(s)
    BY <1>1, <1>2 DEF ToSet
  <2>2. CASE i = 1 \/ k = 1
    BY <1>2, <1>4, <2>1, <2>2
  <2>3. CASE i # 1 /\ k # 1
    <3>1. s[i-1] = s[k-1]
      BY <2>1, <2>3
    <3>2. i-1 = k-1
      BY <1>2, <1>4, <2>3, <3>1 DEF IsInjective
    <3>3. QED
      BY <3>2
  <2>4. QED
    BY <2>2, <2>3
<1>5. QED
  BY <1>1, <1>3, <1>4

(* popleft: the head leaves, and only the head.                            *)
LEMMA TailPlace ==
  ASSUME NEW S, NEW s \in Seq(S), s # <<>>
  PROVE  /\ Head(s) \in S /\ Tail(s) \in Seq(S)
         /\ Head(s) \in ToSet(s)
         /\ ToSet(Tail(s)) \subseteq ToSet(s)
         /\ IsInjective(s) => IsInjective(Tail(s)) /\ Head(s) \notin ToSet(Tail(s))
<1>1. /\ Head(s) \in S /\ Tail(s) \in Seq(S)
      /\ Len(s) > 0 /\ Len(Tail(s)) = Len(s) - 1
      /\ Head(s) = s[1]
      /\ \A i \in 1..Len(Tail(s)) : Tail(s)[i] = s[i+1]
  BY HeadTailProperties, EmptySeq
<1>2. QED
  BY <1>1 DEF ToSet, IsInjective

-----------------------------------------------------------------------------
(* Types.                                                                  *)

LEMMA ConstFacts ==
  /\ Config \in Threads /\ Jobs \subseteq Threads /\ Managers \subseteq Threads
  /\ Config \notin Managers /\ Config \notin Jobs /\ Absent \notin Managers
  /\ Jobs \cap Managers = {} /\ 0 \notin Jobs
  /\ 0..MaxExec = Managers \cup {Absent}
  /\ Managers \subseteq Nat
BY ProcessManagerAssumption DEF Config, Threads, Managers, Absent

(* Every step of a request thread in submit_or_queue keeps the types.      *)
LEMMA SubmitterTypes ==
  ASSUME IInv, NEW j \in Jobs, SubmitterStep(j)
  PROVE  TypeOK'
<1> USE ConstFacts, ProcessManagerAssumption
      DEF At, Goto, ledgerVars, jobVars, execVars, frameVars,
          Labels, SubmitLabels, FrameLabels, PumpLabels, RestLabels, Pools
<1>1. CASE SelectPool(j)
  <2>1. \A p \in Pools : poolExec[p] # Absent => exSize[poolExec[p]] \in Nat
    BY DEF IInv, TypeOK
  <2>2. QED
    BY <1>1, <2>1 DEF SelectPool, IInv, TypeOK, PoolsOK
<1>2. CASE VramGate(j)
  BY <1>2 DEF VramGate, AllocateVram, IInv, TypeOK
<1>3. CASE Park(j)
  BY <1>3, AppendPlace DEF Park, IInv, TypeOK
<1>4. CASE CountSlots(j)
  BY <1>4 DEF CountSlots, IInv, TypeOK
<1>5. CASE Enqueue(j)
  BY <1>5, AppendPlace DEF Enqueue, IInv, TypeOK
<1>6. QED
  BY <1>1, <1>2, <1>3, <1>4, <1>5 DEF SubmitterStep

(* Every step of a thread in _dispatch_to_pool, _done_callback or          *)
(* _pump_queue keeps the types.                                            *)
LEMMA ReturnTypes ==
  ASSUME TypeOK, NEW t \in Threads, PumpReturn(t)
  PROVE  /\ stack' \in [Threads -> Seq(Nat)]
         /\ size' \in [Threads -> Nat]
         /\ pc' \in [Threads -> Labels]
<1>1. pc' \in [Threads -> Labels]
  <2>1. \E l \in Labels : Goto(t, l)
    BY DEF PumpReturn, Labels, RestLabels
  <2>2. QED
    BY <2>1 DEF TypeOK, Goto
<1>2. CASE stack[t] # <<>>
  <2>1. stack[t] \in Seq(Nat)
    BY DEF TypeOK
  <2>2. Head(stack[t]) \in Nat /\ Tail(stack[t]) \in Seq(Nat)
    BY <1>2, <2>1, TailPlace
  <2>3. /\ stack' = [stack EXCEPT ![t] = Tail(stack[t])]
        /\ size' = [size EXCEPT ![t] = Head(stack[t])]
    BY <1>2 DEF PumpReturn
  <2>4. stack' \in [Threads -> Seq(Nat)]
    BY <2>2, <2>3 DEF TypeOK
  <2>5. size' \in [Threads -> Nat]
    BY <2>2, <2>3 DEF TypeOK
  <2>6. QED
    BY <1>1, <2>4, <2>5
<1>3. CASE stack[t] = <<>>
  BY <1>1, <1>3 DEF PumpReturn, TypeOK
<1>4. QED
  BY <1>2, <1>3

LEMMA ThreadTypes ==
  ASSUME IInv, NEW t \in Threads, ThreadStep(t)
  PROVE  TypeOK'
<1> USE DEF At, ledgerVars, jobVars, execVars, frameVars
<1>a. TypeOK
  BY DEF IInv
<1>b. pc[t] \in FrameLabels \cup PumpLabels => cur[t] \in Jobs
  BY DEF IInv, Placement, Holds
<1>d. pc[t] \in FrameLabels \cup PumpLabels => vram[cur[t]] \in Nat
  <2> SUFFICES ASSUME pc[t] \in FrameLabels \cup PumpLabels
               PROVE  vram[cur[t]] \in Nat
    OBVIOUS
  <2>1. vram[cur[t]] \in {0, Budget}
    BY <1>a, <1>b DEF TypeOK
  <2>2. QED
    BY <2>1, ProcessManagerAssumption
<1>c. pc' \in [Threads -> Labels]
  <2>1. ASSUME NEW l \in Labels, Goto(t, l)
        PROVE  pc' \in [Threads -> Labels]
    BY <1>a, <2>1 DEF Goto, TypeOK
  <2>2. CASE PumpReturn(t)
    BY <1>a, <2>2, ReturnTypes
  <2>3. \/ PumpReturn(t)
        \/ \E l \in Labels : Goto(t, l)
    BY DEF ThreadStep, Dispatch, PoolSubmit, Register, InlineCallback,
           CallbackRelease, PumpEnter, PumpCount, PumpCountRaises, PumpPop,
           PumpGate, PumpBack, PumpFail, Labels, FrameLabels, PumpLabels,
           RestLabels
  <2>4. QED
    BY <2>1, <2>2, <2>3
<1>1. CASE Dispatch(t)
  BY <1>a, <1>b, <1>c, <1>1 DEF Dispatch, NoteVram, TypeOK, FrameLabels
<1>2. CASE PoolSubmit(t)
  <2>1. /\ future' \in [Jobs -> {"none", "live", "done"}]
        /\ onExec' \in [Jobs -> 0..MaxExec]
    <3>1. \/ future' = future /\ onExec' = onExec
          \/ /\ future' = [future EXCEPT ![cur[t]] = "live"]
             /\ onExec' = [onExec EXCEPT ![cur[t]] = exec[t]]
      BY <1>2 DEF PoolSubmit
    <3>2. exec[t] \in 0..MaxExec
      BY <1>a DEF TypeOK
    <3>3. QED
      BY <1>a, <3>1, <3>2 DEF TypeOK
  <2>2. QED
    BY <1>a, <1>c, <1>2, <2>1 DEF PoolSubmit, TypeOK
<1>3. CASE Register(t)
  <2>1. stack' \in [Threads -> Seq(Nat)]
    <3>1. Cons(size[t], stack[t]) \in Seq(Nat)
      BY <1>a, ConsPlace DEF TypeOK
    <3>2. \/ stack' = [stack EXCEPT ![t] = Cons(size[t], stack[t])]
          \/ stack' = stack
      BY <1>3 DEF Register
    <3>3. QED
      BY <1>a, <3>1, <3>2 DEF TypeOK
  <2>2. QED
    BY <1>a, <1>b, <1>c, <1>3, <2>1 DEF Register, TypeOK, FrameLabels
<1>4. CASE InlineCallback(t)
  BY <1>a, <1>b, <1>c, <1>4 DEF InlineCallback, DropEntries, TypeOK, FrameLabels, Pools
<1>5. CASE CallbackRelease(t)
  <2>1. used' \in Nat
    <3>1. vram[cur[t]] \in Nat
      BY <1>d, <1>5 DEF CallbackRelease, FrameLabels
    <3>2. QED
      BY <1>a, <1>5, <3>1 DEF CallbackRelease, ReleaseVram, TypeOK
  <2>2. QED
    BY <1>a, <1>c, <1>5, <2>1 DEF CallbackRelease, ForgetVram, TypeOK
<1>6. CASE PumpEnter(t)
  <2>1. poolExec[pool[t]] # Absent => exSize[poolExec[pool[t]]] \in Nat
    BY <1>a, ConstFacts DEF TypeOK
  <2>2. size' \in [Threads -> Nat] /\ stack' \in [Threads -> Seq(Nat)]
    BY <1>a, <1>6, <2>1, ReturnTypes DEF PumpEnter, TypeOK
  <2>3. QED
    BY <1>a, <1>c, <1>6, <2>2 DEF PumpEnter, TypeOK
<1>7. CASE PumpCount(t)
  BY <1>a, <1>c, <1>7, ReturnTypes DEF PumpCount, TypeOK
<1>8. CASE PumpCountRaises(t)
  BY <1>a, <1>c, <1>8, ReturnTypes DEF PumpCountRaises, TypeOK
<1>9. CASE PumpPop(t)
  <2>1. size' \in [Threads -> Nat] /\ stack' \in [Threads -> Seq(Nat)]
    BY <1>a, <1>9, ReturnTypes DEF PumpPop, TypeOK
  <2>2. queue' \in [Pools -> Seq(Jobs)] /\ cur' \in [Threads -> Jobs \cup {0}]
    <3>1. pool[t] \in Pools /\ queue[pool[t]] \in Seq(Jobs)
      BY <1>a DEF TypeOK
    <3>2. queue[pool[t]] # <<>> =>
            Head(queue[pool[t]]) \in Jobs /\ Tail(queue[pool[t]]) \in Seq(Jobs)
      BY <3>1, TailPlace
    <3>3. \/ queue' = queue /\ cur' = cur
          \/ /\ queue[pool[t]] # <<>>
             /\ queue' = [queue EXCEPT ![pool[t]] = Tail(queue[pool[t]])]
             /\ cur' = [cur EXCEPT ![t] = Head(queue[pool[t]])]
      BY <1>9 DEF PumpPop, TakeHead
    <3>4. queue' \in [Pools -> Seq(Jobs)]
      BY <1>a, <3>2, <3>3 DEF TypeOK
    <3>5. cur' \in [Threads -> Jobs \cup {0}]
      BY <1>a, <3>2, <3>3 DEF TypeOK
    <3>6. QED
      BY <3>4, <3>5
  <2>3. QED
    BY <1>a, <1>c, <1>9, <2>1, <2>2 DEF PumpPop, TypeOK
<1>10. CASE PumpGate(t)
  <2>1. used' \in Nat
    <3>1. used' = used \/ used' = used + vram[cur[t]]
      BY <1>10 DEF PumpGate, AllocateVram
    <3>2. vram[cur[t]] \in Nat
      BY <1>d, <1>10 DEF PumpGate, PumpLabels
    <3>3. QED
      BY <1>a, <3>1, <3>2 DEF TypeOK
  <2>2. QED
    BY <1>a, <1>c, <1>10, <2>1 DEF PumpGate, TypeOK
<1>11. CASE PumpBack(t)
  BY <1>a, <1>b, <1>c, <1>11, ReturnTypes, ConsPlace
     DEF PumpBack, PushFront, TypeOK, PumpLabels
<1>12. CASE PumpFail(t)
  BY <1>a, <1>b, <1>c, <1>12, ReturnTypes, ConsPlace
     DEF PumpFail, PushFront, TypeOK, PumpLabels
<1>13. QED
  BY <1>1, <1>2, <1>3, <1>4, <1>5, <1>6, <1>7, <1>8, <1>9, <1>10, <1>11,
     <1>12 DEF ThreadStep

(* resize_pools, a finished callback's successor, the requests and the     *)
(* workers keep the types.                                                 *)
LEMMA ConfigTypes ==
  ASSUME IInv, ConfigStep
  PROVE  TypeOK'
<1> USE DEF At, ledgerVars, jobVars, execVars, frameVars
<1>a. TypeOK /\ PoolsOK
  BY DEF IInv
<1>c. pc' \in [Threads -> Labels]
  <2>1. \E l \in Labels : Goto(Config, l)
    BY DEF ConfigStep, SwapCpu, RetireCpu, SwapGpu, RetireGpu, DropGpu,
           PumpBoth, Labels, RestLabels
  <2>2. QED
    BY <1>a, <2>1 DEF Goto, TypeOK
<1>n. ASSUME NEW p \in Pools, NEW n \in Nat, nExec + 1 <= MaxExec,
             NewExecutor(p, n)
      PROVE  /\ nExec' \in 2..MaxExec
             /\ poolExec' \in [Pools -> 0..MaxExec]
             /\ exSize' \in [Managers -> Nat]
             /\ exState' \in [Managers -> {"absent", "open", "retired", "broken"}]
  <2>1. nExec + 1 \in 2..MaxExec /\ nExec + 1 \in 0..MaxExec
    BY <1>a, <1>n, ProcessManagerAssumption DEF TypeOK
  <2>2. QED
    BY <1>a, <1>n, <2>1 DEF NewExecutor, TypeOK
<1>r. ASSUME Retire
      PROVE  exState' \in [Managers -> {"absent", "open", "retired", "broken"}]
  BY <1>a, <1>r DEF Retire, TypeOK
<1>1. CASE SwapCpu
  <2>1. "cpu" \in Pools /\ poolExec["cpu"] \in 0..MaxExec /\ request.cpu \in Nat
        /\ nExec + 1 <= MaxExec
    BY <1>a, <1>1, ProcessManagerAssumption DEF TypeOK, PoolsOK, Pools, SwapCpu
  <2>2. \/ UNCHANGED <<nExec, poolExec, exSize, exState>>
        \/ NewExecutor("cpu", request.cpu)
    BY <1>1 DEF SwapCpu
  <2>3. request' \in [cpu : Nat, gpu : Nat, on : BOOLEAN, old : 0..MaxExec]
    BY <1>a, <1>1, <2>1 DEF SwapCpu, TypeOK
  <2>4. QED
    BY <1>a, <1>c, <1>n, <1>1, <2>1, <2>2, <2>3 DEF SwapCpu, TypeOK
<1>2. CASE RetireCpu
  BY <1>a, <1>c, <1>r, <1>2 DEF RetireCpu, TypeOK
<1>3. CASE SwapGpu
  <2>1. "gpu" \in Pools /\ poolExec["gpu"] \in 0..MaxExec /\ request.gpu \in Nat
        /\ nExec + 1 <= MaxExec
    BY <1>a, <1>3 DEF TypeOK, PoolsOK, Pools, SwapGpu
  <2>2. \/ UNCHANGED <<nExec, poolExec, exSize, exState>>
        \/ NewExecutor("gpu", request.gpu)
    BY <1>3 DEF SwapGpu
  <2>3. request' \in [cpu : Nat, gpu : Nat, on : BOOLEAN, old : 0..MaxExec]
    BY <1>a, <1>3, <2>1 DEF SwapGpu, TypeOK
  <2>4. QED
    BY <1>a, <1>c, <1>n, <1>3, <2>1, <2>2, <2>3 DEF SwapGpu, TypeOK
<1>4. CASE RetireGpu
  BY <1>a, <1>c, <1>r, <1>4 DEF RetireGpu, TypeOK
<1>5. CASE DropGpu
  BY <1>a, <1>c, <1>5, ConstFacts, ProcessManagerAssumption
     DEF DropGpu, TypeOK, Absent
<1>6. CASE PumpBoth
  BY <1>a, <1>c, <1>6 DEF PumpBoth, TypeOK, Pools
<1>7. QED
  BY <1>1, <1>2, <1>3, <1>4, <1>5, <1>6 DEF ConfigStep

LEMMA CallbackTypes ==
  ASSUME IInv, NEW e \in Managers, NEW j \in Jobs, BeginCallback(e, j)
  PROVE  TypeOK'
<1>1. TypeOK /\ e \in Threads /\ jobPool[j] \in Pools
  BY ConstFacts DEF IInv, Placement, BeginCallback
<1>2. "cbRelease" \in Labels
  BY DEF Labels, FrameLabels
<1>3. QED
  BY <1>1, <1>2 DEF BeginCallback, DropEntries, Goto, TypeOK, ledgerVars,
                    execVars

LEMMA WorkerTypes ==
  ASSUME IInv, NEW j \in Jobs, WorkerDone(j) \/ WorkerDies(j)
  PROVE  TypeOK'
<1> USE DEF ledgerVars, jobVars, execVars, frameVars
<1>1. TypeOK
  BY DEF IInv
<1>2. CASE WorkerDone(j)
  BY <1>1, <1>2 DEF WorkerDone, TypeOK
<1>3. CASE WorkerDies(j)
  <2>1. crashes' \in 0..MaxCrash
    BY <1>1, <1>3, ProcessManagerAssumption DEF WorkerDies, TypeOK
  <2>2. future' \in [Jobs -> {"none", "live", "done"}]
    BY <1>1, <1>3 DEF WorkerDies, TypeOK
  <2>3. exState' \in [Managers -> {"absent", "open", "retired", "broken"}]
    BY <1>1, <1>3 DEF WorkerDies, TypeOK
  <2>4. QED
    BY <1>1, <1>3, <2>1, <2>2, <2>3 DEF WorkerDies, TypeOK
<1>4. QED
  BY <1>2, <1>3

LEMMA RequestTypes ==
  ASSUME IInv, Requests
  PROVE  TypeOK'
<1> USE DEF ledgerVars, jobVars, execVars, frameVars
<1>1. TypeOK
  BY DEF IInv
<1>2. CASE \E j \in Jobs : RequestCancellation(j)
  BY <1>1, <1>2 DEF RequestCancellation, TypeOK
<1>3. ASSUME NEW c \in NewSizes, NEW g \in NewSizes, NEW on \in BOOLEAN,
             UpdateExecution(c, g, on)
      PROVE  TypeOK'
  <2>1. pc' \in [Threads -> Labels]
    BY <1>1, <1>3 DEF UpdateExecution, Goto, TypeOK, Labels, RestLabels
  <2>2. c \in Nat /\ g \in Nat /\ Absent \in 0..MaxExec
    BY ProcessManagerAssumption DEF Absent
  <2>3. request' \in [cpu : Nat, gpu : Nat, on : BOOLEAN, old : 0..MaxExec]
    BY <1>3, <2>2 DEF UpdateExecution
  <2>4. QED
    BY <1>1, <1>3, <2>1, <2>3 DEF UpdateExecution, TypeOK
<1>4. QED
  BY <1>2, <1>3 DEF Requests

LEMMA SubmitTypes ==
  ASSUME IInv, NEW j \in Jobs, Submit(j)
  PROVE  TypeOK'
<1>1. TypeOK
  BY DEF IInv
<1>2. pc' \in [Threads -> Labels]
  BY <1>1 DEF Submit, Goto, TypeOK, Labels, SubmitLabels
<1>3. vram' \in [Jobs -> {0, Budget}]
  BY <1>1 DEF Submit, TypeOK
<1>4. QED
  BY <1>1, <1>2, <1>3
     DEF Submit, TypeOK, ledgerVars, jobVars, execVars, frameVars

-----------------------------------------------------------------------------
(* Places.                                                                 *)

HeldLabels == SubmitLabels \cup FrameLabels \cup PumpLabels
Submitted  == {"register", "callback", "cbRelease"}
Unsubmitted == SubmitLabels \cup PumpLabels \cup {"dispatch", "submit"}

(* A move of one thread that keeps its job in hand, on the same side of    *)
(* pool.submit, or lets go of it, changes nobody's place.                  *)
LEMMA Moves ==
  ASSUME TypeOK, Placement, NEW t \in Threads, NEW l, Goto(t, l),
         UNCHANGED <<queue, future, hooked, cur>>,
         \A j \in hooked : jobPool'[j] = jobPool[j],
         \/ l \notin HeldLabels
         \/ pc[t] \in SubmitLabels /\ l \in SubmitLabels
         \/ pc[t] \in Unsubmitted /\ l \in Unsubmitted \ SubmitLabels
         \/ pc[t] \in Submitted /\ l \in Submitted
  PROVE  Placement'
<1>1. /\ pc' = [pc EXCEPT ![t] = l]
      /\ \A u \in Threads : pc'[u] = IF u = t THEN l ELSE pc[u]
  BY DEF Goto, TypeOK
<1>2. /\ Unsubmitted \cap Submitted = {}
      /\ HeldLabels = Unsubmitted \cup Submitted
      /\ SubmitLabels \subseteq Unsubmitted
      /\ SubmitLabels \cap Submitted = {}
  BY DEF Unsubmitted, Submitted, HeldLabels, SubmitLabels, FrameLabels, PumpLabels
<1>3. \A u \in Threads : Holds(u)' => Holds(u)
  BY <1>1, <1>2 DEF Holds, HeldLabels
<1>4. \A j \in Jobs : Queued(j)' <=> Queued(j)
  BY DEF Queued
<1>5. OnePlace'
  <2>1. \A u, v \in Threads : Holds(u)' /\ Holds(v)' /\ cur'[u] = cur'[v] => u = v
    BY <1>3 DEF Placement, OnePlace
  <2>2. /\ \A p \in Pools : IsInjective(queue'[p])
        /\ ToSet(queue'["cpu"]) \cap ToSet(queue'["gpu"]) = {}
    BY DEF Placement, OnePlace
  <2>3. \A u \in Threads : Holds(u)' => ~Queued(cur[u])'
    BY <1>3, <1>4 DEF Placement, OnePlace
  <2>4. \A j \in Jobs : future'[j] # "none" => ~Queued(j)'
    BY <1>4 DEF Placement, OnePlace
  <2>5. QED
    BY <2>1, <2>2, <2>3, <2>4 DEF OnePlace, Queued
<1>6. ASSUME NEW u \in Threads, Holds(u)'
      PROVE  /\ cur'[u] \in Jobs
             /\ pc'[u] \in SubmitLabels => u \in Jobs /\ cur'[u] = u
             /\ future'[cur'[u]] # "none" <=> pc'[u] \in Submitted
             /\ cur'[u] \notin hooked'
  <2>1. /\ cur[u] \in Jobs
        /\ pc[u] \in SubmitLabels => u \in Jobs /\ cur[u] = u
        /\ future[cur[u]] # "none" <=> pc[u] \in Submitted
        /\ cur[u] \notin hooked
    BY <1>3, <1>6 DEF Placement, Submitted
  <2>2. pc'[u] \in HeldLabels
    BY <1>6 DEF Holds, HeldLabels
  <2>3. CASE u # t
    BY <1>1, <2>1, <2>3
  <2>4. CASE u = t
    BY <1>1, <1>2, <2>1, <2>2, <2>4
  <2>5. QED
    BY <2>3, <2>4
<1>7. \A j \in hooked' : future'[j] # "none" /\ jobPool'[j] \in Pools
  BY DEF Placement
<1>8. QED
  BY <1>5, <1>6, <1>7 DEF Placement, Submitted

(* A thread puts the job it has in hand into a queue, at either end.       *)
LEMMA Waits ==
  ASSUME TypeOK, Placement,
         NEW t \in Threads, pc[t] \in Unsubmitted,
         NEW p \in Pools, NEW q \in Seq(Jobs),
         ToSet(q) = ToSet(queue[p]) \cup {cur[t]},
         IsInjective(queue[p]) /\ cur[t] \notin ToSet(queue[p]) => IsInjective(q),
         queue' = [queue EXCEPT ![p] = q],
         NEW l, l \notin HeldLabels, Goto(t, l),
         \A u \in Threads \ {t} : cur'[u] = cur[u],
         UNCHANGED <<future, hooked, jobPool>>
  PROVE  Placement'
<1>1. /\ \A u \in Threads : pc'[u] = IF u = t THEN l ELSE pc[u]
      /\ \A r \in Pools : queue'[r] = IF r = p THEN q ELSE queue[r]
  BY DEF Goto, TypeOK
<1>2. /\ Unsubmitted \subseteq HeldLabels
      /\ Unsubmitted \cap Submitted = {}
  BY DEF Unsubmitted, Submitted, HeldLabels, SubmitLabels, FrameLabels, PumpLabels
<1>3. Holds(t) /\ \A u \in Threads : Holds(u)' => u # t /\ Holds(u) /\ cur'[u] = cur[u]
  BY <1>1, <1>2 DEF Holds, HeldLabels
<1>4. /\ cur[t] \in Jobs /\ ~Queued(cur[t])
      /\ future[cur[t]] = "none"
      /\ \A u \in Threads : Holds(u)' => cur[u] # cur[t]
  BY <1>2, <1>3 DEF Placement, OnePlace, Submitted
<1>5. \A j \in Jobs : Queued(j)' <=> Queued(j) \/ j = cur[t]
  BY <1>1 DEF Queued
<1>6. /\ \A r \in Pools : IsInjective(queue'[r])
      /\ ToSet(queue'["cpu"]) \cap ToSet(queue'["gpu"]) = {}
  <2>1. \A r \in Pools : cur[t] \notin ToSet(queue[r])
    BY <1>4 DEF Queued
  <2>2. QED
    BY <1>1, <2>1 DEF Placement, OnePlace, Pools
<1>7. \A u, v \in Threads : Holds(u)' /\ Holds(v)' /\ cur'[u] = cur'[v] => u = v
  BY <1>3 DEF Placement, OnePlace
<1>8. ASSUME NEW u \in Threads, Holds(u)'
      PROVE  /\ ~Queued(cur[u])'
             /\ cur'[u] \in Jobs
             /\ pc'[u] \in SubmitLabels => u \in Jobs /\ cur'[u] = u
             /\ future'[cur'[u]] # "none" <=> pc'[u] \in Submitted
             /\ cur'[u] \notin hooked'
  <2>1. /\ u # t /\ Holds(u) /\ cur'[u] = cur[u] /\ pc'[u] = pc[u]
        /\ cur[u] # cur[t]
    BY <1>1, <1>3, <1>4, <1>8
  <2>2. /\ cur[u] \in Jobs /\ ~Queued(cur[u])
        /\ pc[u] \in SubmitLabels => u \in Jobs /\ cur[u] = u
        /\ future[cur[u]] # "none" <=> pc[u] \in Submitted
        /\ cur[u] \notin hooked
    BY <2>1 DEF Placement, OnePlace, Submitted
  <2>3. QED
    BY <1>5, <2>1, <2>2
<1>9. \A j \in Jobs : future'[j] # "none" => ~Queued(j)'
  BY <1>4, <1>5 DEF Placement, OnePlace
<1>10. \A j \in hooked' : future'[j] # "none" /\ jobPool'[j] \in Pools
  BY DEF Placement
<1>11. OnePlace'
  BY <1>6, <1>7, <1>8, <1>9 DEF OnePlace, Queued
<1>12. QED
  BY <1>8, <1>10, <1>11 DEF Placement, Submitted

(* A thread of a pump takes the first job of a queue into its hand.        *)
LEMMA Pops ==
  ASSUME TypeOK, Placement, NEW t \in Threads, ~Holds(t),
         NEW p \in Pools, queue[p] # <<>>,
         queue' = [queue EXCEPT ![p] = Tail(@)],
         cur' = [cur EXCEPT ![t] = Head(queue[p])],
         Goto(t, "pumpGate"),
         UNCHANGED <<future, hooked, jobPool>>
  PROVE  Placement'
<1> DEFINE j == Head(queue[p])
<1>0. /\ j \in Jobs /\ j \in ToSet(queue[p])
      /\ ToSet(Tail(queue[p])) \subseteq ToSet(queue[p])
      /\ IsInjective(Tail(queue[p])) /\ j \notin ToSet(Tail(queue[p]))
  BY TailPlace DEF TypeOK, Placement, OnePlace
<1>1. /\ \A u \in Threads : pc'[u] = IF u = t THEN "pumpGate" ELSE pc[u]
      /\ \A u \in Threads : cur'[u] = IF u = t THEN j ELSE cur[u]
      /\ \A r \in Pools : queue'[r] = IF r = p THEN Tail(queue[p]) ELSE queue[r]
  BY DEF Goto, TypeOK
<1>2. "pumpGate" \in HeldLabels \ SubmitLabels /\ "pumpGate" \notin Submitted
  BY DEF HeldLabels, PumpLabels, SubmitLabels, Submitted
<1>3. \A u \in Threads : Holds(u)' <=> u = t \/ Holds(u)
  BY <1>1, <1>2 DEF Holds, HeldLabels
<1>4. Queued(j) /\ future[j] = "none" /\ j \notin hooked
  <2>1. Queued(j)
    BY <1>0 DEF Queued
  <2>2. QED
    BY <1>0, <2>1 DEF Placement, OnePlace
<1>5. \A k \in Jobs : Queued(k)' => Queued(k) /\ k # j
  <2>1. \A r \in Pools \ {p} : j \notin ToSet(queue[r])
    BY <1>0 DEF Placement, OnePlace, Pools
  <2>2. QED
    BY <1>0, <1>1, <2>1 DEF Queued
<1>6. /\ \A r \in Pools : IsInjective(queue'[r])
      /\ ToSet(queue'["cpu"]) \cap ToSet(queue'["gpu"]) = {}
  BY <1>0, <1>1 DEF Placement, OnePlace, Pools
<1>7. \A u \in Threads : Holds(u) => cur[u] # j /\ cur[u] \in Jobs
  BY <1>4 DEF Placement, OnePlace
<1>8. \A u, v \in Threads : Holds(u)' /\ Holds(v)' /\ cur'[u] = cur'[v] => u = v
  BY <1>1, <1>3, <1>7 DEF Placement, OnePlace
<1>9. ASSUME NEW u \in Threads, Holds(u)'
      PROVE  /\ ~Queued(cur[u])'
             /\ cur'[u] \in Jobs
             /\ pc'[u] \in SubmitLabels => u \in Jobs /\ cur'[u] = u
             /\ future'[cur'[u]] # "none" <=> pc'[u] \in Submitted
             /\ cur'[u] \notin hooked'
  <2>1. CASE u = t
    BY <1>0, <1>1, <1>2, <1>4, <1>5, <2>1
  <2>2. CASE u # t
    <3>1. Holds(u) /\ cur'[u] = cur[u] /\ pc'[u] = pc[u]
      BY <1>1, <1>3, <1>9, <2>2
    <3>2. /\ cur[u] \in Jobs /\ ~Queued(cur[u])
          /\ pc[u] \in SubmitLabels => u \in Jobs /\ cur[u] = u
          /\ future[cur[u]] # "none" <=> pc[u] \in Submitted
          /\ cur[u] \notin hooked
      BY <3>1 DEF Placement, OnePlace, Submitted
    <3>3. QED
      BY <1>5, <3>1, <3>2
  <2>3. QED
    BY <2>1, <2>2
<1>10. \A k \in Jobs : future'[k] # "none" => ~Queued(k)'
  BY <1>5 DEF Placement, OnePlace
<1>11. \A k \in hooked' : future'[k] # "none" /\ jobPool'[k] \in Pools
  BY DEF Placement
<1>12. OnePlace'
  BY <1>6, <1>8, <1>9, <1>10 DEF OnePlace, Queued
<1>13. QED
  BY <1>9, <1>11, <1>12 DEF Placement, Submitted

LEMMA LabelFacts ==
  /\ RestLabels \cap HeldLabels = {}
  /\ {"new", "select", "gate", "park", "count", "enqueue"} = SubmitLabels
  /\ {"dispatch", "submit", "pumpGate", "pumpBack", "pumpFail"}
       = Unsubmitted \ SubmitLabels
  /\ SubmitLabels \subseteq Unsubmitted
  /\ HeldLabels = Unsubmitted \cup Submitted
  /\ Unsubmitted \cap Submitted = {}
BY DEF HeldLabels, SubmitLabels, FrameLabels, PumpLabels, RestLabels,
       Unsubmitted, Submitted

LEMMA ReturnRests ==
  ASSUME NEW t \in Threads, PumpReturn(t)
  PROVE  \E l \in RestLabels : Goto(t, l)
BY DEF PumpReturn, RestLabels

(* submit_or_queue keeps every job in its place.                           *)
LEMMA SubmitterPlacement ==
  ASSUME IInv, NEW j \in Jobs, SubmitterStep(j)
  PROVE  Placement'
<1> USE DEF At, ledgerVars, jobVars, frameVars
<1>1. TypeOK /\ Placement /\ j \in Threads /\ pool[j] \in Pools
      /\ queue[pool[j]] \in Seq(Jobs)
  BY ConstFacts DEF IInv, TypeOK
<1>2. pc[j] \in SubmitLabels => Holds(j) /\ cur[j] = j
  BY <1>1 DEF Holds, Placement
<1>3. CASE SelectPool(j)
  <2>1. \E l \in SubmitLabels : Goto(j, l)
    BY <1>3, LabelFacts DEF SelectPool
  <2>2. pc[j] \in SubmitLabels /\ UNCHANGED <<queue, future, hooked, cur, jobPool>>
    BY <1>3, LabelFacts DEF SelectPool
  <2>3. QED
    BY <1>1, <2>1, <2>2, Moves
<1>4. CASE VramGate(j)
  <2>1. \E l \in SubmitLabels : Goto(j, l)
    BY <1>4, LabelFacts DEF VramGate
  <2>2. pc[j] \in SubmitLabels /\ UNCHANGED <<queue, future, hooked, cur, jobPool>>
    BY <1>4, LabelFacts DEF VramGate
  <2>3. QED
    BY <1>1, <2>1, <2>2, Moves
<1>5. CASE CountSlots(j)
  <2>1. \/ Goto(j, "enqueue") \/ Goto(j, "dispatch") \/ Goto(j, "raised")
    BY <1>5 DEF CountSlots
  <2>2. pc[j] \in SubmitLabels /\ UNCHANGED <<queue, future, hooked, cur, jobPool>>
    BY <1>5, LabelFacts DEF CountSlots
  <2>3. "raised" \notin HeldLabels
    BY LabelFacts DEF RestLabels
  <2>4. QED
    BY <1>1, <2>1, <2>2, <2>3, LabelFacts, Moves
<1>6. CASE Park(j) \/ Enqueue(j)
  <2>1. /\ pc[j] \in SubmitLabels /\ Goto(j, "queued")
        /\ UNCHANGED <<future, hooked, cur, jobPool>>
        /\ queue' = [queue EXCEPT ![pool[j]] = Append(queue[pool[j]], cur[j])]
    BY <1>2, <1>6, LabelFacts DEF Park, Enqueue
  <2>2. "queued" \notin HeldLabels /\ pc[j] \in Unsubmitted
    BY <2>1, LabelFacts DEF RestLabels
  <2>3. cur[j] \in Jobs
    BY <1>2, <2>1
  <2>4. QED
    BY <1>1, <2>1, <2>2, <2>3, AppendPlace, Waits
<1>7. QED
  BY <1>3, <1>4, <1>5, <1>6 DEF SubmitterStep

(* So do _dispatch_to_pool, _done_callback and _pump_queue.                *)
LEMMA ThreadPlacement ==
  ASSUME IInv, NEW t \in Threads, ThreadStep(t)
  PROVE  Placement'
<1> USE DEF At, ledgerVars, jobVars, frameVars
<1>a. TypeOK /\ Placement /\ pool[t] \in Pools /\ queue[pool[t]] \in Seq(Jobs)
  BY DEF IInv, TypeOK
<1>b. pc[t] \in HeldLabels => cur[t] \in Jobs
  BY <1>a DEF Holds, HeldLabels, Placement
<1>c. pc[t] \notin HeldLabels => ~Holds(t)
  BY DEF Holds, HeldLabels
<1>r. ASSUME PumpReturn(t), UNCHANGED <<queue, future, hooked, cur, jobPool>>
      PROVE  Placement'
  BY <1>a, <1>r, ReturnRests, LabelFacts, Moves
<1>f. ASSUME PumpReturn(t), PushFront(t), pc[t] \in Unsubmitted,
             UNCHANGED <<future, hooked, jobPool>>
      PROVE  Placement'
  <2>1. /\ cur[t] \in Jobs
        /\ queue' = [queue EXCEPT ![pool[t]] = Cons(cur[t], queue[pool[t]])]
        /\ \A u \in Threads \ {t} : cur'[u] = cur[u]
    BY <1>a, <1>b, <1>f, LabelFacts DEF PushFront, TypeOK
  <2>2. PICK l \in RestLabels : Goto(t, l)
    BY <1>f, ReturnRests
  <2>3. l \notin HeldLabels
    BY <2>2, LabelFacts
  <2>4. QED
    BY <1>a, <1>f, <2>1, <2>2, <2>3, ConsPlace, Waits
<1>1. CASE Dispatch(t)
  <2>1. /\ Goto(t, "submit") /\ pc[t] \in Unsubmitted
        /\ UNCHANGED <<queue, future, hooked, cur, jobPool>>
    BY <1>1, LabelFacts DEF Dispatch
  <2>2. QED
    BY <1>a, <2>1, LabelFacts, Moves
<1>3. CASE Register(t)
  <2>1. CASE future[cur[t]] = "done"
    <3>1. /\ pc[t] \in Submitted /\ Goto(t, "callback") /\ "callback" \in Submitted
          /\ UNCHANGED <<queue, future, hooked, cur>>
          /\ \A j \in hooked : j # cur[t] => jobPool'[j] = jobPool[j]
      BY <1>a, <1>3, <2>1 DEF Register, Submitted, TypeOK
    <3>2. Holds(t) /\ cur[t] \notin hooked
      BY <1>a, <3>1, LabelFacts DEF Holds, HeldLabels, Placement
    <3>3. QED
      BY <1>a, <3>1, <3>2, Moves
  <2>2. CASE future[cur[t]] # "done"
    <3>1. /\ pc[t] \in Submitted
          /\ \E l \in RestLabels : Goto(t, l)
          /\ UNCHANGED <<queue, future, cur>>
          /\ hooked' = hooked \cup {cur[t]}
          /\ jobPool' = [jobPool EXCEPT ![cur[t]] = pool[t]]
      BY <1>3, <2>2 DEF Register, Submitted, RestLabels
    <3>2. PICK l \in RestLabels : Goto(t, l)
      BY <3>1
    <3>3. Holds(t) /\ cur[t] \in Jobs /\ future[cur[t]] # "none" /\ cur[t] \notin hooked
      BY <1>a, <3>1, LabelFacts DEF Holds, HeldLabels, Placement, Submitted
    <3>4. \A u \in Threads : pc'[u] = IF u = t THEN l ELSE pc[u]
      BY <1>a, <3>2 DEF Goto, TypeOK
    <3>5. \A u \in Threads : Holds(u)' <=> u # t /\ Holds(u)
      BY <3>2, <3>4, LabelFacts DEF Holds, HeldLabels
    <3>6. OnePlace'
      BY <1>a, <3>1, <3>5 DEF Placement, OnePlace, Queued
    <3>7. ASSUME NEW u \in Threads, Holds(u)'
          PROVE  /\ cur'[u] \in Jobs
                 /\ pc'[u] \in SubmitLabels => u \in Jobs /\ cur'[u] = u
                 /\ future'[cur'[u]] # "none" <=> pc'[u] \in Submitted
                 /\ cur'[u] \notin hooked'
      <4>1. u # t /\ Holds(u) /\ cur[u] # cur[t] /\ pc'[u] = pc[u] /\ cur'[u] = cur[u]
        BY <1>a, <3>1, <3>3, <3>4, <3>5, <3>7 DEF Placement, OnePlace
      <4>2. QED
        BY <1>a, <3>1, <4>1 DEF Placement, Submitted
    <3>8. \A j \in hooked' : future'[j] # "none" /\ jobPool'[j] \in Pools
      BY <1>a, <3>1, <3>3 DEF Placement, TypeOK
    <3>9. QED
      BY <3>6, <3>7, <3>8 DEF Placement, Submitted
  <2>3. QED
    BY <2>1, <2>2
<1>4. CASE InlineCallback(t)
  <2>1. /\ pc[t] \in Submitted /\ Goto(t, "cbRelease") /\ "cbRelease" \in Submitted
        /\ UNCHANGED <<queue, future, hooked, cur>>
        /\ \A j \in hooked : j # cur[t] => jobPool'[j] = jobPool[j]
    BY <1>a, <1>4 DEF InlineCallback, DropEntries, Submitted, TypeOK
  <2>2. Holds(t) /\ cur[t] \notin hooked
    BY <1>a, <2>1, LabelFacts DEF Holds, HeldLabels, Placement
  <2>3. QED
    BY <1>a, <2>1, <2>2, Moves
<1>5. CASE CallbackRelease(t)
  <2>1. /\ Goto(t, "pump") /\ UNCHANGED <<queue, future, hooked, jobPool>>
        /\ cur' = [cur EXCEPT ![t] = 0]
    BY <1>5 DEF CallbackRelease
  <2>2. \A u \in Threads : /\ pc'[u] = IF u = t THEN "pump" ELSE pc[u]
                           /\ u # t => cur'[u] = cur[u]
    BY <1>a, <2>1 DEF Goto, TypeOK
  <2>3. "pump" \notin HeldLabels
    BY LabelFacts DEF RestLabels
  <2>4. \A u \in Threads : Holds(u)' =>
           Holds(u) /\ u # t /\ cur'[u] = cur[u] /\ pc'[u] = pc[u]
    BY <2>2, <2>3 DEF Holds, HeldLabels
  <2>5. OnePlace'
    BY <1>a, <2>1, <2>4 DEF Placement, OnePlace, Queued
  <2>6. QED
    BY <1>a, <2>1, <2>4, <2>5 DEF Placement, Submitted
<1>6. CASE PumpEnter(t)
  <2>1. \/ PumpReturn(t) \/ Goto(t, "pumpCount")
    BY <1>6 DEF PumpEnter
  <2>2. UNCHANGED <<queue, future, hooked, cur, jobPool>> /\ "pumpCount" \notin HeldLabels
    BY <1>6, LabelFacts DEF PumpEnter, RestLabels
  <2>3. QED
    BY <1>a, <1>r, <2>1, <2>2, Moves
<1>7. CASE PumpCount(t) \/ PumpCountRaises(t)
  <2>1. \/ PumpReturn(t) \/ Goto(t, "pumpPop") \/ Goto(t, "idle")
    BY <1>7 DEF PumpCount, PumpCountRaises
  <2>2. /\ UNCHANGED <<queue, future, hooked, cur, jobPool>>
        /\ "pumpPop" \notin HeldLabels /\ "idle" \notin HeldLabels
    BY <1>7, LabelFacts DEF PumpCount, PumpCountRaises, RestLabels
  <2>3. QED
    BY <1>a, <1>r, <2>1, <2>2, Moves
<1>9. CASE PumpPop(t)
  <2>1. CASE queue[pool[t]] = <<>>
    BY <1>r, <1>9, <2>1 DEF PumpPop
  <2>2. CASE queue[pool[t]] # <<>>
    <3>1. ~Holds(t)
      BY <1>c, <1>9, LabelFacts DEF PumpPop, RestLabels
    <3>2. QED
      BY <1>a, <1>9, <2>2, <3>1, Pops DEF PumpPop, TakeHead
  <2>3. QED
    BY <2>1, <2>2
<1>10. CASE PumpGate(t)
  <2>1. /\ pc[t] \in Unsubmitted
        /\ Goto(t, "pumpBack") \/ Goto(t, "dispatch")
        /\ UNCHANGED <<queue, future, hooked, cur, jobPool>>
    BY <1>10, LabelFacts DEF PumpGate
  <2>2. QED
    BY <1>a, <2>1, LabelFacts, Moves
<1>11. CASE PumpBack(t)
  BY <1>f, <1>11, LabelFacts DEF PumpBack
<1>12. CASE PumpFail(t)
  BY <1>f, <1>12, LabelFacts DEF PumpFail
<1>2. CASE PoolSubmit(t)
  <2>0. pc[t] \in Unsubmitted /\ pc[t] \notin SubmitLabels
        /\ UNCHANGED <<queue, hooked, cur, jobPool>>
    BY <1>2, LabelFacts DEF PoolSubmit
  <2>1. CASE future' = future
    <3>1. \/ Goto(t, "register") \/ Goto(t, "pumpFail") \/ Goto(t, "failed")
          \/ Goto(t, "raised")
      BY <1>2 DEF PoolSubmit
    <3>2. /\ Holds(t) /\ future[cur[t]] = "none" /\ cur[t] \in Jobs
      BY <1>a, <2>0, LabelFacts DEF Holds, HeldLabels, Placement, Submitted
    <3>3. ~Goto(t, "register")
      BY <1>a, <1>2, <2>1, <3>2 DEF PoolSubmit, TypeOK, Goto
    <3>4. "failed" \notin HeldLabels /\ "raised" \notin HeldLabels
      BY LabelFacts DEF RestLabels
    <3>5. QED
      BY <1>a, <2>0, <2>1, <3>1, <3>3, <3>4, LabelFacts, Moves
  <2>2. CASE future' # future
    <3>1. /\ future' = [future EXCEPT ![cur[t]] = "live"]
          /\ Goto(t, "register") /\ "register" \in HeldLabels
      BY <1>2, <2>2, LabelFacts DEF PoolSubmit, Submitted
    <3>2. Holds(t) /\ cur[t] \in Jobs /\ ~Queued(cur[t]) /\ cur[t] \notin hooked
      BY <1>a, <2>0, LabelFacts DEF Holds, HeldLabels, Placement, OnePlace
    <3>3. /\ \A u \in Threads : pc'[u] = IF u = t THEN "register" ELSE pc[u]
          /\ \A j \in Jobs : future'[j] = IF j = cur[t] THEN "live" ELSE future[j]
      BY <1>a, <3>1, <3>2 DEF Goto, TypeOK
    <3>4. \A u \in Threads : Holds(u)' <=> Holds(u)
      BY <3>1, <3>2, <3>3 DEF Holds, HeldLabels
    <3>5. OnePlace'
      BY <1>a, <2>0, <3>2, <3>3, <3>4 DEF Placement, OnePlace, Queued
    <3>6. ASSUME NEW u \in Threads, Holds(u)'
          PROVE  /\ cur'[u] \in Jobs
                 /\ pc'[u] \in SubmitLabels => u \in Jobs /\ cur'[u] = u
                 /\ future'[cur'[u]] # "none" <=> pc'[u] \in Submitted
                 /\ cur'[u] \notin hooked'
      <4>1. CASE u = t
        BY <2>0, <3>2, <3>3, <4>1, LabelFacts DEF Submitted
      <4>2. CASE u # t
        <5>1. Holds(u) /\ cur[u] # cur[t] /\ pc'[u] = pc[u]
          BY <1>a, <3>2, <3>3, <3>4, <3>6, <4>2 DEF Placement, OnePlace
        <5>2. QED
          BY <1>a, <2>0, <3>3, <5>1 DEF Placement, Submitted
      <4>3. QED
        BY <4>1, <4>2
    <3>7. \A j \in hooked' : future'[j] # "none" /\ jobPool'[j] \in Pools
      BY <1>a, <2>0, <3>3 DEF Placement, TypeOK
    <3>8. QED
      BY <3>5, <3>6, <3>7 DEF Placement, Submitted
  <2>3. QED
    BY <2>1, <2>2
<1>13. QED
  BY <1>1, <1>2, <1>3, <1>4, <1>5, <1>6, <1>7, <1>9, <1>10, <1>11, <1>12
     DEF ThreadStep

(* The management thread that begins a callback takes the job in hand; the *)
(* callback is no longer attached.                                         *)
LEMMA CallbackPlacement ==
  ASSUME IInv, NEW e \in Managers, NEW j \in Jobs, BeginCallback(e, j)
  PROVE  Placement'
<1>1. /\ TypeOK /\ Placement /\ e \in Threads
      /\ pc[e] = "idle" /\ j \in hooked /\ future[j] # "none"
      /\ Goto(e, "cbRelease")
      /\ hooked' = hooked \ {j}
      /\ cur' = [cur EXCEPT ![e] = j]
      /\ jobPool' = [jobPool EXCEPT ![j] = "none"]
      /\ UNCHANGED <<queue, future>>
  BY ConstFacts DEF IInv, Placement, BeginCallback, At, DropEntries, ledgerVars
<1>2. /\ \A u \in Threads : pc'[u] = IF u = e THEN "cbRelease" ELSE pc[u]
      /\ \A u \in Threads : cur'[u] = IF u = e THEN j ELSE cur[u]
  BY <1>1 DEF Goto, TypeOK
<1>3. "cbRelease" \in Submitted /\ Submitted \subseteq HeldLabels
      /\ Submitted \cap SubmitLabels = {} /\ "idle" \notin HeldLabels
  BY LabelFacts DEF Submitted, RestLabels
<1>4. \A u \in Threads : Holds(u)' <=> u = e \/ Holds(u)
  BY <1>2, <1>3 DEF Holds, HeldLabels
<1>5. ~Holds(e) /\ \A u \in Threads : Holds(u) => cur[u] # j
  BY <1>1, <1>3 DEF Holds, HeldLabels, Placement
<1>6. \A k \in Jobs : Queued(k)' <=> Queued(k)
  BY <1>1 DEF Queued
<1>7. ~Queued(j)
  BY <1>1 DEF Placement, OnePlace
<1>8. ASSUME NEW u \in Threads, Holds(u)'
      PROVE  /\ ~Queued(cur[u])'
             /\ cur'[u] \in Jobs
             /\ pc'[u] \in SubmitLabels => u \in Jobs /\ cur'[u] = u
             /\ future'[cur'[u]] # "none" <=> pc'[u] \in Submitted
             /\ cur'[u] \notin hooked'
  <2>1. CASE u = e
    BY <1>1, <1>2, <1>3, <1>6, <1>7, <2>1
  <2>2. CASE u # e
    <3>1. Holds(u) /\ cur'[u] = cur[u] /\ pc'[u] = pc[u]
      BY <1>2, <1>4, <1>8, <2>2
    <3>2. /\ cur[u] \in Jobs /\ ~Queued(cur[u])
          /\ pc[u] \in SubmitLabels => u \in Jobs /\ cur[u] = u
          /\ future[cur[u]] # "none" <=> pc[u] \in Submitted
          /\ cur[u] \notin hooked
      BY <1>1, <3>1 DEF Placement, OnePlace, Submitted
    <3>3. QED
      BY <1>1, <1>6, <3>1, <3>2
  <2>3. QED
    BY <2>1, <2>2
<1>9. \A u, v \in Threads : Holds(u)' /\ Holds(v)' /\ cur'[u] = cur'[v] => u = v
  BY <1>1, <1>2, <1>4, <1>5 DEF Placement, OnePlace
<1>10. /\ \A p \in Pools : IsInjective(queue'[p])
       /\ ToSet(queue'["cpu"]) \cap ToSet(queue'["gpu"]) = {}
       /\ \A k \in Jobs : future'[k] # "none" => ~Queued(k)'
  BY <1>1, <1>6 DEF Placement, OnePlace
<1>11. OnePlace'
  BY <1>8, <1>9, <1>10 DEF OnePlace, Queued
<1>12. \A k \in hooked' : future'[k] # "none" /\ jobPool'[k] \in Pools
  BY <1>1 DEF Placement, TypeOK
<1>13. QED
  BY <1>8, <1>11, <1>12 DEF Placement, Submitted

(* The thread of a resize has no job in hand outside of a pump.            *)
LEMMA ConfigPlacement ==
  ASSUME IInv, ConfigStep
  PROVE  Placement'
<1>1. /\ \E l \in RestLabels : Goto(Config, l)
      /\ UNCHANGED <<queue, future, hooked, cur, jobPool>>
  BY DEF ConfigStep, SwapCpu, RetireCpu, SwapGpu, RetireGpu, DropGpu, PumpBoth,
         RestLabels, jobVars, frameVars
<1>2. QED
  BY <1>1, ConstFacts, LabelFacts, Moves DEF IInv

(* A finished or dead worker only turns live futures into done ones.       *)
LEMMA WorkerPlacement ==
  ASSUME IInv, NEW j \in Jobs, WorkerDone(j) \/ WorkerDies(j)
  PROVE  Placement'
<1>1. TypeOK /\ Placement
  BY DEF IInv
<1>2. UNCHANGED <<queue, hooked, jobPool, pc, cur>>
  BY DEF WorkerDone, WorkerDies, ledgerVars, frameVars
<1>3. \A k \in Jobs : future'[k] # "none" <=> future[k] # "none"
  BY <1>1 DEF WorkerDone, WorkerDies, TypeOK
<1>4. \A t \in Threads : Holds(t)' <=> Holds(t)
  BY <1>2 DEF Holds
<1>5. \A k \in Jobs : Queued(k)' <=> Queued(k)
  BY <1>2 DEF Queued
<1>6. OnePlace'
  BY <1>1, <1>2, <1>3, <1>4, <1>5 DEF Placement, OnePlace, Queued
<1>7. ASSUME NEW t \in Threads, Holds(t)'
      PROVE  /\ cur'[t] \in Jobs
             /\ pc'[t] \in SubmitLabels => t \in Jobs /\ cur'[t] = t
             /\ future'[cur'[t]] # "none" <=> pc'[t] \in Submitted
             /\ cur'[t] \notin hooked'
  BY <1>1, <1>2, <1>3, <1>4, <1>7 DEF Placement, Submitted
<1>8. \A k \in hooked' : future'[k] # "none" /\ jobPool'[k] \in Pools
  BY <1>1, <1>2, <1>3 DEF Placement, TypeOK
<1>9. QED
  BY <1>6, <1>7, <1>8 DEF Placement, Submitted

(* Requests and submissions put no job anywhere.                           *)
LEMMA RequestPlacement ==
  ASSUME IInv, Requests \/ \E j \in Jobs : Submit(j)
  PROVE  Placement'
<1>1. TypeOK /\ Placement
  BY DEF IInv
<1>2. CASE \E j \in Jobs : RequestCancellation(j)
  <2>1. UNCHANGED <<queue, future, hooked, jobPool, pc, cur>>
    BY <1>2 DEF RequestCancellation, frameVars
  <2>2. QED
    BY <1>1, <1>2, <2>1 DEF Requests, Placement, OnePlace, Holds, Queued
<1>3. CASE \E c, g \in NewSizes, on \in BOOLEAN : UpdateExecution(c, g, on)
  <2>1. /\ Goto(Config, "swapCpu") /\ "swapCpu" \notin HeldLabels
        /\ UNCHANGED <<queue, future, hooked, cur, jobPool>>
    BY <1>3, LabelFacts DEF UpdateExecution, RestLabels, jobVars, frameVars
  <2>2. QED
    BY <1>1, <1>3, <2>1, ConstFacts, Moves DEF Requests
<1>4. ASSUME NEW j \in Jobs, Submit(j)
      PROVE  Placement'
  <2>1. /\ Goto(j, "select") /\ pc[j] \in SubmitLabels /\ "select" \in SubmitLabels
        /\ UNCHANGED <<queue, future, hooked, cur, jobPool>> /\ j \in Threads
    BY <1>4, ConstFacts, LabelFacts DEF Submit, At, jobVars, frameVars
  <2>2. QED
    BY <1>1, <2>1, Moves
<1>5. QED
  BY <1>2, <1>3, <1>4 DEF Requests

-----------------------------------------------------------------------------
(* Pools.                                                                  *)

(* A resize stays within the executors it found room for, and never leaves *)
(* the program without a CPU pool.                                         *)
LEMMA PoolsStep ==
  ASSUME IInv, [Next]_vars
  PROVE  PoolsOK'
<1> DEFINE Resizing == {"swapCpu", "retireCpu", "swapGpu"}
<1>1. TypeOK /\ PoolsOK /\ Config \in Threads /\ nExec \in Nat /\ MaxExec \in Nat
  <2>1. TypeOK /\ PoolsOK /\ Config \in Threads
    BY ConstFacts DEF IInv
  <2>2. nExec \in 2..MaxExec
    BY <2>1 DEF TypeOK
  <2>3. QED
    BY <2>1, <2>2, ProcessManagerAssumption
<1>2. ASSUME UNCHANGED <<poolExec, nExec>>,
             \/ UNCHANGED pc
             \/ \E t \in Threads, l \in Labels \ Resizing : Goto(t, l)
      PROVE  PoolsOK'
  <2>1. pc'[Config] = pc[Config] \/ pc'[Config] \notin Resizing
    BY <1>1, <1>2 DEF Goto, TypeOK
  <2>2. QED
    BY <1>1, <1>2, <2>1 DEF PoolsOK
<1>3. ASSUME NEW t \in Threads, ThreadStep(t)
      PROVE  PoolsOK'
  <2>1. UNCHANGED <<poolExec, nExec>>
    BY <1>3 DEF ThreadStep, Dispatch, PoolSubmit, Register, InlineCallback,
           CallbackRelease, PumpEnter, PumpCount, PumpCountRaises, PumpPop,
           PumpGate, PumpBack, PumpFail, execVars
  <2>2. CASE PumpReturn(t)
    <3>1. \E l \in Labels \ Resizing : Goto(t, l)
      BY <2>2 DEF PumpReturn, Labels, RestLabels
    <3>2. QED
      BY <1>2, <2>1, <3>1
  <2>3. \/ PumpReturn(t)
        \/ \E l \in Labels \ Resizing : Goto(t, l)
    BY <1>3 DEF ThreadStep, Dispatch, PoolSubmit, Register, InlineCallback,
           CallbackRelease, PumpEnter, PumpCount, PumpCountRaises, PumpPop,
           PumpGate, PumpBack, PumpFail, Labels, FrameLabels, PumpLabels,
           RestLabels
  <2>4. QED
    BY <1>2, <2>1, <2>2, <2>3
<1>4. ASSUME NEW j \in Jobs, SubmitterStep(j) \/ Submit(j)
      PROVE  PoolsOK'
  <2>1. /\ UNCHANGED <<poolExec, nExec>> /\ j \in Threads
        /\ \E l \in Labels \ Resizing : Goto(j, l)
    BY <1>4, ConstFacts
       DEF SubmitterStep, SelectPool, VramGate, Park, CountSlots, Enqueue,
           Submit, execVars, Labels, SubmitLabels, FrameLabels, RestLabels
  <2>2. QED
    BY <1>2, <2>1
<1>5. ASSUME NEW e \in Managers, NEW j \in Jobs, BeginCallback(e, j)
      PROVE  PoolsOK'
  <2>1. /\ UNCHANGED <<poolExec, nExec>> /\ e \in Threads
        /\ \E l \in Labels \ Resizing : Goto(e, l)
    BY <1>5, ConstFacts DEF BeginCallback, execVars, Labels, FrameLabels
  <2>2. QED
    BY <1>2, <2>1
<1>6. ASSUME NEW j \in Jobs, WorkerDone(j) \/ WorkerDies(j) \/ RequestCancellation(j)
      PROVE  PoolsOK'
  BY <1>2, <1>6 DEF WorkerDone, WorkerDies, RequestCancellation, execVars
<1>7. ASSUME NEW c \in NewSizes, NEW g \in NewSizes, NEW on \in BOOLEAN,
             UpdateExecution(c, g, on)
      PROVE  PoolsOK'
  <2>1. pc'[Config] = "swapCpu"
    BY <1>1, <1>7 DEF UpdateExecution, Goto, TypeOK
  <2>2. QED
    BY <1>1, <1>7, <2>1 DEF UpdateExecution, PoolsOK
<1>8. CASE ConfigStep
  <2>1. CASE SwapCpu
    <3>1. nExec + 2 <= MaxExec
      BY <1>1, <2>1 DEF SwapCpu, At, PoolsOK
    <3>2. \/ Goto(Config, "swapGpu") /\ UNCHANGED <<poolExec, nExec>>
          \/ Goto(Config, "retireCpu") /\ NewExecutor("cpu", request.cpu)
      BY <2>1 DEF SwapCpu
    <3>3. pc'[Config] \in {"swapGpu", "retireCpu"}
      BY <1>1, <3>2 DEF Goto, TypeOK
    <3>4. nExec' \in Nat /\ nExec' + 1 <= MaxExec
      BY <1>1, <3>1, <3>2 DEF NewExecutor
    <3>5. poolExec'["cpu"] # Absent
      BY <1>1, <3>2 DEF NewExecutor, PoolsOK, TypeOK, Absent, Pools
    <3>6. QED
      BY <3>3, <3>4, <3>5 DEF PoolsOK
  <2>2. CASE RetireCpu
    <3>1. /\ UNCHANGED <<poolExec, nExec>> /\ nExec + 1 <= MaxExec
          /\ pc'[Config] = "swapGpu"
      BY <1>1, <2>2 DEF RetireCpu, At, PoolsOK, Goto, TypeOK
    <3>2. QED
      BY <1>1, <3>1 DEF PoolsOK
  <2>3. CASE SwapGpu
    <3>1. \/ Goto(Config, "pumpCpu") \/ Goto(Config, "retireGpu")
      BY <2>3 DEF SwapGpu
    <3>2. pc'[Config] \notin Resizing
      BY <1>1, <3>1 DEF Goto, TypeOK
    <3>3. poolExec'["cpu"] = poolExec["cpu"]
      BY <1>1, <2>3 DEF SwapGpu, NewExecutor, TypeOK, Pools
    <3>4. QED
      BY <1>1, <3>2, <3>3 DEF PoolsOK
  <2>4. CASE DropGpu
    <3>1. Goto(Config, "pumpCpu") /\ poolExec'["cpu"] = poolExec["cpu"]
      BY <1>1, <2>4 DEF DropGpu, TypeOK, Pools
    <3>2. pc'[Config] \notin Resizing
      BY <1>1, <3>1 DEF Goto, TypeOK
    <3>3. QED
      BY <1>1, <3>1, <3>2 DEF PoolsOK
  <2>5. CASE RetireGpu \/ PumpBoth
    <3>1. /\ UNCHANGED <<poolExec, nExec>>
          /\ \E l \in Labels \ Resizing : Goto(Config, l)
      BY <2>5 DEF RetireGpu, PumpBoth, execVars, Labels, RestLabels
    <3>2. QED
      BY <1>1, <1>2, <3>1
  <2>6. QED
    BY <1>8, <2>1, <2>2, <2>3, <2>4, <2>5 DEF ConfigStep
<1>9. CASE UNCHANGED vars
  BY <1>2, <1>9 DEF vars, execVars
<1>10. QED
  BY <1>3, <1>4, <1>5, <1>6, <1>7, <1>8, <1>9 DEF Next, ManagerStep, Requests

-----------------------------------------------------------------------------
(* The inductive invariant.                                                *)

LEMMA InitIInv == Init => IInv
<1> SUFFICES ASSUME Init PROVE IInv
  OBVIOUS
<1>1. TypeOK
  <2>1. \A t \in Threads : pc[t] \in Labels
    BY DEF Init, Labels, SubmitLabels, RestLabels
  <2>2. 2 \in 2..MaxExec /\ 1 \in 0..MaxExec /\ 2 \in 0..MaxExec
        /\ Absent \in 0..MaxExec
    BY ProcessManagerAssumption DEF Absent
  <2>3. pc \in [Threads -> Labels]
    BY <2>1 DEF Init
  <2>4. /\ exSize \in [Managers -> Nat]
        /\ request \in [cpu : Nat, gpu : Nat, on : BOOLEAN, old : 0..MaxExec]
    BY <2>2, ProcessManagerAssumption DEF Init
  <2>5. queue \in [Pools -> Seq(Jobs)] /\ stack \in [Threads -> Seq(Nat)]
    BY EmptySeq DEF Init
  <2>6. QED
    BY <2>2, <2>3, <2>4, <2>5, ProcessManagerAssumption DEF Init, TypeOK, Pools
<1>2. \A t \in Threads : /\ Holds(t) => t \in Jobs /\ cur[t] = t
                          /\ pc[t] \notin Submitted
  <2>1. "idle" \notin HeldLabels /\ "idle" \notin Submitted /\ "new" \notin Submitted
    BY LabelFacts DEF RestLabels, Submitted
  <2>2. QED
    BY <2>1 DEF Init, Holds, HeldLabels
<1>3. \A p \in Pools : queue[p] = <<>> /\ ToSet(queue[p]) = {}
                        /\ IsInjective(queue[p])
  BY DEF Init, ToSet, IsInjective
<1>4. \A j \in Jobs : ~Queued(j) /\ future[j] = "none"
  BY <1>3 DEF Queued, Init
<1>5. OnePlace
  BY <1>2, <1>3, <1>4 DEF OnePlace, Pools
<1>6. Placement
  BY <1>2, <1>4, <1>5 DEF Placement, Init, Submitted
<1>7. PoolsOK
  BY ConstFacts DEF Init, PoolsOK, Pools, Absent
<1>8. QED
  BY <1>1, <1>6, <1>7 DEF IInv

LEMMA NextIInv == IInv /\ [Next]_vars => IInv'
<1> SUFFICES ASSUME IInv, [Next]_vars PROVE IInv'
  OBVIOUS
<1>1. PoolsOK'
  BY PoolsStep
<1>2. TypeOK' /\ Placement'
  <2>1. CASE \E t \in Threads : ThreadStep(t)
    BY <2>1, ThreadTypes, ThreadPlacement
  <2>2. CASE \E j \in Jobs : SubmitterStep(j)
    BY <2>2, SubmitterTypes, SubmitterPlacement
  <2>3. CASE \E e \in Managers, j \in Jobs : BeginCallback(e, j)
    BY <2>3, CallbackTypes, CallbackPlacement
  <2>4. CASE ConfigStep
    BY <2>4, ConfigTypes, ConfigPlacement
  <2>5. CASE \E j \in Jobs : WorkerDone(j) \/ WorkerDies(j)
    BY <2>5, WorkerTypes, WorkerPlacement
  <2>6. CASE Requests
    BY <2>6, RequestTypes, RequestPlacement
  <2>7. CASE \E j \in Jobs : Submit(j)
    BY <2>7, SubmitTypes, RequestPlacement
  <2>8. CASE UNCHANGED vars
    BY <2>8 DEF IInv, TypeOK, Placement, OnePlace, Holds, Queued, vars,
                ledgerVars, jobVars, execVars, frameVars
  <2>9. QED
    BY <2>1, <2>2, <2>3, <2>4, <2>5, <2>6, <2>7, <2>8 DEF Next, ManagerStep
<1>3. QED
  BY <1>1, <1>2 DEF IInv

THEOREM Inductive == Spec => []IInv
<1>1. Init => IInv
  BY InitIInv
<1>2. IInv /\ [Next]_vars => IInv'
  BY NextIInv
<1>3. QED
  BY <1>1, <1>2, PTL DEF Spec

(* The variables keep their types, bounds of the model included.           *)
THEOREM TypesHold == Spec => []TypeOK
<1>1. IInv => TypeOK
  BY DEF IInv
<1>2. QED
  BY <1>1, Inductive, PTL

(* A job is in one place, however submissions, pumps, callbacks, resizes   *)
(* and worker deaths interleave: the deques neither lose it into two hands *)
(* nor hold it twice.                                                      *)
THEOREM PlacesHold == Spec => []OnePlace
<1>1. IInv => OnePlace
  BY DEF IInv, Placement
<1>2. QED
  BY <1>1, Inductive, PTL

-----------------------------------------------------------------------------
(* Starting jobs.                                                          *)

(* pool.submit is the only place a future starts, and the job in hand      *)
(* there has none yet.                                                     *)
LEMMA StartsFresh ==
  ASSUME IInv, [Next]_vars, NEW j \in Jobs,
         future'[j] = "live", future[j] # "live"
  PROVE  future[j] = "none"
<1>1. TypeOK /\ Placement
  BY DEF IInv
<1>2. PICK t \in Threads : PoolSubmit(t)
  <2>1. future' # future
    OBVIOUS
  <2>2. ~(\E k \in Jobs : WorkerDone(k) \/ WorkerDies(k))
    BY <1>1 DEF WorkerDone, WorkerDies, TypeOK
  <2>3. ~(\E k \in Jobs : SubmitterStep(k) \/ Submit(k) \/ RequestCancellation(k))
    BY <2>1 DEF SubmitterStep, SelectPool, VramGate, Park, CountSlots, Enqueue,
                Submit, RequestCancellation, jobVars
  <2>4. ~ConfigStep /\ ~Requests
    BY <2>1, <2>3 DEF ConfigStep, SwapCpu, RetireCpu, SwapGpu, RetireGpu,
                DropGpu, PumpBoth, Requests, UpdateExecution, jobVars
  <2>5. ~(\E e \in Managers, k \in Jobs : BeginCallback(e, k))
    BY <2>1 DEF BeginCallback
  <2>6. \A t \in Threads : ThreadStep(t) => PoolSubmit(t)
    BY <2>1 DEF ThreadStep, Dispatch, Register, InlineCallback,
           CallbackRelease, PumpEnter, PumpCount, PumpCountRaises, PumpPop,
           PumpGate, PumpBack, PumpFail, jobVars
  <2>7. ~UNCHANGED vars
    BY <2>1 DEF vars, jobVars
  <2>8. QED
    BY <2>2, <2>3, <2>4, <2>5, <2>6, <2>7 DEF Next, ManagerStep
<1>3. pc[t] = "submit" /\ future' = [future EXCEPT ![cur[t]] = "live"]
  BY <1>2 DEF PoolSubmit, At
<1>4. j = cur[t]
  BY <1>1, <1>3 DEF TypeOK
<1>5. Holds(t) /\ pc[t] \notin Submitted
  BY <1>3 DEF Holds, FrameLabels, Submitted
<1>6. QED
  BY <1>1, <1>4, <1>5 DEF Placement, Submitted

(* No interleaving of queueing, pumping, resizing and failed dispatches    *)
(* hands a job to a pool a second time.                                    *)
THEOREM StartsOnce == Spec => StartedOnce
<1>1. IInv /\ [Next]_vars =>
        [\A j \in Jobs : future'[j] = "live" /\ future[j] # "live"
                         => future[j] = "none"]_vars
  BY StartsFresh
<1>2. QED
  BY <1>1, Inductive, PTL DEF Spec, StartedOnce
=============================================================================
