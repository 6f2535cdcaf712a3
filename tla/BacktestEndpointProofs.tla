----------------------- MODULE BacktestEndpointProofs -----------------------
(***************************************************************************)
(* Proofs about BacktestEndpoint: the two gates in front of the card and   *)
(* the three places that give memory back keep the running jobs within it, *)
(* for any number of submissions, with resizing and worker deaths; and     *)
(* about the books of ProcessManager: what running jobs are entered in,    *)
(* and what the VRAM ledger counts, alone and behind the endpoint.         *)
(***************************************************************************)
EXTENDS BacktestEndpoint, ProcessManagerProofs, FiniteSetTheorems

-----------------------------------------------------------------------------
(* Counting budgets.                                                       *)

LEMMA JobSets ==
  ASSUME NEW S \in SUBSET Jobs, NEW T \in SUBSET S
  PROVE  /\ Cardinality(S) \in Nat /\ Cardinality(T) \in Nat
         /\ Cardinality(T) <= Cardinality(S)
         /\ \A j \in S \ T : Cardinality(T) + 1 <= Cardinality(S)
<1>1. IsFiniteSet(S)
  BY FS_Subset, ProcessManagerAssumption
<1>2. IsFiniteSet(T) /\ Cardinality(T) <= Cardinality(S)
  BY <1>1, FS_Subset
<1>3. Cardinality(S) \in Nat /\ Cardinality(T) \in Nat
  BY <1>1, <1>2, FS_CardinalityType
<1>4. ASSUME NEW j \in S \ T
      PROVE  Cardinality(T) + 1 <= Cardinality(S)
  <2>1. Cardinality(T \cup {j}) = Cardinality(T) + 1
    BY <1>2, <1>4, FS_AddElement
  <2>2. T \cup {j} \subseteq S
    BY <1>4
  <2>3. Cardinality(T \cup {j}) <= Cardinality(S)
    BY <1>1, <2>2, FS_Subset
  <2>4. QED
    BY <2>1, <2>3
<1>5. QED
  BY <1>2, <1>3, <1>4

LEMMA Times ==
  ASSUME NEW m \in Nat, NEW n \in Nat
  PROVE  /\ Budget * m \in Nat
         /\ m <= n => Budget * m <= Budget * n
         /\ m + 1 <= n => Budget * m + Budget <= Budget * n
         /\ n <= m + 1 => Budget * n <= Budget * m + Budget
<1>1. Budget \in Nat
  BY ProcessManagerAssumption
<1>2. \A k \in Nat : Budget * k \in Nat
  BY <1>1
<1>3. \A k, l \in Nat : Budget * (k + l) = Budget * k + Budget * l
  BY <1>1
<1>4. \A k, l \in Nat : k <= l => Budget * k <= Budget * l
  <2> SUFFICES ASSUME NEW k \in Nat, NEW l \in Nat, k <= l
               PROVE  Budget * k <= Budget * l
    OBVIOUS
  <2>1. l - k \in Nat /\ l = k + (l - k)
    OBVIOUS
  <2>2. Budget * l = Budget * k + Budget * (l - k)
    BY <1>3, <2>1
  <2>3. QED
    BY <1>2, <2>1, <2>2
<1>5. Budget * (m + 1) = Budget * m + Budget
  BY <1>1
<1>6. QED
  BY <1>2, <1>4, <1>5

(* Memory taken, or nothing: the reservations are still covered.           *)
LEMMA StillCovered ==
  ASSUME ReservationsCovered, TypeOK, TypeOK', Reservations' \subseteq Reservations,
         used <= used'
  PROVE  ReservationsCovered'
<1>1. Reservations \subseteq Jobs /\ used \in Nat /\ used' \in Nat
  BY DEF Reservations, TypeOK
<1>2. /\ Cardinality(Reservations) \in Nat /\ Cardinality(Reservations') \in Nat
      /\ Cardinality(Reservations') <= Cardinality(Reservations)
  BY <1>1, JobSets
<1>3. /\ Budget * Cardinality(Reservations) \in Nat
      /\ Budget * Cardinality(Reservations') \in Nat
      /\ Budget * Cardinality(Reservations') <= Budget * Cardinality(Reservations)
  BY <1>2, Times
<1>4. Budget * Cardinality(Reservations') <= used'
  BY <1>1, <1>3 DEF ReservationsCovered
<1>5. QED
  BY <1>4 DEF ReservationsCovered

(* An owner of a reservation gives it back.                                *)
LEMMA GivenBack ==
  ASSUME ReservationsCovered, TypeOK, TypeOK', NEW j \in Reservations,
         Reservations' \subseteq Reservations \ {j},
         ReleaseVram(Budget)
  PROVE  ReservationsCovered' /\ used' <= used
<1>1. /\ Reservations \subseteq Jobs /\ used \in Nat
      /\ Budget \in Nat
  BY ProcessManagerAssumption DEF Reservations, TypeOK
<1>2. /\ Cardinality(Reservations) \in Nat /\ Cardinality(Reservations') \in Nat
      /\ Cardinality(Reservations') + 1 <= Cardinality(Reservations)
  <2>1. Reservations' \in SUBSET Reservations /\ j \in Reservations \ Reservations'
    OBVIOUS
  <2>2. QED
    BY <1>1, <2>1, JobSets
<1>3. /\ Budget * Cardinality(Reservations') \in Nat
      /\ Budget * Cardinality(Reservations) \in Nat
      /\ Budget * Cardinality(Reservations') + Budget <= Budget * Cardinality(Reservations)
  BY <1>2, Times
<1>4. Budget * Cardinality(Reservations') + Budget <= used
  BY <1>1, <1>3 DEF ReservationsCovered
<1>5. used' = used - Budget
  BY <1>1, <1>3, <1>4 DEF ReleaseVram
<1>6. Budget * Cardinality(Reservations') <= used' /\ used' <= used
  BY <1>1, <1>3, <1>4, <1>5
<1>7. QED
  BY <1>6 DEF ReservationsCovered

-----------------------------------------------------------------------------
(* Who handles a job.                                                      *)

(* What a step of thread t does to the hands that jobs are in: it starts,  *)
(* queues or drops at most the job of its own frame, and takes one only    *)
(* from a queue or from a future that is done.                             *)
Handling(t) ==
  /\ pc[t] \notin {"new", "raised", "failed"}
  /\ \E l \in Labels \ {"new"} : Goto(t, l)
  /\ \A u \in Threads \ {t} : cur'[u] = cur[u]
  /\ \A j \in Jobs : future'[j] # future[j] =>
       pc[t] = "submit" /\ j = cur[t] /\ future'[j] = "live"
  /\ \A j \in Jobs : Queued(j)' => Queued(j) \/ (Holds(t) /\ j = cur[t])
  /\ Holds(t)' => \/ Holds(t) /\ cur'[t] = cur[t]
                  \/ Queued(cur'[t])
                  \/ future[cur'[t]] # "none"
  /\ pc'[t] \in {"raised", "failed"} =>
       /\ Holds(t) /\ cur[t] = t /\ future[t] = "none"
       /\ UNCHANGED <<queue, future>>

(* What it does to the notes: it drops the note of the callback it runs,   *)
(* and makes one before it submits.                                        *)
Noting(t) ==
  /\ \A j \in jobVram : j \in jobVram' \/ (pc[t] = "cbRelease" /\ j = cur[t])
  /\ pc'[t] = "submit" /\ vram[cur'[t]] > 0 => cur'[t] \in jobVram'
  /\ pc'[t] \in {"callback", "cbRelease"} => future'[cur'[t]] = "done"

(* A job nobody has touched stays so.                                      *)
LEMMA StaysUntouched ==
  ASSUME TypeOK, NEW t \in Threads, Handling(t), NEW j \in Jobs, Untouched(j)
  PROVE  Untouched(j)'
<1>1. PICK l \in Labels \ {"new"} : Goto(t, l)
  BY DEF Handling
<1>2. \A u \in Threads : pc'[u] = IF u = t THEN l ELSE pc[u]
  BY <1>1 DEF Goto, TypeOK
<1>3. Holds(t) => cur[t] # j
  BY DEF Handling, Untouched
<1>4. "submit" \in FrameLabels
  BY DEF FrameLabels
<1>5. future'[j] = "none"
  BY <1>3, <1>4 DEF Handling, Untouched, Holds
<1>6. ~Queued(j)'
  BY <1>3 DEF Handling, Untouched
<1>7. ASSUME NEW u \in Threads, Holds(u)', cur'[u] = j
      PROVE  u = j /\ pc'[u] = "new"
  <2>1. CASE u = t
    BY <1>3, <1>7, <2>1 DEF Handling, Untouched
  <2>2. CASE u # t
    <3>1. pc'[u] = pc[u] /\ cur[u] = j
      BY <1>2, <1>7, <2>2 DEF Handling
    <3>2. Holds(u)
      BY <1>7, <3>1 DEF Holds
    <3>3. QED
      BY <3>1, <3>2 DEF Untouched
  <2>3. QED
    BY <2>1, <2>2
<1>8. QED
  BY <1>5, <1>6, <1>7 DEF Untouched

(* A thread that lets go of the job of its own request, not submitted yet, *)
(* leaves it untouched.                                                    *)
LEMMA LetsGo ==
  ASSUME TypeOK, Placement, NEW j \in Jobs, j \in Threads, Handling(j),
         pc'[j] \in {"raised", "failed"}
  PROVE  Untouched(j)'
<1>1. /\ Holds(j) /\ cur[j] = j /\ future[j] = "none"
      /\ UNCHANGED <<queue, future>>
      /\ \A u \in Threads \ {j} : cur'[u] = cur[u]
  BY DEF Handling
<1>2. \A u \in Threads \ {j} : pc'[u] = pc[u]
  BY DEF Handling, Goto, TypeOK
<1>3. "raised" \notin HeldLabels /\ "failed" \notin HeldLabels
  BY LabelFacts DEF RestLabels
<1>4. ~Holds(j)'
  BY <1>3 DEF Holds, HeldLabels
<1>5. ~Queued(j)'
  BY <1>1 DEF Placement, OnePlace, Queued
<1>6. ASSUME NEW u \in Threads, Holds(u)', cur'[u] = j
      PROVE  FALSE
  <2>1. u # j
    BY <1>4, <1>6
  <2>2. Holds(u) /\ cur[u] = j
    BY <1>1, <1>2, <1>6, <2>1 DEF Holds
  <2>3. QED
    BY <1>1, <2>1, <2>2 DEF Placement, OnePlace
<1>7. QED
  BY <1>1, <1>5, <1>6 DEF Untouched

(* Hence the owners of the reservations stay the owners.                   *)
LEMMA StaysOwned ==
  ASSUME TypeOK, Placement, Ownership, NEW t \in Threads, Handling(t), Noting(t),
         UNCHANGED <<vram, post>>
  PROVE  Ownership'
<1>1. PICK l \in Labels \ {"new"} : Goto(t, l)
  BY DEF Handling
<1>2. \A u \in Threads : pc'[u] = IF u = t THEN l ELSE pc[u]
  BY <1>1 DEF Goto, TypeOK
<1>3. Jobs \subseteq Threads
  BY ConstFacts
<1>4. \A j \in Jobs : post'[j] = "new" => vram'[j] = 0
  BY DEF Ownership
<1>5. \A j \in Jobs : post'[j] \in {"new", "reserved"} => pc'[j] = "new"
  <2> SUFFICES ASSUME NEW j \in Jobs, post[j] \in {"new", "reserved"}
               PROVE  pc'[j] = "new"
    OBVIOUS
  <2>1. pc[j] = "new"
    BY DEF Ownership
  <2>2. j # t
    BY <2>1 DEF Handling
  <2>3. QED
    BY <1>2, <1>3, <2>1, <2>2
<1>6. \A j \in Jobs : post'[j] \in {"new", "reserved", "refused"} => Untouched(j)'
  BY StaysUntouched DEF Ownership
<1>7. \A j \in Jobs : pc'[j] \in {"raised", "failed"} => Untouched(j)'
  <2> SUFFICES ASSUME NEW j \in Jobs, pc'[j] \in {"raised", "failed"}
               PROVE  Untouched(j)'
    OBVIOUS
  <2>1. CASE j = t
    BY <1>3, <2>1, LetsGo
  <2>2. CASE j # t
    <3>1. pc[j] \in {"raised", "failed"}
      BY <1>2, <1>3, <2>2
    <3>2. Untouched(j)
      BY <3>1 DEF Ownership
    <3>3. QED
      BY <3>2, StaysUntouched
  <2>3. QED
    BY <2>1, <2>2
<1>h. \A u \in Threads : pc[u] \in FrameLabels => Holds(u) /\ cur[u] \in Jobs
  BY DEF Holds, Placement
<1>f. {"submit", "callback", "cbRelease"} \subseteq FrameLabels
  BY DEF FrameLabels
<1>8. \A j \in Jobs : future'[j] = "live" /\ vram'[j] > 0 => j \in jobVram'
  <2> SUFFICES ASSUME NEW j \in Jobs, future'[j] = "live", vram[j] > 0
               PROVE  j \in jobVram'
    OBVIOUS
  <2>1. j \in jobVram
    BY DEF Handling, Ownership
  <2>2. pc[t] = "cbRelease" => j # cur[t]
    BY <1>h, <1>f DEF Handling, Ownership
  <2>3. QED
    BY <2>1, <2>2 DEF Noting
<1>9. \A u \in Threads : pc'[u] = "submit" /\ vram'[cur'[u]] > 0 => cur'[u] \in jobVram'
  <2> SUFFICES ASSUME NEW u \in Threads, pc'[u] = "submit", vram[cur'[u]] > 0
               PROVE  cur'[u] \in jobVram'
    OBVIOUS
  <2>1. CASE u = t
    BY <2>1 DEF Noting
  <2>2. CASE u # t
    <3>1. pc[u] = "submit" /\ cur'[u] = cur[u]
      BY <1>2, <2>2 DEF Handling
    <3>2. cur[u] \in jobVram
      BY <3>1 DEF Ownership
    <3>3. pc[t] = "cbRelease" => cur[u] # cur[t]
      BY <1>h, <1>f, <2>2, <3>1 DEF Placement, OnePlace
    <3>4. QED
      BY <3>1, <3>2, <3>3 DEF Noting
  <2>3. QED
    BY <2>1, <2>2
<1>10. \A u \in Threads : pc'[u] \in {"callback", "cbRelease"} => future'[cur'[u]] = "done"
  <2> SUFFICES ASSUME NEW u \in Threads, pc'[u] \in {"callback", "cbRelease"}
               PROVE  future'[cur'[u]] = "done"
    OBVIOUS
  <2>1. CASE u = t
    BY <2>1 DEF Noting
  <2>2. CASE u # t
    <3>1. pc[u] \in {"callback", "cbRelease"} /\ cur'[u] = cur[u]
      BY <1>2, <2>2 DEF Handling
    <3>2. future[cur[u]] = "done" /\ cur[u] \in Jobs
      BY <1>h, <1>f, <3>1 DEF Ownership
    <3>3. pc[t] = "submit" => cur[u] # cur[t]
      BY <1>h, <1>f, <2>2, <3>1 DEF Placement, OnePlace
    <3>4. QED
      BY <3>1, <3>2, <3>3 DEF Handling
  <2>3. QED
    BY <2>1, <2>2
<1>11. QED
  BY <1>4, <1>5, <1>6, <1>7, <1>8, <1>9, <1>10 DEF Ownership

-----------------------------------------------------------------------------
(* Every step of the manager handles jobs and notes budgets in that way.   *)

(* A move that takes, queues and starts nothing.                           *)
LEMMA QuietHandling ==
  ASSUME TypeOK, NEW t \in Threads, pc[t] \notin {"new", "raised", "failed"},
         NEW l \in Labels \ {"new", "raised", "failed"}, Goto(t, l),
         l \in HeldLabels => pc[t] \in HeldLabels,
         UNCHANGED <<queue, future, cur>>
  PROVE  Handling(t)
<1>1. pc'[t] = l
  BY DEF Goto, TypeOK
<1>2. \A j \in Jobs : Queued(j)' => Queued(j)
  BY DEF Queued
<1>3. Holds(t)' => Holds(t)
  BY <1>1 DEF Holds, HeldLabels
<1>4. QED
  BY <1>1, <1>2, <1>3 DEF Handling

(* A move to where nothing is to be noted.                                 *)
LEMMA QuietNoting ==
  ASSUME TypeOK, NEW t \in Threads,
         NEW l, l \notin {"submit", "callback", "cbRelease"}, Goto(t, l),
         UNCHANGED jobVram
  PROVE  Noting(t)
<1>1. pc'[t] = l
  BY DEF Goto, TypeOK
<1>2. QED
  BY <1>1 DEF Noting

LEMMA RestFacts ==
  /\ RestLabels \subseteq Labels \ {"new", "submit", "callback", "cbRelease"}
  /\ HeldLabels \subseteq Labels
  /\ {"raised", "failed", "idle", "queued", "dispatched", "pump", "pumpCount",
      "pumpPop", "pumpCpu", "pumpGpu", "swapCpu", "retireCpu", "swapGpu",
      "retireGpu", "dropGpu"} = RestLabels
  /\ {"dispatch", "submit", "register", "callback", "cbRelease"} = FrameLabels
  /\ {"pumpGate", "pumpBack", "pumpFail"} = PumpLabels
  /\ {"new", "select", "gate", "park", "count", "enqueue"} = SubmitLabels
  /\ HeldLabels = SubmitLabels \cup FrameLabels \cup PumpLabels
  /\ HeldLabels \cap RestLabels = {}
BY DEF RestLabels, Labels, HeldLabels, SubmitLabels, FrameLabels, PumpLabels

LEMMA ReturnLabels ==
  ASSUME NEW t \in Threads, PumpReturn(t)
  PROVE  \E l \in RestLabels \ {"raised", "failed"} : Goto(t, l)
BY DEF PumpReturn, RestLabels

(* The pump pushes the job in hand back and returns.                       *)
LEMMA PushHandling ==
  ASSUME TypeOK, Placement, NEW t \in Threads, pc[t] \in PumpLabels,
         PushFront(t), PumpReturn(t), UNCHANGED future
  PROVE  Handling(t)
<1>1. PICK l \in RestLabels \ {"raised", "failed"} : Goto(t, l)
  BY ReturnLabels
<1>2. /\ pc'[t] = l /\ l \in Labels \ {"new"} /\ l \notin HeldLabels
      /\ pc[t] \notin {"new", "raised", "failed"}
  BY <1>1, RestFacts DEF Goto, TypeOK
<1>3. ~Holds(t)' /\ Holds(t)
  BY <1>2 DEF Holds, HeldLabels
<1>4. /\ pool[t] \in Pools /\ queue[pool[t]] \in Seq(Jobs) /\ cur[t] \in Jobs
      /\ \A u \in Threads \ {t} : cur'[u] = cur[u]
  BY <1>3 DEF TypeOK, Placement, PushFront
<1>5. \A p \in Pools : ToSet(queue'[p]) \subseteq ToSet(queue[p]) \cup {cur[t]}
  <2>1. queue' = [queue EXCEPT ![pool[t]] = Cons(cur[t], queue[pool[t]])]
    BY DEF PushFront
  <2>2. ToSet(Cons(cur[t], queue[pool[t]])) = ToSet(queue[pool[t]]) \cup {cur[t]}
    BY <1>4, ConsPlace
  <2>3. QED
    BY <1>4, <2>1, <2>2 DEF TypeOK
<1>6. \A j \in Jobs : Queued(j)' => Queued(j) \/ j = cur[t]
  BY <1>5 DEF Queued
<1>7. QED
  BY <1>1, <1>2, <1>3, <1>4, <1>6 DEF Handling

LEMMA ThreadHandles ==
  ASSUME IInv, Ownership, NEW t \in Threads, ThreadStep(t)
  PROVE  Handling(t) /\ Noting(t) /\ UNCHANGED vram
<1> USE DEF At, ledgerVars, jobVars, frameVars
<1>a. TypeOK /\ Placement /\ pool[t] \in Pools
  BY DEF IInv, TypeOK
<1>b. pc[t] \in HeldLabels =>
        /\ Holds(t) /\ cur[t] \in Jobs
        /\ pc[t] \notin Submitted => future[cur[t]] = "none"
  BY <1>a DEF Holds, HeldLabels, Placement, Submitted
<1>v. UNCHANGED vram
  BY DEF ThreadStep, Dispatch, PoolSubmit, Register, InlineCallback,
         CallbackRelease, PumpEnter, PumpCount, PumpCountRaises, PumpPop,
         PumpGate, PumpBack, PumpFail
<1>r. ASSUME PumpReturn(t), UNCHANGED <<queue, future, cur, jobVram>>,
             pc[t] \in RestLabels \ {"raised", "failed"}
      PROVE  Handling(t) /\ Noting(t)
  <2>1. PICK l \in RestLabels \ {"raised", "failed"} : Goto(t, l)
    BY <1>r, ReturnLabels
  <2>2. /\ l \in Labels \ {"new", "raised", "failed"} /\ l \notin HeldLabels
        /\ l \notin {"submit", "callback", "cbRelease"}
        /\ pc[t] \notin {"new", "raised", "failed"}
    BY <1>r, <2>1, RestFacts
  <2>3. QED
    BY <1>a, <1>r, <2>1, <2>2, QuietHandling, QuietNoting
<1>1. CASE Dispatch(t)
  <2>1. /\ pc[t] = "dispatch" /\ Goto(t, "submit")
        /\ UNCHANGED <<queue, future, cur>> /\ NoteVram(cur[t])
    BY <1>1 DEF Dispatch
  <2>2. Handling(t)
    BY <1>a, <2>1, RestFacts, QuietHandling
  <2>3. jobVram \subseteq jobVram' /\ (vram[cur[t]] > 0 => cur[t] \in jobVram')
    BY <2>1 DEF NoteVram
  <2>4. pc'[t] = "submit"
    BY <1>a, <2>1 DEF Goto, TypeOK
  <2>5. QED
    BY <1>v, <2>1, <2>2, <2>3, <2>4 DEF Noting
<1>2. CASE PoolSubmit(t)
  <2>1. /\ pc[t] = "submit" /\ UNCHANGED <<queue, cur, jobVram>>
        /\ cur[t] \in Jobs /\ future[cur[t]] = "none" /\ Holds(t)
    BY <1>b, <1>2, RestFacts DEF PoolSubmit, Submitted
  <2>2. CASE future' = [future EXCEPT ![cur[t]] = "live"] /\ Goto(t, "register")
    <3>1. /\ \A j \in Jobs : future'[j] # future[j] => j = cur[t] /\ future'[j] = "live"
          /\ pc'[t] = "register"
      BY <1>a, <2>2 DEF Goto, TypeOK
    <3>2. \A j \in Jobs : Queued(j)' => Queued(j)
      BY <2>1 DEF Queued
    <3>3. "register" \in Labels \ {"new"}
      BY RestFacts
    <3>4. Handling(t)
      BY <2>1, <2>2, <3>1, <3>2, <3>3 DEF Handling
    <3>5. QED
      BY <1>a, <1>v, <2>1, <2>2, <3>4, QuietNoting
  <2>3. CASE future' = future /\ Pumping(t) /\ Goto(t, "pumpFail")
    BY <1>a, <1>v, <2>1, <2>3, RestFacts, QuietHandling, QuietNoting
  <2>4. CASE /\ future' = future /\ ~Pumping(t)
             /\ \E l \in {"raised", "failed"} : Goto(t, l)
    <3>1. PICK l \in {"raised", "failed"} : Goto(t, l)
      BY <2>4
    <3>2. pc'[t] = l /\ l \in Labels \ {"new"} /\ l \notin HeldLabels
      BY <1>a, <3>1, RestFacts DEF Goto, TypeOK
    <3>3. ~Holds(t)' /\ cur[t] = t
      BY <2>4, <3>2 DEF Holds, HeldLabels, Pumping
    <3>4. \A j \in Jobs : Queued(j)' => Queued(j)
      BY <2>1 DEF Queued
    <3>5. Handling(t)
      BY <2>1, <2>4, <3>1, <3>2, <3>3, <3>4 DEF Handling
    <3>6. QED
      BY <1>a, <1>v, <2>1, <3>1, <3>5, QuietNoting
  <2>5. QED
    BY <1>2, <2>2, <2>3, <2>4 DEF PoolSubmit
<1>3. CASE Register(t)
  <2>1. /\ pc[t] = "register" /\ UNCHANGED <<queue, future, cur, jobVram>>
        /\ \/ Goto(t, "callback") /\ future[cur[t]] = "done"
           \/ Goto(t, "pumpCount") \/ Goto(t, "dispatched")
    BY <1>3 DEF Register
  <2>2. Handling(t)
    BY <1>a, <2>1, RestFacts, QuietHandling
  <2>3. CASE Goto(t, "callback") /\ future[cur[t]] = "done"
    <3>1. pc'[t] = "callback"
      BY <1>a, <2>3 DEF Goto, TypeOK
    <3>2. QED
      BY <1>v, <2>1, <2>2, <2>3, <3>1 DEF Noting
  <2>4. CASE Goto(t, "pumpCount") \/ Goto(t, "dispatched")
    BY <1>a, <1>v, <2>1, <2>2, <2>4, QuietNoting
  <2>5. QED
    BY <2>1, <2>3, <2>4
<1>4. CASE InlineCallback(t)
  <2>1. /\ pc[t] = "callback" /\ Goto(t, "cbRelease")
        /\ UNCHANGED <<queue, future, cur, jobVram>>
    BY <1>4 DEF InlineCallback
  <2>2. Handling(t)
    BY <1>a, <2>1, RestFacts, QuietHandling
  <2>3. pc'[t] = "cbRelease" /\ future[cur[t]] = "done"
    BY <1>a, <2>1 DEF Goto, TypeOK, Ownership
  <2>4. QED
    BY <1>v, <2>1, <2>2, <2>3 DEF Noting
<1>5. CASE CallbackRelease(t)
  <2>1. /\ pc[t] = "cbRelease" /\ Goto(t, "pump") /\ UNCHANGED <<queue, future>>
        /\ cur' = [cur EXCEPT ![t] = 0] /\ jobVram' = jobVram \ {cur[t]}
    BY <1>5 DEF CallbackRelease, ForgetVram
  <2>2. pc'[t] = "pump" /\ "pump" \in Labels \ {"new"} /\ "pump" \notin HeldLabels
    BY <1>a, <2>1, RestFacts DEF Goto, TypeOK
  <2>3. ~Holds(t)' /\ \A j \in Jobs : Queued(j)' => Queued(j)
    BY <2>1, <2>2 DEF Holds, HeldLabels, Queued
  <2>4. \A u \in Threads \ {t} : cur'[u] = cur[u]
    BY <1>a, <2>1 DEF TypeOK
  <2>5. Handling(t)
    BY <2>1, <2>2, <2>3, <2>4 DEF Handling
  <2>6. Noting(t)
    BY <2>1, <2>2 DEF Noting
  <2>7. QED
    BY <1>v, <2>5, <2>6
<1>6. CASE PumpEnter(t)
  <2>1. /\ pc[t] = "pump" /\ UNCHANGED <<queue, future, cur, jobVram>>
        /\ PumpReturn(t) \/ Goto(t, "pumpCount")
    BY <1>6 DEF PumpEnter
  <2>2. QED
    BY <1>a, <1>r, <1>v, <2>1, RestFacts, QuietHandling, QuietNoting
<1>7. CASE PumpCount(t) \/ PumpCountRaises(t)
  <2>1. /\ pc[t] = "pumpCount" /\ UNCHANGED <<queue, future, cur, jobVram>>
        /\ PumpReturn(t) \/ Goto(t, "pumpPop") \/ Goto(t, "idle")
    BY <1>7 DEF PumpCount, PumpCountRaises
  <2>2. QED
    BY <1>a, <1>r, <1>v, <2>1, RestFacts, QuietHandling, QuietNoting
<1>8. CASE PumpPop(t)
  <2>1. pc[t] = "pumpPop" /\ UNCHANGED <<future, jobVram>>
    BY <1>8 DEF PumpPop
  <2>2. CASE queue[pool[t]] = <<>>
    BY <1>r, <1>v, <1>8, <2>1, <2>2, RestFacts DEF PumpPop
  <2>3. CASE queue[pool[t]] # <<>>
    <3>1. /\ queue' = [queue EXCEPT ![pool[t]] = Tail(queue[pool[t]])]
          /\ cur' = [cur EXCEPT ![t] = Head(queue[pool[t]])]
          /\ Goto(t, "pumpGate")
      BY <1>8, <2>3 DEF PumpPop, TakeHead
    <3>2. /\ Head(queue[pool[t]]) \in ToSet(queue[pool[t]])
          /\ ToSet(Tail(queue[pool[t]])) \subseteq ToSet(queue[pool[t]])
      BY <1>a, <2>3, TailPlace DEF TypeOK
    <3>3. /\ \A p \in Pools : ToSet(queue'[p]) \subseteq ToSet(queue[p])
          /\ cur'[t] \in ToSet(queue[pool[t]]) /\ pc'[t] = "pumpGate"
          /\ \A u \in Threads \ {t} : cur'[u] = cur[u]
      BY <1>a, <3>1, <3>2 DEF Goto, TypeOK
    <3>4. Queued(cur'[t]) /\ \A j \in Jobs : Queued(j)' => Queued(j)
      BY <1>a, <3>3 DEF Queued
    <3>5. "pumpGate" \in Labels \ {"new"}
      BY RestFacts
    <3>6. Handling(t)
      BY <2>1, <3>1, <3>3, <3>4, <3>5 DEF Handling
    <3>7. QED
      BY <1>a, <1>v, <2>1, <3>1, <3>6, QuietNoting
  <2>4. QED
    BY <2>2, <2>3
<1>9. CASE PumpGate(t)
  <2>1. /\ pc[t] = "pumpGate" /\ UNCHANGED <<queue, future, cur, jobVram>>
        /\ Goto(t, "pumpBack") \/ Goto(t, "dispatch")
    BY <1>9 DEF PumpGate
  <2>2. QED
    BY <1>a, <1>v, <2>1, RestFacts, QuietHandling, QuietNoting
<1>10. CASE PumpBack(t) \/ PumpFail(t)
  <2>1. /\ pc[t] \in PumpLabels /\ PushFront(t) /\ PumpReturn(t)
        /\ UNCHANGED <<future, jobVram>>
    BY <1>10, RestFacts DEF PumpBack, PumpFail
  <2>2. PICK l \in RestLabels \ {"raised", "failed"} : Goto(t, l)
    BY <2>1, ReturnLabels
  <2>3. l \notin {"submit", "callback", "cbRelease"}
    BY <2>2, RestFacts
  <2>4. QED
    BY <1>a, <1>v, <2>1, <2>2, <2>3, PushHandling, QuietNoting
<1>11. QED
  BY <1>1, <1>2, <1>3, <1>4, <1>5, <1>6, <1>7, <1>8, <1>9, <1>10 DEF ThreadStep

(* submit_or_queue up to the dispatch.                                     *)
LEMMA SubmitterHandles ==
  ASSUME IInv, NEW j \in Jobs, SubmitterStep(j)
  PROVE  j \in Threads /\ Handling(j) /\ Noting(j) /\ UNCHANGED vram
<1> USE DEF At, ledgerVars, jobVars, frameVars
<1>1. /\ TypeOK /\ Placement /\ j \in Threads /\ pool[j] \in Pools
      /\ queue[pool[j]] \in Seq(Jobs)
  BY ConstFacts DEF IInv, TypeOK
<1>2. UNCHANGED <<vram, future, cur, jobVram>> /\ pc[j] \in SubmitLabels \ {"new"}
  BY RestFacts DEF SubmitterStep, SelectPool, VramGate, Park, CountSlots, Enqueue
<1>3. Holds(j) /\ cur[j] = j /\ future[j] = "none"
      /\ pc[j] \notin {"new", "raised", "failed"} /\ pc[j] \in HeldLabels
  <2>1. pc[j] \notin {"new", "raised", "failed"} /\ pc[j] \in HeldLabels
    BY <1>2, RestFacts
  <2>2. Holds(j)
    BY <2>1 DEF Holds, HeldLabels
  <2>3. pc[j] \notin Submitted
    BY <1>2, LabelFacts
  <2>4. QED
    BY <1>1, <1>2, <2>1, <2>2, <2>3 DEF Placement, Submitted
<1>4. CASE /\ UNCHANGED queue
           /\ \E l \in {"gate", "count", "park", "enqueue", "dispatch"} : Goto(j, l)
  <2>1. PICK l \in {"gate", "count", "park", "enqueue", "dispatch"} : Goto(j, l)
    BY <1>4
  <2>2. /\ l \in Labels \ {"new", "raised", "failed"}
        /\ l \notin {"submit", "callback", "cbRelease"}
    BY RestFacts
  <2>3. QED
    BY <1>1, <1>2, <1>3, <1>4, <2>1, <2>2, QuietHandling, QuietNoting
<1>5. CASE UNCHANGED queue /\ Goto(j, "raised")
  <2>1. pc'[j] = "raised" /\ "raised" \in Labels \ {"new"} /\ "raised" \notin HeldLabels
    BY <1>1, <1>5, RestFacts DEF Goto, TypeOK
  <2>2. ~Holds(j)' /\ \A k \in Jobs : Queued(k)' => Queued(k)
    BY <1>5, <2>1 DEF Holds, HeldLabels, Queued
  <2>3. Handling(j)
    BY <1>2, <1>3, <1>5, <2>1, <2>2 DEF Handling
  <2>4. QED
    BY <1>1, <1>2, <1>5, <2>3, QuietNoting
<1>6. CASE Park(j) \/ Enqueue(j)
  <2>1. /\ queue' = [queue EXCEPT ![pool[j]] = Append(queue[pool[j]], j)]
        /\ Goto(j, "queued")
    BY <1>6 DEF Park, Enqueue
  <2>2. pc'[j] = "queued" /\ "queued" \in Labels \ {"new"} /\ "queued" \notin HeldLabels
    BY <1>1, <2>1, RestFacts DEF Goto, TypeOK
  <2>3. ~Holds(j)'
    BY <2>2 DEF Holds, HeldLabels
  <2>4. ToSet(Append(queue[pool[j]], j)) = ToSet(queue[pool[j]]) \cup {j}
    BY <1>1, AppendPlace
  <2>5. \A p \in Pools : ToSet(queue'[p]) \subseteq ToSet(queue[p]) \cup {j}
    BY <1>1, <2>1, <2>4 DEF TypeOK
  <2>6. \A k \in Jobs : Queued(k)' => Queued(k) \/ k = j
    BY <2>5 DEF Queued
  <2>7. Handling(j)
    BY <1>2, <1>3, <2>1, <2>2, <2>3, <2>6 DEF Handling
  <2>8. QED
    BY <1>1, <1>2, <2>1, <2>7, QuietNoting
<1>7. QED
  <2>1. \/ Park(j) \/ Enqueue(j)
        \/ UNCHANGED queue /\ Goto(j, "raised")
        \/ /\ UNCHANGED queue
           /\ \E l \in {"gate", "count", "park", "enqueue", "dispatch"} : Goto(j, l)
    BY DEF SubmitterStep, SelectPool, VramGate, CountSlots
  <2>2. QED
    BY <1>4, <1>5, <1>6, <2>1

(* A management thread that begins the callback of a future that is done.  *)
LEMMA CallbackHandles ==
  ASSUME IInv, NEW e \in Managers, NEW j \in Jobs, BeginCallback(e, j)
  PROVE  e \in Threads /\ Handling(e) /\ Noting(e) /\ UNCHANGED vram
<1>1. /\ TypeOK /\ e \in Threads
      /\ pc[e] = "idle" /\ future[j] = "done" /\ Goto(e, "cbRelease")
      /\ cur' = [cur EXCEPT ![e] = j]
      /\ UNCHANGED <<vram, jobVram, queue, future>>
  BY ConstFacts DEF IInv, BeginCallback, At, ledgerVars
<1>2. /\ pc'[e] = "cbRelease" /\ "cbRelease" \in Labels \ {"new"}
      /\ cur'[e] = j
      /\ \A u \in Threads \ {e} : cur'[u] = cur[u]
  BY <1>1, RestFacts DEF Goto, TypeOK
<1>3. \A k \in Jobs : Queued(k)' => Queued(k)
  BY <1>1 DEF Queued
<1>4. Handling(e)
  BY <1>1, <1>2, <1>3 DEF Handling
<1>5. Noting(e)
  BY <1>1, <1>2 DEF Noting
<1>6. QED
  BY <1>1, <1>4, <1>5

(* The thread of PUT /execution.                                           *)
LEMMA ConfigHandles ==
  ASSUME IInv,
         ConfigStep \/ \E c, g \in NewSizes, on \in BOOLEAN : UpdateExecution(c, g, on)
  PROVE  Config \in Threads /\ Handling(Config) /\ Noting(Config) /\ UNCHANGED vram
<1>1. /\ \E l \in RestLabels \ {"raised", "failed"} : Goto(Config, l)
      /\ pc[Config] \in RestLabels \ {"raised", "failed"}
      /\ UNCHANGED <<queue, future, cur, vram, jobVram>>
  BY DEF ConfigStep, SwapCpu, RetireCpu, SwapGpu, RetireGpu, DropGpu, PumpBoth,
         UpdateExecution, At, RestLabels, ledgerVars, jobVars, frameVars
<1>2. PICK l \in RestLabels \ {"raised", "failed"} : Goto(Config, l)
  BY <1>1
<1>3. /\ l \in Labels \ {"new", "raised", "failed"} /\ l \notin HeldLabels
      /\ l \notin {"submit", "callback", "cbRelease"}
      /\ pc[Config] \notin {"new", "raised", "failed"}
  BY <1>1, <1>2, RestFacts
<1>4. TypeOK /\ Config \in Threads
  BY ConstFacts DEF IInv
<1>5. QED
  BY <1>1, <1>2, <1>3, <1>4, QuietHandling, QuietNoting

(* Finished or dead workers, and cancellations, change nobody's hands.     *)
LEMMA StaysOwnedByWorkers ==
  ASSUME TypeOK, Placement, Ownership, UNCHANGED <<vram, jobVram, queue, pc, cur, post>>,
         \A j \in Jobs : \/ future'[j] = future[j]
                         \/ future[j] = "live" /\ future'[j] = "done"
  PROVE  Ownership'
<1>1. \A j \in Jobs : Untouched(j) => Untouched(j)'
  BY DEF Untouched, Holds, Queued
<1>2. \A t \in Threads : pc[t] \in {"callback", "cbRelease"} => cur[t] \in Jobs
  BY RestFacts DEF Placement, Holds
<1>3. QED
  BY <1>1, <1>2 DEF Ownership

LEMMA ManagerKeepsOwnership ==
  ASSUME IInv, Ownership, ManagerStep \/ Requests, UNCHANGED post
  PROVE  Ownership' /\ UNCHANGED vram
<1>1. TypeOK /\ Placement
  BY DEF IInv
<1>2. ASSUME NEW t \in Threads, Handling(t), Noting(t), UNCHANGED vram
      PROVE  Ownership' /\ UNCHANGED vram
  BY <1>1, <1>2, StaysOwned
<1>3. CASE \E t \in Threads : ThreadStep(t)
  BY <1>2, <1>3, ThreadHandles
<1>4. CASE \E j \in Jobs : SubmitterStep(j)
  BY <1>2, <1>4, SubmitterHandles
<1>5. CASE \E e \in Managers, j \in Jobs : BeginCallback(e, j)
  BY <1>2, <1>5, CallbackHandles
<1>6. CASE ConfigStep \/ \E c, g \in NewSizes, on \in BOOLEAN : UpdateExecution(c, g, on)
  BY <1>2, <1>6, ConfigHandles
<1>7. CASE \E j \in Jobs : WorkerDone(j) \/ WorkerDies(j) \/ RequestCancellation(j)
  <2>1. /\ UNCHANGED <<vram, jobVram, queue, pc, cur>>
        /\ \A k \in Jobs : \/ future'[k] = future[k]
                           \/ future[k] = "live" /\ future'[k] = "done"
    BY <1>1, <1>7 DEF WorkerDone, WorkerDies, RequestCancellation, TypeOK,
                      ledgerVars, frameVars
  <2>2. QED
    BY <1>1, <2>1, StaysOwnedByWorkers
<1>8. QED
  BY <1>3, <1>4, <1>5, <1>6, <1>7 DEF ManagerStep, Requests

-----------------------------------------------------------------------------
(* The handler.                                                            *)

(* It moves a job only when it submits it.                                 *)
LEMMA HandlerKeepsIInv ==
  ASSUME IInv, Ownership, NEW j \in Jobs, HandlerStep(j)
  PROVE  IInv'
<1> USE DEF ledgerVars, jobVars, execVars, frameVars
<1>1. TypeOK /\ Placement /\ PoolsOK /\ j \in Threads
  BY ConstFacts DEF IInv
<1>2. used \in Nat /\ vram[j] \in Nat /\ Budget \in Nat
  <2>1. used \in Nat /\ vram[j] \in {0, Budget}
    BY <1>1 DEF TypeOK
  <2>2. QED
    BY <2>1, ProcessManagerAssumption
<1>3. CASE CreateRow(j)
  <2>1. pc[j] = "new" /\ Goto(j, "select") /\ {"new", "select"} \subseteq SubmitLabels
    BY <1>3, RestFacts DEF CreateRow, Ownership
  <2>2. TypeOK'
    <3>1. pc' \in [Threads -> Labels]
      BY <1>1, <2>1, RestFacts DEF Goto, TypeOK
    <3>2. QED
      BY <1>1, <1>3, <3>1 DEF CreateRow, TypeOK
  <2>3. Placement'
    BY <1>1, <1>3, <2>1, Moves DEF CreateRow
  <2>4. PoolsOK'
    <3>1. pc'[Config] = pc[Config] /\ UNCHANGED <<poolExec, nExec>>
      BY <1>1, <1>3, <2>1, ConstFacts DEF CreateRow, Goto, TypeOK
    <3>2. QED
      BY <1>1, <3>1 DEF PoolsOK
  <2>5. QED
    BY <2>2, <2>3, <2>4 DEF IInv
<1>4. CASE ~CreateRow(j)
  <2>1. UNCHANGED <<jobVram, pendingVram, queue, jobVars, execVars, pc, frameVars>>
    BY <1>4 DEF HandlerStep, Reserve, RefuseDuplicate, SubmitRefused,
                SubmitReturned, vars
  <2>2. used' \in Nat
    <3>1. used' = used \/ used' = used + Budget \/ ReleaseVram(vram[j])
      BY <1>4 DEF HandlerStep, Reserve, RefuseDuplicate, SubmitRefused,
                  SubmitReturned, GiveBack, vars
    <3>2. QED
      BY <1>2, <3>1 DEF ReleaseVram
  <2>3. vram' \in [Jobs -> {0, Budget}]
    <3>1. vram' = vram \/ vram' = [vram EXCEPT ![j] = Budget]
      BY <1>4 DEF HandlerStep, Reserve, RefuseDuplicate, SubmitRefused,
                  SubmitReturned, vars
    <3>2. QED
      BY <1>1, <3>1 DEF TypeOK
  <2>4. TypeOK'
    BY <1>1, <2>1, <2>2, <2>3 DEF TypeOK
  <2>5. Placement' /\ PoolsOK'
    BY <1>1, <2>1 DEF Placement, OnePlace, Holds, Queued, PoolsOK
  <2>6. QED
    BY <2>4, <2>5 DEF IInv
<1>5. QED
  BY <1>3, <1>4

LEMMA HandlerKeepsPost ==
  ASSUME post \in [Jobs -> PostStates], NEW j \in Jobs, HandlerStep(j)
  PROVE  /\ post' \in [Jobs -> PostStates]
         /\ \A k \in Jobs \ {j} : post'[k] = post[k]
<1>1. \E v \in PostStates : Answer(j, v)
  BY DEF HandlerStep, Reserve, CreateRow, RefuseDuplicate, SubmitRefused,
         SubmitReturned, PostStates
<1>2. QED
  BY <1>1 DEF Answer

(* Its steps on behalf of j leave the owners of other reservations alone,  *)
(* and j goes into the hands of its own thread.                            *)
LEMMA HandlerKeepsOwnership ==
  ASSUME IInv, Ownership, post \in [Jobs -> PostStates], NEW j \in Jobs, HandlerStep(j)
  PROVE  Ownership'
<1> USE DEF ledgerVars, jobVars, execVars, frameVars
<1>1. TypeOK /\ Placement /\ j \in Threads
  BY ConstFacts DEF IInv
<1>2. \A k \in Jobs \ {j} : post'[k] = post[k]
  BY HandlerKeepsPost
<1>3. UNCHANGED <<future, jobVram, queue, cur>>
  BY DEF HandlerStep, Reserve, CreateRow, RefuseDuplicate, SubmitRefused,
         SubmitReturned, vars
<1>f. {"submit", "callback", "cbRelease"} \subseteq FrameLabels
  BY DEF FrameLabels
<1>h. \A t \in Threads : pc[t] = "submit" => Holds(t) /\ cur[t] \in Jobs
  BY <1>1, <1>f DEF Holds, Placement
<1>4. CASE CreateRow(j)
  <2>1. /\ post'[j] = "submitted" /\ UNCHANGED vram /\ pc[j] = "new"
        /\ \A t \in Threads : pc'[t] = IF t = j THEN "select" ELSE pc[t]
    BY <1>1, <1>4 DEF CreateRow, Answer, Goto, Ownership, TypeOK
  <2>2. cur[j] = j /\ Holds(j)
    BY <1>1, <2>1, RestFacts DEF Holds, Placement
  <2>3. \A k \in Jobs \ {j} : Untouched(k) => Untouched(k)'
    <3> SUFFICES ASSUME NEW k \in Jobs \ {j}, Untouched(k) PROVE Untouched(k)'
      OBVIOUS
    <3>1. future'[k] = "none" /\ ~Queued(k)'
      BY <1>3 DEF Untouched, Queued
    <3>2. \A t \in Threads : Holds(t)' /\ cur'[t] = k => t # j /\ Holds(t) /\ cur[t] = k
      BY <1>3, <2>1, <2>2 DEF Holds
    <3>3. QED
      BY <1>3, <2>1, <3>1, <3>2 DEF Untouched
  <2>4. Jobs \subseteq Threads
    BY ConstFacts
  <2>5. \A k \in Jobs :
          /\ post'[k] = "new" => vram'[k] = 0
          /\ post'[k] \in {"new", "reserved"} => pc'[k] = "new"
          /\ post'[k] \in {"new", "reserved", "refused"} => Untouched(k)'
          /\ pc'[k] \in {"raised", "failed"} => Untouched(k)'
          /\ future'[k] = "live" /\ vram'[k] > 0 => k \in jobVram'
    BY <1>2, <1>3, <2>1, <2>3, <2>4 DEF Ownership
  <2>6. \A t \in Threads :
          /\ pc'[t] = "submit" /\ vram'[cur'[t]] > 0 => cur'[t] \in jobVram'
          /\ pc'[t] \in {"callback", "cbRelease"} => future'[cur'[t]] = "done"
    BY <1>3, <2>1 DEF Ownership
  <2>7. QED
    BY <2>5, <2>6 DEF Ownership
<1>5. CASE ~CreateRow(j)
  <2>1. UNCHANGED pc
    BY <1>5 DEF HandlerStep, Reserve, RefuseDuplicate, SubmitRefused,
                SubmitReturned, vars
  <2>2. \A k \in Jobs : Untouched(k)' <=> Untouched(k)
    BY <1>3, <2>1 DEF Untouched, Holds, Queued
  <2>3. /\ post'[j] # "new"
        /\ post'[j] = "reserved" => post[j] = "new"
        /\ post'[j] = "refused" => \/ post[j] \in {"new", "reserved"}
                                  \/ pc[j] = "raised"
    BY <1>5 DEF HandlerStep, Reserve, RefuseDuplicate, SubmitRefused,
                SubmitReturned, Answer, At, PostStates
  <2>4. /\ \A k \in Jobs \ {j} : vram'[k] = vram[k]
        /\ vram' # vram => post[j] = "new"
    <3>1. \/ vram' = vram
          \/ vram' = [vram EXCEPT ![j] = Budget] /\ post[j] = "new"
      BY <1>5 DEF HandlerStep, Reserve, RefuseDuplicate, SubmitRefused,
                  SubmitReturned, vars
    <3>2. QED
      BY <1>1, <3>1 DEF TypeOK
  <2>5. post[j] = "new" => /\ future[j] = "none"
                           /\ \A t \in Threads : pc[t] = "submit" => cur[t] # j
    BY <1>h DEF Ownership, Untouched
  <2>6. \A k \in Jobs :
          /\ post'[k] = "new" => vram'[k] = 0
          /\ post'[k] \in {"new", "reserved"} => pc'[k] = "new"
          /\ post'[k] \in {"new", "reserved", "refused"} => Untouched(k)'
          /\ pc'[k] \in {"raised", "failed"} => Untouched(k)'
    BY <1>2, <2>1, <2>2, <2>3, <2>4 DEF Ownership
  <2>7. \A k \in Jobs : future'[k] = "live" /\ vram'[k] > 0 => k \in jobVram'
    BY <1>3, <2>4, <2>5 DEF Ownership
  <2>8. \A t \in Threads :
          /\ pc'[t] = "submit" /\ vram'[cur'[t]] > 0 => cur'[t] \in jobVram'
          /\ pc'[t] \in {"callback", "cbRelease"} => future'[cur'[t]] = "done"
    BY <1>3, <1>h, <2>1, <2>4, <2>5 DEF Ownership
  <2>9. QED
    BY <2>6, <2>7, <2>8 DEF Ownership
<1>6. QED
  BY <1>4, <1>5

-----------------------------------------------------------------------------
(* The ledger.                                                             *)

(* What a step that gives nothing back does to the ledger.                 *)
Paying ==
  /\ used' = used \/ (used <= used' /\ used' <= TotalVram)
  /\ \A j \in Jobs : future'[j] = "none" => future[j] = "none"
  /\ \A j \in jobVram' : j \in jobVram \/ future[j] = "none"

LEMMA PayingCovers ==
  ASSUME TypeOK, TypeOK', ReservationsCovered, LedgerWithinTotal, Paying,
         UNCHANGED <<vram, post>>
  PROVE  ReservationsCovered' /\ LedgerWithinTotal'
<1>1. Reservations' \subseteq Reservations
  BY DEF Reservations, Paying
<1>2. used \in Nat /\ used <= used'
  BY DEF TypeOK, Paying
<1>3. ReservationsCovered'
  BY <1>1, <1>2, StillCovered
<1>4. QED
  BY <1>3 DEF Paying, LedgerWithinTotal

(* Either gate takes a budget only when it fits.                           *)
LEMMA GatePays ==
  ASSUME TypeOK, NEW j \in Jobs, HasRoom(j), AllocateVram(j)
  PROVE  used <= used' /\ used' <= TotalVram
<1>1. used \in Nat /\ vram[j] \in Nat /\ TotalVram \in Nat
  <2>1. vram[j] \in {0, Budget} /\ used \in Nat
    BY DEF TypeOK
  <2>2. QED
    BY <2>1, ProcessManagerAssumption
<1>2. QED
  BY <1>1 DEF HasRoom, Fits, AllocateVram

(* Every step of the manager but the release in the done callback.         *)
LEMMA ManagerPays ==
  ASSUME IInv, ManagerStep \/ Requests, ~\E t \in Threads : CallbackRelease(t)
  PROVE  Paying
<1> USE DEF At, ledgerVars, jobVars, frameVars
<1>a. TypeOK /\ Placement /\ used \in Nat
  BY DEF IInv, TypeOK
<1>1. ASSUME UNCHANGED <<used, jobVram, future>>
      PROVE  Paying
  BY <1>1 DEF Paying
<1>2. ASSUME NEW t \in Threads, ThreadStep(t)
      PROVE  Paying
  <2>1. CASE Dispatch(t)
    <3>1. /\ pc[t] = "dispatch" /\ UNCHANGED <<used, future>>
          /\ \A j \in jobVram' : j \in jobVram \/ j = cur[t]
      BY <2>1 DEF Dispatch, NoteVram
    <3>2. Holds(t) /\ pc[t] \notin Submitted
      BY <3>1, RestFacts DEF Holds, Submitted
    <3>3. future[cur[t]] = "none"
      BY <1>a, <3>2 DEF Placement, Submitted
    <3>4. QED
      BY <3>1, <3>3 DEF Paying
  <2>2. CASE PoolSubmit(t)
    <3>1. /\ UNCHANGED <<used, jobVram>>
          /\ \A j \in Jobs : future'[j] = "none" => future[j] = "none"
      BY <1>a, <2>2 DEF PoolSubmit, TypeOK
    <3>2. QED
      BY <3>1 DEF Paying
  <2>3. CASE PumpGate(t)
    <3>1. pc[t] = "pumpGate" /\ UNCHANGED <<jobVram, future>>
      BY <2>3 DEF PumpGate
    <3>2. cur[t] \in Jobs
      BY <1>a, <3>1, RestFacts DEF Placement, Holds
    <3>3. used' = used \/ (HasRoom(cur[t]) /\ AllocateVram(cur[t]))
      BY <2>3 DEF PumpGate
    <3>4. QED
      BY <1>a, <3>1, <3>2, <3>3, GatePays DEF Paying
  <2>4. CASE \/ Register(t) \/ InlineCallback(t) \/ PumpEnter(t) \/ PumpCount(t)
             \/ PumpCountRaises(t) \/ PumpPop(t) \/ PumpBack(t) \/ PumpFail(t)
    <3>1. UNCHANGED <<used, jobVram, future>>
      BY <2>4 DEF Register, InlineCallback, PumpEnter, PumpCount, PumpCountRaises,
                  PumpPop, PumpBack, PumpFail
    <3>2. QED
      BY <1>1, <3>1
  <2>5. ~CallbackRelease(t)
    OBVIOUS
  <2>6. QED
    BY <1>2, <2>1, <2>2, <2>3, <2>4, <2>5 DEF ThreadStep
<1>3. ASSUME NEW j \in Jobs, SubmitterStep(j)
      PROVE  Paying
  <2>1. UNCHANGED <<jobVram, future>>
    BY <1>3 DEF SubmitterStep, SelectPool, VramGate, Park, CountSlots, Enqueue
  <2>2. used' = used \/ (HasRoom(j) /\ AllocateVram(j))
    BY <1>3 DEF SubmitterStep, SelectPool, VramGate, Park, CountSlots, Enqueue
  <2>3. QED
    BY <1>a, <2>1, <2>2, GatePays DEF Paying
<1>4. CASE \/ \E e \in Managers, j \in Jobs : BeginCallback(e, j)
           \/ ConfigStep \/ Requests
  <2>1. UNCHANGED <<used, jobVram, future>>
    BY <1>4 DEF BeginCallback, ConfigStep, SwapCpu, RetireCpu, SwapGpu, RetireGpu,
                DropGpu, PumpBoth, Requests, RequestCancellation, UpdateExecution
  <2>2. QED
    BY <1>1, <2>1
<1>5. CASE \E j \in Jobs : WorkerDone(j) \/ WorkerDies(j)
  <2>1. UNCHANGED <<used, jobVram>>
    BY <1>5 DEF WorkerDone, WorkerDies
  <2>2. \A k \in Jobs : future'[k] = "none" => future[k] = "none"
    BY <1>a, <1>5 DEF WorkerDone, WorkerDies, TypeOK
  <2>3. QED
    BY <2>1, <2>2 DEF Paying
<1>6. QED
  BY <1>2, <1>3, <1>4, <1>5 DEF ManagerStep

(* The release in the done callback is the owner's.                        *)
LEMMA CallbackCovers ==
  ASSUME IInv, TypeOK', Ownership, ReservationsCovered, LedgerWithinTotal,
         NEW t \in Threads, CallbackRelease(t), UNCHANGED post
  PROVE  ReservationsCovered' /\ LedgerWithinTotal'
<1> DEFINE j == cur[t]
<1>1. /\ pc[t] = "cbRelease" /\ jobVram' = jobVram \ {j}
      /\ ReleaseVram(IF j \in jobVram THEN vram[j] ELSE 0)
      /\ UNCHANGED <<vram, future>>
  BY DEF CallbackRelease, ForgetVram, At, jobVars
<1>2. TypeOK /\ j \in Jobs /\ future[j] = "done"
  BY <1>1, RestFacts DEF IInv, Placement, Holds, Ownership
<1>3. used \in Nat /\ vram[j] \in {0, Budget} /\ Budget \in Nat \ {0} /\ TotalVram \in Nat
  BY <1>2, ProcessManagerAssumption DEF TypeOK
<1>4. CASE j \in jobVram /\ vram[j] = Budget
  <2>1. post[j] \notin {"new", "refused"}
    BY <1>2 DEF Ownership, Untouched
  <2>2. j \in Reservations
    BY <1>2, <1>3, <1>4, <2>1 DEF Reservations
  <2>3. Reservations' \subseteq Reservations \ {j}
    BY <1>1, <1>2 DEF Reservations
  <2>4. ReleaseVram(Budget)
    BY <1>1, <1>4
  <2>5. ReservationsCovered' /\ used' <= used
    BY <1>2, <2>2, <2>3, <2>4, GivenBack
  <2>6. QED
    BY <1>3, <2>5 DEF LedgerWithinTotal, TypeOK
<1>5. CASE ~(j \in jobVram /\ vram[j] = Budget)
  <2>1. ReleaseVram(0)
    BY <1>1, <1>3, <1>5
  <2>2. used' = used
    BY <1>3, <2>1 DEF ReleaseVram
  <2>3. Paying
    BY <1>1, <2>2 DEF Paying
  <2>4. QED
    BY <1>1, <1>2, <2>3, PayingCovers
<1>6. QED
  BY <1>4, <1>5

(* The handler reserves what fits, and gives back what it owns.            *)
LEMMA HandlerCovers ==
  ASSUME IInv, TypeOK', post \in [Jobs -> PostStates], Ownership,
         ReservationsCovered, LedgerWithinTotal, NEW j \in Jobs, HandlerStep(j)
  PROVE  ReservationsCovered' /\ LedgerWithinTotal'
<1> USE DEF ledgerVars, jobVars
<1>1. TypeOK /\ used \in Nat /\ used' \in Nat /\ vram[j] \in {0, Budget}
      /\ Budget \in Nat \ {0} /\ TotalVram \in Nat /\ used <= TotalVram
  BY ProcessManagerAssumption DEF IInv, TypeOK, LedgerWithinTotal
<1>2. UNCHANGED <<future, jobVram>> /\ \A k \in Jobs \ {j} : post'[k] = post[k]
  BY HandlerKeepsPost DEF HandlerStep, Reserve, CreateRow, RefuseDuplicate,
     SubmitRefused, SubmitReturned, vars
<1>3. CASE Reserve(j) /\ ~UNCHANGED <<used, vram>>
  <2>1. /\ Fits(Budget) /\ used' = used + Budget /\ post[j] = "new"
        /\ vram' = [vram EXCEPT ![j] = Budget]
    BY <1>3 DEF Reserve
  <2>2. used' <= TotalVram
    BY <1>1, <2>1 DEF Fits
  <2>3. Reservations' \ {j} \subseteq Reservations
    BY <1>1, <1>2, <2>1 DEF Reservations, TypeOK
  <2>4. Cardinality(Reservations') <= Cardinality(Reservations) + 1
        /\ Cardinality(Reservations') \in Nat /\ Cardinality(Reservations) \in Nat
    <3>1. IsFiniteSet(Reservations)
      BY FS_Subset, ProcessManagerAssumption DEF Reservations
    <3>2. /\ IsFiniteSet(Reservations \cup {j})
          /\ Cardinality(Reservations \cup {j}) \in Nat
          /\ Cardinality(Reservations) \in Nat
          /\ Cardinality(Reservations \cup {j}) <= Cardinality(Reservations) + 1
      <4>1. IsFiniteSet(Reservations \cup {j}) /\ Cardinality(Reservations) \in Nat
        BY <3>1, FS_AddElement, FS_CardinalityType
      <4>2. \/ Cardinality(Reservations \cup {j}) = Cardinality(Reservations)
            \/ Cardinality(Reservations \cup {j}) = Cardinality(Reservations) + 1
        BY <3>1, FS_AddElement
      <4>3. QED
        BY <4>1, <4>2
    <3>3. Reservations' \subseteq Reservations \cup {j}
      BY <2>3
    <3>4. /\ Cardinality(Reservations') <= Cardinality(Reservations \cup {j})
          /\ IsFiniteSet(Reservations')
      BY <3>2, <3>3, FS_Subset
    <3>5. Cardinality(Reservations') \in Nat
      BY <3>4, FS_CardinalityType
    <3>6. QED
      BY <3>2, <3>4, <3>5
  <2>5. /\ Budget * Cardinality(Reservations') \in Nat
        /\ Budget * Cardinality(Reservations) \in Nat
        /\ Budget * Cardinality(Reservations')
             <= Budget * Cardinality(Reservations) + Budget
    BY <2>4, Times
  <2>6. Budget * Cardinality(Reservations') <= used'
    BY <1>1, <2>1, <2>5 DEF ReservationsCovered
  <2>7. QED
    BY <2>2, <2>6 DEF ReservationsCovered, LedgerWithinTotal
<1>4. CASE RefuseDuplicate(j) \/ SubmitRefused(j)
  <2>1. /\ post[j] \notin {"new", "refused"} /\ post'[j] = "refused"
        /\ ReleaseVram(vram[j]) /\ UNCHANGED vram
    BY <1>4 DEF RefuseDuplicate, SubmitRefused, Answer, GiveBack, PostStates
  <2>2. future[j] = "none"
    BY <1>4 DEF RefuseDuplicate, SubmitRefused, At, Ownership, Untouched
  <2>3. Reservations' \subseteq Reservations \ {j}
    BY <1>2, <2>1 DEF Reservations
  <2>4. CASE vram[j] = Budget
    <3>1. j \in Reservations
      BY <1>1, <2>1, <2>2, <2>4 DEF Reservations
    <3>2. ReservationsCovered' /\ used' <= used
      BY <1>1, <2>1, <2>3, <2>4, <3>1, GivenBack
    <3>3. QED
      BY <1>1, <3>2 DEF LedgerWithinTotal
  <2>5. CASE vram[j] = 0
    <3>1. used' = used
      BY <1>1, <2>1, <2>5 DEF ReleaseVram
    <3>2. Reservations' \subseteq Reservations /\ used <= used'
      BY <1>1, <2>3, <3>1
    <3>3. ReservationsCovered'
      BY <1>1, <3>2, StillCovered
    <3>4. QED
      BY <3>1, <3>3 DEF LedgerWithinTotal
  <2>6. QED
    BY <1>1, <2>4, <2>5
<1>5. CASE UNCHANGED <<used, vram>>
  <2>1. \A k \in Jobs : post'[k] = post[k] \/ post[k] \notin {"new", "refused"}
                        \/ vram[k] = 0
    BY <1>2, <1>5 DEF HandlerStep, Reserve, CreateRow, RefuseDuplicate,
       SubmitRefused, SubmitReturned, Ownership
  <2>2. Reservations' \subseteq Reservations /\ used <= used'
    BY <1>1, <1>2, <1>5, <2>1 DEF Reservations, TypeOK
  <2>3. ReservationsCovered'
    BY <1>1, <2>2, StillCovered
  <2>4. QED
    BY <1>5, <2>3 DEF LedgerWithinTotal
<1>6. QED
  <2>1. \/ Reserve(j) /\ ~UNCHANGED <<used, vram>>
        \/ RefuseDuplicate(j) \/ SubmitRefused(j)
        \/ UNCHANGED <<used, vram>>
    BY DEF HandlerStep, Reserve, CreateRow, SubmitReturned, vars
  <2>2. QED
    BY <1>3, <1>4, <1>5, <2>1

-----------------------------------------------------------------------------
(* The inductive invariant.                                                *)

LEMMA EndpointInitInv == EndpointInit => EndpointInv
<1> SUFFICES ASSUME EndpointInit PROVE EndpointInv
  OBVIOUS
<1>1. IInv
  BY InitIInv DEF EndpointInit
<1>2. /\ \A j \in Jobs : vram[j] = 0 /\ future[j] = "none" /\ pc[j] = "new"
                           /\ post[j] = "new"
      /\ \A t \in Threads : pc[t] \in {"new", "idle"}
      /\ \A t \in Threads : pc[t] = "new" => t \in Jobs /\ cur[t] = t
      /\ used = 0
  BY ConstFacts DEF EndpointInit, Init
<1>3. \A j \in Jobs : Untouched(j)
  <2>1. \A t \in Threads : Holds(t) => pc[t] = "new"
    <3>1. "idle" \notin HeldLabels
      BY RestFacts
    <3>2. QED
      BY <1>2, <3>1 DEF Holds, HeldLabels
  <2>2. \A j \in Jobs : ~Queued(j)
    BY DEF EndpointInit, Init, Queued, ToSet
  <2>3. QED
    BY <1>2, <2>1, <2>2 DEF Untouched
<1>4. Ownership
  <2>1. \A j \in Jobs : future[j] # "live"
    BY <1>2
  <2>2. \A j \in Jobs : pc[j] \notin {"raised", "failed"}
    BY <1>2
  <2>3. \A t \in Threads : pc[t] # "submit" /\ pc[t] \notin {"callback", "cbRelease"}
    <3>1. \A t \in Threads : pc[t] \in {"new", "idle"}
      BY <1>2
    <3>2. QED
      BY <3>1
  <2>4. QED
    BY <1>2, <1>3, <2>1, <2>2, <2>3 DEF Ownership
<1>5. ReservationsCovered
  <2>1. Reservations = {}
    BY <1>2 DEF Reservations
  <2>2. Cardinality({}) = 0
    BY FS_EmptySet
  <2>3. QED
    BY <1>2, <2>1, <2>2, ProcessManagerAssumption DEF ReservationsCovered
<1>6. LedgerWithinTotal
  BY <1>2, ProcessManagerAssumption DEF LedgerWithinTotal
<1>7. post \in [Jobs -> PostStates]
  BY DEF EndpointInit, PostStates
<1>8. QED
  BY <1>1, <1>4, <1>5, <1>6, <1>7 DEF EndpointInv

LEMMA EndpointNextInv == EndpointInv /\ [EndpointNext]_evars => EndpointInv'
<1> SUFFICES ASSUME EndpointInv, [EndpointNext]_evars PROVE EndpointInv'
  OBVIOUS
<1>1. /\ IInv /\ TypeOK /\ post \in [Jobs -> PostStates] /\ Ownership
      /\ ReservationsCovered /\ LedgerWithinTotal
  BY DEF EndpointInv, IInv
<1>2. CASE \E j \in Jobs : HandlerStep(j)
  <2>1. IInv' /\ TypeOK'
    BY <1>1, <1>2, HandlerKeepsIInv DEF IInv
  <2>2. post' \in [Jobs -> PostStates]
    BY <1>1, <1>2, HandlerKeepsPost
  <2>3. Ownership'
    BY <1>1, <1>2, HandlerKeepsOwnership
  <2>4. ReservationsCovered' /\ LedgerWithinTotal'
    BY <1>1, <1>2, <2>1, HandlerCovers
  <2>5. QED
    BY <2>1, <2>2, <2>3, <2>4 DEF EndpointInv
<1>3. CASE (ManagerStep \/ Requests) /\ UNCHANGED post
  <2>1. IInv' /\ TypeOK'
    BY <1>1, <1>3, NextIInv DEF Next, IInv
  <2>2. Ownership' /\ UNCHANGED vram
    BY <1>1, <1>3, ManagerKeepsOwnership
  <2>3. ReservationsCovered' /\ LedgerWithinTotal'
    <3>1. CASE \E t \in Threads : CallbackRelease(t)
      BY <1>1, <1>3, <2>1, <3>1, CallbackCovers
    <3>2. CASE ~\E t \in Threads : CallbackRelease(t)
      <4>1. Paying
        BY <1>1, <1>3, <3>2, ManagerPays
      <4>2. QED
        BY <1>1, <1>3, <2>1, <2>2, <4>1, PayingCovers
    <3>3. QED
      BY <3>1, <3>2
  <2>4. QED
    BY <1>1, <1>3, <2>1, <2>2, <2>3 DEF EndpointInv
<1>4. CASE UNCHANGED evars
  <2>1. UNCHANGED vars /\ UNCHANGED post
    BY <1>4 DEF evars
  <2>2. IInv'
    BY <1>1, <2>1, NextIInv
  <2>3. /\ UNCHANGED <<used, vram, jobVram, queue, future, pc, cur>>
    BY <2>1 DEF vars, ledgerVars, jobVars, frameVars
  <2>4. Ownership'
    BY <1>1, <2>1, <2>3 DEF Ownership, Untouched, Holds, Queued
  <2>5. ReservationsCovered' /\ LedgerWithinTotal'
    BY <1>1, <2>1, <2>3 DEF ReservationsCovered, Reservations, LedgerWithinTotal
  <2>6. QED
    BY <1>1, <2>1, <2>2, <2>4, <2>5 DEF EndpointInv
<1>5. QED
  BY <1>2, <1>3, <1>4 DEF EndpointNext

(* The invariant of the handler and the manager together.                  *)
THEOREM EndpointInductive == EndpointSpec => []EndpointInv
<1>1. QED
  BY EndpointInitInv, EndpointNextInv, PTL DEF EndpointSpec

(* Each release is made by the owner of a reservation that is paid for, so *)
(* the max(0, ..) of release_vram never hides memory taken from another    *)
(* job.                                                                    *)
THEOREM ReservationsStayCovered == EndpointSpec => []ReservationsCovered
<1>1. EndpointInv => ReservationsCovered
  BY DEF EndpointInv
<1>2. QED
  BY <1>1, EndpointInductive, PTL

(* allocate_vram refuses what does not fit.                                *)
THEOREM LedgerStaysWithinTotal == EndpointSpec => []LedgerWithinTotal
<1>1. EndpointInv => LedgerWithinTotal
  BY DEF EndpointInv
<1>2. QED
  BY <1>1, EndpointInductive, PTL

(* The backtests that run on the card at any time fit in it together,      *)
(* although the ledger counts an accepted job twice, the queue of parked   *)
(* jobs is pumped by several threads, and workers die.                     *)
THEOREM RunningJobsFit == EndpointSpec => []GpuFits
<1>1. ASSUME EndpointInv
      PROVE  GpuFits
  <2> DEFINE Running == {j \in Jobs : future[j] = "live" /\ vram[j] > 0}
  <2>1. Running \in SUBSET Reservations
    BY <1>1 DEF EndpointInv, Ownership, Untouched, Reservations
  <2>2. Reservations \in SUBSET Jobs
    BY DEF Reservations
  <2>3. /\ Cardinality(Running) \in Nat /\ Cardinality(Reservations) \in Nat
        /\ Cardinality(Running) <= Cardinality(Reservations)
    BY <2>1, <2>2, JobSets
  <2>4. /\ Budget * Cardinality(Running) \in Nat
        /\ Budget * Cardinality(Reservations) \in Nat
        /\ Budget * Cardinality(Running) <= Budget * Cardinality(Reservations)
    BY <2>3, Times
  <2>5. /\ Budget * Cardinality(Reservations) <= used /\ used <= TotalVram
        /\ used \in Nat /\ TotalVram \in Nat
    BY <1>1, ProcessManagerAssumption
       DEF EndpointInv, IInv, TypeOK, ReservationsCovered, LedgerWithinTotal
  <2>6. Budget * Cardinality(Running) <= TotalVram
    BY <2>4, <2>5
  <2>7. QED
    BY <2>6 DEF GpuFits
<1>2. QED
  BY <1>1, EndpointInductive, PTL

-----------------------------------------------------------------------------
(* The endpoint implements the service.                                    *)

LEMMA ServiceStarts == EndpointInit => Service!ServiceInit
<1> SUFFICES ASSUME EndpointInit PROVE Service!ServiceInit
  OBVIOUS
<1>1. \A j \in Jobs : future[j] = "none"
  BY DEF EndpointInit, Init
<1>2. RunOf = [j \in Jobs |-> "waiting"]
  BY <1>1 DEF RunOf
<1>3. OnCard = {}
  BY <1>1 DEF OnCard
<1>4. QED
  BY <1>2, <1>3 DEF Service!ServiceInit

(* A step that starts and ends nothing is not seen by the service, even    *)
(* one that reserves memory for a job that has not started.                *)
LEMMA ServiceStutters ==
  ASSUME UNCHANGED future,
         \A j \in Jobs : future[j] = "live" => vram'[j] = vram[j]
  PROVE  UNCHANGED <<RunOf, OnCard>>
<1>1. RunOf' = RunOf
  BY DEF RunOf
<1>2. OnCard' = OnCard
  BY DEF OnCard
<1>3. QED
  BY <1>1, <1>2

(* pool.submit starts the job in hand, which fits if it has a reservation. *)
LEMMA ServiceStart ==
  ASSUME TypeOK, GpuFits', NEW j \in Jobs, future[j] = "none",
         future' = [future EXCEPT ![j] = "live"], UNCHANGED vram
  PROVE  Service!StartOnCpu(j) \/ Service!StartOnCard(j)
<1>1. \A k \in Jobs : future'[k] = IF k = j THEN "live" ELSE future[k]
  BY DEF TypeOK
<1>2. RunOf[j] = "waiting" /\ RunOf' = [RunOf EXCEPT ![j] = "running"]
  <2>1. RunOf[j] = "waiting" /\ RunOf'[j] = "running"
    BY <1>1 DEF RunOf
  <2>2. \A k \in Jobs \ {j} : RunOf'[k] = RunOf[k]
    BY <1>1 DEF RunOf
  <2>3. /\ RunOf = [k \in Jobs |-> RunOf[k]]
        /\ RunOf' = [k \in Jobs |-> RunOf'[k]]
    BY DEF RunOf
  <2>4. QED
    BY <2>1, <2>2, <2>3
<1>3. CASE vram[j] > 0
  <2>1. OnCard' = OnCard \cup {j}
    BY <1>1, <1>3 DEF OnCard
  <2>2. Budget * Cardinality(OnCard \cup {j}) <= TotalVram
    BY <2>1 DEF GpuFits, OnCard
  <2>3. Service!Cardinality(OnCard \cup {j}) = Cardinality(OnCard \cup {j})
    BY Zenon DEF Service!Cardinality, Cardinality
  <2>4. QED
    BY <1>2, <2>1, <2>2, <2>3 DEF Service!StartOnCard
<1>4. CASE ~(vram[j] > 0)
  <2>1. OnCard' = OnCard
    BY <1>1, <1>4 DEF OnCard
  <2>2. QED
    BY <1>2, <2>1 DEF Service!StartOnCpu
<1>5. QED
  BY <1>3, <1>4

(* A worker that returns, raises or dies ends the jobs it leaves behind.   *)
LEMMA ServiceEnds ==
  ASSUME TypeOK, UNCHANGED vram,
         \A k \in Jobs : \/ future'[k] = future[k]
                         \/ future[k] = "live" /\ future'[k] = "done"
  PROVE  \E S \in SUBSET Jobs : Service!EndSome(S)
<1> DEFINE S == {k \in Jobs : future[k] = "live" /\ future'[k] = "done"}
<1>1. \A k \in S : RunOf[k] = "running"
  BY DEF RunOf
<1>2. RunOf' = [k \in Jobs |-> IF k \in S THEN "ended" ELSE RunOf[k]]
  <2>1. \A k \in S : RunOf'[k] = "ended"
    BY DEF RunOf
  <2>2. \A k \in Jobs \ S : RunOf'[k] = RunOf[k]
    BY DEF RunOf
  <2>3. RunOf' = [k \in Jobs |-> RunOf'[k]]
    BY DEF RunOf
  <2>4. QED
    BY <2>1, <2>2, <2>3
<1>3. OnCard' = OnCard \ S
  BY DEF OnCard
<1>4. Service!EndSome(S)
  BY <1>1, <1>2, <1>3 DEF Service!EndSome
<1>5. QED
  BY <1>4

LEMMA ServiceSteps ==
  EndpointInv /\ GpuFits' /\ [EndpointNext]_evars
    => [Service!ServiceNext]_<<RunOf, OnCard>>
<1> SUFFICES ASSUME EndpointInv, GpuFits', [EndpointNext]_evars
             PROVE  \/ Service!ServiceNext
                    \/ UNCHANGED <<RunOf, OnCard>>
  OBVIOUS
<1>1. IInv /\ TypeOK /\ Placement /\ Ownership /\ post \in [Jobs -> PostStates]
  BY DEF EndpointInv, IInv
<1>2. CASE \E j \in Jobs : HandlerStep(j)
  <2>1. PICK j \in Jobs : HandlerStep(j)
    BY <1>2
  <2>2. UNCHANGED future
    BY <2>1 DEF HandlerStep, Reserve, CreateRow, RefuseDuplicate, SubmitRefused,
                SubmitReturned, vars, jobVars
  <2>3. \/ vram' = vram
        \/ vram' = [vram EXCEPT ![j] = Budget] /\ post[j] = "new"
    BY <2>1 DEF HandlerStep, Reserve, CreateRow, RefuseDuplicate, SubmitRefused,
                SubmitReturned, vars
  <2>4. post[j] = "new" => future[j] = "none"
    BY <1>1 DEF Ownership, Untouched
  <2>5. \A k \in Jobs : future[k] = "live" => vram'[k] = vram[k]
    BY <1>1, <2>3, <2>4 DEF TypeOK
  <2>6. QED
    BY <2>2, <2>5, ServiceStutters
<1>3. CASE (ManagerStep \/ Requests) /\ UNCHANGED post
  <2>1. UNCHANGED vram
    BY <1>1, <1>3, ManagerKeepsOwnership
  <2>2. CASE UNCHANGED future
    BY <2>1, <2>2, ServiceStutters
  <2>3. ASSUME NEW t \in Threads, PoolSubmit(t), future' # future
        PROVE  Service!ServiceNext
    <3>1. pc[t] = "submit" /\ future' = [future EXCEPT ![cur[t]] = "live"]
      BY <2>3 DEF PoolSubmit, At
    <3>2. Holds(t) /\ pc[t] \notin Submitted
      BY <3>1, RestFacts DEF Holds, Submitted
    <3>3. cur[t] \in Jobs /\ future[cur[t]] = "none"
      BY <1>1, <3>2 DEF Placement, Submitted, TypeOK
    <3>4. Service!StartOnCpu(cur[t]) \/ Service!StartOnCard(cur[t])
      BY <1>1, <2>1, <3>1, <3>3, ServiceStart
    <3>5. QED
      BY <3>3, <3>4 DEF Service!ServiceNext
  <2>4. ASSUME NEW j \in Jobs, WorkerDone(j) \/ WorkerDies(j)
        PROVE  Service!ServiceNext
    <3>1. \A k \in Jobs : \/ future'[k] = future[k]
                          \/ future[k] = "live" /\ future'[k] = "done"
      BY <1>1, <2>4 DEF WorkerDone, WorkerDies, TypeOK
    <3>2. QED
      BY <1>1, <2>1, <3>1, ServiceEnds DEF Service!ServiceNext
  <2>5. \/ UNCHANGED future
        \/ \E t \in Threads : PoolSubmit(t)
        \/ \E j \in Jobs : WorkerDone(j) \/ WorkerDies(j)
    BY <1>3 DEF ManagerStep, Requests, ThreadStep, Dispatch, Register,
       InlineCallback, CallbackRelease, PumpEnter, PumpCount, PumpCountRaises,
       PumpPop, PumpGate, PumpBack, PumpFail, SubmitterStep, SelectPool,
       VramGate, Park, CountSlots, Enqueue, BeginCallback, ConfigStep, SwapCpu,
       RetireCpu, SwapGpu, RetireGpu, DropGpu, PumpBoth, RequestCancellation,
       UpdateExecution, jobVars
  <2>6. QED
    BY <2>2, <2>3, <2>4, <2>5
<1>4. CASE UNCHANGED evars
  BY <1>4, ServiceStutters DEF evars, vars, jobVars
<1>5. QED
  BY <1>2, <1>3, <1>4 DEF EndpointNext

(* Seen from outside, each backtest starts at most once, ends once, and is *)
(* started on the card only when it fits.                                  *)
THEOREM EndpointImplementsService == EndpointSpec => ImplementsService
<1>1. EndpointInit => Service!ServiceInit
  BY ServiceStarts
<1>2. EndpointInv /\ GpuFits' /\ [EndpointNext]_evars
        => [Service!ServiceNext]_<<RunOf, OnCard>>
  BY ServiceSteps
<1>3. QED
  BY <1>1, <1>2, EndpointInductive, RunningJobsFit, PTL
     DEF EndpointSpec, ImplementsService, Service!ServiceSpec

-----------------------------------------------------------------------------
(* A running job is in the books.                                          *)

(* The callback of a live future is attached, or about to be; its flag is  *)
(* there from _dispatch_to_pool to the callback; a callback runs for a     *)
(* future that is done.                                                    *)
Entered ==
  /\ \A j \in Jobs : future[j] = "live" =>
       j \in hooked \/ \E t \in Threads : pc[t] = "register" /\ cur[t] = j
  /\ \A j \in hooked : cancel[j] # "absent"
  /\ \A t \in Threads :
       /\ pc[t] \in {"submit", "register"} => cancel[cur[t]] # "absent"
       /\ pc[t] \in {"callback", "cbRelease"} => future[cur[t]] = "done"

(* The memory its callback has to release is noted before it is submitted. *)
Noted ==
  /\ \A j \in Jobs : future[j] = "live" /\ vram[j] > 0 => j \in jobVram
  /\ \A t \in Threads : pc[t] = "submit" /\ vram[cur[t]] > 0 => cur[t] \in jobVram

(* What a step of thread t does to these books: it makes a future live on  *)
(* its way to the entry, attaches the callback of the job it enters, takes *)
(* one off only when its future is done, and drops flag and note in it.    *)
Entering(t) ==
  /\ \E l \in Labels : Goto(t, l)
  /\ \A u \in Threads \ {t} : cur'[u] = cur[u]
  /\ \A j \in Jobs : /\ future'[j] = "live" => \/ future[j] = "live"
                                               \/ pc'[t] = "register" /\ j = cur'[t]
                     /\ future[j] = "done" => future'[j] = "done"
  /\ pc[t] = "register" /\ future[cur[t]] # "done" => cur[t] \in hooked'
  /\ \A j \in hooked : j \in hooked' \/ future[j] = "done"
  /\ \A j \in hooked' : j \in hooked \/ (pc[t] = "register" /\ j = cur[t])
  /\ \A j \in Jobs : cancel'[j] = "absent" =>
                       cancel[j] = "absent" \/ (pc'[t] = "cbRelease" /\ j = cur'[t])
  /\ pc'[t] \in {"submit", "register"} => cancel'[cur'[t]] # "absent"
  /\ pc'[t] \in {"callback", "cbRelease"} => future'[cur'[t]] = "done"

LEMMA StaysEntered ==
  ASSUME TypeOK, Placement, Placement', Entered, NEW t \in Threads, Entering(t)
  PROVE  Entered'
<1>1. PICK l \in Labels : Goto(t, l)
  BY DEF Entering
<1>2. \A u \in Threads : pc'[u] = IF u = t THEN l ELSE pc[u]
  BY <1>1 DEF Goto, TypeOK
<1>3. \A u \in Threads : pc[u] \in FrameLabels => Holds(u) /\ cur[u] \in Jobs
  BY DEF Holds, Placement
<1>4. \A u \in Threads : pc'[u] \in FrameLabels => Holds(u)' /\ cur'[u] \in Jobs /\ cur'[u] \notin hooked'
  BY DEF Holds, Placement
<1>5. {"submit", "register", "callback", "cbRelease"} \subseteq FrameLabels
  BY DEF FrameLabels
<1>6. ASSUME NEW j \in Jobs, future'[j] = "live"
      PROVE  j \in hooked' \/ \E u \in Threads : pc'[u] = "register" /\ cur'[u] = j
  <2>1. CASE future[j] # "live"
    BY <1>6, <2>1 DEF Entering
  <2>2. CASE future[j] = "live" /\ j \in hooked
    BY <2>2 DEF Entering
  <2>3. CASE future[j] = "live" /\ j \notin hooked
    <3>1. PICK u \in Threads : pc[u] = "register" /\ cur[u] = j
      BY <2>3 DEF Entered
    <3>2. CASE u = t
      BY <2>3, <3>1, <3>2 DEF Entering
    <3>3. CASE u # t
      BY <1>2, <3>1, <3>3 DEF Entering
    <3>4. QED
      BY <3>2, <3>3
  <2>4. QED
    BY <2>1, <2>2, <2>3
<1>7. ASSUME NEW j \in hooked'
      PROVE  cancel'[j] # "absent"
  <2>1. j \in Jobs
    BY <1>3, <1>5 DEF Entering, TypeOK
  <2>2. cancel[j] # "absent"
    BY DEF Entering, Entered
  <2>3. ~(pc'[t] = "cbRelease" /\ j = cur'[t])
    BY <1>4, <1>5
  <2>4. QED
    BY <2>1, <2>2, <2>3 DEF Entering
<1>8. ASSUME NEW u \in Threads, pc'[u] \in {"submit", "register"}
      PROVE  cancel'[cur'[u]] # "absent"
  <2>1. CASE u = t
    BY <1>8, <2>1 DEF Entering
  <2>2. CASE u # t
    <3>1. pc[u] = pc'[u] /\ cur'[u] = cur[u]
      BY <1>2, <2>2 DEF Entering
    <3>2. cancel[cur[u]] # "absent" /\ cur[u] \in Jobs
      BY <1>3, <1>5, <1>8, <3>1 DEF Entered
    <3>3. ~(pc'[t] = "cbRelease" /\ cur'[u] = cur'[t])
      BY <1>4, <1>5, <1>8, <2>2 DEF Placement, OnePlace
    <3>4. QED
      BY <3>1, <3>2, <3>3 DEF Entering
  <2>3. QED
    BY <2>1, <2>2
<1>9. ASSUME NEW u \in Threads, pc'[u] \in {"callback", "cbRelease"}
      PROVE  future'[cur'[u]] = "done"
  <2>1. CASE u = t
    BY <1>9, <2>1 DEF Entering
  <2>2. CASE u # t
    <3>1. pc[u] = pc'[u] /\ cur'[u] = cur[u]
      BY <1>2, <2>2 DEF Entering
    <3>2. future[cur[u]] = "done" /\ cur[u] \in Jobs
      BY <1>3, <1>5, <1>9, <3>1 DEF Entered
    <3>3. QED
      BY <3>1, <3>2 DEF Entering
  <2>3. QED
    BY <2>1, <2>2
<1>10. QED
  BY <1>6, <1>7, <1>8, <1>9 DEF Entered

(* A note is dropped by the callback it is for, whose future is done.      *)
LEMMA StaysNoted ==
  ASSUME TypeOK, Placement, Entered, Noted, NEW t \in Threads, Entering(t),
         UNCHANGED vram,
         \A j \in jobVram : j \in jobVram' \/ (pc[t] = "cbRelease" /\ j = cur[t]),
         pc'[t] = "submit" /\ vram[cur'[t]] > 0 => cur'[t] \in jobVram',
         pc'[t] = "register" => pc[t] = "submit" /\ cur'[t] = cur[t]
  PROVE  Noted'
<1>1. PICK l \in Labels : Goto(t, l)
  BY DEF Entering
<1>2. \A u \in Threads : pc'[u] = IF u = t THEN l ELSE pc[u]
  BY <1>1 DEF Goto, TypeOK
<1>3. \A u \in Threads : pc[u] \in FrameLabels => Holds(u)
  BY DEF Holds
<1>4. {"submit", "register", "callback", "cbRelease"} \subseteq FrameLabels
  BY DEF FrameLabels
<1>5. ASSUME NEW j \in Jobs, future'[j] = "live", vram'[j] > 0
      PROVE  j \in jobVram'
  <2>1. CASE future[j] = "live"
    <3>1. pc[t] = "cbRelease" => j # cur[t]
      BY <2>1 DEF Entered
    <3>2. QED
      BY <1>5, <2>1, <3>1 DEF Noted
  <2>2. CASE future[j] # "live"
    <3>1. pc'[t] = "register" /\ j = cur'[t]
      BY <1>5, <2>2 DEF Entering
    <3>2. pc[t] = "submit" /\ j = cur[t]
      BY <3>1
    <3>3. j \in jobVram
      BY <1>5, <3>2 DEF Noted
    <3>4. QED
      BY <3>2, <3>3
  <2>3. QED
    BY <2>1, <2>2
<1>6. ASSUME NEW u \in Threads, pc'[u] = "submit", vram'[cur'[u]] > 0
      PROVE  cur'[u] \in jobVram'
  <2>1. CASE u = t
    BY <1>6, <2>1
  <2>2. CASE u # t
    <3>1. pc[u] = "submit" /\ cur'[u] = cur[u]
      BY <1>2, <1>6, <2>2 DEF Entering
    <3>2. pc[t] = "cbRelease" => cur[u] # cur[t]
      BY <1>3, <1>4, <2>2, <3>1 DEF Placement, OnePlace
    <3>3. QED
      BY <1>6, <3>1, <3>2 DEF Noted
  <2>3. QED
    BY <2>1, <2>2
<1>7. QED
  BY <1>5, <1>6 DEF Noted

(* A step that leaves futures, callbacks and flags alone enters nothing.   *)
LEMMA QuietEntering ==
  ASSUME TypeOK, NEW t \in Threads, pc[t] # "register",
         NEW l \in Labels \ {"submit", "register", "callback", "cbRelease"}, Goto(t, l),
         \A u \in Threads \ {t} : cur'[u] = cur[u],
         UNCHANGED <<future, hooked, cancel>>
  PROVE  Entering(t)
<1>1. pc'[t] = l
  BY DEF Goto, TypeOK
<1>2. QED
  BY <1>1 DEF Entering

LEMMA ThreadEnters ==
  ASSUME IInv, Entered, NEW t \in Threads, ThreadStep(t)
  PROVE  /\ Entering(t)
         /\ \A j \in jobVram : j \in jobVram' \/ (pc[t] = "cbRelease" /\ j = cur[t])
         /\ pc'[t] = "submit" /\ vram[cur'[t]] > 0 => cur'[t] \in jobVram'
         /\ pc'[t] = "register" => pc[t] = "submit" /\ cur'[t] = cur[t]
<1> USE DEF At, ledgerVars, jobVars, frameVars
<1>a. TypeOK /\ Placement
  BY DEF IInv
<1>b. pc[t] \in HeldLabels => /\ cur[t] \in Jobs
                              /\ future[cur[t]] # "none" <=> pc[t] \in Submitted
                              /\ cur[t] \notin hooked
  BY <1>a DEF Holds, HeldLabels, Placement, Submitted
<1> DEFINE Ends == {"submit", "register", "callback", "cbRelease"}
<1>l. RestLabels \cup {"dispatch", "pumpGate", "pumpBack", "pumpFail"} \subseteq Labels \ Ends
      /\ Ends \subseteq Labels
  BY RestFacts
<1>p. \A l \in Labels : Goto(t, l) => pc'[t] = l
  BY <1>a DEF Goto, TypeOK
<1>q. ASSUME NEW l \in Labels \ Ends, Goto(t, l), pc[t] # "register",
             \A u \in Threads \ {t} : cur'[u] = cur[u],
             UNCHANGED <<future, hooked, cancel, jobVram>>
      PROVE  /\ Entering(t)
             /\ \A j \in jobVram : j \in jobVram' \/ (pc[t] = "cbRelease" /\ j = cur[t])
             /\ pc'[t] = "submit" /\ vram[cur'[t]] > 0 => cur'[t] \in jobVram'
             /\ pc'[t] = "register" => pc[t] = "submit" /\ cur'[t] = cur[t]
  BY <1>a, <1>p, <1>q, QuietEntering
<1>r. PumpReturn(t) => \E l \in Labels \ Ends : Goto(t, l)
  BY <1>l, ReturnRests
<1>1. CASE Dispatch(t)
  <2>1. /\ pc[t] = "dispatch" /\ Goto(t, "submit") /\ pc'[t] = "submit" /\ cur' = cur
        /\ cur[t] \in Jobs /\ cancel' = [cancel EXCEPT ![cur[t]] = "clear"]
        /\ NoteVram(cur[t]) /\ UNCHANGED <<future, hooked>> /\ "submit" \in Labels
    BY <1>1, <1>b, <1>l, <1>p, RestFacts DEF Dispatch
  <2>2. \A j \in Jobs : cancel'[j] = IF j = cur[t] THEN "clear" ELSE cancel[j]
    BY <1>a, <2>1 DEF TypeOK
  <2>3. Entering(t)
    BY <1>a, <2>1, <2>2 DEF Entering, TypeOK
  <2>4. QED
    BY <2>1, <2>3 DEF NoteVram
<1>2. CASE PoolSubmit(t)
  <2>1. /\ pc[t] = "submit" /\ cur[t] \in Jobs /\ cur' = cur
        /\ future[cur[t]] = "none" /\ UNCHANGED <<cancel, hooked, jobVram>>
    BY <1>2, <1>b, RestFacts DEF PoolSubmit, Submitted
  <2>2. CASE Goto(t, "register") /\ future' = [future EXCEPT ![cur[t]] = "live"]
    <3>1. /\ pc'[t] = "register" /\ "register" \in Labels
          /\ \A j \in Jobs : future'[j] = IF j = cur[t] THEN "live" ELSE future[j]
      BY <1>a, <1>l, <1>p, <2>1, <2>2 DEF TypeOK
    <3>2. cancel[cur[t]] # "absent"
      BY <2>1 DEF Entered
    <3>3. Entering(t)
      BY <2>1, <2>2, <3>1, <3>2 DEF Entering
    <3>4. QED
      BY <2>1, <3>1, <3>3
  <2>3. CASE UNCHANGED future /\ \E l \in {"pumpFail", "failed", "raised"} : Goto(t, l)
    BY <1>l, <1>q, <2>1, <2>3, RestFacts
  <2>4. QED
    BY <1>2, <2>2, <2>3 DEF PoolSubmit
<1>3. CASE Register(t)
  <2>1. /\ pc[t] = "register" /\ cur[t] \in Jobs /\ cur' = cur
        /\ UNCHANGED <<cancel, jobVram, future>>
        /\ cur[t] \notin hooked
    BY <1>3, <1>b, RestFacts DEF Register
  <2>2. CASE future[cur[t]] = "done" /\ Goto(t, "callback") /\ UNCHANGED hooked
    <3>1. pc'[t] = "callback" /\ "callback" \in Labels
      BY <1>l, <1>p, <2>2
    <3>2. Entering(t)
      BY <2>1, <2>2, <3>1 DEF Entering
    <3>3. QED
      BY <2>1, <3>1, <3>2
  <2>3. CASE hooked' = hooked \cup {cur[t]}
             /\ \E l \in {"pumpCount", "dispatched"} : Goto(t, l)
    <3>1. PICK l \in {"pumpCount", "dispatched"} : Goto(t, l)
      BY <2>3
    <3>2. pc'[t] = l /\ l \in Labels \ Ends
      BY <1>l, <1>p, <3>1, RestFacts
    <3>3. Entering(t)
      BY <2>1, <2>3, <3>1, <3>2 DEF Entering
    <3>4. QED
      BY <2>1, <3>2, <3>3
  <2>4. QED
    BY <1>3, <2>2, <2>3 DEF Register
<1>4. CASE InlineCallback(t)
  <2>1. /\ pc[t] = "callback" /\ cur[t] \in Jobs /\ cur' = cur
        /\ Goto(t, "cbRelease") /\ pc'[t] = "cbRelease" /\ "cbRelease" \in Labels
        /\ cancel' = [cancel EXCEPT ![cur[t]] = "absent"]
        /\ UNCHANGED <<jobVram, future, hooked>>
        /\ future[cur[t]] = "done"
    BY <1>4, <1>b, <1>l, <1>p, RestFacts DEF InlineCallback, DropEntries, Entered
  <2>2. \A j \in Jobs : cancel'[j] = IF j = cur[t] THEN "absent" ELSE cancel[j]
    BY <1>a, <2>1 DEF TypeOK
  <2>3. Entering(t)
    BY <2>1, <2>2 DEF Entering
  <2>4. QED
    BY <2>1, <2>3
<1>5. CASE CallbackRelease(t)
  <2>1. /\ pc[t] = "cbRelease" /\ Goto(t, "pump") /\ "pump" \in Labels \ Ends
        /\ cur' = [cur EXCEPT ![t] = 0] /\ jobVram' = jobVram \ {cur[t]}
        /\ UNCHANGED <<future, hooked, cancel>>
    BY <1>5, <1>l, RestFacts DEF CallbackRelease, ForgetVram
  <2>2. \A u \in Threads \ {t} : cur'[u] = cur[u]
    BY <1>a, <2>1 DEF TypeOK
  <2>3. pc'[t] = "pump"
    BY <1>p, <2>1
  <2>4. Entering(t)
    BY <1>a, <2>1, <2>2, QuietEntering
  <2>5. QED
    BY <2>1, <2>3, <2>4
<1>6. CASE PumpEnter(t) \/ PumpCount(t) \/ PumpCountRaises(t)
  <2>1. /\ pc[t] # "register" /\ UNCHANGED <<cur, future, hooked, cancel, jobVram>>
        /\ PumpReturn(t) \/ \E l \in {"pumpCount", "pumpPop", "idle"} : Goto(t, l)
    BY <1>6 DEF PumpEnter, PumpCount, PumpCountRaises
  <2>2. \E l \in Labels \ Ends : Goto(t, l)
    BY <1>l, <1>r, <2>1, RestFacts
  <2>3. QED
    BY <1>q, <2>1, <2>2
<1>7. CASE PumpPop(t) \/ PumpBack(t) \/ PumpFail(t)
  <2>1. /\ pc[t] # "register" /\ UNCHANGED <<future, hooked, cancel, jobVram>>
        /\ PumpReturn(t) \/ Goto(t, "pumpGate")
        /\ \/ cur' = cur
           \/ cur' = [cur EXCEPT ![t] = Head(queue[pool[t]])]
           \/ cur' = [cur EXCEPT ![t] = 0]
    BY <1>7 DEF PumpPop, PumpBack, PumpFail, PushFront
  <2>2. \E l \in Labels \ Ends : Goto(t, l)
    BY <1>l, <1>r, <2>1
  <2>3. \A u \in Threads \ {t} : cur'[u] = cur[u]
    BY <1>a, <2>1 DEF TypeOK
  <2>4. QED
    BY <1>q, <2>1, <2>2, <2>3
<1>8. CASE PumpGate(t)
  <2>1. /\ pc[t] # "register" /\ UNCHANGED <<cur, future, hooked, cancel, jobVram>>
        /\ \E l \in {"dispatch", "pumpBack"} : Goto(t, l)
    BY <1>8 DEF PumpGate
  <2>2. \E l \in Labels \ Ends : Goto(t, l)
    BY <1>l, <2>1
  <2>3. QED
    BY <1>q, <2>1, <2>2
<1>9. QED
  BY <1>1, <1>2, <1>3, <1>4, <1>5, <1>6, <1>7, <1>8 DEF ThreadStep

(* The manager keeps the books, whatever it is asked.                      *)
LEMMA ManagerKeepsBooks ==
  ASSUME IInv, IInv', Entered, Noted, ManagerStep \/ Requests
  PROVE  Entered' /\ Noted'
<1> USE DEF At, ledgerVars, jobVars, frameVars
<1>a. TypeOK /\ Placement /\ Placement'
  BY DEF IInv
<1>1. ASSUME NEW t \in Threads, ThreadStep(t)
      PROVE  Entered' /\ Noted'
  <2>1. UNCHANGED vram
    BY <1>1 DEF ThreadStep, Dispatch, PoolSubmit, Register, InlineCallback,
       CallbackRelease, PumpEnter, PumpCount, PumpCountRaises, PumpPop, PumpGate,
       PumpBack, PumpFail
  <2>2. QED
    BY <1>1, <1>a, <2>1, ThreadEnters, StaysEntered, StaysNoted
<1> DEFINE Ends == {"submit", "register", "callback", "cbRelease"}
<1>q. ASSUME NEW t \in Threads, NEW l \in Labels \ Ends, Goto(t, l), pc[t] # "register",
             UNCHANGED <<cur, future, hooked, cancel, jobVram, vram>>
      PROVE  Entered' /\ Noted'
  <2>1. pc'[t] = l
    BY <1>a, <1>q DEF Goto, TypeOK
  <2>2. Entering(t)
    BY <1>a, <1>q, QuietEntering
  <2>3. QED
    BY <1>a, <1>q, <2>1, <2>2, StaysEntered, StaysNoted
<1>2. ASSUME NEW j \in Jobs, SubmitterStep(j)
      PROVE  Entered' /\ Noted'
  <2>1. /\ pc[j] # "register" /\ UNCHANGED <<cur, future, hooked, cancel, jobVram, vram>>
        /\ \E l \in {"gate", "count", "park", "queued", "enqueue", "dispatch", "raised"} :
             Goto(j, l)
    BY <1>2 DEF SubmitterStep, SelectPool, VramGate, Park, CountSlots, Enqueue
  <2>2. \E l \in Labels \ Ends : Goto(j, l)
    BY <2>1, RestFacts DEF Labels
  <2>3. QED
    BY <1>q, <2>1, <2>2, ConstFacts
<1>3. ASSUME NEW e \in Managers, NEW j \in Jobs, BeginCallback(e, j)
      PROVE  Entered' /\ Noted'
  <2>1. /\ e \in Threads /\ pc[e] = "idle" /\ j \in hooked /\ future[j] = "done"
        /\ Goto(e, "cbRelease") /\ hooked' = hooked \ {j}
        /\ cancel' = [cancel EXCEPT ![j] = "absent"]
        /\ cur' = [cur EXCEPT ![e] = j] /\ UNCHANGED <<future, jobVram, vram>>
    BY <1>3, ConstFacts DEF BeginCallback, DropEntries
  <2>2. /\ pc'[e] = "cbRelease" /\ "cbRelease" \in Labels /\ cur'[e] = j
        /\ \A u \in Threads \ {e} : cur'[u] = cur[u]
        /\ \A k \in Jobs : cancel'[k] = IF k = j THEN "absent" ELSE cancel[k]
    BY <1>a, <2>1, RestFacts DEF Goto, TypeOK
  <2>3. Entering(e)
    BY <2>1, <2>2 DEF Entering
  <2>4. QED
    BY <1>a, <2>1, <2>2, <2>3, StaysEntered, StaysNoted
<1>4. CASE ConfigStep \/ \E c, g \in NewSizes, on \in BOOLEAN : UpdateExecution(c, g, on)
  <2>1. /\ pc[Config] # "register" /\ UNCHANGED <<cur, future, hooked, cancel, jobVram, vram>>
        /\ \E l \in RestLabels : Goto(Config, l)
    BY <1>4 DEF ConfigStep, SwapCpu, RetireCpu, SwapGpu, RetireGpu, DropGpu,
       PumpBoth, UpdateExecution, RestLabels
  <2>2. \E l \in Labels \ Ends : Goto(Config, l)
    BY <2>1, RestFacts
  <2>3. QED
    BY <1>q, <2>1, <2>2, ConstFacts
<1>5. CASE \E j \in Jobs : WorkerDone(j) \/ WorkerDies(j)
  <2>1. /\ UNCHANGED <<pc, cur, hooked, cancel, jobVram, vram>>
        /\ \A k \in Jobs : \/ future'[k] = future[k]
                           \/ future[k] = "live" /\ future'[k] = "done"
    BY <1>5, <1>a DEF WorkerDone, WorkerDies, TypeOK
  <2>2. \A t \in Threads : pc[t] \in {"callback", "cbRelease"} => cur[t] \in Jobs
    BY <1>a, RestFacts DEF Placement, Holds
  <2>3. QED
    BY <2>1, <2>2 DEF Entered, Noted
<1>6. CASE \E j \in Jobs : RequestCancellation(j)
  <2>1. /\ UNCHANGED <<pc, cur, hooked, future, jobVram, vram>>
        /\ \A k \in Jobs : cancel[k] # "absent" => cancel'[k] # "absent"
    BY <1>6, <1>a DEF RequestCancellation, TypeOK
  <2>2. /\ \A t \in Threads : pc[t] \in {"submit", "register"} => cur[t] \in Jobs
        /\ hooked \subseteq Jobs
    BY <1>a, RestFacts DEF Placement, Holds, TypeOK
  <2>3. QED
    BY <2>1, <2>2 DEF Entered, Noted
<1>7. QED
  BY <1>1, <1>2, <1>3, <1>4, <1>5, <1>6 DEF ManagerStep, Requests

LEMMA BooksSuffice == IInv /\ Entered /\ Noted => LiveIsTracked
<1> SUFFICES ASSUME IInv, Entered, Noted, NEW j \in Jobs, future[j] = "live"
             PROVE  /\ \/ jobPool[j] # "none" /\ j \in hooked
                       \/ \E t \in Threads : pc[t] = "register" /\ cur[t] = j
                    /\ cancel[j] # "absent"
                    /\ vram[j] > 0 => j \in jobVram
  BY DEF LiveIsTracked
<1>1. "none" \notin Pools
  BY DEF Pools
<1>2. QED
  BY <1>1 DEF IInv, Placement, Entered, Noted

LEMMA BooksOpen == Init => Entered /\ Noted
<1> SUFFICES ASSUME Init PROVE Entered /\ Noted
  OBVIOUS
<1>1. /\ \A t \in Threads : pc[t] \in {"new", "idle"}
      /\ \A j \in Jobs : future[j] = "none"
      /\ hooked = {}
  BY DEF Init
<1>2. QED
  BY <1>1 DEF Entered, Noted

(* Shutdown, a cancellation and the release find what they need of every   *)
(* running job, through resizes and worker deaths.                         *)
THEOREM RunningIsTracked == Spec => []LiveIsTracked
<1>1. Init => IInv /\ Entered /\ Noted
  BY InitIInv, BooksOpen
<1>2. IInv /\ Entered /\ Noted /\ [Next]_vars => IInv' /\ Entered' /\ Noted'
  <2> SUFFICES ASSUME IInv, Entered, Noted, [Next]_vars PROVE IInv' /\ Entered' /\ Noted'
    OBVIOUS
  <2>1. IInv'
    BY NextIInv
  <2>2. CASE ManagerStep \/ Requests
    BY <2>1, <2>2, ManagerKeepsBooks
  <2>3. ASSUME NEW j \in Jobs, Submit(j)
        PROVE  Entered' /\ Noted'
    <3>1. /\ Goto(j, "select") /\ pc[j] = "new" /\ j \in Threads
          /\ UNCHANGED <<cur, future, hooked, cancel, jobVram>>
          /\ \A k \in Jobs : k # j => vram'[k] = vram[k]
      BY <2>3, ConstFacts DEF Submit, At, ledgerVars, jobVars, frameVars, IInv, TypeOK
    <3>2. \A t \in Threads : pc'[t] = IF t = j THEN "select" ELSE pc[t]
      BY <3>1 DEF Goto, IInv, TypeOK
    <3>3. Holds(j) /\ cur[j] = j /\ future[j] = "none"
      BY <3>1, RestFacts DEF Holds, IInv, Placement, TypeOK
    <3>4. \A t \in Threads : pc[t] = "submit" => Holds(t) /\ cur[t] # j /\ cur[t] \in Jobs
      <4>1. \A t \in Threads : pc[t] = "submit" => Holds(t) /\ t # j
        BY <3>1, RestFacts DEF Holds
      <4>2. QED
        BY <3>3, <4>1, <3>1 DEF IInv, Placement, OnePlace
    <3>5. Entered'
      BY <3>1, <3>2 DEF Entered
    <3>6. Noted'
      BY <3>1, <3>2, <3>3, <3>4 DEF Noted
    <3>7. QED
      BY <3>5, <3>6
  <2>4. CASE UNCHANGED vars
    BY <2>1, <2>4 DEF Entered, Noted, vars, ledgerVars, jobVars, frameVars
  <2>5. QED
    BY <2>1, <2>2, <2>3, <2>4 DEF Next
<1>3. QED
  BY <1>1, <1>2, BooksSuffice, PTL DEF Spec

(* The same behind the endpoint, whose handler reserves before the manager *)
(* knows the job.                                                          *)
THEOREM RunningIsTrackedBehindEndpoint == EndpointSpec => []LiveIsTracked
<1>1. EndpointInit => Entered /\ Noted
  BY BooksOpen DEF EndpointInit
<1>2. EndpointInv /\ EndpointInv' /\ Entered /\ Noted /\ [EndpointNext]_evars => Entered' /\ Noted'
  <2> SUFFICES ASSUME EndpointInv, EndpointInv', Entered, Noted, [EndpointNext]_evars
               PROVE  Entered' /\ Noted'
    OBVIOUS
  <2>1. IInv /\ IInv' /\ Ownership /\ Ownership' /\ TypeOK
    BY DEF EndpointInv, IInv
  <2>2. CASE ManagerStep \/ Requests
    BY <2>1, <2>2, ManagerKeepsBooks
  <2>3. ASSUME NEW j \in Jobs, HandlerStep(j)
        PROVE  Entered' /\ Noted'
    <3>1. /\ UNCHANGED <<cur, future, hooked, cancel, jobVram>>
          /\ UNCHANGED pc \/ (Goto(j, "select") /\ post[j] = "reserved")
          /\ \/ UNCHANGED vram
             \/ post[j] = "new" /\ \A k \in Jobs : k # j => vram'[k] = vram[k]
      BY <2>1, <2>3 DEF HandlerStep, Reserve, CreateRow, RefuseDuplicate, SubmitRefused,
         SubmitReturned, vars, ledgerVars, jobVars, frameVars, TypeOK
    <3>2. \A t \in Threads :
             (pc'[t] = pc[t]) \/ (t = j /\ pc'[t] = "select" /\ pc[t] = "new")
      <4>1. post[j] = "reserved" => pc[j] = "new"
        BY <2>1 DEF Ownership
      <4>2. j \in Threads
        BY ConstFacts
      <4>3. pc \in [Threads -> Labels]
        BY <2>1 DEF TypeOK
      <4>4. \/ pc' = pc
            \/ pc' = [pc EXCEPT ![j] = "select"] /\ pc[j] = "new"
        BY <3>1, <4>1 DEF Goto
      <4>5. QED
        BY <4>2, <4>3, <4>4
    <3>3. Entered'
      BY <3>1, <3>2 DEF Entered
    <3>4. Noted'
      BY <2>1 DEF Ownership, Noted
    <3>5. QED
      BY <3>3, <3>4
  <2>4. CASE UNCHANGED evars
    BY <2>4 DEF evars, Entered, Noted, vars, ledgerVars, jobVars, frameVars
  <2>5. QED
    BY <2>2, <2>3, <2>4 DEF EndpointNext
<1>3. EndpointInv /\ Entered /\ Noted => LiveIsTracked
  BY BooksSuffice DEF EndpointInv
<1>4. QED
  BY <1>1, <1>2, <1>3, EndpointInductive, PTL DEF EndpointSpec

-----------------------------------------------------------------------------
(* The ledger, as long as the pools are not resized and no worker dies     *)
(* (with either, a dispatch can fail, which forgets what it allocated).    *)

(* Then both pools stay open and every dispatch is accepted.               *)
Calm ==
  /\ pc[Config] = "idle"
  /\ poolExec = [p \in Pools |-> IF p = "cpu" THEN 1 ELSE 2]
  /\ exState[1] = "open" /\ exState[2] = "open"
  /\ \A t \in Threads : /\ pc[t] \notin {"pumpFail", "failed"}
                        /\ pc[t] = "submit" => exec[t] \in {1, 2}

(* A flag belongs to a job between its dispatch and its callback.          *)
FlagLabels == {"submit", "register", "callback"}
OwnFlags ==
  \A j \in Jobs : cancel[j] # "absent" =>
    j \in hooked \/ \E t \in Threads : pc[t] \in FlagLabels /\ cur[t] = j

(* Where the grants are: a job that waits for one is queued or being       *)
(* looked at by a pump, a note is of a job that was submitted, and a job   *)
(* whose count raised is left alone with its grant.                        *)
Grants ==
  /\ \A j \in Jobs :
       /\ vram[j] > 0 => j \in GpuJobs
       /\ pc[j] \in {"gate", "park"} => vram[j] > 0
       /\ pc[j] = "raised" => /\ future[j] = "none" /\ ~Queued(j)
                              /\ \A t \in Threads : Holds(t) => cur[t] # j
  /\ \A j \in pendingVram :
       /\ vram[j] > 0
       /\ Queued(j) \/ \E t \in Threads : pc[t] \in {"pumpGate", "pumpBack"} /\ cur[t] = j
  /\ \A j \in jobVram :
       future[j] # "none" \/ \E t \in Threads : pc[t] = "submit" /\ cur[t] = j
  /\ \A t \in Threads : pc[t] = "pumpBack" => cur[t] \in pendingVram

-----------------------------------------------------------------------------
(* Queues.                                                                 *)

LEMMA Pushed ==
  ASSUME TypeOK, NEW p \in Pools, NEW q, NEW j,
         ToSet(q) = ToSet(queue[p]) \cup {j}, queue' = [queue EXCEPT ![p] = q]
  PROVE  \A k : Queued(k)' <=> Queued(k) \/ k = j
<1>1. \A r \in Pools : queue'[r] = IF r = p THEN q ELSE queue[r]
  BY DEF TypeOK
<1>2. QED
  BY <1>1 DEF Queued

LEMMA Popped ==
  ASSUME TypeOK, Placement, NEW p \in Pools, queue[p] # <<>>,
         queue' = [queue EXCEPT ![p] = Tail(@)]
  PROVE  /\ Head(queue[p]) \in Jobs /\ Queued(Head(queue[p]))
         /\ \A k : Queued(k)' <=> Queued(k) /\ k # Head(queue[p])
<1> DEFINE s == queue[p]
<1>1. s \in Seq(Jobs) /\ IsInjective(s)
  BY DEF TypeOK, Placement, OnePlace
<1>2. /\ Head(s) \in Jobs /\ Head(s) \in ToSet(s)
      /\ ToSet(Tail(s)) \subseteq ToSet(s) /\ Head(s) \notin ToSet(Tail(s))
  BY <1>1, TailPlace
<1>3. \A k \in ToSet(s) : k = Head(s) \/ k \in ToSet(Tail(s))
  <2> SUFFICES ASSUME NEW k \in ToSet(s), k # Head(s)
               PROVE  k \in ToSet(Tail(s))
    OBVIOUS
  <2>1. PICK i \in 1..Len(s) : k = s[i]
    BY <1>1 DEF ToSet
  <2>2. /\ Len(s) > 0 /\ Len(Tail(s)) = Len(s) - 1 /\ Head(s) = s[1]
        /\ \A m \in 1..Len(Tail(s)) : Tail(s)[m] = s[m+1]
        /\ Tail(s) \in Seq(Jobs)
    BY <1>1, HeadTailProperties, EmptySeq
  <2>3. i # 1 /\ i - 1 \in 1..Len(Tail(s)) /\ (i - 1) + 1 = i
    BY <2>1, <2>2
  <2>4. Tail(s)[i - 1] = k
    BY <2>1, <2>2, <2>3
  <2>5. DOMAIN Tail(s) = 1..Len(Tail(s))
    BY <2>2
  <2>6. QED
    BY <2>3, <2>4, <2>5 DEF ToSet
<1>4. \A r \in Pools : /\ queue'[r] = IF r = p THEN Tail(s) ELSE queue[r]
                       /\ r # p => Head(s) \notin ToSet(queue[r])
  <2>1. \A r \in Pools : queue'[r] = IF r = p THEN Tail(s) ELSE queue[r]
    BY DEF TypeOK
  <2>2. \A r \in Pools : r # p => Head(s) \notin ToSet(queue[r])
    BY <1>2 DEF Placement, OnePlace, Pools
  <2>3. QED
    BY <2>1, <2>2
<1>5. \A k : Queued(k)' <=> Queued(k) /\ k # Head(s)
  BY <1>2, <1>3, <1>4 DEF Queued
<1>6. Queued(Head(s))
  BY <1>2 DEF Queued
<1>7. QED
  BY <1>2, <1>5, <1>6

-----------------------------------------------------------------------------
(* The pools stay open.                                                    *)

LEMMA Accepted ==
  ASSUME IInv, Calm, NEW t \in Threads, PoolSubmit(t)
  PROVE  /\ Goto(t, "register") /\ future' = [future EXCEPT ![cur[t]] = "live"]
         /\ cur[t] \in Jobs
<1>1. pc[t] = "submit" /\ exec[t] \in {1, 2}
  BY DEF PoolSubmit, At, Calm
<1>2. exec[t] # Absent /\ exState[exec[t]] = "open"
  BY <1>1 DEF Calm, Absent
<1>3. cur[t] \in Jobs
  BY <1>1, RestFacts DEF IInv, Placement, Holds
<1>4. QED
  BY <1>2, <1>3 DEF PoolSubmit

LEMMA StaysCalm ==
  ASSUME NewSizes = {}, MaxCrash = 0, IInv, Calm, [Next]_vars
  PROVE  Calm'
<1> USE DEF At, ledgerVars, jobVars, frameVars, execVars
<1>a. TypeOK
  BY DEF IInv
<1> DEFINE Bad == {"submit", "pumpFail", "failed"}
<1>b. ASSUME NEW t \in Threads \ {Config}, NEW l \in Labels \ {"pumpFail", "failed"}, Goto(t, l),
             UNCHANGED execVars,
             \A u \in Threads : u # t => exec'[u] = exec[u],
             l = "submit" => exec'[t] \in {1, 2}
      PROVE  Calm'
  <2>1. \A u \in Threads : pc'[u] = IF u = t THEN l ELSE pc[u]
    BY <1>a, <1>b DEF Goto, TypeOK
  <2>2. QED
    BY <1>b, <2>1, ConstFacts DEF Calm
<1>c. ASSUME NEW t \in Threads, NEW l \in Labels \ Bad, Goto(t, l), pc[t] # "idle",
             UNCHANGED <<execVars, exec>>
      PROVE  Calm'
  <2>1. t # Config
    BY <1>c DEF Calm
  <2>2. QED
    BY <1>b, <1>c, <2>1
<1>1. ASSUME NEW t \in Threads, ThreadStep(t)
      PROVE  Calm'
  <2>1. CASE Dispatch(t)
    <3>1. /\ pc[t] = "dispatch" /\ Goto(t, "submit") /\ "submit" \in Labels
          /\ exec' = [exec EXCEPT ![t] = poolExec[pool[t]]] /\ UNCHANGED execVars
      BY <2>1, RestFacts DEF Dispatch
    <3>2. t # Config
      BY <3>1 DEF Calm
    <3>3. pool[t] \in Pools /\ poolExec[pool[t]] \in {1, 2}
      BY <1>a DEF Calm, TypeOK
    <3>4. \A u \in Threads : exec'[u] = IF u = t THEN poolExec[pool[t]] ELSE exec[u]
      BY <1>a, <3>1 DEF TypeOK
    <3>5. QED
      BY <1>b, <3>1, <3>2, <3>3, <3>4
  <2>2. CASE PoolSubmit(t)
    <3>1. Goto(t, "register") /\ "register" \in Labels \ Bad /\ pc[t] # "idle"
      BY <2>2, Accepted, RestFacts DEF PoolSubmit
    <3>2. QED
      BY <1>c, <2>2, <3>1 DEF PoolSubmit
  <2>3. CASE ~Dispatch(t) /\ ~PoolSubmit(t)
    <3>1. PumpReturn(t) => \E l \in Labels \ Bad : Goto(t, l)
      BY ReturnLabels, RestFacts DEF PumpReturn, RestLabels
    <3>2. /\ pc[t] # "idle" /\ UNCHANGED <<execVars, exec>>
          /\ \/ PumpReturn(t)
             \/ \E l \in {"callback", "pumpCount", "dispatched", "cbRelease", "pump",
                          "pumpPop", "idle", "pumpGate", "pumpBack", "dispatch"} : Goto(t, l)
      BY <1>1, <2>3 DEF ThreadStep, Register, InlineCallback, CallbackRelease,
         PumpEnter, PumpCount, PumpCountRaises, PumpPop, PumpGate, PumpBack, PumpFail
    <3>3. {"callback", "pumpCount", "dispatched", "cbRelease", "pump",
           "pumpPop", "idle", "pumpGate", "pumpBack", "dispatch"} \subseteq Labels \ Bad
      BY RestFacts
    <3>4. QED
      BY <1>c, <3>1, <3>2, <3>3
  <2>4. QED
    BY <2>1, <2>2, <2>3
<1>2. ASSUME NEW j \in Jobs, SubmitterStep(j) \/ Submit(j)
      PROVE  Calm'
  <2>1. /\ pc[j] # "idle" /\ UNCHANGED <<execVars, exec>>
        /\ \E l \in {"gate", "count", "park", "queued", "enqueue", "dispatch", "raised",
                     "select"} : Goto(j, l)
    BY <1>2 DEF SubmitterStep, SelectPool, VramGate, Park, CountSlots, Enqueue, Submit
  <2>2. \E l \in Labels \ Bad : Goto(j, l)
    BY <2>1, RestFacts DEF Labels
  <2>3. QED
    BY <1>c, <2>1, <2>2, ConstFacts
<1>3. ASSUME NEW e \in Managers, NEW j \in Jobs, BeginCallback(e, j)
      PROVE  Calm'
  <2>1. /\ e \in Threads \ {Config} /\ Goto(e, "cbRelease") /\ UNCHANGED <<execVars, exec>>
        /\ "cbRelease" \in Labels \ Bad
    BY <1>3, ConstFacts, RestFacts DEF BeginCallback
  <2>2. QED
    BY <1>b, <2>1
<1>4. ~ConfigStep /\ ~\E c, g \in NewSizes, on \in BOOLEAN : UpdateExecution(c, g, on)
  BY DEF ConfigStep, SwapCpu, RetireCpu, SwapGpu, RetireGpu, DropGpu, PumpBoth, Calm
<1>5. ASSUME NEW j \in Jobs, WorkerDone(j) \/ WorkerDies(j) \/ RequestCancellation(j)
      PROVE  Calm'
  <2>1. ~WorkerDies(j)
    <3>1. crashes \in 0..0
      BY <1>a DEF TypeOK
    <3>2. ~(crashes < MaxCrash)
      BY <3>1
    <3>3. QED
      BY <3>2 DEF WorkerDies
  <2>2. UNCHANGED <<pc, poolExec, exState, exec>>
    BY <1>5, <2>1 DEF WorkerDone, RequestCancellation
  <2>3. QED
    BY <2>2 DEF Calm
<1>6. CASE UNCHANGED vars
  BY <1>6 DEF vars, Calm
<1>7. QED
  BY <1>1, <1>2, <1>3, <1>4, <1>5, <1>6 DEF Next, ManagerStep, Requests

-----------------------------------------------------------------------------
(* Each flag belongs to a job between its dispatch and its callback.       *)

LEMMA StaysFlagged ==
  ASSUME TypeOK, OwnFlags, NEW t \in Threads, NEW l \in Labels, Goto(t, l),
         \A u \in Threads \ {t} : cur'[u] = cur[u],
         \A j \in Jobs : cancel'[j] # "absent" =>
           cancel[j] # "absent" \/ (l \in FlagLabels /\ cur'[t] = j),
         \A j \in hooked : j \in hooked' \/ cancel'[j] = "absent",
         pc[t] \in FlagLabels =>
           \/ cancel'[cur[t]] = "absent" \/ cur[t] \in hooked'
           \/ l \in FlagLabels /\ cur'[t] = cur[t]
  PROVE  OwnFlags'
<1>1. \A u \in Threads : pc'[u] = IF u = t THEN l ELSE pc[u]
  BY DEF Goto, TypeOK
<1> SUFFICES ASSUME NEW j \in Jobs, cancel'[j] # "absent"
             PROVE  j \in hooked' \/ \E u \in Threads : pc'[u] \in FlagLabels /\ cur'[u] = j
  BY DEF OwnFlags
<1>2. CASE cancel[j] = "absent" \/ j \in hooked
  BY <1>1, <1>2
<1>3. CASE cancel[j] # "absent" /\ j \notin hooked
  <2>1. PICK u \in Threads : pc[u] \in FlagLabels /\ cur[u] = j
    BY <1>3 DEF OwnFlags
  <2>2. CASE u = t
    BY <1>1, <2>1, <2>2
  <2>3. CASE u # t
    BY <1>1, <2>1, <2>3
  <2>4. QED
    BY <2>2, <2>3
<1>4. QED
  BY <1>2, <1>3

LEMMA FlagsStep ==
  ASSUME IInv, Calm, OwnFlags, [Next]_vars, NewSizes = {}, MaxCrash = 0
  PROVE  OwnFlags'
<1> USE DEF At, ledgerVars, jobVars, frameVars, execVars
<1>a. TypeOK /\ Placement
  BY DEF IInv
<1>l. FlagLabels \subseteq HeldLabels /\ RestLabels \cap FlagLabels = {}
  BY RestFacts DEF FlagLabels
<1>q. ASSUME NEW t \in Threads, NEW l \in Labels, Goto(t, l), pc[t] \notin FlagLabels,
             \A u \in Threads \ {t} : cur'[u] = cur[u],
             UNCHANGED <<cancel, hooked>>
      PROVE  OwnFlags'
  BY <1>a, <1>q, StaysFlagged
<1>1. ASSUME NEW t \in Threads, ThreadStep(t)
      PROVE  OwnFlags'
  <2>b. pc[t] \in HeldLabels => cur[t] \in Jobs
    BY <1>a DEF Holds, HeldLabels, Placement
  <2>1. CASE Dispatch(t)
    <3>1. /\ pc[t] = "dispatch" /\ Goto(t, "submit") /\ cur' = cur /\ cur[t] \in Jobs
          /\ cancel' = [cancel EXCEPT ![cur[t]] = "clear"] /\ UNCHANGED hooked
          /\ "submit" \in Labels \cap FlagLabels
      BY <2>1, <2>b, RestFacts DEF Dispatch, FlagLabels
    <3>2. \A j \in Jobs : j # cur[t] => cancel'[j] = cancel[j]
      BY <1>a, <3>1 DEF TypeOK
    <3>3. pc[t] \notin FlagLabels
      BY <3>1 DEF FlagLabels
    <3>4. QED
      BY <1>a, <3>1, <3>2, <3>3, StaysFlagged
  <2>2. CASE PoolSubmit(t)
    <3>1. Goto(t, "register") /\ "register" \in Labels \cap FlagLabels
      BY <2>2, Accepted, RestFacts DEF FlagLabels
    <3>2. UNCHANGED <<cur, cancel, hooked>>
      BY <2>2 DEF PoolSubmit
    <3>3. QED
      BY <1>a, <3>1, <3>2, StaysFlagged
  <2>3. CASE Register(t)
    <3>1. /\ UNCHANGED <<cur, cancel>> /\ hooked \subseteq hooked'
          /\ \/ Goto(t, "callback")
             \/ /\ cur[t] \in hooked'
                /\ \E l \in {"pumpCount", "dispatched"} : Goto(t, l)
      BY <2>3 DEF Register
    <3>2. "callback" \in Labels \cap FlagLabels /\ {"pumpCount", "dispatched"} \subseteq Labels
      BY RestFacts DEF FlagLabels
    <3>3. QED
      BY <1>a, <3>1, <3>2, StaysFlagged
  <2>4. CASE InlineCallback(t)
    <3>1. /\ Goto(t, "cbRelease") /\ "cbRelease" \in Labels /\ cur' = cur /\ UNCHANGED hooked
          /\ cur[t] \in Jobs /\ cancel' = [cancel EXCEPT ![cur[t]] = "absent"]
      BY <2>4, <2>b, RestFacts DEF InlineCallback, DropEntries
    <3>2. \A j \in Jobs : cancel'[j] = IF j = cur[t] THEN "absent" ELSE cancel[j]
      BY <1>a, <3>1 DEF TypeOK
    <3>3. QED
      BY <1>a, <3>1, <3>2, StaysFlagged
  <2>5. CASE ~(Dispatch(t) \/ PoolSubmit(t) \/ Register(t) \/ InlineCallback(t))
    <3>1. PumpReturn(t) => \E l \in Labels : Goto(t, l)
      BY ReturnLabels, RestFacts
    <3>2. /\ pc[t] \notin FlagLabels /\ UNCHANGED <<cancel, hooked>>
          /\ \/ PumpReturn(t)
             \/ \E l \in {"pumpCount", "pump", "pumpPop", "idle", "pumpGate", "pumpBack",
                          "dispatch"} : Goto(t, l)
      BY <1>1, <2>5 DEF ThreadStep, CallbackRelease, PumpEnter, PumpCount,
         PumpCountRaises, PumpPop, PumpGate, PumpBack, PumpFail, FlagLabels
    <3>3. \A u \in Threads \ {t} : cur'[u] = cur[u]
      <4>1. \/ cur' = cur
            \/ cur' = [cur EXCEPT ![t] = Head(queue[pool[t]])]
            \/ cur' = [cur EXCEPT ![t] = 0]
        BY <1>1, <2>5 DEF ThreadStep, CallbackRelease, PumpEnter, PumpCount,
           PumpCountRaises, PumpPop, PumpGate, PumpBack, PumpFail, PushFront
      <4>2. QED
        BY <1>a, <4>1 DEF TypeOK
    <3>4. \E l \in Labels : Goto(t, l)
      BY <3>1, <3>2, RestFacts
    <3>5. QED
      BY <1>q, <3>2, <3>3, <3>4
  <2>6. QED
    BY <2>1, <2>2, <2>3, <2>4, <2>5
<1>2. ASSUME NEW j \in Jobs, SubmitterStep(j) \/ Submit(j)
      PROVE  OwnFlags'
  <2>1. /\ pc[j] \notin FlagLabels /\ UNCHANGED <<cancel, hooked, cur>>
        /\ \E l \in {"gate", "count", "park", "queued", "enqueue", "dispatch", "raised",
                     "select"} : Goto(j, l)
    BY <1>2 DEF SubmitterStep, SelectPool, VramGate, Park, CountSlots, Enqueue, Submit,
       FlagLabels
  <2>2. \E l \in Labels : Goto(j, l)
    BY <2>1, RestFacts DEF Labels
  <2>3. QED
    BY <1>q, <2>1, <2>2, ConstFacts
<1>3. ASSUME NEW e \in Managers, NEW j \in Jobs, BeginCallback(e, j)
      PROVE  OwnFlags'
  <2>1. /\ e \in Threads /\ pc[e] = "idle" /\ Goto(e, "cbRelease") /\ "cbRelease" \in Labels
        /\ hooked' = hooked \ {j} /\ cancel' = [cancel EXCEPT ![j] = "absent"]
        /\ cur' = [cur EXCEPT ![e] = j]
    BY <1>3, ConstFacts, RestFacts DEF BeginCallback, DropEntries
  <2>2. /\ \A u \in Threads \ {e} : cur'[u] = cur[u]
        /\ \A k \in Jobs : cancel'[k] = IF k = j THEN "absent" ELSE cancel[k]
        /\ pc[e] \notin FlagLabels
    BY <1>a, <2>1 DEF TypeOK, FlagLabels
  <2>3. QED
    BY <1>a, <2>1, <2>2, StaysFlagged
<1>4. ~ConfigStep /\ ~\E c, g \in NewSizes, on \in BOOLEAN : UpdateExecution(c, g, on)
  BY DEF ConfigStep, SwapCpu, RetireCpu, SwapGpu, RetireGpu, DropGpu, PumpBoth, Calm
<1>5. ASSUME NEW j \in Jobs, WorkerDone(j) \/ WorkerDies(j) \/ RequestCancellation(j)
      PROVE  OwnFlags'
  <2>1. UNCHANGED <<pc, cur, hooked>>
    BY <1>5 DEF WorkerDone, WorkerDies, RequestCancellation
  <2>2. \A k \in Jobs : cancel'[k] # "absent" => cancel[k] # "absent"
    BY <1>5, <1>a DEF WorkerDone, WorkerDies, RequestCancellation, TypeOK
  <2>3. QED
    BY <2>1, <2>2 DEF OwnFlags
<1>6. CASE UNCHANGED vars
  BY <1>6 DEF vars, OwnFlags
<1>7. QED
  BY <1>1, <1>2, <1>3, <1>4, <1>5, <1>6 DEF Next, ManagerStep, Requests

LEMMA CalmOpens == Init => Calm /\ OwnFlags
<1> SUFFICES ASSUME Init PROVE Calm /\ OwnFlags
  OBVIOUS
<1>1. \A t \in Threads : pc[t] \in {"new", "idle"}
  BY DEF Init
<1>2. pc[Config] = "idle"
  BY ConstFacts DEF Init
<1>3. exState[1] = "open" /\ exState[2] = "open"
  BY ProcessManagerAssumption DEF Init, Managers
<1>4. \A j \in Jobs : cancel[j] = "absent"
  BY DEF Init
<1>5. poolExec = [p \in Pools |-> IF p = "cpu" THEN 1 ELSE 2]
  BY DEF Init
<1>6. QED
  BY <1>1, <1>2, <1>3, <1>4, <1>5 DEF Calm, OwnFlags

(* As long as every dispatch is accepted, each job is dispatched once, and *)
(* no step takes an accepted cancellation back under the worker.           *)
THEOREM CancellationsStick ==
  ASSUME NewSizes = {}, MaxCrash = 0
  PROVE  Spec => CancelSticks
<1> DEFINE I == IInv /\ Calm /\ OwnFlags
           A == \A j \in Jobs : cancel[j] = "set" => cancel'[j] # "clear"
<1>1. Init => I
  BY InitIInv, CalmOpens
<1>2. I /\ [Next]_vars => I'
  BY NextIInv, StaysCalm, FlagsStep
<1>3. I /\ [Next]_vars => [A]_vars
  <2> SUFFICES ASSUME IInv, Calm, OwnFlags, [Next]_vars,
                      NEW j \in Jobs, cancel[j] = "set"
               PROVE  cancel'[j] # "clear"
    OBVIOUS
  <2> USE DEF At, ledgerVars, jobVars, frameVars
  <2>a. TypeOK /\ Placement
    BY DEF IInv
  <2>1. ASSUME NEW t \in Threads, Dispatch(t)
        PROVE  cancel'[j] = cancel[j]
    <3>1. pc[t] = "dispatch" /\ cancel' = [cancel EXCEPT ![cur[t]] = "clear"]
      BY <2>1 DEF Dispatch
    <3>2. Holds(t) /\ cur[t] \in Jobs /\ cur[t] \notin hooked
      BY <2>a, <3>1, RestFacts DEF Holds, Placement
    <3>3. \A u \in Threads : pc[u] \in FlagLabels => Holds(u) /\ u # t
      BY <3>1, RestFacts DEF Holds, FlagLabels
    <3>4. \A u \in Threads : pc[u] \in FlagLabels => cur[u] # cur[t]
      BY <2>a, <3>2, <3>3 DEF Placement, OnePlace
    <3>5. cancel[cur[t]] = "absent"
      BY <3>2, <3>4 DEF OwnFlags
    <3>6. QED
      BY <2>a, <3>1, <3>5 DEF TypeOK
  <2>2. ASSUME NEW k \in Jobs, RequestCancellation(k)
        PROVE  cancel'[j] # "clear"
    BY <2>a, <2>2 DEF RequestCancellation, TypeOK
  <2>3. ASSUME NEW k \in Jobs, DropEntries(k)
        PROVE  cancel'[j] # "clear"
    BY <2>a, <2>3 DEF DropEntries, TypeOK
  <2>4. \/ \E t \in Threads : Dispatch(t)
        \/ \E k \in Jobs : RequestCancellation(k)
        \/ \E k \in Jobs : DropEntries(k)
        \/ UNCHANGED cancel
    <3>1. ASSUME NEW t \in Threads, InlineCallback(t)
          PROVE  \E k \in Jobs : DropEntries(k)
      <4>1. cur[t] \in Jobs
        BY <2>a, <3>1, RestFacts DEF InlineCallback, Holds, Placement
      <4>2. QED
        BY <3>1, <4>1 DEF InlineCallback
    <3>2. ASSUME NEW t \in Threads, ThreadStep(t), ~Dispatch(t), ~InlineCallback(t)
          PROVE  UNCHANGED cancel
      BY <3>2 DEF ThreadStep, PoolSubmit, Register, CallbackRelease, PumpEnter,
         PumpCount, PumpCountRaises, PumpPop, PumpGate, PumpBack, PumpFail
    <3>3. ASSUME NEW k \in Jobs, SubmitterStep(k) \/ Submit(k) \/ WorkerDone(k) \/ WorkerDies(k)
          PROVE  UNCHANGED cancel
      BY <3>3 DEF SubmitterStep, SelectPool, VramGate, Park, CountSlots, Enqueue, Submit,
         WorkerDone, WorkerDies
    <3>4. CASE ConfigStep \/ \E c, g \in NewSizes, on \in BOOLEAN : UpdateExecution(c, g, on)
      BY <3>4 DEF ConfigStep, SwapCpu, RetireCpu, SwapGpu, RetireGpu, DropGpu, PumpBoth,
         UpdateExecution
    <3>5. ASSUME NEW e \in Managers, NEW k \in Jobs, BeginCallback(e, k)
          PROVE  DropEntries(k)
      BY <3>5 DEF BeginCallback
    <3>6. CASE UNCHANGED vars
      BY <3>6 DEF vars
    <3>7. QED
      BY <3>1, <3>2, <3>3, <3>4, <3>5, <3>6 DEF Next, ManagerStep, Requests
  <2>5. QED
    BY <2>1, <2>2, <2>3, <2>4
<1>4. QED
  BY <1>1, <1>2, <1>3, PTL DEF Spec, CancelSticks

-----------------------------------------------------------------------------
(* Who waits for memory, and who has it.                                   *)

WaitLabels == {"pumpGate", "pumpBack"}

(* What a step of thread t may do to grants, notes and waiting jobs.       *)
Granting(t) ==
  /\ \E l \in Labels : Goto(t, l)
  /\ \A u \in Threads \ {t} : cur'[u] = cur[u]
  /\ pc'[t] \in {"gate", "park"} /\ t \in Jobs => vram[t] > 0
  /\ \A j \in pendingVram' : j \in pendingVram \/ (vram[j] > 0 /\ Queued(j)')
  /\ \A j \in pendingVram : j \in pendingVram' \/ (pc[t] = "pumpGate" /\ j = cur[t])
  /\ \A j \in Jobs : /\ Queued(j) => Queued(j)' \/ (pc'[t] = "pumpGate" /\ cur'[t] = j)
                     /\ Queued(j)' => Queued(j) \/ (Holds(t) /\ cur[t] = j)
                     /\ future[j] # "none" => future'[j] # "none"
                     /\ future'[j] # "none" => future[j] # "none" \/ (Holds(t) /\ cur[t] = j)
  /\ \A j \in pendingVram' : pc[t] \in WaitLabels /\ cur[t] = j =>
       Queued(j)' \/ (pc'[t] \in WaitLabels /\ cur'[t] = j)
  /\ pc'[t] = "pumpBack" => cur'[t] \in pendingVram'
  /\ \A j \in jobVram' : j \in jobVram \/ (pc'[t] = "submit" /\ cur'[t] = j)
  /\ pc[t] = "submit" => future'[cur[t]] # "none"
  /\ Holds(t)' => \/ Holds(t) /\ cur'[t] = cur[t]
                  \/ Queued(cur'[t])
                  \/ future[cur'[t]] # "none"
  /\ pc'[t] = "raised" /\ t \in Jobs =>
       Holds(t) /\ cur[t] = t /\ future'[t] = "none" /\ UNCHANGED queue

LEMMA StaysGranted ==
  ASSUME TypeOK, TypeOK', Placement, Placement', Grants, NEW t \in Threads, Granting(t),
         \A k \in Jobs : /\ vram[k] > 0 => vram'[k] > 0
                         /\ vram'[k] > 0 => (vram[k] > 0 \/ k \in GpuJobs)
  PROVE  Grants'
<1>1. PICK l \in Labels : Goto(t, l)
  BY DEF Granting
<1>2. \A u \in Threads : pc'[u] = IF u = t THEN l ELSE pc[u]
  BY <1>1 DEF Goto, TypeOK
<1>3. Jobs \subseteq Threads
  BY ConstFacts
<1>h. "raised" \notin HeldLabels /\ WaitLabels \cup {"submit"} \subseteq HeldLabels
  BY RestFacts DEF WaitLabels
<1>4. ASSUME NEW j \in Jobs
      PROVE  /\ vram'[j] > 0 => j \in GpuJobs
             /\ pc'[j] \in {"gate", "park"} => vram'[j] > 0
  <2>1. /\ vram[j] > 0 => vram'[j] > 0
        /\ vram'[j] > 0 => (vram[j] > 0 \/ j \in GpuJobs)
    BY <1>4
  <2>2. vram[j] > 0 => j \in GpuJobs
    BY DEF Grants
  <2>3. pc'[j] \in {"gate", "park"} => vram[j] > 0
    <3>1. CASE j = t
      BY <3>1 DEF Granting
    <3>2. CASE j # t
      BY <1>2, <1>3, <3>2 DEF Grants
    <3>3. QED
      BY <3>1, <3>2
  <2>4. QED
    BY <2>1, <2>2, <2>3
<1>5. ASSUME NEW j \in Jobs, pc'[j] = "raised"
      PROVE  future'[j] = "none" /\ ~Queued(j)' /\ \A u \in Threads : Holds(u)' => cur'[u] # j
  <2>1. CASE j = t
    <3>1. Holds(t) /\ cur[t] = t /\ future'[t] = "none" /\ UNCHANGED queue
      BY <1>5, <2>1 DEF Granting
    <3>2. ~Queued(t)'
      BY <2>1, <3>1 DEF Placement, OnePlace, Queued
    <3>3. ASSUME NEW u \in Threads, Holds(u)'
          PROVE  cur'[u] # t
      <4>1. u # t
        BY <1>5, <1>h, <2>1, <3>3 DEF Holds, HeldLabels
      <4>2. Holds(u) /\ cur'[u] = cur[u]
        BY <1>2, <3>3, <4>1 DEF Granting, Holds
      <4>3. QED
        BY <3>1, <4>1, <4>2 DEF Placement, OnePlace
    <3>4. QED
      BY <2>1, <3>1, <3>2, <3>3
  <2>2. CASE j # t
    <3>1. pc[j] = "raised"
      BY <1>2, <1>3, <1>5, <2>2
    <3>2. future[j] = "none" /\ ~Queued(j) /\ \A u \in Threads : Holds(u) => cur[u] # j
      BY <3>1 DEF Grants
    <3>3. future'[j] = "none" /\ ~Queued(j)'
      BY <3>2 DEF Granting
    <3>4. ASSUME NEW u \in Threads, Holds(u)'
          PROVE  cur'[u] # j
      <4>1. CASE u = t
        BY <3>2, <3>4, <4>1 DEF Granting
      <4>2. CASE u # t
        BY <1>2, <3>2, <3>4, <4>2 DEF Granting, Holds
      <4>3. QED
        BY <4>1, <4>2
    <3>5. QED
      BY <3>3, <3>4
  <2>3. QED
    BY <2>1, <2>2
<1>6. ASSUME NEW j \in pendingVram'
      PROVE  /\ vram'[j] > 0
             /\ Queued(j)' \/ \E u \in Threads : pc'[u] \in WaitLabels /\ cur'[u] = j
  <2>0. j \in Jobs
    BY DEF TypeOK
  <2>v. vram[j] > 0 => vram'[j] > 0
    BY <2>0
  <2>1. CASE j \notin pendingVram
    <3>1. vram[j] > 0 /\ Queued(j)'
      BY <1>6, <2>1 DEF Granting
    <3>2. QED
      BY <2>v, <3>1
  <2>2. CASE j \in pendingVram /\ Queued(j)
    <3>1. vram[j] > 0
      BY <2>2 DEF Grants
    <3>2. Queued(j)' \/ (pc'[t] \in WaitLabels /\ cur'[t] = j)
      BY <2>0, <2>2 DEF Granting, WaitLabels
    <3>3. QED
      BY <2>v, <3>1, <3>2
  <2>3. CASE j \in pendingVram /\ ~Queued(j)
    <3>1. PICK u \in Threads : pc[u] \in WaitLabels /\ cur[u] = j
      BY <2>3 DEF Grants, WaitLabels
    <3>2. vram[j] > 0
      BY <2>3 DEF Grants
    <3>3. Queued(j)' \/ \E v \in Threads : pc'[v] \in WaitLabels /\ cur'[v] = j
      <4>1. CASE u = t
        BY <1>6, <3>1, <4>1 DEF Granting
      <4>2. CASE u # t
        BY <1>2, <3>1, <4>2 DEF Granting
      <4>3. QED
        BY <4>1, <4>2
    <3>4. QED
      BY <2>v, <3>2, <3>3
  <2>4. QED
    BY <2>1, <2>2, <2>3
<1>7. ASSUME NEW j \in jobVram'
      PROVE  future'[j] # "none" \/ \E u \in Threads : pc'[u] = "submit" /\ cur'[u] = j
  <2>0. j \in Jobs
    BY DEF TypeOK
  <2>1. CASE j \notin jobVram
    BY <2>1 DEF Granting
  <2>2. CASE j \in jobVram /\ future[j] # "none"
    BY <2>0, <2>2 DEF Granting
  <2>3. CASE j \in jobVram /\ future[j] = "none"
    <3>1. PICK u \in Threads : pc[u] = "submit" /\ cur[u] = j
      BY <2>3 DEF Grants
    <3>2. CASE u = t
      BY <3>1, <3>2 DEF Granting
    <3>3. CASE u # t
      BY <1>2, <3>1, <3>3 DEF Granting
    <3>4. QED
      BY <3>2, <3>3
  <2>4. QED
    BY <2>1, <2>2, <2>3
<1>8. ASSUME NEW u \in Threads, pc'[u] = "pumpBack"
      PROVE  cur'[u] \in pendingVram'
  <2>1. CASE u = t
    BY <1>8, <2>1 DEF Granting
  <2>2. CASE u # t
    <3>1. pc[u] = "pumpBack" /\ cur'[u] = cur[u]
      BY <1>2, <1>8, <2>2 DEF Granting
    <3>2. cur[u] \in pendingVram
      BY <3>1 DEF Grants
    <3>3. pc[t] = "pumpGate" => cur[u] # cur[t]
      BY <1>h, <2>2, <3>1 DEF Placement, OnePlace, Holds, HeldLabels, WaitLabels
    <3>4. QED
      BY <3>1, <3>2, <3>3 DEF Granting
  <2>3. QED
    BY <2>1, <2>2
<1>9. QED
  BY <1>4, <1>5, <1>6, <1>7, <1>8 DEF Grants, WaitLabels

-----------------------------------------------------------------------------
(* Counting the grants.                                                    *)

(* The part of thread t in what makes job j a holder.                      *)
Mine(t, j) ==
  \/ t = j /\ pc[t] \in {"count", "enqueue", "raised"}
  \/ cur[t] = j /\ pc[t] \in {"pumpGate", "dispatch"}

Granted(j) ==
  /\ vram[j] > 0 /\ j \notin pendingVram
  /\ j \in jobVram \/ Queued(j) \/ \E t \in Threads : Mine(t, j)

LEMMA HoldersAreGranted == GrantHolders = {j \in Jobs : Granted(j)}
<1>1. \A j \in Jobs : /\ Mine(j, j) \/ ~(pc[j] \in {"count", "enqueue", "raised"})
                      /\ j \in Threads
  BY ConstFacts DEF Mine
<1>2. \A j \in Jobs : (\E t \in Threads : Mine(t, j)) <=>
         \/ pc[j] \in {"count", "enqueue", "raised"}
         \/ \E t \in Threads : cur[t] = j /\ pc[t] \in {"pumpGate", "dispatch"}
  BY <1>1 DEF Mine
<1>3. QED
  BY <1>2 DEF GrantHolders, Granted

LEMMA HoldersAreGrantedNext == GrantHolders' = {j \in Jobs : Granted(j)'}
<1>1. (GrantHolders = {j \in Jobs : Granted(j)})'
  BY HoldersAreGranted, PTL
<1>2. QED
  BY <1>1

(* Whether a job that a step of thread t does not touch holds a grant is   *)
(* not changed by it.                                                      *)
LEMMA SameGrant ==
  ASSUME TypeOK, NEW t \in Threads, NEW l \in Labels, Goto(t, l),
         \A u \in Threads \ {t} : cur'[u] = cur[u],
         NEW j \in Jobs, vram'[j] = vram[j],
         j \in pendingVram' <=> j \in pendingVram,
         j \in jobVram' <=> j \in jobVram,
         Queued(j)' <=> Queued(j), Mine(t, j)' <=> Mine(t, j)
  PROVE  Granted(j)' <=> Granted(j)
<1>1. \A u \in Threads : pc'[u] = IF u = t THEN l ELSE pc[u]
  BY DEF Goto, TypeOK
<1>2. \A u \in Threads \ {t} : Mine(u, j)' <=> Mine(u, j)
  BY <1>1 DEF Mine
<1>3. (\E u \in Threads : Mine(u, j)') <=> (\E u \in Threads : Mine(u, j))
  BY <1>2
<1>4. QED
  BY <1>3 DEF Granted

(* The three ways of the ledger: as it is, one grant more, one less.       *)
LEMMA SameLedger ==
  ASSUME LedgerExact, used' = used, \A j \in Jobs : Granted(j)' <=> Granted(j)
  PROVE  LedgerExact'
<1>1. GrantHolders' = GrantHolders
  BY HoldersAreGranted, HoldersAreGrantedNext
<1>2. QED
  BY <1>1 DEF LedgerExact

LEMMA OneMore ==
  ASSUME TypeOK, LedgerExact, NEW j \in Jobs, ~Granted(j), Granted(j)',
         \A k \in Jobs \ {j} : Granted(k)' <=> Granted(k), used' = used + Budget
  PROVE  LedgerExact'
<1>1. GrantHolders' = GrantHolders \cup {j} /\ j \notin GrantHolders
  BY HoldersAreGranted, HoldersAreGrantedNext
<1>2. IsFiniteSet(GrantHolders)
  BY FS_Subset, ProcessManagerAssumption DEF GrantHolders
<1>3. Cardinality(GrantHolders') = Cardinality(GrantHolders) + 1
      /\ Cardinality(GrantHolders) \in Nat
  BY <1>1, <1>2, FS_AddElement, FS_CardinalityType
<1>4. \A n \in Nat : Budget * (n + 1) = Budget * n + Budget
  BY ProcessManagerAssumption
<1>5. QED
  BY <1>3, <1>4 DEF LedgerExact

LEMMA OneLess ==
  ASSUME TypeOK, LedgerExact, NEW j \in Jobs, Granted(j), ~Granted(j)',
         \A k \in Jobs \ {j} : Granted(k)' <=> Granted(k), ReleaseVram(Budget)
  PROVE  LedgerExact'
<1>1. GrantHolders' = GrantHolders \ {j} /\ j \in GrantHolders
  BY HoldersAreGranted, HoldersAreGrantedNext
<1>2. IsFiniteSet(GrantHolders)
  BY FS_Subset, ProcessManagerAssumption DEF GrantHolders
<1>3. /\ Cardinality(GrantHolders') = Cardinality(GrantHolders) - 1
      /\ Cardinality(GrantHolders') \in Nat
      /\ Cardinality(GrantHolders) \in Nat
  <2>1. IsFiniteSet(GrantHolders')
    BY <1>1, <1>2, FS_Subset
  <2>2. QED
    BY <1>1, <1>2, <2>1, FS_RemoveElement, FS_CardinalityType
<1>4. /\ \A n \in Nat : Budget * (n + 1) = Budget * n + Budget /\ Budget * n \in Nat
      /\ Budget \in Nat
  BY ProcessManagerAssumption
<1>5. \E n \in Nat : Cardinality(GrantHolders') = n /\ Cardinality(GrantHolders) = n + 1
  BY <1>3
<1>6. used = Budget * Cardinality(GrantHolders') + Budget
      /\ Budget * Cardinality(GrantHolders') \in Nat
  BY <1>4, <1>5 DEF LedgerExact
<1>7. used' = used - Budget
  BY <1>4, <1>6 DEF ReleaseVram
<1>8. used' = Budget * Cardinality(GrantHolders')
  BY <1>4, <1>6, <1>7
<1>9. QED
  BY <1>8 DEF LedgerExact

-----------------------------------------------------------------------------
(* Every step keeps the grants where they are and the ledger exact.        *)

(* A job in hand that was not submitted is nowhere else.                   *)
LEMMA Alone ==
  ASSUME TypeOK, Placement, Grants, NEW t \in Threads, pc[t] \in HeldLabels
  PROVE  /\ Holds(t) /\ cur[t] \in Jobs /\ ~Queued(cur[t])
         /\ pc[t] \in SubmitLabels => cur[t] = t
         /\ pc[t] \notin Submitted <=> future[cur[t]] = "none"
         /\ \A u \in Threads \ {t} : Holds(u) => cur[u] # cur[t]
         /\ \A u \in Threads \ {t} : ~Mine(u, cur[t])
         /\ pc[t] \notin WaitLabels => cur[t] \notin pendingVram
         /\ pc[t] \notin Submitted \cup {"submit"} => cur[t] \notin jobVram
<1> DEFINE j == cur[t]
<1>1. Holds(t) /\ j \in Jobs
  BY DEF Holds, HeldLabels, Placement
<1>2. ~Queued(j) /\ \A u \in Threads \ {t} : Holds(u) => cur[u] # j
  BY <1>1 DEF Placement, OnePlace
<1>3. /\ pc[t] \in SubmitLabels => j = t
      /\ pc[t] \notin Submitted <=> future[j] = "none"
  BY <1>1 DEF Placement, Submitted
<1>4. ASSUME NEW u \in Threads \ {t}, Mine(u, j)
      PROVE  FALSE
  <2>1. CASE u = j /\ pc[u] \in {"count", "enqueue"}
    <3>1. Holds(u) /\ cur[u] = u
      BY <2>1, RestFacts DEF Holds, Placement
    <3>2. QED
      BY <1>2, <2>1, <3>1
  <2>2. CASE u = j /\ pc[u] = "raised"
    BY <1>1, <2>2 DEF Grants
  <2>3. CASE cur[u] = j /\ pc[u] \in {"pumpGate", "dispatch"}
    BY <1>2, <2>3, RestFacts DEF Holds
  <2>4. QED
    BY <1>4, <2>1, <2>2, <2>3 DEF Mine
<1>5. ASSUME pc[t] \notin WaitLabels, j \in pendingVram
      PROVE  FALSE
  <2>1. PICK u \in Threads : pc[u] \in WaitLabels /\ cur[u] = j
    BY <1>2, <1>5 DEF Grants, WaitLabels
  <2>2. Holds(u) /\ u # t
    BY <1>5, <2>1, RestFacts DEF Holds, WaitLabels
  <2>3. QED
    BY <1>2, <2>1, <2>2
<1>6. ASSUME pc[t] \notin Submitted \cup {"submit"}, j \in jobVram
      PROVE  FALSE
  <2>1. PICK u \in Threads : pc[u] = "submit" /\ cur[u] = j
    BY <1>3, <1>6 DEF Grants
  <2>2. Holds(u) /\ u # t
    BY <1>6, <2>1, RestFacts DEF Holds
  <2>3. QED
    BY <1>2, <2>1, <2>2
<1>7. QED
  BY <1>1, <1>2, <1>3, <1>4, <1>5, <1>6

(* A move that concerns no job.                                            *)
LEMMA QuietGrants ==
  ASSUME TypeOK, LedgerExact, NEW t \in Threads, NEW l \in Labels, Goto(t, l),
         pc[t] \notin {"count", "enqueue", "raised", "pumpGate", "dispatch"},
         pc[t] \notin WaitLabels \cup {"submit"},
         l \notin {"count", "enqueue", "raised", "pumpGate", "dispatch"},
         l \notin WaitLabels \cup {"submit", "gate", "park"},
         l \in HeldLabels => Holds(t),
         UNCHANGED <<used, vram, pendingVram, jobVram, queue, future, cur>>
  PROVE  Granting(t) /\ LedgerExact'
<1>1. pc'[t] = l
  BY DEF Goto, TypeOK
<1>2. \A k \in Jobs : Queued(k)' <=> Queued(k)
  BY DEF Queued
<1>3. \A k \in Jobs : ~Mine(t, k) /\ ~Mine(t, k)'
  BY <1>1 DEF Mine
<1>4. \A k \in Jobs : Granted(k)' <=> Granted(k)
  BY <1>2, <1>3, SameGrant
<1>5. LedgerExact'
  BY <1>4, SameLedger
<1>6. Granting(t)
  BY <1>1, <1>2 DEF Granting, WaitLabels, Holds, HeldLabels
<1>7. QED
  BY <1>5, <1>6

LEMMA SubmitterGrants ==
  ASSUME IInv, Calm, Grants, LedgerExact, NEW j \in Jobs, SubmitterStep(j)
  PROVE  Granting(j) /\ LedgerExact' /\ UNCHANGED vram
<1> USE DEF At, ledgerVars, jobVars, frameVars
<1>a. TypeOK /\ Placement /\ j \in Threads /\ pool[j] \in Pools /\ queue[pool[j]] \in Seq(Jobs)
  BY ConstFacts DEF IInv, TypeOK
<1>v. UNCHANGED vram /\ vram[j] \in {0, Budget} /\ Budget > 0
  BY <1>a, ProcessManagerAssumption
     DEF SubmitterStep, SelectPool, VramGate, Park, CountSlots, Enqueue, TypeOK
<1>c. pc[j] \in SubmitLabels /\ UNCHANGED <<cur, future, jobVram>>
  BY RestFacts DEF SubmitterStep, SelectPool, VramGate, Park, CountSlots, Enqueue
<1>d. /\ Holds(j) /\ cur[j] = j /\ ~Queued(j) /\ future[j] = "none"
      /\ \A u \in Threads \ {j} : ~Mine(u, j)
      /\ j \notin pendingVram /\ j \notin jobVram
  <2>1. pc[j] \in HeldLabels /\ pc[j] \notin Submitted /\ pc[j] \notin WaitLabels
        /\ pc[j] # "submit"
    BY <1>c, RestFacts DEF Submitted, WaitLabels
  <2>2. QED
    BY <1>a, <1>c, <2>1, Alone
<1>e. \A k \in Jobs \ {j} : ~Mine(j, k) /\ ~Mine(j, k)'
  BY <1>c, <1>d DEF Mine
<1>o. ASSUME NEW l \in Labels, Goto(j, l),
             \A k \in Jobs \ {j} : /\ k \in pendingVram' <=> k \in pendingVram
                                   /\ Queued(k)' <=> Queued(k)
      PROVE  \A k \in Jobs \ {j} : Granted(k)' <=> Granted(k)
  BY <1>a, <1>c, <1>e, <1>o, <1>v, SameGrant
<1>n. ~Granted(j) \/ pc[j] \in {"count", "enqueue"}
  <2>1. SUFFICES ASSUME Granted(j) PROVE pc[j] \in {"count", "enqueue"}
    OBVIOUS
  <2>2. Mine(j, j)
    BY <1>d, <2>1 DEF Granted
  <2>3. QED
    BY <1>c, <1>d, <2>2, RestFacts DEF Mine
<1>1. CASE SelectPool(j)
  <2>1. /\ UNCHANGED <<used, pendingVram, queue>> /\ pc[j] = "select"
        /\ \E l \in {"gate", "count"} : Goto(j, l)
        /\ vram[j] > 0 => Goto(j, "gate")
        /\ vram[j] > 0 \/ Goto(j, "count")
    <3>1. vram[j] > 0 => j \in GpuJobs /\ poolExec["gpu"] # Absent
      <4>1. poolExec["gpu"] = 2
        BY DEF Calm, Pools
      <4>2. QED
        BY <1>a, <4>1 DEF Grants, Absent
    <3>2. QED
      BY <1>1, <3>1 DEF SelectPool
  <2>2. PICK l \in {"gate", "count"} : Goto(j, l)
    BY <2>1
  <2>3. l \in Labels /\ pc'[j] = l /\ (vram[j] > 0 <=> l = "gate")
    BY <1>a, <2>1, <2>2, RestFacts DEF Labels, Goto, TypeOK
  <2>4. \A k : Queued(k)' <=> Queued(k)
    BY <2>1 DEF Queued
  <2>5. ~Granted(j)
    BY <1>n, <2>1
  <2>6. ~Granted(j)'
    <3>1. SUFFICES ASSUME vram[j] > 0 PROVE ~Granted(j)'
      BY <1>v DEF Granted
    <3>2. Granted(j)' <=> Granted(j)
      <4>1. ~Mine(j, j) /\ ~Mine(j, j)'
        BY <1>c, <2>1, <2>3, <3>1 DEF Mine
      <4>2. QED
        BY <1>a, <1>c, <1>v, <2>1, <2>2, <2>3, <2>4, <4>1, SameGrant
    <3>3. QED
      BY <2>5, <3>2
  <2>7. LedgerExact'
    BY <1>o, <2>1, <2>2, <2>3, <2>4, <2>5, <2>6, SameLedger
  <2>8. Granting(j)
    BY <1>c, <1>d, <1>v, <2>1, <2>2, <2>3, <2>4 DEF Granting, WaitLabels
  <2>9. QED
    BY <1>v, <2>7, <2>8
<1>2. CASE VramGate(j)
  <2>1. pc[j] = "gate" /\ UNCHANGED <<pendingVram, queue>> /\ vram[j] > 0 /\ vram[j] = Budget
    BY <1>2, <1>v DEF VramGate, Grants
  <2>2. \A k : Queued(k)' <=> Queued(k)
    BY <2>1 DEF Queued
  <2>3. {"count", "park"} \subseteq Labels
    BY RestFacts DEF Labels
  <2>4. CASE AllocateVram(j) /\ Goto(j, "count")
    <3>1. pc'[j] = "count" /\ used' = used + Budget
      BY <1>a, <2>1, <2>4 DEF Goto, TypeOK, AllocateVram
    <3>2. Mine(j, j)'
      BY <3>1 DEF Mine
    <3>3. Granted(j)'
      BY <1>a, <1>d, <1>v, <2>1, <3>2 DEF Granted
    <3>4. \A k \in Jobs \ {j} : Granted(k)' <=> Granted(k)
      BY <1>o, <2>1, <2>2, <2>3, <2>4
    <3>5. LedgerExact'
      BY <1>a, <1>n, <2>1, <3>1, <3>3, <3>4, OneMore
    <3>6. Granting(j)
      BY <1>c, <1>d, <2>1, <2>2, <2>3, <2>4, <3>1 DEF Granting, WaitLabels
    <3>7. QED
      BY <1>v, <3>5, <3>6
  <2>5. CASE used' = used /\ Goto(j, "park")
    <3>1. pc'[j] = "park"
      BY <1>a, <2>5 DEF Goto, TypeOK
    <3>2. ~Mine(j, j) /\ ~Mine(j, j)'
      BY <1>c, <2>1, <3>1 DEF Mine
    <3>3. \A k \in Jobs : Granted(k)' <=> Granted(k)
      <4>1. Granted(j)' <=> Granted(j)
        BY <1>a, <1>c, <1>v, <2>1, <2>2, <2>3, <2>5, <3>2, SameGrant
      <4>2. QED
        BY <1>o, <2>1, <2>2, <2>3, <2>5, <4>1
    <3>4. LedgerExact'
      BY <2>5, <3>3, SameLedger
    <3>5. Granting(j)
      BY <1>c, <1>d, <2>1, <2>2, <2>3, <2>5, <3>1 DEF Granting, WaitLabels
    <3>6. QED
      BY <1>v, <3>4, <3>5
  <2>6. QED
    BY <1>2, <2>4, <2>5 DEF VramGate
<1>3. CASE Park(j) \/ Enqueue(j)
  <2>1. /\ UNCHANGED used /\ Goto(j, "queued") /\ "queued" \in Labels
        /\ queue' = [queue EXCEPT ![pool[j]] = Append(queue[pool[j]], j)]
        /\ \/ pc[j] = "park" /\ pendingVram' = pendingVram \cup {j} /\ vram[j] > 0
           \/ pc[j] = "enqueue" /\ pendingVram' = pendingVram
    BY <1>3, RestFacts DEF Park, Enqueue, Grants
  <2>2. \A k : Queued(k)' <=> Queued(k) \/ k = j
    <3>1. ToSet(Append(queue[pool[j]], j)) = ToSet(queue[pool[j]]) \cup {j}
      BY <1>a, AppendPlace
    <3>2. queue' = [queue EXCEPT ![pool[j]] = Append(queue[pool[j]], j)]
      BY <2>1
    <3>3. QED
      BY ONLY <1>a, <3>1, <3>2, Pushed
  <2>3. pc'[j] = "queued"
    BY <1>a, <2>1 DEF Goto, TypeOK
  <2>4. Granted(j)' <=> Granted(j)
    <3>1. CASE pc[j] = "park"
      <4>1. j \in pendingVram'
        BY <2>1, <3>1
      <4>2. ~Granted(j)'
        BY <4>1 DEF Granted
      <4>3. QED
        BY <1>n, <3>1, <4>2
    <3>2. CASE pc[j] = "enqueue"
      <4>1. Mine(j, j) /\ pendingVram' = pendingVram
        BY <2>1, <3>2 DEF Mine
      <4>2. QED
        BY <1>a, <1>v, <2>2, <4>1 DEF Granted
    <3>3. QED
      BY <2>1, <3>1, <3>2
  <2>5. \A k \in Jobs \ {j} : Granted(k)' <=> Granted(k)
    BY <1>o, <2>1, <2>2
  <2>6. LedgerExact'
    BY <2>1, <2>4, <2>5, SameLedger
  <2>7. Granting(j)
    BY <1>c, <1>d, <2>1, <2>2, <2>3 DEF Granting, WaitLabels, Holds, HeldLabels, SubmitLabels, FrameLabels, PumpLabels
  <2>8. QED
    BY <1>v, <2>6, <2>7
<1>4. CASE CountSlots(j)
  <2>1. /\ UNCHANGED <<used, pendingVram, queue>> /\ pc[j] = "count"
        /\ \E l \in {"enqueue", "dispatch", "raised"} : Goto(j, l)
    BY <1>4 DEF CountSlots
  <2>2. PICK l \in {"enqueue", "dispatch", "raised"} : Goto(j, l)
    BY <2>1
  <2>3. l \in Labels /\ pc'[j] = l
    BY <1>a, <2>2, RestFacts DEF Labels, Goto, TypeOK
  <2>4. \A k : Queued(k)' <=> Queued(k)
    BY <2>1 DEF Queued
  <2>5. Mine(j, j) /\ Mine(j, j)'
    BY <1>c, <1>d, <2>1, <2>3 DEF Mine
  <2>6. Granted(j)' <=> Granted(j)
    BY <1>a, <1>c, <1>v, <2>1, <2>2, <2>3, <2>4, <2>5, SameGrant
  <2>7. LedgerExact'
    BY <1>o, <2>1, <2>2, <2>3, <2>4, <2>6, SameLedger
  <2>8. Granting(j)
    BY <1>c, <1>d, <2>1, <2>2, <2>3, <2>4 DEF Granting, WaitLabels
  <2>9. QED
    BY <1>v, <2>7, <2>8
<1>5. QED
  BY <1>1, <1>2, <1>3, <1>4 DEF SubmitterStep

(* What the grant of a job in the hand of t comes to, before and after.    *)
LEMMA InHand ==
  ASSUME TypeOK, NEW t \in Threads, NEW l \in Labels, Goto(t, l),
         \A u \in Threads \ {t} : cur'[u] = cur[u],
         NEW j \in Jobs, \A u \in Threads \ {t} : ~Mine(u, j)
  PROVE  /\ Granted(j) <=> /\ vram[j] > 0 /\ j \notin pendingVram
                           /\ j \in jobVram \/ Queued(j) \/ Mine(t, j)
         /\ Granted(j)' <=> /\ vram'[j] > 0 /\ j \notin pendingVram'
                            /\ j \in jobVram' \/ Queued(j)' \/ Mine(t, j)'
<1>1. \A u \in Threads : pc'[u] = IF u = t THEN l ELSE pc[u]
  BY DEF Goto, TypeOK
<1>2. \A u \in Threads \ {t} : ~Mine(u, j)'
  BY <1>1 DEF Mine
<1>3. /\ (\E u \in Threads : Mine(u, j)) <=> Mine(t, j)
      /\ (\E u \in Threads : Mine(u, j)') <=> Mine(t, j)'
  BY <1>2
<1>4. QED
  BY <1>3 DEF Granted

LEMMA ThreadGrants ==
  ASSUME IInv, Calm, Calm', Grants, LedgerExact, NEW t \in Threads, ThreadStep(t)
  PROVE  Granting(t) /\ LedgerExact' /\ UNCHANGED vram
<1> USE DEF At, ledgerVars, jobVars, frameVars
<1>0. PICK j : j = cur[t]
  OBVIOUS
<1> USE <1>0
<1>a. TypeOK /\ Placement /\ pool[t] \in Pools /\ queue[pool[t]] \in Seq(Jobs) /\ Budget > 0
  BY ProcessManagerAssumption DEF IInv, TypeOK
<1>v. UNCHANGED vram
  BY DEF ThreadStep, Dispatch, PoolSubmit, Register, InlineCallback, CallbackRelease,
     PumpEnter, PumpCount, PumpCountRaises, PumpPop, PumpGate, PumpBack, PumpFail
<1>w. \A k \in Jobs : vram[k] \in {0, Budget} /\ vram'[k] = vram[k]
  BY <1>a, <1>v DEF TypeOK
<1>p. \A l \in Labels : Goto(t, l) => pc'[t] = l
  BY <1>a DEF Goto, TypeOK
<1>h. ASSUME pc[t] \in FrameLabels \cup PumpLabels
      PROVE  /\ Holds(t) /\ j \in Jobs /\ ~Queued(j)
             /\ pc[t] \notin Submitted <=> future[j] = "none"
             /\ \A u \in Threads \ {t} : ~Mine(u, j)
             /\ pc[t] \notin WaitLabels => j \notin pendingVram
             /\ pc[t] \notin Submitted \cup {"submit"} => j \notin jobVram
             /\ \A k \in Jobs \ {j} : ~Mine(t, k)
  <2>1. pc[t] \in HeldLabels /\ pc[t] \notin {"count", "enqueue", "raised"}
    BY <1>h, RestFacts DEF HeldLabels
  <2>2. QED
    BY <1>a, <2>1, Alone DEF Mine
<1>o. ASSUME NEW l \in Labels, Goto(t, l), pc[t] \in FrameLabels \cup PumpLabels,
             l \notin {"count", "enqueue", "raised", "pumpGate"},
             \A u \in Threads \ {t} : cur'[u] = cur[u],
             l = "dispatch" => cur'[t] = cur[t],
             \A k \in Jobs \ {j} : /\ k \in pendingVram' <=> k \in pendingVram
                                   /\ k \in jobVram' <=> k \in jobVram
                                   /\ Queued(k)' <=> Queued(k)
      PROVE  \A k \in Jobs \ {j} : Granted(k)' <=> Granted(k)
  <2>1. \A k \in Jobs \ {j} : ~Mine(t, k)' /\ ~Mine(t, k)
    BY <1>h, <1>o, <1>p DEF Mine
  <2>2. QED
    BY <1>a, <1>o, <1>w, <2>1, SameGrant
<1> DEFINE Quiet == RestLabels \ {"raised", "failed"}
<1>l. Quiet \cup FrameLabels \cup PumpLabels \subseteq Labels
  BY RestFacts
<1>r. PumpReturn(t) => \E l \in Quiet : Goto(t, l)
  BY RestFacts DEF PumpReturn
<1>q. ASSUME NEW l \in Quiet \cup {"callback", "cbRelease"}, Goto(t, l),
             pc[t] \in {"register", "callback", "pump", "pumpCount", "pumpPop"},
             l \in {"callback", "cbRelease"} => Holds(t),
             UNCHANGED <<used, vram, pendingVram, jobVram, queue, future, cur>>
      PROVE  Granting(t) /\ LedgerExact'
  <2>1. /\ l \in Labels /\ (l \in HeldLabels => Holds(t))
        /\ l \notin {"count", "enqueue", "raised", "pumpGate", "dispatch"}
        /\ l \notin WaitLabels \cup {"submit", "gate", "park"}
        /\ pc[t] \notin {"count", "enqueue", "raised", "pumpGate", "dispatch"}
        /\ pc[t] \notin WaitLabels \cup {"submit"}
    BY <1>l, <1>q, RestFacts DEF HeldLabels, WaitLabels
  <2>2. QED
    BY <1>a, <1>q, <2>1, QuietGrants
<1>1. CASE Dispatch(t)
  <2>1. /\ pc[t] = "dispatch" /\ Goto(t, "submit") /\ pc'[t] = "submit"
        /\ UNCHANGED <<used, pendingVram, queue, future, cur>> /\ NoteVram(j)
        /\ pc[t] \in FrameLabels /\ "submit" \in Labels
    BY <1>1, <1>l, <1>p, RestFacts DEF Dispatch
  <2>2. \A k \in Jobs : Queued(k)' <=> Queued(k)
    BY <2>1 DEF Queued
  <2>3. \A k \in jobVram' : k \in jobVram \/ k = j
    BY <2>1 DEF NoteVram
  <2>4. \A k \in Jobs \ {j} : k \in jobVram' <=> k \in jobVram
    BY <2>1 DEF NoteVram
  <2>5. Mine(t, j) /\ (vram[j] > 0 => j \in jobVram')
    BY <2>1 DEF Mine, NoteVram
  <2>6. Granted(j)' <=> Granted(j)
    BY <1>a, <1>h, <1>w, <2>1, <2>5, InHand
  <2>7. \A k \in Jobs \ {j} : Granted(k)' <=> Granted(k)
    BY <1>o, <2>1, <2>2, <2>4
  <2>8. LedgerExact'
    BY <1>h, <2>1, <2>6, <2>7, SameLedger
  <2>9. Granting(t)
    BY <1>h, <2>1, <2>2, <2>3 DEF Granting, WaitLabels
  <2>10. QED
    BY <1>v, <2>8, <2>9
<1>2. CASE PoolSubmit(t)
  <2>1. /\ pc[t] = "submit" /\ Goto(t, "register") /\ pc'[t] = "register"
        /\ UNCHANGED <<used, pendingVram, jobVram, queue, cur>>
        /\ future' = [future EXCEPT ![j] = "live"]
        /\ pc[t] \in FrameLabels /\ "register" \in Labels
    BY <1>2, <1>l, <1>p, Accepted, RestFacts DEF PoolSubmit
  <2>2. \A k \in Jobs : Queued(k)' <=> Queued(k)
    BY <2>1 DEF Queued
  <2>3. ~Mine(t, j) /\ ~Mine(t, j)'
    BY <2>1 DEF Mine
  <2>4. Granted(j)' <=> Granted(j)
    BY <1>a, <1>h, <1>w, <2>1, <2>2, <2>3, SameGrant
  <2>5. \A k \in Jobs \ {j} : Granted(k)' <=> Granted(k)
    BY <1>o, <2>1, <2>2
  <2>6. LedgerExact'
    BY <1>h, <2>1, <2>4, <2>5, SameLedger
  <2>7. \A k \in Jobs : future'[k] = IF k = j THEN "live" ELSE future[k]
    BY <1>a, <2>1 DEF TypeOK
  <2>8. Granting(t)
    BY <1>h, <2>1, <2>2, <2>7 DEF Granting, WaitLabels
  <2>9. QED
    BY <1>v, <2>6, <2>8
<1>3. CASE Register(t)
  <2>1. /\ pc[t] = "register" /\ pc[t] \in FrameLabels
        /\ UNCHANGED <<used, pendingVram, jobVram, queue, future, cur>>
        /\ \E l \in Quiet \cup {"callback", "cbRelease"} : Goto(t, l)
    BY <1>3, RestFacts DEF Register
  <2>2. QED
    BY <1>h, <1>q, <1>v, <2>1
<1>4. CASE InlineCallback(t)
  <2>1. /\ pc[t] = "callback" /\ pc[t] \in FrameLabels /\ Goto(t, "cbRelease")
        /\ UNCHANGED <<used, pendingVram, jobVram, queue, future, cur>>
    BY <1>4, RestFacts DEF InlineCallback
  <2>2. QED
    BY <1>h, <1>q, <1>v, <2>1
<1>5. CASE CallbackRelease(t)
  <2>1. /\ pc[t] = "cbRelease" /\ Goto(t, "pump") /\ pc'[t] = "pump"
        /\ UNCHANGED <<pendingVram, queue, future>>
        /\ jobVram' = jobVram \ {j} /\ cur' = [cur EXCEPT ![t] = 0]
        /\ ReleaseVram(IF j \in jobVram THEN vram[j] ELSE 0)
        /\ pc[t] \in FrameLabels /\ pc[t] \notin WaitLabels /\ "pump" \in Labels
    BY <1>5, <1>l, <1>p, RestFacts DEF CallbackRelease, ForgetVram, WaitLabels
  <2>2. \A k \in Jobs : Queued(k)' <=> Queued(k)
    BY <2>1 DEF Queued
  <2>3. \A u \in Threads : cur'[u] = IF u = t THEN 0 ELSE cur[u]
    BY <1>a, <2>1 DEF TypeOK
  <2>4. ~Mine(t, j) /\ ~Mine(t, j)'
    BY <2>1 DEF Mine
  <2>5. ~Granted(j)' /\ (Granted(j) <=> vram[j] > 0 /\ j \in jobVram)
    BY <1>a, <1>h, <2>1, <2>2, <2>3, <2>4, InHand
  <2>6. \A k \in Jobs \ {j} : Granted(k)' <=> Granted(k)
    BY <1>o, <2>1, <2>2, <2>3, RestFacts
  <2>7. LedgerExact'
    <3>1. CASE Granted(j)
      <4>1. ReleaseVram(Budget)
        BY <1>h, <1>w, <2>1, <2>5, <3>1
      <4>2. QED
        BY <1>a, <1>h, <2>1, <2>5, <2>6, <3>1, <4>1, OneLess
    <3>2. CASE ~Granted(j)
      <4>1. ReleaseVram(0)
        BY <1>h, <1>w, <1>a, <2>1, <2>5, <3>2
      <4>2. used' = used
        BY <1>a, <4>1 DEF ReleaseVram, TypeOK
      <4>3. QED
        BY <1>h, <2>1, <2>5, <2>6, <3>2, <4>2, SameLedger
    <3>3. QED
      BY <3>1, <3>2
  <2>8. Granting(t)
    <3>1. ~Holds(t)'
      BY <2>1, RestFacts DEF Holds
    <3>2. QED
      BY <1>h, <2>1, <2>2, <2>3, <3>1 DEF Granting
  <2>9. QED
    BY <1>v, <2>7, <2>8
<1>6. CASE PumpEnter(t) \/ PumpCount(t) \/ PumpCountRaises(t)
  <2>1. /\ pc[t] \in {"pump", "pumpCount"}
        /\ UNCHANGED <<used, pendingVram, jobVram, queue, future, cur>>
        /\ PumpReturn(t) \/ \E l \in {"pumpCount", "pumpPop", "idle"} : Goto(t, l)
    BY <1>6 DEF PumpEnter, PumpCount, PumpCountRaises
  <2>2. PICK l \in Quiet : Goto(t, l)
    BY <1>r, <2>1, RestFacts
  <2>3. l \notin {"callback", "cbRelease"}
    BY <2>2, RestFacts
  <2>4. QED
    BY <1>q, <1>v, <2>1, <2>2, <2>3
<1>7. CASE PumpPop(t)
  <2>1. /\ pc[t] = "pumpPop" /\ UNCHANGED <<used, pendingVram, jobVram, future>>
        /\ \/ PumpReturn(t) /\ UNCHANGED <<queue, cur>>
           \/ /\ queue[pool[t]] # <<>> /\ Goto(t, "pumpGate")
              /\ queue' = [queue EXCEPT ![pool[t]] = Tail(@)]
              /\ cur' = [cur EXCEPT ![t] = Head(queue[pool[t]])]
    BY <1>7 DEF PumpPop, TakeHead
  <2>2. CASE PumpReturn(t) /\ UNCHANGED <<queue, cur>>
    <3>1. PICK l \in Quiet : Goto(t, l)
      BY <1>r, <2>2
    <3>2. l \notin {"callback", "cbRelease"}
      BY <3>1, RestFacts
    <3>3. QED
      BY <1>q, <1>v, <2>1, <2>2, <3>1, <3>2
  <2>3. CASE /\ queue[pool[t]] # <<>> /\ Goto(t, "pumpGate")
             /\ queue' = [queue EXCEPT ![pool[t]] = Tail(@)]
             /\ cur' = [cur EXCEPT ![t] = Head(queue[pool[t]])]
    <3>0. PICK h : h = Head(queue[pool[t]])
      OBVIOUS
    <3> USE <3>0
    <3>1. /\ h \in Jobs /\ Queued(h)
          /\ \A k : Queued(k)' <=> Queued(k) /\ k # h
      BY <1>a, <2>3, Popped
    <3>2. /\ pc'[t] = "pumpGate" /\ "pumpGate" \in Labels
          /\ \A u \in Threads : cur'[u] = IF u = t THEN h ELSE cur[u]
      BY <1>a, <1>l, <1>p, <2>3, RestFacts DEF TypeOK
    <3>3. Mine(t, h)' /\ \A k \in Jobs \ {h} : ~Mine(t, k) /\ ~Mine(t, k)'
      BY <2>1, <3>2 DEF Mine
    <3>4. Granted(h)' <=> Granted(h)
      BY <1>v, <2>1, <3>1, <3>3 DEF Granted
    <3>5. \A k \in Jobs \ {h} : Granted(k)' <=> Granted(k)
      BY <1>a, <1>w, <2>1, <2>3, <3>1, <3>2, <3>3, SameGrant
    <3>6. LedgerExact'
      BY <2>1, <3>1, <3>4, <3>5, SameLedger
    <3>7. Granting(t)
      BY <2>1, <2>3, <3>1, <3>2 DEF Granting, WaitLabels
    <3>8. QED
      BY <1>v, <3>6, <3>7
  <2>4. QED
    BY <2>1, <2>2, <2>3
<1>8. CASE PumpGate(t)
  <2>1. /\ pc[t] = "pumpGate" /\ UNCHANGED <<jobVram, queue, future, cur>>
        /\ pc[t] \in PumpLabels /\ {"dispatch", "pumpBack"} \subseteq Labels
    BY <1>8, <1>l, RestFacts DEF PumpGate
  <2>2. \A k \in Jobs : Queued(k)' <=> Queued(k)
    BY <2>1 DEF Queued
  <2>3. Mine(t, j)
    BY <2>1 DEF Mine
  <2>4. CASE j \in pendingVram /\ Goto(t, "pumpBack") /\ UNCHANGED <<used, pendingVram>>
    <3>1. pc'[t] = "pumpBack"
      BY <1>p, <2>1, <2>4
    <3>2. ~Granted(j) /\ ~Granted(j)'
      BY <2>4 DEF Granted
    <3>3. \A k \in Jobs \ {j} : Granted(k)' <=> Granted(k)
      BY <1>o, <2>1, <2>2, <2>4
    <3>4. LedgerExact'
      BY <1>h, <2>1, <2>4, <3>2, <3>3, SameLedger
    <3>5. Granting(t)
      BY <1>h, <2>1, <2>2, <2>4, <3>1 DEF Granting, WaitLabels
    <3>6. QED
      BY <1>v, <3>4, <3>5
  <2>5. CASE /\ j \in pendingVram /\ AllocateVram(j) /\ pendingVram' = pendingVram \ {j}
             /\ Goto(t, "dispatch")
    <3>1. pc'[t] = "dispatch" /\ Mine(t, j)'
      BY <1>p, <2>1, <2>5 DEF Mine
    <3>2. vram[j] = Budget /\ used' = used + Budget
      BY <1>a, <1>h, <1>w, <2>1, <2>5 DEF Grants, AllocateVram
    <3>3. ~Granted(j) /\ Granted(j)'
      <4>1. ~Granted(j)
        BY <2>5 DEF Granted
      <4>2. vram'[j] > 0 /\ j \notin pendingVram'
        BY <1>a, <1>h, <1>w, <2>1, <2>5, <3>2
      <4>3. QED
        BY <3>1, <4>1, <4>2 DEF Granted
    <3>4. \A k \in Jobs \ {j} : Granted(k)' <=> Granted(k)
      BY <1>o, <2>1, <2>2, <2>5
    <3>5. LedgerExact'
      BY <1>a, <1>h, <2>1, <3>2, <3>3, <3>4, OneMore
    <3>6. Granting(t)
      BY <1>h, <2>1, <2>2, <2>5, <3>1 DEF Granting, WaitLabels
    <3>7. QED
      BY <1>v, <3>5, <3>6
  <2>6. CASE j \notin pendingVram /\ Goto(t, "dispatch") /\ UNCHANGED <<used, pendingVram>>
    <3>1. pc'[t] = "dispatch" /\ Mine(t, j)'
      BY <1>p, <2>1, <2>6 DEF Mine
    <3>2. Granted(j)' <=> Granted(j)
      BY <1>a, <1>h, <1>w, <2>1, <2>2, <2>3, <2>6, <3>1, SameGrant
    <3>3. \A k \in Jobs \ {j} : Granted(k)' <=> Granted(k)
      BY <1>o, <2>1, <2>2, <2>6
    <3>4. LedgerExact'
      BY <1>h, <2>1, <2>6, <3>2, <3>3, SameLedger
    <3>5. Granting(t)
      BY <1>h, <2>1, <2>2, <2>6, <3>1 DEF Granting, WaitLabels
    <3>6. QED
      BY <1>v, <3>4, <3>5
  <2>7. QED
    BY <1>8, <2>4, <2>5, <2>6 DEF PumpGate
<1>9. CASE PumpBack(t)
  <2>1. /\ pc[t] = "pumpBack" /\ PumpReturn(t)
        /\ UNCHANGED <<used, pendingVram, jobVram, future>>
        /\ queue' = [queue EXCEPT ![pool[t]] = Cons(cur[t], queue[pool[t]])]
        /\ cur' = [cur EXCEPT ![t] = 0]
        /\ pc[t] \in PumpLabels
    BY <1>9, RestFacts DEF PumpBack, PushFront
  <2>2. PICK l \in Quiet : Goto(t, l)
    BY <1>r, <2>1
  <2>3. /\ pc'[t] = l /\ l \in Labels /\ l \notin HeldLabels
        /\ l \notin {"count", "enqueue", "raised", "pumpGate", "dispatch"}
        /\ l \notin {"submit", "gate", "park", "pumpBack"}
    BY <1>l, <1>p, <2>2, RestFacts DEF HeldLabels
  <2>4. \A u \in Threads : cur'[u] = IF u = t THEN 0 ELSE cur[u]
    BY <1>a, <2>1 DEF TypeOK
  <2>5. \A k : Queued(k)' <=> Queued(k) \/ k = j
    <3>1. ToSet(Cons(j, queue[pool[t]])) = ToSet(queue[pool[t]]) \cup {j}
      BY <1>a, <1>h, <2>1, ConsPlace
    <3>2. queue' = [queue EXCEPT ![pool[t]] = Cons(j, queue[pool[t]])]
      BY <2>1
    <3>3. QED
      BY ONLY <1>a, <3>1, <3>2, Pushed
  <2>6. j \in pendingVram
    BY <2>1 DEF Grants
  <2>7. ~Granted(j) /\ ~Granted(j)'
    BY <2>1, <2>6 DEF Granted
  <2>8. \A k \in Jobs \ {j} : Granted(k)' <=> Granted(k)
    BY <1>o, <2>1, <2>2, <2>3, <2>4, <2>5
  <2>9. LedgerExact'
    BY <1>h, <2>1, <2>7, <2>8, SameLedger
  <2>10. Granting(t)
    <3>1. ~Holds(t)'
      BY <2>3 DEF Holds, HeldLabels
    <3>2. QED
      BY <1>h, <2>1, <2>2, <2>3, <2>4, <2>5, <2>6, <3>1 DEF Granting
  <2>11. QED
    BY <1>v, <2>9, <2>10
<1>10. ~PumpFail(t)
  BY DEF PumpFail, Calm
<1>11. QED
  BY <1>1, <1>2, <1>3, <1>4, <1>5, <1>6, <1>7, <1>8, <1>9, <1>10 DEF ThreadStep

(* A management thread takes up the callback of a job that was submitted.  *)
LEMMA CallbackGrants ==
  ASSUME IInv, Grants, LedgerExact, NEW e \in Managers, NEW k \in Jobs, BeginCallback(e, k)
  PROVE  Granting(e) /\ LedgerExact' /\ UNCHANGED vram
<1> USE DEF At, ledgerVars
<1>a. TypeOK /\ e \in Threads
  BY ConstFacts DEF IInv
<1>1. /\ pc[e] = "idle" /\ Goto(e, "cbRelease") /\ "cbRelease" \in Labels
      /\ UNCHANGED <<used, jobVram, pendingVram, vram, queue, future>>
      /\ cur' = [cur EXCEPT ![e] = k] /\ future[k] = "done"
  BY RestFacts DEF BeginCallback
<1>2. /\ pc'[e] = "cbRelease"
      /\ \A u \in Threads : cur'[u] = IF u = e THEN k ELSE cur[u]
  BY <1>a, <1>1 DEF Goto, TypeOK
<1>3. \A i \in Jobs : /\ Queued(i)' <=> Queued(i)
                      /\ ~Mine(e, i) /\ ~Mine(e, i)'
  BY <1>1, <1>2 DEF Queued, Mine
<1>4. \A i \in Jobs : Granted(i)' <=> Granted(i)
  BY <1>a, <1>1, <1>2, <1>3, SameGrant
<1>5. LedgerExact'
  BY <1>1, <1>4, SameLedger
<1>6. Granting(e)
  BY <1>a, <1>1, <1>2, <1>3 DEF Granting, WaitLabels
<1>7. QED
  BY <1>1, <1>5, <1>6

(* A request begins: its job is nowhere yet.                               *)
LEMMA SubmitGrants ==
  ASSUME IInv, Grants, LedgerExact, NEW j \in Jobs, Submit(j)
  PROVE  /\ Granting(j) /\ LedgerExact'
         /\ \A k \in Jobs : /\ vram[k] > 0 => vram'[k] > 0
                            /\ vram'[k] > 0 => (vram[k] > 0 \/ k \in GpuJobs)
<1> USE DEF At, ledgerVars, jobVars, frameVars
<1>a. TypeOK /\ Placement /\ j \in Threads /\ Budget > 0
  BY ConstFacts, ProcessManagerAssumption DEF IInv
<1>1. /\ pc[j] = "new" /\ Goto(j, "select") /\ "select" \in Labels
      /\ UNCHANGED <<used, jobVram, pendingVram, queue, future, cur>>
      /\ vram' = [vram EXCEPT ![j] = IF j \in GpuJobs THEN Budget ELSE 0]
  BY RestFacts DEF Submit
<1>2. /\ pc'[j] = "select"
      /\ \A k \in Jobs : vram'[k] = IF k = j THEN (IF j \in GpuJobs THEN Budget ELSE 0)
                                            ELSE vram[k]
  BY <1>a, <1>1 DEF Goto, TypeOK
<1>3. \A k \in Jobs : Queued(k)' <=> Queued(k)
  BY <1>1 DEF Queued
<1>4. /\ Holds(j) /\ cur[j] = j /\ ~Queued(j) /\ future[j] = "none"
      /\ \A u \in Threads \ {j} : ~Mine(u, j)
      /\ j \notin pendingVram /\ j \notin jobVram
  <2>1. pc[j] \in HeldLabels /\ pc[j] \notin Submitted /\ pc[j] \notin WaitLabels
        /\ pc[j] # "submit" /\ pc[j] \in SubmitLabels
    BY <1>1, RestFacts DEF Submitted, WaitLabels
  <2>2. QED
    BY <1>a, <2>1, Alone
<1>5. \A k \in Jobs : ~Mine(j, k) /\ ~Mine(j, k)'
  BY <1>1, <1>2 DEF Mine
<1>6. ~Granted(j) /\ ~Granted(j)'
  BY <1>a, <1>1, <1>3, <1>4, <1>5, InHand
<1>7. \A k \in Jobs \ {j} : Granted(k)' <=> Granted(k)
  BY <1>a, <1>1, <1>2, <1>3, <1>5, SameGrant
<1>8. LedgerExact'
  BY <1>1, <1>6, <1>7, SameLedger
<1>9. Granting(j)
  BY <1>1, <1>2, <1>3, <1>4 DEF Granting, WaitLabels
<1>10. ASSUME NEW k \in Jobs
       PROVE  /\ vram[k] > 0 => vram'[k] > 0
              /\ vram'[k] > 0 => (vram[k] > 0 \/ k \in GpuJobs)
  <2>1. vram[j] > 0 => j \in GpuJobs
    BY DEF Grants
  <2>2. QED
    BY <1>a, <1>2, <2>1
<1>11. QED
  BY <1>8, <1>9, <1>10

(* A step that moves no thread, no job and no memory.                      *)
LEMMA StillGrants ==
  ASSUME Grants, LedgerExact,
         UNCHANGED <<used, vram, pendingVram, jobVram, queue, pc, cur>>,
         \A k \in Jobs : future'[k] = "none" <=> future[k] = "none",
         jobVram \subseteq Jobs
  PROVE  Grants' /\ LedgerExact'
<1>1. \A k \in Jobs : Queued(k)' <=> Queued(k)
  BY DEF Queued
<1>2. \A k \in Jobs : Granted(k)' <=> Granted(k)
  BY <1>1 DEF Granted, Mine
<1>3. LedgerExact'
  BY <1>2, SameLedger
<1>4. Grants'
  BY DEF Grants, Queued, Holds
<1>5. QED
  BY <1>3, <1>4

LEMMA LedgerOpens == Init => Grants /\ LedgerExact
<1> SUFFICES ASSUME Init PROVE Grants /\ LedgerExact
  OBVIOUS
<1>1. \A j \in Jobs : ~Granted(j)
  BY DEF Init, Granted
<1>2. GrantHolders = {}
  BY <1>1, HoldersAreGranted
<1>3. Cardinality(GrantHolders) = 0
  BY <1>2, FS_EmptySet
<1>4. LedgerExact
  BY <1>3, ProcessManagerAssumption DEF Init, LedgerExact
<1>5. Grants
  <2>1. \A t \in Threads : pc[t] \in {"new", "idle"}
    BY DEF Init
  <2>2. Jobs \subseteq Threads
    BY ConstFacts
  <2>3. (\A j \in Jobs : vram[j] = 0) /\ pendingVram = {} /\ jobVram = {}
    BY DEF Init
  <2>4. QED
    BY <2>1, <2>2, <2>3 DEF Grants
<1>6. QED
  BY <1>4, <1>5

LEMMA LedgerStep ==
  ASSUME NewSizes = {}, MaxCrash = 0, IInv, IInv', Calm, Calm', Grants, LedgerExact, [Next]_vars
  PROVE  Grants' /\ LedgerExact'
<1>a. TypeOK /\ TypeOK' /\ Placement /\ Placement' /\ Jobs \subseteq Threads /\ Managers \subseteq Threads
  BY ConstFacts DEF IInv
<1>1. ASSUME NEW t \in Threads, Granting(t), UNCHANGED vram
      PROVE  Grants'
  BY <1>a, <1>1, StaysGranted
<1>2. ASSUME NEW t \in Threads, ThreadStep(t)
      PROVE  Grants' /\ LedgerExact'
  BY <1>1, <1>2, ThreadGrants
<1>3. ASSUME NEW j \in Jobs, SubmitterStep(j)
      PROVE  Grants' /\ LedgerExact'
  BY <1>a, <1>1, <1>3, SubmitterGrants
<1>4. ASSUME NEW e \in Managers, NEW k \in Jobs, BeginCallback(e, k)
      PROVE  Grants' /\ LedgerExact'
  BY <1>a, <1>1, <1>4, CallbackGrants
<1>5. ASSUME NEW j \in Jobs, Submit(j)
      PROVE  Grants' /\ LedgerExact'
  BY <1>a, <1>5, SubmitGrants, StaysGranted
<1>6. ASSUME NEW j \in Jobs, WorkerDone(j)
      PROVE  Grants' /\ LedgerExact'
  <2>1. \A k \in Jobs : future'[k] = "none" <=> future[k] = "none"
    BY <1>a, <1>6 DEF WorkerDone, TypeOK
  <2>2. QED
    BY <1>a, <1>6, <2>1, StillGrants DEF WorkerDone, ledgerVars, frameVars, TypeOK
<1>7. ASSUME NEW j \in Jobs, RequestCancellation(j)
      PROVE  Grants' /\ LedgerExact'
  BY <1>a, <1>7, StillGrants DEF RequestCancellation, ledgerVars, frameVars, TypeOK
<1>8. ~ConfigStep /\ \A j \in Jobs : ~WorkerDies(j)
  <2>1. ~ConfigStep
    BY DEF ConfigStep, SwapCpu, RetireCpu, SwapGpu, RetireGpu, DropGpu, PumpBoth, At, Calm
  <2>2. \A j \in Jobs : ~WorkerDies(j)
    BY <1>a DEF WorkerDies, TypeOK
  <2>3. QED
    BY <2>1, <2>2
<1>9. CASE UNCHANGED vars
  BY <1>a, <1>9, StillGrants DEF vars, ledgerVars, jobVars, frameVars, TypeOK
<1>10. QED
  BY <1>2, <1>3, <1>4, <1>5, <1>6, <1>7, <1>8, <1>9 DEF Next, ManagerStep, Requests

(* The ledger is exactly the budgets of the jobs that passed the gate and  *)
(* have not released their memory (allocate_vram, _release_vram_for_job),  *)
(* for any number of jobs and threads, while no dispatch fails: a dispatch *)
(* fails only on a pool that was resized away or broke, and then the pump  *)
(* does forget what it allocated.                                          *)
THEOREM LedgerIsExact ==
  ASSUME NewSizes = {}, MaxCrash = 0
  PROVE  Spec => []LedgerExact
<1>1. Init => IInv /\ Calm /\ Grants /\ LedgerExact
  BY InitIInv, CalmOpens, LedgerOpens
<1>2. IInv /\ Calm /\ Grants /\ LedgerExact /\ [Next]_vars
        => (IInv /\ Calm /\ Grants /\ LedgerExact)'
  <2> SUFFICES ASSUME IInv, Calm, Grants, LedgerExact, [Next]_vars
               PROVE  IInv' /\ Calm' /\ Grants' /\ LedgerExact'
    OBVIOUS
  <2>1. IInv'
    BY NextIInv
  <2>2. Calm'
    BY <2>1, StaysCalm
  <2>3. QED
    BY <2>1, <2>2, LedgerStep
<1>3. QED
  BY <1>1, <1>2, PTL DEF Spec

=============================================================================
