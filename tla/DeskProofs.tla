----------------------------- MODULE DeskProofs -----------------------------
(* Proofs about three components around the service, for every value of      *)
(* their constants: the desktop shell (one service, and none after a stop),  *)
(* the rental of a remote GPU (the local row mirrors the remote run), and    *)
(* the archive of news (whole, and losing only what it may).                 *)
EXTENDS DesktopShell, VastRental, NewsStore, WellFoundedInduction, FiniteSetTheorems, TLAPS

-----------------------------------------------------------------------------
(* DesktopShell.                                                             *)

Services == [is : {"starting", "serving", "exited", "killed"}, asked : BOOLEAN]
Phases   == {"none", "taskkill", "waits", "too late", "stopped", "done"}
Called   == \E c \in Callers : phase[c] # "none"

(* The parts of the invariant.  A start that is under way, a restart that is *)
(* due and a service exclude one another, and there is one of each at most.  *)
Single ==
  /\ \A q, r \in Alive : q = r
  /\ Alive # {} => timers = 0 /\ pc # "port"
  /\ pc = "port" => timers = 0

(* Since a stop was called that found no start under way nothing starts; so  *)
(* the service, if there is one, is what the shell holds, and what each stop *)
(* that has not returned is about; without a manager there is none.          *)
Told ==
  /\ Alive \subseteq {proc}
  /\ Called => pc # "port" /\ timers = 0 /\ shuttingDown
  /\ ~manager => Called /\ Alive = {}
  /\ \A c \in Callers : phase[c] \in {"taskkill", "waits", "too late"} => Alive \subseteq {watch[c]}
  /\ \A c \in Callers : phase[c] \in {"stopped", "done"} => Alive = {}
  /\ life = "gone" => \A q \in Alive : procs[q].asked

Leaving == life # "runs" => Called

Inv == TypeOK /\ Single /\ Leaving /\ (~midStart => Told)

-----------------------------------------------------------------------------
(* The services.                                                             *)

\* A service that was started is the last of them.
LEMMA SpawnAdds ==
  ASSUME procs \in Seq(Services), proc \in 0..Len(procs), Spawn
  PROVE  /\ procs' \in Seq(Services) /\ Len(procs') = Len(procs) + 1
         /\ proc' = Len(procs) + 1 /\ Alive' = Alive \cup {proc'}
<1> DEFINE new == [is |-> "starting", asked |-> FALSE]
<1>1. new \in Services
  BY DEF Services
<1>2. /\ procs' \in Seq(Services) /\ Len(procs') = Len(procs) + 1
      /\ procs' = Append(procs, new) /\ proc' = Len(procs) + 1
  BY <1>1 DEF Spawn
<1>3. /\ DOMAIN procs' = 1..Len(procs) + 1 /\ DOMAIN procs = 1..Len(procs) /\ Len(procs) \in Nat
  BY <1>2
<1>4. /\ \A q \in DOMAIN procs : procs'[q] = procs[q]
      /\ procs'[Len(procs) + 1].is = "starting"
  BY <1>2
<1>5. Alive' = Alive \cup {proc'}
  BY <1>2, <1>3, <1>4 DEF Alive
<1>6. QED
  BY <1>2, <1>5

\* Who is told, asked, ended or killed is not started by it.
LEMMA ChangeOfOne ==
  ASSUME procs \in Seq(Services), NEW q \in DOMAIN procs, NEW s \in Services,
         procs' = [procs EXCEPT ![q] = s]
  PROVE  /\ procs' \in Seq(Services) /\ Len(procs') = Len(procs)
         /\ Alive' = IF s.is \in {"starting", "serving"} THEN Alive \cup {q} ELSE Alive \ {q}
         /\ \A r \in DOMAIN procs : r # q => procs'[r] = procs[r]
         /\ procs'[q] = s
<1>1. /\ DOMAIN procs = 1..Len(procs) /\ Len(procs) \in Nat /\ procs \in [1..Len(procs) -> Services]
  OBVIOUS
<1>2. procs' \in [1..Len(procs) -> Services]
  BY <1>1
<1>3. procs' \in Seq(Services) /\ Len(procs') = Len(procs)
  BY <1>1, <1>2
<1>4. /\ \A r \in DOMAIN procs : r # q => procs'[r] = procs[r]
      /\ procs'[q] = s
  BY <1>1
<1>5. DOMAIN procs' = DOMAIN procs
  OBVIOUS
<1>6. Alive' = IF s.is \in {"starting", "serving"} THEN Alive \cup {q} ELSE Alive \ {q}
  BY <1>4, <1>5 DEF Alive
<1>7. QED
  BY <1>3, <1>4, <1>6

\* What a step does to the services that does not start one.
Calmer ==
  /\ procs' \in Seq(Services) /\ Len(procs') = Len(procs) /\ Alive' \subseteq Alive
  /\ \A r \in Alive' : procs[r].asked => procs'[r].asked

LEMMA StateChanges ==
  ASSUME procs \in Seq(Services), NEW q \in Alive, NEW s \in {"serving", "exited", "killed"},
         procs' = [procs EXCEPT ![q].is = s]
  PROVE  Calmer /\ (s # "serving" => Alive' = Alive \ {q})
<1> DEFINE t == [is |-> s, asked |-> procs[q].asked]
<1>1. q \in DOMAIN procs /\ procs[q] \in Services
  BY DEF Alive
<1>2. t \in Services
  BY <1>1 DEF Services
<1>3. [procs[q] EXCEPT !.is = s] = t
  BY <1>1 DEF Services
<1>4. procs' = [procs EXCEPT ![q] = t]
  BY <1>3
<1> HIDE DEF t
<1>5. /\ procs' \in Seq(Services) /\ Len(procs') = Len(procs)
      /\ Alive' = IF t.is \in {"starting", "serving"} THEN Alive \cup {q} ELSE Alive \ {q}
      /\ \A r \in DOMAIN procs : r # q => procs'[r] = procs[r]
      /\ procs'[q] = t
  BY <1>1, <1>2, <1>4, ChangeOfOne
<1>6. t.is = s /\ t.asked = procs[q].asked
  BY DEF t
<1>7. \A r \in Alive' : r \in DOMAIN procs
  BY <1>1, <1>5 DEF Alive
<1>8. Alive' \subseteq Alive
  BY <1>5
<1>9. \A r \in Alive' : procs[r].asked => procs'[r].asked
  BY <1>5, <1>6, <1>7
<1>10. QED
  BY <1>5, <1>6, <1>8, <1>9 DEF Calmer

LEMMA Asks ==
  ASSUME procs \in Seq(Services), NEW q \in DOMAIN procs,
         procs' = [procs EXCEPT ![q].asked = TRUE]
  PROVE  Calmer /\ Alive' = Alive /\ procs'[q].asked
<1> DEFINE t == [procs[q] EXCEPT !.asked = TRUE]
<1>1. procs[q] \in Services
  OBVIOUS
<1>2. t \in Services
  BY <1>1 DEF Services
<1>3. t.is = procs[q].is /\ t.asked
  BY <1>1 DEF Services
<1>4. procs' = [procs EXCEPT ![q] = t]
  OBVIOUS
<1> HIDE DEF t
<1>5. /\ procs' \in Seq(Services) /\ Len(procs') = Len(procs)
      /\ Alive' = IF t.is \in {"starting", "serving"} THEN Alive \cup {q} ELSE Alive \ {q}
      /\ \A r \in DOMAIN procs : r # q => procs'[r] = procs[r]
      /\ procs'[q] = t
  BY <1>2, <1>4, ChangeOfOne
<1>6. t.is = procs[q].is /\ t.asked
  BY <1>3
<1>7. q \in Alive <=> t.is \in {"starting", "serving"}
  BY <1>6 DEF Alive
<1>8. Alive' = Alive
  BY <1>5, <1>7
<1>9. \A r \in Alive' : procs[r].asked => procs'[r].asked
  BY <1>5, <1>6, <1>8 DEF Alive
<1>10. QED
  BY <1>5, <1>6, <1>8, <1>9 DEF Calmer

LEMMA VictimsDie ==
  ASSUME procs \in Seq(Services), NEW V, V \subseteq Alive,
         procs' = [q \in DOMAIN procs |->
                     IF q \in V THEN [procs[q] EXCEPT !.is = "killed"] ELSE procs[q]]
  PROVE  Calmer /\ Alive' = Alive \ V
<1>1. /\ DOMAIN procs = 1..Len(procs) /\ Len(procs) \in Nat
      /\ \A q \in DOMAIN procs : procs[q] \in Services
  OBVIOUS
<1>2. \A q \in DOMAIN procs : [procs[q] EXCEPT !.is = "killed"] = [is |-> "killed", asked |-> procs[q].asked]
  BY <1>1 DEF Services
<1>3. \A q \in DOMAIN procs : /\ q \in V => procs'[q] = [is |-> "killed", asked |-> procs[q].asked]
                              /\ q \notin V => procs'[q] = procs[q]
  BY <1>2
<1>4. \A q \in DOMAIN procs : procs'[q] \in Services
  BY <1>1, <1>3 DEF Services
<1>5. DOMAIN procs' = 1..Len(procs)
  BY <1>1
<1>6. procs' \in [1..Len(procs) -> Services]
  BY <1>1, <1>4, <1>5
<1>7. procs' \in Seq(Services) /\ Len(procs') = Len(procs)
  BY <1>1, <1>6
<1>8. Alive' = Alive \ V
  BY <1>1, <1>3, <1>5 DEF Alive
<1>9. \A r \in Alive' : procs[r].asked => procs'[r].asked
  BY <1>3, <1>8 DEF Alive
<1>10. QED
  BY <1>7, <1>8, <1>9 DEF Calmer

\* A restart is only set up by the end of a service, and by no stop.
LEMMA ExitedRestarts ==
  ASSUME TypeOK, Single, NEW V, V \subseteq Alive, Exited(V)
  PROVE  /\ retries' \in 0..MaxRetries /\ timers' \in 0..1
         /\ timers' # timers => V # {} /\ ~shuttingDown /\ timers' = 1 /\ life # "gone"
<1>1. timers \in 0..1 /\ retries \in 0..MaxRetries /\ MaxRetries \in Nat
  BY Packaged DEF TypeOK, ShellAssumption
<1>2. V # {} => timers = 0
  BY DEF Single
<1>3. QED
  BY <1>1, <1>2 DEF Exited

LEMMA SingleStays ==
  ASSUME TypeOK, Single, Calmer, pc' = "port" => pc = "port", timers' \in 0..1,
         timers' \in {0, timers} \/ \E q \in Alive : q \notin Alive'
  PROVE  Single'
<1>1. timers \in 0..1
  BY DEF TypeOK
<1>2. CASE timers' \in {0, timers}
  BY <1>1, <1>2 DEF Single, Calmer
<1>3. CASE \E q \in Alive : q \notin Alive'
  <2>1. Alive' = {} /\ pc # "port"
    BY <1>3 DEF Single, Calmer
  <2>2. QED
    BY <2>1 DEF Single
<1>4. QED
  BY <1>2, <1>3

-----------------------------------------------------------------------------
(* The steps.                                                                *)

LEMMA Typed ==
  ASSUME TypeOK
  PROVE  /\ procs \in Seq(Services) /\ proc \in 0..Len(procs) /\ Len(procs) \in Nat
         /\ DOMAIN procs = 1..Len(procs) /\ Alive \subseteq DOMAIN procs
         /\ timers \in 0..1 /\ retries \in 0..MaxRetries
         /\ phase \in [Callers -> Phases] /\ watch \in [Callers -> 0..Len(procs)]
         /\ shuttingDown \in BOOLEAN /\ manager \in BOOLEAN /\ midStart \in BOOLEAN
         /\ window \in BOOLEAN /\ tray \in BOOLEAN
         /\ system \in Systems /\ life \in {"runs", "quits", "gone"}
         /\ pc \in {"port", "health", "load", "loaded", "failed"}
<1>1. /\ shuttingDown \in BOOLEAN /\ manager \in BOOLEAN /\ midStart \in BOOLEAN
      /\ window \in BOOLEAN /\ tray \in BOOLEAN
      /\ system \in Systems /\ life \in {"runs", "quits", "gone"}
      /\ pc \in {"port", "health", "load", "loaded", "failed"}
  BY Zenon DEF TypeOK
<1>2. /\ procs \in Seq(Services) /\ proc \in 0..Len(procs) /\ timers \in 0..1 /\ retries \in 0..MaxRetries
      /\ phase \in [Callers -> Phases] /\ watch \in [Callers -> 0..Len(procs)]
  BY DEF TypeOK, Services, Phases
<1>3. Len(procs) \in Nat /\ DOMAIN procs = 1..Len(procs) /\ Alive \subseteq DOMAIN procs
  BY <1>2 DEF Alive
<1>4. QED
  BY <1>1, <1>2, <1>3

\* The service that is asked to stop, if it can be, is asked.
LEMMA StopTells ==
  ASSUME Inv, NEW c \in Callers, StopCalled(c), life' # "gone",
         UNCHANGED <<system, pc, tray, manager, proc, timers, retries>>
  PROVE  /\ procs' \in Seq(Services) /\ Len(procs') = Len(procs)
         /\ phase' \in [Callers -> Phases] /\ watch' \in [Callers -> 0..Len(procs)]
         /\ shuttingDown' \in BOOLEAN /\ midStart' \in BOOLEAN
         /\ Single' /\ Called' /\ (~midStart' => Told')
<1>1. /\ procs \in Seq(Services) /\ proc \in 0..Len(procs) /\ Len(procs) \in Nat
      /\ DOMAIN procs = 1..Len(procs) /\ Alive \subseteq DOMAIN procs
      /\ phase \in [Callers -> Phases] /\ watch \in [Callers -> 0..Len(procs)]
      /\ shuttingDown \in BOOLEAN /\ manager \in BOOLEAN /\ midStart \in BOOLEAN
      /\ timers \in 0..1
  BY Typed DEF Inv
<1>2. TypeOK /\ Single /\ (~midStart => Told)
  BY DEF Inv
<1>3. Calmer /\ Alive' = Alive
  <2>1. CASE procs' = procs
    BY <1>1, <2>1 DEF Calmer, Alive
  <2>2. CASE manager /\ Running /\ procs' = [procs EXCEPT ![proc].asked = TRUE]
    <3>1. proc \in DOMAIN procs
      BY <1>1, <2>2 DEF Running
    <3>2. QED
      BY <1>1, <2>2, <3>1, Asks
  <2>3. QED
    BY <2>1, <2>2 DEF StopCalled
<1>4. procs' \in Seq(Services) /\ Len(procs') = Len(procs)
  BY <1>3 DEF Calmer
<1>5. phase'[c] \in Phases \ {"none"} /\ \A d \in Callers : d # c => phase'[d] = phase[d]
  BY <1>1 DEF StopCalled, Registered, Phases
<1>6. phase' \in [Callers -> Phases] /\ watch' \in [Callers -> 0..Len(procs)]
  BY <1>1 DEF StopCalled, Registered, Phases
<1>7. Called'
  BY <1>5 DEF Called
<1>8. shuttingDown' \in BOOLEAN /\ midStart' \in BOOLEAN
  BY <1>1 DEF StopCalled
<1>9. Single'
  BY <1>1, <1>2, <1>3, SingleStays
<1>10. ASSUME ~midStart' PROVE Told'
  <2>1. ~midStart /\ Told
    BY <1>1, <1>2, <1>10 DEF StopCalled
  <2>2. pc # "port" /\ timers = 0 /\ shuttingDown'
    <3>1. CASE Called
      BY <2>1, <3>1 DEF Told, StopCalled
    <3>2. CASE ~Called
      <4>1. manager /\ \A d \in Callers : phase[d] = "none"
        BY <1>1, <2>1, <3>2 DEF Told, Called
      <4>2. shuttingDown' /\ ~(timers > 0 \/ pc = "port")
        BY <1>10, <4>1 DEF StopCalled
      <4>3. QED
        BY <1>1, <4>2
    <3>3. QED
      BY <3>1, <3>2
  <2>3. phase'[c] \in {"stopped", "done"} => Alive = {}
    <3>1. phase'[c] # "done"
      BY <1>1 DEF StopCalled, Registered
    <3>2. phase'[c] = "stopped" => ~manager \/ ~Running
      BY <1>1 DEF StopCalled, Registered
    <3>3. ~Running => proc \notin Alive
      BY <1>1 DEF Running, Alive
    <3>4. ~Running => Alive = {}
      BY <2>1, <3>3 DEF Told
    <3>5. QED
      BY <2>1, <3>1, <3>2, <3>4 DEF Told
  <2>4. phase'[c] \in {"taskkill", "waits", "too late"} => watch'[c] = proc
    BY <1>1 DEF StopCalled
  <2>5. \A d \in Callers : d # c => watch'[d] = watch[d]
    BY <1>1 DEF StopCalled
  <2>6. /\ \A d \in Callers : phase'[d] \in {"taskkill", "waits", "too late"} => Alive \subseteq {watch'[d]}
        /\ \A d \in Callers : phase'[d] \in {"stopped", "done"} => Alive = {}
    BY <1>5, <2>1, <2>3, <2>4, <2>5 DEF Told
  <2>7. QED
    BY <1>3, <1>7, <2>1, <2>2, <2>6 DEF Told
<1>11. QED
  BY <1>4, <1>6, <1>7, <1>8, <1>9, <1>10

LEMMA StopSteps ==
  ASSUME Inv, NEW c \in Callers,
         \/ Quit /\ c = "quit"
         \/ CloseWindow /\ c = "closed"
         \/ Signal /\ c = "signal"
  PROVE  Inv'
<1>1. /\ StopCalled(c) /\ life' \in {"runs", "quits"}
      /\ UNCHANGED <<system, pc, tray, manager, proc, timers, retries>>
      /\ window' \in {window, FALSE}
  BY DEF Quit, QuitBegins, CloseWindow, Signal
<1>2. /\ procs' \in Seq(Services) /\ Len(procs') = Len(procs)
      /\ phase' \in [Callers -> Phases] /\ watch' \in [Callers -> 0..Len(procs)]
      /\ shuttingDown' \in BOOLEAN /\ midStart' \in BOOLEAN
      /\ Single' /\ Called' /\ (~midStart' => Told')
  BY <1>1, StopTells
<1>3. /\ window \in BOOLEAN /\ tray \in BOOLEAN /\ manager \in BOOLEAN
      /\ system \in Systems /\ pc \in {"port", "health", "load", "loaded", "failed"}
      /\ proc \in 0..Len(procs) /\ timers \in 0..1 /\ retries \in 0..MaxRetries
  BY Zenon DEF Inv, TypeOK
<1>4. {window, tray, manager, shuttingDown, midStart}' \subseteq BOOLEAN
  BY <1>1, <1>2, <1>3, Zenon
<1>5. TypeOK'
  BY <1>1, <1>2, <1>3, <1>4 DEF TypeOK, Services, Phases
<1>6. QED
  BY <1>2, <1>5 DEF Inv, Leaving

\* A start is only made while nobody has called stop, or where stop() found it
\* under way.
LEMMA StartSteps ==
  ASSUME Inv, FoundPort \/ Restart
  PROVE  Inv'
<1>1. /\ procs \in Seq(Services) /\ proc \in 0..Len(procs) /\ Len(procs) \in Nat
      /\ timers \in 0..1 /\ DOMAIN procs = 1..Len(procs) /\ Alive \subseteq DOMAIN procs
      /\ watch \in [Callers -> 0..Len(procs)]
  BY Typed DEF Inv
<1>2. TypeOK /\ Single /\ Leaving /\ (~midStart => Told)
  BY DEF Inv
<1>3. /\ Spawn /\ life # "gone" /\ UNCHANGED <<system, life, window, tray, manager, retries, phase, watch, midStart>>
      /\ pc' \in {pc, "health"} /\ shuttingDown' \in {shuttingDown, FALSE}
  BY DEF FoundPort, Restart
<1>4. Alive = {} /\ timers' = 0 /\ pc' # "port"
  BY <1>1, <1>2 DEF FoundPort, Restart, Single
<1>5. /\ procs' \in Seq(Services) /\ Len(procs') = Len(procs) + 1
      /\ proc' = Len(procs) + 1 /\ Alive' = {proc'}
  BY <1>1, <1>3, <1>4, SpawnAdds
<1>6. Single'
  BY <1>4, <1>5 DEF Single
<1>7. ASSUME ~midStart' PROVE Told'
  <2>1. Told
    BY <1>2, <1>3, <1>7
  <2>2. pc = "port" \/ timers > 0
    BY DEF FoundPort, Restart
  <2>3. ~Called
    <3>1. Called => pc # "port" /\ timers = 0
      BY <2>1, Zenon DEF Told
    <3>2. QED
      BY <1>1, <2>2, <3>1
  <2>4. manager' /\ ~Called' /\ \A d \in Callers : phase'[d] = "none"
    BY <1>3, <2>1, <2>3 DEF Told, Called
  <2>5. QED
    BY <1>3, <1>5, <2>4 DEF Told
<1>8. Leaving'
  BY <1>2, <1>3 DEF Leaving, Called
<1>9. /\ window \in BOOLEAN /\ tray \in BOOLEAN /\ manager \in BOOLEAN
      /\ shuttingDown \in BOOLEAN /\ midStart \in BOOLEAN
      /\ system \in Systems /\ life \in {"runs", "quits", "gone"} /\ retries \in 0..MaxRetries
      /\ pc \in {"port", "health", "load", "loaded", "failed"} /\ phase \in [Callers -> Phases]
  BY Typed DEF Inv
<1>10. {window, tray, manager, shuttingDown, midStart}' \subseteq BOOLEAN
  BY <1>3, <1>9, Zenon
<1>11. watch' \in [Callers -> 0..Len(procs')]
  BY <1>1, <1>3, <1>5
<1>12. proc' \in 0..Len(procs') /\ timers' \in 0..1 /\ pc' \in {"port", "health", "load", "loaded", "failed"}
  BY <1>1, <1>3, <1>4, <1>5, <1>9
<1>13. TypeOK'
  BY <1>3, <1>5, <1>9, <1>10, <1>11, <1>12, Zenon DEF TypeOK, Services, Phases
<1>14. QED
  BY <1>2, <1>6, <1>7, <1>8, <1>13 DEF Inv

(* The other steps: the services only end, and a stop only goes on.          *)

\* The phase of a stop that was called goes on; it ends when its service did.
Advances(c) ==
  \E s \in Phases \ {"none"} :
    /\ phase' \in {phase, [phase EXCEPT ![c] = s]}
    /\ phase' # phase => phase[c] # "none"
    /\ phase' # phase /\ s \notin {"stopped", "done"} => s # "taskkill" /\ phase[c] = "taskkill"
    /\ phase' # phase /\ s \in {"stopped", "done"} => Alive' = {} \/ midStart

Goes(c) ==
  /\ UNCHANGED <<system, shuttingDown, watch, midStart>>
  /\ Calmer /\ proc' \in {proc, 0} /\ (proc' = 0 => proc = 0 \/ Alive' = {} \/ midStart)
  /\ pc' \in {"port", "health", "load", "loaded", "failed"} /\ (pc' = "port" => pc = "port")
  /\ retries' \in 0..MaxRetries /\ timers' \in 0..1
  /\ timers' \in {0, timers} \/ (~shuttingDown /\ \E q \in Alive : q \notin Alive')
  /\ {window', tray', manager'} \subseteq BOOLEAN
  /\ Advances(c)
  /\ manager' = manager \/ (~manager' /\ (midStart \/ (Called /\ Alive = {})))
  /\ life' \in {"runs", "quits", "gone"}
  /\ life' # "runs" => life # "runs" \/ Called
  /\ life' = "gone" /\ ~midStart => life = "gone" \/ (\A q \in Alive' : procs'[q].asked)

LEMMA GoingOn ==
  ASSUME Inv, NEW c \in Callers, Goes(c)
  PROVE  Inv'
<1>1. /\ procs \in Seq(Services) /\ proc \in 0..Len(procs) /\ Len(procs) \in Nat
      /\ timers \in 0..1 /\ phase \in [Callers -> Phases] /\ watch \in [Callers -> 0..Len(procs)]
      /\ shuttingDown \in BOOLEAN /\ manager \in BOOLEAN /\ midStart \in BOOLEAN
      /\ system \in Systems
  BY Typed DEF Inv
<1>2. TypeOK /\ Single /\ Leaving /\ (~midStart => Told)
  BY DEF Inv
<1>3. /\ UNCHANGED <<system, shuttingDown, watch, midStart>>
      /\ procs' \in Seq(Services) /\ Len(procs') = Len(procs) /\ Alive' \subseteq Alive
      /\ \A r \in Alive' : procs[r].asked => procs'[r].asked
  BY DEF Goes, Calmer
<1>4. PICK s \in Phases \ {"none"} :
        /\ phase' \in {phase, [phase EXCEPT ![c] = s]}
        /\ phase' # phase => phase[c] # "none"
        /\ phase' # phase /\ s \notin {"stopped", "done"} => s # "taskkill" /\ phase[c] = "taskkill"
        /\ phase' # phase /\ s \in {"stopped", "done"} => Alive' = {} \/ midStart
  BY DEF Goes, Advances
<1>5. phase' \in [Callers -> Phases]
  BY <1>1, <1>4
<1>6. \A d \in Callers : phase'[d] # phase[d] => d = c /\ phase' # phase /\ phase'[d] = s
  BY <1>1, <1>4
<1>7. Called => Called'
  BY <1>4, <1>6 DEF Called
<1>8. Single'
  BY <1>2, SingleStays DEF Goes
<1>9. ASSUME ~midStart' PROVE Told'
  <2>1. Told /\ ~midStart
    BY <1>2, <1>3, <1>9
  <2>2. Alive' \subseteq {proc'}
    BY <1>3, <2>1 DEF Told, Goes
  <2>3. Called' => Called
    BY <1>1, <1>4, <1>6, <2>1 DEF Called
  <2>4. Called' => pc' # "port" /\ timers' = 0 /\ shuttingDown'
    <3>1. Called => pc # "port" /\ timers = 0 /\ shuttingDown
      BY <2>1, Zenon DEF Told
    <3>2. (pc' = "port" => pc = "port") /\ (timers' \in {0, timers} \/ ~shuttingDown)
      BY Zenon DEF Goes
    <3>3. QED
      BY <1>3, <2>3, <3>1, <3>2, Zenon
  <2>5. ~manager' => Called' /\ Alive' = {}
    BY <1>1, <1>3, <1>7, <2>1 DEF Told, Goes
  <2>6. \A d \in Callers : phase'[d] \in {"taskkill", "waits", "too late"} => Alive' \subseteq {watch'[d]}
    BY <1>3, <1>4, <1>6, <2>1 DEF Told
  <2>7. \A d \in Callers : phase'[d] \in {"stopped", "done"} => Alive' = {}
    BY <1>3, <1>4, <1>6, <2>1 DEF Told
  <2>8. life' = "gone" => \A q \in Alive' : procs'[q].asked
    BY <1>3, <2>1 DEF Told, Goes
  <2>9. QED
    BY <2>2, <2>4, <2>5, <2>6, <2>7, <2>8 DEF Told
<1>10. Leaving'
  BY <1>2, <1>7 DEF Leaving, Goes
<1>11. TypeOK'
  <2>1. {window, tray, manager, shuttingDown, midStart}' \subseteq BOOLEAN
    BY <1>1, <1>3, Zenon DEF Goes
  <2>2. /\ proc' \in 0..Len(procs') /\ timers' \in 0..1 /\ retries' \in 0..MaxRetries
        /\ watch' \in [Callers -> 0..Len(procs')]
    BY <1>1, <1>3 DEF Goes
  <2>3. life' \in {"runs", "quits", "gone"} /\ pc' \in {"port", "health", "load", "loaded", "failed"}
    BY Zenon DEF Goes
  <2>4. system' \in Systems /\ procs' \in Seq(Services)
    BY <1>1, <1>3
  <2>5. QED
    BY <1>5, <2>1, <2>2, <2>3, <2>4, Zenon DEF TypeOK, Services, Phases
<1>12. QED
  BY <1>2, <1>3, <1>8, <1>9, <1>10, <1>11 DEF Inv

LEMMA QuietStays ==
  ASSUME TypeOK, UNCHANGED procs
  PROVE  Calmer /\ Alive' = Alive
BY Typed DEF Calmer, Alive

LEMMA OtherSteps ==
  ASSUME Inv,
         \/ Waited \/ LoadFrontend \/ Serves \/ Exits \/ WillQuit
         \/ \E c \in Callers : Taskkill(c) \/ Waits(c) \/ CleanedUp(c)
  PROVE  Inv'
<1>1. /\ procs \in Seq(Services) /\ proc \in 0..Len(procs) /\ Len(procs) \in Nat
      /\ DOMAIN procs = 1..Len(procs) /\ Alive \subseteq DOMAIN procs
      /\ timers \in 0..1 /\ retries \in 0..MaxRetries
      /\ phase \in [Callers -> Phases] /\ watch \in [Callers -> 0..Len(procs)]
      /\ shuttingDown \in BOOLEAN /\ manager \in BOOLEAN /\ midStart \in BOOLEAN
      /\ window \in BOOLEAN /\ tray \in BOOLEAN
      /\ system \in Systems /\ life \in {"runs", "quits", "gone"}
      /\ pc \in {"port", "health", "load", "loaded", "failed"}
  BY Typed DEF Inv
<1>2. TypeOK /\ Single /\ Leaving /\ (~midStart => Told)
  BY DEF Inv
<1>3. "quit" \in Callers
  BY DEF Callers
<1>4. "stopped" \in Phases \ {"none"}
  BY DEF Phases
<1>5. ASSUME NEW c \in Callers, UNCHANGED phase
      PROVE  Advances(c)
  BY <1>4, <1>5, Zenon DEF Advances
<1>6. ASSUME Waited \/ LoadFrontend PROVE Goes("quit")
  <2>1. Calmer /\ Alive' = Alive
    BY <1>2, <1>6, QuietStays DEF Waited, LoadFrontend
  <2>2. QED
    BY <1>1, <1>3, <1>4, <1>5, <1>6, <2>1 DEF Waited, LoadFrontend, Goes
<1>7. ASSUME Serves PROVE Goes("quit")
  <2>1. Calmer
    BY <1>1, <1>7, StateChanges DEF Serves
  <2>2. QED
    BY <1>1, <1>3, <1>4, <1>5, <1>7, <2>1 DEF Serves, Goes
<1>8. ASSUME Exits PROVE Goes("quit")
  <2>1. PICK q \in Alive, how \in {"exited", "killed"} :
          procs' = [procs EXCEPT ![q].is = how] /\ Exited({q})
    BY <1>8 DEF Exits
  <2>2. Calmer /\ Alive' = Alive \ {q}
    BY <1>1, <2>1, StateChanges
  <2>3. /\ retries' \in 0..MaxRetries /\ timers' \in 0..1
        /\ timers' # timers => ~shuttingDown
    BY <1>2, <2>1, ExitedRestarts
  <2>4. QED
    BY <1>1, <1>3, <1>4, <1>5, <1>8, <2>2, <2>3 DEF Exits, Goes
<1>9. ASSUME WillQuit PROVE Goes("quit")
  <2>1. Calmer /\ Alive' = Alive /\ (manager /\ Running => procs'[proc].asked)
    <3>1. CASE manager /\ Running
      <4>1. proc \in DOMAIN procs /\ procs' = [procs EXCEPT ![proc].asked = TRUE]
        BY <1>1, <1>9, <3>1 DEF Running, WillQuit
      <4>2. QED
        BY <1>1, <4>1, Asks
    <3>2. CASE ~(manager /\ Running)
      BY <1>2, <1>9, <3>2, QuietStays DEF WillQuit
    <3>3. QED
      BY <3>1, <3>2
  <2>2. ASSUME ~midStart PROVE \A q \in Alive' : procs'[q].asked
    <3>1. Alive \subseteq {proc} /\ (~manager => Alive = {})
      BY <1>2, <2>2, Zenon DEF Told
    <3>2. ~Running => proc \notin Alive
      BY <1>1 DEF Running, Alive
    <3>3. QED
      BY <2>1, <3>1, <3>2
  <2>3. /\ UNCHANGED <<system, shuttingDown, watch, midStart, pc, tray, manager, proc, retries, phase>>
        /\ life = "quits" /\ life' = "gone" /\ window' = FALSE /\ timers' = 0
    BY <1>9 DEF WillQuit
  <2>4. {window', tray', manager'} \subseteq BOOLEAN
    BY <1>1, <2>3
  <2>5. Advances("quit")
    BY <1>3, <1>4, <1>5, <2>3
  <2>6. QED
    BY <1>1, <2>1, <2>2, <2>3, <2>4, <2>5 DEF Goes
<1>10. ASSUME NEW c \in Callers, Taskkill(c) PROVE Goes(c)
  <2>1. /\ Calmer /\ retries' \in 0..MaxRetries /\ timers' \in 0..1
        /\ timers' = timers \/ (~shuttingDown /\ \E q \in Alive : q \notin Alive')
    <3>1. CASE UNCHANGED <<procs, timers, retries>>
      BY <1>1, <1>2, <3>1, QuietStays
    <3>2. CASE /\ watch[c] \in Alive
               /\ procs' = [procs EXCEPT ![watch[c]].is = "exited"] /\ Exited({watch[c]})
      <4>1. Calmer /\ Alive' = Alive \ {watch[c]}
        BY <1>1, <3>2, StateChanges
      <4>2. /\ retries' \in 0..MaxRetries /\ timers' \in 0..1
            /\ timers' # timers => ~shuttingDown
        BY <1>2, <3>2, ExitedRestarts
      <4>3. QED
        BY <3>2, <4>1, <4>2
    <3>3. QED
      BY <1>10, <3>1, <3>2 DEF Taskkill
  <2>2. /\ phase[c] = "taskkill"
        /\ \E s \in {"waits", "too late"} : phase' = [phase EXCEPT ![c] = s]
    BY <1>10 DEF Taskkill
  <2>3. Advances(c)
    BY <2>2 DEF Phases, Advances
  <2>4. QED
    BY <1>1, <1>10, <2>1, <2>3 DEF Taskkill, Goes
<1>11. ASSUME NEW c \in Callers, Waits(c) PROVE Goes(c)
  <2>1. phase[c] \in {"waits", "too late"} /\ phase' = [phase EXCEPT ![c] = "stopped"]
    BY <1>11 DEF Waits
  <2>2. ~midStart => Alive \subseteq {watch[c]} /\ Alive \subseteq {proc}
    BY <1>2, <2>1 DEF Told
  <2>3. /\ Calmer /\ retries' \in 0..MaxRetries /\ timers' \in 0..1
        /\ timers' = timers \/ (~shuttingDown /\ \E q \in Alive : q \notin Alive')
        /\ Alive' = {} \/ midStart
    <3>1. CASE watch[c] \notin Alive /\ UNCHANGED <<procs, timers, retries>>
      BY <1>1, <1>2, <2>2, <3>1, QuietStays
    <3>2. CASE /\ procs' = [p \in DOMAIN procs |->
                              IF p \in Victim(c) THEN [procs[p] EXCEPT !.is = "killed"] ELSE procs[p]]
               /\ Exited(Victim(c))
      <4>1. Victim(c) \subseteq Alive
        BY DEF Victim
      <4>2. Calmer /\ Alive' = Alive \ Victim(c)
        BY <1>1, <3>2, <4>1, VictimsDie
      <4>3. /\ retries' \in 0..MaxRetries /\ timers' \in 0..1
            /\ timers' # timers => ~shuttingDown /\ Victim(c) # {}
        BY <1>2, <3>2, <4>1, ExitedRestarts
      <4>4. ~midStart => Alive' = {}
        BY <2>2, <4>2 DEF Victim
      <4>5. QED
        BY <4>1, <4>2, <4>3, <4>4
    <3>3. QED
      BY <1>11, <3>1, <3>2 DEF Waits
  <2>4. Advances(c)
    BY <1>4, <2>1, <2>3 DEF Advances
  <2>5. QED
    BY <1>1, <1>11, <2>3, <2>4 DEF Waits, Goes
<1>12. ASSUME NEW c \in Callers, CleanedUp(c) PROVE Goes(c)
  <2>1. phase[c] = "stopped" /\ phase' = [phase EXCEPT ![c] = "done"]
    BY <1>12 DEF CleanedUp
  <2>2. Called /\ (~midStart => Alive = {})
    BY <1>2, <2>1 DEF Told, Called
  <2>3. Calmer /\ Alive' = Alive
    BY <1>2, <1>12, QuietStays DEF CleanedUp
  <2>4. Advances(c)
    BY <2>1, <2>2, <2>3 DEF Phases, Advances
  <2>5. QED
    BY <1>1, <1>12, <2>2, <2>3, <2>4 DEF CleanedUp, Goes
<1>13. QED
  BY <1>3, <1>6, <1>7, <1>8, <1>9, <1>10, <1>11, <1>12, GoingOn

-----------------------------------------------------------------------------
(* The theorems.                                                             *)

\* At most one service, restart or start.
LEMMA InvIsEnough ==
  ASSUME Inv
  PROVE  ServiceHolds
<1>1. timers \in 0..1 /\ midStart \in BOOLEAN
  BY Typed DEF Inv
<1>2. OneBackend
  <2>1. CASE Alive = {}
    <3>1. Cardinality(Alive) = 0
      BY <2>1, FS_EmptySet
    <3>2. QED
      BY <1>1, <3>1 DEF OneBackend, Inv, Single
  <2>2. CASE Alive # {}
    <3>1. PICK q \in Alive : Alive = {q}
      BY <2>2 DEF Inv, Single
    <3>2. Cardinality(Alive) = 1
      BY <3>1, FS_Singleton
    <3>3. QED
      BY <2>2, <3>2 DEF OneBackend, Inv, Single
  <2>3. QED
    BY <2>1, <2>2
<1>3. StopStops
  <2>1. SUFFICES ASSUME ~midStart PROVE /\ (\E c \in Callers : phase[c] \in {"stopped", "done"}) => Alive = {} /\ timers = 0
                                        /\ life = "gone" => \A p \in Alive : procs[p].asked
    BY DEF StopStops
  <2>2. Told
    BY <2>1 DEF Inv
  <2>3. (\E c \in Callers : phase[c] \in {"stopped", "done"}) => Called
    BY DEF Called
  <2>4. QED
    BY <2>2, <2>3, Zenon DEF Told
<1>4. QED
  BY <1>2, <1>3 DEF ServiceHolds

LEMMA InvStarts == Init => Inv
<1> SUFFICES ASSUME Init PROVE Inv
  OBVIOUS
<1>1. /\ procs = <<>> /\ DOMAIN procs = {} /\ Len(procs) = 0 /\ procs \in Seq(Services)
  BY DEF Init
<1>2. Alive = {}
  BY <1>1 DEF Alive
<1>3. ~Called
  BY DEF Called, Init
<1>4. TypeOK
  <2>1. {window, tray, manager, shuttingDown, midStart} \subseteq BOOLEAN
    BY Zenon DEF Init
  <2>2. phase \in [Callers -> Phases] /\ watch \in [Callers -> 0..Len(procs)]
    BY <1>1 DEF Init, Phases
  <2>3. proc \in 0..Len(procs) /\ timers \in 0..1 /\ retries \in 0..MaxRetries
    BY <1>1, Packaged DEF Init, ShellAssumption
  <2>4. QED
    BY <1>1, <2>1, <2>2, <2>3, Zenon DEF Init, TypeOK, Services, Phases
<1>5. Told
  BY <1>1, <1>2, <1>3 DEF Told, Init
<1>6. QED
  BY <1>2, <1>3, <1>4, <1>5 DEF Inv, Single, Leaving, Init

LEMMA InvIsInductive == Inv /\ [Next]_shell => Inv'
<1> SUFFICES ASSUME Inv, [Next]_shell PROVE Inv'
  OBVIOUS
<1>1. CASE Next
  <2>1. CASE FoundPort \/ Restart
    BY <2>1, StartSteps
  <2>2. CASE Quit \/ CloseWindow \/ Signal
    BY <2>2, StopSteps DEF Callers
  <2>3. CASE \/ Waited \/ LoadFrontend \/ Serves \/ Exits \/ WillQuit
             \/ \E c \in Callers : Taskkill(c) \/ Waits(c) \/ CleanedUp(c)
    BY <2>3, OtherSteps
  <2>4. QED
    BY <1>1, <2>1, <2>2, <2>3 DEF Next
<1>2. CASE UNCHANGED shell
  <2>1. UNCHANGED <<system, life, pc, window, tray, manager, procs, proc, timers, retries,
                    shuttingDown, phase, watch, midStart>>
    BY <1>2 DEF shell
  <2>2. Alive' = Alive /\ (Called' <=> Called)
    BY <2>1 DEF Alive, Called
  <2>3. TypeOK'
    BY <2>1 DEF Inv, TypeOK
  <2>4. QED
    BY <2>1, <2>2, <2>3 DEF Inv, Single, Leaving, Told
<1>3. QED
  BY <1>1, <1>2

\* Every variable keeps its type.
THEOREM TypesHold == Spec => []TypeOK
<1>1. Inv => TypeOK
  BY DEF Inv
<1>2. QED
  BY <1>1, InvStarts, InvIsInductive, PTL DEF Spec

\* However the shell is closed, quit, signalled and its service restarted and
\* killed, it has one service, and none once a stop() has returned that found
\* no start under way.
THEOREM OneServiceAndNoneAfterStop == Spec => []ServiceHolds
<1>1. QED
  BY InvIsEnough, InvStarts, InvIsInductive, PTL DEF Spec

-----------------------------------------------------------------------------
(* VastRental.                                                               *)

\* A page's submission has the id of its job, and no page follows it yet.
Following(p) == submit[p].at \in {"answer", "created", "mirrored"}

Ending(s) == IF s = "completed" THEN "completed" ELSE "failed"

\* A job of the machine whose submission is over.
Known(j) ==
  /\ j \in Jobs /\ remote[j] # "none"
  /\ \A p \in Pages : Following(p) => submit[p].job # j

(* The parts of the invariant.  Submissions are of the machine's jobs, each  *)
(* of its own.                                                               *)
Submitted == \A p \in Pages : Following(p) =>
  /\ submit[p].job \in Jobs /\ remote[submit[p].job] # "none"
  /\ \A q \in Pages \ {p} : Following(q) => submit[q].job # submit[p].job

(* A run that a page follows is submitted, and ended as the page says.       *)
Watching == \A p \in Pages :
  /\ run[p] # None => Known(run[p])
  /\ data[p] \in Terminal => run[p] # None /\ remote[run[p]] = data[p]

(* A status request has the end of its job, and writes that to the row       *)
(* before it answers, unless a write fails.                                  *)
AskedOf(p) == poll[p].at # "idle" =>
  /\ Known(poll[p].job)
  /\ poll[p].says \in Terminal => remote[poll[p].job] = poll[p].says
  /\ poll[p].at = "results" => poll[p].says = "completed"
  /\ poll[p].at = "mirror" => poll[p].says \in Terminal
  /\ poll[p].at = "answer" /\ poll[p].says \in Terminal /\ faults = 0 =>
       row[poll[p].job] \in {"absent", Ending(poll[p].says)}

Asked == \A p \in Pages : AskedOf(p)

(* MirrorIsTrue.                                                             *)
Mirrored ==
  /\ \A j \in Jobs : row[j] = "completed" => remote[j] = "completed" /\ j \in results
  /\ faults = 0 => \A p \in Pages : data[p] \in Terminal => row[run[p]] \in {"absent", Ending(data[p])}

RentalInv == RentalTypeOK /\ Submitted /\ Watching /\ Asked /\ Mirrored

\* The invariant holds before anything is submitted.
LEMMA RentalStarts == ASSUME RentalAssumption, RentalInit PROVE RentalInv
BY DEF RentalAssumption, RentalInit, RentalInv, RentalTypeOK, Submitted, Watching, Asked, AskedOf, Mirrored,
       NotSent, Quiet, Following, Terminal

(* A job nobody submits any more stays one while remote jobs are not taken   *)
(* back and nobody begins to submit it.                                      *)
LEMMA KnownKept ==
  ASSUME \A i \in Jobs : remote[i] # "none" => remote'[i] # "none",
         \A q \in Pages : Following(q)' => Following(q) /\ submit'[q].job = submit[q].job
  PROVE  \A i \in Jobs : Known(i) => Known(i)'
BY DEF Known

(* Submissions that go on, or end, stay apart.                               *)
LEMMA SubmittedKept ==
  ASSUME Submitted,
         \A i \in Jobs : remote[i] # "none" => remote'[i] # "none",
         \A q \in Pages : Following(q)' => Following(q) /\ submit'[q].job = submit[q].job
  PROVE  Submitted'
<1>1. ASSUME NEW q \in Pages, Following(q)' PROVE submit'[q].job \in Jobs /\ remote'[submit'[q].job] # "none"
  BY <1>1 DEF Submitted
<1>2. ASSUME NEW q \in Pages, Following(q)', NEW r \in Pages \ {q}, Following(r)'
      PROVE  submit'[r].job # submit'[q].job
  BY <1>2 DEF Submitted
<1> QED BY <1>1, <1>2 DEF Submitted

(* The ends of remote jobs stand.                                            *)
LEMMA WatchingKept ==
  ASSUME Watching, UNCHANGED <<run, data>>, RentalTypeOK,
         \A i \in Jobs : Known(i) => Known(i)',
         \A i \in Jobs : remote[i] \in Terminal => remote'[i] = remote[i]
  PROVE  Watching'
<1> SUFFICES ASSUME NEW p \in Pages
             PROVE  ((run[p] # None => Known(run[p])) /\ (data[p] \in Terminal => run[p] # None /\ remote[run[p]] = data[p]))'
  BY DEF Watching
<1>1. run'[p] = run[p] /\ data'[p] = data[p] /\ run[p] \in Jobs \cup {None}
  BY DEF RentalTypeOK
<1>2. ASSUME run[p] # None PROVE Known(run[p])'
  <2>1. PICK i \in Jobs : i = run[p]
    BY <1>1, <1>2
  <2>2. Known(i)'
    BY <1>2, <2>1 DEF Watching
  <2> QED BY <1>1, <2>1, <2>2 DEF Known
<1>3. data[p] \in Terminal => run[p] # None /\ run[p] \in Jobs /\ remote[run[p]] = data[p]
  BY <1>1 DEF Watching
<1> QED BY <1>1, <1>2, <1>3

(* A page's request, while the row of its job is not written.                *)
LEMMA AskedKept ==
  ASSUME NEW p \in Pages, AskedOf(p), poll'[p] = poll[p], faults' = 0 => faults = 0,
         \A i \in Jobs : Known(i) => Known(i)',
         \A i \in Jobs : remote[i] \in Terminal => remote'[i] = remote[i],
         \A i \in Jobs : Known(i) /\ row[i] \in {"absent", "completed", "failed"} => row'[i] \in {row[i], "absent"}
  PROVE  AskedOf(p)'
<1>1. CASE poll[p].at = "idle"
  BY <1>1 DEF AskedOf
<1>2. CASE poll[p].at # "idle"
  <2>1. PICK j \in Jobs : j = poll[p].job /\ Known(j)
    BY <1>2 DEF AskedOf, Known
  <2>2. Known(j)' /\ j = poll'[p].job
    BY <2>1
  <2>3. Known(poll[p].job)'
    BY <2>2 DEF Known
  <2>4. poll[p].says \in Terminal => remote'[j] = poll[p].says
    BY <1>2, <2>1 DEF AskedOf
  <2>5. ASSUME faults' = 0, poll[p].at = "answer", poll[p].says \in Terminal
        PROVE  row'[j] \in {"absent", Ending(poll[p].says)}
    BY <1>2, <2>1, <2>5 DEF AskedOf, Ending
  <2> QED BY <1>2, <2>2, <2>3, <2>4, <2>5 DEF AskedOf, Ending
<1> QED BY <1>1, <1>2

(* What the row says is kept by a step that does not write it.               *)
LEMMA MirroredKept ==
  ASSUME Mirrored, RentalTypeOK, UNCHANGED <<row, results, run, data>>, faults' = 0 => faults = 0,
         \A i \in Jobs : remote[i] \in Terminal => remote'[i] = remote[i]
  PROVE  Mirrored'
BY DEF Mirrored, RentalTypeOK, Terminal

(* Steps that write no row, no run and no status a page shows.               *)
LEMMA Aside ==
  ASSUME RentalInv, UNCHANGED <<row, results, run, data, faults>>,
         \A i \in Jobs : remote[i] # "none" => remote'[i] # "none",
         \A i \in Jobs : remote[i] \in Terminal => remote'[i] = remote[i],
         \A i \in Jobs : Known(i) => Known(i)'
  PROVE  /\ Watching' /\ Mirrored'
         /\ \A p \in Pages : poll'[p] = poll[p] => AskedOf(p)'
<1>1. Watching'
  BY WatchingKept DEF RentalInv
<1>2. Mirrored'
  BY MirroredKept DEF RentalInv
<1>3. \A i \in Jobs : Known(i) /\ row[i] \in {"absent", "completed", "failed"} => row'[i] \in {row[i], "absent"}
  OBVIOUS
<1>4. ASSUME NEW p \in Pages, poll'[p] = poll[p] PROVE AskedOf(p)'
  BY <1>3, <1>4, AskedKept DEF RentalInv, Asked
<1> QED BY <1>1, <1>2, <1>4

----------------------------------------------------------------------------
(* POST /vast/run-backtest, an action at a time.                             *)

LEMMA RunKeeps == ASSUME RentalInv, NEW p \in Pages, Run(p) PROVE RentalInv'
<1>1. RentalTypeOK'
  BY DEF Run, NotSent, RentalInv, RentalTypeOK
<1>2. /\ UNCHANGED <<up, remote, row, results, run, poll, data, faults>>
      /\ submit'[p].at = "sent" /\ \A q \in Pages \ {p} : submit'[q] = submit[q]
  BY DEF Run, NotSent, RentalInv, RentalTypeOK
<1>3. \A q \in Pages : Following(q)' => Following(q) /\ submit'[q].job = submit[q].job
  BY <1>2 DEF Following
<1>4. Submitted'
  BY <1>2, <1>3, SubmittedKept DEF RentalInv
<1>5. \A i \in Jobs : Known(i) => Known(i)'
  BY <1>2, <1>3, KnownKept
<1>6. Watching' /\ Mirrored' /\ Asked'
  BY <1>2, <1>5, Aside DEF Asked
<1> QED BY <1>1, <1>4, <1>6 DEF RentalInv

LEMMA RefusedKeeps == ASSUME RentalInv, NEW p \in Pages, Refused(p) PROVE RentalInv'
<1>1. RentalTypeOK'
  BY DEF Refused, NotSent, RentalInv, RentalTypeOK
<1>2. /\ UNCHANGED <<up, remote, row, results, run, poll, data, faults>>
      /\ submit'[p].at = "idle" /\ \A q \in Pages \ {p} : submit'[q] = submit[q]
  BY DEF Refused, NotSent, RentalInv, RentalTypeOK
<1>3. \A q \in Pages : Following(q)' => Following(q) /\ submit'[q].job = submit[q].job
  BY <1>2 DEF Following
<1>4. Submitted'
  BY <1>2, <1>3, SubmittedKept DEF RentalInv
<1>5. \A i \in Jobs : Known(i) => Known(i)'
  BY <1>2, <1>3, KnownKept
<1>6. Watching' /\ Mirrored' /\ Asked'
  BY <1>2, <1>5, Aside DEF Asked
<1> QED BY <1>1, <1>4, <1>6 DEF RentalInv

(* A job the machine gives out was nobody's.                                 *)
LEMMA AcceptedKeeps == ASSUME RentalInv, NEW p \in Pages, Accepted(p) PROVE RentalInv'
<1>1. PICK j \in Jobs : /\ remote[j] = "none" /\ remote' = [remote EXCEPT ![j] = "pending"]
                        /\ submit' = [submit EXCEPT ![p] = [at |-> "answer", job |-> j]]
  BY DEF Accepted
<1>2. UNCHANGED <<up, row, results, run, poll, data, faults>>
  BY DEF Accepted
<1>3. RentalTypeOK'
  BY <1>1, <1>2 DEF RentalInv, RentalTypeOK
<1>4. /\ \A i \in Jobs : remote[i] # "none" => i # j /\ remote'[i] = remote[i]
      /\ remote'[j] = "pending"
  BY <1>1 DEF RentalInv, RentalTypeOK
<1>5. submit'[p] = [at |-> "answer", job |-> j] /\ \A q \in Pages \ {p} : submit'[q] = submit[q]
  BY <1>1 DEF RentalInv, RentalTypeOK
<1>6. Submitted'
  <2>1. ASSUME NEW q \in Pages, Following(q)' PROVE submit'[q].job \in Jobs /\ remote'[submit'[q].job] # "none"
    BY <1>4, <1>5, <2>1 DEF RentalInv, Submitted, Following
  <2>2. \A q \in Pages \ {p} : Following(q)' => submit'[q].job = submit[q].job /\ Following(q) /\ submit[q].job # j
    BY <1>4, <1>5 DEF RentalInv, Submitted, Following
  <2>3. ASSUME NEW q \in Pages, Following(q)', NEW r \in Pages \ {q}, Following(r)'
        PROVE  submit'[r].job # submit'[q].job
    BY <1>5, <2>2, <2>3 DEF RentalInv, Submitted
  <2> QED BY <2>1, <2>3 DEF Submitted
<1>7. ASSUME NEW i \in Jobs, Known(i) PROVE Known(i)'
  BY <1>4, <1>5, <1>7 DEF Known, Following
<1>8. Watching' /\ Mirrored' /\ Asked'
  <2>1. \A i \in Jobs : remote[i] \in Terminal => remote'[i] = remote[i]
    BY <1>4 DEF Terminal
  <2>2. \A i \in Jobs : remote[i] # "none" => remote'[i] # "none"
    BY <1>4
  <2> QED BY <1>2, <1>7, <2>1, <2>2, Aside DEF Asked
<1> QED BY <1>3, <1>6, <1>8 DEF RentalInv

(* A submission that goes on is nobody's run yet, so its writes of the row   *)
(* are seen by no page.                                                      *)
LEMMA SubmissionKeeps ==
  ASSUME RentalInv, RentalTypeOK', NEW p \in Pages, Following(p),
         UNCHANGED <<up, remote, run, poll, data>>, faults' = 0 => faults = 0,
         Following(p)', submit'[p].job = submit[p].job,
         \A q \in Pages \ {p} : submit'[q] = submit[q],
         row'[submit[p].job] # "completed" \/ (row' = row /\ results' = results),
         \A i \in Jobs \ {submit[p].job} : row'[i] = row[i] /\ (i \in results => i \in results')
  PROVE  RentalInv'
<1>1. \A q \in Pages : Following(q)' => Following(q) /\ submit'[q].job = submit[q].job
  BY DEF Following
<1>2. Submitted'
  BY <1>1, SubmittedKept DEF RentalInv
<1>3. \A i \in Jobs : Known(i) => Known(i)'
  BY <1>1, KnownKept
<1>4. Watching'
  BY <1>3, WatchingKept DEF RentalInv
<1>5. \A i \in Jobs : Known(i) => i # submit[p].job
  BY DEF Known
<1>6. Asked'
  <2>1. \A i \in Jobs : Known(i) => row'[i] = row[i]
    BY <1>5
  <2>2. \A q \in Pages : AskedOf(q)'
    BY <1>3, <2>1, AskedKept DEF RentalInv, Asked
  <2> QED BY <2>2 DEF Asked
<1>7. Mirrored'
  <2>1. ASSUME NEW i \in Jobs, row'[i] = "completed" PROVE remote'[i] = "completed" /\ i \in results'
    BY <2>1 DEF RentalInv, Mirrored
  <2>2. ASSUME faults' = 0, NEW q \in Pages, data'[q] \in Terminal PROVE row'[run'[q]] \in {"absent", Ending(data'[q])}
    <3>1. run[q] # None /\ Known(run[q]) /\ run[q] \in Jobs
      BY <2>2 DEF RentalInv, Watching, Known
    <3>2. row'[run[q]] = row[run[q]]
      BY <1>5, <3>1
    <3> QED BY <2>2, <3>2 DEF RentalInv, Mirrored
  <2> QED BY <2>1, <2>2 DEF Mirrored, Ending
<1> QED BY <1>2, <1>4, <1>6, <1>7 DEF RentalInv

LEMMA CreateRowKeeps == ASSUME RentalAssumption, RentalInv, NEW p \in Pages, CreateRow(p) PROVE RentalInv'
<1>1. Following(p) /\ submit[p].job \in Jobs
  BY DEF CreateRow, RentalInv, Submitted, Following
<1>2. RentalTypeOK'
  BY <1>1 DEF CreateRow, Fault, RentalInv, RentalTypeOK, RentalAssumption
<1>3. /\ Following(p)' /\ submit'[p].job = submit[p].job
      /\ \A q \in Pages \ {p} : submit'[q] = submit[q]
  BY DEF CreateRow, RentalInv, RentalTypeOK, Following
<1>4. UNCHANGED <<up, remote, results, run, poll, data>> /\ (faults' = 0 => faults = 0)
  BY DEF CreateRow, Fault, RentalInv, RentalTypeOK, RentalAssumption
<1>5. row'[submit[p].job] # "completed" \/ row' = row
  BY <1>1 DEF CreateRow, Fault, RentalInv, RentalTypeOK
<1>6. \A i \in Jobs \ {submit[p].job} : row'[i] = row[i]
  BY DEF CreateRow, Fault, RentalInv, RentalTypeOK
<1> QED BY <1>1, <1>2, <1>3, <1>4, <1>5, <1>6, SubmissionKeeps

LEMMA MarkRunningKeeps == ASSUME RentalAssumption, RentalInv, NEW p \in Pages, MarkRunning(p) PROVE RentalInv'
<1>1. Following(p) /\ submit[p].job \in Jobs
  BY DEF MarkRunning, RentalInv, Submitted, Following
<1>0. /\ \/ row' = row /\ results' = results
         \/ row' = [row EXCEPT ![submit[p].job] = "running"] /\ results' = results \ {submit[p].job}
      /\ faults' = faults \/ (faults < MaxFaults /\ faults' = faults + 1)
  <2>1. CASE Update(submit[p].job, "running", FALSE) /\ UNCHANGED faults
    BY <2>1, Zenon DEF Update
  <2>2. CASE Fault(UNCHANGED <<row, results>>)
    BY <2>2 DEF Fault
  <2> QED BY <2>1, <2>2 DEF MarkRunning
<1>2. RentalTypeOK'
  <2>1. faults' \in 0..MaxFaults
    BY <1>0 DEF RentalInv, RentalTypeOK, RentalAssumption
  <2>2. row' \in [Jobs -> {"absent", "pending", "running", "completed", "failed"}] /\ results' \subseteq Jobs
    BY <1>0, <1>1 DEF RentalInv, RentalTypeOK
  <2> QED BY <2>1, <2>2 DEF MarkRunning, RentalInv, RentalTypeOK
<1>3. /\ Following(p)' /\ submit'[p].job = submit[p].job
      /\ \A q \in Pages \ {p} : submit'[q] = submit[q]
  BY DEF MarkRunning, RentalInv, RentalTypeOK, Following
<1>4. UNCHANGED <<up, remote, run, poll, data>> /\ (faults' = 0 => faults = 0)
  BY DEF MarkRunning, Fault, Update, RentalInv, RentalTypeOK, RentalAssumption
<1>5. row'[submit[p].job] # "completed" \/ (row' = row /\ results' = results)
  BY <1>0, <1>1 DEF RentalInv, RentalTypeOK
<1>6. \A i \in Jobs \ {submit[p].job} : row'[i] = row[i] /\ (i \in results => i \in results')
  BY <1>0 DEF RentalInv, RentalTypeOK
<1> QED BY <1>1, <1>2, <1>3, <1>4, <1>5, <1>6, SubmissionKeeps

LEMMA AnsweredKeeps == ASSUME RentalInv, NEW p \in Pages, Answered(p) PROVE RentalInv'
<1>1. PICK j \in Jobs : /\ j = submit[p].job /\ remote[j] # "none"
                        /\ \A q \in Pages \ {p} : Following(q) => submit[q].job # j
  BY DEF Answered, RentalInv, Submitted, Following
<1>2. /\ run' = [run EXCEPT ![p] = j] /\ submit' = [submit EXCEPT ![p] = NotSent]
      /\ data' = [data EXCEPT ![p] = "none"] /\ UNCHANGED <<up, remote, row, results, poll, faults>>
  BY <1>1 DEF Answered
<1>3. RentalTypeOK'
  BY <1>1, <1>2 DEF NotSent, RentalInv, RentalTypeOK
<1>4. /\ ~Following(p)' /\ run'[p] = j /\ data'[p] = "none"
      /\ \A q \in Pages \ {p} : submit'[q] = submit[q] /\ run'[q] = run[q] /\ data'[q] = data[q]
  BY <1>2 DEF NotSent, RentalInv, RentalTypeOK, Following
<1>5. \A q \in Pages : Following(q)' => Following(q) /\ submit'[q].job = submit[q].job
  BY <1>4 DEF Following
<1>6. Submitted'
  BY <1>2, <1>5, SubmittedKept DEF RentalInv
<1>7. \A i \in Jobs : Known(i) => Known(i)'
  BY <1>2, <1>5, KnownKept
<1>8. Known(j)'
  BY <1>1, <1>2, <1>4 DEF Known, Following
<1>9. Watching'
  <2>1. ASSUME NEW q \in Pages \ {p} PROVE run'[q] # None => Known(run[q])'
    <3>1. run[q] # None => run[q] \in Jobs /\ Known(run[q])
      BY DEF RentalInv, Watching, Known
    <3>2. run'[q] = run[q]
      BY <1>4
    <3> QED BY <1>7, <3>1, <3>2 DEF Known
  <2>2. Known(run[p])'
    BY <1>4, <1>8 DEF Known
  <2>3. ASSUME NEW q \in Pages, data'[q] \in Terminal PROVE run'[q] # None /\ remote'[run'[q]] = data'[q]
    BY <1>2, <1>4, <2>3 DEF RentalInv, Watching, Terminal
  <2> QED BY <2>1, <2>2, <2>3 DEF Watching
<1>10. Asked'
  <2>1. \A i \in Jobs : row'[i] = row[i] /\ remote'[i] = remote[i]
    BY <1>2
  <2>2. \A q \in Pages : AskedOf(q)'
    BY <1>2, <1>7, <2>1, AskedKept DEF RentalInv, Asked
  <2> QED BY <2>2 DEF Asked
<1>11. Mirrored'
  <2>1. ASSUME faults' = 0, NEW q \in Pages, data'[q] \in Terminal PROVE row'[run'[q]] \in {"absent", Ending(data'[q])}
    BY <1>2, <1>4, <2>1 DEF RentalInv, Mirrored, Terminal
  <2>2. \A i \in Jobs : row'[i] = "completed" => remote'[i] = "completed" /\ i \in results'
    BY <1>2 DEF RentalInv, Mirrored
  <2> QED BY <2>1, <2>2 DEF Mirrored, Ending
<1> QED BY <1>3, <1>6, <1>9, <1>10, <1>11 DEF RentalInv

----------------------------------------------------------------------------
(* GET /vast/runs/{job}.                                                     *)

(* A step of a page's request that writes nothing.                           *)
LEMMA RequestKeeps ==
  ASSUME RentalInv, RentalTypeOK', NEW p \in Pages,
         UNCHANGED <<up, remote, row, results, submit, run, data, faults>>,
         \A q \in Pages \ {p} : poll'[q] = poll[q], AskedOf(p)'
  PROVE  RentalInv'
<1>1. \A q \in Pages : Following(q)' => Following(q) /\ submit'[q].job = submit[q].job
  BY DEF Following
<1>2. Submitted'
  BY <1>1, SubmittedKept DEF RentalInv
<1>3. \A i \in Jobs : Known(i) => Known(i)'
  BY <1>1, KnownKept
<1>4. Watching' /\ Mirrored' /\ \A q \in Pages \ {p} : AskedOf(q)'
  BY <1>3, Aside
<1> QED BY <1>2, <1>4 DEF RentalInv, Asked

LEMMA PollKeeps == ASSUME RentalInv, NEW p \in Pages, Poll(p) PROVE RentalInv'
<1> DEFINE at(s) == IF s = "completed" THEN "results" ELSE IF s \in Terminal THEN "mirror" ELSE "answer"
<1>1. PICK j \in Jobs : j = run[p] /\ Known(j)
  BY DEF Poll, RentalInv, Watching, Known
<1>2. PICK s : s = remote[j]
  OBVIOUS
<1>3. /\ poll' = [poll EXCEPT ![p] = [at |-> at(s), job |-> j, says |-> s]]
      /\ UNCHANGED <<up, remote, row, results, submit, run, data, faults>>
  BY <1>1, <1>2 DEF Poll
<1>4. at(s) \in {"results", "mirror", "answer"} /\ s \in {"none", "pending", "running"} \cup Terminal
  BY <1>2 DEF RentalInv, RentalTypeOK
<1>5. RentalTypeOK'
  BY <1>3, <1>4 DEF RentalInv, RentalTypeOK
<1>6. /\ poll'[p] = [at |-> at(s), job |-> j, says |-> s]
      /\ \A q \in Pages \ {p} : poll'[q] = poll[q]
  BY <1>3 DEF RentalInv, RentalTypeOK
<1>7. AskedOf(p)'
  <2>1. Known(poll[p].job)'
    BY <1>1, <1>3, <1>6 DEF Known, Following
  <2> QED BY <1>2, <1>3, <1>6, <2>1 DEF AskedOf
<1> QED BY <1>3, <1>5, <1>6, <1>7, RequestKeeps

LEMMA FetchKeeps == ASSUME RentalInv, NEW p \in Pages, Fetch(p) PROVE RentalInv'
<1>1. /\ UNCHANGED <<up, remote, row, results, submit, run, data, faults>>
      /\ \A q \in Pages \ {p} : poll'[q] = poll[q]
  BY DEF Fetch, RentalInv, RentalTypeOK
<1>2. \/ poll'[p].at = "mirror" /\ poll'[p].job = poll[p].job /\ poll'[p].says = poll[p].says
      \/ poll'[p].at = "idle"
  BY DEF Fetch, Quiet, RentalInv, RentalTypeOK
<1>3. RentalTypeOK'
  BY DEF Fetch, Quiet, RentalInv, RentalTypeOK
<1>4. /\ Known(poll[p].job) /\ poll[p].says = "completed"
      /\ remote[poll[p].job] = "completed"
  BY DEF Fetch, RentalInv, Asked, AskedOf, Terminal
<1>5. AskedOf(p)'
  <2>1. CASE poll'[p].at = "idle"
    BY <2>1 DEF AskedOf
  <2>2. CASE poll'[p].at = "mirror" /\ poll'[p].job = poll[p].job /\ poll'[p].says = poll[p].says
    <3>1. Known(poll[p].job)'
      BY <1>1, <1>4, <2>2 DEF Known, Following
    <3> QED BY <1>1, <1>4, <2>2, <3>1 DEF AskedOf, Terminal
  <2> QED BY <1>2, <2>1, <2>2
<1> QED BY <1>1, <1>3, <1>5, RequestKeeps

(* The end that is written is the end the job came to, whoever asked.        *)
LEMMA UpdateMirrorKeeps == ASSUME RentalAssumption, RentalInv, NEW p \in Pages, UpdateMirror(p) PROVE RentalInv'
<1>1. PICK j \in Jobs, s \in Terminal : j = poll[p].job /\ s = poll[p].says /\ remote[j] = s /\ Known(j)
  BY DEF UpdateMirror, RentalInv, Asked, AskedOf, Known
<1>2. /\ poll' = [poll EXCEPT ![p].at = "answer"] /\ UNCHANGED <<up, remote, submit, run, data>>
  BY DEF UpdateMirror
<1>3. \/ /\ faults' = faults /\ row' = row /\ results' = results /\ row[j] = "absent"
      \/ /\ faults' = faults /\ row' = [row EXCEPT ![j] = Ending(s)]
         /\ results' = IF s = "completed" THEN results \cup {j} ELSE results \ {j}
      \/ faults < MaxFaults /\ faults' = faults + 1 /\ row' = row /\ results' = results
  <2>1. CASE Fault(UNCHANGED <<row, results>>)
    BY <2>1 DEF Fault
  <2>2. CASE s = "completed" /\ UNCHANGED faults /\ Update(j, "completed", TRUE)
    BY <2>2, Zenon DEF Update, Ending
  <2>3. CASE s # "completed" /\ UNCHANGED faults /\ Update(j, "failed", FALSE)
    BY <2>3, Zenon DEF Update, Ending
  <2> QED BY <1>1, <2>1, <2>2, <2>3 DEF UpdateMirror
<1>4. RentalTypeOK'
  <2>1. faults' \in 0..MaxFaults
    BY <1>3 DEF RentalInv, RentalTypeOK, RentalAssumption
  <2>2. row' \in [Jobs -> {"absent", "pending", "running", "completed", "failed"}] /\ results' \subseteq Jobs
    BY <1>3 DEF RentalInv, RentalTypeOK, Ending
  <2> QED BY <1>2, <2>1, <2>2 DEF RentalInv, RentalTypeOK
<1>5. /\ poll'[p].at = "answer" /\ poll'[p].job = j /\ poll'[p].says = s
      /\ \A q \in Pages \ {p} : poll'[q] = poll[q]
  BY <1>1, <1>2 DEF RentalInv, RentalTypeOK
<1>6. /\ row'[j] \in {row[j], Ending(s)} /\ \A i \in Jobs \ {j} : row'[i] = row[i] /\ (i \in results => i \in results')
      /\ faults' = 0 => faults = 0 /\ row'[j] \in {"absent", Ending(s)}
      /\ s = "completed" /\ j \in results => j \in results'
      /\ row'[j] = Ending(s) /\ row[j] # Ending(s) /\ s = "completed" => j \in results'
  BY <1>3 DEF RentalInv, RentalTypeOK, RentalAssumption, Ending
<1>7. \A q \in Pages : Following(q)' => Following(q) /\ submit'[q].job = submit[q].job
  BY <1>2 DEF Following
<1>8. Submitted'
  BY <1>2, <1>7, SubmittedKept DEF RentalInv
<1>9. \A i \in Jobs : Known(i) => Known(i)'
  BY <1>2, <1>7, KnownKept
<1>10. Watching'
  BY <1>2, <1>9, WatchingKept DEF RentalInv
<1>11. Asked'
  <2>1. ASSUME NEW q \in Pages \ {p}, poll[q].at # "idle" PROVE AskedOf(q)'
    <3>1. PICK i \in Jobs : /\ i = poll[q].job /\ Known(i)
                            /\ poll[q].says \in Terminal => remote[i] = poll[q].says
      BY <2>1 DEF RentalInv, Asked, AskedOf, Known
    <3>2. Known(poll[q].job)'
      BY <1>5, <1>9, <3>1 DEF Known
    <3>3. ASSUME faults' = 0, poll[q].says \in Terminal, poll[q].at = "answer"
          PROVE  row'[i] \in {"absent", Ending(poll[q].says)}
      <4>1. CASE i = j
        BY <1>1, <1>6, <3>1, <3>3, <4>1
      <4>2. CASE i # j
        BY <1>6, <2>1, <3>1, <3>3, <4>2 DEF RentalInv, Asked, AskedOf
      <4> QED BY <4>1, <4>2
    <3> QED BY <1>2, <1>5, <2>1, <3>1, <3>2, <3>3 DEF RentalInv, Asked, AskedOf, Ending
  <2>2. \A q \in Pages \ {p} : poll[q].at = "idle" => AskedOf(q)'
    BY <1>5 DEF AskedOf
  <2>3. AskedOf(p)'
    <3>1. Known(poll[p].job)'
      BY <1>1, <1>5, <1>9 DEF Known
    <3> QED BY <1>1, <1>2, <1>5, <1>6, <3>1 DEF AskedOf, Ending
  <2> QED BY <2>1, <2>2, <2>3 DEF Asked
<1>12. Mirrored'
  <2>1. ASSUME NEW i \in Jobs, row'[i] = "completed" PROVE remote'[i] = "completed" /\ i \in results'
    <3>1. CASE i # j
      BY <1>2, <1>6, <2>1, <3>1 DEF RentalInv, Mirrored
    <3>2. CASE i = j /\ row[j] = "completed"
      <4>1. s = "completed" /\ j \in results
        BY <1>1, <3>2 DEF RentalInv, Mirrored
      <4> QED BY <1>1, <1>2, <1>6, <3>2, <4>1
    <3>3. CASE i = j /\ row[j] # "completed"
      <4>1. s = "completed"
        BY <1>6, <2>1, <3>3 DEF Ending
      <4> QED BY <1>1, <1>2, <1>6, <2>1, <3>3, <4>1 DEF Ending
    <3> QED BY <3>1, <3>2, <3>3
  <2>2. ASSUME faults' = 0, NEW q \in Pages, data'[q] \in Terminal PROVE row'[run'[q]] \in {"absent", Ending(data'[q])}
    <3>1. run[q] \in Jobs /\ remote[run[q]] = data[q] /\ data'[q] = data[q] /\ run'[q] = run[q] /\ faults = 0
      BY <1>2, <1>6, <2>2 DEF RentalInv, Watching, Known
    <3>2. CASE run[q] = j
      BY <1>1, <1>6, <2>2, <3>1, <3>2
    <3>3. CASE run[q] # j
      BY <1>6, <2>2, <3>1, <3>3 DEF RentalInv, Mirrored
    <3> QED BY <3>2, <3>3
  <2> QED BY <2>1, <2>2 DEF Mirrored, Ending
<1> QED BY <1>4, <1>8, <1>10, <1>11, <1>12 DEF RentalInv

(* What a page is told of its run stands, and the row agrees with it.        *)
LEMMA ShowKeeps == ASSUME RentalInv, RentalAssumption, NEW p \in Pages, Show(p) PROVE RentalInv'
<1>1. /\ data' = [data EXCEPT ![p] = IF poll[p].job = run[p] THEN poll[p].says ELSE @]
      /\ poll' = [poll EXCEPT ![p] = Quiet] /\ UNCHANGED <<up, remote, row, results, submit, run, faults>>
  BY DEF Show
<1>2. /\ poll'[p].at = "idle" /\ \A q \in Pages \ {p} : poll'[q] = poll[q] /\ data'[q] = data[q]
      /\ data'[p] = IF poll[p].job = run[p] THEN poll[p].says ELSE data[p]
  BY <1>1 DEF Quiet, RentalInv, RentalTypeOK
<1>3. RentalTypeOK'
  BY <1>1 DEF Quiet, RentalInv, RentalTypeOK
<1>4. \A q \in Pages : Following(q)' => Following(q) /\ submit'[q].job = submit[q].job
  BY <1>1 DEF Following
<1>5. Submitted'
  BY <1>1, <1>4, SubmittedKept DEF RentalInv
<1>6. \A i \in Jobs : Known(i) => Known(i)'
  BY <1>1, <1>4, KnownKept
<1>7. data'[p] # data[p] => /\ poll[p].job = run[p] /\ data'[p] = poll[p].says /\ Known(run[p]) /\ run[p] \in Jobs
                            /\ data'[p] \in Terminal => remote[run[p]] = data'[p]
                            /\ data'[p] \in Terminal /\ faults = 0 => row[run[p]] \in {"absent", Ending(data'[p])}
  BY <1>2 DEF Show, RentalInv, Asked, AskedOf, Known
<1>8. Watching'
  <2>1. ASSUME NEW q \in Pages, run[q] # None PROVE Known(run[q])'
    <3>1. PICK i \in Jobs : i = run[q] /\ Known(i)
      BY <2>1 DEF RentalInv, Watching, Known
    <3> QED BY <1>1, <1>6, <3>1 DEF Known
  <2>2. ASSUME NEW q \in Pages, data'[q] \in Terminal PROVE run[q] # None /\ remote[run[q]] = data'[q]
    <3>1. CASE data'[q] = data[q]
      BY <2>2, <3>1 DEF RentalInv, Watching
    <3>2. CASE data'[q] # data[q]
      <4>1. q = p
        BY <1>2, <3>2
      <4>2. run[p] \in Jobs /\ remote[run[p]] = data'[p]
        BY <1>7, <2>2, <3>2, <4>1
      <4>3. run[p] # None
        BY <4>2, RentalAssumption DEF RentalAssumption
      <4> QED BY <4>1, <4>2, <4>3
    <3> QED BY <3>1, <3>2
  <2> QED BY <1>1, <2>1, <2>2 DEF Watching
<1>9. Asked'
  <2>1. \A q \in Pages \ {p} : AskedOf(q)'
    BY <1>1, <1>2, <1>6, AskedKept DEF RentalInv, Asked
  <2>2. AskedOf(p)'
    BY <1>2 DEF AskedOf
  <2> QED BY <2>1, <2>2 DEF Asked
<1>10. Mirrored'
  <2>1. ASSUME faults' = 0, NEW q \in Pages, data'[q] \in Terminal PROVE row'[run'[q]] \in {"absent", Ending(data'[q])}
    <3>1. CASE data'[q] = data[q]
      BY <1>1, <2>1, <3>1 DEF RentalInv, Mirrored
    <3>2. CASE data'[q] # data[q]
      BY <1>1, <1>2, <1>7, <2>1, <3>2
    <3> QED BY <3>1, <3>2
  <2> QED BY <1>1, <2>1 DEF RentalInv, Mirrored, Ending
<1> QED BY <1>3, <1>5, <1>8, <1>9, <1>10 DEF RentalInv

LEMMA LeaveKeeps == ASSUME RentalInv, NEW p \in Pages, Leave(p) PROVE RentalInv'
<1>1. /\ UNCHANGED <<up, remote, row, results, submit, poll, faults>> /\ run'[p] = None /\ data'[p] = "none"
      /\ \A q \in Pages \ {p} : run'[q] = run[q] /\ data'[q] = data[q]
  BY DEF Leave, RentalInv, RentalTypeOK
<1>2. RentalTypeOK'
  BY DEF Leave, RentalInv, RentalTypeOK
<1>3. \A q \in Pages : Following(q)' => Following(q) /\ submit'[q].job = submit[q].job
  BY <1>1 DEF Following
<1>4. Submitted'
  BY <1>1, <1>3, SubmittedKept DEF RentalInv
<1>5. \A i \in Jobs : Known(i) => Known(i)'
  BY <1>1, <1>3, KnownKept
<1>6. Watching'
  <2>1. ASSUME NEW q \in Pages, run'[q] # None PROVE Known(run[q])'
    <3>1. PICK i \in Jobs : i = run[q] /\ Known(i) /\ run'[q] = i
      BY <1>1, <2>1 DEF RentalInv, Watching, Known
    <3> QED BY <1>1, <1>5, <3>1 DEF Known
  <2>2. ASSUME NEW q \in Pages, data'[q] \in Terminal PROVE run'[q] # None /\ remote[run'[q]] = data'[q]
    BY <1>1, <2>2 DEF RentalInv, Watching, Terminal
  <2> QED BY <1>1, <2>1, <2>2 DEF Watching
<1>7. Asked'
  <2>1. \A q \in Pages : AskedOf(q)'
    BY <1>1, <1>5, AskedKept DEF RentalInv, Asked
  <2> QED BY <2>1 DEF Asked
<1>8. Mirrored'
  BY <1>1 DEF RentalInv, Mirrored, Ending, Terminal
<1> QED BY <1>2, <1>4, <1>6, <1>7, <1>8 DEF RentalInv

----------------------------------------------------------------------------
(* The environment.                                                          *)

LEMMA MachineKeeps == ASSUME RentalInv, \/ Unreachable \/ \E j \in Jobs : Works(j) PROVE RentalInv'
<1>1. UNCHANGED <<row, results, submit, run, poll, data, faults>>
  BY DEF Unreachable, Works
<1>2. \A i \in Jobs : /\ remote[i] # "none" => remote'[i] # "none"
                      /\ remote[i] \in Terminal => remote'[i] = remote[i]
  BY DEF Unreachable, Works, RentalInv, RentalTypeOK, Terminal
<1>3. RentalTypeOK'
  <2>1. CASE Unreachable
    BY <2>1 DEF Unreachable, RentalInv, RentalTypeOK
  <2>2. CASE \E j \in Jobs : Works(j)
    BY <2>2 DEF Works, RentalInv, RentalTypeOK
  <2> QED BY <2>1, <2>2
<1>4. \A q \in Pages : Following(q)' => Following(q) /\ submit'[q].job = submit[q].job
  BY <1>1 DEF Following
<1>5. Submitted'
  BY <1>2, <1>4, SubmittedKept DEF RentalInv
<1>6. \A i \in Jobs : Known(i) => Known(i)'
  BY <1>2, <1>4, KnownKept
<1>7. Watching' /\ Mirrored' /\ Asked'
  BY <1>1, <1>2, <1>6, Aside DEF Asked
<1> QED BY <1>3, <1>5, <1>7 DEF RentalInv

(* The row is given up while no page says its job ended, or deleted.         *)
LEMMA RowKeeps == ASSUME RentalInv, NEW j \in Jobs, GivenUp(j) \/ Delete(j) PROVE RentalInv'
<1>1. /\ \/ row[j] \in {"pending", "running"} /\ row' = [row EXCEPT ![j] = "failed"]
         \/ row' = [row EXCEPT ![j] = "absent"]
      /\ results' = results \ {j} /\ UNCHANGED <<up, remote, submit, run, poll, data, faults>>
  <2>1. CASE GivenUp(j)
    BY <2>1, Zenon DEF GivenUp, Update
  <2>2. CASE Delete(j)
    BY <2>2 DEF Delete
  <2> QED BY <2>1, <2>2
<1>2. RentalTypeOK'
  BY <1>1 DEF RentalInv, RentalTypeOK
<1>3. /\ \A i \in Jobs \ {j} : row'[i] = row[i] /\ (i \in results => i \in results')
      /\ row'[j] # "completed"
      /\ row[j] \in {"absent", "completed", "failed"} => row'[j] = "absent"
  BY <1>1 DEF RentalInv, RentalTypeOK
<1>4. \A q \in Pages : Following(q)' => Following(q) /\ submit'[q].job = submit[q].job
  BY <1>1 DEF Following
<1>5. Submitted'
  BY <1>1, <1>4, SubmittedKept DEF RentalInv
<1>6. \A i \in Jobs : Known(i) => Known(i)'
  BY <1>1, <1>4, KnownKept
<1>7. Watching'
  BY <1>1, <1>6, WatchingKept DEF RentalInv
<1>8. Asked'
  <2>1. \A i \in Jobs : row[i] \in {"absent", "completed", "failed"} => row'[i] \in {row[i], "absent"}
    BY <1>3
  <2>2. \A q \in Pages : AskedOf(q)'
    BY <1>1, <1>6, <2>1, AskedKept DEF RentalInv, Asked
  <2> QED BY <2>2 DEF Asked
<1>9. Mirrored'
  <2>1. ASSUME NEW i \in Jobs, row'[i] = "completed" PROVE remote'[i] = "completed" /\ i \in results'
    BY <1>1, <1>3, <2>1 DEF RentalInv, Mirrored
  <2>2. ASSUME faults' = 0, NEW q \in Pages, data'[q] \in Terminal PROVE row'[run'[q]] \in {"absent", Ending(data'[q])}
    <3>1. run[q] \in Jobs /\ row[run[q]] \in {"absent", Ending(data[q])} /\ data'[q] = data[q] /\ run'[q] = run[q]
      BY <1>1, <2>2 DEF RentalInv, Watching, Known, Mirrored
    <3> QED BY <1>3, <3>1 DEF Ending
  <2> QED BY <2>1, <2>2 DEF Mirrored, Ending
<1> QED BY <1>2, <1>5, <1>7, <1>8, <1>9 DEF RentalInv

\* Every step keeps the invariant.
LEMMA RentalInductive == ASSUME RentalAssumption, RentalInv, [RentalNext]_rental PROVE RentalInv'
<1>1. CASE UNCHANGED rental
  BY <1>1 DEF rental, RentalInv, RentalTypeOK, Submitted, Watching, Asked, AskedOf, Mirrored, Known, Following
<1>2. ASSUME NEW p \in Pages,
             \/ Run(p) \/ Accepted(p) \/ Refused(p) \/ CreateRow(p) \/ MarkRunning(p) \/ Answered(p)
             \/ Poll(p) \/ Fetch(p) \/ UpdateMirror(p) \/ Show(p) \/ Leave(p)
      PROVE  RentalInv'
  BY <1>2, RunKeeps, AcceptedKeeps, RefusedKeeps, CreateRowKeeps, MarkRunningKeeps, AnsweredKeeps,
     PollKeeps, FetchKeeps, UpdateMirrorKeeps, ShowKeeps, LeaveKeeps
<1>3. ASSUME NEW j \in Jobs, Works(j) \/ GivenUp(j) \/ Delete(j) PROVE RentalInv'
  BY <1>3, MachineKeeps, RowKeeps
<1>4. CASE Unreachable
  BY <1>4, MachineKeeps
<1> QED BY <1>1, <1>2, <1>3, <1>4 DEF RentalNext

\* It implies the property.
LEMMA MirroredIsTrue == ASSUME RentalInv PROVE MirrorIsTrue
BY DEF RentalInv, Mirrored, MirrorIsTrue, Ending

\* The local row says completed only of a run that is, with its results; and
\* once a page shows how a run ended the row agrees, unless it was deleted or a
\* database error was swallowed.
THEOREM MirrorStaysTrue == ASSUME RentalAssumption PROVE RentalSpec => []MirrorIsTrue
<1>1. RentalInit => RentalInv
  BY RentalStarts
<1>2. RentalInv /\ [RentalNext]_rental => RentalInv'
  BY RentalInductive
<1>3. RentalInv => MirrorIsTrue
  BY MirroredIsTrue
<1> QED BY <1>1, <1>2, <1>3, PTL DEF RentalSpec

\* The types of the rental's variables.
THEOREM RentalTypesHold == ASSUME RentalAssumption PROVE RentalSpec => []RentalTypeOK
<1>1. RentalInit => RentalInv
  BY RentalStarts
<1>2. RentalInv /\ [RentalNext]_rental => RentalInv'
  BY RentalInductive
<1>3. RentalInv => RentalTypeOK
  BY DEF RentalInv
<1> QED BY <1>1, <1>2, <1>3, PTL DEF RentalSpec

-----------------------------------------------------------------------------
(* NewsStore.                                                                *)

(* The order of the natural numbers, as the library's relations are written. *)
Below == {ss \in Nat \X Nat : ss[1] < ss[2]}

(* Every set of natural numbers that is not empty has a least element: the   *)
(* least counterexample stands in for an induction.                          *)
LEMMA Least == ASSUME NEW T, T \subseteq Nat, T # {} PROVE \E x \in T : \A y \in T : x <= y
<1>1. IsWellFoundedOn(Below, Nat)
  <2>1. Below = OpToRel(<, Nat)
    BY DEF Below, OpToRel
  <2> QED BY <2>1, NatLessThanWellFounded
<1>2. PICK x \in T : \A y \in T : ~(<<y, x>> \in Below)
  BY <1>1, WFMin
<1>3. ASSUME NEW y \in T PROVE x <= y
  <2>1. <<y, x>> \in Nat \X Nat
    OBVIOUS
  <2>2. y < x => <<y, x>> \in Below
    BY <2>1 DEF Below
  <2> QED BY <1>2, <2>2
<1> QED BY <1>3

(* And a bounded one has a greatest.                                         *)
LEMMA Greatest ==
  ASSUME NEW n \in Nat, NEW T, T \subseteq 1..n, T # {} PROVE \E x \in T : \A y \in T : y <= x
<1> DEFINE Gaps == {n - y : y \in T}
<1>1. Gaps \subseteq Nat /\ Gaps # {}
  <2>1. \A y \in T : n - y \in Nat
    OBVIOUS
  <2>2. Gaps \subseteq Nat
    BY <2>1
  <2>3. PICK y \in T : TRUE
    OBVIOUS
  <2>4. n - y \in Gaps
    OBVIOUS
  <2> QED BY <2>2, <2>4
<1>2. PICK g \in Gaps : \A h \in Gaps : g <= h
  BY <1>1, Least
<1>3. PICK x \in T : g = n - x
  OBVIOUS
<1>4. ASSUME NEW y \in T PROVE y <= x
  <2>1. g <= n - y
    BY <1>2
  <2> HIDE DEF Gaps
  <2>2. x \in Int /\ y \in Int
    OBVIOUS
  <2> QED BY <1>3, <2>1, <2>2
<1> QED BY <1>4

(* An article the archive may do without: too old, or with Limit newer ones. *)
Spare(a, list) == a < now - Keep \/ Cardinality({b \in list : b > a}) >= Limit

(* What a save cuts off may be done without, counting only what it keeps.    *)
LEMMA TrimSpares ==
  ASSUME NewsAssumption, now \in Nat, NEW list \in SUBSET (1..now), NEW a \in list \ Trim(list)
  PROVE Spare(a, Trim(list))
<1> DEFINE Above(x) == {b \in list : b > x}
           Cut == {x \in list : x >= a /\ ~(Cardinality(Above(x)) < Limit)}
<1>1. CASE a < now - Keep
  BY <1>1 DEF Spare
<1>2. CASE ~(a < now - Keep)
  <2>1. a \in Int /\ now - Keep \in Int /\ a >= now - Keep
    BY <1>2 DEF NewsAssumption
  <2>2. a \in Cut
    BY <2>1 DEF Trim
  <2>3. PICK m \in Cut : \A y \in Cut : y <= m
    <3>1. Cut \subseteq 1..now
      OBVIOUS
    <3> HIDE DEF Cut
    <3> QED BY <2>2, <3>1, Greatest
  <2>4. \A b \in Above(m) : b \in Trim(list) /\ b > a
    <3>1. ASSUME NEW b \in Above(m) PROVE b \in list /\ b > m /\ m >= a /\ b \in Int /\ m \in Int
      OBVIOUS
    <3>2. ASSUME NEW b \in Above(m) PROVE b \notin Cut
      BY <2>3, <3>1
    <3>3. ASSUME NEW b \in Above(m) PROVE Cardinality(Above(b)) < Limit
      BY <2>1, <3>1, <3>2
    <3> QED BY <2>1, <3>1, <3>3 DEF Trim, NewsAssumption
  <2>5. IsFiniteSet({b \in Trim(list) : b > a}) /\ IsFiniteSet(Above(m))
    <3>1. IsFiniteSet(1..now)
      BY FS_Interval
    <3>2. {b \in Trim(list) : b > a} \subseteq 1..now /\ Above(m) \subseteq 1..now
      BY DEF Trim
    <3> QED BY <3>1, <3>2, FS_Subset
  <2>6. Cardinality(Above(m)) <= Cardinality({b \in Trim(list) : b > a})
    BY <2>4, <2>5, FS_Subset
  <2>7. Cardinality(Above(m)) >= Limit
    <3>1. ~(Cardinality(Above(m)) < Limit) /\ Cardinality(Above(m)) \in Nat
      BY <2>3, <2>5, FS_CardinalityType
    <3> QED BY <3>1 DEF NewsAssumption
  <2>8. Cardinality({b \in Trim(list) : b > a}) \in Nat /\ Cardinality(Above(m)) \in Nat
    BY <2>5, FS_CardinalityType
  <2> QED BY <2>6, <2>7, <2>8 DEF Spare, NewsAssumption
<1> QED BY <1>1, <1>2

(* While no two callers have saved at once: one saves at a time, the archive *)
(* is whole, the temporary file is as far as the one that writes it, and what *)
(* a caller that nobody overtook is about to leave out may be done without.  *)
Alone == \A c, d \in Fetchers : Saving(c) /\ Saving(d) => c = d

AsFarAs(c) ==
  /\ caller[c].fd = (IF caller[c].at = "write" THEN "tmp" ELSE "none")
  /\ caller[c].at = "write" => tmp.is = "part"
  /\ caller[c].at = "replace" => tmp.is = "whole" /\ tmp.has = caller[c].list

Covers(c) ==
  caller[c].latest =>
    /\ caller[c].at \in {"fetch", "save"} => file.has \subseteq caller[c].list
    /\ Saving(c) => \A a \in file.has \ caller[c].list : Spare(a, caller[c].list)

Undisturbed == Alone /\ ArchiveWhole /\ \A c \in Fetchers : AsFarAs(c) /\ Covers(c)

NewsInv == NewsTypeOK /\ (~shared => Undisturbed)

(* What a caller can be, articles up to n having appeared.                   *)
Rows(n) == [at : {"idle", "fetch", "save", "write", "replace"}, list : SUBSET (1..n),
            fd : {"none", "tmp", "file", "gone"}, latest : BOOLEAN]

\* How one is put together, and one at rest.
LEMMA RowIsTyped ==
  ASSUME NEW n, NEW at \in {"idle", "fetch", "save", "write", "replace"}, NEW list \in SUBSET (1..n),
         NEW fd \in {"none", "tmp", "file", "gone"}, NEW latest \in BOOLEAN
  PROVE [at |-> at, list |-> list, fd |-> fd, latest |-> latest] \in Rows(n)
BY DEF Rows

LEMMA RestIsTyped == ASSUME NEW n PROVE AtRest \in Rows(n)
<1>1. FALSE \in BOOLEAN
  BY Zenon
<1> QED BY <1>1, RowIsTyped DEF AtRest

(* A caller's record, written out.                                           *)
LEMMA RowIs ==
  ASSUME NEW n, NEW r \in Rows(n)
  PROVE /\ r = [at |-> r.at, list |-> r.list, fd |-> r.fd, latest |-> r.latest] /\ r.latest \in BOOLEAN
        /\ r.at \in {"idle", "fetch", "save", "write", "replace"} /\ r.list \in SUBSET (1..n)
        /\ r.fd \in {"none", "tmp", "file", "gone"}
BY DEF Rows

\* Before anyone fetches.
LEMMA NewsStarts == ASSUME NewsAssumption, NewsInit PROVE NewsInv
<1>1. NewsTypeOK
  <2>1. now \in 1..MaxTime /\ stops \in 0..MaxStops
    BY DEF NewsAssumption, NewsInit
  <2>2. shared \in BOOLEAN
    BY Zenon DEF NewsInit
  <2>3. {file, tmp} \subseteq [is : {"absent", "part", "whole", "mixed"}, has : SUBSET (1..now)]
    BY DEF NewsInit, NoFile
  <2> QED BY <2>1, <2>2, <2>3, RestIsTyped DEF Rows, NewsInit, NewsTypeOK
<1>2. Undisturbed
  BY DEF NewsInit, Undisturbed, Alone, ArchiveWhole, AsFarAs, Covers, Saving, AtRest, NoFile
<1> QED BY <1>1, <1>2 DEF NewsInv

(* An action at a time.                                                      *)

LEMMA LoadCacheKeeps == ASSUME NewsInv, NEW c \in Fetchers, LoadCache(c) PROVE NewsInv'
<1>1. PICK had \in {file.has} \cup (IF file.is = "mixed" THEN {{}} ELSE {}) :
        caller' = [caller EXCEPT ![c] = [at |-> "fetch", list |-> IF file.is = "part" THEN {} ELSE had,
                                         fd |-> "none", latest |-> TRUE]]
  BY DEF LoadCache
<1>2. UNCHANGED <<now, file, tmp, shared, stops>> /\ caller[c].at = "idle"
  BY DEF LoadCache
<1>3. had \in SUBSET (1..now)
  BY DEF NewsInv, NewsTypeOK
<1>4. /\ caller'[c].at = "fetch" /\ caller'[c].fd = "none"
      /\ caller'[c].list = IF file.is = "part" THEN {} ELSE had
      /\ \A d \in Fetchers \ {c} : caller'[d] = caller[d]
  BY <1>1 DEF NewsInv, NewsTypeOK
<1>5. NewsTypeOK'
  BY <1>1, <1>2, <1>3 DEF NewsInv, NewsTypeOK
<1>6. ASSUME ~shared PROVE Undisturbed'
  <2>1. Undisturbed
    BY <1>6 DEF NewsInv
  <2>2. file.is \in {"absent", "whole"}
    BY <1>6, <2>1 DEF Undisturbed, ArchiveWhole
  <2>3. file.has \subseteq caller'[c].list
    BY <1>4, <2>2
  <2>4. AsFarAs(c)' /\ Covers(c)'
    BY <1>2, <1>4, <2>3 DEF AsFarAs, Covers, Saving
  <2>5. ASSUME NEW d \in Fetchers \ {c} PROVE AsFarAs(d)' /\ Covers(d)'
    BY <1>2, <1>4, <2>1 DEF Undisturbed, AsFarAs, Covers, Saving, Spare
  <2>6. Alone' /\ ArchiveWhole'
    BY <1>2, <1>4, <2>1 DEF Undisturbed, Alone, ArchiveWhole, Saving
  <2> QED BY <2>4, <2>5, <2>6 DEF Undisturbed
<1> QED BY <1>2, <1>5, <1>6 DEF NewsInv

LEMMA FetchRssKeeps == ASSUME NewsInv, NEW c \in Fetchers, FetchRss(c) PROVE NewsInv'
<1>1. PICK fresh \in {Feed \ caller[c].list, {}} :
        caller' = [caller EXCEPT ![c].list = @ \cup fresh, ![c].at = IF fresh = {} THEN "idle" ELSE "save"]
  BY DEF FetchRss
<1>2. UNCHANGED <<now, file, tmp, shared, stops>> /\ caller[c].at = "fetch"
  BY DEF FetchRss
<1>3. fresh \in SUBSET (1..now)
  BY DEF Feed
<1>4. /\ caller'[c] = [caller[c] EXCEPT !.list = @ \cup fresh, !.at = IF fresh = {} THEN "idle" ELSE "save"]
      /\ \A d \in Fetchers \ {c} : caller'[d] = caller[d]
  BY <1>1 DEF NewsInv, NewsTypeOK
<1>5. /\ caller'[c].at = (IF fresh = {} THEN "idle" ELSE "save") /\ caller'[c].fd = caller[c].fd
      /\ caller'[c].list = caller[c].list \cup fresh /\ caller'[c].latest = caller[c].latest
  BY <1>4 DEF NewsInv, NewsTypeOK
<1>6. NewsTypeOK'
  <2>1. caller[c].list \cup fresh \in SUBSET (1..now)
    BY <1>3 DEF NewsInv, NewsTypeOK
  <2>2. caller \in [Fetchers -> Rows(now)]
    BY DEF NewsInv, NewsTypeOK, Rows
  <2>3. caller'[c] \in Rows(now)
    <3>1. caller'[c] = [at |-> IF fresh = {} THEN "idle" ELSE "save", list |-> caller[c].list \cup fresh,
                        fd |-> caller[c].fd, latest |-> caller[c].latest]
      BY <1>4, <2>2, RowIs, Zenon
    <3> QED BY <2>1, <2>2, <3>1, RowIs, RowIsTyped
  <2>4. caller' \in [Fetchers -> Rows(now)]
    BY <1>1, <1>4, <2>2, <2>3
  <2> QED BY <1>2, <2>4 DEF NewsInv, NewsTypeOK, Rows
<1>7. ASSUME ~shared PROVE Undisturbed'
  <2>1. Undisturbed
    BY <1>7 DEF NewsInv
  <2>2. AsFarAs(c)' /\ Covers(c)'
    BY <1>2, <1>5, <2>1 DEF Undisturbed, AsFarAs, Covers, Saving
  <2>3. ASSUME NEW d \in Fetchers \ {c} PROVE AsFarAs(d)' /\ Covers(d)'
    BY <1>2, <1>4, <2>1 DEF Undisturbed, AsFarAs, Covers, Saving, Spare
  <2>4. Alone' /\ ArchiveWhole'
    <3>1. \A d \in Fetchers : Saving(d)' => Saving(d)
      BY <1>4, <1>5 DEF Saving
    <3> QED BY <1>2, <2>1, <3>1 DEF Undisturbed, Alone, ArchiveWhole
  <2> QED BY <2>2, <2>3, <2>4 DEF Undisturbed
<1> QED BY <1>2, <1>6, <1>7 DEF NewsInv

LEMMA OpenTmpKeeps == ASSUME NewsAssumption, NewsInv, NEW c \in Fetchers, OpenTmp(c) PROVE NewsInv'
<1>1. /\ tmp' = [is |-> IF \E d \in Fetchers : caller[d].fd = "tmp" THEN "mixed" ELSE "part", has |-> {}]
      /\ caller' = [caller EXCEPT ![c].list = Trim(@), ![c].fd = "tmp", ![c].at = "write"]
      /\ shared' = (shared \/ \E d \in Fetchers \ {c} : Saving(d))
      /\ UNCHANGED <<now, file, stops>> /\ caller[c].at = "save"
  BY DEF OpenTmp
<1>2. Trim(caller[c].list) \in SUBSET (1..now)
  BY DEF Trim, NewsInv, NewsTypeOK
<1>3. /\ caller'[c] = [caller[c] EXCEPT !.list = Trim(@), !.fd = "tmp", !.at = "write"]
      /\ \A d \in Fetchers \ {c} : caller'[d] = caller[d]
  BY <1>1 DEF NewsInv, NewsTypeOK
<1>4. /\ caller'[c].at = "write" /\ caller'[c].fd = "tmp" /\ caller'[c].list = Trim(caller[c].list)
      /\ caller'[c].latest = caller[c].latest
  BY <1>3 DEF NewsInv, NewsTypeOK
<1>5. NewsTypeOK'
  <2>1. caller' \in [Fetchers -> [at : {"idle", "fetch", "save", "write", "replace"}, list : SUBSET (1..now),
                                  fd : {"none", "tmp", "file", "gone"}, latest : BOOLEAN]]
    BY <1>1, <1>2 DEF NewsInv, NewsTypeOK
  <2>2. tmp' \in [is : {"absent", "part", "whole", "mixed"}, has : SUBSET (1..now)]
    BY <1>1
  <2>3. shared' \in BOOLEAN
    BY <1>1, Zenon
  <2> QED BY <1>1, <2>1, <2>2, <2>3 DEF NewsInv, NewsTypeOK
<1>6. ASSUME ~shared' PROVE Undisturbed'
  <2>1. Undisturbed /\ \A d \in Fetchers \ {c} : ~Saving(d)
    BY <1>1, <1>6, Zenon DEF NewsInv
  <2>2. \A d \in Fetchers : caller[d].fd # "tmp"
    BY <1>1, <2>1 DEF Undisturbed, AsFarAs, Saving
  <2>3. AsFarAs(c)'
    BY <1>1, <1>4, <2>2 DEF AsFarAs
  <2>4. Covers(c)'
    <3>1. ASSUME caller[c].latest, NEW a \in file.has \ Trim(caller[c].list) PROVE Spare(a, Trim(caller[c].list))
      <4>1. a \in caller[c].list \ Trim(caller[c].list)
        BY <1>1, <2>1, <3>1 DEF Undisturbed, Covers
      <4>2. caller[c].list \in SUBSET (1..now) /\ now \in Nat
        BY DEF NewsInv, NewsTypeOK
      <4> QED BY <4>1, <4>2, TrimSpares
    <3> QED BY <1>1, <1>4, <3>1 DEF Covers, Saving, Spare
  <2>5. ASSUME NEW d \in Fetchers \ {c} PROVE AsFarAs(d)' /\ Covers(d)'
    <3>1. caller'[d] = caller[d] /\ caller[d].at \notin {"write", "replace"} /\ AsFarAs(d) /\ Covers(d)
      BY <1>3, <2>1 DEF Undisturbed, Saving
    <3> QED BY <1>1, <3>1 DEF AsFarAs, Covers, Saving
  <2>6. Alone' /\ ArchiveWhole'
    <3>1. \A d \in Fetchers : Saving(d)' => d = c
      BY <1>3, <2>1 DEF Saving
    <3> QED BY <1>1, <2>1, <3>1 DEF Undisturbed, Alone, ArchiveWhole
  <2> QED BY <2>3, <2>4, <2>5, <2>6 DEF Undisturbed
<1> QED BY <1>5, <1>6 DEF NewsInv

LEMMA WriteTmpKeeps == ASSUME NewsInv, NEW c \in Fetchers, WriteTmp(c) PROVE NewsInv'
<1>1. /\ tmp'  = IF caller[c].fd = "tmp"  THEN Written(tmp, caller[c].list)  ELSE tmp
      /\ file' = IF caller[c].fd = "file" THEN Written(file, caller[c].list) ELSE file
      /\ caller' = [caller EXCEPT ![c].fd = "none", ![c].at = "replace"]
      /\ UNCHANGED <<now, shared, stops>> /\ caller[c].at = "write"
  BY DEF WriteTmp
<1>2. /\ caller'[c] = [caller[c] EXCEPT !.fd = "none", !.at = "replace"]
      /\ \A d \in Fetchers \ {c} : caller'[d] = caller[d]
  BY <1>1 DEF NewsInv, NewsTypeOK
<1>3. /\ caller'[c].at = "replace" /\ caller'[c].fd = "none" /\ caller'[c].list = caller[c].list
      /\ caller'[c].latest = caller[c].latest
  BY <1>2 DEF NewsInv, NewsTypeOK
<1>4. NewsTypeOK'
  BY <1>1 DEF NewsInv, NewsTypeOK, Written
<1>5. ASSUME ~shared PROVE Undisturbed'
  <2>1. Undisturbed
    BY <1>5 DEF NewsInv
  <2>2. caller[c].fd = "tmp" /\ tmp.is = "part" /\ \A d \in Fetchers \ {c} : ~Saving(d)
    BY <1>1, <2>1 DEF Undisturbed, AsFarAs, Alone, Saving
  <2>3. file' = file /\ tmp'.is = "whole" /\ tmp'.has = caller[c].list
    BY <1>1, <2>2 DEF Written
  <2>4. AsFarAs(c)' /\ Covers(c)'
    BY <1>1, <1>3, <2>1, <2>3 DEF Undisturbed, AsFarAs, Covers, Saving, Spare
  <2>5. ASSUME NEW d \in Fetchers \ {c} PROVE AsFarAs(d)' /\ Covers(d)'
    BY <1>1, <1>2, <2>1, <2>2, <2>3 DEF Undisturbed, AsFarAs, Covers, Saving, Spare
  <2>6. Alone' /\ ArchiveWhole'
    BY <1>1, <1>2, <1>5, <2>1, <2>2, <2>3 DEF Undisturbed, Alone, ArchiveWhole, Saving
  <2> QED BY <2>4, <2>5, <2>6 DEF Undisturbed
<1> QED BY <1>1, <1>4, <1>5 DEF NewsInv

LEMMA ReplaceKeeps == ASSUME NewsInv, NEW c \in Fetchers, Replace(c) PROVE NewsInv'
<1> DEFINE Overtaken(d) == [caller[d] EXCEPT !.fd = Moved(@), !.latest = FALSE]
<1>1. /\ file' = tmp /\ tmp' = NoFile /\ caller[c].at = "replace"
      /\ caller' = [d \in Fetchers |-> IF d = c THEN AtRest ELSE Overtaken(d)]
      /\ UNCHANGED <<now, shared, stops>>
  BY DEF Replace
<1>2. caller'[c] = AtRest /\ \A d \in Fetchers \ {c} : caller'[d] = Overtaken(d)
  BY <1>1
<1>3. ASSUME NEW d \in Fetchers \ {c}
      PROVE /\ caller'[d] = [at |-> caller[d].at, list |-> caller[d].list, fd |-> Moved(caller[d].fd), latest |-> FALSE]
            /\ caller'[d].at = caller[d].at /\ caller'[d].list = caller[d].list
            /\ caller'[d].fd = Moved(caller[d].fd) /\ ~caller'[d].latest
  <2>1. DOMAIN caller[d] = {"at", "list", "fd", "latest"}
    BY DEF NewsInv, NewsTypeOK
  <2>2. caller'[d] = [at |-> caller[d].at, list |-> caller[d].list, fd |-> Moved(caller[d].fd), latest |-> FALSE]
    BY <1>2, <2>1, Zenon
  <2>3. /\ caller'[d].at = caller[d].at /\ caller'[d].list = caller[d].list
        /\ caller'[d].fd = Moved(caller[d].fd) /\ caller'[d].latest = FALSE
    <3>1. ASSUME NEW b, caller'[d] = [at |-> caller[d].at, list |-> caller[d].list, fd |-> Moved(caller[d].fd), latest |-> b]
          PROVE /\ caller'[d].at = caller[d].at /\ caller'[d].list = caller[d].list
                /\ caller'[d].fd = Moved(caller[d].fd) /\ caller'[d].latest = b
      BY <3>1
    <3> QED BY <2>2, <3>1, Zenon
  <2> QED BY <2>2, <2>3, Zenon
<1>4. NewsTypeOK'
  <2>1. caller \in [Fetchers -> Rows(now)] /\ FALSE \in BOOLEAN
    BY Zenon DEF NewsInv, NewsTypeOK, Rows
  <2>2. ASSUME NEW d \in Fetchers \ {c} PROVE caller'[d] \in Rows(now)
    <3>1. Moved(caller[d].fd) \in {"none", "tmp", "file", "gone"}
      BY <2>1, RowIs DEF Moved
    <3>2. caller'[d] = [at |-> caller[d].at, list |-> caller[d].list, fd |-> Moved(caller[d].fd), latest |-> FALSE]
      BY <1>3, Zenon
    <3>3. /\ caller[d].at \in {"idle", "fetch", "save", "write", "replace"} /\ caller[d].list \in SUBSET (1..now)
      BY <2>1, RowIs
    <3>4. [at |-> caller[d].at, list |-> caller[d].list, fd |-> Moved(caller[d].fd), latest |-> FALSE] \in Rows(now)
      BY <2>1, <3>1, <3>3, RowIsTyped, Zenon
    <3> QED BY <3>2, <3>4, Zenon
  <2>3. caller' \in [Fetchers -> Rows(now)]
    <3>1. \A d \in Fetchers : caller'[d] \in Rows(now)
      BY <1>2, <2>2, RestIsTyped
    <3>2. caller' = [d \in Fetchers |-> caller'[d]]
      BY <1>1, <1>2, Zenon
    <3> QED BY <3>1, <3>2
  <2>4. file' = tmp /\ tmp' = NoFile /\ now' = now /\ shared' = shared /\ stops' = stops
    BY <1>1, Zenon
  <2> QED BY <2>3, <2>4 DEF NoFile, NewsInv, NewsTypeOK, Rows
<1>5. ASSUME ~shared PROVE Undisturbed'
  <2>1. Undisturbed
    BY <1>5 DEF NewsInv
  <2>2. tmp.is = "whole" /\ \A d \in Fetchers \ {c} : ~Saving(d)
    BY <1>1, <2>1 DEF Undisturbed, AsFarAs, Alone, Saving
  <2>3. AsFarAs(c)' /\ Covers(c)'
    BY <1>1, <1>2 DEF AtRest, AsFarAs, Covers, Saving
  <2>4. ASSUME NEW d \in Fetchers \ {c} PROVE AsFarAs(d)' /\ Covers(d)'
    <3>1. caller[d].fd = "none" /\ caller[d].at \notin {"write", "replace"}
      BY <2>1, <2>2 DEF Undisturbed, AsFarAs, Saving
    <3>2. caller'[d].fd = "none" /\ caller'[d].at \notin {"write", "replace"}
      BY <1>3, <3>1 DEF Moved
    <3>3. ~caller'[d].latest
      BY <1>3, Zenon
    <3> QED BY <3>2, <3>3 DEF AsFarAs, Covers
  <2>5. Alone' /\ ArchiveWhole'
    BY <1>1, <1>2, <1>3, <2>2 DEF AtRest, Alone, ArchiveWhole, Saving
  <2> QED BY <2>3, <2>4, <2>5 DEF Undisturbed
<1> QED BY <1>1, <1>4, <1>5 DEF NewsInv

LEMMA ReplaceFailsKeeps == ASSUME NewsInv, NEW c \in Fetchers, ReplaceFails(c) PROVE NewsInv'
<1>1. caller' = [caller EXCEPT ![c] = AtRest] /\ UNCHANGED <<now, file, tmp, shared, stops>>
  BY DEF ReplaceFails
<1>2. caller'[c] = AtRest /\ \A d \in Fetchers \ {c} : caller'[d] = caller[d]
  BY <1>1 DEF NewsInv, NewsTypeOK
<1>3. NewsTypeOK'
  BY <1>1 DEF AtRest, NewsInv, NewsTypeOK
<1>4. ASSUME Undisturbed PROVE Undisturbed'
  <2>1. AsFarAs(c)' /\ Covers(c)'
    BY <1>2 DEF AtRest, AsFarAs, Covers, Saving
  <2>2. ASSUME NEW d \in Fetchers \ {c} PROVE AsFarAs(d)' /\ Covers(d)'
    BY <1>1, <1>2, <1>4 DEF Undisturbed, AsFarAs, Covers, Saving, Spare
  <2>3. Alone' /\ ArchiveWhole'
    BY <1>1, <1>2, <1>4 DEF AtRest, Undisturbed, Alone, ArchiveWhole, Saving
  <2> QED BY <2>1, <2>2, <2>3 DEF Undisturbed
<1> QED BY <1>1, <1>3, <1>4 DEF NewsInv

LEMMA NewsTickKeeps == ASSUME NewsAssumption, NewsInv, NewsTick PROVE NewsInv'
<1>1. now < MaxTime /\ now' = now + 1 /\ UNCHANGED <<file, tmp, caller, shared, stops>>
  BY DEF NewsTick
<1>2. now \in Nat /\ now' \in 1..MaxTime /\ 1..now \subseteq 1..now' /\ now <= now'
  BY <1>1 DEF NewsInv, NewsTypeOK, NewsAssumption
<1>3. NewsTypeOK'
  BY <1>1, <1>2 DEF NewsInv, NewsTypeOK
<1>4. ASSUME Undisturbed PROVE Undisturbed'
  <2>1. ASSUME NEW c \in Fetchers PROVE AsFarAs(c)' /\ Covers(c)'
    <3>1. AsFarAs(c)'
      BY <1>1, <1>4 DEF Undisturbed, AsFarAs
    <3>2. ASSUME caller[c].latest, Saving(c), NEW a \in file.has \ caller[c].list
          PROVE Spare(a, caller[c].list)'
      <4>1. Spare(a, caller[c].list) /\ a \in 1..now
        BY <1>4, <3>2 DEF Undisturbed, Covers, NewsInv, NewsTypeOK
      <4>2. a < now - Keep => a < now' - Keep
        BY <1>2, <4>1 DEF NewsAssumption, NewsInv, NewsTypeOK
      <4> QED BY <1>1, <4>1, <4>2 DEF Spare
    <3> QED BY <1>1, <1>4, <3>1, <3>2 DEF Undisturbed, Covers, Saving, Spare
  <2>2. Alone' /\ ArchiveWhole'
    BY <1>1, <1>4 DEF Undisturbed, Alone, ArchiveWhole, Saving
  <2> QED BY <2>1, <2>2 DEF Undisturbed
<1> QED BY <1>1, <1>3, <1>4 DEF NewsInv

LEMMA KilledKeeps == ASSUME NewsAssumption, NewsInv, Killed PROVE NewsInv'
<1>1. /\ stops < MaxStops /\ stops' = stops + 1 /\ caller' = [c \in Fetchers |-> AtRest]
      /\ UNCHANGED <<now, file, tmp, shared>>
  BY DEF Killed
<1>2. NewsTypeOK'
  BY <1>1, RestIsTyped DEF NewsInv, NewsTypeOK, NewsAssumption, Rows
<1>3. ASSUME Undisturbed PROVE Undisturbed'
  BY <1>1, <1>3 DEF AtRest, Undisturbed, Alone, ArchiveWhole, AsFarAs, Covers, Saving
<1> QED BY <1>1, <1>2, <1>3 DEF NewsInv

\* Every step keeps the invariant.
LEMMA NewsInductive == ASSUME NewsAssumption, NewsInv, [NewsNext]_news PROVE NewsInv'
<1>1. CASE UNCHANGED news
  BY <1>1 DEF news, NewsInv, NewsTypeOK, Undisturbed, Alone, ArchiveWhole, AsFarAs, Covers, Saving, Spare
<1>2. CASE \E c \in Fetchers : Fetches(c)
  BY <1>2, LoadCacheKeeps, FetchRssKeeps, OpenTmpKeeps, WriteTmpKeeps, ReplaceKeeps, ReplaceFailsKeeps DEF Fetches
<1>3. CASE NewsTick
  BY <1>3, NewsTickKeeps
<1>4. CASE Killed
  BY <1>4, KilledKeeps
<1> QED BY <1>1, <1>2, <1>3, <1>4 DEF NewsNext

(* A save that nobody overtook leaves out only what may be done without.     *)
LEMMA SaveKeeps ==
  ASSUME NewsAssumption, NewsInv, [NewsNext]_news, NEW c \in Fetchers,
         caller[c].at = "replace", caller'[c].at = "idle", file' # file, caller[c].latest, ~shared
  PROVE \A a \in file.has \ file'.has : a < now - Keep \/ Cardinality({b \in file'.has : b > a}) >= Limit
<1>1. Undisturbed /\ Saving(c)
  BY DEF NewsInv, Saving
<1>2. ASSUME NEW d \in Fetchers, Replace(d) PROVE file'.has = caller[c].list
  <2>1. Saving(d)
    BY <1>2 DEF Replace, Saving
  <2>2. d = c
    BY <1>1, <2>1 DEF Undisturbed, Alone
  <2> QED BY <1>1, <1>2, <2>2 DEF Replace, Undisturbed, AsFarAs
<1>3. ASSUME NEW d \in Fetchers, WriteTmp(d) PROVE FALSE
  <2>1. caller[d].fd = "tmp"
    BY <1>1, <1>3 DEF WriteTmp, Undisturbed, AsFarAs
  <2> QED BY <1>3, <2>1 DEF WriteTmp
<1>4. file'.has = caller[c].list
  BY <1>2, <1>3 DEF NewsNext, Fetches, LoadCache, FetchRss, OpenTmp, ReplaceFails, NewsTick, Killed, news
<1> QED BY <1>1, <1>4 DEF Undisturbed, Covers, Spare

(* The archive of news is whole whenever it is read, and a save drops only   *)
(* old articles or those with Limit newer ones, unless two saved at once.    *)
THEOREM ArchiveHeld == ASSUME NewsAssumption PROVE NewsSpec => ArchiveHolds
<1>1. NewsInit => NewsInv
  BY NewsStarts
<1>2. NewsInv /\ [NewsNext]_news => NewsInv'
  BY NewsInductive
<1>3. NewsInv => ArchiveWhole
  BY DEF NewsInv, Undisturbed, ArchiveWhole
<1>4. NewsInv /\ [NewsNext]_news =>
        [\A c \in Fetchers :
           caller[c].at = "replace" /\ caller'[c].at = "idle" /\ file' # file /\ caller[c].latest /\ ~shared =>
             \A a \in file.has \ file'.has : a < now - Keep \/ Cardinality({b \in file'.has : b > a}) >= Limit]_news
  BY SaveKeeps
<1> QED BY <1>1, <1>2, <1>3, <1>4, PTL DEF NewsSpec, ArchiveHolds, ArchiveKeeps

(* The types of the archive, its temporary file and its callers.             *)
THEOREM NewsTypesHold == ASSUME NewsAssumption PROVE NewsSpec => []NewsTypeOK
<1>1. NewsInit => NewsInv
  BY NewsStarts
<1>2. NewsInv /\ [NewsNext]_news => NewsInv'
  BY NewsInductive
<1>3. NewsInv => NewsTypeOK
  BY DEF NewsInv
<1> QED BY <1>1, <1>2, <1>3, PTL DEF NewsSpec

=============================================================================
