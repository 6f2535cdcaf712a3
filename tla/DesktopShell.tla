---------------------------- MODULE DesktopShell ----------------------------
(* The desktop shell and the service it starts: electron/main.ts with the    *)
(* PythonManager of electron/python.ts, in the packaged build.  A step runs  *)
(* from one await, timer or event of the shell to the next; the operating    *)
(* system, the user and the service are its environment.                     *)
EXTENDS Integers, Sequences, FiniteSets

CONSTANTS Systems,   \* of "windows" and "other"
          MaxRetries

ShellAssumption == Systems \subseteq {"windows", "other"} /\ MaxRetries \in Nat
ASSUME Packaged == ShellAssumption

Callers == {"closed", "signal", "quit"}  \* who calls cleanup: the last window, a signal, before-quit

VARIABLES
  system,
  life,      \* of the shell: "runs", "quits" once before-quit was emitted, "gone"
  pc,        \* of whenReady: "port", "health", "load", "loaded", "failed"
  window, tray, manager,  \* whether there is one (manager: pythonManager # null)
  procs,     \* the services started, in order: [is, asked]
  proc,      \* the one this.proc holds, 0 for null
  timers,    \* restarts that wait for their timer
  retries, shuttingDown,
  phase, watch,  \* per caller: how far its stop() is, and the process it is about
  midStart   \* a first stop found a start under way: a port sought, a timer running

shell == <<system, life, pc, window, tray, manager, procs, proc, timers, retries, shuttingDown, phase, watch, midStart>>

Alive == {p \in DOMAIN procs : procs[p].is \in {"starting", "serving"}}
Serving == proc # 0 /\ procs[proc].is = "serving"

----------------------------------------------------------------------------
(* Start.                                                                    *)

Spawn ==
  /\ procs' = Append(procs, [is |-> "starting", asked |-> FALSE])
  /\ proc' = Len(procs) + 1

FoundPort ==
  /\ life # "gone" /\ pc = "port"
  /\ pc' = "health" /\ shuttingDown' = FALSE
  /\ Spawn
  /\ UNCHANGED <<system, life, window, tray, manager, timers, retries, phase, watch, midStart>>

(* waitForBackend: the health check answers, or thirty seconds are over.     *)
Waited ==
  /\ life # "gone" /\ pc = "health"
  /\ pc' = "load"
  /\ UNCHANGED <<system, life, window, tray, manager, procs, proc, timers, retries, shuttingDown, phase, watch, midStart>>

(* A page that cannot be loaded rejects, and whenReady ends there.           *)
LoadFrontend ==
  /\ life # "gone" /\ pc = "load"
  /\ pc' = IF Serving THEN "loaded" ELSE "failed"
  /\ UNCHANGED <<system, life, window, tray, manager, procs, proc, timers, retries, shuttingDown, phase, watch, midStart>>

Serves ==
  /\ \E p \in Alive : procs[p].is = "starting" /\ procs' = [procs EXCEPT ![p].is = "serving"]
  /\ UNCHANGED <<system, life, pc, window, tray, manager, proc, timers, retries, shuttingDown, phase, watch, midStart>>

----------------------------------------------------------------------------
(* The end of a service and its restart.                                     *)

\* slip: a service that was told to stop is started again
ExitedUnasked(ps) ==
  IF life # "gone" /\ ps # {} /\ retries < MaxRetries
  THEN retries' = retries + 1 /\ timers' = timers + 1
  ELSE UNCHANGED <<retries, timers>>

Exited(ps) ==
  IF life # "gone" /\ ps # {} /\ ~shuttingDown /\ retries < MaxRetries
  THEN retries' = retries + 1 /\ timers' = timers + 1
  ELSE UNCHANGED <<retries, timers>>

(* With a code, or by a signal: this.proc.exitCode then stays null.          *)
Exits ==
  /\ \E p \in Alive, how \in {"exited", "killed"} :
       procs' = [procs EXCEPT ![p].is = how] /\ Exited({p})
  /\ UNCHANGED <<system, life, pc, window, tray, manager, proc, shuttingDown, phase, watch, midStart>>

Restart ==
  /\ life # "gone" /\ timers > 0
  /\ timers' = timers - 1
  /\ Spawn
  /\ UNCHANGED <<system, life, pc, window, tray, manager, retries, shuttingDown, phase, watch, midStart>>

----------------------------------------------------------------------------
(* stop().                                                                   *)

Running == proc # 0 /\ procs[proc].is # "exited"

Registered == IF proc # 0 /\ procs[proc].is \in {"starting", "serving"} THEN "waits" ELSE "too late"

(* Up to its first await.  A process is asked by SIGTERM, or by a taskkill   *)
(* that it may refuse; a listener for its end comes too late if it is over.  *)
StopCalled(c) ==
  IF ~manager THEN phase' = [phase EXCEPT ![c] = "stopped"] /\ UNCHANGED <<procs, shuttingDown, watch, midStart>>
  ELSE /\ shuttingDown' = TRUE
       /\ midStart' = (midStart \/ ((\A d \in Callers : phase[d] = "none") /\ (timers > 0 \/ pc = "port")))
       /\ procs' = IF Running THEN [procs EXCEPT ![proc].asked = TRUE] ELSE procs
       /\ watch' = [watch EXCEPT ![c] = proc]
       /\ phase' = [phase EXCEPT ![c] = IF ~Running THEN "stopped"
                                        ELSE IF system = "windows" THEN "taskkill" ELSE Registered]

(* _killWindows: a taskkill that was refused is followed by a forced one.    *)
Taskkill(c) ==
  /\ life # "gone" /\ phase[c] = "taskkill"
  /\ \/ UNCHANGED <<procs, timers, retries>>
     \/ /\ watch[c] \in Alive
        /\ procs' = [procs EXCEPT ![watch[c]].is = "exited"] /\ Exited({watch[c]})
  /\ phase' = [phase EXCEPT ![c] =
       IF proc # 0 /\ procs'[proc].is \in {"starting", "serving"} THEN "waits" ELSE "too late"]
  /\ watch' = watch
  /\ UNCHANGED <<system, life, pc, window, tray, manager, proc, shuttingDown, midStart>>

(* The end of the process, or the time-out, which kills what this.proc then  *)
(* holds, or, on Windows, the process that was asked.                        *)
Victim(c) == {p \in Alive : p = (IF system = "windows" THEN watch[c] ELSE proc)}
Waits(c) ==
  /\ life # "gone"
  /\ \/ /\ phase[c] = "waits" /\ watch[c] \notin Alive
        /\ UNCHANGED <<procs, timers, retries>>
     \/ /\ phase[c] \in {"waits", "too late"}
        /\ procs' = [p \in DOMAIN procs |-> IF p \in Victim(c) THEN [procs[p] EXCEPT !.is = "killed"] ELSE procs[p]]
        /\ Exited(Victim(c))
  /\ phase' = [phase EXCEPT ![c] = "stopped"] /\ proc' = 0
  /\ UNCHANGED <<system, life, pc, window, tray, manager, shuttingDown, watch, midStart>>

----------------------------------------------------------------------------
(* The ways out.                                                             *)

(* app.quit(): before-quit, whose handler nobody waits for.                  *)
QuitBegins ==
  /\ life' = "quits"
  /\ StopCalled("quit")
  /\ UNCHANGED <<system, pc, window, tray, manager, proc, timers, retries>>

Quit == life = "runs" /\ (tray \/ window) /\ QuitBegins

(* The windows are closed; will-quit asks once more, and the shell is gone.  *)
WillQuit ==
  /\ life = "quits"
  /\ life' = "gone" /\ window' = FALSE /\ timers' = 0
  /\ procs' = IF manager /\ Running THEN [procs EXCEPT ![proc].asked = TRUE] ELSE procs
  /\ UNCHANGED <<system, pc, tray, manager, proc, retries, shuttingDown, phase, watch, midStart>>

CloseWindow ==
  /\ life = "runs" /\ window /\ pc \in {"loaded", "failed"}
  /\ window' = FALSE
  /\ StopCalled("closed")
  /\ UNCHANGED <<system, life, pc, tray, manager, proc, timers, retries>>

Signal ==
  /\ life = "runs" /\ system # "windows" /\ phase["signal"] = "none"
  /\ StopCalled("signal")
  /\ UNCHANGED <<system, life, pc, window, tray, manager, proc, timers, retries>>

(* After stop(): on Windows the shell stays when its window was closed.      *)
CleanedUp(c) ==
  /\ life # "gone" /\ phase[c] = "stopped"
  /\ manager' = FALSE /\ tray' = FALSE
  /\ phase' = [phase EXCEPT ![c] = "done"]
  /\ life' = IF c = "signal" \/ (c = "closed" /\ system # "windows") THEN "quits" ELSE life
  /\ UNCHANGED <<system, pc, window, procs, proc, timers, retries, shuttingDown, watch, midStart>>

Init ==
  /\ system \in Systems
  /\ life = "runs" /\ pc = "port" /\ window = TRUE /\ tray = TRUE /\ manager = TRUE
  /\ procs = <<>> /\ proc = 0 /\ timers = 0 /\ retries = 0 /\ shuttingDown = FALSE
  /\ phase = [c \in Callers |-> "none"] /\ watch = [c \in Callers |-> 0] /\ midStart = FALSE

Next ==
  \/ FoundPort \/ Waited \/ LoadFrontend \/ Serves \/ Exits \/ Restart
  \/ \E c \in Callers : Taskkill(c) \/ Waits(c) \/ CleanedUp(c)
  \/ Quit \/ WillQuit \/ CloseWindow \/ Signal

Spec == Init /\ [][Next]_shell

(* The timers, promises and callbacks of the shell run; that the service     *)
(* ends, answers or heeds anything is not assumed.                           *)
FairSpec ==
  /\ Spec
  /\ WF_shell(FoundPort) /\ WF_shell(Waited) /\ WF_shell(LoadFrontend) /\ WF_shell(Restart) /\ WF_shell(WillQuit)
  /\ \A c \in Callers : WF_shell(Taskkill(c)) /\ WF_shell(Waits(c)) /\ WF_shell(CleanedUp(c))

----------------------------------------------------------------------------
TypeOK ==
  /\ system \in Systems /\ life \in {"runs", "quits", "gone"}
  /\ pc \in {"port", "health", "load", "loaded", "failed"}
  /\ {window, tray, manager, shuttingDown, midStart} \subseteq BOOLEAN
  /\ procs \in Seq([is : {"starting", "serving", "exited", "killed"}, asked : BOOLEAN])
  /\ proc \in 0..Len(procs) /\ timers \in 0..1 /\ retries \in 0..MaxRetries
  /\ phase \in [Callers -> {"none", "taskkill", "waits", "too late", "stopped", "done"}]
  /\ watch \in [Callers -> 0..Len(procs)]

(* There is one service on the user's database: a restart waits until the    *)
(* last one is over, and nothing else starts one.                            *)
OneBackend == Cardinality(Alive) + timers + (IF pc = "port" THEN 1 ELSE 0) <= 1

(* When stop() has returned the service is over, whatever it refused, and    *)
(* no restart is coming; and a shell that is gone has at least asked its     *)
(* service.  Neither holds if a start was under way when it was called.      *)
StopStops ==
  ~midStart =>
    /\ (\E c \in Callers : phase[c] \in {"stopped", "done"}) => Alive = {} /\ timers = 0
    /\ life = "gone" => \A p \in Alive : procs[p].asked

(* However it is closed, quit, signalled, restarted and refused, the shell   *)
(* has one service, and none once it was told to stop.                       *)
ServiceHolds == OneBackend /\ StopStops

(* A service that ends is started again, until the restarts are used up.     *)
BackendReturns ==
  (life = "runs" /\ ~shuttingDown /\ Alive = {})
    ~> (Alive # {} \/ shuttingDown \/ retries = MaxRetries \/ life # "runs")

(* A shell that quits, or, except on Windows, whose window is closed, is     *)
(* gone in the end: a service that hangs does not hold it.                   *)
ShellLeaves == (life = "quits" \/ (~window /\ system # "windows")) ~> life = "gone"

=============================================================================
