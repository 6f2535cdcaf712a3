----------------------------- MODULE PriceStream -----------------------------
(***************************************************************************)
(* The price stream of one pair and those who use it: the server itself,   *)
(* charts, and the loops of trading sessions.  The stream is shared and    *)
(* counted; it builds bars from ticks, has each finished bar written by a  *)
(* thread, and wakes the loops through an event that is replaced at once.  *)
(* Ticks come from the broker.  Bars are numbered.                         *)
(***************************************************************************)
EXTENDS Naturals, FiniteSets

CONSTANTS
  Charts,    \* users that only subscribe (a chart's WebSocket)
  Loops,     \* users that also wait for bars (the loop of a session)
  Streamed,  \* whether the loops' timeframe is one of M30, H1, H4
  MaxMoves,  \* bound: how often the broker's keys are entered or removed
  MaxBars    \* bound: bars of a behaviour

StreamAssumption ==
  /\ IsFiniteSet(Charts) /\ IsFiniteSet(Loops) /\ Charts \cap Loops = {}
  /\ Streamed \in BOOLEAN /\ MaxMoves \in Nat /\ MaxBars \in Nat \ {0}

Users == Charts \cup Loops

VARIABLES
  keys,     \* the broker's token and account are known
  moves,    \* how often they were entered or removed
  on,       \* the manager has a stream for the pair, and it runs
  refs,     \* its reference count
  subs,     \* the users whose queues it feeds
  counted,  \* the users for whom it was incremented (history)
  bar,      \* the bar the market is in
  buffer,   \* the bar being built (0: none) and whether from its first tick
  writing,  \* finished bars handed to a thread and not yet in the table
  table,    \* the candles: "none", "partial" or "whole", by bar
  at,       \* where a user stands
  since,    \* the bar in which a loop began to wait
  woken,    \* the finished bar whose event woke a loop (0: none)
  heard     \* the latest bar a loop has read

vars == <<keys, moves, on, refs, subs, counted, bar, buffer, writing, table, at, since, woken, heard>>
users == <<at, since, woken, heard>>
bars  == <<bar, buffer, writing, table>>

NoBuffer == [bar |-> 0, whole |-> FALSE]

Init ==
  /\ keys \in BOOLEAN /\ moves = 0
  /\ on = FALSE /\ refs = 0 /\ subs = {} /\ counted = {}
  /\ bar = 1 /\ buffer = NoBuffer /\ writing = {} /\ table = [b \in 1..MaxBars |-> "none"]
  /\ at = [u \in Users |-> "off"]
  /\ since = [u \in Loops |-> 0] /\ woken = [u \in Loops |-> 0] /\ heard = [u \in Loops |-> 0]

---------------------------------------------------------------------------
(* Users come and go.                                                      *)

\* slip: a stream that already runs is not counted
EnsureStreamOnce(u) ==
  IF keys THEN /\ on' = TRUE /\ refs' = (IF on THEN refs ELSE 1) /\ counted' = counted \cup {u}
               /\ buffer' = IF on THEN buffer ELSE NoBuffer
          ELSE UNCHANGED <<on, refs, counted, buffer>>

\* ensure_stream: without keys it returns before it counts the user.
EnsureStream(u) ==
  IF keys THEN /\ on' = TRUE /\ refs' = refs + 1 /\ counted' = counted \cup {u}
               /\ buffer' = IF on THEN buffer ELSE NoBuffer
          ELSE UNCHANGED <<on, refs, counted, buffer>>

\* subscribe does nothing when there is no stream.
Join(u) ==
  /\ at[u] = "off"
  /\ EnsureStream(u)
  /\ subs' = IF on' THEN subs \cup {u} ELSE subs
  /\ at' = [at EXCEPT ![u] = IF u \in Loops THEN "head" ELSE "on"]
  /\ IF u \in Loops THEN heard' = [heard EXCEPT ![u] = bar - 1] ELSE UNCHANGED heard
  /\ UNCHANGED <<keys, moves, bar, writing, table, since, woken>>

\* release_stream: one reference less, whoever leaves; the last one stops it.
ReleaseStream(u) ==
  /\ refs' = IF on /\ refs > 0 THEN refs - 1 ELSE refs
  /\ on' = (on /\ refs > 1)
  /\ buffer' = IF on /\ refs > 1 THEN buffer ELSE NoBuffer

Unsubscribe(u) == subs' = IF on' THEN subs \ {u} ELSE {}

\* A loop that waits on the event of a stream that is gone waits in vain.
Leave(u) ==
  /\ at[u] # "off"
  /\ ReleaseStream(u)
  /\ Unsubscribe(u)
  /\ counted' = counted \ {u}
  /\ at' = [v \in Users |-> IF v = u THEN "off"
                          ELSE IF at[v] = "wait" /\ ~on' THEN "deaf" ELSE at[v]]
  /\ UNCHANGED <<keys, moves, bar, writing, table, since, woken, heard>>

\* The keys are stored, or removed, in the settings.
MoveKeys ==
  /\ moves < MaxMoves /\ moves' = moves + 1 /\ keys' = ~keys
  /\ UNCHANGED <<on, refs, subs, counted, bars, users>>

---------------------------------------------------------------------------
(* Bars.                                                                   *)

\* The event is set and replaced: those who wait on it now are woken.
Wake ==
  IF Streamed
  THEN /\ at' = [u \in Users |-> IF at[u] = "wait" THEN "woken" ELSE at[u]]
       /\ woken' = [u \in Loops |-> IF at[u] = "wait" THEN buffer.bar ELSE woken[u]]
  ELSE UNCHANGED <<at, woken>>

\* The first tick of a later bar finishes the one in the buffer: the thread is
\* given the candle and the event is set, in this order and without waiting.
CommitBar ==
  IF buffer.bar = 0 THEN UNCHANGED <<writing, at, woken>>
  ELSE writing' = writing \cup {buffer} /\ Wake

\* A tick of the next bar.
TickOfNextBar ==
  /\ bar < MaxBars /\ bar' = bar + 1
  /\ IF on THEN CommitBar /\ buffer' = [bar |-> bar + 1, whole |-> buffer.bar # 0]
           ELSE UNCHANGED <<writing, at, woken, buffer>>
  /\ UNCHANGED <<keys, moves, on, refs, subs, counted, table, since, heard>>

\* A tick of the bar the market is in, for a stream that has not seen it yet.
FirstTick ==
  /\ on /\ buffer.bar = 0
  /\ buffer' = [bar |-> bar, whole |-> FALSE]
  /\ UNCHANGED <<keys, moves, on, refs, subs, counted, bar, writing, table, users>>

\* The thread replaces the candle.
Write(c) ==
  /\ c \in writing /\ writing' = writing \ {c}
  /\ table' = [table EXCEPT ![c.bar] = IF c.whole THEN "whole" ELSE "partial"]
  /\ UNCHANGED <<keys, moves, on, refs, subs, counted, bar, buffer, users>>

---------------------------------------------------------------------------
(* The loop of a session.                                                  *)

\* The event of the stream, if there is a stream; else a sleep.
Wait(u) ==
  /\ at[u] = "head" /\ on
  /\ at' = [at EXCEPT ![u] = "wait"]
  /\ since' = [since EXCEPT ![u] = bar]
  /\ UNCHANGED <<keys, moves, on, refs, subs, counted, bars, woken, heard>>

\* Two minutes without a bar: back to the head, for the event of the stream
\* there is then.
TimeOut(u) ==
  /\ at[u] = "deaf"
  /\ at' = [at EXCEPT ![u] = "head"]
  /\ UNCHANGED <<keys, moves, on, refs, subs, counted, bars, since, woken, heard>>

Latest == LET there == {b \in 1..MaxBars : table[b] # "none"}
          IN IF there = {} THEN 0 ELSE CHOOSE b \in there : \A c \in there : c <= b

\* get_latest_candles.
Read(u) ==
  /\ at[u] = "woken"
  /\ heard' = [heard EXCEPT ![u] = IF Latest > @ THEN Latest ELSE @]
  /\ at' = [at EXCEPT ![u] = "busy"]
  /\ UNCHANGED <<keys, moves, on, refs, subs, counted, bars, since, woken>>

\* The prediction, the price and the engine are done.
Done(u) ==
  /\ at[u] = "busy"
  /\ at' = [at EXCEPT ![u] = "head"]
  /\ UNCHANGED <<keys, moves, on, refs, subs, counted, bars, since, woken, heard>>

Next ==
  \/ \E u \in Users : Join(u) \/ Leave(u)
  \/ \E u \in Loops : Wait(u) \/ TimeOut(u) \/ Read(u) \/ Done(u)
  \/ MoveKeys \/ TickOfNextBar \/ FirstTick
  \/ \E c \in writing : Write(c)

Spec == Init /\ [][Next]_vars

---------------------------------------------------------------------------
(* Properties.                                                             *)

\* The types of the state.
TypeOK ==
  /\ keys \in BOOLEAN /\ moves \in 0..MaxMoves /\ on \in BOOLEAN /\ refs \in 0..Cardinality(Users)
  /\ subs \subseteq Users /\ counted \subseteq Users
  /\ bar \in 1..MaxBars /\ buffer \in [bar : 0..MaxBars, whole : BOOLEAN]
  /\ table \in [1..MaxBars -> {"none", "partial", "whole"}]
  /\ at \in [Users -> {"off", "on", "head", "wait", "deaf", "woken", "busy"}]
  /\ (~on => buffer = NoBuffer /\ subs = {})

\* As long as the keys stay, the count is the number of users that were counted,
\* and the stream runs exactly while there is one.
RefsAreUsers == moves = 0 => refs = Cardinality(counted) /\ on = (counted # {})

\* Only users that are there are fed.
FedAreThere == \A u \in subs : at[u] # "off"

\* A user the stream was started for has it until it leaves.
StreamWhileUsed == counted # {} => on

\* A loop that waits is woken by the end of the bar.
WokenEachBar == \A u \in Loops : Streamed /\ at[u] = "wait" => bar <= since[u] + 1

\* A loop that was woken for a bar reads that bar.
WokenReadsBar == \A u \in Loops : at[u] = "busy" => heard[u] >= woken[u]

\* A loop that waits again has read every bar finished and saved meanwhile.
NoBarMissed ==
  \A u \in Loops : at[u] = "wait" /\ woken[u] > 0 => \A b \in 1..MaxBars :
     b > woken[u] /\ b < since[u] /\ table[b] # "none" => heard[u] >= b

\* What is stored as a candle covers its whole bar.
SavedIsComplete == \A b \in 1..MaxBars : table[b] # "partial"

=============================================================================
