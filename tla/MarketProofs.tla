---------------------------- MODULE MarketProofs ----------------------------
(* Proofs about the market data, for every value of their constants: the     *)
(* price stream of a pair runs as long as somebody uses it and wakes who     *)
(* waits at the end of each bar, and the candles have no hole.               *)
EXTENDS Desk, DeskProofs, TLAPS

-----------------------------------------------------------------------------
(* The price stream.                                                         *)

Present == {u \in Stream!Users : at[u] # "off"}

StreamTypes ==
  /\ keys \in BOOLEAN /\ moves \in 0..KeyMoves /\ on \in BOOLEAN /\ refs \in Nat
  /\ subs \subseteq Stream!Users /\ counted \subseteq Stream!Users
  /\ bar \in 1..MaxBars /\ bars_buffer \in [bar : 0..MaxBars, whole : BOOLEAN]
  /\ writing \subseteq [bar : 1..MaxBars, whole : BOOLEAN]
  /\ table \in [1..MaxBars -> {"none", "partial", "whole"}]
  /\ at \in [Stream!Users -> {"off", "on", "head", "wait", "deaf", "woken", "busy"}]
  /\ bars_since \in [Loops -> 0..MaxBars] /\ woken \in [Loops -> 0..MaxBars] /\ heard \in [Loops -> Nat]

(* The count goes down with whoever leaves, so it never exceeds those that   *)
(* are there; while the keys stay, who is there was counted.                 *)
CountInv ==
  /\ refs <= Cardinality(Present) /\ (on <=> refs > 0)
  /\ on \/ (bars_buffer = Stream!NoBuffer /\ subs = {})
  /\ subs \subseteq Present
  /\ moves = 0 => counted = (IF keys THEN Present ELSE {}) /\ refs = Cardinality(counted)

(* A loop waits on a stream that runs, since the bar that is being built, or *)
(* since the present one if nothing has been built yet.                      *)
WaitInv ==
  \A u \in Loops : at[u] = "wait" =>
    /\ on
    /\ Streamed => bar <= bars_since[u] + 1 /\ (bars_buffer.bar = 0 => bar = bars_since[u])

StreamInv == Stream!StreamAssumption /\ StreamTypes /\ CountInv /\ WaitInv

-----------------------------------------------------------------------------
\* The part counts as this module does.
LEMMA StreamCounts ==
  ASSUME NEW S
  PROVE  (Stream!IsFiniteSet(S) <=> IsFiniteSet(S)) /\ Stream!Cardinality(S) = Cardinality(S)
  BY DEF Stream!IsFiniteSet, IsFiniteSet, Stream!Cardinality, Cardinality

\* The users who are there can be counted.
LEMMA PresentFinite ==
  ASSUME Stream!StreamAssumption
  PROVE  /\ IsFiniteSet(Stream!Users) /\ IsFiniteSet(Present) /\ Cardinality(Present) \in Nat
         /\ Cardinality(Present) <= Cardinality(Stream!Users) /\ Cardinality(Stream!Users) \in Nat
<1>1. IsFiniteSet(Stream!Users)
  <2>1. IsFiniteSet(Charts) /\ IsFiniteSet(Loops) /\ Stream!Users = Charts \cup Loops
    BY StreamCounts DEF Stream!StreamAssumption, Stream!Users
  <2>2. QED
    BY <2>1, FS_Union
<1>2. Present \subseteq Stream!Users
  BY DEF Present
<1>3. QED
  BY <1>1, <1>2, FS_Subset, FS_CardinalityType

\* The stream starts in its invariant.
LEMMA StreamInitInv == Stream!StreamAssumption /\ Stream!Init => StreamInv
<1> SUFFICES ASSUME Stream!StreamAssumption, Stream!Init PROVE StreamInv
  OBVIOUS
<1>1. Present = {} /\ Cardinality({}) = 0
  BY FS_EmptySet DEF Present, Stream!Init
<1>2. StreamTypes
  <2>1. /\ MaxBars \in Nat \ {0} /\ KeyMoves \in Nat /\ Loops \subseteq Stream!Users
    BY DEF Stream!StreamAssumption, Stream!Users
  <2>2. keys \in BOOLEAN /\ on \in BOOLEAN
    BY Zenon DEF Stream!Init
  <2>3. bars_buffer \in [bar : 0..MaxBars, whole : BOOLEAN]
    BY <2>1 DEF Stream!Init, Stream!NoBuffer
  <2>4. QED
    BY <2>1, <2>2, <2>3 DEF Stream!Init, StreamTypes
<1>3. CountInv
  <2>1. refs = 0 /\ ~on /\ counted = {} /\ subs = {} /\ bars_buffer = Stream!NoBuffer
    BY DEF Stream!Init
  <2>2. QED
    BY <1>1, <2>1 DEF CountInv
<1>4. WaitInv
  BY DEF Stream!Init, WaitInv, Stream!Users
<1>5. QED
  BY <1>2, <1>3, <1>4 DEF StreamInv

-----------------------------------------------------------------------------
(* Steps that leave the streams and who is there alone.                      *)

Apart == UNCHANGED <<keys, moves, on, refs, subs, counted>> /\ Present' = Present

\* Where users and stream stay, the count stays right.
LEMMA ApartCounts ==
  ASSUME CountInv, Apart, ~on => bars_buffer' = bars_buffer
  PROVE  CountInv'
<1>1. Cardinality(Present') = Cardinality(Present)
  BY DEF Apart
<1>2. QED
  BY <1>1 DEF Apart, CountInv

\* A user comes: the stream is started for the first.
LEMMA JoinStep ==
  ASSUME StreamInv, NEW u \in Stream!Users, Stream!Join(u)
  PROVE  StreamInv'
<1>a. /\ at[u] = "off" /\ at' = [at EXCEPT ![u] = IF u \in Loops THEN "head" ELSE "on"]
      /\ UNCHANGED <<keys, moves, bar, writing, table, bars_since, woken>>
  BY DEF Stream!Join
<1>b. keys => on' /\ refs' = refs + 1 /\ counted' = counted \cup {u}
  BY DEF Stream!Join, Stream!EnsureStream
<1>c. keys => (on => bars_buffer' = bars_buffer) /\ (~on => bars_buffer' = Stream!NoBuffer)
  BY DEF Stream!Join, Stream!EnsureStream
<1>d. ~keys => UNCHANGED <<on, refs, counted, bars_buffer>>
  BY DEF Stream!Join, Stream!EnsureStream
<1>e. (on' => subs' = subs \cup {u}) /\ (~on' => subs' = subs)
  BY DEF Stream!Join
<1>f. heard' = heard \/ (u \in Loops /\ heard' = [heard EXCEPT ![u] = bar - 1])
  BY DEF Stream!Join
<1>1. /\ Stream!StreamAssumption /\ StreamTypes /\ CountInv /\ WaitInv
      /\ MaxBars \in Nat \ {0} /\ KeyMoves \in Nat
  BY DEF StreamInv, Stream!StreamAssumption
<1>2. u \notin Present /\ Present' = Present \cup {u}
  BY <1>1, <1>a DEF Present, StreamTypes
<1>3. Cardinality(Present') = Cardinality(Present) + 1 /\ Cardinality(Present) \in Nat
  BY <1>1, <1>2, PresentFinite, FS_AddElement
<1>4. StreamTypes'
  <2>1. heard' \in [Loops -> Nat]
    <3>1. heard \in [Loops -> Nat] /\ bar - 1 \in Nat
      BY <1>1 DEF StreamTypes
    <3>2. QED
      BY <1>f, <3>1
  <2>2. keys' \in BOOLEAN /\ moves' \in 0..KeyMoves
    BY <1>1, <1>a DEF StreamTypes
  <2>3. on' \in BOOLEAN
    BY <1>1 DEF StreamTypes, StreamInv, Stream!Join, Stream!EnsureStream
  <2>4. bars_buffer' \in [bar : 0..MaxBars, whole : BOOLEAN]
    <3>1. /\ Stream!NoBuffer \in [bar : 0..MaxBars, whole : BOOLEAN]
          /\ bars_buffer \in [bar : 0..MaxBars, whole : BOOLEAN]
      BY <1>1 DEF StreamTypes, Stream!NoBuffer
    <3>2. QED
      BY <1>c, <1>d, <3>1
  <2>5. refs' \in Nat /\ counted' \subseteq Stream!Users /\ subs' \subseteq Stream!Users
    BY <1>1, <1>b, <1>d, <1>e DEF StreamTypes
  <2>6. at' \in [Stream!Users -> {"off", "on", "head", "wait", "deaf", "woken", "busy"}]
    BY <1>1, <1>a DEF StreamTypes
  <2>7. QED
    BY <1>1, <1>a, <2>1, <2>2, <2>3, <2>4, <2>5, <2>6 DEF StreamTypes
<1>5. CountInv'
  <2>1. CASE keys
    <3>1. refs' <= Cardinality(Present') /\ (on' <=> refs' > 0) /\ on'
      BY <1>1, <1>3, <1>b, <2>1 DEF CountInv, StreamTypes
    <3>2. subs' \subseteq Present'
      BY <1>1, <1>2, <1>e DEF CountInv
    <3>3. moves' = 0 => counted' = Present' /\ refs' = Cardinality(counted') /\ keys'
      BY <1>1, <1>2, <1>3, <1>a, <1>b, <2>1 DEF CountInv
    <3>4. keys'
      BY <1>a, <2>1
    <3>5. moves' = 0 => counted' = (IF keys' THEN Present' ELSE {}) /\ refs' = Cardinality(counted')
      BY <3>3, <3>4
    <3>6. refs' <= Cardinality(Present')
      BY <3>1
    <3>7. QED
      BY <3>1, <3>2, <3>5 DEF CountInv
  <2>2. CASE ~keys
    <3>1. refs' <= Cardinality(Present')
      BY <1>1, <1>3, <1>d, <2>2 DEF CountInv, StreamTypes
    <3>2. on' <=> refs' > 0
      BY <1>1, <1>d, <2>2 DEF CountInv
    <3>3. on' \/ (bars_buffer' = Stream!NoBuffer /\ subs' = {})
      <4>1. on \/ (bars_buffer = Stream!NoBuffer /\ subs = {})
        BY <1>1 DEF CountInv
      <4>2. (on' <=> on) /\ bars_buffer' = bars_buffer /\ (~on' => subs' = subs)
        BY <1>d, <1>e, <2>2
      <4>3. QED
        BY <4>1, <4>2
    <3>4. subs' \subseteq Present'
      BY <1>1, <1>2, <1>e DEF CountInv
    <3>5. moves' = 0 => counted' = (IF keys' THEN Present' ELSE {}) /\ refs' = Cardinality(counted')
      <4>1. ~keys' /\ moves' = moves /\ counted' = counted /\ refs' = refs
        BY <1>a, <1>d, <2>2
      <4>2. moves = 0 => counted = {} /\ refs = Cardinality(counted)
        BY <1>1, <2>2 DEF CountInv
      <4>3. QED
        BY <4>1, <4>2
    <3>6. QED
      BY <3>1, <3>2, <3>3, <3>4, <3>5 DEF CountInv
  <2>3. QED
    BY <2>1, <2>2
<1>6. WaitInv'
  <2> SUFFICES ASSUME NEW v \in Loops, at'[v] = "wait"
      PROVE  on' /\ (Streamed => bar' <= bars_since'[v] + 1 /\ (bars_buffer'.bar = 0 => bar' = bars_since'[v]))
    BY DEF WaitInv
  <2>1. at[v] = "wait"
    BY <1>1, <1>a DEF StreamTypes, Stream!Users
  <2>2. on /\ bars_buffer' = bars_buffer /\ on' /\ bar' = bar /\ bars_since' = bars_since
    BY <1>1, <1>a, <1>b, <1>c, <1>d, <2>1 DEF WaitInv
  <2>3. QED
    BY <1>1, <2>1, <2>2 DEF WaitInv
<1>7. QED
  BY <1>1, <1>4, <1>5, <1>6 DEF StreamInv, Stream!StreamAssumption

\* A user leaves: the stream is stopped after the last.
LEMMA LeaveStep ==
  ASSUME StreamInv, NEW u \in Stream!Users, Stream!Leave(u)
  PROVE  StreamInv'
<1>0. /\ at[u] # "off"
      /\ at' = [v \in Stream!Users |-> IF v = u THEN "off"
                               ELSE IF at[v] = "wait" /\ ~on' THEN "deaf" ELSE at[v]]
      /\ on /\ refs > 0 => refs' = refs - 1
      /\ ~(on /\ refs > 0) => refs' = refs
      /\ (on' <=> on /\ refs > 1) /\ on' \in BOOLEAN
      /\ (on' => bars_buffer' = bars_buffer /\ subs' = subs \ {u})
      /\ (~on' => bars_buffer' = Stream!NoBuffer /\ subs' = {})
      /\ counted' = counted \ {u}
      /\ UNCHANGED <<keys, moves, bar, writing, table, bars_since, woken, heard>>
  BY DEF Stream!Leave, Stream!ReleaseStream, Stream!Unsubscribe
<1>1. /\ Stream!StreamAssumption /\ StreamTypes /\ CountInv /\ WaitInv
      /\ MaxBars \in Nat \ {0} /\ KeyMoves \in Nat
  BY DEF StreamInv, Stream!StreamAssumption
<1>2. u \in Present /\ Present' = Present \ {u}
  BY <1>0, <1>1 DEF Present, StreamTypes
<1>3. /\ Cardinality(Present') = Cardinality(Present) - 1
      /\ Cardinality(Present) \in Nat /\ Cardinality(Present') \in Nat
  BY <1>0, <1>1, <1>2, PresentFinite, FS_RemoveElement, FS_CardinalityType
<1>4. StreamTypes'
  <2>1. at' \in [Stream!Users -> {"off", "on", "head", "wait", "deaf", "woken", "busy"}]
    BY <1>0, <1>1 DEF StreamTypes
  <2>2. keys' \in BOOLEAN /\ moves' \in 0..KeyMoves /\ on' \in BOOLEAN
    BY <1>0, <1>1 DEF StreamTypes
  <2>3. refs' \in Nat
    <3>1. refs \in Nat
      BY <1>1 DEF StreamTypes
    <3>2. QED
      BY <1>0, <3>1
  <2>4. Stream!NoBuffer \in [bar : 0..MaxBars, whole : BOOLEAN]
          /\ bars_buffer \in [bar : 0..MaxBars, whole : BOOLEAN]
    BY <1>1 DEF StreamTypes, Stream!NoBuffer
  <2>5. bars_buffer' \in [bar : 0..MaxBars, whole : BOOLEAN]
    BY <1>0, <2>4
  <2>6. subs' \subseteq Stream!Users /\ counted' \subseteq Stream!Users
    BY <1>0, <1>1 DEF StreamTypes
  <2>7. QED
    BY <1>0, <1>1, <2>1, <2>2, <2>3, <2>5, <2>6 DEF StreamTypes
<1>5. CountInv'
  <2>1. refs' <= Cardinality(Present') /\ (on' <=> refs' > 0)
    BY <1>0, <1>1, <1>3 DEF CountInv, StreamTypes
  <2>2. (on' \/ (bars_buffer' = Stream!NoBuffer /\ subs' = {})) /\ subs' \subseteq Present'
    BY <1>0, <1>1, <1>2 DEF CountInv, StreamTypes
  <2>3. ASSUME moves' = 0
        PROVE  counted' = (IF keys' THEN Present' ELSE {}) /\ refs' = Cardinality(counted')
    <3>1. counted = (IF keys THEN Present ELSE {}) /\ refs = Cardinality(counted)
      BY <1>0, <1>1, <2>3 DEF CountInv
    <3>2. CASE keys
      BY <1>0, <1>1, <1>2, <1>3, <3>1, <3>2 DEF CountInv, StreamTypes
    <3>3. CASE ~keys
      BY <1>0, <1>1, <1>2, <3>1, <3>3, FS_EmptySet DEF CountInv, StreamTypes
    <3>4. QED
      BY <3>2, <3>3
  <2>4. QED
    BY <2>1, <2>2, <2>3 DEF CountInv
<1>6. WaitInv'
  <2> SUFFICES ASSUME NEW v \in Loops, at'[v] = "wait"
      PROVE  on' /\ (Streamed => bar' <= bars_since'[v] + 1 /\ (bars_buffer'.bar = 0 => bar' = bars_since'[v]))
    BY DEF WaitInv
  <2>1. at[v] = "wait" /\ on'
    BY <1>0, <1>1 DEF Stream!Users
  <2>2. bars_buffer' = bars_buffer /\ bar' = bar /\ bars_since' = bars_since
    BY <1>0, <1>1, <2>1
  <2>3. QED
    BY <1>0, <1>1, <2>1, <2>2 DEF WaitInv
<1>7. QED
  BY <1>0, <1>1, <1>4, <1>5, <1>6 DEF StreamInv, Stream!StreamAssumption

\* The first tick of the next bar hands the last one over, and wakes who waits.
LEMMA BarStep ==
  ASSUME StreamInv, Stream!TickOfNextBar
  PROVE  StreamInv'
<1>a. /\ bar < MaxBars /\ bar' = bar + 1
      /\ UNCHANGED <<keys, moves, on, refs, subs, counted, table, bars_since, heard>>
  BY DEF Stream!TickOfNextBar
<1>b. (on => bars_buffer' = [bar |-> bar + 1, whole |-> bars_buffer.bar # 0])
        /\ (~on => bars_buffer' = bars_buffer)
  BY DEF Stream!TickOfNextBar
<1>c. writing' = writing \/ (bars_buffer.bar # 0 /\ writing' = writing \cup {bars_buffer})
  BY DEF Stream!TickOfNextBar, Stream!CommitBar
<1>d. \/ /\ at' = at /\ woken' = woken
         /\ ~on \/ ~Streamed \/ bars_buffer.bar = 0
      \/ /\ at' = [v \in Stream!Users |-> IF at[v] = "wait" THEN "woken" ELSE at[v]]
         /\ woken' = [v \in Loops |-> IF at[v] = "wait" THEN bars_buffer.bar ELSE woken[v]]
  BY DEF Stream!TickOfNextBar, Stream!CommitBar, Stream!Wake
<1>1. /\ Stream!StreamAssumption /\ StreamTypes /\ CountInv /\ WaitInv
      /\ MaxBars \in Nat \ {0} /\ KeyMoves \in Nat
  BY DEF StreamInv, Stream!StreamAssumption
<1>2. /\ at' \in [Stream!Users -> {"off", "on", "head", "wait", "deaf", "woken", "busy"}]
      /\ \A u \in Stream!Users : at'[u] # at[u] => at[u] = "wait" /\ at'[u] = "woken"
  BY <1>1, <1>d DEF StreamTypes
<1>3. Present' = Present
  BY <1>2, <1>1 DEF Present
<1>4. woken' \in [Loops -> 0..MaxBars]
  <2>1. woken \in [Loops -> 0..MaxBars] /\ bars_buffer.bar \in 0..MaxBars
    BY <1>1 DEF StreamTypes
  <2>2. QED
    BY <1>d, <2>1
<1>5. bars_buffer' \in [bar : 0..MaxBars, whole : BOOLEAN]
  <2>1. bar + 1 \in 0..MaxBars /\ (bars_buffer.bar # 0) \in BOOLEAN
    BY <1>1, <1>a DEF StreamTypes
  <2>2. bars_buffer \in [bar : 0..MaxBars, whole : BOOLEAN]
    BY <1>1 DEF StreamTypes
  <2> DEFINE next == [bar |-> bar + 1, whole |-> (bars_buffer.bar # 0)]
  <2>3. next \in [bar : 0..MaxBars, whole : BOOLEAN]
    BY <2>1
  <2>4. bars_buffer' = next \/ bars_buffer' = bars_buffer
    <3>1. CASE on
      BY <1>b, <3>1
    <3>2. CASE ~on
      BY <1>b, <3>2
    <3>3. QED
      BY <3>1, <3>2
  <2> HIDE DEF next
  <2>5. QED
    BY <2>2, <2>3, <2>4
<1>6. writing' \subseteq [bar : 1..MaxBars, whole : BOOLEAN]
  <2>1. bars_buffer.bar # 0 => bars_buffer \in [bar : 1..MaxBars, whole : BOOLEAN]
    BY <1>1 DEF StreamTypes
  <2>2. QED
    BY <1>1, <1>c, <2>1 DEF StreamTypes
<1>7. StreamTypes'
  BY <1>1, <1>a, <1>2, <1>4, <1>5, <1>6 DEF StreamTypes
<1>8. CountInv'
  <2>1. Apart
    BY <1>a, <1>3 DEF Apart
  <2>2. ~on => bars_buffer' = bars_buffer
    BY <1>b
  <2>3. QED
    BY <1>1, <2>1, <2>2, ApartCounts
<1>9. WaitInv'
  <2> SUFFICES ASSUME NEW v \in Loops, at'[v] = "wait"
      PROVE  on' /\ (Streamed => bar' <= bars_since'[v] + 1 /\ (bars_buffer'.bar = 0 => bar' = bars_since'[v]))
    BY DEF WaitInv
  <2>1. at[v] = "wait" /\ on
    BY <1>1, <1>a, <1>2 DEF Stream!Users, WaitInv
  <2>2. bars_buffer'.bar = bar + 1 /\ bar' = bar + 1 /\ bars_since' = bars_since /\ bar \in Nat
    BY <1>1, <1>a, <1>b, <2>1 DEF StreamTypes
  <2>3. Streamed => bars_buffer.bar = 0
    BY <1>1, <1>d, <2>1 DEF StreamTypes, Stream!Users
  <2>4. Streamed => bar = bars_since[v]
    BY <1>1, <1>a, <2>1, <2>3 DEF WaitInv
  <2>5. on'
    BY <1>a, <2>1
  <2>6. QED
    BY <2>2, <2>4, <2>5
<1>10. QED
  BY <1>1, <1>a, <1>7, <1>8, <1>9 DEF StreamInv, Stream!StreamAssumption

\* The other steps: a tick within the bar, the thread, the keys, and the loop.
LEMMA OtherStep ==
  ASSUME StreamInv,
         \/ \E u \in Loops : Stream!Wait(u) \/ Stream!TimeOut(u) \/ Stream!Read(u) \/ Stream!Done(u)
         \/ Stream!MoveKeys \/ Stream!FirstTick \/ \E c \in writing : Stream!Write(c)
         \/ UNCHANGED Stream!vars
  PROVE  StreamInv'
<1>1. /\ Stream!StreamAssumption /\ StreamTypes /\ CountInv /\ WaitInv
      /\ MaxBars \in Nat \ {0} /\ KeyMoves \in Nat
  BY DEF StreamInv, Stream!StreamAssumption
<1>2. ASSUME NEW u \in Loops, Stream!Wait(u) \/ Stream!TimeOut(u) \/ Stream!Read(u) \/ Stream!Done(u)
    PROVE StreamInv'
  <2> USE DEF Stream!Wait, Stream!TimeOut, Stream!Read, Stream!Done, Stream!bars
  <2>1. /\ UNCHANGED <<keys, moves, on, refs, subs, counted, bar, bars_buffer, writing, table, woken>>
        /\ at[u] \in {"head", "deaf", "woken", "busy"}
        /\ \E l \in {"wait", "head", "busy"} :
             /\ at' = [at EXCEPT ![u] = l]
             /\ l = "wait" => on /\ bars_since' = [bars_since EXCEPT ![u] = bar]
             /\ l # "wait" => bars_since' = bars_since
    BY <1>2
  <2>2. heard' \in [Loops -> Nat]
    <3>1. Stream!Latest \in Nat
      <4> DEFINE there == {b \in 1..MaxBars : table[b] # "none"}
      <4>1. CASE there = {}
        BY <4>1 DEF Stream!Latest
      <4>2. ASSUME there # {} PROVE \E b \in there : \A c \in there : c <= b
        BY <1>1, <4>2, Greatest
      <4>3. QED
        BY <4>1, <4>2 DEF Stream!Latest
    <3>2. QED
      BY <1>1, <1>2, <3>1 DEF StreamTypes
  <2>3. /\ at' \in [Stream!Users -> {"off", "on", "head", "wait", "deaf", "woken", "busy"}]
        /\ Present' = Present
    BY <1>1, <2>1 DEF StreamTypes, Present, Stream!Users
  <2>4. bars_since' \in [Loops -> 0..MaxBars]
    BY <1>1, <2>1 DEF StreamTypes
  <2>5. StreamTypes'
    <3>1. keys' \in BOOLEAN /\ on' \in BOOLEAN
      BY <1>1, <2>1, Zenon DEF StreamTypes
    <3>2. QED
      BY <1>1, <2>1, <2>2, <2>3, <2>4, <3>1 DEF StreamTypes
  <2>6. CountInv'
    BY <1>1, <2>1, <2>3, ApartCounts DEF Apart
  <2>7. WaitInv'
    <3> SUFFICES ASSUME NEW v \in Loops, at'[v] = "wait"
        PROVE  on' /\ (Streamed => bar' <= bars_since'[v] + 1
                /\ (bars_buffer'.bar = 0 => bar' = bars_since'[v]))
      BY DEF WaitInv
    <3>1. CASE v = u
      BY <1>1, <2>1, <3>1 DEF StreamTypes, Stream!Users
    <3>2. CASE v # u
      <4>1. at[v] = "wait" /\ bars_since'[v] = bars_since[v]
        BY <1>1, <2>1, <3>2 DEF StreamTypes, Stream!Users
      <4>2. QED
        BY <1>1, <2>1, <4>1 DEF WaitInv
    <3>3. QED
      BY <3>1, <3>2
  <2>8. QED
    BY <1>1, <2>5, <2>6, <2>7 DEF StreamInv, Stream!StreamAssumption
<1>3. CASE Stream!MoveKeys
  <2>1. moves' # 0 /\ moves' \in 0..KeyMoves /\ Present' = Present
    BY <1>1, <1>3 DEF Stream!MoveKeys, StreamTypes, Present, Stream!users
  <2>2. StreamTypes'
    <3>1. keys' \in BOOLEAN /\ on' \in BOOLEAN
      BY <1>1, <1>3, Zenon DEF StreamTypes, Stream!MoveKeys
    <3>2. QED
      BY <1>1, <1>3, <2>1, <3>1 DEF StreamTypes, Stream!MoveKeys, Stream!bars, Stream!users
  <2>3. CountInv'
    BY <1>1, <1>3, <2>1 DEF CountInv, Stream!MoveKeys, Stream!bars, Stream!users
  <2>4. WaitInv'
    BY <1>1, <1>3 DEF WaitInv, Stream!MoveKeys, Stream!bars, Stream!users
  <2>5. QED
    BY <1>1, <2>2, <2>3, <2>4 DEF StreamInv, Stream!StreamAssumption
<1>4. CASE Stream!FirstTick
  <2>1. /\ UNCHANGED <<keys, moves, on, refs, subs, counted, bar, writing, table, at, bars_since, woken, heard>>
        /\ on /\ bars_buffer' = [bar |-> bar, whole |-> FALSE] /\ Present' = Present
    BY <1>4 DEF Stream!FirstTick, Stream!users, Present
  <2>2. bars_buffer'.bar # 0 /\ bars_buffer' \in [bar : 0..MaxBars, whole : BOOLEAN] /\ bar \in Nat
    BY <1>1, <2>1 DEF StreamTypes
  <2>3. StreamTypes'
    <3>1. keys' \in BOOLEAN /\ on' \in BOOLEAN
      BY <1>1, <2>1, Zenon DEF StreamTypes
    <3>2. QED
      BY <1>1, <2>1, <2>2, <3>1 DEF StreamTypes
  <2>4. CountInv'
    BY <1>1, <2>1, ApartCounts DEF Apart
  <2>5. WaitInv'
    BY <1>1, <2>1, <2>2 DEF WaitInv
  <2>6. QED
    BY <1>1, <2>3, <2>4, <2>5 DEF StreamInv, Stream!StreamAssumption
<1>5. ASSUME NEW c \in writing, Stream!Write(c) PROVE StreamInv'
  <2>1. /\ UNCHANGED <<keys, moves, on, refs, subs, counted, bar, bars_buffer, at, bars_since, woken, heard>>
        /\ Present' = Present
    BY <1>5 DEF Stream!Write, Stream!users, Present
  <2>2. table' \in [1..MaxBars -> {"none", "partial", "whole"}]
    BY <1>1, <1>5 DEF StreamTypes, Stream!Write
  <2>3. StreamTypes'
    <3>1. keys' \in BOOLEAN /\ on' \in BOOLEAN
      BY <1>1, <2>1, Zenon DEF StreamTypes
    <3>2. writing' \subseteq writing
      BY <1>5 DEF Stream!Write
    <3>3. QED
      BY <1>1, <2>1, <2>2, <3>1, <3>2 DEF StreamTypes
  <2>4. CountInv'
    BY <1>1, <2>1, ApartCounts DEF Apart
  <2>5. WaitInv'
    BY <1>1, <2>1 DEF WaitInv
  <2>6. QED
    BY <1>1, <2>3, <2>4, <2>5 DEF StreamInv, Stream!StreamAssumption
<1>6. CASE UNCHANGED Stream!vars
  BY <1>1, <1>6
  DEF StreamInv, Stream!StreamAssumption, StreamTypes, CountInv, WaitInv, Stream!vars, Present
<1>7. QED
  BY <1>2, <1>3, <1>4, <1>5, <1>6

\* The stream keeps its invariant.
LEMMA StreamStep == StreamInv /\ [Stream!Next]_Stream!vars => StreamInv'
  BY JoinStep, LeaveStep, BarStep, OtherStep DEF Stream!Next

\* The invariant of the stream says what is promised of it.
LEMMA StreamInvHolds == StreamInv => Stream!TypeOK /\ Stream!RefsAreUsers /\ Stream!FedAreThere
        /\ Stream!WokenEachBar
<1> SUFFICES ASSUME StreamInv
    PROVE Stream!TypeOK /\ Stream!RefsAreUsers /\ Stream!FedAreThere /\ Stream!WokenEachBar
  OBVIOUS
<1>1. /\ Stream!StreamAssumption /\ StreamTypes /\ CountInv /\ WaitInv
  BY DEF StreamInv
<1>2. Stream!TypeOK
  <2>1. refs \in 0..Cardinality(Stream!Users)
    BY <1>1, PresentFinite DEF CountInv, StreamTypes
  <2>2. refs \in 0..Stream!Cardinality(Stream!Users)
    BY <2>1, StreamCounts
  <2>3. ~on => bars_buffer = Stream!NoBuffer /\ subs = {}
    BY <1>1 DEF CountInv
  <2>4. QED
    BY <1>1, <2>2, <2>3 DEF Stream!TypeOK, StreamTypes
<1>3. Stream!RefsAreUsers
  <2>1. SUFFICES ASSUME moves = 0 PROVE refs = Cardinality(counted) /\ on = (counted # {})
    BY StreamCounts DEF Stream!RefsAreUsers
  <2>2. IsFiniteSet(counted) /\ refs = Cardinality(counted) /\ (on <=> refs > 0)
    BY <1>1, <2>1, PresentFinite, FS_EmptySet DEF CountInv
  <2>3. refs = 0 <=> counted = {}
    BY <2>2, FS_EmptySet
  <2>4. QED
    BY <1>1, <2>2, <2>3 DEF StreamTypes
<1>4. Stream!FedAreThere
  BY <1>1 DEF Stream!FedAreThere, CountInv, Present
<1>5. Stream!WokenEachBar
  BY <1>1 DEF Stream!WokenEachBar, WaitInv
<1>6. QED
  BY <1>2, <1>3, <1>4, <1>5

-----------------------------------------------------------------------------
(* The candles.                                                            *)

Candle == [slot : Store!Market, form : {"forming", "final"}]
Sync   == sync["loop"]
Held   == {r.slot : r \in Sync.rows}
Got    == {r.slot : r \in download.rows}
HasNoHole(T) == \A s \in Store!Market : (\E x, y \in T : x < s /\ s < y) => s \in T

StoreTypes ==
  /\ store_page \in Nat \ {0} /\ store_page \in PageSizes
  /\ store_now \in 1..LastSlot /\ store_stops \in 0..StoreStops
  /\ candles \in [1..LastSlot -> {"none", "forming", "final"}]
  /\ sync \in [{"loop"} -> [pc : {"idle", "fetch", "chunk", "insert", "done"},
                            since : 0..LastSlot + 1, rows : SUBSET Candle]]
  /\ download \in [pc : {"none", "fetch", "insert", "completed", "ended"}, at : 0..LastSlot,
                   from : 0..LastSlot, end : 0..LastSlot, rows : SUBSET Candle,
                   failed : BOOLEAN]
  /\ Store!Stored \subseteq Store!Market

(* What is stored and what the loop holds is without a hole, and so is what  *)
(* it goes on from.                                                          *)
JoinInv == download.pc = "none" =>
  /\ HasNoHole(Store!Stored) /\ HasNoHole(Store!Stored \cup Held)
  /\ Sync.pc \in {"fetch", "chunk"} =>
       /\ \A x \in Store!Stored \cup Held : x <= Sync.since
       /\ \A s \in Store!Market : s < Sync.since /\ (\E x \in Store!Stored \cup Held : x < s)
                                    => s \in Store!Stored \cup Held

(* In one page: the loop fetches the newest candle again, so the only one    *)
(* that forms is replaced before a newer one is stored.                      *)
NewestInv == store_page > LastSlot /\ download.pc = "none" =>
  /\ \A x \in Store!Stored : x <= store_now
  /\ Sync.pc # "chunk"
  /\ Sync.pc = "fetch" => /\ Sync.rows = {}
                          /\ Store!Stored # {} => /\ Sync.since \in Store!Stored
                                                  /\ \A x \in Store!Stored : x <= Sync.since
  /\ Sync.pc = "insert" =>
       /\ \A r \in Sync.rows : r.slot <= store_now
       /\ \A r \in Sync.rows : r.form = "forming" => \A q \in Sync.rows : q.slot <= r.slot
       /\ Sync.rows # {} /\ Store!Stored # {} =>
            \E m \in Store!Stored : m \in Held /\ \A x \in Store!Stored : x <= m
  /\ \A s \in Store!Stored : (\E x \in Store!Stored : s < x) => candles[s] = "final"

(* The download has every candle from its start to where it stands.          *)
GotInv ==
  /\ download.pc \in {"fetch", "insert"} => download.end <= store_now
  /\ download.pc = "fetch" =>
       \A s \in Store!Market : download.from <= s /\ s < download.at => s \in Got
  /\ download.pc = "insert" /\ ~download.failed =>
       \A s \in Store!Market : download.from <= s /\ s < download.end => s \in Got
  /\ Store!DownloadWhole

StoreInv == Store!CandleAssumption /\ StoreTypes /\ JoinInv /\ NewestInv /\ GotInv

-----------------------------------------------------------------------------
LEMMA StoreCounts ==
  ASSUME NEW S
  PROVE  /\ Store!Cardinality(S) = Cardinality(S)
         /\ Store!Max(S) = CHOOSE x \in S : \A y \in S : x >= y
  BY DEF Store!Cardinality, Cardinality, Store!Max

\* What the constants of the store are.
LEMMA StoreBounds ==
  ASSUME Store!CandleAssumption
  PROVE  /\ LastSlot \in Nat \ {0} /\ Chunk \in Nat \ {0} /\ ColdStart \in Nat /\ Years \in Nat
         /\ StoreStops \in Nat /\ Store!Market \subseteq 1..LastSlot /\ Store!Market \subseteq Nat
         /\ Store!Slots = 1..LastSlot /\ PageSizes \subseteq Nat \ {0} /\ 1 \in Store!Market
  BY DEF Store!CandleAssumption, Store!Market, Store!Slots

\* A set of slots that is not empty has a newest one, and Max is that one.
LEMMA Newest ==
  ASSUME Store!CandleAssumption, NEW T, T \subseteq 1..LastSlot, T # {}
  PROVE  Store!Max(T) \in T /\ \A x \in T : x <= Store!Max(T)
<1>1. \E x \in T : \A y \in T : y <= x
  BY StoreBounds, Greatest
<1>2. \E x \in T : \A y \in T : x >= y
  BY <1>1, StoreBounds
<1>3. QED
  BY <1>2, StoreCounts, StoreBounds

\* A page: the first candles of the market from a time on; only the present
\* slot forms.
LEMMA PageIs ==
  ASSUME Store!CandleAssumption, StoreTypes, NEW t \in Nat
  PROVE  LET page == Store!Answer(t)
         IN  /\ page \subseteq Candle
             /\ \A r \in page : /\ t <= r.slot /\ r.slot <= store_now
                                /\ (r.form = "forming" <=> r.slot = store_now)
             /\ \A r \in page : \A s \in Store!Market :
                  t <= s /\ s < r.slot => \E q \in page : q.slot = s
             /\ \A s \in Store!Market : t <= s /\ s <= store_now => \E r \in page : r.slot <= s
             /\ \A s \in Store!Market :
                  t <= s /\ s <= store_now /\ (\A y \in Store!Market : t <= y => s <= y)
                    => \E r \in page : r.slot = s
<1> DEFINE page == Store!Answer(t)
           Ahead(s) == {y \in Store!From(t) : y < s}
           In(s) == Cardinality(Ahead(s)) < store_page
<1>1. /\ LastSlot \in Nat /\ Store!Market \subseteq 1..LastSlot /\ store_now \in Nat
      /\ store_page \in Nat \ {0}
  BY StoreBounds DEF StoreTypes
<1>m. \A s \in Store!Market : s \in Nat
  BY <1>1
<1>2. \A s : s \in Store!From(t) <=> s \in Store!Market /\ t <= s /\ s <= store_now
  BY DEF Store!From
<1>3. IsFiniteSet(Store!From(t))
  <2>1. Store!From(t) \in SUBSET (1..LastSlot)
    BY <1>1, <1>2
  <2>2. IsFiniteSet(1..LastSlot)
    BY <1>1, FS_Interval
  <2>3. QED
    BY <2>1, <2>2, FS_Subset
<1>4. \A s : /\ IsFiniteSet(Ahead(s)) /\ Cardinality(Ahead(s)) \in Nat
             /\ \A x : Ahead(x) \subseteq Ahead(s) => Cardinality(Ahead(x)) <= Cardinality(Ahead(s))
  <2> TAKE s
  <2>1. Ahead(s) \in SUBSET Store!From(t)
    OBVIOUS
  <2>2. IsFiniteSet(Ahead(s)) /\ Cardinality(Ahead(s)) \in Nat
    BY <1>3, <2>1, FS_Subset, FS_CardinalityType
  <2>3. ASSUME NEW x, Ahead(x) \subseteq Ahead(s) PROVE Cardinality(Ahead(x)) <= Cardinality(Ahead(s))
    BY <2>2, <2>3, FS_Subset
  <2>4. QED
    BY <2>2, <2>3
<1>5. page = {[slot |-> s, form |-> Store!FormNow(s)] : s \in {x \in Store!From(t) : In(x)}}
  BY StoreCounts DEF Store!Answer
<1>6. \A s \in Store!From(t) : In(s) => \E q \in page : q.slot = s
  <2> SUFFICES ASSUME NEW s \in Store!From(t), In(s) PROVE \E q \in page : q.slot = s
    OBVIOUS
  <2> DEFINE q == [slot |-> s, form |-> Store!FormNow(s)]
  <2>1. q \in page
    <3>1. s \in {x \in Store!From(t) : In(x)}
      OBVIOUS
    <3>2. QED
      BY <1>5, <3>1
  <2>2. q.slot = s
    OBVIOUS
  <2>3. QED
    BY <2>1, <2>2
<1>7. \A r \in page : \E s \in Store!From(t) : In(s) /\ r = [slot |-> s, form |-> Store!FormNow(s)]
  BY <1>5
<1>8. /\ \A s : /\ Cardinality(Ahead(s)) \in Nat
                /\ \A x : Ahead(x) \subseteq Ahead(s) => Cardinality(Ahead(x)) <= Cardinality(Ahead(s))
      /\ \A s : In(s) <=> Cardinality(Ahead(s)) < store_page
      /\ \A s, y : y \in Ahead(s) <=> y \in Store!From(t) /\ y < s
  BY <1>4
<1> HIDE DEF page, Ahead, In
<1>9. ASSUME NEW r \in page
      PROVE  /\ r \in Candle /\ r.slot \in Store!From(t) /\ In(r.slot)
             /\ t <= r.slot /\ r.slot <= store_now /\ (r.form = "forming" <=> r.slot = store_now)
  <2>1. PICK s \in Store!From(t) : In(s) /\ r = [slot |-> s, form |-> Store!FormNow(s)]
    BY <1>7
  <2>2. Store!FormNow(s) \in {"forming", "final"} /\ (Store!FormNow(s) = "forming" <=> s = store_now)
    BY DEF Store!FormNow
  <2>3. s \in Store!Market /\ t <= s /\ s <= store_now
    BY <1>2
  <2>4. QED
    BY <2>1, <2>2, <2>3 DEF Candle
<1>10. ASSUME NEW r \in page, NEW s \in Store!Market, t <= s, s < r.slot
       PROVE  \E q \in page : q.slot = s
  <2>1. r.slot \in Store!Market /\ r.slot <= store_now /\ In(r.slot)
    BY <1>2, <1>9
  <2>2. s \in Store!From(t)
    <3>1. s \in Nat /\ r.slot \in Nat
      BY <1>m, <2>1
    <3>2. s <= store_now
      BY <1>1, <1>10, <2>1, <3>1
    <3>3. QED
      BY <1>2, <1>10, <3>2
  <2>3. Ahead(s) \subseteq Ahead(r.slot)
    <3> SUFFICES ASSUME NEW y \in Store!From(t), y < s PROVE y < r.slot
      BY <1>8
    <3>1. y \in Nat /\ s \in Nat /\ r.slot \in Nat
      BY <1>2, <1>m, <2>1
    <3>2. QED
      BY <1>10, <3>1
  <2>4. In(s)
    BY <1>1, <1>8, <2>1, <2>3
  <2>5. QED
    BY <1>6, <2>2, <2>4
<1>11. ASSUME NEW s \in Store!Market, t <= s, s <= store_now,
              \A y \in Store!Market : t <= y => s <= y
       PROVE  \E r \in page : r.slot = s
  <2>1. s \in Store!From(t)
    BY <1>2, <1>11
  <2>2. Ahead(s) = {}
    <3> SUFFICES ASSUME NEW y \in Ahead(s) PROVE FALSE
      OBVIOUS
    <3>1. y \in Store!Market /\ t <= y /\ y < s
      BY <1>2, <1>8
    <3>2. y \in Nat /\ s \in Nat /\ s <= y
      BY <1>m, <1>11, <3>1
    <3>3. QED
      BY <3>1, <3>2
  <2>3. In(s)
    <3>1. Cardinality(Ahead(s)) = 0
      BY <2>2, FS_EmptySet
    <3>2. QED
      BY <1>1, <1>8, <3>1
  <2>4. QED
    BY <1>6, <2>1, <2>3
<1>12. ASSUME NEW s \in Store!Market, t <= s, s <= store_now
       PROVE  \E r \in page : r.slot <= s
  <2> DEFINE Later == {y \in Store!Market : t <= y}
  <2>1. PICK f \in Later : \A y \in Later : f <= y
    <3>1. Later \subseteq Nat
      BY <1>m
    <3>2. Later # {}
      BY <1>12
    <3>3. QED
      BY <3>1, <3>2, Least
  <2>2. f \in Store!Market /\ t <= f /\ f <= s /\ f \in Nat /\ s \in Nat
    BY <1>m, <1>12, <2>1
  <2>3. f <= store_now
    BY <1>1, <1>12, <2>2
  <2>4. \E r \in page : r.slot = f
    BY <1>11, <2>1, <2>2, <2>3
  <2>5. QED
    BY <2>2, <2>4
<1>13. page \subseteq Candle
  BY <1>9
<1>14. QED
  BY <1>9, <1>10, <1>11, <1>12, <1>13 DEF page

\* The last row of a page is its newest.
LEMMA LastIs ==
  ASSUME Store!CandleAssumption, NEW R, R \subseteq Candle, R # {}
  PROVE  Store!Last(R) \in R /\ \A r \in R : r.slot <= Store!Last(R).slot
<1> DEFINE T == {r.slot : r \in R}
<1>1. T \subseteq 1..LastSlot /\ T # {}
  BY StoreBounds DEF Candle
<1>2. \E x \in T : \A y \in T : y <= x
  BY <1>1, StoreBounds, Greatest
<1>3. \E r \in R : \A q \in R : q.slot <= r.slot
  BY <1>2
<1>4. QED
  BY <1>3 DEF Store!Last

\* What is inserted is stored, and what was stored remains.
LEMMA InsertStores ==
  ASSUME Store!CandleAssumption, StoreTypes, NEW R, R \subseteq Candle, candles' = Store!Insert(R)
  PROVE  /\ candles' \in [1..LastSlot -> {"none", "forming", "final"}]
         /\ Store!Stored' = Store!Stored \cup {r.slot : r \in R}
         /\ \A s \in 1..LastSlot : \/ \E r \in R : r.slot = s /\ candles'[s] = r.form
                                   \/ (\A r \in R : r.slot # s) /\ candles'[s] = candles[s]
<1>1. LastSlot \in Nat /\ Store!Market \subseteq 1..LastSlot /\ Store!Slots = 1..LastSlot
  BY StoreBounds
<1>2. candles \in [1..LastSlot -> {"none", "forming", "final"}]
  BY DEF StoreTypes
<1>3. candles' = [s \in 1..LastSlot |-> IF \E r \in R : r.slot = s
                                          THEN (CHOOSE r \in R : r.slot = s).form ELSE candles[s]]
  BY <1>1 DEF Store!Insert
<1>4. \A s \in 1..LastSlot : \/ \E r \in R : r.slot = s /\ candles'[s] = r.form
                             \/ (\A r \in R : r.slot # s) /\ candles'[s] = candles[s]
  BY <1>3
<1>5. \A r \in R : r.form \in {"forming", "final"} /\ r.slot \in 1..LastSlot
  BY <1>1 DEF Candle
<1>6. candles' \in [1..LastSlot -> {"none", "forming", "final"}]
  BY <1>2, <1>3, <1>4, <1>5
<1>7. Store!Stored' = Store!Stored \cup {r.slot : r \in R}
  <2>1. Store!Stored = {s \in 1..LastSlot : candles[s] # "none"}
    BY <1>1 DEF Store!Stored
  <2>2. Store!Stored' = {s \in 1..LastSlot : candles'[s] # "none"}
    BY <1>1 DEF Store!Stored
  <2>3. QED
    BY <1>4, <1>5, <2>1, <2>2
<1>8. QED
  BY <1>4, <1>6, <1>7

\* A page cannot have more candles than there are slots.
LEMMA PageIsShort ==
  ASSUME Store!CandleAssumption, NEW t \in Nat
  PROVE  Store!Cardinality(Store!Answer(t)) <= LastSlot /\ Store!Cardinality(Store!Answer(t)) \in Nat
<1> DEFINE S == {x \in Store!From(t) : Store!Cardinality({y \in Store!From(t) : y < x}) < store_page}
           T == Store!Answer(t)
           f == [s \in S |-> [slot |-> s, form |-> Store!FormNow(s)]]
<1>1. IsFiniteSet(S) /\ Cardinality(S) <= LastSlot /\ Cardinality(S) \in Nat
  <2>1. S \in SUBSET (1..LastSlot) /\ LastSlot \in Nat
    BY StoreBounds DEF Store!From
  <2>2. IsFiniteSet(1..LastSlot) /\ Cardinality(1..LastSlot) = LastSlot
    <3>1. LastSlot \in Nat \ {0}
      BY StoreBounds
    <3>2. QED
      BY <3>1, FS_Interval
  <2>3. QED
    BY <2>1, <2>2, FS_Subset, FS_CardinalityType
<1>2. T = {[slot |-> s, form |-> Store!FormNow(s)] : s \in S}
  BY DEF Store!Answer
<1>3. f \in Surjection(S, T)
  <2>1. f \in [S -> T]
    BY <1>2
  <2>2. \A r \in T : \E s \in S : f[s] = r
    BY <1>2
  <2>3. QED
    BY <2>1, <2>2 DEF Surjection
<1>4. IsFiniteSet(T) /\ Cardinality(T) <= Cardinality(S)
  <2> HIDE DEF S, T, f
  <2>1. QED
    BY <1>1, <1>3, FS_Surjection
<1>5. Cardinality(T) \in Nat
  <2> HIDE DEF S, T, f
  <2>1. QED
    BY <1>4, FS_CardinalityType
<1>6. Cardinality(T) <= LastSlot
  <2> HIDE DEF S, T, f
  <2>1. LastSlot \in Nat
    BY StoreBounds
  <2>2. QED
    BY <1>1, <1>4, <1>5, <2>1
<1>7. QED
  BY <1>5, <1>6, StoreCounts

\* The candles start in their invariant.
LEMMA StoreInitInv == Store!CandleAssumption /\ Store!Init => StoreInv
<1> SUFFICES ASSUME Store!CandleAssumption, Store!Init PROVE StoreInv
  OBVIOUS
<1>1. LastSlot \in Nat \ {0} /\ Store!Slots = 1..LastSlot /\ StoreStops \in Nat /\ PageSizes \subseteq Nat \ {0}
  BY StoreBounds
<1>2. Store!Stored = {} /\ Held = {} /\ Sync.pc = "idle" /\ download.pc = "none"
  BY DEF Store!Init, Store!Stored, Held, Sync, Store!Idle
<1>3. StoreTypes
  <2>1. sync \in [{"loop"} -> [pc : {"idle", "fetch", "chunk", "insert", "done"},
                               since : 0..LastSlot + 1, rows : SUBSET Candle]]
    BY <1>1 DEF Store!Init, Store!Idle
  <2>2. download \in [pc : {"none", "fetch", "insert", "completed", "ended"}, at : 0..LastSlot,
                      from : 0..LastSlot, end : 0..LastSlot, rows : SUBSET Candle, failed : BOOLEAN]
    BY <1>1 DEF Store!Init
  <2>3. candles \in [1..LastSlot -> {"none", "forming", "final"}]
    BY <1>1 DEF Store!Init
  <2>4. QED
    BY <1>1, <1>2, <2>1, <2>2, <2>3 DEF StoreTypes, Store!Init
<1>4. QED
  BY <1>2, <1>3 DEF StoreInv, JoinInv, NewestInv, GotInv, HasNoHole, Store!DownloadWhole

-----------------------------------------------------------------------------
(* The parts of the types that one kind of step leaves alone.                *)

SyncTypes     == sync \in [{"loop"} -> [pc : {"idle", "fetch", "chunk", "insert", "done"},
                                        since : 0..LastSlot + 1, rows : SUBSET Candle]]
DownloadTypes == download \in [pc : {"none", "fetch", "insert", "completed", "ended"},
                               at : 0..LastSlot, from : 0..LastSlot, end : 0..LastSlot,
                               rows : SUBSET Candle, failed : BOOLEAN]

\* What the invariant says of the state, in small facts.
LEMMA Facts ==
  ASSUME StoreInv
  PROVE  /\ Store!CandleAssumption /\ StoreTypes /\ JoinInv /\ NewestInv /\ GotInv
         /\ LastSlot \in Nat \ {0} /\ Store!Market \subseteq 1..LastSlot /\ Store!Slots = 1..LastSlot
         /\ ColdStart \in Nat /\ Years \in Nat /\ StoreStops \in Nat
         /\ store_now \in 1..LastSlot /\ store_now \in Nat /\ store_page \in Nat
         /\ \A s \in Store!Market : s \in Nat
         /\ Store!Stored \subseteq Store!Market /\ Held \subseteq Store!Market /\ Got \subseteq Store!Market
         /\ Sync.pc \in {"idle", "fetch", "chunk", "insert", "done"} /\ Sync.since \in 0..LastSlot + 1
         /\ Sync.since \in Nat /\ Sync.rows \subseteq Candle
         /\ download.rows \subseteq Candle /\ SyncTypes /\ DownloadTypes
<1>1. Store!CandleAssumption /\ StoreTypes /\ JoinInv /\ NewestInv /\ GotInv
  BY DEF StoreInv
<1>2. /\ LastSlot \in Nat \ {0} /\ Store!Market \subseteq 1..LastSlot /\ Store!Slots = 1..LastSlot
      /\ ColdStart \in Nat /\ Years \in Nat /\ StoreStops \in Nat
  BY <1>1, StoreBounds
<1>3. store_now \in 1..LastSlot /\ store_now \in Nat /\ store_page \in Nat
        /\ Store!Stored \subseteq Store!Market
  BY <1>1, <1>2 DEF StoreTypes
<1>4. SyncTypes /\ DownloadTypes
  BY <1>1 DEF StoreTypes, SyncTypes, DownloadTypes
<1>5. /\ Sync.pc \in {"idle", "fetch", "chunk", "insert", "done"} /\ Sync.since \in 0..LastSlot + 1
      /\ Sync.rows \subseteq Candle
  BY <1>4 DEF SyncTypes, Sync
<1>6. Sync.since \in Nat
  BY <1>2, <1>5
<1>7. download.rows \subseteq Candle
  BY <1>4 DEF DownloadTypes
<1>8. Held \subseteq Store!Market /\ Got \subseteq Store!Market
  BY <1>5, <1>7 DEF Held, Got, Candle
<1>9. QED
  BY <1>1, <1>2, <1>3, <1>4, <1>5, <1>6, <1>7, <1>8

\* Types again, from those of what changed.
LEMMA TypesAgain ==
  ASSUME StoreInv, SyncTypes', DownloadTypes', store_page' = store_page,
         store_now' \in 1..LastSlot, store_stops' \in 0..StoreStops,
         candles' \in [1..LastSlot -> {"none", "forming", "final"}],
         Store!Stored' \subseteq Store!Market
  PROVE  StoreTypes'
<1>1. store_page' \in Nat \ {0} /\ store_page' \in PageSizes
  BY DEF StoreInv, StoreTypes
<1>2. Store!Market' = Store!Market /\ Candle' = Candle
  BY DEF Store!Market, Candle, Store!Slots
<1>3. QED
  BY <1>1, <1>2 DEF StoreTypes, SyncTypes, DownloadTypes

\* What is stored depends on the candles only.
LEMMA StoredStays ==
  ASSUME candles' = candles
  PROVE  Store!Stored' = Store!Stored
  BY DEF Store!Stored, Store!Slots

\* A step that leaves the download alone, and loses nothing that is stored.
LEMMA GotStays ==
  ASSUME StoreInv, download' = download, store_now' \in Nat, store_now' >= store_now,
         Store!Stored \subseteq Store!Stored'
  PROVE  GotInv'
<1>1. Got' = Got /\ Store!Market' = Store!Market
  BY DEF Got, Store!Market, Store!Slots
<1>2. download.pc \in {"fetch", "insert"} => download.end <= store_now'
  <2>1. download.end \in Nat /\ store_now \in Nat
    BY Facts DEF DownloadTypes
  <2>2. download.pc \in {"fetch", "insert"} => download.end <= store_now
    BY DEF StoreInv, GotInv
  <2>3. QED
    BY <2>1, <2>2
<1>3. Store!DownloadWhole'
  BY <1>1 DEF StoreInv, GotInv, Store!DownloadWhole
<1>4. QED
  BY <1>1, <1>2, <1>3 DEF StoreInv, GotInv

-----------------------------------------------------------------------------
(* The steps.                                                                *)

\* Time passes: a slot forms and the one before is over.
LEMMA TickStep == ASSUME StoreInv, Store!Tick PROVE StoreInv'
<1>1. /\ store_now' = store_now + 1 /\ store_now < LastSlot /\ candles' = candles
      /\ UNCHANGED <<store_page, sync, download, store_stops>>
  BY DEF Store!Tick
<1>2. Store!Stored' = Store!Stored /\ Store!Market' = Store!Market /\ Sync' = Sync /\ Held' = Held
  BY <1>1, StoredStays DEF Store!Market, Store!Slots, Sync, Held
<1>3. store_now' \in 1..LastSlot /\ store_now' >= store_now /\ store_now' \in Nat
  BY <1>1, Facts
<1>4. StoreTypes'
  <2>1. SyncTypes' /\ DownloadTypes' /\ Store!Stored' \subseteq Store!Market
    BY <1>1, <1>2, Facts DEF SyncTypes, DownloadTypes, Candle, Store!Market, Store!Slots
  <2>2. store_stops' \in 0..StoreStops /\ candles' \in [1..LastSlot -> {"none", "forming", "final"}]
    BY <1>1 DEF StoreInv, StoreTypes
  <2>3. QED
    BY <1>1, <1>3, <2>1, <2>2, TypesAgain
<1>5. JoinInv'
  BY <1>1, <1>2, Facts DEF JoinInv, HasNoHole
<1>6. NewestInv'
  <2> SUFFICES ASSUME store_page > LastSlot, download.pc = "none" PROVE NewestInv'
    BY <1>1 DEF NewestInv
  <2>1. \A x \in Store!Stored : x <= store_now'
    BY <1>1, <1>3, Facts DEF NewestInv
  <2>2. Sync.pc = "insert" => \A r \in Sync.rows : r.slot <= store_now'
    <3> SUFFICES ASSUME Sync.pc = "insert", NEW r \in Sync.rows PROVE r.slot <= store_now'
      OBVIOUS
    <3>1. r.slot <= store_now
      BY Facts DEF NewestInv
    <3>2. r.slot \in Nat
      BY Facts DEF Candle
    <3>3. QED
      BY <1>1, <3>1, <3>2, Facts
  <2>3. QED
    BY <1>1, <1>2, <2>1, <2>2, Facts DEF NewestInv
<1>7. GotInv'
  BY <1>1, <1>2, <1>3, GotStays
<1>8. QED
  BY <1>4, <1>5, <1>6, <1>7 DEF StoreInv, Store!CandleAssumption, Store!Slots

\* The loop ends or begins again, or a restart ends it and the download.
LEMMA IdleStep ==
  ASSUME StoreInv, candles' = candles, UNCHANGED <<store_page, store_now>>,
         Sync'.pc \in {"idle", "done"}, Sync'.rows = {}, SyncTypes',
         store_stops' \in 0..StoreStops,
         \/ download' = download
         \/ download' = [download EXCEPT !.pc = IF @ = "none" THEN @ ELSE "ended"]
  PROVE  StoreInv'
<1>1. Store!Stored' = Store!Stored /\ Store!Market' = Store!Market /\ Held' = {} /\ Got' = Got
  <2>1. download'.rows = download.rows
    BY Facts DEF DownloadTypes
  <2>2. QED
    BY <2>1, StoredStays DEF Store!Market, Store!Slots, Held, Got
<1>2. StoreTypes'
  <2>1. DownloadTypes' /\ Store!Stored' \subseteq Store!Market
    BY <1>1, Facts DEF DownloadTypes, Candle, Store!Market, Store!Slots
  <2>2. candles' \in [1..LastSlot -> {"none", "forming", "final"}] /\ store_now' \in 1..LastSlot
    BY Facts DEF StoreTypes
  <2>3. QED
    BY <2>1, <2>2, TypesAgain
<1>3. download'.pc = "none" => download.pc = "none"
  BY Facts DEF DownloadTypes
<1>4. JoinInv'
  BY <1>1, <1>3, Facts DEF JoinInv, HasNoHole
<1>5. NewestInv'
  BY <1>1, <1>3, Facts DEF NewestInv
<1>6. GotInv'
  <2>1. CASE download' = download
    BY <1>1, <2>1, Facts, GotStays
  <2>2. CASE download.pc = "none" /\ download' = [download EXCEPT !.pc = IF @ = "none" THEN @ ELSE "ended"]
    <3>1. download'.pc = "none"
      BY <2>2, Facts DEF DownloadTypes
    <3>2. QED
      BY <3>1 DEF GotInv, Store!DownloadWhole
  <2>3. CASE download.pc # "none" /\ download' = [download EXCEPT !.pc = IF @ = "none" THEN @ ELSE "ended"]
    <3>1. download'.pc = "ended"
      BY <2>3, Facts DEF DownloadTypes
    <3>2. QED
      BY <3>1 DEF GotInv, Store!DownloadWhole
  <2>4. QED
    BY <2>1, <2>2, <2>3
<1>7. QED
  BY <1>2, <1>4, <1>5, <1>6 DEF StoreInv, Store!CandleAssumption, Store!Slots

\* A restart of the server, or the loop begins again.
LEMMA RestartOrAgain == ASSUME StoreInv, Store!Restart \/ Store!Again("loop") PROVE StoreInv'
<1>1. /\ candles' = candles /\ UNCHANGED <<store_page, store_now>>
      /\ Sync' = Store!Idle
      /\ sync' = [x \in {"loop"} |-> Store!Idle]
      /\ \/ download' = download
         \/ download' = [download EXCEPT !.pc = IF @ = "none" THEN @ ELSE "ended"]
  <2>1. sync \in [{"loop"} -> [pc : {"idle", "fetch", "chunk", "insert", "done"},
                               since : 0..LastSlot + 1, rows : SUBSET Candle]]
    BY Facts DEF SyncTypes
  <2>2. QED
    BY <2>1 DEF Store!Restart, Store!Again, Sync
<1>2. SyncTypes' /\ Sync'.pc \in {"idle", "done"} /\ Sync'.rows = {}
  BY <1>1, Facts DEF SyncTypes, Store!Idle, Candle
<1>3. store_stops' \in 0..StoreStops
  BY Facts DEF Store!Restart, Store!Again, StoreTypes
<1>4. QED
  BY <1>1, <1>2, <1>3, IdleStep

\* The loop asks from the newest candle on, or from the cold start.
LEMMA StartStep == ASSUME StoreInv, Store!Start("loop") PROVE StoreInv'
<1>1. /\ UNCHANGED <<store_page, store_now, candles, download, store_stops>>
      /\ \/ Sync' = [Store!Idle EXCEPT !.pc = "done"]
         \/ Sync' = [pc |-> "fetch", since |-> Store!Since, rows |-> {}]
      /\ sync' = [x \in {"loop"} |-> Sync']
  <2>1. sync \in [{"loop"} -> [pc : {"idle", "fetch", "chunk", "insert", "done"},
                               since : 0..LastSlot + 1, rows : SUBSET Candle]]
    BY Facts DEF SyncTypes
  <2>2. QED
    BY <2>1 DEF Store!Start, Sync
<1>2. /\ Store!Since \in 0..LastSlot
      /\ Store!Stored # {} => Store!Since \in Store!Stored /\ \A x \in Store!Stored : x <= Store!Since
  <2>1. CASE Store!Stored = {}
    BY <2>1, Facts DEF Store!Since
  <2>2. CASE Store!Stored # {}
    <3>1. Store!Since = Store!Max(Store!Stored)
      BY <2>2 DEF Store!Since
    <3>2. Store!Since \in Store!Stored /\ \A x \in Store!Stored : x <= Store!Since
      BY <2>2, <3>1, Facts, Newest
    <3>3. QED
      BY <2>2, <3>2, Facts
  <2>3. QED
    BY <2>1, <2>2
<1>3. SyncTypes'
  <2>1. Sync' \in [pc : {"idle", "fetch", "chunk", "insert", "done"}, since : 0..LastSlot + 1, rows : SUBSET Candle]
    BY <1>1, <1>2, Facts DEF Store!Idle
  <2>2. QED
    BY <1>1, <2>1 DEF SyncTypes, Candle, Store!Market, Store!Slots
<1>4. CASE Sync' = [Store!Idle EXCEPT !.pc = "done"]
  <2>1. Sync'.pc \in {"idle", "done"} /\ Sync'.rows = {}
    BY <1>4 DEF Store!Idle
  <2>2. store_stops' \in 0..StoreStops
    BY <1>1 DEF StoreInv, StoreTypes
  <2>3. QED
    BY <1>1, <1>3, <2>1, <2>2, IdleStep
<1>5. CASE Sync' = [pc |-> "fetch", since |-> Store!Since, rows |-> {}]
  <2>1. /\ Store!Stored' = Store!Stored /\ Store!Market' = Store!Market /\ Held' = {}
        /\ Sync'.pc = "fetch" /\ Sync'.since = Store!Since /\ Sync'.rows = {}
    BY <1>1, <1>5, StoredStays DEF Store!Market, Store!Slots, Held
  <2>2. StoreTypes'
    <3>1. /\ DownloadTypes' /\ store_stops' \in 0..StoreStops
          /\ candles' \in [1..LastSlot -> {"none", "forming", "final"}] /\ store_now' \in 1..LastSlot
      BY <1>1, Facts DEF DownloadTypes, StoreTypes, Candle, Store!Market, Store!Slots
    <3>2. QED
      BY <1>1, <1>3, <2>1, <3>1, Facts, TypesAgain
  <2>3. JoinInv'
    <3> SUFFICES ASSUME download.pc = "none" PROVE JoinInv'
      BY <1>1 DEF JoinInv
    <3>1. HasNoHole(Store!Stored)
      BY Facts DEF JoinInv
    <3>2. \A s \in Store!Market : s < Store!Since /\ (\E x \in Store!Stored : x < s) => s \in Store!Stored
      BY <1>2, <3>1 DEF HasNoHole
    <3>3. \A x \in Store!Stored : x <= Store!Since
      BY <1>2
    <3>4. QED
      BY <2>1, <3>1, <3>2, <3>3 DEF JoinInv, HasNoHole
  <2>4. NewestInv'
    BY <1>1, <1>2, <2>1, Facts DEF NewestInv
  <2>5. GotInv'
    BY <1>1, <2>1, Facts, GotStays
  <2>6. QED
    BY <2>2, <2>3, <2>4, <2>5 DEF StoreInv, Store!CandleAssumption, Store!Slots
<1>6. QED
  BY <1>1, <1>4, <1>5

\* A page is answered: the rows after those the loop has.
LEMMA FetchStep == ASSUME StoreInv, Store!Fetch("loop") PROVE StoreInv'
<1> DEFINE page == Store!Answer(Sync.since)
           P    == {r.slot : r \in page}
           U    == Store!Stored \cup Held
<1>1. /\ UNCHANGED <<store_page, store_now, candles, download, store_stops>>
      /\ Sync.pc = "fetch"
      /\ sync' = [x \in {"loop"} |-> Sync']
      /\ Sync'.rows = Sync.rows \cup page
      /\ Sync'.pc \in {"fetch", "chunk", "insert"}
      /\ Sync'.pc # "insert" => page # {} /\ Store!Cardinality(page) = store_page
      /\ page = {} => Sync'.since = Sync.since
      /\ page # {} => Sync'.since = Store!Last(page).slot + 1
      /\ Sync' \in [pc : {"fetch", "chunk", "insert"}, since : {Sync.since, Store!Last(page).slot + 1},
                   rows : {Sync.rows \cup page}]
  <2>1. sync \in [{"loop"} -> [pc : {"idle", "fetch", "chunk", "insert", "done"},
                               since : 0..LastSlot + 1, rows : SUBSET Candle]]
    BY Facts DEF SyncTypes
  <2>2. QED
    BY <2>1 DEF Store!Fetch, Sync
<1>2. /\ page \subseteq Candle
      /\ \A r \in page : /\ Sync.since <= r.slot /\ r.slot <= store_now
                         /\ (r.form = "forming" <=> r.slot = store_now)
      /\ \A r \in page : \A s \in Store!Market :
           Sync.since <= s /\ s < r.slot => \E q \in page : q.slot = s
      /\ \A s \in Store!Market :
           Sync.since <= s /\ s <= store_now /\ (\A y \in Store!Market : Sync.since <= y => s <= y)
             => \E r \in page : r.slot = s
  <2>1. Store!CandleAssumption /\ StoreTypes /\ Sync.since \in Nat
    BY Facts
  <2>2. QED
    BY <2>1, PageIs
<1>3. /\ P \subseteq Store!Market /\ U \subseteq Store!Market /\ Held' = Held \cup P
      /\ \A x \in P : Sync.since <= x /\ x <= store_now
      /\ \A y \in P : \A s \in Store!Market : Sync.since <= s /\ s < y => s \in P
      /\ \A s \in Store!Market : s \in Nat
  <2>1. P \subseteq Store!Market
    BY <1>2 DEF Candle
  <2>2. Held' = Held \cup P
    BY <1>1 DEF Held
  <2>3. U \subseteq Store!Market /\ \A s \in Store!Market : s \in Nat
    BY Facts
  <2>4. \A x \in P : Sync.since <= x /\ x <= store_now
    BY <1>2
  <2>5. \A y \in P : \A s \in Store!Market : Sync.since <= s /\ s < y => s \in P
    BY <1>2
  <2>6. QED
    BY <2>1, <2>2, <2>3, <2>4, <2>5
<1>4. page # {} => /\ Store!Last(page).slot \in P /\ Store!Last(page).slot \in 1..LastSlot
                   /\ \A x \in P : x <= Store!Last(page).slot
  <2> SUFFICES ASSUME page # {}
      PROVE  /\ Store!Last(page).slot \in P /\ Store!Last(page).slot \in 1..LastSlot
             /\ \A x \in P : x <= Store!Last(page).slot
    OBVIOUS
  <2>1. Store!Last(page) \in page /\ \A r \in page : r.slot <= Store!Last(page).slot
    BY <1>2, Facts, LastIs
  <2>2. QED
    BY <1>3, <2>1, Facts
<1>5. /\ Store!Stored' = Store!Stored /\ Store!Market' = Store!Market
  BY <1>1, StoredStays DEF Store!Market, Store!Slots
<1> HIDE DEF page, P
<1>6. StoreTypes'
  <2>1. Sync'.since \in 0..LastSlot + 1
    BY <1>1, <1>4, Facts
  <2>2. Sync' \in [pc : {"idle", "fetch", "chunk", "insert", "done"}, since : 0..LastSlot + 1, rows : SUBSET Candle]
    <3>1. Sync.rows \cup page \subseteq Candle
      BY <1>2, Facts
    <3>2. Sync' = [pc |-> Sync'.pc, since |-> Sync'.since, rows |-> Sync.rows \cup page]
      BY <1>1
    <3>3. Sync'.pc \in {"idle", "fetch", "chunk", "insert", "done"}
      BY <1>1
    <3>4. QED
      BY <2>1, <3>1, <3>2, <3>3
  <2>3. SyncTypes'
    BY <1>1, <2>2 DEF SyncTypes, Candle, Store!Market, Store!Slots
  <2>4. /\ DownloadTypes' /\ store_stops' \in 0..StoreStops
        /\ candles' \in [1..LastSlot -> {"none", "forming", "final"}] /\ store_now' \in 1..LastSlot
    BY <1>1, Facts DEF DownloadTypes, StoreTypes, Candle, Store!Market, Store!Slots
  <2>5. QED
    BY <1>1, <1>5, <2>3, <2>4, Facts, TypesAgain
<1>7. JoinInv'
  <2> SUFFICES ASSUME download.pc = "none" PROVE JoinInv'
    BY <1>1 DEF JoinInv
  <2>1. /\ HasNoHole(Store!Stored) /\ HasNoHole(U) /\ \A x \in U : x <= Sync.since
        /\ \A s \in Store!Market : s < Sync.since /\ (\E x \in U : x < s) => s \in U
    BY <1>1, Facts DEF JoinInv
  <2>2. HasNoHole(U \cup P)
    <3> SUFFICES ASSUME NEW s \in Store!Market, NEW x \in U \cup P, NEW y \in U \cup P, x < s, s < y
        PROVE  s \in U \cup P
      BY DEF HasNoHole
    <3>1. s \in Nat /\ x \in Nat /\ y \in Nat /\ Sync.since \in Nat
      BY <1>3, Facts
    <3>2. CASE s < Sync.since
      <4>1. x \in U
        BY <1>3, <3>1, <3>2
      <4>2. QED
        BY <2>1, <3>2, <4>1
    <3>3. CASE Sync.since <= s
      <4>1. y \in P
        BY <2>1, <3>1, <3>3
      <4>2. QED
        BY <1>3, <3>3, <4>1
    <3>4. QED
      BY <3>1, <3>2, <3>3
  <2>3. Store!Stored' \cup Held' = U \cup P
    BY <1>3, <1>5
  <2>4. ASSUME page # {}
        PROVE  /\ \A x \in U \cup P : x <= Sync'.since
               /\ \A s \in Store!Market : s < Sync'.since /\ (\E x \in U \cup P : x < s) => s \in U \cup P
    <3> DEFINE l == Store!Last(page).slot
    <3>1. l \in P /\ l \in Nat /\ (\A x \in P : x <= l) /\ Sync'.since = l + 1 /\ Sync.since <= l
      BY <1>1, <1>3, <1>4, <2>4, Facts
    <3> HIDE DEF l
    <3>2. ASSUME NEW x \in U \cup P PROVE x <= Sync'.since
      <4>1. x \in Nat /\ Sync.since \in Nat
        BY <1>3, Facts
      <4>2. CASE x \in U
        <5>1. x <= Sync.since
          BY <2>1, <4>2
        <5>2. QED
          BY <3>1, <4>1, <5>1
      <4>3. CASE x \in P
        BY <3>1, <4>1, <4>3
      <4>4. QED
        BY <4>2, <4>3
    <3>3. ASSUME NEW s \in Store!Market, s < Sync'.since, NEW x \in U \cup P, x < s PROVE s \in U \cup P
      <4>1. s \in Nat
        BY <1>3
      <4>2. s = l \/ s < l
        BY <3>1, <3>3, <4>1
      <4>3. QED
        BY <2>2, <3>1, <3>3, <4>2 DEF HasNoHole
    <3>4. QED
      BY <3>2, <3>3
  <2>5. Sync'.pc \in {"fetch", "chunk"} => page # {}
    BY <1>1
  <2>6. HasNoHole(Store!Stored') /\ HasNoHole(Store!Stored' \cup Held')
    BY <1>5, <2>1, <2>2, <2>3
  <2>7. HasNoHole(Store!Stored)' /\ HasNoHole(Store!Stored \cup Held)'
    BY <1>5, <2>6 DEF HasNoHole
  <2>8. QED
    BY <1>5, <2>3, <2>4, <2>5, <2>7 DEF JoinInv
<1>8. NewestInv'
  <2> SUFFICES ASSUME store_page > LastSlot, download.pc = "none" PROVE NewestInv'
    BY <1>1 DEF NewestInv
  <2>1. /\ \A x \in Store!Stored : x <= store_now
        /\ Sync.rows = {}
        /\ Store!Stored # {} => /\ Sync.since \in Store!Stored
                                /\ \A x \in Store!Stored : x <= Sync.since
        /\ \A s \in Store!Stored : (\E x \in Store!Stored : s < x) => candles[s] = "final"
    BY <1>1, Facts DEF NewestInv
  <2>2. Sync'.pc = "insert"
    <3>1. Store!Cardinality(page) <= LastSlot /\ Store!Cardinality(page) \in Nat
      BY Facts, PageIsShort DEF page
    <3>2. Store!Cardinality(page) # store_page
      BY <3>1, Facts
    <3>3. QED
      BY <1>1, <3>2
  <2>3. Sync'.rows = page /\ Held' = P
    <3>1. Held = {}
      BY <2>1 DEF Held
    <3>2. QED
      BY <1>1, <1>3, <2>1, <3>1
  <2>4. \A r \in page : r.slot <= store_now
    BY <1>2
  <2>5. \A r \in page : r.form = "forming" => \A q \in page : q.slot <= r.slot
    BY <1>2
  <2>6. Store!Stored # {} => \E m \in Store!Stored : m \in P /\ \A x \in Store!Stored : x <= m
    <3> SUFFICES ASSUME Store!Stored # {} PROVE Sync.since \in P
      BY <2>1
    <3>1. Sync.since \in Store!Market /\ Sync.since <= store_now /\ Sync.since <= Sync.since
      BY <2>1, Facts
    <3>2. \A y \in Store!Market : Sync.since <= y => Sync.since <= y
      OBVIOUS
    <3>3. QED
      BY <1>2, <3>1, <3>2 DEF P
  <2>7. QED
    BY <1>1, <1>5, <2>1, <2>2, <2>3, <2>4, <2>5, <2>6 DEF NewestInv
<1>9. GotInv'
  BY <1>1, <1>5, Facts, GotStays
<1>10. QED
  BY <1>6, <1>7, <1>8, <1>9 DEF StoreInv, Store!CandleAssumption, Store!Slots

\* An empty page, and no error.
LEMMA RefusedStep == ASSUME StoreInv, Store!FetchRefused("loop") PROVE StoreInv'
<1>1. /\ UNCHANGED <<store_page, store_now, candles, download, store_stops>>
      /\ Sync.pc = "fetch" /\ Sync'.pc = "insert" /\ Sync'.rows = Sync.rows /\ SyncTypes'
  <2>1. sync \in [{"loop"} -> [pc : {"idle", "fetch", "chunk", "insert", "done"},
                               since : 0..LastSlot + 1, rows : SUBSET Candle]]
    BY Facts DEF SyncTypes
  <2>2. QED
    BY <2>1 DEF Store!FetchRefused, Sync, SyncTypes, Candle, Store!Market, Store!Slots
<1>2. Store!Stored' = Store!Stored /\ Store!Market' = Store!Market /\ Held' = Held
  BY <1>1, StoredStays DEF Store!Market, Store!Slots, Held
<1>3. StoreTypes'
  <2>1. /\ DownloadTypes' /\ store_stops' \in 0..StoreStops
        /\ candles' \in [1..LastSlot -> {"none", "forming", "final"}] /\ store_now' \in 1..LastSlot
    BY <1>1, Facts DEF DownloadTypes, StoreTypes, Candle, Store!Market, Store!Slots
  <2>2. QED
    BY <1>1, <1>2, <2>1, Facts, TypesAgain
<1>4. JoinInv'
  BY <1>1, <1>2, Facts DEF JoinInv, HasNoHole
<1>5. NewestInv'
  BY <1>1, <1>2, Facts DEF NewestInv
<1>6. GotInv'
  BY <1>1, <1>2, Facts, GotStays
<1>7. QED
  BY <1>3, <1>4, <1>5, <1>6 DEF StoreInv, Store!CandleAssumption, Store!Slots

\* What the loop holds is inserted: at its end, when a request fails, or because
\* it holds enough.
LEMMA InsertStep ==
  ASSUME StoreInv, Store!FetchFails("loop") \/ Store!InsertChunk("loop") \/ Store!InsertLast("loop")
  PROVE  StoreInv'
<1>1. /\ UNCHANGED <<store_page, store_now, download, store_stops>>
      /\ candles' = Store!Insert(Sync.rows) /\ Sync'.rows = {} /\ SyncTypes'
      /\ \/ Sync.pc = "fetch" /\ Sync'.pc = "idle"
         \/ Sync.pc = "chunk" /\ Sync'.pc = "fetch" /\ Sync'.since = Sync.since
         \/ Sync.pc = "insert" /\ Sync'.pc = "done"
  <2>1. sync \in [{"loop"} -> [pc : {"idle", "fetch", "chunk", "insert", "done"},
                               since : 0..LastSlot + 1, rows : SUBSET Candle]]
    BY Facts DEF SyncTypes
  <2>2. candles' = Store!Insert(Sync.rows) /\ UNCHANGED <<store_page, store_now, download, store_stops>>
    BY DEF Store!FetchFails, Store!InsertChunk, Store!InsertLast, Sync
  <2>3. \/ Sync.pc = "fetch" /\ Sync' = Store!Idle
        \/ Sync.pc = "chunk" /\ Sync' = [Sync EXCEPT !.pc = "fetch", !.rows = {}]
        \/ Sync.pc = "insert" /\ Sync' = [Store!Idle EXCEPT !.pc = "done"]
    BY <2>1 DEF Store!FetchFails, Store!InsertChunk, Store!InsertLast, Sync
  <2>4. sync' = [x \in {"loop"} |-> Sync']
    BY <2>1 DEF Store!FetchFails, Store!InsertChunk, Store!InsertLast, Sync
  <2> DEFINE One == [pc : {"idle", "fetch", "chunk", "insert", "done"}, since : 0..LastSlot + 1,
                     rows : SUBSET Candle]
  <2>5. Sync \in One /\ 0 \in 0..LastSlot + 1
    BY <2>1, Facts DEF Sync
  <2>6. /\ Sync' \in One /\ Sync'.rows = {}
        /\ \/ Sync.pc = "fetch" /\ Sync'.pc = "idle"
           \/ Sync.pc = "chunk" /\ Sync'.pc = "fetch" /\ Sync'.since = Sync.since
           \/ Sync.pc = "insert" /\ Sync'.pc = "done"
    <3>1. CASE Sync.pc = "fetch" /\ Sync' = Store!Idle
      BY <2>5, <3>1 DEF Store!Idle
    <3>2. CASE Sync.pc = "chunk" /\ Sync' = [Sync EXCEPT !.pc = "fetch", !.rows = {}]
      BY <2>5, <3>2
    <3>3. CASE Sync.pc = "insert" /\ Sync' = [Store!Idle EXCEPT !.pc = "done"]
      BY <2>5, <3>3 DEF Store!Idle
    <3>4. QED
      BY <2>3, <3>1, <3>2, <3>3
  <2>7. SyncTypes'
    BY <2>4, <2>6 DEF SyncTypes, Candle, Store!Market, Store!Slots
  <2>8. QED
    BY <2>2, <2>6, <2>7
<1>2. /\ candles' \in [1..LastSlot -> {"none", "forming", "final"}]
      /\ Store!Stored' = Store!Stored \cup Held
      /\ \A s \in 1..LastSlot : \/ \E r \in Sync.rows : r.slot = s /\ candles'[s] = r.form
                                \/ (\A r \in Sync.rows : r.slot # s) /\ candles'[s] = candles[s]
  BY <1>1, Facts, InsertStores DEF Held
<1>3. Store!Market' = Store!Market /\ Held' = {}
  BY <1>1 DEF Store!Market, Store!Slots, Held
<1>4. StoreTypes'
  <2>1. DownloadTypes' /\ store_stops' \in 0..StoreStops /\ store_now' \in 1..LastSlot
    BY <1>1, Facts DEF DownloadTypes, StoreTypes, Candle, Store!Market, Store!Slots
  <2>2. Store!Stored' \subseteq Store!Market
    BY <1>2, Facts
  <2>3. QED
    BY <1>1, <1>2, <2>1, <2>2, TypesAgain
<1>5. JoinInv'
  <2> SUFFICES ASSUME download.pc = "none" PROVE JoinInv'
    BY <1>1 DEF JoinInv
  <2>1. /\ HasNoHole(Store!Stored \cup Held)
        /\ Sync.pc = "chunk" =>
             /\ \A x \in Store!Stored \cup Held : x <= Sync.since
             /\ \A s \in Store!Market : s < Sync.since /\ (\E x \in Store!Stored \cup Held : x < s)
                                          => s \in Store!Stored \cup Held
    BY Facts DEF JoinInv
  <2>2. Store!Stored' = Store!Stored \cup Held /\ Store!Stored' \cup Held' = Store!Stored \cup Held
    BY <1>2, <1>3
  <2>3. HasNoHole(Store!Stored)' /\ HasNoHole(Store!Stored \cup Held)'
    BY <1>3, <2>1, <2>2 DEF HasNoHole
  <2>4. QED
    BY <1>1, <1>3, <2>1, <2>2, <2>3 DEF JoinInv
<1>6. NewestInv'
  <2> SUFFICES ASSUME store_page > LastSlot, download.pc = "none" PROVE NewestInv'
    BY <1>1 DEF NewestInv
  <2>1. /\ \A x \in Store!Stored : x <= store_now
        /\ Sync.pc # "chunk"
        /\ Sync.pc = "fetch" => Sync.rows = {}
        /\ Sync.pc = "insert" => \A r \in Sync.rows : r.slot <= store_now
        /\ Sync.pc = "insert" =>
             \A r \in Sync.rows : r.form = "forming" => \A q \in Sync.rows : q.slot <= r.slot
        /\ Sync.pc = "insert" => (Sync.rows # {} /\ Store!Stored # {} =>
             \E m \in Store!Stored : m \in Held /\ \A x \in Store!Stored : x <= m)
        /\ \A s \in Store!Stored : (\E x \in Store!Stored : s < x) => candles[s] = "final"
    BY Facts DEF NewestInv
  <2>2. \A x \in Store!Stored' : x <= store_now'
    BY <1>1, <1>2, <2>1 DEF Held
  <2>3. ASSUME NEW s \in Store!Stored', NEW x \in Store!Stored', s < x PROVE candles'[s] = "final"
    <3>1. s \in Nat /\ x \in Nat /\ s \in 1..LastSlot /\ \A y \in Store!Stored : y \in Nat
      BY <1>2, Facts
    <3>2. CASE s \in Held
      <4>1. PICK r \in Sync.rows : r.slot = s /\ candles'[s] = r.form
        BY <1>2, <3>1, <3>2 DEF Held
      <4>2. r.form = "forming" \/ r.form = "final"
        BY Facts DEF Candle
      <4>3. Sync.pc = "insert"
        BY <1>1, <2>1, <3>2 DEF Held
      <4>4. ASSUME r.form = "forming" PROVE FALSE
        <5>1. \A q \in Sync.rows : q.slot <= s
          BY <2>1, <4>1, <4>3, <4>4
        <5>2. x \notin Held /\ x \in Store!Stored
          BY <1>2, <2>3, <3>1, <5>1 DEF Held
        <5>3. PICK m \in Store!Stored : m \in Held /\ \A y \in Store!Stored : y <= m
          BY <2>1, <4>1, <4>3, <5>2
        <5>4. x <= m /\ m <= s /\ m \in Nat
          BY <3>1, <5>1, <5>2, <5>3 DEF Held
        <5>5. QED
          BY <2>3, <3>1, <5>4
      <4>5. QED
        BY <4>1, <4>2, <4>4
    <3>3. CASE s \notin Held
      <4>1. s \in Store!Stored /\ candles'[s] = candles[s]
        BY <1>2, <3>1, <3>3 DEF Held
      <4>2. \E y \in Store!Stored : s < y
        <5>1. CASE x \in Store!Stored
          BY <2>3, <5>1
        <5>2. CASE x \in Held
          <6>1. Sync.pc = "insert" /\ Sync.rows # {}
            BY <1>1, <2>1, <5>2 DEF Held
          <6>2. PICK m \in Store!Stored : m \in Held /\ \A y \in Store!Stored : y <= m
            BY <2>1, <4>1, <6>1
          <6>3. s <= m /\ s # m /\ m \in Nat
            BY <3>1, <3>3, <4>1, <6>2
          <6>4. s < m
            BY <3>1, <6>3
          <6>5. QED
            BY <6>4
        <5>3. QED
          BY <1>2, <5>1, <5>2
      <4>3. QED
        BY <2>1, <4>1, <4>2
    <3>4. QED
      BY <3>2, <3>3
  <2>4. Sync'.pc \in {"idle", "done"}
    BY <1>1, <2>1
  <2>5. QED
    BY <2>2, <2>3, <2>4 DEF NewestInv
<1>7. GotInv'
  BY <1>1, <1>2, Facts, GotStays
<1>8. QED
  BY <1>4, <1>5, <1>6, <1>7 DEF StoreInv, Store!CandleAssumption, Store!Slots

\* What is known of a step of the download.
LEMMA DownloadStays ==
  ASSUME StoreInv, UNCHANGED <<store_page, store_now, sync, store_stops>>, DownloadTypes',
         candles' \in [1..LastSlot -> {"none", "forming", "final"}],
         Store!Stored' \subseteq Store!Market, download'.pc # "none", GotInv'
  PROVE  StoreInv'
<1>1. SyncTypes' /\ store_now' \in 1..LastSlot /\ store_stops' \in 0..StoreStops
  BY Facts DEF SyncTypes, StoreTypes, Candle, Store!Market, Store!Slots
<1>2. StoreTypes'
  BY <1>1, TypesAgain
<1>3. QED
  BY <1>2 DEF StoreInv, JoinInv, NewestInv, Store!CandleAssumption, Store!Slots

\* A download starts with years of rows to get.
LEMMA DownloadStarts == ASSUME StoreInv, Store!StartDownload PROVE StoreInv'
<1>1. /\ UNCHANGED <<store_page, store_now, candles, sync, store_stops>>
      /\ \E from \in 0..LastSlot :
           download' = [pc |-> "fetch", at |-> from, from |-> from, end |-> store_now, rows |-> {},
                        failed |-> FALSE]
  <2>1. (IF store_now > Years THEN store_now - Years ELSE 1) \in 0..LastSlot
    BY Facts
  <2>2. QED
    BY <2>1 DEF Store!StartDownload
<1>2. DownloadTypes' /\ download'.pc = "fetch" /\ download'.end = store_now /\ download'.at = download'.from
  <2>1. store_now \in 0..LastSlot
    BY Facts
  <2>2. QED
    BY <1>1, <2>1 DEF DownloadTypes, Candle, Store!Market, Store!Slots
<1>3. GotInv'
  <2>1. \A s \in Store!Market : ~(download'.from <= s /\ s < download'.at)
    BY <1>2, Facts DEF DownloadTypes
  <2>2. Store!Market' = Store!Market /\ download'.end <= store_now'
    BY <1>1, <1>2, Facts DEF Store!Market, Store!Slots
  <2>3. QED
    BY <1>2, <2>1, <2>2 DEF GotInv, Store!DownloadWhole
<1>4. candles' \in [1..LastSlot -> {"none", "forming", "final"}] /\ Store!Stored' \subseteq Store!Market
  BY <1>1, StoredStays, Facts DEF StoreTypes
<1>5. QED
  BY <1>1, <1>2, <1>3, <1>4, DownloadStays

\* A page of a download continues the rows it has.
LEMMA DownloadPageStep == ASSUME StoreInv, Store!DownloadPage PROVE StoreInv'
<1> DEFINE page  == Store!Answer(download.at)
           batch == {r \in page : r.form = "final" /\ r.slot < download.end}
           B     == {r.slot : r \in batch}
<1>1. /\ UNCHANGED <<store_page, store_now, candles, sync, store_stops>> /\ download.pc = "fetch"
      /\ \/ /\ download.at >= download.end \/ batch = {}
            /\ download' = [download EXCEPT !.pc = "insert"]
         \/ /\ download.at < download.end /\ batch # {}
            /\ download' = [download EXCEPT !.rows = @ \cup batch, !.at = Store!Last(batch).slot + 1]
  <2>1. download.at \in Nat /\ download.end \in Nat
    BY Facts DEF DownloadTypes
  <2>2. QED
    BY <2>1 DEF Store!DownloadPage
<1>2. /\ download.at \in Nat /\ download.from \in Nat /\ download.end \in Nat /\ download.end <= store_now
      /\ download.end <= LastSlot /\ download.rows \subseteq Candle
      /\ \A s \in Store!Market : download.from <= s /\ s < download.at => s \in Got
      /\ download \in [pc : {"none", "fetch", "insert", "completed", "ended"},
                       at : 0..LastSlot, from : 0..LastSlot, end : 0..LastSlot,
                       rows : SUBSET Candle, failed : BOOLEAN]
  BY <1>1, Facts DEF DownloadTypes, GotInv
<1>3. /\ page \subseteq Candle
      /\ \A r \in page : /\ download.at <= r.slot /\ r.slot <= store_now
                         /\ (r.form = "forming" <=> r.slot = store_now)
      /\ \A r \in page : \A s \in Store!Market :
           download.at <= s /\ s < r.slot => \E q \in page : q.slot = s
      /\ \A s \in Store!Market : download.at <= s /\ s <= store_now => \E r \in page : r.slot <= s
  <2>1. Store!CandleAssumption /\ StoreTypes
    BY Facts
  <2>2. QED
    BY <1>2, <2>1, PageIs
<1>4. \A r \in page : r.slot < download.end => r \in batch /\ r.slot \in B
  <2> SUFFICES ASSUME NEW r \in page, r.slot < download.end PROVE r \in batch
    OBVIOUS
  <2>1. r.slot \in Nat /\ r.form \in {"forming", "final"}
    BY <1>3, Facts DEF Candle
  <2>2. r.slot # store_now
    BY <1>2, <2>1, Facts
  <2>3. QED
    BY <1>3, <2>1, <2>2
<1>5. /\ batch \subseteq Candle /\ B \subseteq Store!Market
      /\ \A x \in B : download.at <= x /\ x < download.end
      /\ \A r \in batch : r \in page /\ r.slot \in B
  <2>1. \A r \in batch : r \in page /\ r \in Candle /\ r.slot < download.end
    BY <1>3
  <2>2. QED
    BY <1>3, <2>1 DEF Candle
<1>6. Store!Stored' = Store!Stored /\ Store!Market' = Store!Market
  BY <1>1, StoredStays DEF Store!Market, Store!Slots
<1>7. candles' \in [1..LastSlot -> {"none", "forming", "final"}] /\ Store!Stored' \subseteq Store!Market
  BY <1>1, <1>6, Facts DEF StoreTypes
<1>8. CASE (download.at >= download.end \/ batch = {}) /\ download' = [download EXCEPT !.pc = "insert"]
  <2>1. /\ DownloadTypes' /\ download'.pc = "insert" /\ download'.end = download.end
        /\ download'.from = download.from /\ Got' = Got
    BY <1>2, <1>8 DEF DownloadTypes, Got, Candle, Store!Market, Store!Slots
  <2>2. ASSUME NEW s \in Store!Market, download.from <= s, s < download.end PROVE s \in Got
    <3>1. s \in Nat
      BY Facts
    <3>2. CASE s < download.at
      BY <1>2, <2>2, <3>2
    <3>3. CASE download.at <= s
      <4>1. batch = {}
        BY <1>2, <1>8, <2>2, <3>1, <3>3
      <4>2. s <= store_now
        BY <1>2, <2>2, <3>1, Facts
      <4>3. PICK r \in page : r.slot <= s
        BY <1>3, <3>3, <4>2
      <4>4. r.slot \in Nat
        BY <1>3, <4>3, Facts DEF Candle
      <4>5. r.slot < download.end
        BY <1>2, <2>2, <3>1, <4>3, <4>4
      <4>6. QED
        BY <1>4, <4>1, <4>5
    <3>4. QED
      BY <1>2, <3>1, <3>2, <3>3
  <2>3. GotInv'
    BY <1>1, <1>2, <1>6, <2>1, <2>2 DEF GotInv, Store!DownloadWhole
  <2>4. QED
    BY <1>1, <1>7, <2>1, <2>3, DownloadStays
<1>9. CASE /\ download.at < download.end /\ batch # {}
           /\ download' = [download EXCEPT !.rows = @ \cup batch, !.at = Store!Last(batch).slot + 1]
  <2> DEFINE l == Store!Last(batch).slot
  <2>1. /\ Store!Last(batch) \in batch /\ \A r \in batch : r.slot <= l
    BY <1>5, <1>9, Facts, LastIs
  <2>2. l \in B /\ l \in Nat /\ l + 1 \in 0..LastSlot /\ l < download.end
    <3>1. l \in B
      BY <2>1
    <3>2. l \in Nat /\ l < download.end
      BY <1>5, <3>1, Facts
    <3>3. l + 1 \in 0..LastSlot
      <4>1. LastSlot \in Nat
        BY Facts
      <4>2. download.end \in Nat /\ download.end <= LastSlot
        BY <1>2
      <4> HIDE DEF l
      <4>3. QED
        BY <3>2, <4>1, <4>2
    <3>4. QED
      BY <3>1, <3>2, <3>3
  <2>3. download' = [download EXCEPT !.rows = @ \cup batch, !.at = l + 1]
    BY <1>9
  <2>l. Store!Last(batch) \in page
    BY <1>5, <2>1
  <2>m. \A s \in Store!Market : download.at <= s /\ s < l => \E q \in page : q.slot = s
    BY <1>3, <2>l
  <2> HIDE DEF l, batch, page
  <2>4. /\ DownloadTypes' /\ download'.pc = "fetch" /\ download'.end = download.end
        /\ download'.from = download.from /\ download'.rows = download.rows \cup batch
        /\ download'.at = l + 1
    <3>1. download.rows \cup batch \in SUBSET Candle
      BY <1>2, <1>5
    <3>2. QED
      BY <1>1, <1>2, <2>2, <2>3, <3>1 DEF DownloadTypes, Candle, Store!Market, Store!Slots
  <2>5. Got' = Got \cup B
    BY <2>4 DEF Got
  <2>6. ASSUME NEW s \in Store!Market, download.from <= s, s < l + 1 PROVE s \in Got \cup B
    <3>1. s \in Nat
      BY Facts
    <3>2. CASE s < download.at
      BY <1>2, <2>6, <3>2
    <3>3. CASE s = l
      BY <2>2, <3>3
    <3>4. CASE download.at <= s /\ s < l
      <4>1. PICK q \in page : q.slot = s
        BY <2>m, <3>4
      <4>2. s < download.end
        BY <1>2, <2>2, <3>1, <3>4
      <4>3. QED
        BY <1>4, <4>1, <4>2
    <3>5. QED
      BY <1>2, <2>2, <2>6, <3>1, <3>2, <3>3, <3>4
  <2>7. GotInv'
    <3>1. download'.end <= store_now'
      BY <1>1, <1>2, <2>4
    <3>2. \A s \in Store!Market : download'.from <= s /\ s < download'.at => s \in Got'
      BY <2>4, <2>5, <2>6
    <3>3. QED
      BY <1>6, <2>4, <3>1, <3>2 DEF GotInv, Store!DownloadWhole
  <2>8. download'.pc # "none"
    BY <2>4
  <2>9. QED
    BY <1>1, <1>7, <2>4, <2>7, <2>8, DownloadStays
<1>10. QED
  BY <1>1, <1>8, <1>9

\* A download fails, or inserts what it has and ends.
LEMMA DownloadEnds == ASSUME StoreInv, Store!DownloadFails \/ Store!DownloadInsert PROVE StoreInv'
<1>1. UNCHANGED <<store_page, store_now, sync, store_stops>>
  BY DEF Store!DownloadFails, Store!DownloadInsert
<1>2. /\ Store!Market' = Store!Market
      /\ download \in [pc : {"none", "fetch", "insert", "completed", "ended"},
                       at : 0..LastSlot, from : 0..LastSlot, end : 0..LastSlot,
                       rows : SUBSET Candle, failed : BOOLEAN]
  BY Facts DEF DownloadTypes, Store!Market, Store!Slots
<1>3. CASE Store!DownloadFails
  <2>1. candles' = candles /\ download' = [download EXCEPT !.pc = "insert", !.failed = TRUE]
          /\ download.pc = "fetch"
    BY <1>3 DEF Store!DownloadFails
  <2>2. DownloadTypes' /\ download'.pc = "insert" /\ download'.failed /\ download'.end = download.end
    BY <1>2, <2>1 DEF DownloadTypes, Candle, Store!Market, Store!Slots
  <2>3. GotInv'
    BY <1>1, <2>1, <2>2, Facts DEF GotInv, Store!DownloadWhole
  <2>4. candles' \in [1..LastSlot -> {"none", "forming", "final"}] /\ Store!Stored' \subseteq Store!Market
    BY <2>1, StoredStays, Facts DEF StoreTypes
  <2>5. QED
    BY <1>1, <2>2, <2>3, <2>4, DownloadStays
<1>4. CASE Store!DownloadInsert
  <2>1. candles' = Store!Insert(download.rows) /\ download' = [download EXCEPT !.pc = "completed"]
          /\ download.pc = "insert"
    BY <1>4 DEF Store!DownloadInsert
  <2>2. /\ DownloadTypes' /\ download'.pc = "completed" /\ download'.failed = download.failed
        /\ download'.end = download.end /\ download'.from = download.from
    BY <1>2, <2>1 DEF DownloadTypes, Candle, Store!Market, Store!Slots
  <2>3. /\ candles' \in [1..LastSlot -> {"none", "forming", "final"}]
        /\ Store!Stored' = Store!Stored \cup Got
    BY <2>1, Facts, InsertStores DEF Got
  <2>4. Store!Stored' \subseteq Store!Market
    BY <2>3, Facts
  <2>5. GotInv'
    <3>1. ~download.failed => \A s \in Store!Market : download.from <= s /\ s < download.end => s \in Got
      BY <2>1, Facts DEF GotInv
    <3>2. Store!DownloadWhole'
      BY <1>2, <2>2, <2>3, <3>1 DEF Store!DownloadWhole
    <3>3. QED
      BY <2>2, <3>2 DEF GotInv
  <2>6. QED
    BY <1>1, <2>2, <2>3, <2>4, <2>5, DownloadStays
<1>5. QED
  BY <1>3, <1>4

\* The candles keep their invariant.
LEMMA StoreInductive ==
  /\ Store!CandleAssumption /\ Store!Init => StoreInv
  /\ StoreInv /\ [Store!Next]_Store!vars => StoreInv'
<1>1. ASSUME StoreInv, [Store!Next]_Store!vars PROVE StoreInv'
  <2>1. CASE UNCHANGED Store!vars
    <3>1. /\ UNCHANGED <<store_page, store_now, candles, sync, download, store_stops>>
          /\ Store!Stored' = Store!Stored /\ Store!Market' = Store!Market /\ Sync' = Sync
          /\ Held' = Held /\ Got' = Got /\ Candle' = Candle
      BY <2>1, StoredStays DEF Store!vars, Store!Market, Store!Slots, Sync, Held, Got, Candle
    <3>2. JoinInv' /\ NewestInv'
      BY <1>1, <3>1, Facts DEF JoinInv, NewestInv, HasNoHole
    <3>3. GotInv' /\ StoreTypes'
      BY <1>1, <3>1, Facts DEF GotInv, StoreTypes, Store!DownloadWhole
    <3>4. QED
      BY <1>1, <3>2, <3>3 DEF StoreInv, Store!CandleAssumption, Store!Slots
  <2>2. CASE \E x \in {"loop"} : Store!SyncStep(x)
    BY <1>1, <2>2, StartStep, FetchStep, RefusedStep, InsertStep, RestartOrAgain DEF Store!SyncStep
  <2>3. QED
    BY <1>1, <2>1, <2>2, TickStep, RestartOrAgain, DownloadStarts, DownloadPageStep, DownloadEnds
    DEF Store!Next
<1>2. QED
  BY <1>1, StoreInitInv

\* The invariant of the candles says what is promised of them.
LEMMA StoreInvHolds ==
  ASSUME StoreInv
  PROVE  Store!TypeOK /\ Store!NoHole /\ Store!FinalBehindNewest /\ Store!DownloadWhole
<1>1. Store!NoHole
  BY Facts DEF JoinInv, HasNoHole, Store!NoHole
<1>2. Store!FinalBehindNewest
  <2> SUFFICES ASSUME store_page > LastSlot, download.pc = "none",
                      NEW s \in Store!Stored, s # Store!Max(Store!Stored)
      PROVE candles[s] = "final"
    BY DEF Store!FinalBehindNewest
  <2>1. Store!Max(Store!Stored) \in Store!Stored /\ s <= Store!Max(Store!Stored)
    BY Facts, Newest
  <2>2. s \in Nat /\ Store!Max(Store!Stored) \in Nat
    BY <2>1, Facts
  <2>3. s < Store!Max(Store!Stored)
    BY <2>1, <2>2
  <2>4. QED
    BY <2>1, <2>3, Facts DEF NewestInv
<1>3. Store!TypeOK
  <2>1. {r.slot : r \in download.rows} \subseteq Store!Market
    BY Facts DEF Got
  <2>2. /\ store_page \in PageSizes /\ store_stops \in 0..StoreStops
        /\ candles \in [1..LastSlot -> {"none", "forming", "final"}]
    BY Facts DEF StoreTypes
  <2>3. \A x \in {"loop"} : sync[x].pc \in {"idle", "fetch", "chunk", "insert", "done"}
          /\ sync[x].since \in 0..LastSlot + 1
    BY Facts DEF Sync
  <2>4. download.at \in 0..LastSlot
    BY Facts DEF DownloadTypes
  <2>5. QED
    BY <2>1, <2>2, <2>3, <2>4, Facts DEF Store!TypeOK
<1>4. QED
  BY <1>1, <1>2, <1>3, Facts DEF GotInv

-----------------------------------------------------------------------------
(* All parts together.                                                       *)

\* A step of the suite is a step of each part, or leaves its state alone.
LEMMA EachMovesAlone ==
  ASSUME [SuiteNext]_suiteVars
  PROVE  /\ [Stream!Next]_Stream!vars /\ [Store!Next]_Store!vars /\ [Runner!Next]_Runner!vars
         /\ [Rotation!Next]_Rotation!vars /\ [Cycle!Next]_Cycle!vars
         /\ [Factory!Next]_Factory!vars /\ [Licence!Next]_Licence!vars
         /\ [Next]_shell /\ [RentalNext]_rental /\ [NewsNext]_news /\ UNCHANGED part
<1>1. [Stream!Next]_Stream!vars
  BY DEF SuiteNext, suiteVars, bars, Stream!vars
<1>2. [Store!Next]_Store!vars
  BY DEF SuiteNext, suiteVars, store, Store!vars
<1>3. [Runner!Next]_Runner!vars
  BY DEF SuiteNext, suiteVars, runner, Runner!vars
<1>4. [Rotation!Next]_Rotation!vars
  BY DEF SuiteNext, suiteVars, rotation, Rotation!vars
<1>5. [Cycle!Next]_Cycle!vars
  BY DEF SuiteNext, suiteVars, cycle, Cycle!vars, Cycle!thread, Cycle!files, Cycle!beat
<1>6. [Factory!Next]_Factory!vars
  BY DEF SuiteNext, suiteVars, factory, Factory!vars
<1>7. [Licence!Next]_Licence!vars
  BY DEF SuiteNext, suiteVars, licence, Licence!vars
<1>8. [Next]_shell /\ [RentalNext]_rental /\ [NewsNext]_news
  BY DEF SuiteNext, suiteVars
<1>9. UNCHANGED part
  BY DEF SuiteNext, suiteVars
<1>10. QED
  BY <1>1, <1>2, <1>3, <1>4, <1>5, <1>6, <1>7, <1>8, <1>9

\* Whoever comes and goes and whenever the server stops: the price stream runs
\* while it has a user and wakes who waits, the candles have no hole, and a
\* download without an error is whole.
THEOREM DataAlwaysArrives == ASSUME DeskAssumption PROVE Suite => []DataArrives
<1> DEFINE DataInv == StreamInv /\ StoreInv
<1>1. SuiteInit => DataInv
  BY StreamInitInv, StoreInductive DEF SuiteInit, DeskAssumption
<1>2. DataInv /\ [SuiteNext]_suiteVars => DataInv'
  BY EachMovesAlone, StreamStep, StoreInductive
<1>3. DataInv => DataArrives
  BY StreamInvHolds, StoreInvHolds DEF DataArrives
<1>4. QED
  BY <1>1, <1>2, <1>3, PTL DEF Suite

=============================================================================
