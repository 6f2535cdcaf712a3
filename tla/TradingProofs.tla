---------------------------- MODULE TradingProofs ----------------------------
(***************************************************************************)
(* Proofs about LiveEngine for every session that Settings allows, every   *)
(* set of results a trade can have and any length of the hour and of the   *)
(* window: the types, that the books agree, that orders keep their         *)
(* distance, and that what kills a session kills it.  Then about           *)
(* TradingSession, for any kind of session, length of the queue and number *)
(* of trades: the types, and what rows, stops and kill events promise.     *)
(* Then about CommitteeEngine, for every set of sessions that its          *)
(* assumption allows: that a session is an account, its levels, its hours  *)
(* and its emergency button.  Last the types of the suite of the three.    *)
(***************************************************************************)
EXTENDS MCLive, FiniteSetTheorems, FunctionTheorems, SequenceTheorems, TLAPS

States == [pos : {-1, 0, 1}, units : {0, Units}, dir : {-1, 0, 1}, levels : BOOLEAN,
           running : BOOLEAN, killed : BOOLEAN, signals : 0..session.signals]
Books  == [units : Nat, cash : Int]
Orders == [dir : {-1, 0, 1}, at : Nat \cup {Never}, flat : BOOLEAN, hourly : Nat]
Worlds == [st : States, rs : RiskStates, brk : Books, booked : Int, order : Orders]

(* The parts of the invariant, of a world between two calls to the broker. *)

WellFormed(w) ==
  /\ w \in Worlds /\ Len(w.rs.window) <= WindowCap
  /\ (w.st.pos = 0) = (w.st.units = 0) /\ (w.st.running => ~w.rs.killed)

(* With answers to every call the broker holds what the engine holds, and  *)
(* unless the broker closes on its own both know what was made.            *)
Balanced(w) ==
  Faults = {} =>
    /\ w.brk.units \in {0, w.st.units}
    /\ ~Cfg.stops /\ ~w.rs.killed =>
         w.brk.units = w.st.units /\ w.brk.cash = Cfg.equity + w.booked

(* The hour's count of the risk state covers the orders of its hour, which *)
(* is no earlier than the last order's; its trade is the last order; and a *)
(* last order with no FLAT signal after it leaves a direction.             *)
Counted(w) ==
  GatesSeeOrders =>
    /\ w.rs.hour <= now \div HourTicks /\ w.order.hourly <= Cfg.maxHourly
    /\ w.order.at # Never =>
         /\ w.rs.trade = w.order.at /\ (~w.order.flat => w.st.dir # 0)
         /\ w.order.at \div HourTicks <= w.rs.hour
         /\ w.order.at \div HourTicks = w.rs.hour => w.order.hourly <= w.rs.hourly

This == [st |-> st, rs |-> rs, brk |-> brk, booked |-> booked, order |-> order]

Inv == TypeOK /\ (~stopped => Balanced(This)) /\ BooksAgree /\ Counted(This)

(* A losing window that a close leaves is seen.                            *)
Seen(w) ==
  /\ Cfg.enabled /\ Cfg.useRolling /\ Cfg.minWinRate > 0 /\ Cfg.rolling > 0
  /\ w.booked # booked /\ Len(w.rs.window) >= Cfg.rolling
  /\ \A k \in DOMAIN w.rs.window : w.rs.window[k] <= 0
  => w.st.killed

(* Nothing was sent to the broker since the signal came.                   *)
Unsent(w) ==
  /\ w.order.at = order.at /\ w.order.hourly = order.hourly /\ w.order.flat = order.flat
  /\ w.rs.killed = rs.killed /\ w.rs.trade = rs.trade /\ w.st.dir = st.dir

(* What a signal may have sent, and when.                                  *)
Spaced(w) ==
  \/ w.order.at = order.at /\ w.order.hourly = order.hourly
  \/ /\ ~rs.killed
     /\ GatesSeeOrders /\ order.at # Never /\ ~order.flat =>
          \E gap \in {Cfg.cooldown, Cfg.reversal} : now - order.at >= gap

Good(w) == WellFormed(w) /\ Balanced(w) /\ Counted(w) /\ Seen(w)

-----------------------------------------------------------------------------
(* The operators of the risk controls.                                     *)

(* What Settings says of the session's configuration.                      *)
LEMMA ConfigTypes ==
  ASSUME LiveAssumption, session \in Sessions
  PROVE  /\ Cfg.enabled \in BOOLEAN /\ Cfg.stops \in BOOLEAN /\ Cfg.useDd \in BOOLEAN
         /\ Cfg.useRolling \in BOOLEAN /\ Cfg.equity \in Int /\ Cfg.size \in Int
         /\ Cfg.maxHourly \in Nat /\ Cfg.rolling \in Nat /\ Cfg.minWinRate \in Int
         /\ Cfg.cooldown \in Int /\ Cfg.reversal \in Int
         /\ Faults \subseteq {"position", "close", "account", "order", "lost"}
         /\ session.time \in Nat /\ session.signals \in Nat
<1>1. session \in Settings
  BY DEF LiveAssumption
<1> QED BY <1>1, SMTT(30) DEF Settings, Cfg, Faults

(* Whole hours grow with the time.                                         *)
LEMMA HoursGrow ==
  ASSUME NEW a \in Nat, NEW b \in Nat, NEW h \in Nat \ {0}, a <= b
  PROVE  a \div h <= b \div h /\ a \div h \in Nat
OBVIOUS

(* What the bookkeeping of calls and submissions keeps of a risk state.    *)
LEMMA CallsBooked ==
  ASSUME NEW r \in RiskStates, NEW n \in Nat
  PROVE  /\ RecordApiError(r) \in RiskStates /\ RecordApiSuccess(r) \in RiskStates
         /\ RecordTradeSubmission(r, n) \in RiskStates
         /\ \A q \in {RecordApiError(r), RecordApiSuccess(r)} :
              /\ q.window = r.window /\ q.killed = r.killed /\ q.hour = r.hour
              /\ q.hourly = r.hourly /\ q.trade = r.trade
         /\ LET q == RecordTradeSubmission(r, n)
            IN /\ q.window = r.window /\ q.killed = r.killed /\ q.hour = r.hour
               /\ q.hourly = r.hourly + 1 /\ q.trade = n
<1>1. r.errors + 1 \in Nat /\ r.daily + 1 \in Nat /\ r.hourly + 1 \in Nat /\ n \in Nat \cup {Never}
  BY DEF RiskStates
<1>2. RecordApiError(r) \in RiskStates
  BY <1>1 DEF RecordApiError, RiskStates
<1>3. RecordApiSuccess(r) \in RiskStates
  BY DEF RecordApiSuccess, RiskStates
<1>4. RecordTradeSubmission(r, n) \in RiskStates
  BY <1>1, Zenon DEF RecordTradeSubmission, RiskStates
<1>5. \A q \in {RecordApiError(r), RecordApiSuccess(r)} :
        /\ q.window = r.window /\ q.killed = r.killed /\ q.hour = r.hour
        /\ q.hourly = r.hourly /\ q.trade = r.trade
  BY DEF RecordApiError, RecordApiSuccess, RiskStates
<1>6. LET q == RecordTradeSubmission(r, n)
      IN /\ q.window = r.window /\ q.killed = r.killed /\ q.hour = r.hour
         /\ q.hourly = r.hourly + 1 /\ q.trade = n
  BY DEF RecordTradeSubmission, RiskStates
<1> QED BY <1>2, <1>3, <1>4, <1>5, <1>6

(* Reading the account renews the equity and nothing that is counted.      *)
LEMMA HourRolled ==
  ASSUME LiveAssumption, session \in Sessions, NEW r \in RiskStates, NEW n \in Nat
  PROVE  LET q == RollHour(Cfg, r, n)
         IN /\ q \in RiskStates /\ q.window = r.window /\ q.killed = r.killed /\ q.trade = r.trade
            /\ Cfg.enabled => q.hour = n \div HourTicks
            /\ q.hour = r.hour => q.hourly = r.hourly
            /\ q.hour # r.hour => q.hourly = 0
<1>1. n \div HourTicks \in Nat
  BY HoursGrow DEF LiveAssumption
<1> DEFINE h == n \div HourTicks
           q == [r EXCEPT !.hourly = 0, !.hour = h]
<1> HIDE DEF h
<1>2. h \in Nat
  BY <1>1 DEF h
<1>3. q \in RiskStates
  BY <1>2, Zenon DEF RiskStates
<1>4. q.window = r.window /\ q.killed = r.killed /\ q.trade = r.trade /\ q.hour = h /\ q.hourly = 0
  BY DEF RiskStates
<1>5. RollHour(Cfg, r, n) = IF Cfg.enabled /\ h # r.hour THEN q ELSE r
  BY DEF RollHour, h
<1> HIDE DEF q
<1> QED BY <1>3, <1>4, <1>5 DEF h

(* Booking a trade keeps the types, appends it to the window and touches   *)
(* neither the counts of orders nor the kill switch.                       *)
LEMMA TradeBooked ==
  ASSUME WindowCap \in Nat \ {0}, NEW c, c.enabled \in BOOLEAN, c.useDd \in BOOLEAN,
         NEW r \in RiskStates, Len(r.window) <= WindowCap, NEW pnl \in Int
  PROVE  LET a == AfterTrade(c, r, pnl)
         IN /\ a \in RiskStates /\ Len(a.window) <= WindowCap
            /\ a.killed = r.killed /\ a.hour = r.hour /\ a.hourly = r.hourly /\ a.trade = r.trade
<1> DEFINE w == Append(r.window, pnl)
           v == IF Len(w) > WindowCap THEN Tail(w) ELSE w
<1>1. r.window \in Seq(Int)
  BY DEF RiskStates
<1>2. w \in Seq(Int) /\ Len(w) = Len(r.window) + 1
  BY <1>1
<1>3. v \in Seq(Int) /\ Len(v) <= WindowCap
  BY <1>1, <1>2
<1> HIDE DEF v
<1>4. CASE ~c.enabled
  BY <1>4 DEF AfterTrade
<1>5. CASE c.enabled
  <2> DEFINE l == IF pnl > 0 THEN 0 ELSE r.losses + 1
             k == IF c.useDd /\ r.equity > r.peak THEN r.equity ELSE r.peak
  <2>1. AfterTrade(c, r, pnl) = [r EXCEPT !.window = v, !.losses = l, !.peak = k]
    BY <1>5 DEF AfterTrade, v
  <2>2. l \in Nat /\ k \in Int
    BY DEF RiskStates
  <2> HIDE DEF l, k
  <2> QED BY <2>1, <2>2, <1>3 DEF RiskStates
<1> QED BY <1>4, <1>5

(* The last n of a sequence.                                               *)
LEMMA LastOnes ==
  ASSUME NEW s \in Seq(Int), NEW n \in Nat \ {0}, n <= Len(s)
  PROVE  LET q == SubSeq(s, Len(s) - n + 1, Len(s))
         IN /\ q \in Seq(Int) /\ Len(q) = n
            /\ \A i \in 1..n : q[i] = s[Len(s) - n + i] /\ Len(s) - n + i \in 1..Len(s)
<1>1. Len(s) \in Nat /\ Len(s) - n + 1 \in 1..Len(s)
  <2>1. Len(s) \in Nat
    OBVIOUS
  <2> QED BY <2>1
<1> DEFINE m == Len(s) - n + 1
           l == Len(s)
<1>2. m \in 1..l /\ l \in Nat /\ l - m + 1 = n /\ l <= Len(s)
  BY <1>1
<1> HIDE DEF m, l
<1>3. /\ SubSeq(s, m, l) \in Seq(Int) /\ Len(SubSeq(s, m, l)) = l - m + 1
      /\ \A i \in 1..(l - m + 1) : SubSeq(s, m, l)[i] = s[m + i - 1]
  BY <1>2, SubSeqProperties
<1>4. \A i \in 1..n : m + i - 1 = Len(s) - n + i /\ m + i - 1 \in 1..Len(s)
  BY <1>1, <1>2 DEF m
<1>5. SubSeq(s, m, l) = SubSeq(s, Len(s) - n + 1, Len(s))
  BY DEF m, l
<1> QED BY <1>2, <1>3, <1>4, <1>5

(* A window of losses is one that the win rate monitor fires on.           *)
LEMMA LossesFire ==
  ASSUME LiveAssumption, session \in Sessions, NEW r \in RiskStates,
         Cfg.enabled, Cfg.useRolling, Cfg.minWinRate > 0, Cfg.rolling > 0,
         Len(r.window) >= Cfg.rolling, \A k \in DOMAIN r.window : r.window[k] <= 0
  PROVE  Monitors(Cfg, r) # {}
<1> DEFINE q == Recent(Cfg, r)
           n == Cfg.rolling
<1>1. n \in Nat \ {0} /\ Cfg.minWinRate \in Int
  BY ConfigTypes
<1>2. r.window \in Seq(Int)
  BY DEF RiskStates
<1>3. q \in Seq(Int) /\ Len(q) = n /\ \A i \in 1..n : q[i] <= 0
  <2>1. Len(r.window) \in Nat /\ DOMAIN r.window = 1..Len(r.window)
    BY <1>2
  <2>2. \A i \in 1..n : q[i] = r.window[Len(r.window) - n + i] /\ Len(r.window) - n + i \in 1..Len(r.window)
    BY <1>1, <1>2, LastOnes DEF Recent
  <2>3. q \in Seq(Int) /\ Len(q) = n
    BY <1>1, <1>2, LastOnes DEF Recent
  <2> QED BY <2>1, <2>2, <2>3
<1> HIDE DEF q
<1>4. {i \in DOMAIN q : q[i] > 0} = {}
  BY <1>1, <1>3
<1>5. WinRateLow(Cfg, q)
  <2>1. Cardinality({i \in DOMAIN q : q[i] > 0}) = 0
    BY <1>4, FS_EmptySet
  <2>2. Cfg.minWinRate * n > 0
    BY <1>1
  <2> QED BY <2>1, <2>2, <1>3, <1>1 DEF WinRateLow
<1>6. RollingReady(Cfg, r)
  BY DEF RollingReady
<1>7. "M5" \in Monitors(Cfg, r)
  BY <1>5, <1>6, Zenon DEF Monitors, q
<1> QED BY <1>7

-----------------------------------------------------------------------------
(* The steps of a signal.                                                  *)

(* The world that a signal meets.                                          *)
LEMMA WorldIsGood ==
  ASSUME LiveAssumption, Inv, ~stopped, st.signals < session.signals
  PROVE  /\ Good(World) /\ Unsent(World) /\ World.brk = brk /\ World.booked = booked
         /\ Good([World EXCEPT !.st = st]) /\ Unsent([World EXCEPT !.st = st])
<1> DEFINE s1 == [st EXCEPT !.signals = @ + 1]
           r1 == [rs EXCEPT !.beat = now]
<1>1. session.signals \in Nat /\ now \in Nat /\ TypeOK /\ Balanced(This) /\ Counted(This)
  BY ConfigTypes DEF TypeOK, Inv
<1>2. /\ s1 \in States /\ s1.pos = st.pos /\ s1.units = st.units /\ s1.dir = st.dir
      /\ s1.running = st.running /\ s1.killed = st.killed
  <2>1. st \in States
    BY <1>1 DEF TypeOK, States
  <2>2. st.signals \in 0..session.signals
    BY <2>1 DEF States
  <2>3. st.signals + 1 \in 0..session.signals
    BY <2>2, <1>1
  <2>4. s1 \in States
    BY <2>1, <2>3 DEF States
  <2> QED BY <2>1, <2>4 DEF States
<1>3. /\ r1 \in RiskStates /\ r1.window = rs.window /\ r1.killed = rs.killed /\ r1.hour = rs.hour
      /\ r1.hourly = rs.hourly /\ r1.trade = rs.trade
  BY <1>1 DEF TypeOK, RiskStates
<1> HIDE DEF s1, r1
<1>4. World = [st |-> s1, rs |-> r1, brk |-> brk, booked |-> booked, order |-> order]
  BY DEF World, s1, r1
<1>5. WellFormed(World)
  BY <1>1, <1>2, <1>3, <1>4 DEF TypeOK, WellFormed, Worlds, Books, Orders
<1>6. Balanced(World)
  BY <1>1, <1>2, <1>3, <1>4 DEF Balanced, This
<1>7. Counted(World)
  BY <1>1, <1>2, <1>3, <1>4 DEF Counted, This
<1>8. Good(World) /\ Unsent(World) /\ World.brk = brk /\ World.booked = booked
  BY <1>2, <1>3, <1>4, <1>5, <1>6, <1>7 DEF Good, Seen, Unsent
<1> DEFINE u == [World EXCEPT !.st = st]
<1>9. u = [st |-> st, rs |-> r1, brk |-> brk, booked |-> booked, order |-> order] /\ st \in States
  BY <1>1, <1>4 DEF TypeOK, States
<1> HIDE DEF u
<1>10. WellFormed(u)
  BY <1>1, <1>3, <1>9 DEF TypeOK, WellFormed, Worlds, Books, Orders
<1>11. Balanced(u)
  BY <1>1, <1>3, <1>9 DEF Balanced, This
<1>12. Counted(u)
  BY <1>1, <1>3, <1>9 DEF Counted, This
<1>13. Good(u) /\ Unsent(u)
  BY <1>3, <1>9, <1>10, <1>11, <1>12 DEF Good, Seen, Unsent
<1> QED BY <1>8, <1>13 DEF u

(* A world whose engine is flat.                                           *)
LEMMA FlatIs ==
  ASSUME NEW w \in Worlds
  PROVE  LET v == Flat(w)
         IN /\ v \in Worlds /\ v.rs = w.rs /\ v.brk = w.brk /\ v.booked = w.booked /\ v.order = w.order
            /\ v.st.pos = 0 /\ v.st.units = 0 /\ v.st.dir = w.st.dir
            /\ v.st.killed = w.st.killed /\ v.st.running = w.st.running
<1> DEFINE f == [w.st EXCEPT !.pos = 0, !.units = 0]
<1>1. w.st \in States
  BY DEF Worlds
<1>2. f \in States
  BY <1>1, Zenon DEF States
<1>3. /\ f.pos = 0 /\ f.units = 0 /\ f.dir = w.st.dir
      /\ f.killed = w.st.killed /\ f.running = w.st.running
  BY <1>1 DEF States
<1>4. Flat(w) = [w EXCEPT !.st = f]
  BY DEF Flat
<1> HIDE DEF f
<1> QED BY <1>2, <1>3, <1>4 DEF Worlds

(* Closing what the engine holds, whatever the broker answers.             *)
LEMMA CloseIsGood ==
  ASSUME LiveAssumption, session \in Sessions, NEW w, Good(w), Unsent(w), w.brk = brk, w.booked = booked,
         w.st.pos # 0, NEW a \in CloseAnswers, NEW pnl \in Pnls
  PROVE  LET v == Flat(ClosePosition(w, a, pnl))
         IN Good(v) /\ Unsent(v) /\ v.st.pos = 0
<1> DEFINE c == ClosePosition(w, a, pnl)
           v == Flat(c)
           r0 == RecordApiSuccess(w.rs)
           r == AfterTrade(Cfg, r0, pnl)
           gone == [units |-> 0, cash |-> w.brk.cash + pnl]
           kill == w.st.killed \/ Monitors(Cfg, r) # {}
           e == RecordApiError(w.rs)
           sum == w.booked + pnl
<1>1. /\ WellFormed(w) /\ w \in Worlds /\ pnl \in Int /\ w.st \in States /\ w.rs \in RiskStates
      /\ w.brk \in Books /\ w.booked \in Int /\ w.order \in Orders
  BY DEF Good, WellFormed, LiveAssumption, Worlds
<1>2. /\ r \in RiskStates /\ Len(r.window) <= WindowCap /\ r.killed = w.rs.killed
      /\ r.hour = w.rs.hour /\ r.hourly = w.rs.hourly /\ r.trade = w.rs.trade
  <2>1. /\ r0 \in RiskStates /\ r0.window = w.rs.window /\ r0.killed = w.rs.killed
        /\ r0.hour = w.rs.hour /\ r0.hourly = w.rs.hourly /\ r0.trade = w.rs.trade
    BY <1>1, CallsBooked
  <2> HIDE DEF r0
  <2>2. Len(r0.window) <= WindowCap
    BY <2>1, <1>1 DEF WellFormed
  <2> QED BY <1>1, <2>1, <2>2, ConfigTypes, TradeBooked DEF LiveAssumption
<1>3. /\ e \in RiskStates /\ e.window = w.rs.window /\ e.killed = w.rs.killed
      /\ e.hour = w.rs.hour /\ e.hourly = w.rs.hourly /\ e.trade = w.rs.trade
  BY <1>1, CallsBooked
<1>4. gone \in Books /\ sum \in Int
  BY <1>1 DEF Books
<1>5. kill \in BOOLEAN
  BY <1>1 DEF States
<1> SUFFICES Good(v) /\ Unsent(v) /\ v.st.pos = 0
  OBVIOUS
<1>6. /\ v \in Worlds /\ v.order = w.order
      /\ v.st.pos = 0 /\ v.st.units = 0 /\ v.st.dir = w.st.dir /\ v.st.running = w.st.running
      /\ a = "closed" => v.rs = r /\ v.brk = gone /\ v.booked = sum /\ v.st.killed = kill
      /\ a # "closed" => v.rs \in {w.rs, e} /\ v.booked = w.booked /\ v.st.killed = w.st.killed
      /\ a = "refused" => v.brk = w.brk
  <2> DEFINE k == [w.st EXCEPT !.killed = kill]
  <2>1. CASE a = "closed"
    <3>1. k \in States /\ k.dir = w.st.dir /\ k.running = w.st.running
      BY <1>1, <1>5 DEF States
    <3>2. k.killed = kill
      BY <1>1, Zenon DEF States
    <3>3. c = [[[[w EXCEPT !.rs = r] EXCEPT !.brk = gone] EXCEPT !.booked = sum] EXCEPT !.st = k]
      BY <1>1, <2>1 DEF ClosePosition, Worlds
    <3> HIDE DEF r, gone, sum, kill, k, c
    <3>4. c \in Worlds /\ c.rs = r /\ c.brk = gone /\ c.booked = sum /\ c.st = k /\ c.order = w.order
      BY <1>1, <1>2, <1>4, <3>1, <3>3 DEF Worlds
    <3> QED BY <2>1, <3>1, <3>2, <3>4, FlatIs
  <2>2. CASE a = "refused"
    <3>1. c = [w EXCEPT !.rs = e]
      BY <2>2 DEF ClosePosition
    <3> HIDE DEF e, c
    <3>2. c \in Worlds /\ c.rs = e /\ c.brk = w.brk /\ c.booked = w.booked /\ c.st = w.st /\ c.order = w.order
      BY <1>1, <1>3, <3>1 DEF Worlds
    <3> QED BY <2>2, <3>2, FlatIs
  <2>3. CASE a = "lost"
    <3>1. c = [[w EXCEPT !.rs = e] EXCEPT !.brk = gone]
      BY <1>1, <2>3 DEF ClosePosition, Worlds
    <3> HIDE DEF e, gone, c
    <3>2. c \in Worlds /\ c.rs = e /\ c.booked = w.booked /\ c.st = w.st /\ c.order = w.order
      BY <1>1, <1>3, <1>4, <3>1 DEF Worlds
    <3> QED BY <2>3, <3>2, FlatIs
  <2>4. CASE a = "unknown"
    <3>1. c = w
      BY <2>4 DEF ClosePosition
    <3> HIDE DEF c
    <3> QED BY <2>4, <3>1, <1>1, FlatIs
  <2>5. a \in {"closed", "unknown", "refused", "lost"}
    BY DEF CloseAnswers
  <2> QED BY <2>1, <2>2, <2>3, <2>4, <2>5
<1>7. gone.units = 0 /\ gone.cash = w.brk.cash + pnl /\ sum = w.booked + pnl
  OBVIOUS
<1> HIDE DEF v, c, r0, r, gone, e, sum
<1>8. /\ v.rs \in RiskStates /\ v.rs.killed = w.rs.killed /\ v.rs.hour = w.rs.hour
      /\ v.rs.hourly = w.rs.hourly /\ v.rs.trade = w.rs.trade /\ Len(v.rs.window) <= WindowCap
  BY <1>1, <1>2, <1>3, <1>6 DEF WellFormed
<1>9. WellFormed(v)
  BY <1>1, <1>6, <1>8 DEF WellFormed
<1>10. Balanced(v)
  <2>1. SUFFICES ASSUME Faults = {}
                 PROVE  /\ v.brk.units = 0
                        /\ ~Cfg.stops /\ ~v.rs.killed => v.brk.cash = Cfg.equity + v.booked
    BY <1>6 DEF Balanced
  <2>2. ~Cfg.stops /\ ~w.rs.killed => w.brk.cash = Cfg.equity + w.booked
    BY <2>1 DEF Good, Balanced
  <2>3. CASE a = "closed"
    <3>1. v.brk = gone /\ v.booked = sum /\ w.brk.cash \in Int /\ Cfg.equity \in Int
      BY <1>1, <1>6, <2>3, ConfigTypes DEF Books
    <3> QED BY <1>1, <1>7, <1>8, <2>2, <3>1
  <2>4. CASE a # "closed"
    <3>1. a = "refused" /\ brk.units = 0
      BY <2>1, <2>4 DEF CloseAnswers
    <3> QED BY <1>6, <1>8, <2>2, <2>4, <3>1
  <2> QED BY <2>3, <2>4
<1>11. Counted(v)
  BY <1>6, <1>8 DEF Good, Counted
<1>12. Seen(v)
  <2>1. SUFFICES ASSUME Cfg.enabled, Cfg.useRolling, Cfg.minWinRate > 0, Cfg.rolling > 0, v.booked # booked,
                        Len(v.rs.window) >= Cfg.rolling, \A k \in DOMAIN v.rs.window : v.rs.window[k] <= 0
                 PROVE  v.st.killed
    BY DEF Seen
  <2>2. v.rs = r /\ v.st.killed = kill
    BY <1>6, <2>1
  <2>3. Monitors(Cfg, r) # {}
    BY <1>2, <2>1, <2>2, LossesFire
  <2> QED BY <2>2, <2>3
<1>13. Unsent(v) /\ v.st.pos = 0
  BY <1>6, <1>8 DEF Unsent
<1> QED BY <1>9, <1>10, <1>11, <1>12, <1>13 DEF Good

(* After the look at the stops the world is good, and unless the engine is *)
(* flat nothing has happened yet.                                          *)
LEMMA StopsAreGood ==
  ASSUME LiveAssumption, Inv, ~stopped, st.signals < session.signals, NEW s \in Scenes
  PROVE  LET v == AfterStops(s.hit, s.close, s.pnl)
         IN Good(v) /\ Unsent(v) /\ (v.st.pos # 0 => v.brk = brk /\ v.booked = booked)
<1> DEFINE u == Flat(ClosePosition(World, s.close, s.pnl))
           v == AfterStops(s.hit, s.close, s.pnl)
<1>1. Good(World) /\ Unsent(World) /\ World.brk = brk /\ World.booked = booked /\ session \in Sessions
  BY WorldIsGood DEF Inv, TypeOK
<1>2. s.close \in CloseAnswers /\ s.pnl \in Pnls
  BY DEF Scenes
<1>3. CASE v = World
  BY <1>1, <1>3
<1>4. CASE v # World
  <2>1. st.pos # 0 /\ v = [u EXCEPT !.st.levels = FALSE] /\ World.st.pos = st.pos
    BY <1>4 DEF AfterStops, World, Inv, TypeOK
  <2> HIDE DEF v
  <2>2. Good(u) /\ Unsent(u) /\ u.st.pos = 0
    BY <1>1, <1>2, <2>1, CloseIsGood
  <2> HIDE DEF u
  <2>3. u \in Worlds /\ u.st \in States
    BY <2>2 DEF Good, WellFormed, Worlds
  <2> DEFINE f == [u.st EXCEPT !.levels = FALSE]
  <2>4. /\ f \in States /\ f.pos = u.st.pos /\ f.units = u.st.units /\ f.dir = u.st.dir
        /\ f.running = u.st.running
    BY <2>3 DEF States
  <2>5. f.killed = u.st.killed
    BY <2>3 DEF States
  <2>6. v = [u EXCEPT !.st = f]
    BY <2>1
  <2> HIDE DEF f
  <2>7. v \in Worlds /\ v.st = f /\ v.rs = u.rs /\ v.brk = u.brk /\ v.booked = u.booked /\ v.order = u.order
    BY <2>3, <2>4, <2>6 DEF Worlds
  <2>8. WellFormed(v) /\ Balanced(v) /\ Counted(v) /\ Seen(v) /\ Unsent(v)
    BY <2>2, <2>4, <2>5, <2>7 DEF Good, WellFormed, Balanced, Counted, Seen, Unsent
  <2> QED BY <2>2, <2>4, <2>7, <2>8 DEF Good, v
<1> QED BY <1>3, <1>4

(* After the exit the engine is flat, and still nothing was sent.          *)
LEMMA ExitIsGood ==
  ASSUME LiveAssumption, session \in Sessions, NEW w, Good(w), Unsent(w),
         w.st.pos # 0 => w.brk = brk /\ w.booked = booked, NEW a \in CloseAnswers, NEW pnl \in Pnls
  PROVE  LET v == AfterExit(w, a, pnl)
         IN Good(v) /\ Unsent(v) /\ v.st.pos = 0
<1>1. CASE w.st.pos = 0
  BY <1>1 DEF AfterExit
<1>2. CASE w.st.pos # 0
  BY <1>2, CloseIsGood DEF AfterExit
<1> QED BY <1>1, <1>2

(* An engine that takes itself for killed is as good.                      *)
LEMMA KillIsGood ==
  ASSUME NEW w, Good(w)
  PROVE  LET v == EmitKill(w)
         IN Good(v) /\ v.order = w.order /\ v.rs = w.rs /\ v.booked = w.booked
<1> DEFINE v == EmitKill(w)
           f == [w.st EXCEPT !.running = FALSE, !.killed = TRUE]
<1>1. w \in Worlds /\ w.st \in States
  BY DEF Good, WellFormed, Worlds
<1>2. f \in States
  BY <1>1, Zenon DEF States
<1>3. f.pos = w.st.pos /\ f.units = w.st.units /\ f.dir = w.st.dir /\ ~f.running /\ f.killed
  BY <1>1 DEF States
<1>4. v = [w EXCEPT !.st = f]
  BY DEF EmitKill
<1> HIDE DEF f, v
<1>5. v \in Worlds /\ v.st = f /\ v.rs = w.rs /\ v.brk = w.brk /\ v.booked = w.booked /\ v.order = w.order
  BY <1>1, <1>2, <1>4 DEF Worlds
<1>6. WellFormed(v) /\ Balanced(v) /\ Counted(v) /\ Seen(v)
  BY <1>3, <1>5 DEF Good, WellFormed, Balanced, Counted, Seen
<1> QED BY <1>5, <1>6 DEF Good, v

(* The checks before an order read the account and roll the hour.          *)
LEMMA ChecksAreGood ==
  ASSUME LiveAssumption, session \in Sessions, now \in Nat, NEW w, Good(w), Unsent(w), NEW a
  PROVE  LET v == Checked(w, a)
         IN /\ Good(v) /\ Unsent(v) /\ v.st = w.st /\ v.booked = w.booked
            /\ Cfg.enabled => v.rs.hour = now \div HourTicks
<1> DEFINE v == Checked(w, a)
           x == IF w.brk.cash > 0 THEN w.brk.cash ELSE w.rs.equity
           y == [w.rs EXCEPT !.equity = x]
           r == IF a # "ok" THEN RecordApiError(w.rs) ELSE RecordApiSuccess(y)
           q == RollHour(Cfg, r, now)
<1>1. w \in Worlds /\ w.rs \in RiskStates /\ w.brk \in Books /\ w.order \in Orders
  BY DEF Good, WellFormed, Worlds
<1>2. x \in Int
  BY <1>1 DEF Books, RiskStates
<1>3. y \in RiskStates
  BY <1>1, <1>2 DEF RiskStates
<1>4. /\ y.window = w.rs.window /\ y.killed = w.rs.killed /\ y.hour = w.rs.hour
      /\ y.hourly = w.rs.hourly /\ y.trade = w.rs.trade
  BY <1>1 DEF RiskStates
<1>5. ReadAccount(w, a) = [w EXCEPT !.rs = r]
  <2>1. CASE a # "ok"
    BY <2>1 DEF ReadAccount
  <2>2. CASE a = "ok"
    BY <2>2 DEF ReadAccount
  <2> QED BY <2>1, <2>2
<1> HIDE DEF x, y
<1>6. /\ r \in RiskStates /\ r.window = w.rs.window /\ r.killed = w.rs.killed /\ r.hour = w.rs.hour
      /\ r.hourly = w.rs.hourly /\ r.trade = w.rs.trade
  <2>1. CASE a # "ok"
    BY <1>1, <2>1, CallsBooked
  <2>2. CASE a = "ok"
    <3>1. r = RecordApiSuccess(y)
      BY <2>2
    <3> HIDE DEF r
    <3> QED BY <1>3, <1>4, <3>1, CallsBooked
  <2> QED BY <2>1, <2>2
<1> HIDE DEF r
<1>7. v = [w EXCEPT !.rs = q]
  BY <1>1, <1>5 DEF Checked, Worlds
<1>8. /\ q \in RiskStates /\ q.window = w.rs.window /\ q.killed = w.rs.killed /\ q.trade = w.rs.trade
      /\ Cfg.enabled => q.hour = now \div HourTicks
      /\ q.hour = w.rs.hour => q.hourly = w.rs.hourly
  BY <1>6, HourRolled
<1> HIDE DEF q, v
<1>9. v \in Worlds /\ v.rs = q /\ v.st = w.st /\ v.brk = w.brk /\ v.booked = w.booked /\ v.order = w.order
  BY <1>1, <1>7, <1>8 DEF Worlds
<1>10. WellFormed(v) /\ Balanced(v) /\ Seen(v) /\ Unsent(v)
  BY <1>8, <1>9 DEF Good, WellFormed, Balanced, Seen, Unsent
<1>11. Counted(v)
  <2>1. SUFFICES ASSUME GatesSeeOrders
                 PROVE  /\ q.hour <= now \div HourTicks /\ w.order.hourly <= Cfg.maxHourly
                        /\ w.order.at # Never =>
                             /\ q.trade = w.order.at /\ (~w.order.flat => w.st.dir # 0)
                             /\ w.order.at \div HourTicks <= q.hour
                             /\ w.order.at \div HourTicks = q.hour => w.order.hourly <= q.hourly
    BY <1>9 DEF Counted
  <2> DEFINE h == now \div HourTicks
             o == w.order.at \div HourTicks
  <2>2. h \in Nat /\ w.rs.hour \in Nat /\ (w.order.at # Never => o \in Nat) /\ q.hour = h
    <3>1. w.order.at # Never => w.order.at \in Nat
      BY <1>1 DEF Orders
    <3>2. HourTicks \in Nat \ {0}
      BY DEF LiveAssumption
    <3>3. h \in Nat /\ (w.order.at # Never => o \in Nat)
      BY <3>1, <3>2, HoursGrow
    <3>4. w.rs.hour \in Nat /\ q.hour = h
      BY <1>1, <1>8, <2>1 DEF RiskStates, GatesSeeOrders
    <3> QED BY <3>3, <3>4
  <2>3. /\ w.rs.hour <= h /\ w.order.hourly <= Cfg.maxHourly
        /\ w.order.at # Never =>
             /\ w.rs.trade = w.order.at /\ (~w.order.flat => w.st.dir # 0) /\ o <= w.rs.hour
             /\ o = w.rs.hour => w.order.hourly <= w.rs.hourly
    BY <2>1 DEF Good, Counted
  <2> HIDE DEF h, o
  <2>4. q.trade = w.rs.trade /\ (q.hour = w.rs.hour => q.hourly = w.rs.hourly)
    BY <1>8
  <2>5. /\ q.hour <= h
        /\ w.order.at # Never => o <= q.hour /\ (o = q.hour => w.order.hourly <= q.hourly)
    BY <2>2, <2>3, <2>4
  <2> QED BY <2>3, <2>4, <2>5 DEF h, o
<1> QED BY <1>8, <1>9, <1>10, <1>11 DEF Good, v

(* Gates that let an order pass have counted and timed it.                 *)
LEMMA GatesPassed ==
  ASSUME NEW w, NEW target, NEW s, Refusals(w, target, s) = {}, Cfg.enabled
  PROVE  /\ ~(w.rs.hourly >= Cfg.maxHourly)
         /\ ~(w.rs.trade # Never /\ now - w.rs.trade < CooldownNeeded(Cfg, target, w.st.dir))
<1>1. "G3" \notin Refusals(w, target, s) /\ "G5" \notin Refusals(w, target, s)
  OBVIOUS
<1> QED BY <1>1, Zenon DEF Refusals, Blocked

(* An order that the gates let pass, whatever the broker answers.          *)
LEMMA OrderIsGood ==
  ASSUME LiveAssumption, session \in Sessions, now \in Nat, NEW w, Good(w), w.st.pos = 0,
         NEW target \in {-1, 1}, NEW s \in Scenes, Refusals(w, target, s) = {},
         Cfg.enabled => w.rs.hour = now \div HourTicks
  PROVE  LET v == PlaceOrder(w, target, s.order)
         IN Good(v) /\ v.rs.killed = w.rs.killed
<1> DEFINE v == PlaceOrder(w, target, s.order)
           e == RecordApiError(w.rs)
           f == RecordTradeSubmission(RecordApiSuccess(w.rs), now)
           n == [w.brk EXCEPT !.units = @ + Units]
           o == Sent(w.order, target)
           kept == [w.st EXCEPT !.levels = FALSE]
           open == [w.st EXCEPT !.pos = target, !.units = Units, !.dir = target, !.levels = @ \/ Cfg.stops]
<1>1. /\ w \in Worlds /\ w.st \in States /\ w.rs \in RiskStates /\ w.brk \in Books
      /\ w.order \in Orders /\ w.booked \in Int
  BY DEF Good, WellFormed, Worlds
<1>2. Units \in Nat /\ Units # 0
  BY ConfigTypes DEF Units
<1>3. /\ e \in RiskStates /\ e.window = w.rs.window /\ e.killed = w.rs.killed
      /\ e.hour = w.rs.hour /\ e.hourly = w.rs.hourly /\ e.trade = w.rs.trade
  BY <1>1, CallsBooked
<1>4. /\ f \in RiskStates /\ f.window = w.rs.window /\ f.killed = w.rs.killed
      /\ f.hour = w.rs.hour /\ f.hourly = w.rs.hourly + 1 /\ f.trade = now
  <2> DEFINE g == RecordApiSuccess(w.rs)
  <2>1. /\ g \in RiskStates /\ g.window = w.rs.window /\ g.killed = w.rs.killed
        /\ g.hour = w.rs.hour /\ g.hourly = w.rs.hourly
    BY <1>1, CallsBooked
  <2> HIDE DEF g
  <2>2. /\ RecordTradeSubmission(g, now) \in RiskStates
        /\ LET q == RecordTradeSubmission(g, now)
           IN /\ q.window = g.window /\ q.killed = g.killed /\ q.hour = g.hour
              /\ q.hourly = g.hourly + 1 /\ q.trade = now
    BY <2>1, CallsBooked
  <2> QED BY <2>1, <2>2 DEF g
<1>5. n \in Books /\ n.units = w.brk.units + Units /\ n.cash = w.brk.cash
  BY <1>1, <1>2 DEF Books
<1>6. /\ o \in Orders /\ o.at = now /\ ~o.flat
      /\ o.hourly = IF w.order.at # Never /\ w.order.at \div HourTicks = now \div HourTicks
                    THEN w.order.hourly + 1 ELSE 1
  BY <1>1 DEF Sent, Orders
<1>7. /\ kept \in States /\ kept.pos = w.st.pos /\ kept.units = w.st.units /\ kept.dir = w.st.dir
      /\ kept.running = w.st.running
  BY <1>1 DEF States
<1>8. kept.killed = w.st.killed
  BY <1>1 DEF States
<1>9. open \in States
  BY <1>1, Zenon, ConfigTypes DEF States
<1>10. open.pos = target /\ open.units = Units /\ open.dir = target /\ open.running = w.st.running
  BY <1>1 DEF States
<1>11. open.killed = w.st.killed
  BY <1>1 DEF States
<1>12. s.order \in {"filled"} \cup (Faults \cap {"order", "lost"})
  BY DEF Scenes, OrderAnswers
<1>13. /\ v \in Worlds /\ v.booked = w.booked /\ (v.st.killed = w.st.killed) /\ v.st.running = w.st.running
       /\ s.order = "filled" => v.rs = f /\ v.brk = n /\ v.order = o /\ v.st = open
       /\ s.order = "order" => v.rs = e /\ v.brk = w.brk /\ v.order = w.order /\ v.st = kept
       /\ s.order = "lost" => v.rs = e /\ v.brk = n /\ v.order = o /\ v.st = kept
  <2>1. CASE s.order = "filled"
    <3> DEFINE b == [w EXCEPT !.brk.units = @ + Units, !.order = Sent(@, target)]
    <3>0. b.st = w.st /\ b.rs = w.rs /\ b = [[w EXCEPT !.brk = n] EXCEPT !.order = o]
      BY <1>1 DEF Worlds
    <3>a. v = [b EXCEPT !.st = open, !.rs = RecordTradeSubmission(RecordApiSuccess(b.rs), now)]
      <4>1. s.order # "order" /\ ~(s.order # "filled")
        BY <2>1
      <4> QED BY <4>1, Zenon DEF PlaceOrder
    <3> HIDE DEF v, b
    <3>b. v = [b EXCEPT !.st = open, !.rs = f]
      BY <3>0, <3>a
    <3> HIDE DEF n, o, open, f
    <3>1. v = [[[[w EXCEPT !.brk = n] EXCEPT !.order = o] EXCEPT !.st = open] EXCEPT !.rs = f]
      BY <1>1, <3>0, <3>b DEF Worlds
    <3> HIDE DEF v, n, o, open, f
    <3> QED BY <1>1, <1>4, <1>5, <1>6, <1>9, <1>10, <1>11, <2>1, <3>1 DEF Worlds
  <2>2. CASE s.order = "order"
    <3>1. v = [w EXCEPT !.rs = e, !.st = kept]
      BY <1>1, <2>2 DEF PlaceOrder
    <3> HIDE DEF v, e, kept
    <3> QED BY <1>1, <1>3, <1>7, <1>8, <2>2, <3>1 DEF Worlds
  <2>3. CASE s.order = "lost"
    <3>1. v = [[[[w EXCEPT !.brk = n] EXCEPT !.order = o] EXCEPT !.rs = e] EXCEPT !.st = kept]
      BY <1>1, <2>3 DEF PlaceOrder, Worlds
    <3> HIDE DEF v, n, o, e, kept
    <3> QED BY <1>1, <1>3, <1>5, <1>6, <1>7, <1>8, <2>3, <3>1 DEF Worlds
  <2> QED BY <1>12, <2>1, <2>2, <2>3
<1> SUFFICES Good(v) /\ v.rs.killed = w.rs.killed
  OBVIOUS
<1> HIDE DEF v, e, f, n, o, kept, open
<1>14. s.order \in {"filled", "order", "lost"}
  BY <1>12
<1>15. WellFormed(v) /\ v.rs.killed = w.rs.killed
  <2>1. CASE s.order = "filled"
    BY <1>2, <1>4, <1>10, <1>13, <2>1 DEF Good, WellFormed
  <2>2. CASE s.order \in {"order", "lost"}
    BY <1>3, <1>7, <1>13, <2>2 DEF Good, WellFormed
  <2> QED BY <1>14, <2>1, <2>2
<1>16. Balanced(v)
  <2>1. SUFFICES ASSUME Faults = {} PROVE Balanced(v)
    BY DEF Balanced
  <2>2. s.order = "filled" /\ w.st.units = 0 /\ w.brk.units = 0
    BY <1>12, <2>1 DEF Good, Balanced, WellFormed
  <2> QED BY <1>2, <1>4, <1>5, <1>10, <1>13, <2>1, <2>2 DEF Good, Balanced
<1>17. Counted(v)
  <2>1. SUFFICES ASSUME GatesSeeOrders PROVE Counted(v)
    BY DEF Counted
  <2>2. s.order # "lost" /\ Cfg.enabled /\ Cfg.maxHourly \in Nat
    BY <1>12, <2>1, ConfigTypes DEF GatesSeeOrders
  <2>3. w.rs.hourly < Cfg.maxHourly /\ w.rs.hourly \in Nat
    <3>1. ~(w.rs.hourly >= Cfg.maxHourly)
      BY <2>2, GatesPassed
    <3>2. w.rs.hourly \in Nat
      BY <1>1 DEF RiskStates
    <3> QED BY <2>2, <3>1, <3>2
  <2>4. CASE s.order = "order"
    BY <1>3, <1>7, <1>13, <2>4 DEF Good, Counted
  <2>5. CASE s.order = "filled"
    <3> DEFINE h == now \div HourTicks
    <3>1. h \in Nat /\ w.rs.hour = h
      BY <2>2, HoursGrow DEF LiveAssumption
    <3>2. w.order.at # Never /\ w.order.at \div HourTicks = h => w.order.hourly <= w.rs.hourly
      BY <2>1, <3>1 DEF Good, Counted
    <3>3. o.hourly <= w.rs.hourly + 1 /\ w.order.hourly \in Nat
      BY <1>1, <1>6, <2>3, <3>2 DEF Orders
    <3>4. /\ v.rs.hour = h /\ v.order.hourly <= Cfg.maxHourly /\ v.rs.trade = v.order.at /\ v.st.dir # 0
          /\ v.order.at \div HourTicks = h /\ v.order.hourly <= v.rs.hourly
      <4>1. o.hourly \in Nat
        BY <1>6 DEF Orders
      <4> QED BY <1>4, <1>6, <1>10, <1>13, <2>2, <2>3, <2>5, <3>1, <3>3, <4>1
    <3> HIDE DEF h
    <3> QED BY <3>1, <3>4 DEF Counted, h
  <2> QED BY <1>14, <2>2, <2>4, <2>5
<1>18. Seen(v)
  <2>1. CASE s.order = "filled"
    BY <1>4, <1>13, <2>1 DEF Good, Seen
  <2>2. CASE s.order \in {"order", "lost"}
    BY <1>3, <1>13, <2>2 DEF Good, Seen
  <2> QED BY <1>14, <2>1, <2>2
<1> QED BY <1>15, <1>16, <1>17, <1>18 DEF Good

(* A FLAT signal, and a refused one, leave a good world.                   *)
LEMMA FlatSignalIsGood ==
  ASSUME NEW w, Good(w), Unsent(w)
  PROVE  LET v == [w EXCEPT !.st.dir = 0, !.order.flat = TRUE]
         IN Good(v) /\ v.order.at = w.order.at /\ v.order.hourly = w.order.hourly /\ v.rs = w.rs
<1> DEFINE v == [w EXCEPT !.st.dir = 0, !.order.flat = TRUE]
           f == [w.st EXCEPT !.dir = 0]
           o == [w.order EXCEPT !.flat = TRUE]
<1>1. w \in Worlds /\ w.st \in States /\ w.order \in Orders
  BY DEF Good, WellFormed, Worlds
<1>2. /\ f \in States /\ f.pos = w.st.pos /\ f.units = w.st.units /\ f.running = w.st.running
  BY <1>1 DEF States
<1>3. f.killed = w.st.killed
  BY <1>1 DEF States
<1>4. o \in Orders /\ o.at = w.order.at /\ o.hourly = w.order.hourly /\ o.flat
  BY <1>1 DEF Orders
<1>5. v = [[w EXCEPT !.st = f] EXCEPT !.order = o]
  BY <1>1 DEF Worlds
<1> HIDE DEF f, o, v
<1>6. v \in Worlds /\ v.st = f /\ v.order = o /\ v.rs = w.rs /\ v.brk = w.brk /\ v.booked = w.booked
  BY <1>1, <1>2, <1>4, <1>5 DEF Worlds
<1>7. WellFormed(v) /\ Balanced(v) /\ Counted(v) /\ Seen(v)
  BY <1>2, <1>3, <1>4, <1>6 DEF Good, WellFormed, Balanced, Counted, Seen
<1> QED BY <1>4, <1>6, <1>7 DEF Good, v

LEMMA RefusedIsGood ==
  ASSUME NEW w, Good(w), Unsent(w), NEW target \in {-1, 1}
  PROVE  LET v == [w EXCEPT !.st.dir = target]
         IN Good(v) /\ v.order = w.order /\ v.rs = w.rs
<1> DEFINE v == [w EXCEPT !.st.dir = target]
           f == [w.st EXCEPT !.dir = target]
<1>1. w \in Worlds /\ w.st \in States
  BY DEF Good, WellFormed, Worlds
<1>2. /\ f \in States /\ f.pos = w.st.pos /\ f.units = w.st.units /\ f.running = w.st.running
      /\ f.dir # 0
  BY <1>1 DEF States
<1>3. f.killed = w.st.killed
  BY <1>1 DEF States
<1>4. v = [w EXCEPT !.st = f]
  OBVIOUS
<1> HIDE DEF f, v
<1>5. v \in Worlds /\ v.st = f /\ v.order = w.order /\ v.rs = w.rs /\ v.brk = w.brk /\ v.booked = w.booked
  BY <1>1, <1>2, <1>4 DEF Worlds
<1>6. WellFormed(v) /\ Balanced(v) /\ Counted(v) /\ Seen(v)
  BY <1>2, <1>3, <1>5 DEF Good, WellFormed, Balanced, Counted, Seen
<1> QED BY <1>5, <1>6 DEF Good, v

(* A signal leaves a good world, and sends no order too early.             *)
LEMMA SignalIsGood ==
  ASSUME LiveAssumption, Inv, ~stopped, st.signals < session.signals, NEW target \in {-1, 0, 1}, NEW s \in Scenes
  PROVE  LET w == Processed(target, s)
         IN Good(w) /\ Spaced(w) /\ w.rs.killed = rs.killed
<1> DEFINE w1 == AfterStops(s.hit, s.close, s.pnl)
           w2 == AfterExit(w1, s.close, s.pnl)
           w3 == Checked(w2, s.account)
           w  == Processed(target, s)
           u  == [World EXCEPT !.st = st]
<1> SUFFICES Good(w) /\ Spaced(w) /\ w.rs.killed = rs.killed
  OBVIOUS
<1>1. session \in Sessions /\ now \in Nat /\ s.close \in CloseAnswers /\ s.pnl \in Pnls
  <2>1. session \in Sessions /\ now \in 0..session.time
    BY DEF Inv, TypeOK
  <2>2. now \in Nat
    BY <2>1, ConfigTypes
  <2> QED BY <2>1, <2>2 DEF Scenes
<1>2. Good(u) /\ Unsent(u)
  BY WorldIsGood
<1>3. Good(w1) /\ Unsent(w1) /\ (w1.st.pos # 0 => w1.brk = brk /\ w1.booked = booked)
  BY StopsAreGood
<1> HIDE DEF w1, u
<1>4. Good(w2) /\ Unsent(w2) /\ w2.st.pos = 0
  BY <1>1, <1>3, ExitIsGood
<1> HIDE DEF w2
<1>5. /\ Good(w3) /\ Unsent(w3) /\ w3.st.pos = 0
      /\ Cfg.enabled => w3.rs.hour = now \div HourTicks
  BY <1>1, <1>4, ChecksAreGood
<1> HIDE DEF w3
<1>6. w = IF Guards(Cfg, World.rs, now, s.bad) # {} THEN EmitKill(u)
          ELSE IF Holds(w1, target) THEN w1
          ELSE IF KillNoticed(w2, target) THEN EmitKill(w2)
          ELSE IF target = 0 THEN [w2 EXCEPT !.st.dir = 0, !.order.flat = TRUE]
          ELSE IF Refusals(w3, target, s) # {} THEN [w3 EXCEPT !.st.dir = target]
          ELSE PlaceOrder(w3, target, s.order)
  BY Zenon DEF Processed, w1, w2, w3, u
<1> HIDE DEF w
<1>7. CASE w = EmitKill(u)
  BY <1>2, <1>7, KillIsGood DEF Unsent, Spaced
<1>8. CASE w = w1
  BY <1>3, <1>8 DEF Unsent, Spaced
<1>9. CASE w = EmitKill(w2)
  BY <1>4, <1>9, KillIsGood DEF Unsent, Spaced
<1>10. CASE w = [w2 EXCEPT !.st.dir = 0, !.order.flat = TRUE]
  BY <1>4, <1>10, FlatSignalIsGood DEF Unsent, Spaced
<1>11. CASE target # 0 /\ w = [w3 EXCEPT !.st.dir = target]
  BY <1>5, <1>11, RefusedIsGood DEF Unsent, Spaced
<1>12. CASE /\ ~KillNoticed(w2, target) /\ target # 0 /\ Refusals(w3, target, s) = {}
            /\ w = PlaceOrder(w3, target, s.order)
  <2>1. target \in {-1, 1}
    BY <1>12
  <2>2. Good(w) /\ w.rs.killed = w3.rs.killed
    BY <1>1, <1>5, <1>12, <2>1, OrderIsGood
  <2>3. ~rs.killed
    BY <1>4, <1>12 DEF KillNoticed, Unsent
  <2>4. ASSUME GatesSeeOrders, order.at # Never, ~order.flat
        PROVE  \E gap \in {Cfg.cooldown, Cfg.reversal} : now - order.at >= gap
    <3>1. rs.trade = order.at /\ st.dir # 0
      BY <2>4 DEF Inv, Counted, This
    <3>2. w3.rs.trade = order.at /\ w3.st.dir # 0
      BY <1>5, <3>1 DEF Unsent
    <3>3. ~(w3.rs.trade # Never /\ now - w3.rs.trade < CooldownNeeded(Cfg, target, w3.st.dir))
      BY <1>12, <2>4, GatesPassed DEF GatesSeeOrders
    <3>4. PICK gap \in {Cfg.cooldown, Cfg.reversal} : CooldownNeeded(Cfg, target, w3.st.dir) = gap
      BY <3>2 DEF CooldownNeeded
    <3>5. gap \in Int /\ order.at \in Int
      BY <1>1, <2>4, ConfigTypes DEF Inv, TypeOK
    <3> QED BY <1>1, <2>4, <3>2, <3>3, <3>4, <3>5
  <2> QED BY <1>5, <2>2, <2>3, <2>4 DEF Spaced, Unsent
<1> QED BY <1>6, <1>7, <1>8, <1>9, <1>10, <1>11, <1>12

-----------------------------------------------------------------------------
(* The steps of the session.                                               *)

LEMMA Starts ==
  ASSUME LiveAssumption, Init
  PROVE  Inv
<1>1. session \in Sessions /\ Cfg.equity \in Int /\ Cfg.maxHourly \in Nat /\ session.time \in Nat
      /\ session.signals \in Nat /\ WindowCap \in Nat
  BY ConfigTypes DEF Init, LiveAssumption
<1>2. rs \in RiskStates /\ Len(rs.window) = 0 /\ ~rs.killed /\ rs.hour = 0
  BY <1>1 DEF Init, NewSessionState, RiskStates, Never
<1>3. st \in States /\ st.pos = 0 /\ st.units = 0
  BY <1>1 DEF Init, States
<1>4. order \in Orders /\ order.at = Never /\ order.hourly = 0
  BY DEF Init, Orders
<1>5. brk \in Books /\ brk.units = 0 /\ brk.cash = Cfg.equity /\ booked = 0
  BY <1>1 DEF Init, Books
<1>6. TypeOK
  <2>1. now \in 0..session.time /\ stopped \in BOOLEAN /\ booked \in Int
    <3>1. now = 0 /\ stopped = FALSE
      BY DEF Init
    <3>2. 0 \in 0..session.time /\ booked \in Int
      BY <1>1, <1>5
    <3>3. stopped \in BOOLEAN
      BY <3>1
    <3> QED BY <3>1, <3>2, <3>3
  <2>2. Len(rs.window) <= WindowCap
    BY <1>1, <1>2
  <2> QED BY <1>1, <1>2, <1>3, <1>4, <1>5, <2>1, <2>2 DEF TypeOK, States, Orders, Books
<1>7. Balanced(This) /\ BooksAgree
  BY <1>1, <1>2, <1>3, <1>5 DEF Balanced, BooksAgree, BrokerHoldsNoMore, JournalBalances, This
<1>8. Counted(This)
  <2>1. 0 <= now \div HourTicks
    <3>1. now = 0 /\ HourTicks \in Nat \ {0}
      BY DEF Init, LiveAssumption
    <3> QED BY <3>1
  <2> QED BY <1>1, <1>2, <1>4, <2>1 DEF Counted, This
<1> QED BY <1>6, <1>7, <1>8 DEF Inv

(* Time passes, and the count of an hour that is over is not of this one.  *)
LEMMA TickKeeps ==
  ASSUME LiveAssumption, Inv, Tick
  PROVE  Inv'
<1>1. session' = session /\ st' = st /\ rs' = rs /\ brk' = brk /\ stopped' = stopped /\ booked' = booked
      /\ order' = order /\ now' = now + 1 /\ now < session.time
  BY DEF Tick
<1>2. session \in Sessions /\ now \in 0..session.time /\ session.time \in Nat
  BY ConfigTypes DEF Inv, TypeOK
<1>3. now' \in 0..session.time /\ now \in Nat /\ now' \in Nat
  BY <1>1, <1>2
<1>4. TypeOK'
  BY <1>1, <1>3 DEF Inv, TypeOK, Units, Cfg
<1>5. (~stopped => Balanced(This))' /\ BooksAgree'
  BY <1>1 DEF Inv, Balanced, This, BooksAgree, BrokerHoldsNoMore, JournalBalances, Cfg, Faults
<1>6. Counted(This)'
  <2>1. now \div HourTicks <= now' \div HourTicks /\ now \div HourTicks \in Nat /\ now' \div HourTicks \in Nat
    <3> DEFINE m == now'
    <3>1. HourTicks \in Nat \ {0} /\ now <= m /\ m \in Nat
      BY <1>1, <1>3 DEF LiveAssumption
    <3> HIDE DEF m
    <3>2. now \div HourTicks <= m \div HourTicks /\ now \div HourTicks \in Nat
      BY <1>3, <3>1, HoursGrow
    <3>3. m \div HourTicks \in Nat
      BY <3>1, HoursGrow
    <3> QED BY <3>2, <3>3 DEF m
  <2>2. rs.hour \in Nat
    BY DEF Inv, TypeOK, RiskStates
  <2> DEFINE h == now \div HourTicks
             k == now' \div HourTicks
  <2>3. GatesSeeOrders => rs.hour <= h
    BY DEF Inv, Counted, This
  <2>4. GatesSeeOrders => rs.hour <= k
    BY <2>1, <2>2, <2>3
  <2> QED BY <1>1, <2>4 DEF Inv, Counted, This, GatesSeeOrders, Cfg, Faults
<1> QED BY <1>4, <1>5, <1>6 DEF Inv

(* The broker's own close is one the engine does not hear of.              *)
LEMMA BrokerKeeps ==
  ASSUME LiveAssumption, Inv, NEW pnl \in Pnls, BrokerStops(pnl)
  PROVE  Inv'
<1>1. session' = session /\ st' = st /\ rs' = rs /\ stopped' = stopped /\ booked' = booked
      /\ order' = order /\ now' = now /\ Cfg.stops /\ brk' = [units |-> 0, cash |-> brk.cash + pnl]
  BY DEF BrokerStops
<1>2. brk' \in [units : Nat, cash : Int] /\ brk'.units = 0
  BY <1>1 DEF Inv, TypeOK, LiveAssumption
<1>3. TypeOK'
  BY <1>1, <1>2 DEF Inv, TypeOK, Units, Cfg
<1>4. (~stopped => Balanced(This))' /\ BooksAgree'
  BY <1>1, <1>2 DEF Inv, Balanced, This, BooksAgree, BrokerHoldsNoMore, JournalBalances, Cfg, Faults
<1>5. Counted(This)'
  BY <1>1 DEF Inv, Counted, This, GatesSeeOrders, Cfg, Faults
<1> QED BY <1>3, <1>4, <1>5 DEF Inv

(* What the broker holds after it was asked to close.                      *)
LEMMA ClosedAtBroker ==
  ASSUME LiveAssumption, Inv, NEW pnl \in Pnls, NEW a \in CloseAnswers, BrokerCloses(pnl, a)
  PROVE  brk' \in [units : Nat, cash : Int] /\ (Faults = {} => brk'.units = 0)
<1>1. brk \in [units : Nat, cash : Int] /\ pnl \in Int
  BY DEF Inv, TypeOK, LiveAssumption
<1>2. CASE a \in {"closed", "lost"} /\ brk.units # 0
  <2>1. brk' = [units |-> 0, cash |-> brk.cash + pnl] /\ brk.cash + pnl \in Int
    BY <1>1, <1>2 DEF BrokerCloses
  <2> QED BY <2>1
<1>3. CASE ~(a \in {"closed", "lost"} /\ brk.units # 0)
  <2>1. brk' = brk
    BY <1>3 DEF BrokerCloses
  <2>2. Faults = {} => brk.units = 0
    BY <1>3 DEF CloseAnswers
  <2> QED BY <1>1, <2>1, <2>2
<1> QED BY <1>2, <1>3

LEMMA StopKeeps ==
  ASSUME LiveAssumption, Inv, NEW pnl \in Pnls, NEW a \in CloseAnswers, Stop(pnl, a)
  PROVE  Inv'
<1>1. session' = session /\ rs' = rs /\ stopped' /\ booked' = booked /\ order' = order /\ now' = now
      /\ st' = [st EXCEPT !.running = FALSE, !.pos = 0, !.units = 0]
      /\ ~stopped /\ stopped' \in BOOLEAN
  BY DEF Stop
<1>2. st \in States
  BY DEF Inv, TypeOK, States
<1>3. st' \in States
  BY <1>1, <1>2, Zenon DEF States
<1>4. st'.pos = 0 /\ st'.units = 0 /\ ~st'.running /\ st'.dir = st.dir
  BY <1>1, <1>2 DEF States
<1>5. brk' \in [units : Nat, cash : Int] /\ (Faults = {} => brk'.units = 0)
  <2>1. CASE st.pos # 0
    BY <2>1, ClosedAtBroker DEF Stop
  <2>2. CASE st.pos = 0
    <3>1. brk' = brk
      BY <2>2 DEF Stop
    <3>2. Faults = {} => brk.units = 0
      BY <1>1, <2>2 DEF Inv, TypeOK, Balanced, This
    <3> QED BY <3>1, <3>2 DEF Inv, TypeOK
  <2> QED BY <2>1, <2>2
<1>6. TypeOK'
  <2>1. st' \in States'
    BY <1>1, <1>3 DEF States, Units, Cfg
  <2> QED BY <1>1, <1>4, <1>5, <2>1 DEF Inv, TypeOK, States
<1>7. BooksAgree'
  BY <1>1, <1>4, <1>5 DEF BooksAgree, BrokerHoldsNoMore, JournalBalances, Cfg, Faults
<1>8. Counted(This)'
  BY <1>1, <1>4 DEF Inv, Counted, This, GatesSeeOrders, Cfg, Faults
<1> QED BY <1>1, <1>6, <1>7, <1>8 DEF Inv

LEMMA EmergencyKeeps ==
  ASSUME LiveAssumption, Inv, NEW pnl \in Pnls, NEW a \in CloseAnswers, EmergencyKill(pnl, a)
  PROVE  Inv'
<1>1. session' = session /\ booked' = booked /\ order' = order /\ now' = now /\ stopped' = stopped
      /\ st' = [st EXCEPT !.running = FALSE, !.killed = TRUE] /\ rs' = [rs EXCEPT !.killed = TRUE]
      /\ BrokerCloses(pnl, a)
  BY DEF EmergencyKill
<1>2. st \in States /\ rs \in RiskStates
  BY DEF Inv, TypeOK, States
<1>3. st' \in States
  BY <1>1, <1>2, Zenon DEF States
<1>4. st'.pos = st.pos /\ st'.units = st.units /\ ~st'.running /\ st'.dir = st.dir
  BY <1>1, <1>2 DEF States
<1>5. rs' \in RiskStates /\ rs'.killed /\ rs'.window = rs.window /\ rs'.hour = rs.hour
      /\ rs'.hourly = rs.hourly /\ rs'.trade = rs.trade
  BY <1>1, <1>2 DEF RiskStates
<1>6. brk' \in [units : Nat, cash : Int] /\ (Faults = {} => brk'.units = 0)
  BY <1>1, ClosedAtBroker
<1>7. TypeOK'
  <2>1. st' \in States'
    BY <1>1, <1>3 DEF States, Units, Cfg
  <2> QED BY <1>1, <1>4, <1>5, <1>6, <2>1 DEF Inv, TypeOK, States
<1>8. BooksAgree' /\ Balanced(This)'
  BY <1>1, <1>4, <1>5, <1>6 DEF BooksAgree, BrokerHoldsNoMore, JournalBalances, Balanced, This, Cfg, Faults
<1>9. Counted(This)'
  BY <1>1, <1>4, <1>5 DEF Inv, Counted, This, GatesSeeOrders, Cfg, Faults
<1> QED BY <1>1, <1>7, <1>8, <1>9 DEF Inv

(* The good world that a signal leaves is the next state.                  *)
LEMMA SignalKeeps ==
  ASSUME LiveAssumption, Inv, NEW target \in {-1, 0, 1}, NEW s \in Scenes, ProcessSignal(target, s)
  PROVE  Inv' /\ EmergencyIsFinal /\ LosingWindowKills /\ (GatesSeeOrders => GapWithoutFlat)
<1> DEFINE w == Processed(target, s)
<1>1. /\ ~stopped /\ st.signals < session.signals /\ session' = session /\ stopped' = stopped /\ now' = now
      /\ st' = w.st /\ rs' = w.rs /\ brk' = w.brk /\ booked' = w.booked /\ order' = w.order
  BY DEF ProcessSignal
<1>2. Good(w) /\ Spaced(w) /\ w.rs.killed = rs.killed
  BY <1>1, SignalIsGood
<1> HIDE DEF w
<1>3. TypeOK'
  <2>1. w \in Worlds /\ w.st \in States'
    BY <1>1, <1>2 DEF Good, WellFormed, Worlds, States, Units, Cfg
  <2> QED BY <1>1, <1>2, <2>1 DEF Inv, TypeOK, Good, WellFormed, Worlds, States, Books, Orders
<1>4. Balanced(This)' /\ BooksAgree'
  BY <1>1, <1>2 DEF Good, WellFormed, Worlds, States, Balanced, This, BooksAgree, BrokerHoldsNoMore,
                   JournalBalances, Cfg, Faults
<1>5. Counted(This)'
  BY <1>1, <1>2 DEF Good, Counted, This, GatesSeeOrders, Cfg, Faults
<1>6. EmergencyIsFinal
  BY <1>1, <1>2 DEF EmergencyIsFinal, Placed, Spaced
<1>7. LosingWindowKills
  BY <1>1, <1>2 DEF LosingWindowKills, Good, Seen
<1>8. GatesSeeOrders => GapWithoutFlat
  BY <1>1, <1>2 DEF GapWithoutFlat, Placed, Spaced
<1> QED BY <1>3, <1>4, <1>5, <1>6, <1>7, <1>8 DEF Inv

(* Nothing else sends an order or books a trade.                           *)
LEMMA OthersQuiet ==
  ASSUME Tick \/ (\E pnl \in Pnls : BrokerStops(pnl))
              \/ (\E pnl \in Pnls, a \in CloseAnswers : Stop(pnl, a) \/ EmergencyKill(pnl, a))
              \/ UNCHANGED vars
  PROVE  EmergencyIsFinal /\ LosingWindowKills /\ GapWithoutFlat
<1>1. order' = order /\ booked' = booked
  BY DEF Tick, BrokerStops, Stop, EmergencyKill, vars
<1> QED BY <1>1 DEF EmergencyIsFinal, LosingWindowKills, GapWithoutFlat, Placed

LEMMA InvKept ==
  ASSUME LiveAssumption, Inv, [Next]_vars
  PROVE  Inv' /\ EmergencyIsFinal /\ LosingWindowKills /\ (GatesSeeOrders => GapWithoutFlat)
<1>1. CASE Tick
  BY <1>1, TickKeeps, OthersQuiet
<1>2. ASSUME NEW target \in {-1, 0, 1}, NEW s \in Scenes, ProcessSignal(target, s)
      PROVE  Inv' /\ EmergencyIsFinal /\ LosingWindowKills /\ (GatesSeeOrders => GapWithoutFlat)
  BY <1>2, SignalKeeps
<1>3. ASSUME NEW pnl \in Pnls, BrokerStops(pnl)
      PROVE  Inv' /\ EmergencyIsFinal /\ LosingWindowKills /\ GapWithoutFlat
  BY <1>3, BrokerKeeps, OthersQuiet
<1>4. ASSUME NEW pnl \in Pnls, NEW a \in CloseAnswers, Stop(pnl, a)
      PROVE  Inv' /\ EmergencyIsFinal /\ LosingWindowKills /\ GapWithoutFlat
  BY <1>4, StopKeeps, OthersQuiet
<1>5. ASSUME NEW pnl \in Pnls, NEW a \in CloseAnswers, EmergencyKill(pnl, a)
      PROVE  Inv' /\ EmergencyIsFinal /\ LosingWindowKills /\ GapWithoutFlat
  BY <1>5, EmergencyKeeps, OthersQuiet
<1>6. CASE UNCHANGED vars
  <2>1. Inv'
    BY <1>6 DEF Inv, TypeOK, Units, Balanced, This, BooksAgree, BrokerHoldsNoMore, JournalBalances, Counted,
               GatesSeeOrders, Cfg, Faults, vars
  <2> QED BY <1>6, <2>1, OthersQuiet
<1> QED BY <1>1, <1>2, <1>3, <1>4, <1>5, <1>6 DEF Next

-----------------------------------------------------------------------------
(* The theorems.                                                           *)

(* The invariant, with the types of the engine, of its risk state, of the  *)
(* broker's account and of the history of orders.                          *)
THEOREM Inductive ==
  ASSUME LiveAssumption
  PROVE  Spec => []Inv
<1>1. Init => Inv
  BY Starts
<1>2. Inv /\ [Next]_vars => Inv'
  BY InvKept
<1> QED BY <1>1, <1>2, PTL DEF Spec

(* The engine's state, its risk state, the account and the last order keep *)
(* their types in every session.                                           *)
THEOREM TypesHold ==
  ASSUME LiveAssumption
  PROVE  Spec => []TypeOK
<1>1. Inv => TypeOK
  BY DEF Inv
<1> QED BY <1>1, Inductive, PTL

(* What the engine takes itself to hold and to have made is what the       *)
(* broker has, in every session in which the broker answers.               *)
THEOREM TheBooksAgree ==
  ASSUME LiveAssumption
  PROVE  Spec => []BooksAgree
<1>1. Inv => BooksAgree
  BY DEF Inv
<1> QED BY <1>1, Inductive, PTL

(* The gates keep the hourly number and the distance of the orders they    *)
(* see, whatever trades make and calls answer between them.                *)
THEOREM OrdersKeepTheirDistance ==
  ASSUME LiveAssumption
  PROVE  Spec => OrdersSpaced
<1>1. Inv => (GatesSeeOrders => HourlyCap)
  BY DEF Inv, Counted, This, HourlyCap
<1>2. Inv /\ [Next]_vars => [GatesSeeOrders => GapWithoutFlat]_vars
  BY InvKept
<1> QED BY <1>1, <1>2, Inductive, PTL DEF Spec, OrdersSpaced

(* After the emergency button no order is sent by any handler, and a close *)
(* that leaves a losing window kills the session.                          *)
THEOREM KillsStand ==
  ASSUME LiveAssumption
  PROVE  Spec => KillsAreFinal
<1>1. Inv /\ [Next]_vars => [EmergencyIsFinal /\ LosingWindowKills]_vars
  BY InvKept
<1> QED BY <1>1, Inductive, PTL DEF Spec, KillsAreFinal

-----------------------------------------------------------------------------
(* The session around an engine.                                           *)

(* What a session sends to its page.                                       *)
Events == {"signal", "kill", "stopped", "opened", "closed", "closedKilled", "tick", "none"}
Messages == [event : Events, subs : Seq(Events)]

(* A message that adds a trade to the page's journal, and those that wait.  *)
Tells(msg) == msg.event = "closed" \/ (msg.event = "signal" /\ Has(msg, "closed"))
Telling(q) == {i \in DOMAIN q : Tells(q[i])}
Told(q) == Cardinality(Telling(q))

(* Nothing is left of a session that was not started or that went down.    *)
Clean == task = NoTask /\ engine = NewEngine /\ ws = "off" /\ queue = <<>> /\ ~sess.killEvent

(* What leads to the properties: a queue with no more trades in it than    *)
(* were made, an engine that is stopped by a stop only, and a committee    *)
(* without a row.                                                          *)
SessionInv ==
  /\ SessionTypeOK /\ queue \in Seq(Messages) /\ (task.at # "none" => Len(queue) <= MaxQueue + 1)
  /\ (sess.status = "none" => Clean) /\ (~up => sess.status = "none")
  /\ (sess.status # "none" => page.trades + Told(queue) <= 2 * engine.trades)
  /\ (engine.trades <= MaxTrades \/ (~engine.open /\ engine.state # "on"))
  /\ (engine.state = "stopped" => sess.killEvent) /\ (kind = "committee" => row = "none")
  /\ NoGhostRow /\ StopSettles /\ KilledIsOff

(* Those messages are finitely many.                                       *)
LEMMA ToldIs ==
  ASSUME NEW q \in Seq(Messages)
  PROVE  IsFiniteSet(Telling(q)) /\ Told(q) \in Nat
<1>1. Telling(q) \subseteq 1..Len(q)
  BY DEF Telling
<1>2. IsFiniteSet(1..Len(q))
  BY LenProperties, FS_Interval
<1>3. IsFiniteSet(Telling(q))
  BY <1>1, <1>2, FS_Subset
<1> QED BY <1>3, FS_CardinalityType DEF Told

(* An empty queue tells nothing.                                           *)
LEMMA ToldNothing == Told(<<>>) = 0
<1>1. Telling(<<>>) = {}
  BY DEF Telling
<1> QED BY <1>1, FS_EmptySet DEF Told

(* A message that is put on the queue counts by itself,                    *)
LEMMA ToldMore ==
  ASSUME NEW q \in Seq(Messages), NEW msg \in Messages
  PROVE  /\ Append(q, msg) \in Seq(Messages) /\ Len(Append(q, msg)) = Len(q) + 1
         /\ Told(Append(q, msg)) = Told(q) + IF Tells(msg) THEN 1 ELSE 0
<1> DEFINE r == Append(q, msg)
<1>1. r \in Seq(Messages) /\ Len(r) = Len(q) + 1 /\ r[Len(q) + 1] = msg
      /\ \A i \in 1..Len(q) : r[i] = q[i]
  BY AppendProperties
<1>2. DOMAIN q = 1..Len(q) /\ DOMAIN r = 1..Len(q) + 1 /\ Len(q) \in Nat
  BY <1>1
<1>3. Len(q) + 1 \notin Telling(q)
  BY <1>2 DEF Telling
<1>4. CASE Tells(msg)
  <2>1. Telling(r) = Telling(q) \cup {Len(q) + 1}
    BY <1>1, <1>2, <1>4 DEF Telling
  <2> QED BY <1>1, <1>3, <1>4, <2>1, ToldIs, FS_AddElement DEF Told
<1>5. CASE ~Tells(msg)
  <2>1. Telling(r) = Telling(q)
    BY <1>1, <1>2, <1>5 DEF Telling
  <2> QED BY <1>1, <1>5, <2>1, ToldIs DEF Told
<1> QED BY <1>4, <1>5

(* Renumbering does not change a number.                                   *)
LEMMA Shifted ==
  ASSUME NEW S \in SUBSET Nat, IsFiniteSet(S)
  PROVE  Cardinality({i + 1 : i \in S}) = Cardinality(S)
<1> DEFINE T == {i + 1 : i \in S}
           f == [i \in S |-> i + 1]
<1>1. f \in [S -> T] /\ \A i \in S : f[i] = i + 1
  OBVIOUS
<1>2. \A i, k \in S : f[i] = f[k] => i = k
  BY <1>1
<1>3. \A t \in T : \E i \in S : f[i] = t
  BY <1>1
<1> HIDE DEF f
<1>4. f \in Bijection(S, T)
  BY <1>1, <1>2, <1>3, Fun_IsBij
<1>5. ExistsBijection(S, T)
  BY <1>4 DEF ExistsBijection
<1> QED BY <1>5, FS_Bijection

(* and so does one that is taken.                                          *)
LEMMA ToldLess ==
  ASSUME NEW q \in Seq(Messages), q # <<>>
  PROVE  /\ Tail(q) \in Seq(Messages) /\ Len(Tail(q)) = Len(q) - 1 /\ Head(q) \in Messages
         /\ Told(q) = Told(Tail(q)) + IF Tells(Head(q)) THEN 1 ELSE 0
<1> DEFINE r == Tail(q)
<1>1. /\ r \in Seq(Messages) /\ Len(r) = Len(q) - 1 /\ Head(q) \in Messages /\ Head(q) = q[1]
      /\ \A i \in 1..Len(r) : r[i] = q[i + 1]
  BY HeadTailProperties
<1>2. DOMAIN q = 1..Len(q) /\ DOMAIN r = 1..Len(q) - 1 /\ Len(q) \in Nat /\ Len(q) > 0
  BY <1>1, EmptySeq
<1>3. Telling(q) \ {1} = {i + 1 : i \in Telling(r)}
  <2>1. ASSUME NEW i \in Telling(r) PROVE i + 1 \in Telling(q) \ {1}
    BY <1>1, <1>2, <2>1 DEF Telling
  <2>2. ASSUME NEW k \in Telling(q) \ {1} PROVE \E i \in Telling(r) : k = i + 1
    <3>1. k \in 2..Len(q) /\ Tells(q[k]) /\ k - 1 \in 1..Len(r) /\ k = (k - 1) + 1
      BY <1>1, <1>2, <2>2 DEF Telling
    <3>2. r[k - 1] = q[k]
      BY <1>1, <3>1
    <3>3. k - 1 \in Telling(r)
      BY <1>1, <1>2, <3>1, <3>2 DEF Telling
    <3> QED BY <3>1, <3>3
  <2> QED BY <2>1, <2>2
<1>5. Cardinality(Telling(q) \ {1}) = Told(r)
  <2>1. Telling(r) \subseteq Nat
    BY <1>2 DEF Telling
  <2> QED BY <1>1, <1>3, <2>1, ToldIs, Shifted DEF Told
<1>6. CASE Tells(Head(q))
  <2>1. 1 \in Telling(q)
    BY <1>1, <1>2, <1>6 DEF Telling
  <2>2. Cardinality(Telling(q) \ {1}) = Told(q) - 1
    BY <2>1, ToldIs, FS_RemoveElement DEF Told
  <2>3. Told(q) = Told(r) + 1
    BY <1>5, <2>2, ToldIs
  <2> QED BY <1>1, <1>6, <2>3
<1>7. CASE ~Tells(Head(q))
  <2>1. Telling(q) \ {1} = Telling(q)
    BY <1>1, <1>2, <1>7 DEF Telling
  <2>2. Told(q) = Told(r)
    BY <1>5, <2>1 DEF Told
  <2>3. Told(r) \in Nat
    BY <1>1, ToldIs
  <2> QED BY <1>1, <1>7, <2>2, <2>3
<1> QED BY <1>6, <1>7

-----------------------------------------------------------------------------
(* What a broadcast puts on the queue.                                     *)

LEMMA AMessage ==
  ASSUME NEW e \in Events
  PROVE  /\ Msg(e, <<>>) \in Messages /\ (Tells(Msg(e, <<>>)) <=> e = "closed")
         /\ \A q \in Seq(Messages) : q \o <<Msg(e, <<>>)>> = Append(q, Msg(e, <<>>))
<1>1. Msg(e, <<>>) \in Messages
  BY DEF Msg, Messages
<1>2. Tells(Msg(e, <<>>)) <=> e = "closed"
  BY DEF Tells, Msg, Has
<1>3. ASSUME NEW q \in Seq(Messages) PROVE q \o <<Msg(e, <<>>)>> = Append(q, Msg(e, <<>>))
  BY <1>1, AppendIsConcat
<1> QED BY <1>1, <1>2, <1>3

LEMMA AFlatMessage ==
  ASSUME NEW e \in Events, NEW q \in Seq(Messages)
  PROVE  q \o Flattened(Msg(e, <<>>)) = Append(q, Msg(e, <<>>))
<1>1. Flattened(Msg(e, <<>>)) = <<Msg(e, <<>>)>>
  BY DEF Flattened, Msg
<1> QED BY <1>1, AMessage

(* A message with one nested in it is broadcast as two.                    *)
LEMMA ANestedMessage ==
  ASSUME NEW e \in Events, NEW x \in Events, NEW q \in Seq(Messages)
  PROVE  /\ Msg(e, <<x>>) \in Messages
         /\ Tells(Msg(e, <<x>>)) <=> (e = "closed" \/ (e = "signal" /\ x = "closed"))
         /\ q \o Flattened(Msg(e, <<x>>)) = Append(Append(q, Msg(e, <<x>>)), Msg(x, <<>>))
<1>1. Msg(e, <<x>>) \in Messages
  BY DEF Msg, Messages
<1>2. Tells(Msg(e, <<x>>)) <=> (e = "closed" \/ (e = "signal" /\ x = "closed"))
  BY DEF Tells, Msg, Has
<1>3. Flattened(Msg(e, <<x>>)) = <<Msg(e, <<x>>)>> \o <<Msg(x, <<>>)>>
  <2> DEFINE one == Msg(e, <<x>>)
             nested == [i \in DOMAIN one.subs |-> Msg(one.subs[i], <<>>)]
  <2>1. one.subs = <<x>>
    BY DEF Msg
  <2>2. nested = <<Msg(x, <<>>)>>
    BY <2>1
  <2> QED BY <2>2 DEF Flattened
<1>4. q \o (<<Msg(e, <<x>>)>> \o <<Msg(x, <<>>)>>) = Append(Append(q, Msg(e, <<x>>)), Msg(x, <<>>))
  <2>1. ASSUME NEW m \in Messages, NEW n \in Messages
        PROVE  q \o (<<m>> \o <<n>>) = Append(Append(q, m), n)
    <3>1. <<m>> \in Seq(Messages) /\ <<n>> \in Seq(Messages)
      OBVIOUS
    <3>2. q \o (<<m>> \o <<n>>) = (q \o <<m>>) \o <<n>>
      BY <3>1, ConcatAssociative
    <3>3. Append(q, m) = q \o <<m>> /\ Append(q, m) \in Seq(Messages)
      BY AppendIsConcat, AppendProperties
    <3>4. Append(Append(q, m), n) = Append(q, m) \o <<n>>
      BY <3>3, AppendIsConcat
    <3> QED BY <3>2, <3>3, <3>4
  <2> QED BY <1>1, <2>1, AMessage
<1> QED BY <1>1, <1>2, <1>3, <1>4

(* The queue got at most two messages, that tell the page of k trades at   *)
(* most, and none that answers a signal.                                   *)
Grown(k) == /\ queue' \in Seq(Messages) /\ Len(queue') \in Len(queue)..(Len(queue) + 2)
            /\ Told(queue') <= Told(queue) + k /\ (ws # "on" => queue' = queue)
Quietly == \A i \in (Len(queue) + 1)..Len(queue') : queue'[i].event # "signal"

(* What one message adds to the queue,                                     *)
LEMMA PutOne ==
  ASSUME queue \in Seq(Messages), NEW e \in Events,
         Put(<<Msg(e, <<>>)>>) \/ Broadcast(Msg(e, <<>>))
  PROVE  /\ (e = "closed" => Grown(1)) /\ (e # "closed" => Grown(0)) /\ (e # "signal" => Quietly)
         /\ Len(queue') <= Len(queue) + 1
<1> DEFINE m == Msg(e, <<>>)
<1>1. queue' = IF ws = "on" THEN Append(queue, m) ELSE queue
  BY AMessage, AFlatMessage DEF Put, Broadcast
<1>2. Len(queue) \in Nat /\ Told(queue) \in Nat /\ m \in Messages /\ m.event = e
      /\ (Tells(m) <=> e = "closed")
  BY ToldIs, AMessage DEF Msg
<1> HIDE DEF m
<1>3. CASE ws # "on"
  BY <1>1, <1>2, <1>3 DEF Grown, Quietly
<1>4. CASE ws = "on"
  <2>1. queue' \in Seq(Messages) /\ Len(queue') = Len(queue) + 1
        /\ Told(queue') = Told(queue) + IF e = "closed" THEN 1 ELSE 0
    BY <1>1, <1>2, <1>4, ToldMore
  <2>2. queue'[Len(queue) + 1] = m
    BY <1>1, <1>2, <1>4, AppendProperties
  <2>3. e # "signal" => Quietly
    BY <1>2, <2>1, <2>2 DEF Quietly
  <2> QED BY <1>2, <1>4, <2>1, <2>3 DEF Grown
<1> QED BY <1>3, <1>4

(* and what two add.                                                       *)
LEMMA PutTwo ==
  ASSUME queue \in Seq(Messages), NEW e \in Events, NEW x \in Events, e # "closed",
         Broadcast(Msg(e, <<x>>))
  PROVE  /\ (x = "closed" => (IF e = "signal" THEN Grown(2) ELSE Grown(1))) /\ (x # "closed" => Grown(0))
         /\ (e # "signal" /\ x # "signal" => Quietly)
<1> DEFINE m == Msg(e, <<x>>)
           n == Msg(x, <<>>)
           r == Append(queue, m)
<1>1. queue' = IF ws = "on" THEN Append(r, n) ELSE queue
  BY ANestedMessage DEF Put, Broadcast
<1>2. /\ Len(queue) \in Nat /\ Told(queue) \in Nat /\ m \in Messages /\ m.event = e
      /\ n \in Messages /\ n.event = x /\ (Tells(n) <=> x = "closed")
      /\ (Tells(m) <=> e = "signal" /\ x = "closed")
  <2>1. m.event = e /\ n.event = x
    BY DEF Msg
  <2>2. m \in Messages /\ (Tells(m) <=> e = "signal" /\ x = "closed")
    BY ANestedMessage
  <2>3. n \in Messages /\ (Tells(n) <=> x = "closed")
    BY AMessage
  <2> HIDE DEF m, n
  <2>4. Len(queue) \in Nat /\ Told(queue) \in Nat
    BY ToldIs
  <2> QED BY <2>1, <2>2, <2>3, <2>4
<1> HIDE DEF m, n
<1>3. CASE ws # "on"
  BY <1>1, <1>2, <1>3 DEF Grown, Quietly
<1>4. CASE ws = "on"
  <2>1. r \in Seq(Messages) /\ Len(r) = Len(queue) + 1
        /\ Told(r) = Told(queue) + IF e = "signal" /\ x = "closed" THEN 1 ELSE 0
    BY <1>2, ToldMore
  <2>2. queue' \in Seq(Messages) /\ Len(queue') = Len(queue) + 2
        /\ Told(queue') = Told(r) + IF x = "closed" THEN 1 ELSE 0
    <3> HIDE DEF r
    <3>1. queue' = Append(r, n)
      BY <1>1, <1>4
    <3>2. Len(Append(r, n)) = Len(r) + 1
      BY <1>2, <2>1, ToldMore
    <3>3. Told(Append(r, n)) = Told(r) + IF x = "closed" THEN 1 ELSE 0
      BY <1>2, <2>1, ToldMore
    <3>4. Append(r, n) \in Seq(Messages)
      BY <1>2, <2>1, ToldMore
    <3> QED BY <1>2, <2>1, <3>1, <3>2, <3>3, <3>4
  <2>3. queue'[Len(queue) + 1] = m /\ queue'[Len(queue) + 2] = n
    <3>1. r[Len(queue) + 1] = m /\ Len(queue) + 1 \in 1..Len(r)
      BY <1>2, <2>1, AppendProperties
    <3> QED BY <1>1, <1>2, <1>4, <2>1, <3>1, AppendProperties
  <2>4. e # "signal" /\ x # "signal" => Quietly
    BY <1>2, <2>2, <2>3 DEF Quietly
  <2> QED BY <1>2, <1>4, <2>1, <2>2, <2>4 DEF Grown
<1> QED BY <1>3, <1>4

-----------------------------------------------------------------------------
(* The steps.                                                              *)

LEMMA SessionStarts == SessionAssumption /\ SessionInit => SessionInv
<1> SUFFICES ASSUME SessionAssumption, SessionInit PROVE SessionInv
  OBVIOUS
<1>1. SessionTypeOK /\ queue \in Seq(Messages)
  BY DEF SessionInit, SessionTypeOK, SessionAssumption, NoSession, NoTask, NewEngine
<1>2. sess.status = "none" /\ Clean /\ up
  BY DEF SessionInit, Clean, NoSession
<1>3. engine.trades = 0 /\ engine.state = "on" /\ row = "none"
  BY DEF SessionInit, NewEngine
<1> QED BY <1>1, <1>2, <1>3 DEF SessionInv, SessionAssumption, Clean, NoTask, NoGhostRow, StopSettles, KilledIsOff

(* A step of the loop that only moves it, or leaves it.                    *)
Moves == /\ UNCHANGED <<kind, up, sess, engine, ws, queue, page, row>>
         /\ task' \in [at : {"none", "head", "read", "tail"}, cancelled : BOOLEAN]
         /\ task.at # "none"

(* Such a step disturbs nothing.                                           *)
LEMMA MovesKeep ==
  ASSUME SessionInv, Moves
  PROVE  SessionInv' /\ QuietAfterStop
<1>1. sess.status = "running" /\ SessionTypeOK'
  BY DEF SessionInv, SessionTypeOK, Moves
<1>2. QuietAfterStop
  <2>1. Len(queue') = Len(queue) /\ Len(queue) \in Nat
    BY DEF SessionInv, Moves
  <2> QED BY <2>1 DEF Moves, QuietAfterStop
<1>3. Told(queue') = Told(queue)
  BY DEF Moves
<1>4. SessionInv'
  BY <1>1, <1>3 DEF SessionInv, Moves, Clean, NoGhostRow, StopSettles, KilledIsOff
<1> QED BY <1>2, <1>4

(* Steps of the loop, but for the signal and the end.                      *)
LEMMA LoopMoves ==
  ASSUME SessionInv, UNCHANGED kind, Wake \/ Nothing \/ Fail \/ Cancelled
  PROVE  Moves
<1>1. task \in [at : {"none", "head", "read", "tail"}, cancelled : BOOLEAN]
  BY DEF SessionInv, SessionTypeOK
<1>2. CASE Wake
  BY <1>1, <1>2 DEF Wake, At, Moves
<1>3. CASE Nothing \/ Fail
  BY <1>1, <1>3 DEF Nothing, Fail, At, Moves
<1>4. CASE Cancelled
  <2>1. NoTask \in [at : {"none", "head", "read", "tail"}, cancelled : BOOLEAN]
    BY DEF NoTask
  <2> QED BY <1>1, <1>4, <2>1 DEF Cancelled, Moves
<1> QED BY <1>2, <1>3, <1>4

(* The start of a session.                                                 *)
LEMMA RegisterKeeps ==
  ASSUME SessionAssumption, SessionInv, UNCHANGED kind, StartPaper \/ StartLive \/ StartCommittee
  PROVE  SessionInv' /\ QuietAfterStop
<1>1. /\ sess.status = "none" /\ Register /\ up
      /\ \/ kind # "committee" /\ row' = "running"
         \/ kind = "committee" /\ row' = row
  BY DEF StartPaper, StartLive, StartCommittee, Register
<1>2. Clean /\ queue = <<>> /\ Told(queue) = 0 /\ Len(queue) = 0
  BY <1>1, ToldNothing DEF SessionInv, Clean
<1>3. SessionTypeOK'
  BY <1>1, <1>2 DEF SessionInv, SessionTypeOK, SessionAssumption, Register, NewEngine
<1>4. queue' = queue /\ Told(queue') = 0 /\ engine' = NewEngine /\ page'.trades = 0 /\ sess'.status = "running"
      /\ up' /\ ~sess'.killEvent
  BY <1>1, <1>2 DEF Register
<1>5. SessionInv'
  BY <1>1, <1>2, <1>3, <1>4 DEF SessionInv, SessionAssumption, NewEngine, NoGhostRow, StopSettles, KilledIsOff
<1>6. QuietAfterStop
  BY <1>2, <1>4 DEF QuietAfterStop, NewEngine, Clean
<1> QED BY <1>5, <1>6

(* The end of the loop: one more message, and only one.                    *)
LEMMA FinishKeeps ==
  ASSUME SessionAssumption, SessionInv, UNCHANGED kind, Finish
  PROVE  SessionInv' /\ QuietAfterStop
<1>1. /\ queue \in Seq(Messages) /\ Put(<<Msg("stopped", <<>>)>>) /\ Len(queue) \in Nat /\ Told(queue) \in Nat
      /\ up /\ up' /\ engine' = engine /\ page' = page /\ row' = row /\ ws' = ws /\ task' = NoTask
      /\ sess' = [sess EXCEPT !.status = "stopped"] /\ task.at = "tail"
  BY ToldIs DEF SessionInv, Finish, At, BroadcastStop
<1>2. Grown(0) /\ Quietly /\ Len(queue') <= Len(queue) + 1
  <2>1. "stopped" # "closed" /\ "stopped" # "signal" /\ "stopped" \in Events
    BY DEF Events
  <2> QED BY <1>1, <2>1, PutOne
<1>3. queue' \in Seq(Messages) /\ Told(queue') \in Nat /\ Told(queue') <= Told(queue)
  BY <1>1, <1>2, ToldIs DEF Grown
<1>4. /\ sess.status = "running" /\ sess'.status = "stopped" /\ sess'.killEvent = sess.killEvent
      /\ Len(queue) <= MaxQueue + 1
  BY <1>1 DEF SessionInv, SessionTypeOK
<1>5. SessionTypeOK'
  <2>1. sess' \in [status : {"none", "running", "stopped"}, killEvent : BOOLEAN]
    BY <1>1 DEF SessionInv, SessionTypeOK
  <2>2. NoTask \in [at : {"none", "head", "read", "tail"}, cancelled : BOOLEAN] /\ NoTask.at = "none"
    BY DEF NoTask
  <2>3. Len(queue') <= MaxQueue + 2
    BY <1>1, <1>2, <1>3, <1>4 DEF SessionAssumption
  <2> QED BY <1>1, <2>1, <2>2, <2>3 DEF SessionInv, SessionTypeOK
<1>6. SessionInv'
  BY <1>1, <1>3, <1>4, <1>5 DEF SessionInv, SessionTypeOK, NoTask, NoGhostRow, StopSettles, KilledIsOff
<1> QED BY <1>1, <1>2, <1>6 DEF QuietAfterStop, Quietly

(* What a signal may do.                                                   *)
Engines == [state : {"on", "tripped", "stopped", "killed"}, open : BOOLEAN, trades : 0..MaxTrades + 1]
Within(e) == e.trades <= MaxTrades \/ (~e.open /\ e.state # "on")

(* An engine that is not stopped answers a signal within its types, is not *)
(* stopped by it, and tells the page of a trade at most twice.             *)
LEMMA AnswersAre ==
  ASSUME SessionAssumption, SessionInv, engine.state # "stopped", NEW a \in Answers, Broadcast(a.msg)
  PROVE  /\ a.after \in Engines /\ Within(a.after) /\ a.after.state # "stopped"
         /\ (a.after.state = "on" => engine.state = "on" /\ a.msg.event # "kill") /\ engine.trades <= a.after.trades
         /\ queue' \in Seq(Messages) /\ Len(queue') \in Len(queue)..(Len(queue) + 2)
         /\ Told(queue') \in Nat /\ Told(queue) \in Nat
         /\ Told(queue') <= Told(queue) + 2 * (a.after.trades - engine.trades)
         /\ (ws # "on" => queue' = queue)
<1> DEFINE closed == [engine EXCEPT !.open = FALSE, !.trades = @ + 1]
<1> USE DEF Engines
<1>1. engine \in Engines /\ Within(engine) /\ queue \in Seq(Messages) /\ MaxTrades \in Nat /\ Told(queue) \in Nat
  BY ToldIs DEF SessionInv, SessionTypeOK, SessionAssumption, Within
<1>2. {"signal", "kill", "opened", "closed", "closedKilled"} \subseteq Events
  BY DEF Events
<1>3. ASSUME engine.trades < MaxTrades, NEW b \in BOOLEAN, NEW s \in {"on", "tripped", "killed"}
      PROVE  /\ [engine EXCEPT !.open = b, !.trades = @ + 1] \in Engines
             /\ [[engine EXCEPT !.open = b, !.trades = @ + 1] EXCEPT !.state = s] \in Engines
  <2> DEFINE c == [engine EXCEPT !.open = b, !.trades = @ + 1]
             d == [engine EXCEPT !.open = b]
  <2>1. d \in Engines /\ d.trades = engine.trades
    BY <1>1
  <2>2. c = [d EXCEPT !.trades = engine.trades + 1]
    BY <1>1, Zenon
  <2> HIDE DEF d
  <2>3. c \in Engines
    BY <1>1, <1>3, <2>1, <2>2
  <2> HIDE DEF c
  <2>4. [c EXCEPT !.state = s] \in Engines
    BY <2>3
  <2> QED BY <2>3, <2>4 DEF c
<1>4. ASSUME NEW k \in 0..2, Grown(k), 2 * (a.after.trades - engine.trades) >= k, a.after.trades \in Nat
      PROVE  /\ queue' \in Seq(Messages) /\ Len(queue') \in Len(queue)..(Len(queue) + 2) /\ Told(queue') \in Nat
             /\ Told(queue') <= Told(queue) + 2 * (a.after.trades - engine.trades)
             /\ (ws # "on" => queue' = queue)
  BY <1>1, <1>4, ToldIs DEF Grown
<1>5. CASE a.after = engine /\ a.msg = Msg("signal", <<>>)
  <2>1. Grown(0)
    BY <1>1, <1>2, <1>5, PutOne
  <2>2. a.msg.event # "kill"
    BY <1>5 DEF Msg
  <2> QED BY <1>1, <1>4, <1>5, <2>1, <2>2
<1>6. CASE /\ engine.state = "on" /\ ~engine.open /\ a.after = [engine EXCEPT !.open = TRUE]
           /\ a.msg = Msg("signal", <<"opened">>)
  <2>1. Grown(0)
    BY <1>1, <1>2, <1>6, PutTwo
  <2>2. a.after.state = "on" /\ a.after.open /\ a.after.trades = engine.trades
    BY <1>1, <1>6
  <2>3. a.after \in Engines
    BY <1>1, <1>6
  <2>4. Within(a.after)
    BY <1>1, <1>6, <2>2 DEF Within
  <2>5. a.after.trades \in Nat /\ engine.trades \in Nat
    BY <1>1, <1>6, <2>2
  <2>6. engine.state = "on" /\ a.msg.event # "kill"
    BY <1>6 DEF Msg
  <2> QED BY <1>1, <1>4, <2>1, <2>2, <2>3, <2>4, <2>5, <2>6
<1>7. CASE /\ engine.state = "on" /\ engine.open /\ engine.trades < MaxTrades /\ a.after = closed
           /\ a.msg = Msg("signal", <<"closed">>)
  <2>1. Grown(2)
    BY <1>1, <1>2, <1>7, PutTwo
  <2>2. a.after.state = "on" /\ ~a.after.open /\ a.after.trades = engine.trades + 1
    <3>1. a.after.state = "on"
      BY <1>1, <1>7
    <3>2. ~a.after.open
      BY <1>1, <1>7, Zenon
    <3>3. a.after.trades = engine.trades + 1
      BY <1>1, <1>7, Zenon
    <3> QED BY <3>1, <3>2, <3>3
  <2>3. a.after \in Engines
    <3>1. FALSE \in BOOLEAN /\ "tripped" \in {"on", "tripped", "killed"} /\ "killed" \in {"on", "tripped", "killed"}
      OBVIOUS
    <3> HIDE DEF Engines
    <3> QED BY <1>3, <1>7, <3>1, Zenon
  <2>4. Within(a.after)
    BY <1>1, <1>7, <2>2 DEF Within
  <2>5. a.after.trades \in Nat /\ engine.trades \in Nat
    BY <1>1, <1>7, <2>2
  <2>6. engine.state = "on" /\ a.msg.event # "kill"
    BY <1>7 DEF Msg
  <2> QED BY <1>1, <1>4, <2>1, <2>2, <2>3, <2>4, <2>5, <2>6
<1>8. CASE /\ engine.state = "on" /\ engine.open /\ engine.trades < MaxTrades
           /\ a.after = [closed EXCEPT !.state = "tripped"] /\ a.msg = Msg("signal", <<"closedKilled">>)
  <2>1. Grown(0)
    BY <1>1, <1>2, <1>8, PutTwo
  <2>2. a.after.state = "tripped" /\ ~a.after.open /\ a.after.trades = engine.trades + 1
    <3>1. a.after.state = "tripped"
      BY <1>1, <1>8
    <3>2. ~a.after.open
      BY <1>1, <1>8, Zenon
    <3>3. a.after.trades = engine.trades + 1
      BY <1>1, <1>8, Zenon
    <3> QED BY <3>1, <3>2, <3>3
  <2>3. a.after \in Engines
    <3>1. FALSE \in BOOLEAN /\ "tripped" \in {"on", "tripped", "killed"} /\ "killed" \in {"on", "tripped", "killed"}
      OBVIOUS
    <3> HIDE DEF Engines
    <3> QED BY <1>3, <1>8, <3>1, Zenon
  <2>4. Within(a.after)
    BY <1>1, <1>8, <2>2 DEF Within
  <2>5. a.after.trades \in Nat /\ engine.trades \in Nat
    BY <1>1, <1>8, <2>2
  <2>6. a.after.state = "on" => engine.state = "on"
    BY <1>8, <2>2
  <2> QED BY <1>1, <1>4, <2>1, <2>2, <2>3, <2>4, <2>5, <2>6
<1>9. CASE a.after = [engine EXCEPT !.state = "killed"] /\ a.msg = Msg("kill", <<>>)
  <2>1. Grown(0)
    <3>1. Broadcast(Msg("kill", <<>>)) /\ "kill" \in Events /\ "kill" # "closed"
      BY <1>2, <1>9
    <3> QED BY <1>1, <3>1, PutOne
  <2> QED BY <1>1, <1>4, <1>9, <2>1 DEF Within
<1>10. CASE /\ engine.open /\ engine.trades < MaxTrades
            /\ a.after = [closed EXCEPT !.state = "killed"] /\ a.msg = Msg("kill", <<"closed">>)
  <2>1. Grown(1)
    BY <1>1, <1>2, <1>10, PutTwo
  <2>2. a.after.state = "killed" /\ ~a.after.open /\ a.after.trades = engine.trades + 1
    <3>1. a.after.state = "killed"
      BY <1>1, <1>10
    <3>2. ~a.after.open
      BY <1>1, <1>10, Zenon
    <3>3. a.after.trades = engine.trades + 1
      BY <1>1, <1>10, Zenon
    <3> QED BY <3>1, <3>2, <3>3
  <2>3. a.after \in Engines
    <3>1. FALSE \in BOOLEAN /\ "tripped" \in {"on", "tripped", "killed"} /\ "killed" \in {"on", "tripped", "killed"}
      OBVIOUS
    <3> HIDE DEF Engines
    <3> QED BY <1>3, <1>10, <3>1, Zenon
  <2>4. Within(a.after)
    BY <1>1, <1>10, <2>2 DEF Within
  <2>5. a.after.trades \in Nat /\ engine.trades \in Nat
    BY <1>1, <1>10, <2>2
  <2>6. a.after.state = "on" => engine.state = "on"
    BY <1>10, <2>2
  <2> QED BY <1>1, <1>4, <2>1, <2>2, <2>3, <2>4, <2>5, <2>6
<1>11. \/ a = [after |-> engine, msg |-> Msg("signal", <<>>)]
       \/ /\ engine.state = "on" /\ ~engine.open
          /\ a = [after |-> [engine EXCEPT !.open = TRUE], msg |-> Msg("signal", <<"opened">>)]
       \/ /\ engine.state = "on" /\ engine.open /\ engine.trades < MaxTrades
          /\ \/ a = [after |-> closed, msg |-> Msg("signal", <<"closed">>)]
             \/ a = [after |-> [closed EXCEPT !.state = "tripped"], msg |-> Msg("signal", <<"closedKilled">>)]
             \/ a = [after |-> [closed EXCEPT !.state = "killed"], msg |-> Msg("kill", <<"closed">>)]
       \/ a = [after |-> [engine EXCEPT !.state = "killed"], msg |-> Msg("kill", <<>>)]
  BY Zenon DEF Answers
<1> HIDE DEF Engines, closed
<1>12. \/ a.after = engine /\ a.msg = Msg("signal", <<>>)
       \/ /\ engine.state = "on" /\ ~engine.open
          /\ a.after = [engine EXCEPT !.open = TRUE] /\ a.msg = Msg("signal", <<"opened">>)
       \/ /\ engine.state = "on" /\ engine.open /\ engine.trades < MaxTrades
          /\ \/ a.after = closed /\ a.msg = Msg("signal", <<"closed">>)
             \/ a.after = [closed EXCEPT !.state = "tripped"] /\ a.msg = Msg("signal", <<"closedKilled">>)
             \/ a.after = [closed EXCEPT !.state = "killed"] /\ a.msg = Msg("kill", <<"closed">>)
       \/ a.after = [engine EXCEPT !.state = "killed"] /\ a.msg = Msg("kill", <<>>)
  <2>1. \A x, y : [after |-> x, msg |-> y].after = x /\ [after |-> x, msg |-> y].msg = y
    OBVIOUS
  <2>2. ASSUME NEW x, NEW y, a = [after |-> x, msg |-> y] PROVE a.after = x /\ a.msg = y
    BY <2>2
  <2> QED BY <1>11, <2>2
<1> QED BY <1>5, <1>6, <1>7, <1>8, <1>9, <1>10, <1>12

(* A signal, unless the kill event was set while it was on its way.        *)
LEMMA SessionSignalKeeps ==
  ASSUME SessionAssumption, SessionInv, UNCHANGED kind, Signal
  PROVE  SessionInv' /\ QuietAfterStop
<1>1. /\ task.at = "read" /\ up /\ up' /\ UNCHANGED <<up, ws, page, row>> /\ sess.status = "running"
      /\ queue \in Seq(Messages) /\ Len(queue) \in Nat /\ MaxQueue \in Nat /\ MaxTrades \in Nat
  BY DEF Signal, At, SessionInv, SessionTypeOK, SessionAssumption
<1>2. CASE sess.killEvent
  <2>1. Moves
    BY <1>1, <1>2 DEF Signal, Moves, SessionInv, SessionTypeOK
  <2> QED BY <2>1, MovesKeep
<1>3. CASE ~sess.killEvent
  <2>1. PICK a \in Answers : AfterSignal(a) /\ Len(queue) < MaxQueue
    BY <1>3 DEF Signal
  <2>2. engine.state # "stopped" /\ engine' = a.after /\ Broadcast(a.msg)
    BY <1>3, <2>1 DEF AfterSignal, SessionInv
  <2>3. /\ engine' \in Engines /\ Within(engine') /\ engine'.state # "stopped"
        /\ (engine'.state = "on" => engine.state = "on" /\ a.msg.event # "kill") /\ engine.trades <= engine'.trades
        /\ queue' \in Seq(Messages) /\ Len(queue') \in Len(queue)..(Len(queue) + 2)
        /\ Told(queue') \in Nat /\ Told(queue) \in Nat
        /\ Told(queue') <= Told(queue) + 2 * (engine'.trades - engine.trades)
        /\ (ws # "on" => queue' = queue)
    BY <2>2, AnswersAre
  <2>4. /\ sess' = [sess EXCEPT !.killEvent = @ \/ a.msg.event = "kill"]
        /\ task' = [task EXCEPT !.at = "head"]
    BY <2>1 DEF AfterSignal
  <2>5. /\ sess' \in [status : {"none", "running", "stopped"}, killEvent : BOOLEAN] /\ sess'.status = "running"
        /\ (sess'.killEvent => a.msg.event = "kill")
        /\ task' \in [at : {"none", "head", "read", "tail"}, cancelled : BOOLEAN]
    BY <1>1, <1>3, <2>4 DEF SessionInv, SessionTypeOK
  <2>6. SessionTypeOK'
    BY <1>1, <2>1, <2>3, <2>5 DEF SessionInv, SessionTypeOK, Engines
  <2>7. page'.trades + Told(queue') <= 2 * engine'.trades
    <3>1. page.trades + Told(queue) <= 2 * engine.trades /\ page.trades \in Nat /\ page' = page
      BY <1>1 DEF SessionInv, SessionTypeOK
    <3>2. engine.trades \in Nat /\ engine'.trades \in Nat
      BY <1>1, <2>3 DEF Engines, SessionInv, SessionTypeOK
    <3>3. Told(queue') <= Told(queue) + 2 * (engine'.trades - engine.trades) /\ Told(queue') \in Nat
          /\ Told(queue) \in Nat
      BY <2>3
    <3>4. ASSUME NEW x \in Nat, NEW y \in Nat, NEW z \in Nat, NEW t \in Nat, NEW u \in Nat,
                 x + y <= 2 * t, z <= y + 2 * (u - t)
          PROVE  x + z <= 2 * u
      BY <3>4
    <3> QED BY <3>1, <3>2, <3>3, <3>4
  <2>8. SessionInv'
    BY <1>1, <2>1, <2>3, <2>5, <2>6, <2>7 DEF SessionInv, Within, NoGhostRow, StopSettles, KilledIsOff
  <2> QED BY <1>3, <2>2, <2>8 DEF QuietAfterStop
<1> QED BY <1>2, <1>3

(* What is delivered leaves the queue and is told.                         *)
LEMMA DeliverKeeps ==
  ASSUME SessionAssumption, SessionInv, UNCHANGED kind, Deliver
  PROVE  SessionInv' /\ QuietAfterStop
<1>1. /\ up /\ up' /\ ws = "on" /\ queue # <<>> /\ page' = Shown(Head(queue)) /\ queue' = Tail(queue)
      /\ ws' \in {"closed", "on"} /\ UNCHANGED <<up, sess, task, engine, row>> /\ sess.status # "none"
      /\ queue \in Seq(Messages) /\ Len(queue) \in Nat /\ MaxQueue \in Nat /\ MaxTrades \in Nat
  BY DEF Deliver, HandlerLooks, SessionInv, SessionTypeOK, SessionAssumption, Clean
<1>2. /\ queue' \in Seq(Messages) /\ Len(queue') = Len(queue) - 1 /\ Head(queue) \in Messages
      /\ Told(queue) = Told(queue') + (IF Tells(Head(queue)) THEN 1 ELSE 0)
      /\ Told(queue') \in Nat /\ Told(queue) \in Nat
  BY <1>1, ToldLess, ToldIs
<1>3. page.trades \in Nat /\ page.running \in BOOLEAN /\ engine.trades \in 0..MaxTrades + 1
      /\ page \in [running : BOOLEAN, trades : 0..2 * MaxTrades + 2]
  BY <1>1 DEF SessionInv, SessionTypeOK
<1>4. /\ page'.trades = page.trades + (IF Tells(Head(queue)) THEN 1 ELSE 0)
      /\ page' \in [running : BOOLEAN, trades : Nat]
  <2> DEFINE h == Head(queue)
             told == IF h.event = "closed" THEN 1 ELSE IF h.event = "signal" /\ Has(h, "closed") THEN 1 ELSE 0
             b == page.running /\ h.event # "stopped" /\ ~(h.event = "kill" /\ ReadsKill)
  <2>1. page' = [page EXCEPT !.running = b, !.trades = page.trades + told]
    BY <1>1 DEF Shown
  <2>2. b \in BOOLEAN /\ told = IF Tells(h) THEN 1 ELSE 0
    BY DEF Tells
  <2>3. page.trades + told \in Nat
    BY <1>3
  <2> HIDE DEF b, told, h
  <2>4. page' \in [running : BOOLEAN, trades : Nat] /\ page'.trades = page.trades + told
    BY <1>3, <2>1, <2>2, <2>3
  <2> QED BY <2>2, <2>4 DEF h
<1>5. page'.trades + Told(queue') <= 2 * engine.trades
  BY <1>1, <1>2, <1>3, <1>4 DEF SessionInv
<1>6. page' \in [running : BOOLEAN, trades : 0..2 * MaxTrades + 2]
  BY <1>1, <1>2, <1>3, <1>4, <1>5
<1>7. SessionTypeOK'
  BY <1>1, <1>2, <1>6 DEF SessionInv, SessionTypeOK
<1>8. SessionInv'
  BY <1>1, <1>2, <1>5, <1>7 DEF SessionInv, NoGhostRow, StopSettles, KilledIsOff
<1>9. QuietAfterStop
  BY <1>1, <1>2 DEF QuietAfterStop
<1> QED BY <1>8, <1>9

(* A socket that is opened or closed starts with an empty queue.           *)
LEMMA SocketKeeps ==
  ASSUME SessionAssumption, SessionInv, UNCHANGED kind, Connect \/ Heartbeat
  PROVE  SessionInv' /\ QuietAfterStop
<1>1. /\ up /\ up' /\ ws' \in {"closed", "on"} /\ UNCHANGED <<up, sess, task, engine, page, row>>
      /\ sess.status # "none" /\ queue' = <<>>
  BY DEF Connect, Heartbeat, HandlerLooks, SessionInv, Clean
<1>2. Told(queue') = 0 /\ Len(queue') = 0 /\ queue' \in Seq(Messages) /\ Told(queue) \in Nat /\ MaxQueue \in Nat
      /\ Len(queue) \in Nat
  BY <1>1, ToldNothing, ToldIs DEF SessionInv, SessionAssumption
<1>3. SessionTypeOK'
  BY <1>1, <1>2 DEF SessionInv, SessionTypeOK
<1>4. page.trades + Told(queue') <= 2 * engine.trades
  BY <1>1, <1>2, SMT DEF SessionInv, SessionTypeOK, SessionAssumption
<1>5. SessionInv'
  BY <1>1, <1>2, <1>3, <1>4 DEF SessionInv, NoGhostRow, StopSettles, KilledIsOff
<1> QED BY <1>1, <1>2, <1>5 DEF QuietAfterStop

(* A price of the stream is not sent once the kill event is set.           *)
LEMMA StreamTickKeeps ==
  ASSUME SessionAssumption, SessionInv, UNCHANGED kind, StreamTick
  PROVE  SessionInv' /\ QuietAfterStop
<1>1. /\ up /\ up' /\ ws = "on" /\ Put(<<Msg("tick", <<>>)>>) /\ UNCHANGED <<up, sess, task, engine, ws, page, row>>
      /\ sess.status # "none" /\ ~sess.killEvent /\ engine.state # "stopped"
      /\ queue \in Seq(Messages) /\ Len(queue) \in Nat /\ MaxQueue \in Nat /\ Len(queue) < MaxQueue
  BY DEF StreamTick, SessionInv, SessionTypeOK, SessionAssumption, Clean
<1>2. Grown(0) /\ Len(queue') <= Len(queue) + 1
  <2>1. "tick" \in Events /\ "tick" # "closed"
    BY DEF Events
  <2> QED BY <1>1, <2>1, PutOne
<1>3. queue' \in Seq(Messages) /\ Told(queue') \in Nat /\ Told(queue) \in Nat /\ Told(queue') <= Told(queue)
  BY <1>1, <1>2, ToldIs DEF Grown
<1>4. SessionTypeOK'
  BY <1>1, <1>2, <1>3 DEF SessionInv, SessionTypeOK
<1>5. page.trades + Told(queue') <= 2 * engine.trades
  <2>1. page.trades + Told(queue) <= 2 * engine.trades /\ page.trades \in Nat /\ engine.trades \in Nat
    BY <1>1 DEF SessionInv, SessionTypeOK, SessionAssumption
  <2> QED BY <1>3, <2>1
<1>6. SessionInv'
  BY <1>1, <1>2, <1>3, <1>4, <1>5 DEF SessionInv, NoGhostRow, StopSettles, KilledIsOff
<1> QED BY <1>1, <1>6 DEF QuietAfterStop

(* The server goes down, with all that was not in the database,            *)
LEMMA CrashKeeps ==
  ASSUME SessionAssumption, SessionInv, UNCHANGED kind, Crash
  PROVE  SessionInv' /\ QuietAfterStop
<1>1. ~up' /\ sess' = NoSession /\ Clean' /\ UNCHANGED <<page, row>> /\ MaxQueue \in Nat /\ MaxTrades \in Nat
      /\ engine' = NewEngine /\ queue' = <<>> /\ sess'.status = "none" /\ up' \in BOOLEAN
  BY DEF Crash, Clean, NoSession, SessionAssumption
<1>2. SessionTypeOK'
  BY <1>1 DEF SessionInv, SessionTypeOK, Clean, NoSession, NoTask, NewEngine
<1>3. SessionInv'
  BY <1>1, <1>2 DEF SessionInv, Clean, NoTask, NewEngine, NoGhostRow, StopSettles, KilledIsOff
<1> QED BY <1>1, <1>3 DEF QuietAfterStop, NewEngine

(* and comes up, and no row says running.                                  *)
LEMMA StartupKeeps ==
  ASSUME SessionAssumption, SessionInv, UNCHANGED kind, Startup
  PROVE  SessionInv' /\ QuietAfterStop
<1>1. ~up /\ up' /\ row' = (IF row = "running" THEN "orphaned" ELSE row)
      /\ UNCHANGED <<sess, task, engine, ws, queue, page>> /\ sess.status = "none" /\ Clean
  BY DEF Startup, SessionInv
<1>2. SessionTypeOK' /\ Clean'
  BY <1>1 DEF Startup, SessionInv, SessionTypeOK, Clean
<1>3. SessionInv'
  BY <1>1, <1>2 DEF SessionInv, NoGhostRow, StopSettles, KilledIsOff
<1> QED BY <1>1, <1>3 DEF QuietAfterStop

(* What the endpoints that end a session have in common.                   *)
Ends(mine) ==
  /\ up /\ up' /\ sess.status # "none" /\ Halt /\ AskedBy(mine)
  /\ engine' \in Engines /\ Within(engine') /\ (engine'.open => engine.open)
  /\ (engine'.state = "stopped" => ~engine'.open) /\ engine.trades <= engine'.trades
  /\ (engine'.state = "on" => kind = "committee")
  /\ (row' = row \/ (row' = "stopped" /\ kind # "committee")) /\ (row' = "stopped" => engine'.state # "on")
  /\ mine \/ /\ queue' \in Seq(Messages) /\ (Len(queue') <= MaxQueue + 1 \/ queue' = queue) /\ Quietly
             /\ Told(queue') <= Told(queue) + 2 * (engine'.trades - engine.trades)

(* They keep the invariant, whoever asked.                                 *)
LEMMA EndsKeep ==
  ASSUME SessionAssumption, SessionInv, UNCHANGED kind, NEW mine \in BOOLEAN, Ends(mine)
  PROVE  SessionInv' /\ QuietAfterStop
<1>1. /\ up /\ up' /\ up' \in BOOLEAN /\ queue \in Seq(Messages) /\ Len(queue) \in Nat /\ Told(queue) \in Nat
      /\ MaxQueue \in Nat /\ MaxTrades \in Nat /\ engine \in Engines /\ sess.status # "none"
      /\ page.trades \in Nat /\ page.trades + Told(queue) <= 2 * engine.trades
  BY ToldIs, SMT DEF Ends, SessionInv, SessionTypeOK, SessionAssumption, Engines
<1>2. /\ sess' \in [status : {"none", "running", "stopped"}, killEvent : BOOLEAN]
      /\ sess'.status = sess.status /\ sess'.killEvent
  BY DEF Ends, Halt, SessionInv, SessionTypeOK
<1>3. /\ task' \in [at : {"none", "head", "read", "tail"}, cancelled : BOOLEAN] /\ task'.at = task.at
  BY DEF Ends, Halt, SessionInv, SessionTypeOK
<1>4. /\ page' \in [running : BOOLEAN, trades : 0..2 * MaxTrades + 2] /\ page'.trades = page.trades
      /\ ws' \in {"off", "on", "closed"}
  BY DEF Ends, AskedBy, SessionInv, SessionTypeOK
<1>5. /\ queue' \in Seq(Messages) /\ (Len(queue') <= MaxQueue + 1 \/ queue' = queue) /\ Quietly
      /\ page.trades + Told(queue') <= 2 * engine'.trades
  <2>1. CASE mine
    <3>1. queue' = <<>> /\ Told(queue') = 0 /\ Len(queue') = 0
      BY <2>1, ToldNothing DEF Ends, AskedBy
    <3>2. engine.trades \in Nat /\ engine'.trades \in Nat /\ engine.trades <= engine'.trades
      BY <1>1 DEF Ends, Engines
    <3>3. Quietly
      BY <1>1, <3>1 DEF Quietly
    <3> QED BY <1>1, <3>1, <3>2, <3>3
  <2>2. CASE ~mine
    <3>1. /\ queue' \in Seq(Messages) /\ (Len(queue') <= MaxQueue + 1 \/ queue' = queue) /\ Quietly
          /\ Told(queue') <= Told(queue) + 2 * (engine'.trades - engine.trades)
      BY <2>2 DEF Ends
    <3>2. engine.trades \in Nat /\ engine'.trades \in Nat /\ Told(queue') \in Nat
      BY <1>1, <3>1, ToldIs DEF Ends, Engines
    <3>3. ASSUME NEW x \in Nat, NEW y \in Nat, NEW z \in Nat, NEW t \in Nat, NEW u \in Nat,
                 x + y <= 2 * t, z <= y + 2 * (u - t)
          PROVE  x + z <= 2 * u
      BY <3>3
    <3> QED BY <1>1, <3>1, <3>2, <3>3
  <2> QED BY <2>1, <2>2
<1>6. row' \in {"none", "running", "stopped", "orphaned"}
  BY DEF Ends, SessionInv, SessionTypeOK
<1>7. SessionTypeOK'
  <2>1. engine' \in Engines /\ kind' = kind
    BY DEF Ends
  <2>2. Len(queue') <= MaxQueue + 2
    BY <1>1, <1>5 DEF SessionInv, SessionTypeOK
  <2> QED BY <1>1, <1>2, <1>3, <1>4, <1>6, <2>1, <2>2 DEF SessionInv, SessionTypeOK, Engines
<1>8. NoGhostRow' /\ StopSettles' /\ KilledIsOff' /\ (kind' = "committee" => row' = "none")
  BY <1>1, <1>2 DEF Ends, SessionInv, NoGhostRow, StopSettles, KilledIsOff
<1>9. SessionInv'
  <2>1. Within(engine')
    BY DEF Ends
  <2> QED BY <1>1, <1>2, <1>3, <1>4, <1>5, <1>7, <1>8, <2>1 DEF SessionInv, Within
<1> QED BY <1>5, <1>9 DEF QuietAfterStop, Quietly, Ends

(* What an engine that is settled has in its books.                        *)
LEMMA SettledIs ==
  ASSUME SessionAssumption, SessionInv
  PROVE  /\ Settled \in Engines /\ Within(Settled) /\ ~Settled.open /\ Settled.state # "on"
         /\ Settled.trades = engine.trades + IF engine.open /\ kind = "paper" THEN 1 ELSE 0
<1>1. engine \in Engines /\ Within(engine) /\ MaxTrades \in Nat
  BY DEF SessionInv, SessionTypeOK, SessionAssumption, Engines, Within
<1> DEFINE s == IF engine.state = "killed" THEN engine.state ELSE "stopped"
           t == IF engine.open /\ kind = "paper" THEN engine.trades + 1 ELSE engine.trades
           d == [engine EXCEPT !.state = s, !.open = FALSE]
<1>2. Settled = [d EXCEPT !.trades = t]
  BY <1>1, Zenon DEF Settled, Engines
<1>3. s \in {"on", "tripped", "stopped", "killed"} /\ s # "on" /\ t \in 0..MaxTrades + 1
  BY <1>1 DEF Engines, Within
<1>4. d.state = s /\ ~d.open
  BY <1>1, Zenon DEF Engines
<1>5. d \in Engines
  BY <1>1, <1>3 DEF Engines
<1>6. t = engine.trades + IF engine.open /\ kind = "paper" THEN 1 ELSE 0
  BY <1>1 DEF Engines
<1> HIDE DEF s, t, d
<1>7. Settled \in Engines /\ Settled.state = s /\ ~Settled.open /\ Settled.trades = t
  BY <1>2, <1>3, <1>4, <1>5 DEF Engines
<1> QED BY <1>3, <1>6, <1>7 DEF Within

(* The three endpoints, of which that of a committee stops no engine.      *)
LEMMA StopPaperEnds ==
  ASSUME SessionAssumption, SessionInv, NEW mine \in BOOLEAN, StopPaper(mine)
  PROVE  Ends(mine)
<1>1. /\ up /\ up' /\ sess.status # "none" /\ Halt /\ AskedBy(mine) /\ kind = "paper"
      /\ engine' = Settled /\ row' = "stopped" /\ queue \in Seq(Messages) /\ Len(queue) \in Nat
      /\ engine.trades \in Nat /\ MaxQueue \in Nat
  BY SMT DEF StopPaper, SessionInv, SessionTypeOK, SessionAssumption
<1>2. /\ engine' \in Engines /\ Within(engine') /\ ~engine'.open /\ engine'.state # "on"
      /\ engine'.trades = engine.trades + IF engine.open THEN 1 ELSE 0
  BY <1>1, SettledIs
<1>3. ASSUME ~mine
      PROVE  /\ queue' \in Seq(Messages) /\ Len(queue') <= MaxQueue + 1 /\ Quietly
             /\ Told(queue') <= Told(queue) + 2 * (engine'.trades - engine.trades)
  <2>1. Len(queue) < MaxQueue /\ Broadcast(Msg("none", IF engine.open THEN <<"closed">> ELSE <<>>))
    BY <1>3 DEF StopPaper
  <2>2. "none" \in Events /\ "closed" \in Events /\ "none" # "closed" /\ "none" # "signal" /\ "closed" # "signal"
    BY DEF Events
  <2>3. CASE engine.open
    <3>1. Broadcast(Msg("none", <<"closed">>))
      BY <2>1, <2>3
    <3>2. Grown(1) /\ Quietly
      BY <1>1, <2>2, <3>1, PutTwo
    <3>3. engine'.trades - engine.trades = 1 /\ Told(queue) \in Nat
      BY <1>1, <1>2, <2>3, ToldIs
    <3>4. queue' \in Seq(Messages) /\ Told(queue') \in Nat /\ Told(queue') <= Told(queue) + 1
          /\ Len(queue') \in Len(queue)..(Len(queue) + 2)
      BY <3>2, ToldIs DEF Grown
    <3> QED BY <1>1, <2>1, <3>2, <3>3, <3>4
  <2>4. CASE ~engine.open
    <3>1. Broadcast(Msg("none", <<>>))
      BY <2>1, <2>4
    <3>2. Grown(0) /\ Quietly
      BY <1>1, <2>2, <3>1, PutOne
    <3>3. 2 * (engine'.trades - engine.trades) = 0 /\ Told(queue) \in Nat
      BY <1>1, <1>2, <2>4, ToldIs
    <3>4. queue' \in Seq(Messages) /\ Told(queue') \in Nat /\ Told(queue') <= Told(queue)
          /\ Len(queue') \in Len(queue)..(Len(queue) + 2)
      BY <3>2, <3>3, ToldIs DEF Grown
    <3>5. Told(queue') <= Told(queue) + 2 * (engine'.trades - engine.trades)
      BY <3>3, <3>4
    <3>6. Len(queue') <= MaxQueue + 1
      BY <1>1, <2>1, <3>4
    <3> QED BY <3>2, <3>4, <3>5, <3>6
  <2> QED BY <2>3, <2>4
<1>4. engine.trades <= engine'.trades
  BY <1>1, <1>2
<1> QED BY <1>1, <1>2, <1>3, <1>4 DEF Ends

LEMMA StopLiveEnds ==
  ASSUME SessionAssumption, SessionInv, NEW mine \in BOOLEAN, StopLive(mine)
  PROVE  Ends(mine)
<1>1. /\ up /\ up' /\ sess.status # "none" /\ Halt /\ AskedBy(mine) /\ kind # "paper"
      /\ queue \in Seq(Messages) /\ Len(queue) \in Nat /\ engine.trades \in Nat /\ MaxQueue \in Nat
      /\ engine \in Engines /\ Within(engine) /\ Told(queue) \in Nat
  BY ToldIs, SMT DEF StopLive, SessionInv, SessionTypeOK, SessionAssumption, Engines, Within
<1>2. ASSUME ~mine
      PROVE  queue' = queue /\ Quietly
  BY <1>1, <1>2 DEF StopLive, Quietly
<1>3. CASE kind = "live"
  <2>1. engine' = Settled /\ row' = "stopped"
    BY <1>3 DEF StopLive
  <2>2. /\ engine' \in Engines /\ Within(engine') /\ ~engine'.open /\ engine'.state # "on"
        /\ engine'.trades = engine.trades
    BY <1>1, <1>3, <2>1, SettledIs
  <2> QED BY <1>1, <1>2, <1>3, <2>1, <2>2 DEF Ends
<1>4. CASE kind # "live"
  <2>1. UNCHANGED <<engine, row>> /\ kind = "committee"
    BY <1>1, <1>4 DEF StopLive, SessionInv, SessionTypeOK, SessionAssumption
  <2> QED BY <1>1, <1>2, <1>4, <2>1 DEF Ends, SessionInv, StopSettles, NoGhostRow
<1> QED BY <1>3, <1>4

LEMMA EmergencyEnds ==
  ASSUME SessionAssumption, SessionInv, NEW mine \in BOOLEAN, Emergency(mine)
  PROVE  Ends(mine)
<1> DEFINE b == engine.open /\ kind = "committee"
<1>1. /\ up /\ up' /\ sess.status # "none" /\ Halt /\ AskedBy(mine) /\ row' = row
      /\ engine' = [engine EXCEPT !.state = "killed", !.open = b]
      /\ queue \in Seq(Messages) /\ Len(queue) \in Nat /\ MaxQueue \in Nat
      /\ engine \in Engines /\ Within(engine) /\ Told(queue) \in Nat
  BY ToldIs, SMT DEF Emergency, SessionInv, SessionTypeOK, SessionAssumption, Engines, Within
<1>2. b \in BOOLEAN /\ (b => engine.open)
  OBVIOUS
<1> HIDE DEF b
<1>3. engine' \in Engines /\ engine'.state = "killed" /\ engine'.trades = engine.trades
  BY <1>1, <1>2 DEF Engines
<1>4. engine'.open = b
  BY <1>1, <1>2, Zenon DEF Engines
<1>5. ASSUME ~mine
      PROVE  /\ queue' \in Seq(Messages) /\ Len(queue') <= MaxQueue + 1 /\ Quietly
             /\ Told(queue') <= Told(queue) + 2 * (engine'.trades - engine.trades)
  <2>1. "kill" \in Events /\ "kill" # "closed" /\ "kill" # "signal"
    BY DEF Events
  <2>2. Len(queue) < MaxQueue /\ Put(<<Msg("kill", <<>>)>>)
    BY <1>5 DEF Emergency
  <2>3. Grown(0) /\ Quietly
    BY <1>1, <2>1, <2>2, PutOne
  <2>4. 2 * (engine'.trades - engine.trades) = 0
    BY <1>1, <1>3 DEF Engines
  <2>5. queue' \in Seq(Messages) /\ Told(queue') \in Nat /\ Told(queue') <= Told(queue)
        /\ Len(queue') \in Len(queue)..(Len(queue) + 2)
    BY <1>1, <2>3, ToldIs DEF Grown
  <2> QED BY <1>1, <2>2, <2>3, <2>4, <2>5
<1>6. Within(engine') /\ (engine'.open => engine.open) /\ engine.trades <= engine'.trades
      /\ (row' = "stopped" => engine'.state # "on") /\ engine'.state # "stopped"
  BY <1>1, <1>2, <1>3, <1>4 DEF Within, Engines
<1> QED BY <1>1, <1>3, <1>5, <1>6 DEF Ends

(* Every step.                                                             *)
LEMMA SessionKept ==
  ASSUME SessionAssumption, SessionInv, [SessionNext]_sessionVars
  PROVE  SessionInv' /\ QuietAfterStop
<1>1. CASE UNCHANGED sessionVars
  <2>1. SessionInv'
    BY <1>1 DEF sessionVars, SessionInv, SessionTypeOK, Clean, Telling, Told, Tells, Has, NoGhostRow, StopSettles,
               KilledIsOff
  <2>2. Len(queue') = Len(queue) /\ Len(queue) \in Nat /\ engine' = engine
    BY <1>1 DEF sessionVars, SessionInv
  <2> QED BY <2>1, <2>2 DEF QuietAfterStop
<1>2. CASE SessionNext
  <2> USE <1>2 DEF SessionNext
  <2>1. CASE StartPaper \/ StartLive \/ StartCommittee
    BY <2>1, RegisterKeeps
  <2>2. CASE Wake \/ Nothing \/ Fail \/ Cancelled
    BY <2>2, LoopMoves, MovesKeep
  <2>3. CASE Signal
    BY <2>3, SessionSignalKeeps
  <2>4. CASE Finish
    BY <2>4, FinishKeeps
  <2>5. ASSUME NEW mine \in BOOLEAN, StopPaper(mine) \/ StopLive(mine) \/ Emergency(mine)
        PROVE  SessionInv' /\ QuietAfterStop
    BY <2>5, StopPaperEnds, StopLiveEnds, EmergencyEnds, EndsKeep
  <2>6. CASE Connect \/ Heartbeat
    BY <2>6, SocketKeeps
  <2>7. CASE StreamTick
    BY <2>7, StreamTickKeeps
  <2>8. CASE Deliver
    BY <2>8, DeliverKeeps
  <2>9. CASE Crash
    BY <2>9, CrashKeeps
  <2>10. CASE Startup
    BY <2>10, StartupKeeps
  <2> QED BY <2>1, <2>2, <2>3, <2>4, <2>5, <2>6, <2>7, <2>8, <2>9, <2>10 DEF Loop
<1> QED BY <1>1, <1>2

(* The invariant: with the types, what the queue may tell, what a session  *)
(* that is not there leaves, and whom a stop has stopped.                  *)
THEOREM SessionInductive ==
  ASSUME SessionAssumption
  PROVE  SessionSpec => []SessionInv
<1>1. SessionInit => SessionInv
  BY SessionStarts
<1>2. SessionInv /\ [SessionNext]_sessionVars => SessionInv'
  BY SessionKept
<1> QED BY <1>1, <1>2, PTL DEF SessionSpec

(* A session's row, a stop that was answered and a kill event say what the *)
(* engine and the loop do from then on, for any kind of session, length of *)
(* the queue and number of trades, and through crashes and restarts.       *)
THEOREM SessionsHold ==
  ASSUME SessionAssumption
  PROVE  SessionSpec => SessionHolds
<1>1. SessionInv => NoGhostRow /\ StopSettles /\ KilledIsOff
  BY DEF SessionInv
<1>2. SessionInv /\ [SessionNext]_sessionVars => [QuietAfterStop]_sessionVars
  BY SessionKept
<1> QED BY <1>1, <1>2, SessionInductive, PTL DEF SessionSpec, SessionHolds

(* The record, the task, the engine, the socket with its queue, the page   *)
(* and the row keep their types.                                           *)
THEOREM SessionTypesHold ==
  ASSUME SessionAssumption
  PROVE  SessionSpec => []SessionTypeOK
<1>1. SessionInv => SessionTypeOK
  BY DEF SessionInv
<1> QED BY <1>1, SessionInductive, PTL

-----------------------------------------------------------------------------
(* The session of a committee: its portfolio, prices and risk state.       *)

StopLevels == [sl : Int, tp : Int, tp1 : {0}, tp2 : {0}]
Portfolios == [pos : {-1, 0, 1}, size : Nat, entry : Int, realized : Int, levels : StopLevels,
               equity : Int, signals : Nat]

(* A portfolio that is flat has neither size nor entry, and an open trade  *)
(* has its own stop levels, on their sides of its entry.                   *)
Book(a) ==
  /\ a \in Portfolios /\ (a.pos = 0) = (a.size = 0) /\ (a.pos = 0) = (a.entry = 0)
  /\ a.pos # 0 /\ Committee!Cfg.stop # "none" =>
       a.pos * (a.entry - a.levels.sl) >= 0 /\ a.pos * (a.levels.tp - a.entry) >= 0

Risks == {r \in RiskStates : Len(r.window) <= WindowCap}

Calls == [p : {a \in Portfolios : Book(a)}, rs : Risks, brk : Nat, event : BOOLEAN]

(* The market at b has not passed a level of the trade: the next quote     *)
(* that does meets it on the way from b.                                   *)
Ahead(a, b) ==
  /\ a.pos = 1 => /\ a.levels.sl > 0 => a.levels.sl <= b + Spread
                  /\ a.levels.tp > 0 => a.levels.tp >= b
  /\ a.pos = -1 => /\ a.levels.sl > 0 => a.levels.sl >= b
                   /\ a.levels.tp > 0 => a.levels.tp <= b + Spread

(* What the guards see when a signal comes, and that one of them fires:    *)
(* from then on one fires at every signal, and no level is looked at.      *)
Beaten(a, r) == [r EXCEPT !.beat = committee_now, !.equity = a.equity]
Doomed(a, r) == Committee!Guards(Committee!Risk, Beaten(a, r), committee_now, "") # {}

(* What the hour's count of the risk state is when it is next read.        *)
Hour == committee_now \div HourTicks
CountOf(r) == IF r.hour = Hour THEN r.hourly ELSE 0

(* The gates of a session that deals with the broker see every trade.      *)
Gated == Committee!Dealt /\ Committee!Cfg.enabled

CommitteeInv ==
  /\ committee \in Committees /\ committee_now \in 0..committee.time
  /\ committee_stopped \in BOOLEAN /\ event \in BOOLEAN /\ committee_brk \in Nat /\ hourly \in Nat
  /\ Book(p) /\ committee_rs \in Risks
  /\ Gated => /\ hourly <= Committee!Cfg.maxHourly /\ hourly <= CountOf(committee_rs)
              /\ committee_rs.hour <= Hour
  /\ committee_stopped => p.pos = 0
  /\ mid \in Int
  /\ ~committee_stopped =>
       \E b \in committee.bids : mid = 2 * b + Spread /\ (Ahead(p, b) \/ Doomed(p, committee_rs))

-----------------------------------------------------------------------------
(* What the assumption says of the session's configuration.                *)
LEMMA CommitteeTypes ==
  ASSUME Committee!CommitteeAssumption, committee \in Committees
  PROVE  /\ Lot \in Nat \ {0} /\ Spread \in Nat /\ HourTicks \in Nat \ {0} /\ WindowCap \in Nat \ {0}
         /\ Committee!Live \in BOOLEAN /\ Committee!Dealt \in BOOLEAN
         /\ committee.time \in Nat /\ committee.bids \subseteq Nat \ {0}
         /\ committee.convictions \subseteq Nat \ {0}
         /\ Committee!Cfg.enabled \in BOOLEAN /\ Committee!Cfg.useDd \in BOOLEAN
         /\ Committee!Cfg.equity \in Int /\ Committee!Cfg.maxHourly \in Nat
         /\ Committee!Cfg.lifetime \in Int
         /\ Committee!Cfg.sizing = "fixed" /\ Committee!Cfg.trust \in 0..Lot
         /\ \A v \in committee.convictions : Committee!Cfg.trust > 0 => Committee!Cfg.trust * v >= Lot
         /\ Committee!Cfg.stop \in {"none", "fixed_pips", "atr"} /\ ~Committee!Cfg.partial
         /\ Committee!Cfg.sl \in Nat /\ Committee!Cfg.tp \in Nat
BY DEF Committee!CommitteeAssumption, Committee!Live, Committee!Dealt, Committee!Cfg

(* The risk controls see twice the equity, in half ticks.                  *)
LEMMA RiskIs ==
  ASSUME Committee!CommitteeAssumption, committee \in Committees
  PROVE  /\ Committee!Risk.enabled = Committee!Cfg.enabled /\ Committee!Risk.useDd = Committee!Cfg.useDd
         /\ Committee!Risk.maxHourly = Committee!Cfg.maxHourly
         /\ Committee!Risk.lifetime = Committee!Cfg.lifetime
         /\ Committee!Initial \in Int
BY CommitteeTypes DEF Committee!Risk, Committee!Initial

(* A committee's engine is fed by the risk controls of the live engine.    *)
LEMMA SameControls ==
  /\ Committee!RiskStates = RiskStates
  /\ \A r, n : Committee!RecordTradeSubmission(r, n) = RecordTradeSubmission(r, n)
  /\ \A r : Committee!RecordApiError(r) = RecordApiError(r) /\ Committee!RecordApiSuccess(r) = RecordApiSuccess(r)
  /\ \A c, r, pnl : Committee!AfterTrade(c, r, pnl) = AfterTrade(c, r, pnl)
  /\ \A c, r, n : Committee!RollHour(c, r, n) = RollHour(c, r, n)
BY DEF Committee!RiskStates, RiskStates, Committee!Never, Never,
       Committee!RecordTradeSubmission, RecordTradeSubmission,
       Committee!RecordApiError, RecordApiError, Committee!RecordApiSuccess, RecordApiSuccess,
       Committee!AfterTrade, AfterTrade, Committee!RollHour, RollHour

(* The larger of two numbers.                                              *)
LEMMA MaxOfTwo ==
  ASSUME NEW a \in Int, NEW b \in Int
  PROVE  Committee!Max({a, b}) = IF a >= b THEN a ELSE b
<1> DEFINE m == IF a >= b THEN a ELSE b
<1>1. m \in {a, b} /\ \A y \in {a, b} : m >= y
  OBVIOUS
<1>2. \A x \in {a, b} : (\A y \in {a, b} : x >= y) => x = m
  OBVIOUS
<1>3. Committee!Max({a, b}) = m
  BY <1>1, <1>2 DEF Committee!Max
<1> QED BY <1>3

(* A stop is on the losing side of its entry and a target on the other.    *)
LEMMA LevelsAround ==
  ASSUME Committee!CommitteeAssumption, committee \in Committees,
         NEW entry \in Int, NEW dirn \in {-1, 1}, NEW atr \in Nat,
         NEW l, l = Committee!ComputeStopLevels(Committee!Cfg, entry, dirn, atr, 0)
  PROVE  /\ l \in StopLevels
         /\ Committee!Cfg.stop = "none" => l.sl = 0 /\ l.tp = 0
         /\ Committee!Cfg.stop # "none" => dirn * (entry - l.sl) >= 0 /\ dirn * (l.tp - entry) >= 0
<1> DEFINE c == Committee!Cfg
<1>1. c.stop \in {"none", "fixed_pips", "atr"} /\ c.sl \in Nat /\ c.tp \in Nat /\ ~c.partial
  BY CommitteeTypes
<1> HIDE DEF c
<1>2. PICK u \in Nat : c.stop # "none" => u = Committee!Unit(c.stop, atr, 0)
  <2>1. Committee!Max({atr, 0}) = atr
    BY MaxOfTwo
  <2> QED BY <1>1, <2>1 DEF Committee!Unit
<1>3. PICK s \in Nat, t \in Nat : s = c.sl * u /\ t = c.tp * u /\ (-c.sl) * u = -s
  <2>1. c.sl * u \in Nat /\ c.tp * u \in Nat /\ (-c.sl) * u = -(c.sl * u)
    BY <1>1, <1>2
  <2> QED BY <2>1
<1>4. l = Committee!ComputeStopLevels(c, entry, dirn, atr, 0)
  BY DEF c
<1>5. CASE c.stop = "none"
  BY <1>4, <1>5 DEF Committee!ComputeStopLevels, Committee!NoLevels, StopLevels, c
<1>6. CASE c.stop # "none"
  <2>1. l = [sl |-> entry + dirn * (-s), tp |-> entry + dirn * t, tp1 |-> 0, tp2 |-> 0]
    BY <1>1, <1>2, <1>3, <1>4, <1>6 DEF Committee!ComputeStopLevels
  <2>2. l.sl = entry + dirn * (-s) /\ l.tp = entry + dirn * t
    BY <2>1
  <2>3. l \in StopLevels
    BY <2>1 DEF StopLevels
  <2>4. dirn * (entry - l.sl) >= 0 /\ dirn * (l.tp - entry) >= 0
    BY <2>2
  <2> QED BY <1>6, <2>3, <2>4 DEF c
<1> QED BY <1>5, <1>6

(* Scaled by its conviction a size stays a whole number, and never none.   *)
LEMMA SizeIsPositive ==
  ASSUME Committee!CommitteeAssumption, committee \in Committees, NEW v \in committee.convictions
  PROVE  Committee!SizeFor(v) \in Nat \ {0}
<1> DEFINE c == Committee!Cfg
           asked == Committee!ComputeSize(c, Committee!NewSizing(c.equity), 0, 0)
           size == IF asked <= 0 THEN Lot ELSE asked
<1>1. /\ Lot \in Nat \ {0} /\ c.trust \in 0..Lot /\ c.equity \in Int /\ v \in Nat \ {0}
      /\ c.sizing = "fixed" /\ (c.trust > 0 => c.trust * v >= Lot)
  BY CommitteeTypes
<1> HIDE DEF c
<1>2. asked \in {0, c.trust}
  BY <1>1 DEF Committee!ComputeSize
<1> HIDE DEF asked
<1>3. size \in Nat /\ size * v >= Lot
  <2>1. CASE asked <= 0
    BY <1>1, <2>1
  <2>2. CASE ~(asked <= 0)
    BY <1>1, <1>2, <2>2
  <2> QED BY <2>1, <2>2
<1> HIDE DEF size
<1>4. PICK n \in Nat : n = size * v /\ n >= Lot
  BY <1>1, <1>3
<1>5. n \div Lot \in Nat \ {0}
  BY <1>1, <1>4
<1>6. Committee!SizeFor(v) = (size * v) \div Lot
  BY DEF Committee!SizeFor, size, asked, c
<1> QED BY <1>4, <1>5, <1>6

-----------------------------------------------------------------------------
(* What is held, and what would be left if it had been paid at the entry.  *)

Held(a) == a.pos * a.size
Cash(a) == a.realized - 2 * (Held(a) * a.entry)

(* The prices between the quotes (b, b + Spread) and (n, n + Spread).      *)
Crossed(b, n) == {q \in Int : (q >= b \/ q >= n) /\ (q <= b + Spread \/ q <= n + Spread)}

(* Nothing is dealt, or once, or what was held first and then a new trade. *)
DealtAt(a, r, Q) ==
  \/ Held(r) = Held(a) /\ Cash(r) = Cash(a)
  \/ \E q \in Q : Cash(r) = Cash(a) + 2 * ((Held(a) - Held(r)) * q)
  \/ \E q1, q2 \in Q : Cash(r) = Cash(a) + 2 * (Held(a) * q1 - Held(r) * q2)

(* The types of a portfolio's parts.                                       *)
LEMMA BookTypes ==
  ASSUME NEW a, Book(a)
  PROVE  /\ a.pos \in {-1, 0, 1} /\ a.size \in Nat /\ a.entry \in Int /\ a.realized \in Int
         /\ Held(a) \in Int /\ Cash(a) \in Int
         /\ a.levels \in StopLevels /\ a.levels.sl \in Int /\ a.levels.tp \in Int
         /\ a.levels.tp1 = 0 /\ a.levels.tp2 = 0 /\ a.equity \in Int /\ a.signals \in Nat
         /\ a.pos = 0 => Held(a) = 0 /\ Cash(a) = a.realized
<1>1. /\ a.pos \in {-1, 0, 1} /\ a.size \in Nat /\ a.entry \in Int /\ a.realized \in Int
      /\ a.levels \in StopLevels /\ a.equity \in Int /\ a.signals \in Nat
      /\ (a.pos = 0) = (a.entry = 0)
  BY DEF Book, Portfolios
<1>2. Held(a) \in Int /\ (a.pos = 0 => Held(a) = 0)
  BY <1>1 DEF Held
<1>3. Cash(a) \in Int /\ (a.pos = 0 => Cash(a) = a.realized)
  BY <1>1, <1>2 DEF Cash
<1> QED BY <1>1, <1>2, <1>3 DEF StopLevels

(* A close is paid for all that was held, and leaves the levels.           *)
LEMMA CloseBooks ==
  ASSUME NEW a, Book(a), NEW price \in Int, NEW r, r = Committee!CloseTrade(a, price)
  PROVE  /\ Book(r) /\ r.pos = 0 /\ Held(r) = 0 /\ r.realized \in Int
         /\ Cash(r) = Cash(a) + 2 * (Held(a) * price) /\ r.realized = Cash(r)
<1>1. /\ a.pos \in {-1, 0, 1} /\ a.size \in Nat /\ a.entry \in Int /\ a.realized \in Int
      /\ a.levels \in StopLevels /\ a.equity \in Int /\ a.signals \in Nat /\ a \in Portfolios
  BY BookTypes DEF Book
<1> DEFINE gain == 2 * a.pos * (price - a.entry) * a.size
<1>2. gain \in Int /\ gain = 2 * ((a.pos * a.size) * price) - 2 * ((a.pos * a.size) * a.entry)
  BY <1>1
<1>3. r = [a EXCEPT !.pos = 0, !.size = 0, !.entry = 0, !.realized = a.realized + gain]
  BY DEF Committee!CloseTrade
<1> HIDE DEF gain
<1>4. r = [pos |-> 0, size |-> 0, entry |-> 0, realized |-> a.realized + gain, levels |-> a.levels,
           equity |-> a.equity, signals |-> a.signals]
  BY <1>1, <1>3 DEF Portfolios
<1>5. /\ r.pos = 0 /\ r.size = 0 /\ r.entry = 0 /\ r.realized = a.realized + gain
      /\ a.realized + gain \in Int
  BY <1>1, <1>2, <1>4
<1>6. r \in Portfolios
  BY <1>1, <1>4, <1>5 DEF Portfolios
<1>7. Book(r)
  BY <1>5, <1>6 DEF Book
<1>8. Held(r) = 0 /\ Cash(r) = r.realized
  BY <1>5, <1>7, BookTypes
<1>9. Cash(r) = Cash(a) + 2 * (Held(a) * price)
  BY <1>1, <1>2, <1>5, <1>8 DEF Held, Cash
<1> QED BY <1>5, <1>7, <1>8, <1>9

(* The types of the parts that a signal changes.                           *)
LEMMA CallTypes ==
  ASSUME NEW w \in Calls
  PROVE  /\ Book(w.p) /\ w.rs \in RiskStates /\ Len(w.rs.window) <= WindowCap
         /\ w.rs.hour \in Nat /\ w.rs.hourly \in Nat /\ w.rs.killed \in BOOLEAN
         /\ w.brk \in Nat /\ w.event \in BOOLEAN
BY DEF Calls, Risks, RiskStates

(* A part of what a signal changes may be replaced.                        *)
LEMMA WithPortfolio ==
  ASSUME NEW w \in Calls, NEW a, Book(a), NEW v, v = [w EXCEPT !.p = a]
  PROVE  v \in Calls /\ v.p = a /\ v.rs = w.rs /\ v.brk = w.brk /\ v.event = w.event
<1>1. a \in {x \in Portfolios : Book(x)}
  BY DEF Book
<1> QED BY <1>1 DEF Calls

LEMMA WithRisk ==
  ASSUME NEW w \in Calls, NEW r \in Risks, NEW v, v = [w EXCEPT !.rs = r]
  PROVE  v \in Calls /\ v.p = w.p /\ v.rs = r /\ v.brk = w.brk /\ v.event = w.event
BY DEF Calls

(* The kill event is told and changes nothing else.                        *)
LEMMA KillTold ==
  ASSUME NEW w \in Calls, NEW v, v = Committee!EmitKill(w)
  PROVE  v \in Calls /\ v.p = w.p /\ v.rs = w.rs /\ v.brk = w.brk /\ v.event = TRUE
BY DEF Calls, Committee!EmitKill

(* What is asked of and paid by the market lies between two quotes.         *)
LEMMA QuotesCross ==
  ASSUME Committee!CommitteeAssumption, committee \in Committees,
         NEW b \in committee.bids, NEW bid \in committee.bids, NEW pos \in {-1, 0, 1}
  PROVE  /\ Committee!ExitQuote(pos, bid) \in Crossed(b, bid)
         /\ Committee!EntryQuote(pos, bid) \in Crossed(b, bid)
<1>1. b \in Nat /\ bid \in Nat /\ Spread \in Nat
  BY CommitteeTypes
<1> QED BY <1>1 DEF Committee!ExitQuote, Committee!EntryQuote, Crossed

(* Without a partial close a quote hits the stop or the target.            *)
LEMMA StopHit ==
  ASSUME NEW l, l.sl \in Int, l.tp \in Int, l.tp1 = 0, l.tp2 = 0, NEW x \in Int
  PROVE  /\ Committee!CheckStopHit(l, 1, x, x) =
              IF l.sl > 0 /\ x <= l.sl THEN "sl" ELSE IF l.tp > 0 /\ x >= l.tp THEN "tp" ELSE ""
         /\ Committee!CheckStopHit(l, -1, x, x) =
              IF l.sl > 0 /\ x >= l.sl THEN "sl" ELSE IF l.tp > 0 /\ x <= l.tp THEN "tp" ELSE ""
BY DEF Committee!CheckStopHit

(* Which level a quote hits: its fill lies between the quotes, and levels  *)
(* that are not hit are still ahead.                                       *)
HitAt(a, q) == Committee!CheckStopHit(a.levels, a.pos, q, q)

LEMMA HitFills ==
  ASSUME Committee!CommitteeAssumption, committee \in Committees, NEW a, Book(a), a.pos # 0,
         NEW b \in committee.bids, Ahead(a, b), NEW bid \in committee.bids
  PROVE  LET hit == HitAt(a, Committee!ExitQuote(a.pos, bid))
         IN /\ hit \in {"", "sl", "tp"}
            /\ hit = "" => Ahead(a, bid)
            /\ hit = "sl" => a.levels.sl \in Crossed(b, bid)
            /\ hit = "tp" => a.levels.tp \in Crossed(b, bid)
<1>0. PICK q, hit : q = Committee!ExitQuote(a.pos, bid) /\ hit = HitAt(a, q)
  OBVIOUS
<1> SUFFICES /\ hit \in {"", "sl", "tp"}
             /\ hit = "" => Ahead(a, bid)
             /\ hit = "sl" => a.levels.sl \in Crossed(b, bid)
             /\ hit = "tp" => a.levels.tp \in Crossed(b, bid)
  BY <1>0
<1>1. /\ a.pos \in {-1, 1} /\ a.levels.sl \in Int /\ a.levels.tp \in Int
      /\ a.levels.tp1 = 0 /\ a.levels.tp2 = 0
  BY BookTypes
<1>2. b \in Nat /\ bid \in Nat /\ Spread \in Nat
  BY CommitteeTypes
<1>3. CASE a.pos = 1
  <2>1. q = bid
    BY <1>0, <1>3 DEF Committee!ExitQuote
  <2>2. hit = IF a.levels.sl > 0 /\ bid <= a.levels.sl THEN "sl"
              ELSE IF a.levels.tp > 0 /\ bid >= a.levels.tp THEN "tp" ELSE ""
    <3>1. hit = Committee!CheckStopHit(a.levels, 1, bid, bid)
      BY <1>0, <1>3, <2>1 DEF HitAt
    <3>2. bid \in Int
      BY <1>2
    <3>3. Committee!CheckStopHit(a.levels, 1, bid, bid) =
            IF a.levels.sl > 0 /\ bid <= a.levels.sl THEN "sl"
            ELSE IF a.levels.tp > 0 /\ bid >= a.levels.tp THEN "tp" ELSE ""
      BY <1>1, <3>2, StopHit
    <3> QED BY <3>1, <3>3
  <2>3. /\ a.levels.sl > 0 => a.levels.sl <= b + Spread
        /\ a.levels.tp > 0 => a.levels.tp >= b
    BY <1>3 DEF Ahead
  <2>4. CASE a.levels.sl > 0 /\ bid <= a.levels.sl
    <3>1. hit = "sl"
      BY <2>2, <2>4
    <3>2. a.levels.sl \in Crossed(b, bid)
      BY <1>1, <1>2, <2>3, <2>4 DEF Crossed
    <3> QED BY <3>1, <3>2
  <2>5. CASE ~(a.levels.sl > 0 /\ bid <= a.levels.sl) /\ a.levels.tp > 0 /\ bid >= a.levels.tp
    <3>1. hit = "tp"
      BY <2>2, <2>5, Zenon
    <3>2. a.levels.tp \in Crossed(b, bid)
      BY <1>1, <1>2, <2>3, <2>5 DEF Crossed
    <3> QED BY <3>1, <3>2
  <2>6. CASE ~(a.levels.sl > 0 /\ bid <= a.levels.sl) /\ ~(a.levels.tp > 0 /\ bid >= a.levels.tp)
    <3>1. hit = ""
      BY <2>2, <2>6, Zenon
    <3>2. Ahead(a, bid)
      BY <1>1, <1>2, <1>3, <2>6 DEF Ahead
    <3> QED BY <3>1, <3>2
  <2> QED BY <2>4, <2>5, <2>6
<1>4. CASE a.pos = -1
  <2>1. q = bid + Spread
    BY <1>0, <1>4 DEF Committee!ExitQuote
  <2>2. hit = IF a.levels.sl > 0 /\ bid + Spread >= a.levels.sl THEN "sl"
              ELSE IF a.levels.tp > 0 /\ bid + Spread <= a.levels.tp THEN "tp" ELSE ""
    <3>1. hit = Committee!CheckStopHit(a.levels, -1, bid + Spread, bid + Spread)
      BY <1>0, <1>4, <2>1 DEF HitAt
    <3>2. bid + Spread \in Int
      BY <1>2
    <3>3. Committee!CheckStopHit(a.levels, -1, bid + Spread, bid + Spread) =
            IF a.levels.sl > 0 /\ bid + Spread >= a.levels.sl THEN "sl"
            ELSE IF a.levels.tp > 0 /\ bid + Spread <= a.levels.tp THEN "tp" ELSE ""
      BY <1>1, <3>2, StopHit
    <3> QED BY <3>1, <3>3
  <2>3. /\ a.levels.sl > 0 => a.levels.sl >= b
        /\ a.levels.tp > 0 => a.levels.tp <= b + Spread
    BY <1>4 DEF Ahead
  <2>4. CASE a.levels.sl > 0 /\ bid + Spread >= a.levels.sl
    <3>1. hit = "sl"
      BY <2>2, <2>4
    <3>2. a.levels.sl \in Crossed(b, bid)
      BY <1>1, <1>2, <2>3, <2>4 DEF Crossed
    <3> QED BY <3>1, <3>2
  <2>5. CASE ~(a.levels.sl > 0 /\ bid + Spread >= a.levels.sl) /\ a.levels.tp > 0 /\ bid + Spread <= a.levels.tp
    <3>1. hit = "tp"
      BY <2>2, <2>5, Zenon
    <3>2. a.levels.tp \in Crossed(b, bid)
      BY <1>1, <1>2, <2>3, <2>5 DEF Crossed
    <3> QED BY <3>1, <3>2
  <2>6. CASE ~(a.levels.sl > 0 /\ bid + Spread >= a.levels.sl) /\ ~(a.levels.tp > 0 /\ bid + Spread <= a.levels.tp)
    <3>1. hit = ""
      BY <2>2, <2>6, Zenon
    <3>2. Ahead(a, bid)
      BY <1>1, <1>2, <1>4, <2>6 DEF Ahead
    <3> QED BY <3>1, <3>2
  <2> QED BY <2>4, <2>5, <2>6
<1> QED BY <1>1, <1>3, <1>4

(* A level that is hit is dealt at its fill and cleared, without a monitor. *)
LEMMA StopsDeal ==
  ASSUME Committee!CommitteeAssumption, committee \in Committees, NEW w \in Calls,
         NEW b \in committee.bids, Ahead(w.p, b), NEW bid \in committee.bids,
         NEW r, r = Committee!AfterStops(w, bid)
  PROVE  /\ r \in Calls /\ r.rs = w.rs /\ r.brk = w.brk /\ r.event = w.event
         /\ \/ r = w /\ Ahead(w.p, bid)
            \/ /\ w.p.pos # 0 /\ r.p.pos = 0 /\ Held(r.p) = 0
               /\ \E f \in Crossed(b, bid) : Cash(r.p) = Cash(w.p) + 2 * (Held(w.p) * f)
<1> DEFINE q == Committee!ExitQuote(w.p.pos, bid)
           hit == IF w.p.pos = 0 THEN "" ELSE Committee!CheckStopHit(w.p.levels, w.p.pos, q, q)
           price == IF hit = "sl" THEN w.p.levels.sl
                    ELSE IF hit = "tp2" THEN w.p.levels.tp2 ELSE w.p.levels.tp
           a == [Committee!CloseTrade(w.p, price) EXCEPT !.levels = Committee!NoLevels]
<1>1. Book(w.p)
  BY CallTypes
<1>2. r = IF hit = "" THEN w ELSE [w EXCEPT !.p = a]
  BY DEF Committee!AfterStops
<1>3. CASE w.p.pos = 0
  BY <1>2, <1>3 DEF Ahead
<1>4. CASE w.p.pos # 0
  <2>1. hit = HitAt(w.p, Committee!ExitQuote(w.p.pos, bid))
    BY <1>4 DEF HitAt
  <2> HIDE DEF hit, q
  <2>2. /\ hit \in {"", "sl", "tp"} /\ (hit = "" => Ahead(w.p, bid))
        /\ (hit = "sl" => w.p.levels.sl \in Crossed(b, bid))
        /\ (hit = "tp" => w.p.levels.tp \in Crossed(b, bid))
    BY <1>1, <1>4, <2>1, HitFills
  <2>3. CASE hit = ""
    BY <1>2, <2>2, <2>3
  <2>4. CASE hit # ""
    <3>1. price \in Crossed(b, bid) /\ price \in Int
      BY <2>2, <2>4 DEF Crossed
    <3>2. PICK flat : flat = Committee!CloseTrade(w.p, price)
      OBVIOUS
    <3> HIDE DEF price
    <3>3. /\ Book(flat) /\ flat.pos = 0 /\ Cash(flat) = Cash(w.p) + 2 * (Held(w.p) * price)
      BY <1>1, <3>1, <3>2, CloseBooks
    <3>4. a = [flat EXCEPT !.levels = Committee!NoLevels]
      BY <3>2
    <3> HIDE DEF a
    <3>5. flat \in Portfolios /\ Committee!NoLevels \in StopLevels
      BY <3>3 DEF Book, Committee!NoLevels, StopLevels
    <3>6. /\ a \in Portfolios /\ a.pos = flat.pos /\ a.size = flat.size /\ a.entry = flat.entry
          /\ a.realized = flat.realized
      BY <3>4, <3>5 DEF Portfolios
    <3>7. Book(a)
      BY <3>3, <3>6 DEF Book
    <3>8. Cash(a) = Cash(flat) /\ Held(a) = 0
      BY <3>3, <3>6, <3>7, BookTypes DEF Cash, Held
    <3>9. /\ r \in Calls /\ r.p = a /\ r.rs = w.rs /\ r.brk = w.brk /\ r.event = w.event
      <4>1. r = [w EXCEPT !.p = a]
        BY <1>2, <2>4
      <4> QED BY <3>7, <4>1, WithPortfolio
    <3> QED BY <1>4, <3>1, <3>3, <3>6, <3>8, <3>9
  <2> QED BY <2>3, <2>4
<1> QED BY <1>3, <1>4

(* A trade that the signal does not want is dealt at the quote; its        *)
(* monitors may kill.                                                      *)
LEMMA ExitDeals ==
  ASSUME Committee!CommitteeAssumption, committee \in Committees, NEW w \in Calls,
         NEW bid \in committee.bids, NEW r, r = Committee!AfterExit(w, bid)
  PROVE  /\ r \in Calls /\ r.p.pos = 0 /\ r.brk = w.brk
         /\ r.rs.killed = w.rs.killed /\ r.rs.hour = w.rs.hour /\ r.rs.hourly = w.rs.hourly
         /\ w.p.pos = 0 => r = w
         /\ Cash(r.p) = Cash(w.p) + 2 * (Held(w.p) * Committee!ExitQuote(w.p.pos, bid))
<1>1. Book(w.p) /\ w.rs \in RiskStates /\ Len(w.rs.window) <= WindowCap
  BY CallTypes
<1>2. w.p.pos \in {-1, 0, 1} /\ Held(w.p) \in Int /\ Cash(w.p) \in Int /\ w.p.realized \in Int
  BY <1>1, BookTypes
<1>3. bid \in Nat /\ Spread \in Nat
  BY CommitteeTypes
<1>4. PICK x \in Int : x = Committee!ExitQuote(w.p.pos, bid)
  BY <1>3 DEF Committee!ExitQuote
<1>5. CASE w.p.pos = 0
  <2>1. r = w
    BY <1>5 DEF Committee!AfterExit
  <2>2. Held(w.p) = 0
    BY <1>1, <1>5, BookTypes
  <2> QED BY <1>2, <1>4, <1>5, <2>1, <2>2
<1>6. CASE w.p.pos # 0
  <2>1. PICK flat : flat = Committee!CloseTrade(w.p, x)
    OBVIOUS
  <2>2. Book(flat) /\ flat.pos = 0 /\ Cash(flat) = Cash(w.p) + 2 * (Held(w.p) * x) /\ flat.realized \in Int
    BY <1>1, <2>1, CloseBooks
  <2>3. PICK k : k = AfterTrade(Committee!Risk, w.rs, flat.realized - w.p.realized)
    OBVIOUS
  <2>4. /\ k \in RiskStates /\ Len(k.window) <= WindowCap
        /\ k.killed = w.rs.killed /\ k.hour = w.rs.hour /\ k.hourly = w.rs.hourly
    <3>1. flat.realized - w.p.realized \in Int
      BY <1>2, <2>2
    <3>2. Committee!Risk.enabled \in BOOLEAN /\ Committee!Risk.useDd \in BOOLEAN /\ WindowCap \in Nat \ {0}
      BY CommitteeTypes, RiskIs
    <3> QED BY <1>1, <2>3, <3>1, <3>2, TradeBooked
  <2>5. k \in Risks
    BY <2>4 DEF Risks
  <2> DEFINE left == [w EXCEPT !.p = flat, !.rs = k]
  <2>6. left \in Calls /\ left.p = flat /\ left.rs = k /\ left.brk = w.brk
    <3>1. flat \in {a \in Portfolios : Book(a)}
      BY <2>2 DEF Book
    <3> QED BY <2>5, <3>1 DEF Calls
  <2>7. r = IF Committee!Monitors(Committee!Risk, k) # {} THEN Committee!EmitKill(left) ELSE left
    BY <1>4, <1>6, <2>1, <2>3, SameControls DEF Committee!AfterExit
  <2> HIDE DEF left
  <2>8. r \in Calls /\ r.p = flat /\ r.rs = k /\ r.brk = w.brk
    BY <2>2, <2>6, <2>7, KillTold
  <2> QED BY <1>4, <1>6, <2>2, <2>4, <2>8
<1> QED BY <1>5, <1>6

(* A new trade has a side, a size and its own levels, ahead of the quote.  *)
Opened(a, target, size, bid, atr, e) ==
  [a EXCEPT !.pos = target, !.size = size, !.entry = Committee!EntryQuote(target, bid),
            !.levels = Committee!ComputeStopLevels(Committee!Cfg, Committee!EntryQuote(target, bid), target, atr, 0),
            !.equity = e]

LEMMA OpenBooks ==
  ASSUME Committee!CommitteeAssumption, committee \in Committees, NEW a, Book(a), a.pos = 0,
         NEW target \in {-1, 1}, NEW size \in Nat \ {0}, NEW bid \in committee.bids, NEW atr \in Nat,
         NEW e \in Int, NEW r, r = Opened(a, target, size, bid, atr, e)
  PROVE  /\ Book(r) /\ Ahead(r, bid) /\ r.pos = target
         /\ Cash(r) = Cash(a) - 2 * (Held(r) * Committee!EntryQuote(target, bid))
<1>1. bid \in Nat \ {0} /\ Spread \in Nat
  BY CommitteeTypes
<1>2. PICK entry, l : /\ entry = Committee!EntryQuote(target, bid)
                      /\ l = Committee!ComputeStopLevels(Committee!Cfg, entry, target, atr, 0)
  OBVIOUS
<1>3. entry = IF target = 1 THEN bid + Spread ELSE bid
  BY <1>2 DEF Committee!EntryQuote
<1>4. entry \in Nat \ {0}
  BY <1>1, <1>3
<1>5. /\ l \in StopLevels /\ (Committee!Cfg.stop = "none" => l.sl = 0 /\ l.tp = 0)
      /\ (Committee!Cfg.stop # "none" => target * (entry - l.sl) >= 0 /\ target * (l.tp - entry) >= 0)
  BY <1>2, <1>4, LevelsAround
<1>6. a \in Portfolios /\ Cash(a) = a.realized /\ a.realized \in Int
  BY BookTypes DEF Book
<1>7. r = [pos |-> target, size |-> size, entry |-> entry, realized |-> a.realized, levels |-> l,
           equity |-> e, signals |-> a.signals]
  BY <1>2, <1>6 DEF Portfolios, Opened
<1>8. /\ r.pos = target /\ r.size = size /\ r.entry = entry /\ r.realized = a.realized /\ r.levels = l
  BY ONLY <1>7
<1>9. r \in Portfolios
  BY <1>4, <1>5, <1>6, <1>7 DEF Portfolios
<1>10. Book(r)
  BY <1>4, <1>5, <1>8, <1>9 DEF Book
<1>11. l.sl \in Int /\ l.tp \in Int
  BY <1>5 DEF StopLevels
<1>12. Ahead(r, bid)
  <2>1. CASE Committee!Cfg.stop = "none"
    BY <1>5, <1>8, <2>1 DEF Ahead
  <2>2. CASE Committee!Cfg.stop # "none" /\ target = 1
    BY <1>1, <1>3, <1>5, <1>8, <1>11, <2>2 DEF Ahead
  <2>3. CASE Committee!Cfg.stop # "none" /\ target = -1
    BY <1>1, <1>3, <1>5, <1>8, <1>11, <2>3 DEF Ahead
  <2> QED BY <2>1, <2>2, <2>3
<1>13. Cash(r) = Cash(a) - 2 * (Held(r) * entry)
  BY <1>6, <1>8 DEF Cash
<1> QED BY <1>2, <1>8, <1>10, <1>12, <1>13

(* Reading the account renews equities and nothing that is dealt.          *)
LEMMA AccountRead ==
  ASSUME Committee!CommitteeAssumption, committee \in Committees, NEW w \in Calls, NEW ok,
         NEW r, r = Committee!ReadAccount(w, ok)
  PROVE  /\ r \in Calls /\ r.brk = w.brk /\ r.p.pos = w.p.pos /\ r.p.realized = w.p.realized
         /\ Cash(r.p) = Cash(w.p)
         /\ r.rs.killed = w.rs.killed /\ r.rs.hour = w.rs.hour /\ r.rs.hourly = w.rs.hourly
<1>1. Book(w.p) /\ w.rs \in RiskStates /\ Len(w.rs.window) <= WindowCap
  BY CallTypes
<1>2. CASE ~Committee!Dealt
  BY <1>2 DEF Committee!ReadAccount
<1>3. CASE Committee!Dealt /\ ~ok
  <2>1. r = [w EXCEPT !.rs = RecordApiError(w.rs)]
    BY <1>3, SameControls DEF Committee!ReadAccount
  <2>2. PICK k : k = RecordApiError(w.rs)
    OBVIOUS
  <2>3. k \in Risks /\ k.killed = w.rs.killed /\ k.hour = w.rs.hour /\ k.hourly = w.rs.hourly
    BY <1>1, <2>2, CallsBooked DEF Risks
  <2> QED BY <2>1, <2>2, <2>3, WithRisk
<1>4. CASE Committee!Dealt /\ ok
  <2>1. PICK nav \in Int : nav = Committee!Initial + w.p.realized
    BY <1>1, BookTypes, RiskIs
  <2>2. PICK k0, k, a : /\ k0 = [w.rs EXCEPT !.equity = nav] /\ k = RecordApiSuccess(k0)
                        /\ a = [w.p EXCEPT !.equity = nav]
    OBVIOUS
  <2>3. r = [w EXCEPT !.rs = k, !.p = a]
    <3>1. r = [w EXCEPT !.rs = RecordApiSuccess([w.rs EXCEPT !.equity = nav]), !.p = [w.p EXCEPT !.equity = nav]]
      BY <1>4, <2>1, SameControls DEF Committee!ReadAccount, Calls
    <3> QED BY <2>2, <3>1
  <2>4. /\ k0 \in RiskStates /\ k0.window = w.rs.window /\ k0.killed = w.rs.killed
        /\ k0.hour = w.rs.hour /\ k0.hourly = w.rs.hourly
    BY <1>1, <2>1, <2>2 DEF RiskStates
  <2>5. k \in Risks /\ k.killed = w.rs.killed /\ k.hour = w.rs.hour /\ k.hourly = w.rs.hourly
    BY <1>1, <2>2, <2>4, CallsBooked DEF Risks
  <2>6. /\ a \in Portfolios /\ a.pos = w.p.pos /\ a.size = w.p.size /\ a.entry = w.p.entry
        /\ a.realized = w.p.realized /\ a.levels = w.p.levels
    BY <1>1, <2>1, <2>2 DEF Book, Portfolios
  <2>7. Book(a) /\ Cash(a) = Cash(w.p)
    BY <1>1, <2>6 DEF Book, Cash, Held
  <2>8. r \in Calls /\ r.rs = k /\ r.p = a /\ r.brk = w.brk
    <3>1. a \in {x \in Portfolios : Book(x)}
      BY <2>6, <2>7
    <3> QED BY <2>3, <2>5, <3>1 DEF Calls
  <2> QED BY <2>5, <2>6, <2>7, <2>8
<1> QED BY <1>2, <1>3, <1>4

(* The hour's gate starts the count of a new hour, and when it is on the   *)
(* count is that of this hour.                                             *)
LEMMA HourStarts ==
  ASSUME Committee!CommitteeAssumption, committee \in Committees, committee_now \in Nat,
         NEW r \in Risks, NEW k, k = Committee!RollHour(Committee!Risk, r, committee_now)
  PROVE  /\ k \in Risks /\ k.killed = r.killed
         /\ Committee!Cfg.enabled => k.hour = Hour /\ k.hourly = CountOf(r)
<1>1. Hour \in Nat
  BY CommitteeTypes, HoursGrow DEF Hour
<1>2. k = IF Committee!Cfg.enabled /\ Hour # r.hour THEN [r EXCEPT !.hourly = 0, !.hour = Hour] ELSE r
  BY RiskIs DEF Committee!RollHour, Hour
<1>3. r \in RiskStates /\ Len(r.window) <= WindowCap
  BY DEF Risks
<1> HIDE DEF Hour
<1>4. CASE Committee!Cfg.enabled /\ Hour # r.hour
  <2>1. k = [r EXCEPT !.hourly = 0, !.hour = Hour]
    BY <1>2, <1>4
  <2>2. k \in RiskStates
    <3>1. [r EXCEPT !.hourly = 0, !.hour = Hour] \in RiskStates
      BY <1>1, <1>3, Zenon DEF RiskStates
    <3> QED BY <2>1, <3>1
  <2>3. k.window = r.window /\ k.killed = r.killed /\ k.hour = Hour /\ k.hourly = 0
    BY <1>3, <2>1 DEF RiskStates
  <2> QED BY <1>3, <1>4, <2>2, <2>3 DEF Risks, CountOf
<1>5. CASE ~(Committee!Cfg.enabled /\ Hour # r.hour)
  BY <1>2, <1>5 DEF CountOf
<1> QED BY <1>4, <1>5

(* What the attempt to open a trade makes of a flat portfolio.             *)
Entered(w, r, target, bid) ==
  \/ /\ r.p.pos = 0 /\ Cash(r.p) = Cash(w.p) /\ r.p.realized = w.p.realized
     /\ Gated => r.rs.hour = Hour /\ r.rs.hourly = CountOf(w.rs)
  \/ /\ r.p.pos = target /\ Cash(r.p) = Cash(w.p) - 2 * (Held(r.p) * Committee!EntryQuote(target, bid))
     /\ Gated => /\ r.rs.hour = Hour /\ r.rs.hourly = CountOf(w.rs) + 1
                 /\ CountOf(w.rs) < Committee!Cfg.maxHourly

LEMMA EnterDeals ==
  ASSUME Committee!CommitteeAssumption, committee \in Committees, committee_now \in Nat,
         NEW w \in Calls, w.p.pos = 0, NEW target \in {-1, 1}, NEW v \in committee.convictions,
         NEW bid \in committee.bids, NEW atr \in Nat, NEW bad, NEW answers,
         NEW r, r = Committee!Enter(w, target, v, bid, atr, bad, answers)
  PROVE  r \in Calls /\ Ahead(r.p, bid) /\ r.rs.killed = w.rs.killed /\ Entered(w, r, target, bid)
<1>1. PICK size \in Nat \ {0} : size = Committee!SizeFor(v)
  BY SizeIsPositive
<1>2. PICK read : read = Committee!ReadAccount(w, answers.account)
  OBVIOUS
<1>3. /\ read \in Calls /\ read.brk = w.brk /\ read.p.pos = 0 /\ read.p.realized = w.p.realized
      /\ Cash(read.p) = Cash(w.p)
      /\ read.rs.killed = w.rs.killed /\ read.rs.hour = w.rs.hour /\ read.rs.hourly = w.rs.hourly
  BY <1>2, AccountRead
<1>4. PICK k : k = Committee!RollHour(Committee!Risk, read.rs, committee_now)
  OBVIOUS
<1>5. /\ k \in Risks /\ k.killed = w.rs.killed
      /\ Committee!Cfg.enabled => k.hour = Hour /\ k.hourly = CountOf(w.rs)
  <2>1. read.rs \in Risks
    BY <1>3 DEF Calls
  <2> QED BY <1>3, <1>4, <2>1, HourStarts DEF CountOf
<1>6. PICK w2 : w2 = [read EXCEPT !.rs = k]
  OBVIOUS
<1>7. w2 \in Calls /\ w2.p = read.p /\ w2.rs = k /\ w2.brk = w.brk
  BY <1>3, <1>5, <1>6, WithRisk
<1>8. PICK gates : gates = Committee!Blocked(Committee!Risk, w2.rs, target, target, committee_now, size, bad)
  OBVIOUS
<1>9. r = IF gates # {} THEN w2
          ELSE IF Committee!Dealt /\ ~answers.order THEN Committee!OrderFailed(w2, target, bid, atr)
          ELSE Committee!OpenTrade(Committee!Submit(w2, size), target, size, bid, atr, 2 * bid + Spread)
  BY <1>1, <1>2, <1>4, <1>6, <1>8 DEF Committee!Enter
<1>10. PICK l : l = Committee!ComputeStopLevels(Committee!Cfg, Committee!EntryQuote(target, bid), target, atr, 0)
  OBVIOUS
<1>11. bid \in Nat \ {0} /\ Spread \in Nat /\ Committee!EntryQuote(target, bid) \in Int
  BY CommitteeTypes DEF Committee!EntryQuote
<1>12. l \in StopLevels
  BY <1>10, <1>11, LevelsAround
<1>13. Book(read.p) /\ k \in RiskStates /\ Len(k.window) <= WindowCap /\ k.hourly \in Nat
  BY <1>3, <1>5, CallTypes DEF Risks, RiskStates
<1>14. CASE gates # {}
  BY <1>3, <1>5, <1>7, <1>9, <1>14 DEF Ahead, Entered, Gated
<1>15. CASE gates = {} /\ Committee!Dealt /\ ~answers.order
  <2>1. PICK e, a : e = RecordApiError(k) /\ a = [read.p EXCEPT !.levels = l]
    OBVIOUS
  <2>2. r = [w2 EXCEPT !.rs = e, !.p = a]
    <3>1. r = Committee!OrderFailed(w2, target, bid, atr)
      BY <1>9, <1>15
    <3>2. r = [w2 EXCEPT !.rs = RecordApiError(w2.rs), !.p = [w2.p EXCEPT !.levels = l]]
      BY <1>7, <1>10, <3>1, SameControls DEF Committee!OrderFailed, Calls
    <3> QED BY <1>7, <2>1, <3>2
  <2>3. e \in Risks /\ e.killed = k.killed /\ e.hour = k.hour /\ e.hourly = k.hourly
    BY <1>13, <2>1, CallsBooked DEF Risks
  <2>4. /\ a \in Portfolios /\ a.pos = read.p.pos /\ a.size = read.p.size /\ a.entry = read.p.entry
        /\ a.realized = read.p.realized
    BY <1>12, <1>13, <2>1 DEF Book, Portfolios
  <2>5. Book(a) /\ a.pos = 0 /\ Cash(a) = Cash(w.p) /\ a.realized = w.p.realized
    BY <1>3, <1>13, <2>4 DEF Book, Cash, Held
  <2>6. r \in Calls /\ r.rs = e /\ r.p = a
    <3>1. a \in {x \in Portfolios : Book(x)}
      BY <2>4, <2>5
    <3> QED BY <1>7, <2>2, <2>3, <3>1 DEF Calls
  <2> QED BY <1>5, <2>3, <2>5, <2>6 DEF Ahead, Entered, Gated
<1>16. CASE gates = {} /\ ~(Committee!Dealt /\ ~answers.order)
  <2>1. PICK s : s = Committee!Submit(w2, size)
    OBVIOUS
  <2>2. /\ s \in Calls /\ s.p = read.p /\ s.rs.killed = w.rs.killed
        /\ Gated => s.rs.hour = Hour /\ s.rs.hourly = CountOf(w.rs) + 1
    <3>1. CASE ~Committee!Dealt
      BY <1>5, <1>7, <2>1, <3>1 DEF Committee!Submit, Gated
    <3>2. CASE Committee!Dealt
      <4>1. PICK c, t : c = RecordApiSuccess(k) /\ t = RecordTradeSubmission(c, committee_now)
        OBVIOUS
      <4>2. /\ t \in Risks /\ t.killed = k.killed /\ t.hour = k.hour /\ t.hourly = k.hourly + 1
        <5>1. /\ c \in RiskStates /\ c.window = k.window /\ c.killed = k.killed
              /\ c.hour = k.hour /\ c.hourly = k.hourly
          BY <1>13, <4>1, CallsBooked
        <5>2. /\ t \in RiskStates /\ t.window = c.window /\ t.killed = c.killed
              /\ t.hour = c.hour /\ t.hourly = c.hourly + 1
          BY <4>1, <5>1, CallsBooked
        <5> QED BY <1>13, <5>1, <5>2 DEF Risks
      <4>3. s = [w2 EXCEPT !.rs = t, !.brk = w2.brk + size]
        BY <1>7, <2>1, <3>2, <4>1, SameControls DEF Committee!Submit
      <4>4. w2.brk + size \in Nat
        BY <1>7, CallTypes
      <4>5. s \in Calls /\ s.rs = t /\ s.p = w2.p
        BY <1>7, <4>2, <4>3, <4>4 DEF Calls
      <4> QED BY <1>5, <1>7, <4>2, <4>5 DEF Gated
    <3> QED BY <3>1, <3>2
  <2>3. PICK a : a = [read.p EXCEPT !.pos = target, !.size = size,
                                    !.entry = Committee!EntryQuote(target, bid), !.levels = l]
    OBVIOUS
  <2>4. PICK e \in Int : e = Committee!Marked(a, 2 * bid + Spread)
    <3>1. read.p \in Portfolios
      BY <1>13 DEF Book
    <3>2. /\ a.pos = target /\ a.size = size /\ a.entry = Committee!EntryQuote(target, bid)
          /\ a.realized = read.p.realized /\ a.realized \in Int
      BY <2>3, <3>1 DEF Portfolios
    <3>3. PICK n \in Int : n = a.pos * a.size * (2 * bid + Spread - 2 * a.entry)
      BY <1>11, <3>2
    <3>4. Committee!Marked(a, 2 * bid + Spread) = Committee!Initial + a.realized + n
      BY <1>11, <3>2, <3>3 DEF Committee!Marked
    <3> QED BY <3>2, <3>4, RiskIs
  <2>5. PICK o : o = Opened(read.p, target, size, bid, atr, e)
    OBVIOUS
  <2>6. r = [s EXCEPT !.p = o]
    <3>1. r = Committee!OpenTrade(s, target, size, bid, atr, 2 * bid + Spread)
      BY <1>9, <1>16, <2>1
    <3>2. r = [s EXCEPT !.p = [a EXCEPT !.equity = e]]
      BY <1>10, <2>2, <2>3, <2>4, <3>1 DEF Committee!OpenTrade
    <3>3. o = [a EXCEPT !.equity = e]
      BY <1>10, <1>13, <2>3, <2>5 DEF Book, Portfolios, Opened
    <3> QED BY <3>2, <3>3
  <2>7. /\ Book(o) /\ Ahead(o, bid) /\ o.pos = target
        /\ Cash(o) = Cash(w.p) - 2 * (Held(o) * Committee!EntryQuote(target, bid))
    <3>1. read.p.pos = 0 /\ Cash(read.p) = Cash(w.p) /\ Book(read.p)
      BY <1>3, <1>13
    <3>2. PICK b : b = read.p
      OBVIOUS
    <3>3. b.pos = 0 /\ Cash(b) = Cash(w.p) /\ Book(b) /\ o = Opened(b, target, size, bid, atr, e)
      BY <2>5, <3>1, <3>2
    <3> QED BY <3>3, OpenBooks
  <2>8. r \in Calls /\ r.p = o /\ r.rs = s.rs
    BY <2>2, <2>6, <2>7, WithPortfolio
  <2>9. Gated => CountOf(w.rs) < Committee!Cfg.maxHourly
    <3> SUFFICES ASSUME Gated PROVE CountOf(w.rs) < Committee!Cfg.maxHourly
      OBVIOUS
    <3>1. Committee!Risk.enabled /\ k.hourly = CountOf(w.rs) /\ Committee!Risk.maxHourly = Committee!Cfg.maxHourly
      BY <1>5, RiskIs DEF Gated
    <3>2. "G3" \notin gates
      BY <1>16
    <3>3. ~(k.hourly >= Committee!Risk.maxHourly)
      BY <1>7, <1>8, <3>1, <3>2 DEF Committee!Blocked
    <3>4. Committee!Cfg.maxHourly \in Nat
      BY CommitteeTypes
    <3> QED BY <1>13, <3>1, <3>3, <3>4
  <2> QED BY <2>2, <2>7, <2>8, <2>9 DEF Entered
<1> QED BY <1>14, <1>15, <1>16

(* What a signal finds: the heartbeat and the equity are written first.    *)
LEMMA BeatenKeeps ==
  ASSUME NEW a, Book(a), NEW r \in Risks, committee_now \in Nat, NEW k, k = Beaten(a, r)
  PROVE  /\ k \in Risks /\ k.killed = r.killed /\ k.hour = r.hour /\ k.hourly = r.hourly
         /\ k.errors = r.errors
<1>1. a.equity \in Int /\ r \in RiskStates /\ Len(r.window) <= WindowCap
  BY BookTypes DEF Risks
<1>2. k \in RiskStates
  <2>1. [r EXCEPT !.beat = committee_now, !.equity = a.equity] \in RiskStates
    BY <1>1, Zenon DEF RiskStates
  <2> QED BY <2>1 DEF Beaten
<1>3. /\ k.window = r.window /\ k.killed = r.killed /\ k.hour = r.hour /\ k.hourly = r.hourly
      /\ k.errors = r.errors
  BY <1>1 DEF Beaten, RiskStates
<1> QED BY <1>1, <1>2, <1>3 DEF Risks

(* The guards look at the errors and at the equity: a risk state that has  *)
(* as many errors and more than that is doomed as well.                    *)
LEMMA DoomPasses ==
  ASSUME NEW a, NEW r \in Risks, NEW s \in Risks, s.errors = r.errors, Doomed(a, r)
  PROVE  Doomed(a, s)
<1>1. PICK x, y : x = Beaten(a, r) /\ y = Beaten(a, s)
  OBVIOUS
<1>2. r \in RiskStates /\ s \in RiskStates
  BY DEF Risks
<1>3. y.beat = x.beat /\ y.errors = x.errors /\ y.equity = x.equity
  BY <1>1, <1>2 DEF Beaten, RiskStates
<1>4. PICK g : g \in Committee!Guards(Committee!Risk, x, committee_now, "")
  BY <1>1 DEF Doomed
<1>5. g \in Committee!Guards(Committee!Risk, y, committee_now, "")
  BY <1>3, <1>4 DEF Committee!Guards
<1> QED BY <1>1, <1>5 DEF Doomed

(* Past the stops and the exit the portfolio is flat, and what was held    *)
(* was dealt at one price between the quotes.                              *)
LEMMA SignalLeaves ==
  ASSUME Committee!CommitteeAssumption, committee \in Committees, NEW w \in Calls,
         NEW b \in committee.bids, Ahead(w.p, b), NEW bid \in committee.bids,
         NEW w1, w1 = Committee!AfterStops(w, bid), NEW w2, w2 = Committee!AfterExit(w1, bid)
  PROVE  /\ w2 \in Calls /\ w2.p.pos = 0
         /\ w2.rs.killed = w.rs.killed /\ w2.rs.hour = w.rs.hour /\ w2.rs.hourly = w.rs.hourly
         /\ \E f \in Crossed(b, bid) : Cash(w2.p) = Cash(w.p) + 2 * (Held(w.p) * f)
<1>1. /\ w1 \in Calls /\ w1.rs = w.rs /\ w1.brk = w.brk
      /\ \/ w1 = w
         \/ /\ w1.p.pos = 0 /\ Held(w1.p) = 0
            /\ \E f \in Crossed(b, bid) : Cash(w1.p) = Cash(w.p) + 2 * (Held(w.p) * f)
  BY StopsDeal
<1>2. PICK x : x = Committee!ExitQuote(w1.p.pos, bid)
  OBVIOUS
<1>3. /\ w2 \in Calls /\ w2.p.pos = 0
      /\ w2.rs.killed = w1.rs.killed /\ w2.rs.hour = w1.rs.hour /\ w2.rs.hourly = w1.rs.hourly
      /\ w1.p.pos = 0 => w2 = w1
      /\ Cash(w2.p) = Cash(w1.p) + 2 * (Held(w1.p) * x)
  BY <1>1, <1>2, ExitDeals
<1>4. CASE w1 = w
  <2>1. Book(w.p) /\ w.p.pos \in {-1, 0, 1}
    BY CallTypes, BookTypes
  <2>2. x \in Crossed(b, bid)
    BY <1>2, <1>4, <2>1, QuotesCross
  <2> QED BY <1>1, <1>3, <1>4, <2>2
<1>5. CASE /\ w1.p.pos = 0 /\ Held(w1.p) = 0
           /\ \E f \in Crossed(b, bid) : Cash(w1.p) = Cash(w.p) + 2 * (Held(w.p) * f)
  BY <1>1, <1>3, <1>5
<1> QED BY <1>1, <1>4, <1>5

(* Whether history counts a trade, and what the risk state's count says:   *)
(* it is as it was, this hour's, or this hour's with one more trade, that  *)
(* the gate has let through.                                               *)
Counts(w) == w.p.pos # 0 /\ (w.p.pos # p.pos \/ w.p.realized # p.realized)

HourTold(w) ==
  \/ ~Counts(w) /\ w.rs.hour = committee_rs.hour /\ w.rs.hourly = committee_rs.hourly
  \/ ~Counts(w) /\ w.rs.hour = Hour /\ w.rs.hourly = CountOf(committee_rs)
  \/ /\ w.rs.hour = Hour /\ w.rs.hourly = CountOf(committee_rs) + 1
     /\ CountOf(committee_rs) < Committee!Cfg.maxHourly

(* A flat end: everything that was held is dealt at one price.             *)
LEMMA FlatDeals ==
  ASSUME NEW b, NEW bid, NEW a, Book(a), NEW r, Book(r), r.pos = 0, NEW f \in Crossed(b, bid),
         Cash(r) = Cash(a) + 2 * (Held(a) * f)
  PROVE  DealtAt(a, r, Crossed(b, bid))
<1>1. Held(r) = 0 /\ Held(a) \in Int /\ Cash(a) \in Int /\ Cash(r) \in Int /\ f \in Int
  BY BookTypes DEF Crossed
<1>2. Cash(r) = Cash(a) + 2 * ((Held(a) - Held(r)) * f)
  BY <1>1
<1> QED BY <1>2 DEF DealtAt

(* One signal: the calls of the portfolio's, the risk controls' and the    *)
(* broker's side in their order.                                           *)
LEMMA SignalDeals ==
  ASSUME Committee!CommitteeAssumption, CommitteeInv,
         NEW b \in committee.bids, Ahead(p, b) \/ Doomed(p, committee_rs),
         NEW target \in {-1, 0, 1}, NEW v \in committee.convictions, NEW bid \in committee.bids,
         NEW atr \in Nat, NEW bad, NEW answers,
         NEW w, w = Committee!Processed(target, v, bid, atr, bad, answers)
  PROVE  /\ w \in Calls /\ w.rs.killed = committee_rs.killed
         /\ DealtAt(p, w.p, Crossed(b, bid))
         /\ Ahead(w.p, bid) \/ Doomed(w.p, w.rs)
         /\ committee_rs.killed /\ p.pos = 0 => w.p.pos = 0
         /\ Gated => HourTold(w)
<1>1. /\ committee \in Committees /\ Book(p) /\ committee_rs \in Risks /\ committee_brk \in Nat
      /\ committee_now \in Nat
  BY CommitteeTypes DEF CommitteeInv
<1>2. PICK r : r = Beaten(p, committee_rs)
  OBVIOUS
<1>3. /\ r \in Risks /\ r.killed = committee_rs.killed /\ r.hour = committee_rs.hour
      /\ r.hourly = committee_rs.hourly /\ r.errors = committee_rs.errors
  BY <1>1, <1>2, BeatenKeeps
<1>4. CountOf(r) = CountOf(committee_rs)
  BY <1>3 DEF CountOf
<1>5. PICK w0 : w0 = [p |-> p, rs |-> r, brk |-> committee_brk, event |-> FALSE]
  OBVIOUS
<1>6. w0 \in Calls /\ w0.p = p /\ w0.rs = r
  <2>1. p \in {a \in Portfolios : Book(a)}
    BY <1>1 DEF Book
  <2> QED BY <1>1, <1>3, <1>5, <2>1 DEF Calls
<1>7. PICK a : a = [p EXCEPT !.signals = p.signals + 1]
  OBVIOUS
<1>8. Book(a) /\ a.pos = p.pos /\ a.levels = p.levels /\ a.realized = p.realized
      /\ Held(a) = Held(p) /\ Cash(a) = Cash(p)
  <2>1. p.signals + 1 \in Nat /\ p \in Portfolios
    BY <1>1, BookTypes DEF Book
  <2>2. /\ a \in Portfolios /\ a.pos = p.pos /\ a.size = p.size /\ a.entry = p.entry
        /\ a.realized = p.realized /\ a.levels = p.levels
    BY <1>7, <2>1 DEF Portfolios
  <2> QED BY <1>1, <2>2 DEF Book, Held, Cash
<1>9. PICK s : s = [w0 EXCEPT !.p = a]
  OBVIOUS
<1>10. s \in Calls /\ s.p = a /\ s.rs = r
  BY <1>6, <1>8, <1>9, WithPortfolio
<1>11. PICK w1, w2 : w1 = Committee!AfterStops(s, bid) /\ w2 = Committee!AfterExit(w1, bid)
  OBVIOUS
<1>12. w = IF Doomed(p, committee_rs) THEN Committee!EmitKill(w0)
           ELSE IF target # 0 /\ target = w1.p.pos
           THEN [w1 EXCEPT !.p.equity = Committee!Marked(w1.p, 2 * bid + Spread)]
           ELSE IF w2.event \/ w2.rs.killed THEN Committee!EmitKill(w2)
           ELSE IF target = 0 THEN w2
           ELSE Committee!Enter(w2, target, v, bid, atr, bad, answers)
  <2>1. w0 = [p |-> p, rs |-> [committee_rs EXCEPT !.beat = committee_now, !.equity = p.equity],
              brk |-> committee_brk, event |-> FALSE]
    BY <1>2, <1>5 DEF Beaten
  <2>2. s = [w0 EXCEPT !.p.signals = w0.p.signals + 1]
    BY <1>5, <1>6, <1>7, <1>9
  <2>3. Doomed(p, committee_rs) <=> Committee!Guards(Committee!Risk, w0.rs, committee_now, "") # {}
    BY <1>2, <1>6 DEF Doomed
  <2> QED BY <1>11, <2>1, <2>2, <2>3 DEF Committee!Processed, Committee!KillNoticed
<1>13. CASE Doomed(p, committee_rs)
  <2>1. w \in Calls /\ w.p = p /\ w.rs = r
    BY <1>6, <1>12, <1>13, KillTold
  <2>2. Doomed(p, r)
    BY <1>1, <1>3, <1>13, DoomPasses
  <2>3. DealtAt(p, p, Crossed(b, bid))
    BY DEF DealtAt
  <2> QED BY <1>3, <2>1, <2>2, <2>3 DEF HourTold, Counts
<1>14. ASSUME ~Doomed(p, committee_rs) PROVE Ahead(a, b)
  BY <1>8, <1>14 DEF Ahead
<1>15. CASE ~Doomed(p, committee_rs) /\ target # 0 /\ target = w1.p.pos
  <2>1. w1 = s /\ Ahead(s.p, bid)
    BY <1>1, <1>10, <1>11, <1>14, <1>15, StopsDeal
  <2>2. w = [s EXCEPT !.p.equity = Committee!Marked(a, 2 * bid + Spread)]
    BY <1>10, <1>12, <1>15, <2>1
  <2>3. PICK e \in Int : e = Committee!Marked(a, 2 * bid + Spread)
    <3>1. /\ a.pos \in Int /\ a.size \in Int /\ a.entry \in Int /\ a.realized \in Int
      BY <1>8, BookTypes
    <3>2. bid \in Int /\ Spread \in Int /\ Committee!Initial \in Int
      BY <1>1, CommitteeTypes, RiskIs
    <3>3. PICK n \in Int : n = a.pos * a.size * (2 * bid + Spread - 2 * a.entry)
      BY <3>1, <3>2
    <3>4. Committee!Marked(a, 2 * bid + Spread) = Committee!Initial + a.realized + n
      BY <3>1, <3>2, <3>3 DEF Committee!Marked
    <3> QED BY <3>1, <3>2, <3>4
  <2>4. PICK c : c = [a EXCEPT !.equity = e]
    OBVIOUS
  <2>5. /\ Book(c) /\ c.pos = p.pos /\ c.levels = a.levels /\ c.realized = p.realized
        /\ Held(c) = Held(p) /\ Cash(c) = Cash(p)
    <3>1. a \in Portfolios
      BY <1>8 DEF Book
    <3>2. /\ c \in Portfolios /\ c.pos = a.pos /\ c.size = a.size /\ c.entry = a.entry
          /\ c.realized = a.realized /\ c.levels = a.levels
      BY <2>4, <3>1 DEF Portfolios
    <3> QED BY <1>8, <3>2 DEF Book, Held, Cash
  <2>6. w = [s EXCEPT !.p = c]
    BY <1>10, <2>2, <2>3, <2>4
  <2>7. w \in Calls /\ w.p = c /\ w.rs = r
    BY <1>10, <2>5, <2>6, WithPortfolio
  <2>8. Ahead(c, bid)
    BY <1>8, <1>10, <2>1, <2>5 DEF Ahead
  <2> QED BY <1>3, <1>15, <2>1, <2>5, <2>7, <2>8, <1>8, <1>10 DEF DealtAt, HourTold, Counts
<1>16. CASE ~Doomed(p, committee_rs) /\ ~(target # 0 /\ target = w1.p.pos)
  <2>1. PICK f \in Crossed(b, bid) :
          /\ w2 \in Calls /\ w2.p.pos = 0
          /\ w2.rs.killed = r.killed /\ w2.rs.hour = r.hour /\ w2.rs.hourly = r.hourly
          /\ Cash(w2.p) = Cash(p) + 2 * (Held(p) * f)
    BY <1>1, <1>8, <1>10, <1>11, <1>14, <1>16, SignalLeaves
  <2>2. Book(w2.p) /\ CountOf(w2.rs) = CountOf(committee_rs)
    BY <1>4, <2>1, CallTypes DEF CountOf
  <2>3. DealtAt(p, w2.p, Crossed(b, bid))
    BY <1>1, <2>1, <2>2, FlatDeals
  <2>4. Ahead(w2.p, bid)
    BY <2>1 DEF Ahead
  <2>5. CASE w2.event \/ w2.rs.killed
    <3>1. w = Committee!EmitKill(w2)
      BY <1>12, <1>16, <2>5
    <3>2. w \in Calls /\ w.p = w2.p /\ w.rs = w2.rs
      BY <2>1, <3>1, KillTold
    <3> QED BY <1>3, <2>1, <2>3, <2>4, <3>2 DEF HourTold, Counts
  <2>6. CASE ~(w2.event \/ w2.rs.killed) /\ target = 0
    <3>1. w = w2
      BY <1>12, <1>16, <2>6
    <3> QED BY <1>3, <2>1, <2>3, <2>4, <3>1 DEF HourTold, Counts
  <2>7. CASE ~(w2.event \/ w2.rs.killed) /\ target # 0
    <3>1. w = Committee!Enter(w2, target, v, bid, atr, bad, answers) /\ target \in {-1, 1}
      BY <1>12, <1>16, <2>7
    <3>2. w \in Calls /\ Ahead(w.p, bid) /\ w.rs.killed = w2.rs.killed /\ Entered(w2, w, target, bid)
      BY <1>1, <2>1, <3>1, EnterDeals
    <3>3. Book(w.p)
      BY <3>2, CallTypes
    <3>4. PICK q : q = Committee!EntryQuote(target, bid)
      OBVIOUS
    <3>5. q \in Crossed(b, bid) /\ q \in Int /\ f \in Int
      BY <1>1, <3>4, QuotesCross DEF Crossed
    <3>6. ~committee_rs.killed
      BY <1>3, <2>1, <2>7
    <3>7. CASE /\ w.p.pos = 0 /\ Cash(w.p) = Cash(w2.p) /\ w.p.realized = w2.p.realized
               /\ Gated => w.rs.hour = Hour /\ w.rs.hourly = CountOf(w2.rs)
      <4>1. DealtAt(p, w.p, Crossed(b, bid))
        BY <1>1, <2>1, <3>3, <3>7, FlatDeals
      <4> QED BY <1>3, <2>1, <2>2, <3>2, <3>7, <4>1 DEF HourTold, Counts
    <3>8. CASE /\ w.p.pos = target /\ Cash(w.p) = Cash(w2.p) - 2 * (Held(w.p) * q)
               /\ Gated => /\ w.rs.hour = Hour /\ w.rs.hourly = CountOf(w2.rs) + 1
                           /\ CountOf(w2.rs) < Committee!Cfg.maxHourly
      <4>1. PICK x \in Int, y \in Int : x = Held(p) * f /\ y = Held(w.p) * q
        BY <1>1, <3>3, <3>5, BookTypes
      <4>2. Cash(p) \in Int /\ Cash(w.p) \in Int
        BY <1>1, <3>3, BookTypes
      <4>3. Cash(w.p) = Cash(p) + 2 * (x - y)
        BY <2>1, <3>8, <4>1, <4>2
      <4>4. DealtAt(p, w.p, Crossed(b, bid))
        BY <3>5, <4>1, <4>3 DEF DealtAt
      <4> QED BY <1>3, <2>1, <2>2, <3>2, <3>6, <3>8, <4>4 DEF HourTold
    <3> QED BY <3>2, <3>4, <3>7, <3>8 DEF Entered
  <2> QED BY <2>5, <2>6, <2>7
<1> QED BY <1>12, <1>13, <1>15, <1>16

-----------------------------------------------------------------------------
(* The account a session is.                                               *)

(* The equity marked at m is the cash and what is held at m.               *)
LEMMA MarkedIsCash ==
  ASSUME Committee!CommitteeAssumption, committee \in Committees, NEW a, Book(a), NEW m \in Int
  PROVE  /\ Committee!Marked(a, m) = Committee!Initial + Cash(a) + Held(a) * m
         /\ Committee!Marked(a, m) \in Int
<1>1. a.pos \in {-1, 0, 1} /\ a.size \in Nat /\ a.entry \in Int /\ a.realized \in Int
  BY BookTypes
<1>2. (a.pos * a.size) * (m - 2 * a.entry) = (a.pos * a.size) * m - 2 * ((a.pos * a.size) * a.entry)
  BY <1>1
<1>3. PICK u \in Int, v \in Int, w \in Int : u = a.pos * a.size /\ v = u * m /\ w = u * a.entry
  BY <1>1
<1>4. a.pos * a.size * (m - 2 * a.entry) = v - 2 * w
  BY <1>2, <1>3
<1>5. Committee!Marked(a, m) = Committee!Initial + a.realized + (v - 2 * w)
  BY <1>4 DEF Committee!Marked
<1>6. Cash(a) = a.realized - 2 * w /\ Held(a) * m = v
  BY <1>3 DEF Cash, Held
<1> QED BY <1>1, <1>3, <1>5, <1>6, RiskIs

(* Prices between the quotes are prices the market passed.                 *)
LEMMA CrossedIsPassed ==
  ASSUME Committee!CommitteeAssumption, committee \in Committees,
         NEW b \in committee.bids, NEW bid \in committee.bids,
         mid = 2 * b + Spread, mid' = 2 * bid + Spread
  PROVE  Crossed(b, bid) \subseteq Committee!Ledger!Passed
<1>1. b \in Nat /\ bid \in Nat /\ Spread \in Nat
  BY CommitteeTypes
<1>2. PICK h \in Int : h = Spread \div 2 /\ h <= Spread /\ 0 <= h
  BY <1>1
<1>3. mid \div 2 = b + h /\ mid' \div 2 = bid + h
  BY <1>1, <1>2
<1>4. Committee!Ledger!Passed = IF mid < mid' THEN ((mid \div 2) - Spread)..((mid' \div 2) + Spread)
                                ELSE ((mid' \div 2) - Spread)..((mid \div 2) + Spread)
  BY DEF Committee!Ledger!Passed
<1> QED BY <1>1, <1>2, <1>3, <1>4 DEF Crossed

(* What is dealt at prices the market passed is a step of the account.     *)
LEMMA AccountSteps ==
  ASSUME Committee!CommitteeAssumption, committee \in Committees, committee' = committee,
         NEW a, Book(a), a = p, NEW r, Book(r), r = p', mid \in Int, mid' \in Int,
         NEW Q, Q \subseteq Committee!Ledger!Passed, Q \subseteq Int, Q # {}, DealtAt(a, r, Q)
  PROVE  Committee!Ledger!Next
<1>1. PICK u \in Int, n \in Int, c \in Int, e \in Int, i \in Int, m \in Int, k \in Int :
        /\ u = Held(a) /\ n = Held(r) /\ c = Cash(a) /\ e = Cash(r)
        /\ i = Committee!Initial /\ m = mid /\ k = mid'
  BY BookTypes, RiskIs
<1>2. p.pos * p.size = u /\ p'.pos * p'.size = n
  BY <1>1 DEF Held
<1>3. PICK x \in Int, y \in Int : x = u * m /\ y = n * k
  BY <1>1
<1>4. PICK before, after : before = Committee!Marked(p, mid) /\ after = Committee!Marked(p, mid)'
  OBVIOUS
<1>5. before = i + c + x /\ after = i + e + y
  <2>1. before = i + c + x
    BY <1>1, <1>3, <1>4, MarkedIsCash
  <2>2. Committee!Marked(r, k) = i + e + y
    BY <1>1, <1>3, MarkedIsCash
  <2>3. after = Committee!Marked(r, k)
    BY <1>1, <1>4 DEF Committee!Marked, Committee!Initial, Committee!Cfg
  <2> QED BY <2>1, <2>2, <2>3
<1>6. \A z \in Int : 0 * Committee!Ledger!Abs(z) = 0 /\ Committee!Ledger!Abs(z) \in Int
  BY DEF Committee!Ledger!Abs
<1>7. ASSUME NEW q \in Committee!Ledger!Passed, q \in Int, e = c + 2 * ((u - n) * q)
      PROVE  Committee!Ledger!Next
  <2>1. PICK z \in Int, w \in Int : z = (u - n) * q /\ w = Committee!Ledger!Abs(n - u)
    BY <1>6
  <2>2. e = c + 2 * z
    BY <1>7, <2>1
  <2>3. after = before + 2 * (z - 0 * w) + y - x
    BY <1>5, <2>2
  <2>4. Committee!Ledger!Deal(q)
    BY <1>1, <1>2, <1>3, <1>4, <2>1, <2>3 DEF Committee!Ledger!Deal
  <2> QED BY <2>4 DEF Committee!Ledger!Next
<1>8. ASSUME NEW q \in Committee!Ledger!Passed, NEW s \in Committee!Ledger!Passed, q \in Int, s \in Int,
             e = c + 2 * (u * q - n * s)
      PROVE  Committee!Ledger!Next
  <2>1. PICK z \in Int, w \in Int : /\ z = u * q - n * s
                                    /\ w = Committee!Ledger!Abs(u) + Committee!Ledger!Abs(n)
    BY <1>6
  <2>2. e = c + 2 * z
    BY <1>8, <2>1
  <2>3. after = before + 2 * (z - 0 * w) + y - x
    BY <1>5, <2>2
  <2>4. Committee!Ledger!TurnOver(q, s)
    BY <1>1, <1>2, <1>3, <1>4, <2>1, <2>3 DEF Committee!Ledger!TurnOver
  <2> QED BY <2>4 DEF Committee!Ledger!Next
<1>9. CASE Held(r) = Held(a) /\ Cash(r) = Cash(a)
  <2>1. PICK q \in Q : q \in Int /\ q \in Committee!Ledger!Passed
    OBVIOUS
  <2>2. e = c + 2 * ((u - n) * q)
    BY <1>1, <1>9, <2>1
  <2> QED BY <1>7, <2>1, <2>2
<1>10. CASE \E q \in Q : Cash(r) = Cash(a) + 2 * ((Held(a) - Held(r)) * q)
  BY <1>1, <1>7, <1>10
<1>11. CASE \E q, s \in Q : Cash(r) = Cash(a) + 2 * (Held(a) * q - Held(r) * s)
  BY <1>1, <1>8, <1>11
<1> QED BY <1>9, <1>10, <1>11 DEF DealtAt

-----------------------------------------------------------------------------
(* The invariant and the steps.                                            *)

KilledStaysFlat == committee_rs.killed /\ p.pos = 0 => p'.pos = 0
AnAccountStep   == [Committee!Ledger!Next]_(Committee!Ledger!vars)

(* A session starts flat, at a quote it may see.                           *)
LEMMA CommitteeStarts ==
  ASSUME Committee!CommitteeAssumption, Committee!Init
  PROVE  CommitteeInv /\ Committee!Ledger!Init
<1>1. /\ committee \in Committees /\ committee_rs = Committee!NewSessionState(Committee!Risk)
      /\ p = [pos |-> 0, size |-> 0, entry |-> 0, realized |-> 0, levels |-> Committee!NoLevels,
              equity |-> Committee!Initial, signals |-> 0]
      /\ committee_brk = 0 /\ committee_now = 0 /\ committee_stopped = FALSE /\ event = FALSE /\ hourly = 0
      /\ mid \in {2 * b + Spread : b \in committee.bids}
  BY DEF Committee!Init
<1>2. /\ committee.time \in Nat /\ Spread \in Nat /\ committee.bids \subseteq Nat \ {0}
      /\ Committee!Initial \in Int /\ WindowCap \in Nat /\ Committee!Cfg.maxHourly \in Nat
      /\ HourTicks \in Nat \ {0}
  BY <1>1, CommitteeTypes, RiskIs
<1>3. PICK b \in committee.bids : mid = 2 * b + Spread
  BY <1>1
<1>4. Committee!NoLevels \in StopLevels
  BY DEF Committee!NoLevels, StopLevels
<1>5. p \in Portfolios /\ p.pos = 0 /\ p.size = 0 /\ p.entry = 0
  BY <1>1, <1>2, <1>4 DEF Portfolios
<1>6. Book(p) /\ Ahead(p, b)
  BY <1>5 DEF Book, Ahead
<1>7. Committee!Risk.equity \in Int
  BY <1>2 DEF Committee!Risk, Committee!Initial
<1>8. committee_rs \in Risks /\ committee_rs.hour = 0
  <2>1. PICK e \in Int : e = Committee!Risk.equity
    BY <1>7
  <2>2. committee_rs = [equity |-> e, peak |-> e, day |-> e, losses |-> 0, window |-> <<>>,
                        daily |-> 0, hourly |-> 0, hour |-> 0, trade |-> Committee!Never, beat |-> 0,
                        errors |-> 0, killed |-> FALSE]
    BY <1>1, <2>1 DEF Committee!NewSessionState
  <2>3. Committee!Never = Never /\ <<>> \in Seq(Int) /\ Len(<<>>) = 0
    BY DEF Committee!Never, Never
  <2>4. committee_rs \in RiskStates /\ committee_rs.window = <<>>
    BY <2>2, <2>3 DEF RiskStates
  <2> QED BY <1>2, <2>2, <2>3, <2>4 DEF Risks
<1>9. Hour \in Nat
  <2>1. 0 \div HourTicks \in Nat
    BY <1>2, HoursGrow
  <2> QED BY <1>1, <2>1 DEF Hour
<1>10. CountOf(committee_rs) \in Nat
  BY <1>8 DEF CountOf, Risks, RiskStates
<1>11. mid \in Int
  BY <1>2, <1>3
<1>12. Committee!Ledger!Init
  BY <1>5 DEF Committee!Ledger!Init
<1>13. /\ committee_now \in 0..committee.time /\ committee_brk \in Nat /\ hourly \in Nat
       /\ hourly <= Committee!Cfg.maxHourly /\ hourly <= CountOf(committee_rs)
       /\ committee_rs.hour <= Hour
  BY <1>1, <1>2, <1>8, <1>9, <1>10
<1>14. committee_stopped \in BOOLEAN /\ event \in BOOLEAN
  BY <1>1, Zenon
<1>15. CommitteeInv
  BY <1>1, <1>3, <1>5, <1>6, <1>8, <1>11, <1>13, <1>14 DEF CommitteeInv
<1> QED BY <1>12, <1>15

(* A signal.                                                               *)
LEMMA CommitteeSignalKeeps ==
  ASSUME Committee!CommitteeAssumption, CommitteeInv,
         NEW target \in {-1, 0, 1}, NEW v \in committee.convictions, NEW bid \in committee.bids,
         NEW atr \in Nat, NEW bad, NEW answers,
         Committee!ProcessSignal(target, v, bid, atr, bad, answers)
  PROVE  CommitteeInv' /\ Committee!Ledger!Next /\ KilledStaysFlat
<1>1. PICK w : w = Committee!Processed(target, v, bid, atr, bad, answers)
  OBVIOUS
<1>2. /\ ~committee_stopped /\ p' = w.p /\ committee_rs' = w.rs /\ committee_brk' = w.brk
      /\ event' = w.event /\ mid' = 2 * bid + Spread
      /\ hourly' = IF Counts(w) THEN hourly + 1 ELSE hourly
      /\ committee' = committee /\ committee_now' = committee_now /\ committee_stopped' = committee_stopped
  BY <1>1 DEF Committee!ProcessSignal, Counts
<1>3. /\ committee \in Committees /\ Book(p) /\ committee_rs \in Risks /\ hourly \in Nat
      /\ committee_now \in 0..committee.time
  BY DEF CommitteeInv
<1>4. PICK b \in committee.bids : mid = 2 * b + Spread /\ (Ahead(p, b) \/ Doomed(p, committee_rs))
  BY <1>2 DEF CommitteeInv
<1>5. /\ w \in Calls /\ w.rs.killed = committee_rs.killed
      /\ DealtAt(p, w.p, Crossed(b, bid))
      /\ Ahead(w.p, bid) \/ Doomed(w.p, w.rs)
      /\ committee_rs.killed /\ p.pos = 0 => w.p.pos = 0
      /\ Gated => HourTold(w)
  BY ONLY <1>1, <1>4, SignalDeals, Committee!CommitteeAssumption, CommitteeInv
<1>6. /\ Book(w.p) /\ w.rs \in Risks /\ w.brk \in Nat /\ w.event \in BOOLEAN
      /\ w.rs.hourly \in Nat /\ committee_rs.hourly \in Nat
  BY <1>3, <1>5, CallTypes DEF Calls, Risks, RiskStates
<1>7. b \in Nat /\ bid \in Nat /\ Spread \in Nat /\ Committee!Cfg.maxHourly \in Nat
  BY <1>3, CommitteeTypes
<1>8. mid \in Int /\ mid' \in Int
  BY <1>2, <1>4, <1>7
<1>9. Committee!Ledger!Next
  <2>1. Crossed(b, bid) \subseteq Committee!Ledger!Passed
    BY <1>2, <1>3, <1>4, CrossedIsPassed
  <2>2. Crossed(b, bid) \subseteq Int
    BY DEF Crossed
  <2>3. Crossed(b, bid) # {}
    BY <1>3, QuotesCross
  <2>4. PICK a, r : a = p /\ r = p'
    OBVIOUS
  <2>5. Book(a) /\ Book(r) /\ DealtAt(a, r, Crossed(b, bid))
    BY <1>2, <1>3, <1>5, <1>6, <2>4
  <2> QED BY <1>2, <1>3, <1>8, <2>1, <2>2, <2>3, <2>4, <2>5, AccountSteps
<1>10. KilledStaysFlat
  BY <1>2, <1>5 DEF KilledStaysFlat
<1>11. Gated' = Gated /\ Hour' = Hour /\ Committee!Cfg' = Committee!Cfg
  BY <1>2 DEF Gated, Hour, Committee!Dealt, Committee!Live, Committee!Cfg
<1>12. ASSUME Gated
       PROVE  /\ hourly' <= Committee!Cfg.maxHourly /\ hourly' <= CountOf(w.rs) /\ w.rs.hour <= Hour
  <2>1. hourly <= Committee!Cfg.maxHourly /\ hourly <= CountOf(committee_rs) /\ committee_rs.hour <= Hour
    BY <1>12 DEF CommitteeInv
  <2>2. CountOf(committee_rs) \in Nat /\ Hour \in Nat
    <3>1. HourTicks \in Nat \ {0} /\ committee_now \in Nat
      BY <1>3, CommitteeTypes
    <3>2. Hour \in Nat
      BY <3>1, HoursGrow DEF Hour
    <3> QED BY <1>6, <3>2 DEF CountOf
  <2>3. CASE ~Counts(w) /\ w.rs.hour = committee_rs.hour /\ w.rs.hourly = committee_rs.hourly
    BY <1>2, <2>1, <2>3 DEF CountOf
  <2>4. CASE ~Counts(w) /\ w.rs.hour = Hour /\ w.rs.hourly = CountOf(committee_rs)
    <3>1. CountOf(w.rs) = CountOf(committee_rs)
      BY <2>4 DEF CountOf
    <3> QED BY <1>2, <2>1, <2>2, <2>4, <3>1
  <2>5. CASE /\ w.rs.hour = Hour /\ w.rs.hourly = CountOf(committee_rs) + 1
             /\ CountOf(committee_rs) < Committee!Cfg.maxHourly
    <3>1. CountOf(w.rs) = CountOf(committee_rs) + 1
      BY <2>5 DEF CountOf
    <3>2. hourly' <= hourly + 1
      BY <1>2, <1>3
    <3>3. hourly' \in Nat
      BY <1>2, <1>3
    <3> QED BY <1>3, <1>7, <2>1, <2>2, <2>5, <3>1, <3>2, <3>3
  <2> QED BY <1>5, <1>12, <2>3, <2>4, <2>5 DEF HourTold
<1>13. Ahead(p, bid)' \/ Doomed(p, committee_rs)'
  <2>1. CASE Ahead(w.p, bid)
    BY <1>2, <2>1 DEF Ahead
  <2>2. CASE Doomed(w.p, w.rs)
    BY <1>2, <2>2 DEF Doomed, Beaten, Committee!Risk, Committee!Initial, Committee!Cfg
  <2> QED BY <1>5, <2>1, <2>2
<1>14. Book(p)'
  BY <1>2, <1>6 DEF Book, Committee!Cfg
<1>15. (Gated => /\ hourly <= Committee!Cfg.maxHourly /\ hourly <= CountOf(committee_rs)
                 /\ committee_rs.hour <= Hour)'
  BY <1>2, <1>11, <1>12 DEF CountOf
<1>16. hourly' \in Nat /\ committee_stopped' = FALSE /\ committee_stopped' \in BOOLEAN
  BY <1>2, <1>3 DEF CommitteeInv
<1>17. CommitteeInv'
  BY <1>2, <1>3, <1>6, <1>8, <1>13, <1>14, <1>15, <1>16 DEF CommitteeInv
<1> QED BY <1>9, <1>10, <1>17

(* A tick that does not start an hour leaves its number.                   *)
LEMMA SameHour ==
  ASSUME NEW n \in Nat, NEW h \in Nat \ {0}, (n + 1) % h # 0
  PROVE  (n + 1) \div h = n \div h
OBVIOUS

(* Time passes: an hour that goes on has its count, a new one has none,    *)
(* and a guard that fires for the errors, the equity or the lifetime does  *)
(* not stop.                                                               *)
LEMMA CommitteeTickKeeps ==
  ASSUME Committee!CommitteeAssumption, CommitteeInv, Committee!Tick
  PROVE  CommitteeInv' /\ UNCHANGED (Committee!Ledger!vars) /\ KilledStaysFlat
<1>1. /\ committee_now < committee.time /\ committee_now' = committee_now + 1
      /\ hourly' = IF committee_now' % HourTicks = 0 THEN 0 ELSE hourly
      /\ committee' = committee /\ p' = p /\ committee_rs' = committee_rs
      /\ committee_brk' = committee_brk /\ mid' = mid /\ committee_stopped' = committee_stopped
      /\ event' = event
  BY DEF Committee!Tick
<1>2. /\ committee \in Committees /\ Book(p) /\ committee_rs \in Risks /\ hourly \in Nat
      /\ committee_now \in 0..committee.time
  BY DEF CommitteeInv
<1>3. /\ committee.time \in Nat /\ HourTicks \in Nat \ {0} /\ Committee!Cfg.maxHourly \in Nat
      /\ Committee!Risk.lifetime \in Int
  BY <1>2, CommitteeTypes, RiskIs
<1>4. committee_now \in Nat /\ committee_now' \in Nat /\ committee_now' \in 0..committee.time
  BY <1>1, <1>2, <1>3
<1>5. UNCHANGED (Committee!Ledger!vars) /\ KilledStaysFlat
  BY <1>1 DEF Committee!Ledger!vars, Committee!Marked, Committee!Initial, Committee!Cfg, KilledStaysFlat
<1>6. Committee!Risk' = Committee!Risk /\ Gated' = Gated /\ Committee!Cfg' = Committee!Cfg
  BY <1>1 DEF Gated, Committee!Dealt, Committee!Live, Committee!Cfg, Committee!Risk, Committee!Initial
<1>7. PICK m : m = committee_now'
  OBVIOUS
<1>8. m \in Nat /\ m = committee_now + 1 /\ Hour' = m \div HourTicks
  BY <1>1, <1>4, <1>7 DEF Hour
<1>9. /\ Hour \in Nat /\ m \div HourTicks \in Nat /\ Hour <= m \div HourTicks
      /\ m % HourTicks # 0 => m \div HourTicks = Hour
  <2>1. /\ Hour \in Nat /\ m \div HourTicks \in Nat /\ Hour <= m \div HourTicks
    BY <1>3, <1>4, <1>8, HoursGrow DEF Hour
  <2>2. ASSUME m % HourTicks # 0 PROVE m \div HourTicks = Hour
    <3>1. (committee_now + 1) \div HourTicks = committee_now \div HourTicks
      BY <1>3, <1>4, <1>8, <2>2, SameHour
    <3> QED BY <1>8, <3>1 DEF Hour
  <2> QED BY <2>1, <2>2
<1>10. ASSUME Doomed(p, committee_rs) PROVE Doomed(p, committee_rs)'
  <2>1. PICK x : x = Beaten(p, committee_rs)
    OBVIOUS
  <2>2. PICK y : y = Beaten(p, committee_rs)'
    OBVIOUS
  <2>3. y.errors = x.errors /\ y.equity = x.equity /\ x.beat = committee_now /\ y.beat = m
    <3>1. committee_rs \in RiskStates
      BY <1>2 DEF Risks
    <3>2. y = [committee_rs EXCEPT !.beat = m, !.equity = p.equity]
      BY <1>1, <1>7, <2>2 DEF Beaten
    <3> QED BY <2>1, <3>1, <3>2 DEF Beaten, RiskStates
  <2>4. PICK g : g \in Committee!Guards(Committee!Risk, x, committee_now, "")
    BY <1>10, <2>1 DEF Doomed
  <2>5. m - m = committee_now - committee_now
    BY <1>4, <1>8
  <2>6. committee_now > Committee!Risk.lifetime => m > Committee!Risk.lifetime
    BY <1>3, <1>4, <1>8
  <2>7. g \in Committee!Guards(Committee!Risk, y, m, "")
    BY <2>3, <2>4, <2>5, <2>6 DEF Committee!Guards
  <2>8. Doomed(p, committee_rs)' <=> Committee!Guards(Committee!Risk', y, m, "") # {}
    BY <1>7, <2>2 DEF Doomed, Committee!Guards
  <2> QED BY <1>6, <2>7, <2>8
<1>11. ~committee_stopped =>
         \E b \in committee.bids : mid = 2 * b + Spread /\ (Ahead(p, b)' \/ Doomed(p, committee_rs)')
  <2>1. \A b : Ahead(p, b) => Ahead(p, b)'
    BY <1>1 DEF Ahead
  <2> QED BY <1>10, <2>1 DEF CommitteeInv
<1>12. (Gated => /\ hourly <= Committee!Cfg.maxHourly /\ hourly <= CountOf(committee_rs)
                 /\ committee_rs.hour <= Hour)'
  <2> SUFFICES ASSUME Gated
               PROVE  /\ hourly' <= Committee!Cfg.maxHourly /\ hourly' <= CountOf(committee_rs)'
                      /\ committee_rs.hour <= Hour'
    BY <1>1, <1>6
  <2>1. hourly <= Committee!Cfg.maxHourly /\ hourly <= CountOf(committee_rs) /\ committee_rs.hour <= Hour
    BY DEF CommitteeInv
  <2>2. committee_rs.hour \in Nat /\ committee_rs.hourly \in Nat
    BY <1>2 DEF Risks, RiskStates
  <2>3. CountOf(committee_rs)' = IF committee_rs.hour = m \div HourTicks THEN committee_rs.hourly ELSE 0
    BY <1>1, <1>8 DEF CountOf
  <2>4. committee_rs.hour <= Hour'
    BY <1>8, <1>9, <2>1, <2>2
  <2>5. CASE m % HourTicks = 0
    <3>1. hourly' = 0
      BY <1>1, <1>7, <2>5
    <3>2. CountOf(committee_rs)' \in Nat
      BY <2>2, <2>3
    <3> QED BY <1>3, <2>4, <3>1, <3>2
  <2>6. CASE m % HourTicks # 0
    <3>1. hourly' = hourly /\ m \div HourTicks = Hour
      BY <1>1, <1>7, <1>9, <2>6
    <3>2. CountOf(committee_rs)' = CountOf(committee_rs)
      BY <2>3, <3>1 DEF CountOf
    <3> QED BY <2>1, <2>4, <3>1, <3>2
  <2> QED BY <2>5, <2>6
<1>13. Book(p)'
  BY <1>1, <1>2, <1>6 DEF Book
<1>14. /\ committee_stopped' \in BOOLEAN /\ event' \in BOOLEAN /\ committee_brk' \in Nat /\ hourly' \in Nat
       /\ (committee_stopped => p.pos = 0)' /\ mid' \in Int
  BY <1>1, <1>2 DEF CommitteeInv
<1>15. CommitteeInv'
  BY <1>1, <1>2, <1>4, <1>11, <1>12, <1>13, <1>14 DEF CommitteeInv
<1> QED BY <1>5, <1>15

(* stop() deals at the quote, or at the entry when it has none.            *)
LEMMA CommitteeStopKeeps ==
  ASSUME Committee!CommitteeAssumption, CommitteeInv,
         NEW bid \in committee.bids, NEW known \in BOOLEAN, NEW closes \in BOOLEAN,
         Committee!Stop(bid, known, closes)
  PROVE  CommitteeInv' /\ Committee!Ledger!Next /\ KilledStaysFlat
<1>1. PICK x, a, r : /\ x = IF known THEN Committee!ExitQuote(p.pos, bid) ELSE p.entry
                     /\ a = IF p.pos = 0 THEN p ELSE Committee!CloseTrade(p, x)
                     /\ r = [a EXCEPT !.equity = Committee!Initial + a.realized]
  OBVIOUS
<1>2. /\ ~committee_stopped /\ committee_stopped' = TRUE /\ p' = r
      /\ committee_brk' \in {0, committee_brk}
      /\ mid' = IF known THEN 2 * bid + Spread ELSE IF p.pos # 0 THEN 2 * p.entry ELSE mid
      /\ committee' = committee /\ committee_rs' = committee_rs /\ committee_now' = committee_now
      /\ event' = event /\ hourly' = hourly
  BY <1>1 DEF Committee!Stop
<1>3. /\ committee \in Committees /\ Book(p) /\ committee_rs \in Risks /\ hourly \in Nat
      /\ committee_now \in 0..committee.time /\ committee_brk \in Nat
  BY DEF CommitteeInv
<1>4. PICK b \in committee.bids : mid = 2 * b + Spread
  BY <1>2 DEF CommitteeInv
<1>5. b \in Nat /\ bid \in Nat /\ Spread \in Nat /\ Committee!Initial \in Int
  BY <1>3, CommitteeTypes, RiskIs
<1>6. p.pos \in {-1, 0, 1} /\ p.entry \in Int /\ Held(p) \in Int /\ Cash(p) \in Int
  BY <1>3, BookTypes
<1>7. x \in Int /\ mid \in Int /\ mid' \in Int
  BY <1>1, <1>2, <1>4, <1>5, <1>6 DEF Committee!ExitQuote
<1>8. Book(a) /\ a.pos = 0 /\ Cash(a) = Cash(p) + 2 * (Held(p) * x)
  <2>1. CASE p.pos = 0
    <3>1. Held(p) = 0 /\ a = p
      BY <1>1, <1>3, <2>1, BookTypes
    <3> QED BY <1>3, <1>6, <1>7, <2>1, <3>1
  <2>2. CASE p.pos # 0
    BY <1>1, <1>3, <1>7, <2>2, CloseBooks
  <2> QED BY <2>1, <2>2
<1>9. Book(r) /\ r.pos = 0 /\ Cash(r) = Cash(a)
  <2>1. PICK e \in Int : e = Committee!Initial + a.realized
    BY <1>5, <1>8, BookTypes
  <2>2. a \in Portfolios
    BY <1>8 DEF Book
  <2>3. r = [a EXCEPT !.equity = e]
    BY <1>1, <2>1
  <2>4. /\ r \in Portfolios /\ r.pos = a.pos /\ r.size = a.size /\ r.entry = a.entry
        /\ r.realized = a.realized /\ r.levels = a.levels
    BY <2>1, <2>2, <2>3 DEF Portfolios
  <2> QED BY <1>8, <2>4 DEF Book, Held, Cash
<1>10. Held(r) = 0
  BY <1>9, BookTypes
<1>11. PICK q \in Int : q \in Committee!Ledger!Passed /\ Held(p) * q = Held(p) * x
  <2>0. Committee!Ledger!Passed = IF mid < mid' THEN ((mid \div 2) - Spread)..((mid' \div 2) + Spread)
                                  ELSE ((mid' \div 2) - Spread)..((mid \div 2) + Spread)
    BY DEF Committee!Ledger!Passed
  <2>1. CASE known
    <3>1. mid' = 2 * bid + Spread
      BY <1>2, <2>1
    <3>2. x \in Crossed(b, bid)
      BY <1>1, <1>3, <1>6, <2>1, QuotesCross
    <3>3. x \in Committee!Ledger!Passed
      BY <1>3, <1>4, <3>1, <3>2, CrossedIsPassed
    <3> QED BY <1>7, <3>3
  <2>2. CASE ~known /\ p.pos # 0
    <3>1. mid' = 2 * x
      BY <1>1, <1>2, <2>2
    <3>2. x \in Committee!Ledger!Passed
      BY <1>5, <1>7, <2>0, <3>1
    <3> QED BY <1>7, <3>2
  <2>3. CASE ~known /\ p.pos = 0
    <3>1. mid' = mid /\ Held(p) = 0
      BY <1>2, <1>3, <2>3, BookTypes
    <3>2. mid \div 2 \in Committee!Ledger!Passed /\ mid \div 2 \in Int
      BY <1>5, <1>7, <2>0, <3>1
    <3> QED BY <1>7, <3>1, <3>2
  <2> QED BY <2>1, <2>2, <2>3
<1>12. Committee!Ledger!Next
  <2>1. Cash(r) = Cash(p) + 2 * ((Held(p) - Held(r)) * q)
    BY <1>6, <1>8, <1>9, <1>10, <1>11
  <2>2. PICK o : o = p
    OBVIOUS
  <2>3. DealtAt(o, r, {q}) /\ Book(o)
    BY <1>3, <2>1, <2>2 DEF DealtAt
  <2>4. {q} \subseteq Committee!Ledger!Passed /\ {q} \subseteq Int /\ {q} # {}
    BY <1>11
  <2> QED BY <1>2, <1>3, <1>7, <1>9, <2>2, <2>3, <2>4, AccountSteps
<1>13. KilledStaysFlat
  BY <1>2, <1>9 DEF KilledStaysFlat
<1>14. /\ Gated' = Gated /\ Hour' = Hour /\ Committee!Cfg' = Committee!Cfg
       /\ CountOf(committee_rs)' = CountOf(committee_rs)
  BY <1>2 DEF Gated, Hour, CountOf, Committee!Dealt, Committee!Live, Committee!Cfg
<1>15. (Gated => /\ hourly <= Committee!Cfg.maxHourly /\ hourly <= CountOf(committee_rs)
                 /\ committee_rs.hour <= Hour)'
  BY <1>2, <1>14 DEF CommitteeInv
<1>16. Book(p)' /\ (committee_stopped => p.pos = 0)'
  BY <1>2, <1>9, <1>14 DEF Book
<1>17. committee_stopped' \in BOOLEAN /\ event' \in BOOLEAN /\ committee_brk' \in Nat /\ committee_stopped'
  BY <1>2, <1>3 DEF CommitteeInv
<1>18. CommitteeInv'
  BY <1>2, <1>3, <1>7, <1>15, <1>16, <1>17 DEF CommitteeInv
<1> QED BY <1>12, <1>13, <1>18

(* The emergency button touches the flag and the broker.                   *)
LEMMA CommitteeEmergencyKeeps ==
  ASSUME Committee!CommitteeAssumption, CommitteeInv, NEW closes \in BOOLEAN,
         Committee!EmergencyKill(closes)
  PROVE  CommitteeInv' /\ UNCHANGED (Committee!Ledger!vars) /\ KilledStaysFlat
<1>1. PICK r : r = [committee_rs EXCEPT !.killed = TRUE]
  OBVIOUS
<1>2. /\ committee_rs' = r /\ committee_brk' \in {0, committee_brk}
      /\ committee' = committee /\ p' = p /\ mid' = mid /\ committee_now' = committee_now
      /\ committee_stopped' = committee_stopped /\ event' = event /\ hourly' = hourly
  BY <1>1 DEF Committee!EmergencyKill
<1>3. committee_rs \in Risks /\ committee_brk \in Nat
  BY DEF CommitteeInv
<1>4. /\ r \in Risks /\ r.hour = committee_rs.hour /\ r.hourly = committee_rs.hourly
      /\ r.errors = committee_rs.errors
  <2>1. committee_rs \in RiskStates /\ Len(committee_rs.window) <= WindowCap
    BY <1>3 DEF Risks
  <2>2. /\ r \in RiskStates /\ r.window = committee_rs.window /\ r.hour = committee_rs.hour
        /\ r.hourly = committee_rs.hourly /\ r.errors = committee_rs.errors
    BY <1>1, <2>1 DEF RiskStates
  <2> QED BY <2>1, <2>2 DEF Risks
<1>5. UNCHANGED (Committee!Ledger!vars) /\ KilledStaysFlat
  BY <1>2 DEF Committee!Ledger!vars, Committee!Marked, Committee!Initial, Committee!Cfg, KilledStaysFlat
<1>6. ASSUME Doomed(p, committee_rs) PROVE Doomed(p, committee_rs)'
  <2>1. Doomed(p, r)
    BY <1>3, <1>4, <1>6, DoomPasses
  <2> QED BY <1>2, <2>1 DEF Doomed, Beaten, Committee!Risk, Committee!Initial, Committee!Cfg
<1>7. ~committee_stopped =>
        \E b \in committee.bids : mid = 2 * b + Spread /\ (Ahead(p, b)' \/ Doomed(p, committee_rs)')
  <2>1. \A b : Ahead(p, b) => Ahead(p, b)'
    BY <1>2 DEF Ahead
  <2> QED BY <1>6, <2>1 DEF CommitteeInv
<1>8. /\ Gated' = Gated /\ Hour' = Hour /\ Committee!Cfg' = Committee!Cfg
      /\ CountOf(committee_rs)' = CountOf(committee_rs)
  BY <1>2, <1>4 DEF Gated, Hour, CountOf, Committee!Dealt, Committee!Live, Committee!Cfg
<1>9. (Gated => /\ hourly <= Committee!Cfg.maxHourly /\ hourly <= CountOf(committee_rs)
                /\ committee_rs.hour <= Hour)'
  BY <1>2, <1>4, <1>8 DEF CommitteeInv
<1>10. Book(p)'
  BY <1>2, <1>8 DEF Book, CommitteeInv
<1>11. CommitteeInv'
  BY <1>2, <1>3, <1>4, <1>7, <1>9, <1>10 DEF CommitteeInv
<1> QED BY <1>5, <1>11

(* Every step keeps the invariant, is one of the account, and opens        *)
(* nothing after the emergency button.                                     *)
LEMMA CommitteeKept ==
  ASSUME Committee!CommitteeAssumption, CommitteeInv, [Committee!Next]_(Committee!vars)
  PROVE  CommitteeInv' /\ AnAccountStep /\ KilledStaysFlat
<1>1. CASE Committee!Tick
  BY <1>1, CommitteeTickKeeps DEF AnAccountStep
<1>2. ASSUME NEW target \in {-1, 0, 1}, NEW v \in committee.convictions, NEW bid \in committee.bids,
             NEW atr \in {0, 1}, NEW bad, NEW answers,
             Committee!ProcessSignal(target, v, bid, atr, bad, answers)
      PROVE  CommitteeInv' /\ AnAccountStep /\ KilledStaysFlat
  BY <1>2, CommitteeSignalKeeps DEF AnAccountStep
<1>3. ASSUME NEW bid \in committee.bids, NEW known \in BOOLEAN, NEW closes \in BOOLEAN,
             Committee!Stop(bid, known, closes)
      PROVE  CommitteeInv' /\ AnAccountStep /\ KilledStaysFlat
  BY <1>3, CommitteeStopKeeps DEF AnAccountStep
<1>4. ASSUME NEW closes \in BOOLEAN, Committee!EmergencyKill(closes)
      PROVE  CommitteeInv' /\ AnAccountStep /\ KilledStaysFlat
  BY <1>4, CommitteeEmergencyKeeps DEF AnAccountStep
<1>5. CASE UNCHANGED Committee!vars
  <2>1. /\ committee' = committee /\ p' = p /\ committee_rs' = committee_rs
        /\ committee_brk' = committee_brk /\ mid' = mid /\ committee_now' = committee_now
        /\ committee_stopped' = committee_stopped /\ event' = event /\ hourly' = hourly
    BY <1>5 DEF Committee!vars
  <2>2. CommitteeInv'
    BY <2>1 DEF CommitteeInv, Book, Gated, Hour, CountOf, Ahead, Doomed, Beaten, Committee!Dealt,
                Committee!Live, Committee!Cfg, Committee!Risk, Committee!Initial
  <2>3. UNCHANGED (Committee!Ledger!vars) /\ KilledStaysFlat
    BY <2>1 DEF Committee!Ledger!vars, Committee!Marked, Committee!Initial, Committee!Cfg, KilledStaysFlat
  <2> QED BY <2>2, <2>3 DEF AnAccountStep
<1>6. CASE Committee!Next
  <2>1. \/ Committee!Tick
        \/ \E target \in {-1, 0, 1}, v \in committee.convictions, bid \in committee.bids, atr \in {0, 1} :
             \E bad, answers : Committee!ProcessSignal(target, v, bid, atr, bad, answers)
        \/ \E bid \in committee.bids, known \in BOOLEAN, closes \in BOOLEAN :
             Committee!Stop(bid, known, closes)
        \/ \E closes \in BOOLEAN : Committee!EmergencyKill(closes)
    BY <1>6, ZenonT(60) DEF Committee!Next
  <2> QED BY <1>1, <1>2, <1>3, <1>4, <2>1
<1> QED BY <1>5, <1>6

-----------------------------------------------------------------------------
(* The suite of a live session, a committee and the session around them.   *)

SuiteInv == Inv /\ CommitteeInv /\ SessionInv

(* The invariant of the suite: one part moves, the others stand still.     *)
THEOREM LiveInductive ==
  ASSUME SuiteAssumption
  PROVE  Suite => []SuiteInv
<1>1. LiveAssumption /\ Committee!CommitteeAssumption /\ SessionAssumption
  BY DEF SuiteAssumption
<1>2. SuiteInit => SuiteInv
  BY <1>1, Starts, CommitteeStarts, SessionStarts DEF SuiteInit, SuiteInv
<1>3. SuiteInv /\ [SuiteNext]_suiteVars => SuiteInv'
  <2> SUFFICES ASSUME SuiteInv, [SuiteNext]_suiteVars PROVE SuiteInv'
    OBVIOUS
  <2>1. /\ [Next]_vars /\ [Committee!Next]_(Committee!vars) /\ [SessionNext]_sessionVars
    BY DEF SuiteNext, suiteVars, committeeVars, Committee!vars
  <2> QED BY <1>1, <2>1, InvKept, CommitteeKept, SessionKept DEF SuiteInv
<1> QED BY <1>2, <1>3, PTL DEF Suite

(* A committee session is an account that deals at prices the market has   *)
(* passed, its trade has stop levels on their sides of its entry, the      *)
(* gates of a session that deals with the broker keep the hourly number,   *)
(* and the emergency button is final: for any thresholds, stops, sizes,    *)
(* bids, convictions and answers of the broker.                            *)
THEOREM CommitteesHold ==
  ASSUME SuiteAssumption
  PROVE  Suite => CommitteeHolds
<1>1. Committee!CommitteeAssumption
  BY DEF SuiteAssumption
<1>2. SuiteInit => Committee!Ledger!Init
  BY <1>1, CommitteeStarts DEF SuiteInit
<1>3. SuiteInv => Committee!LevelsBelong /\ (Committee!Dealt /\ Committee!Cfg.enabled => Committee!HourlyCap)
  BY DEF SuiteInv, CommitteeInv, Book, Gated, Committee!LevelsBelong, Committee!HourlyCap
<1>4. SuiteInv /\ [SuiteNext]_suiteVars
        => [Committee!Ledger!Next]_(Committee!Ledger!vars)
           /\ [committee_rs.killed /\ p.pos = 0 => p'.pos = 0]_(Committee!vars)
  <2> SUFFICES ASSUME SuiteInv, [SuiteNext]_suiteVars
               PROVE  AnAccountStep /\ KilledStaysFlat
    BY DEF AnAccountStep, KilledStaysFlat
  <2>1. [Committee!Next]_(Committee!vars)
    BY DEF SuiteNext, suiteVars, committeeVars, Committee!vars
  <2> QED BY <1>1, <2>1, CommitteeKept DEF SuiteInv
<1> QED BY <1>2, <1>3, <1>4, LiveInductive, PTL
        DEF Suite, CommitteeHolds, Committee!IsAnAccount, Committee!Ledger!Spec, Committee!EmergencyIsFinal

(* The live engine, the committee and the session keep their types.        *)
THEOREM LiveTypesHold ==
  ASSUME SuiteAssumption
  PROVE  Suite => []TypesOK
<1>1. SuiteInv => TypesOK
  <2> SUFFICES ASSUME SuiteInv PROVE TypeOK /\ Committee!TypeOK /\ SessionTypeOK
    BY DEF TypesOK
  <2>1. TypeOK /\ SessionTypeOK
    BY DEF SuiteInv, Inv, SessionInv
  <2>2. committee_rs \in Committee!RiskStates /\ Len(committee_rs.window) <= WindowCap
    BY SameControls DEF SuiteInv, CommitteeInv, Risks
  <2>3. /\ p.pos \in {-1, 0, 1} /\ p.size \in Nat /\ p.realized \in Int /\ p.equity \in Int
        /\ (p.pos = 0) = (p.size = 0) /\ (p.pos = 0) = (p.entry = 0)
    BY DEF SuiteInv, CommitteeInv, Book, Portfolios
  <2> QED BY <2>1, <2>2, <2>3 DEF SuiteInv, CommitteeInv, Committee!TypeOK
<1> QED BY <1>1, LiveInductive, PTL
=============================================================================
