-------------------------- MODULE PaperEngineProofs --------------------------
(***************************************************************************)
(* Proofs about PaperEngine for every set of configurations, prices and    *)
(* average true ranges that PaperAssumption allows: the types, that what   *)
(* sizing and stops are told is true, and that a session is an account.    *)
(***************************************************************************)
EXTENDS PaperEngine, TLAPS

Sizings    == [equity : Int, trades : Nat, wins : Nat, won : Nat, lost : Nat]
Levels     == [sl : Int, tp : Int, tp1 : {0}, tp2 : {0}]
Portfolios == [pos : {-1, 0, 1}, size : Nat, entry : Int, realized : Int,
               levels : Levels, sizing : Sizings]

(* The parts of the invariant, of a portfolio a under a configuration c.   *)

\* The sums the sizing reads are those of the trades, and no sum of gains is
\* without a trade: the Kelly size divides by both.
Counted(a) ==
  /\ a.realized = a.sizing.won - a.sizing.lost /\ a.sizing.wins <= a.sizing.trades
  /\ a.sizing.won > 0 => a.sizing.trades > 0

Sound(c, a) ==
  /\ a \in Portfolios /\ a.size <= Max({Lot, c.maxLev})
  /\ (a.pos = 0) = (a.size = 0) /\ (a.pos = 0) = (a.entry = 0)
  /\ a.sizing.equity = c.equity /\ Counted(a)

Owned(c, a) ==
  IF a.pos = 0 THEN a.levels = NoLevels
  ELSE c.stop # "none" => a.pos * (a.entry - a.levels.sl) >= 0 /\ a.pos * (a.levels.tp - a.entry) >= 0

\* The market at b has not passed a level: the next quote that does meets it
\* on the way from b, so that its fill is a price the market passed.
Ahead(a, b) ==
  /\ a.pos = 1 => /\ a.levels.sl > 0 => a.levels.sl <= b + Spread
                  /\ a.levels.tp > 0 => a.levels.tp >= b
  /\ a.pos = -1 => /\ a.levels.sl > 0 => a.levels.sl >= b
                   /\ a.levels.tp > 0 => a.levels.tp <= b + Spread

Inv ==
  /\ cfg \in Cfgs /\ Sound(cfg, p)
  /\ signals \in 0..MaxSignals /\ stopped \in BOOLEAN /\ equity \in Int
  /\ ~stopped => /\ equity = Marked(p, mid) /\ Owned(cfg, p)
                 /\ \E b \in Bids : mid = 2 * b + Spread /\ Ahead(p, b)

-----------------------------------------------------------------------------
(* What the operators of the execution models return.                      *)

LEMMA MaxOfTwo ==
  ASSUME NEW a \in Int, NEW b \in Int
  PROVE  Max({a, b}) = IF a >= b THEN a ELSE b
<1> DEFINE m == IF a >= b THEN a ELSE b
<1>1. m \in {a, b} /\ \A y \in {a, b} : m >= y
  OBVIOUS
<1>2. \A x \in {a, b} : (\A y \in {a, b} : x >= y) => x = m
  OBVIOUS
<1>3. Max({a, b}) = m
  BY <1>1, <1>2 DEF Max
<1>4. QED
  BY <1>3

LEMMA MinOfTwo ==
  ASSUME NEW a \in Int, NEW b \in Int
  PROVE  Min({a, b}) = IF a <= b THEN a ELSE b
<1> DEFINE m == IF a <= b THEN a ELSE b
<1>1. m \in {a, b} /\ \A y \in {a, b} : m =< y
  OBVIOUS
<1>2. \A x \in {a, b} : (\A y \in {a, b} : x =< y) => x = m
  OBVIOUS
<1>3. Min({a, b}) = m
  BY <1>1, <1>2 DEF Min
<1>4. QED
  BY <1>3

LEMMA Quotient ==
  ASSUME NEW a \in Int, NEW b \in Nat \ {0}
  PROVE  a \div b \in Int
  OBVIOUS

LEMMA Positive ==
  ASSUME NEW a \in Nat \ {0}, NEW b \in Nat \ {0}
  PROVE  a * b \in Nat \ {0}
  OBVIOUS

\* Fixed fractional: with no equity to take a fraction of, a lot.
LEMMA FractionalIsWhole ==
  ASSUME PaperAssumption, NEW c \in Cfgs, NEW s \in Sizings
  PROVE  Fractional(c, s) \in Int
<1>1. c.fraction * s.equity \in Int /\ Lot \in Int /\ c.equity \in Int
  BY DEF PaperAssumption, Sizings
<1>2. CASE c.equity <= 0
  BY <1>1, <1>2 DEF Fractional
<1>3. CASE ~(c.equity <= 0)
  <2>1. (c.fraction * s.equity) \div c.equity \in Int
    BY <1>1, <1>3, Quotient
  <2>2. QED
    BY <1>3, <2>1 DEF Fractional
<1>4. QED
  BY <1>2, <1>3

\* Kelly divides by the trades and by the gains, which are there when it does.
LEMMA KellyIsWhole ==
  ASSUME PaperAssumption, NEW c \in Cfgs, NEW s \in Sizings,
         s.equity = c.equity, s.equity > 0, s.won > 0 => s.trades > 0
  PROVE  Kelly(c, s) \in Int
<1>1. s.wins \in Nat /\ s.won \in Nat /\ s.lost \in Nat /\ s.trades \in Nat /\ s.equity \in Int
  BY DEF Sizings
<1>2. c.kelly \in Int /\ c.equity \in Int /\ c.kellyMin \in Int
  BY DEF PaperAssumption
<1>3. CASE s.trades < c.kellyMin
  BY <1>3, FractionalIsWhole DEF Kelly
<1>4. CASE ~(s.trades < c.kellyMin) /\ s.won <= s.lost
  BY <1>4 DEF Kelly
<1>5. CASE ~(s.trades < c.kellyMin) /\ ~(s.won <= s.lost)
  <2> DEFINE over  == c.kelly * s.wins * (s.won - s.lost) * Min({s.equity, c.equity})
             under == s.trades * s.won * c.equity
  <2>1. s.trades \in Nat \ {0} /\ s.won \in Nat \ {0} /\ c.equity \in Nat \ {0}
    BY <1>1, <1>2, <1>5
  <2>2. under \in Nat \ {0}
    BY <2>1, Positive
  <2>3. Min({s.equity, c.equity}) \in Int
    BY <1>1, <1>2, MinOfTwo
  <2>4. c.kelly * s.wins \in Int /\ s.won - s.lost \in Int
    BY <1>1, <1>2
  <2>5. over \in Int
    BY <2>3, <2>4
  <2> HIDE DEF over, under
  <2>6. over \div under \in Int
    BY <2>2, <2>5, Quotient
  <2>7. Max({1, over \div under}) \in Int
    BY <2>6, MaxOfTwo
  <2>8. QED
    BY <1>5, <2>7 DEF Kelly, over, under
<1>6. QED
  BY <1>3, <1>4, <1>5

\* Whatever the method, a size is within the leverage or within a lot.
LEMMA SizeBounded ==
  ASSUME PaperAssumption, NEW c \in Cfgs, NEW s \in Sizings, NEW atr \in Nat,
         s.equity = c.equity, s.won > 0 => s.trades > 0
  PROVE  /\ ComputeSize(c, s, 0, atr) \in Nat
         /\ ComputeSize(c, s, 0, atr) <= Max({Lot, c.maxLev})
<1> DEFINE clamp(x) == Max({0, Min({c.maxLev, (x * c.trust) \div Lot})})
<1>1. /\ Lot \in Nat \ {0} /\ c.trust \in 0..Lot /\ c.maxLev \in Nat /\ c.fraction \in Int
      /\ c.atrSl \in Nat \ {0} /\ s.equity \in Int
      /\ c.sizing \in {"fixed", "fixed_fractional", "kelly", "atr"}
  BY DEF PaperAssumption, Sizings
<1>2. \A x \in Int : clamp(x) \in 0..c.maxLev
  <2> TAKE x \in Int
  <2>1. PICK y \in Int : y = (x * c.trust) \div Lot
    BY <1>1, Quotient
  <2>2. Min({c.maxLev, y}) = IF c.maxLev <= y THEN c.maxLev ELSE y
    BY <1>1, MinOfTwo
  <2>3. PICK z \in Int : z = Min({c.maxLev, y}) /\ z <= c.maxLev
    BY <1>1, <2>2
  <2>4. Max({0, z}) = IF 0 >= z THEN 0 ELSE z
    BY MaxOfTwo
  <2>5. QED
    BY <1>1, <2>1, <2>3, <2>4
<1>3. Max({Lot, c.maxLev}) = IF Lot >= c.maxLev THEN Lot ELSE c.maxLev
  BY <1>1, MaxOfTwo
<1>4. CASE s.equity <= 0 \/ c.trust <= 0
  BY <1>1, <1>3, <1>4 DEF ComputeSize
<1>5. CASE ~(s.equity <= 0 \/ c.trust <= 0)
  <2>1. \A x \in Int : clamp(x) \in Nat /\ clamp(x) <= Max({Lot, c.maxLev})
    BY <1>1, <1>2, <1>3
  <2>2. Fractional(c, s) \in Int
    BY FractionalIsWhole
  <2>3. Kelly(c, s) \in Int
    BY <1>1, <1>5, KellyIsWhole
  <2>4. atr > 0 => (c.fraction * s.equity) \div (c.atrSl * atr) \in Int
    <3> SUFFICES ASSUME atr > 0 PROVE (c.fraction * s.equity) \div (c.atrSl * atr) \in Int
      OBVIOUS
    <3>1. c.atrSl * atr \in Nat \ {0}
      BY <1>1, Positive
    <3>2. c.fraction * s.equity \in Int
      BY <1>1
    <3>3. QED
      BY <3>1, <3>2, Quotient
  <2>5. CASE c.sizing = "fixed_fractional"
    <3>1. ComputeSize(c, s, 0, atr) = clamp(Fractional(c, s))
      BY <1>5, <2>5 DEF ComputeSize
    <3>2. QED
      BY <2>1, <2>2, <3>1
  <2>6. CASE c.sizing = "kelly"
    <3>1. ComputeSize(c, s, 0, atr) = clamp(Kelly(c, s))
      BY <1>5, <2>6 DEF ComputeSize
    <3>2. QED
      BY <2>1, <2>3, <3>1
  <2>7. CASE c.sizing = "atr"
    <3> DEFINE x == IF atr <= 0 THEN Fractional(c, s) ELSE (c.fraction * s.equity) \div (c.atrSl * atr)
    <3>1. ComputeSize(c, s, 0, atr) = clamp(x)
      BY <1>5, <2>7 DEF ComputeSize
    <3>2. x \in Int
      BY <2>2, <2>4
    <3>3. QED
      BY <2>1, <3>1, <3>2
  <2>8. CASE c.sizing = "fixed"
    <3>1. ComputeSize(c, s, 0, atr) = c.trust
      BY <1>5, <2>8 DEF ComputeSize
    <3>2. QED
      BY <1>1, <1>3, <3>1
  <2>9. QED
    BY <1>1, <2>5, <2>6, <2>7, <2>8
<1>6. QED
  BY <1>4, <1>5

\* A stop is on the losing side of its entry and a target on the other.
LEMMA LevelsAround ==
  ASSUME PaperAssumption, NEW c \in Cfgs, NEW entry \in Int, NEW dirn \in {-1, 1}, NEW atr \in Nat,
         NEW l, l = ComputeStopLevels(c, entry, dirn, atr, 0)
  PROVE  /\ l \in Levels
         /\ c.stop = "none" => l = NoLevels
         /\ c.stop # "none" => /\ dirn * (entry - l.sl) >= 0 /\ dirn * (l.tp - entry) >= 0
<1>1. /\ c.stop \in {"none", "fixed_pips", "atr"} /\ c.sl \in Nat /\ c.tp \in Nat /\ ~c.partial
  BY DEF PaperAssumption
<1>2. PICK u \in Nat : c.stop # "none" => u = Unit(c.stop, atr, 0)
  <2>1. Max({atr, 0}) = atr
    BY MaxOfTwo
  <2>2. QED
    BY <1>1, <2>1 DEF Unit
<1>3. PICK s \in Nat, t \in Nat : s = c.sl * u /\ t = c.tp * u /\ (-c.sl) * u = -s
  <2>1. c.sl * u \in Nat /\ c.tp * u \in Nat /\ (-c.sl) * u = -(c.sl * u)
    BY <1>1, <1>2
  <2>2. QED
    BY <2>1
<1>4. CASE c.stop = "none"
  BY <1>4 DEF ComputeStopLevels, NoLevels, Levels
<1>5. CASE c.stop # "none"
  <2>1. l = [sl |-> entry + dirn * (-s), tp |-> entry + dirn * t, tp1 |-> 0, tp2 |-> 0]
    BY <1>1, <1>2, <1>3, <1>5 DEF ComputeStopLevels
  <2>2. l.sl = entry + dirn * (-s) /\ l.tp = entry + dirn * t /\ l.tp1 = 0 /\ l.tp2 = 0
    BY <2>1
  <2>3. l \in Levels
    BY <2>1 DEF Levels
  <2>4. dirn * (entry - l.sl) >= 0 /\ dirn * (l.tp - entry) >= 0
    BY <2>2
  <2>5. QED
    BY <1>5, <2>3, <2>4
<1>6. QED
  BY <1>4, <1>5

-----------------------------------------------------------------------------
(* What closing, opening and turning do to a portfolio.                    *)

\* A close books the move of the trade and leaves nothing of it behind.
LEMMA CloseBooks ==
  ASSUME NEW c, NEW a, Sound(c, a), a.pos # 0, NEW price \in Int, c.maxLev \in Nat, Lot \in Nat \ {0},
         NEW r, r = CloseOpenPosition(a, price)
  PROVE  /\ Sound(c, r) /\ r.pos = 0 /\ r.size = 0 /\ r.entry = 0 /\ r.levels = NoLevels
         /\ r.realized = a.realized + 2 * a.pos * (price - a.entry) * a.size
<1> DEFINE pnl == 2 * a.pos * (price - a.entry) * a.size
<1>1. /\ a \in Portfolios /\ a.size \in Nat /\ a.pos \in {-1, 0, 1} /\ a.entry \in Int /\ a.realized \in Int
      /\ a.sizing \in Sizings /\ Counted(a) /\ a.sizing.equity = c.equity
  BY DEF Sound, Portfolios
<1>2. pnl \in Int
  BY <1>1
<1>3. PICK s : s = UpdateSizing(a.sizing, pnl)
  OBVIOUS
<1> HIDE DEF pnl
<1>4. /\ s \in Sizings /\ s.equity = a.sizing.equity
      /\ s.won - s.lost = a.sizing.won - a.sizing.lost + pnl
      /\ s.wins <= s.trades /\ (s.won > 0 => s.trades > 0)
  <2>0. /\ a.sizing.equity \in Int /\ a.sizing.trades \in Nat /\ a.sizing.wins \in Nat
        /\ a.sizing.won \in Nat /\ a.sizing.lost \in Nat /\ a.sizing.wins <= a.sizing.trades
    BY <1>1 DEF Sizings, Counted
  <2>1. CASE pnl > 0
    <3>1. s = [a.sizing EXCEPT !.trades = a.sizing.trades + 1, !.wins = a.sizing.wins + 1, !.won = a.sizing.won + pnl]
      BY <1>3, <2>1 DEF UpdateSizing
    <3>2. /\ s.equity = a.sizing.equity /\ s.trades = a.sizing.trades + 1 /\ s.wins = a.sizing.wins + 1
          /\ s.won = a.sizing.won + pnl /\ s.lost = a.sizing.lost
      BY <1>1, <3>1 DEF Sizings
    <3>3. a.sizing.trades + 1 \in Nat /\ a.sizing.wins + 1 \in Nat /\ a.sizing.won + pnl \in Nat
      BY <1>2, <2>0, <2>1
    <3>4. s \in Sizings
      BY <1>1, <3>1, <3>3 DEF Sizings
    <3>5. QED
      BY <1>2, <2>0, <3>2, <3>4
  <2>2. CASE ~(pnl > 0)
    <3>1. s = [a.sizing EXCEPT !.trades = a.sizing.trades + 1, !.lost = a.sizing.lost - pnl]
      BY <1>3, <2>2 DEF UpdateSizing
    <3>2. /\ s.equity = a.sizing.equity /\ s.trades = a.sizing.trades + 1 /\ s.wins = a.sizing.wins
          /\ s.won = a.sizing.won /\ s.lost = a.sizing.lost - pnl
      BY <1>1, <3>1 DEF Sizings
    <3>3. a.sizing.trades + 1 \in Nat /\ a.sizing.lost - pnl \in Nat
      BY <1>2, <2>0, <2>2
    <3>4. s \in Sizings
      BY <1>1, <3>1, <3>3 DEF Sizings
    <3>5. QED
      BY <1>2, <2>0, <3>2, <3>4
  <2>3. QED
    BY <2>1, <2>2
<1>5. r = [a EXCEPT !.pos = 0, !.size = 0, !.entry = 0, !.realized = a.realized + pnl, !.sizing = s, !.levels = NoLevels]
  BY <1>3 DEF CloseOpenPosition, pnl
<1>6. /\ r.pos = 0 /\ r.size = 0 /\ r.entry = 0 /\ r.realized = a.realized + pnl /\ r.sizing = s
      /\ r.levels = NoLevels
  BY <1>1, <1>5 DEF Portfolios
<1>7. r \in Portfolios
  <2>1. NoLevels \in Levels
    BY DEF NoLevels, Levels
  <2>2. a.realized + pnl \in Int
    BY <1>1, <1>2
  <2>3. r = [pos |-> 0, size |-> 0, entry |-> 0, realized |-> a.realized + pnl,
             levels |-> NoLevels, sizing |-> s]
    BY <1>1, <1>5 DEF Portfolios
  <2>4. QED
    BY <1>4, <2>1, <2>2, <2>3 DEF Portfolios
<1>8. Counted(r)
  BY <1>1, <1>2, <1>4, <1>6 DEF Counted, Sizings
<1>9. 0 <= Max({Lot, c.maxLev})
  BY MaxOfTwo
<1>10. Sound(c, r)
  BY <1>1, <1>4, <1>6, <1>7, <1>8, <1>9 DEF Sound
<1>11. QED
  BY <1>6, <1>10 DEF pnl

\* A new position has its side, a size and its own levels, ahead of the quote.
LEMMA OpenDeals ==
  ASSUME PaperAssumption, cfg \in Cfgs, NEW a, Sound(cfg, a), a.pos = 0,
         NEW target \in {-1, 1}, NEW bid \in Bids, NEW atr \in Nat,
         NEW r, r = OpenPosition(a, target, bid, atr)
  PROVE  /\ Sound(cfg, r) /\ Owned(cfg, r) /\ Ahead(r, bid)
         /\ r.pos = target /\ r.size \in Nat /\ r.realized = a.realized
         /\ r.entry = EntryQuote(target, bid) /\ r.entry \in Int
<1> DEFINE entry == EntryQuote(target, bid)
           asked == ComputeSize(cfg, a.sizing, 0, atr)
           size  == IF asked <= 0 THEN Lot ELSE asked
           l     == ComputeStopLevels(cfg, entry, target, atr, 0)
<1>1. /\ a \in Portfolios /\ a.sizing \in Sizings /\ Counted(a) /\ a.sizing.equity = cfg.equity
      /\ a.realized \in Int
  BY DEF Sound, Portfolios
<1>2. /\ Lot \in Nat \ {0} /\ bid \in Nat \ {0} /\ Spread \in Nat /\ cfg.maxLev \in Nat
  BY DEF PaperAssumption
<1>3. entry \in Nat \ {0}
  BY <1>2 DEF EntryQuote
<1>4. asked \in Nat /\ asked <= Max({Lot, cfg.maxLev})
  BY <1>1, SizeBounded DEF Counted
<1>5. Max({Lot, cfg.maxLev}) = IF Lot >= cfg.maxLev THEN Lot ELSE cfg.maxLev
  BY <1>2, MaxOfTwo
<1> HIDE DEF asked
<1>6. size \in Nat \ {0} /\ size <= Max({Lot, cfg.maxLev})
  BY <1>2, <1>4, <1>5
<1>7. /\ l \in Levels
      /\ cfg.stop = "none" => l = NoLevels
      /\ cfg.stop # "none" => /\ target * (entry - l.sl) >= 0 /\ target * (l.tp - entry) >= 0
  BY <1>3, LevelsAround
<1>8. r = [a EXCEPT !.pos = target, !.entry = entry, !.size = size, !.levels = l]
  BY DEF OpenPosition, asked
<1>9. entry = IF target = 1 THEN bid + Spread ELSE bid
  BY DEF EntryQuote
<1> HIDE DEF entry, size, l
<1>10. /\ r.pos = target /\ r.entry = entry /\ r.size = size /\ r.levels = l
       /\ r.realized = a.realized /\ r.sizing = a.sizing
  BY <1>1, <1>8 DEF Portfolios
<1>11. r \in Portfolios
  <2>1. r = [pos |-> target, size |-> size, entry |-> entry, realized |-> a.realized,
             levels |-> l, sizing |-> a.sizing]
    BY <1>1, <1>8 DEF Portfolios
  <2>2. size \in Nat /\ entry \in Int /\ target \in {-1, 0, 1}
    BY <1>3, <1>6
  <2>3. QED
    BY <1>1, <1>7, <2>1, <2>2 DEF Portfolios
<1>12. Counted(r)
  BY <1>1, <1>10 DEF Counted
<1>13. Sound(cfg, r)
  BY <1>1, <1>3, <1>6, <1>10, <1>11, <1>12 DEF Sound
<1>14. Owned(cfg, r)
  BY <1>7, <1>10 DEF Owned
<1>15. l.sl \in Int /\ l.tp \in Int
  BY <1>7 DEF Levels
<1>16. Ahead(r, bid)
  <2>1. CASE cfg.stop = "none"
    BY <1>7, <1>10, <2>1 DEF Ahead, NoLevels
  <2>2. CASE cfg.stop # "none" /\ target = 1
    BY <1>2, <1>3, <1>7, <1>9, <1>10, <1>15, <2>2 DEF Ahead
  <2>3. CASE cfg.stop # "none" /\ target = -1
    BY <1>2, <1>3, <1>7, <1>9, <1>10, <1>15, <2>3 DEF Ahead
  <2>4. QED
    BY <2>1, <2>2, <2>3
<1>17. QED
  BY <1>3, <1>6, <1>10, <1>13, <1>14, <1>16 DEF entry

-----------------------------------------------------------------------------
(* Every signal is dealt once, or flat and then once more, at prices the   *)
(* quotes passed since the last signal.                                    *)

Units(a) == a.pos * a.size
Cash(a)  == a.realized - 2 * (Units(a) * a.entry)

\* The prices between the quotes (b, b + Spread) and (n, n + Spread).
Crossed(b, n) == {q \in Int : (q >= b \/ q >= n) /\ (q <= b + Spread \/ q <= n + Spread)}

Dealt(a, r, Q) ==
  \/ Units(r) = Units(a) /\ Cash(r) = Cash(a)
  \/ \E q \in Q : Cash(r) = Cash(a) + 2 * ((Units(a) - Units(r)) * q)
  \/ \E q1, q2 \in Q : Cash(r) = Cash(a) + 2 * (Units(a) * q1 - Units(r) * q2)

LEMMA SoundTypes ==
  ASSUME NEW c, NEW a, Sound(c, a)
  PROVE  /\ a.pos \in {-1, 0, 1} /\ a.size \in Nat /\ a.entry \in Int /\ a.realized \in Int
         /\ Units(a) \in Int /\ Cash(a) \in Int
         /\ a.levels \in Levels /\ a.levels.sl \in Int /\ a.levels.tp \in Int
         /\ a.levels.tp1 = 0 /\ a.levels.tp2 = 0
<1>1. /\ a.pos \in {-1, 0, 1} /\ a.size \in Nat /\ a.entry \in Int /\ a.realized \in Int
      /\ a.levels \in Levels
  BY DEF Sound, Portfolios
<1>2. Units(a) \in Int
  BY <1>1 DEF Units
<1>3. Cash(a) \in Int
  BY <1>1, <1>2 DEF Cash
<1>4. QED
  BY <1>1, <1>2, <1>3 DEF Levels

\* The fill of a level that is hit lies between the quotes; the levels that
\* are not hit are still ahead.
LEMMA HitFills ==
  ASSUME PaperAssumption, Sound(cfg, p), NEW b \in Bids, Ahead(p, b), NEW bid \in Bids
  PROVE  /\ p.pos = 0 => Hit(bid) = ""
         /\ Hit(bid) = "" => Ahead(p, bid)
         /\ Hit(bid) # "" => FillPrice(Hit(bid)) \in Crossed(b, bid)
<1>1. /\ p.pos \in {-1, 0, 1} /\ p.levels.sl \in Int /\ p.levels.tp \in Int
      /\ p.levels.tp1 = 0 /\ p.levels.tp2 = 0
  BY SoundTypes
<1>2. b \in Nat /\ bid \in Nat /\ Spread \in Nat
  BY DEF PaperAssumption
<1>3. CASE p.pos = 0
  BY <1>3 DEF Hit, Ahead
<1>4. CASE p.pos = 1
  <2>1. Hit(bid) = IF p.levels.sl > 0 /\ bid <= p.levels.sl THEN "sl"
                   ELSE IF p.levels.tp > 0 /\ bid >= p.levels.tp THEN "tp" ELSE ""
    BY <1>1, <1>4 DEF Hit, CheckStopHit, ExitQuote
  <2>2. /\ p.levels.sl > 0 => p.levels.sl <= b + Spread
        /\ p.levels.tp > 0 => p.levels.tp >= b
    BY <1>4 DEF Ahead
  <2>0. /\ Hit(bid) \in {"", "sl", "tp"}
        /\ Hit(bid) = "" => ~(p.levels.sl > 0 /\ bid <= p.levels.sl) /\ ~(p.levels.tp > 0 /\ bid >= p.levels.tp)
    BY <2>1, Zenon
  <2>3. ASSUME Hit(bid) = "" PROVE Ahead(p, bid)
    <3>1. ~(p.levels.sl > 0 /\ bid <= p.levels.sl) /\ ~(p.levels.tp > 0 /\ bid >= p.levels.tp)
      BY <2>0, <2>3, Zenon
    <3>2. QED
      BY <1>1, <1>2, <1>4, <3>1 DEF Ahead
  <2>4. ASSUME Hit(bid) = "sl" PROVE FillPrice(Hit(bid)) \in Crossed(b, bid)
    <3>1. FillPrice(Hit(bid)) = p.levels.sl
      BY <2>4 DEF FillPrice
    <3>2. p.levels.sl \in Crossed(b, bid)
      BY <1>1, <1>2, <2>1, <2>2, <2>4 DEF Crossed
    <3>3. QED
      BY <3>1, <3>2
  <2>5. ASSUME Hit(bid) = "tp" PROVE FillPrice(Hit(bid)) \in Crossed(b, bid)
    <3>1. FillPrice(Hit(bid)) = p.levels.tp
      BY <2>5 DEF FillPrice
    <3>2. p.levels.tp \in Crossed(b, bid)
      BY <1>1, <1>2, <2>1, <2>2, <2>5 DEF Crossed
    <3>3. QED
      BY <3>1, <3>2
  <2>6. QED
    <3>1. p.pos # 0
      BY <1>4
    <3>2. QED
      BY <2>0, <2>3, <2>4, <2>5, <3>1, Zenon
<1>5. CASE p.pos = -1
  <2>1. Hit(bid) = IF p.levels.sl > 0 /\ bid + Spread >= p.levels.sl THEN "sl"
                   ELSE IF p.levels.tp > 0 /\ bid + Spread <= p.levels.tp THEN "tp" ELSE ""
    BY <1>1, <1>5 DEF Hit, CheckStopHit, ExitQuote
  <2>2. /\ p.levels.sl > 0 => p.levels.sl >= b
        /\ p.levels.tp > 0 => p.levels.tp <= b + Spread
    BY <1>5 DEF Ahead
  <2>0. /\ Hit(bid) \in {"", "sl", "tp"}
        /\ Hit(bid) = "" => ~(p.levels.sl > 0 /\ bid + Spread >= p.levels.sl) /\ ~(p.levels.tp > 0 /\ bid + Spread <= p.levels.tp)
    BY <2>1, Zenon
  <2>3. ASSUME Hit(bid) = "" PROVE Ahead(p, bid)
    <3>1. ~(p.levels.sl > 0 /\ bid + Spread >= p.levels.sl) /\ ~(p.levels.tp > 0 /\ bid + Spread <= p.levels.tp)
      BY <2>0, <2>3, Zenon
    <3>2. QED
      BY <1>1, <1>2, <1>5, <3>1 DEF Ahead
  <2>4. ASSUME Hit(bid) = "sl" PROVE FillPrice(Hit(bid)) \in Crossed(b, bid)
    <3>1. FillPrice(Hit(bid)) = p.levels.sl
      BY <2>4 DEF FillPrice
    <3>2. p.levels.sl \in Crossed(b, bid)
      BY <1>1, <1>2, <2>1, <2>2, <2>4 DEF Crossed
    <3>3. QED
      BY <3>1, <3>2
  <2>5. ASSUME Hit(bid) = "tp" PROVE FillPrice(Hit(bid)) \in Crossed(b, bid)
    <3>1. FillPrice(Hit(bid)) = p.levels.tp
      BY <2>5 DEF FillPrice
    <3>2. p.levels.tp \in Crossed(b, bid)
      BY <1>1, <1>2, <2>1, <2>2, <2>5 DEF Crossed
    <3>3. QED
      BY <3>1, <3>2
  <2>6. QED
    <3>1. p.pos # 0
      BY <1>5
    <3>2. QED
      BY <2>0, <2>3, <2>4, <2>5, <3>1, Zenon
<1>6. QED
  BY <1>1, <1>3, <1>4, <1>5

\* In cash: a close is paid for all it held, an open pays for all it takes.
LEMMA CloseCash ==
  ASSUME NEW c, NEW a, Sound(c, a), a.pos # 0, NEW price \in Int, c.maxLev \in Nat, Lot \in Nat \ {0},
         NEW r, r = CloseOpenPosition(a, price)
  PROVE  Units(r) = 0 /\ Cash(r) = Cash(a) + 2 * (Units(a) * price)
<1>1. /\ r.pos = 0 /\ r.size = 0 /\ r.entry = 0
      /\ r.realized = a.realized + 2 * a.pos * (price - a.entry) * a.size
  BY CloseBooks
<1>2. a.pos \in {-1, 0, 1} /\ a.size \in Nat /\ a.entry \in Int /\ a.realized \in Int
  BY SoundTypes
<1>3. 2 * a.pos * (price - a.entry) * a.size = 2 * ((a.pos * a.size) * price) - 2 * ((a.pos * a.size) * a.entry)
  BY <1>2
<1>4. Units(r) = 0 /\ Cash(r) = r.realized
  BY <1>1, <1>2 DEF Units, Cash
<1>5. QED
  BY <1>1, <1>2, <1>3, <1>4 DEF Units, Cash

LEMMA OpenCash ==
  ASSUME PaperAssumption, cfg \in Cfgs, NEW a, Sound(cfg, a), a.pos = 0,
         NEW target \in {-1, 1}, NEW bid \in Bids, NEW atr \in Nat,
         NEW r, r = OpenPosition(a, target, bid, atr)
  PROVE  Units(a) = 0 /\ Cash(r) = Cash(a) - 2 * (Units(r) * EntryQuote(target, bid))
<1>1. r.realized = a.realized /\ r.entry = EntryQuote(target, bid)
  BY OpenDeals
<1>2. a.size \in Nat /\ a.entry \in Int /\ a.realized \in Int
  BY SoundTypes
<1>3. Units(a) = 0 /\ Cash(a) = a.realized
  BY <1>2 DEF Units, Cash
<1>4. QED
  BY <1>1, <1>3 DEF Cash

LEMMA QuotesCross ==
  ASSUME PaperAssumption, NEW b \in Bids, NEW bid \in Bids, NEW pos \in {-1, 0, 1}
  PROVE  ExitQuote(pos, bid) \in Crossed(b, bid) /\ EntryQuote(pos, bid) \in Crossed(b, bid)
<1>1. b \in Nat /\ bid \in Nat /\ Spread \in Nat
  BY DEF PaperAssumption
<1>2. QED
  BY <1>1 DEF ExitQuote, EntryQuote, Crossed

\* What a turn makes of a position and of none.
LEMMA TurnDeals ==
  ASSUME PaperAssumption, cfg \in Cfgs, NEW a, Sound(cfg, a), Owned(cfg, a),
         NEW target \in {-1, 0, 1}, NEW b \in Bids, NEW bid \in Bids, NEW atr \in Nat,
         NEW r, r = Turn(a, target, bid, atr)
  PROVE  /\ Sound(cfg, r) /\ Owned(cfg, r) /\ Ahead(r, bid)
         /\ Dealt(a, r, Crossed(b, bid))
         /\ a.pos = 0 => \/ r = a
                         \/ \E q \in Crossed(b, bid) : Units(a) = 0 /\ Cash(r) = Cash(a) - 2 * (Units(r) * q)
<1>1. a.pos \in {-1, 0, 1} /\ Units(a) \in Int /\ Cash(a) \in Int
  BY SoundTypes
<1>2. PICK x \in Crossed(b, bid), e \in Crossed(b, bid) : x = ExitQuote(a.pos, bid) /\ e = EntryQuote(target, bid)
  BY <1>1, QuotesCross
<1>3. x \in Int /\ e \in Int
  BY DEF Crossed
<1>4. PICK flat : flat = IF a.pos = 0 THEN a ELSE CloseOpenPosition(a, x)
  OBVIOUS
<1>5. r = IF target = 0 THEN flat ELSE OpenPosition(flat, target, bid, atr)
  BY <1>2, <1>4 DEF Turn
<1>6. cfg.maxLev \in Nat /\ Lot \in Nat \ {0}
  BY DEF PaperAssumption
<1>7. /\ Sound(cfg, flat) /\ flat.pos = 0 /\ flat.levels = NoLevels /\ Units(flat) = 0
      /\ Cash(flat) = Cash(a) + 2 * (Units(a) * x)
  <2>1. CASE a.pos = 0
    <3>1. Units(a) = 0
      BY <2>1, SoundTypes DEF Units
    <3>2. QED
      BY <1>1, <1>3, <1>4, <2>1, <3>1 DEF Owned
  <2>2. CASE a.pos # 0
    BY <1>3, <1>4, <1>6, <2>2, CloseBooks, CloseCash
  <2>3. QED
    BY <2>1, <2>2
<1>8. CASE target = 0
  <2>1. r = flat
    BY <1>5, <1>8
  <2>2. Sound(cfg, r) /\ Owned(cfg, r) /\ Ahead(r, bid)
    BY <1>7, <2>1 DEF Owned, Ahead
  <2>3. Cash(r) = Cash(a) + 2 * ((Units(a) - Units(r)) * x)
    BY <1>1, <1>3, <1>7, <2>1
  <2>4. a.pos = 0 => r = a
    BY <1>4, <2>1
  <2>5. QED
    BY <2>2, <2>3, <2>4 DEF Dealt
<1>9. CASE target \in {-1, 1}
  <2>1. r = OpenPosition(flat, target, bid, atr)
    BY <1>5, <1>9
  <2>2. Sound(cfg, r) /\ Owned(cfg, r) /\ Ahead(r, bid)
    BY <1>7, <1>9, <2>1, OpenDeals
  <2>3. Cash(r) = Cash(flat) - 2 * (Units(r) * e)
    BY <1>2, <1>7, <1>9, <2>1, OpenCash
  <2>4. Units(r) \in Int
    BY <2>2, SoundTypes
  <2>5. Units(a) * x \in Int /\ Units(r) * e \in Int
    BY <1>1, <1>3, <2>4
  <2>6. Cash(r) = Cash(a) + 2 * (Units(a) * x - Units(r) * e)
    BY <1>1, <1>7, <2>3, <2>5
  <2>7. a.pos = 0 => Units(a) = 0 /\ Cash(r) = Cash(a) - 2 * (Units(r) * e)
    <3>1. a.pos = 0 => flat = a
      BY <1>4
    <3>2. QED
      BY <1>7, <2>3, <3>1
  <2>8. QED
    BY <2>2, <2>6, <2>7 DEF Dealt
<1>10. QED
  BY <1>8, <1>9

\* A level that was hit is dealt at its fill, and a new position at the quote.
LEMMA FillThenTurn ==
  ASSUME PaperAssumption, cfg \in Cfgs, Sound(cfg, p), p.pos # 0, NEW b \in Bids,
         NEW target \in {-1, 0, 1}, NEW bid \in Bids, NEW atr \in Nat, NEW f \in Crossed(b, bid),
         NEW a, a = CloseOpenPosition(p, f), NEW r, r = Turn(a, target, bid, atr)
  PROVE  /\ a.pos = 0 /\ Sound(cfg, r) /\ Owned(cfg, r) /\ Ahead(r, bid)
         /\ Dealt(p, r, Crossed(b, bid))
<1>1. cfg.maxLev \in Nat /\ Lot \in Nat \ {0} /\ f \in Int
  BY DEF PaperAssumption, Crossed
<1>2. Sound(cfg, a) /\ a.pos = 0 /\ a.levels = NoLevels
  BY <1>1, CloseBooks
<1>3. Owned(cfg, a)
  BY <1>2 DEF Owned
<1>4. PICK u \in Int, c \in Int : u = Units(p) /\ c = Cash(p)
  BY SoundTypes
<1>5. Units(a) = 0 /\ Cash(a) = c + 2 * (u * f)
  BY <1>1, <1>4, CloseCash
<1>6. Sound(cfg, r) /\ Owned(cfg, r) /\ Ahead(r, bid)
  BY <1>2, <1>3, TurnDeals
<1>7. CASE r = a
  <2>1. Cash(r) = c + 2 * ((u - Units(r)) * f)
    BY <1>1, <1>4, <1>5, <1>7
  <2>2. QED
    BY <1>2, <1>4, <1>6, <2>1 DEF Dealt
<1>8. CASE r # a
  <2>1. PICK q \in Crossed(b, bid) : Cash(r) = Cash(a) - 2 * (Units(r) * q)
    BY <1>2, <1>3, <1>8, TurnDeals
  <2>2. PICK n \in Int : n = Units(r) /\ q \in Int
    BY <1>6, SoundTypes DEF Crossed
  <2>3. PICK x \in Int, y \in Int : x = u * f /\ y = n * q
    BY <1>1, <1>4, <2>2
  <2>4. Cash(r) = c + 2 * (x - y)
    BY <1>4, <1>5, <2>1, <2>2, <2>3
  <2>5. QED
    BY <1>2, <1>4, <1>6, <2>2, <2>3, <2>4 DEF Dealt
<1>9. QED
  BY <1>7, <1>8

LEMMA SignalDeals ==
  ASSUME PaperAssumption, cfg \in Cfgs, Sound(cfg, p), Owned(cfg, p), NEW b \in Bids, Ahead(p, b),
         NEW target \in {-1, 0, 1}, NEW bid \in Bids, NEW atr \in Nat,
         NEW a, a = IF Hit(bid) = "" THEN p ELSE CloseOpenPosition(p, FillPrice(Hit(bid))),
         NEW r, r = IF target = a.pos /\ a.pos # 0 THEN a ELSE Turn(a, target, bid, atr)
  PROVE  /\ Sound(cfg, r) /\ Owned(cfg, r) /\ Ahead(r, bid)
         /\ Dealt(p, r, Crossed(b, bid))
<1>1. CASE Hit(bid) = ""
  <2>1. a = p /\ Ahead(p, bid)
    BY <1>1, HitFills
  <2>2. CASE target = a.pos /\ a.pos # 0
    BY <2>1, <2>2 DEF Dealt
  <2>3. CASE ~(target = a.pos /\ a.pos # 0)
    <3>1. r = Turn(p, target, bid, atr)
      BY <2>1, <2>3
    <3>2. QED
      BY <3>1, TurnDeals
  <2>4. QED
    BY <2>2, <2>3
<1>2. CASE Hit(bid) # ""
  <2>1. p.pos # 0
    BY <1>2, HitFills
  <2>2. PICK f \in Crossed(b, bid) : f = FillPrice(Hit(bid))
    BY <1>2, HitFills
  <2>3. a = CloseOpenPosition(p, f)
    BY <1>2, <2>2
  <2>4. a.pos = 0
    BY <2>1, <2>3, FillThenTurn
  <2>5. r = Turn(a, target, bid, atr)
    BY <2>4
  <2>6. QED
    BY <2>1, <2>3, <2>5, FillThenTurn
<1>3. QED
  BY <1>1, <1>2

\* The equity marked at m is the cash and the units at m.
LEMMA MarkedIsCash ==
  ASSUME NEW c, NEW a, Sound(c, a), NEW m \in Int, cfg.equity \in Int
  PROVE  Marked(a, m) = Initial + Cash(a) + Units(a) * m /\ Marked(a, m) \in Int /\ Initial \in Int
<1>1. a.pos \in {-1, 0, 1} /\ a.size \in Nat /\ a.entry \in Int /\ a.realized \in Int
  BY SoundTypes
<1>2. (a.pos * a.size) * (m - 2 * a.entry) = (a.pos * a.size) * m - 2 * ((a.pos * a.size) * a.entry)
  BY <1>1
<1>3. PICK u \in Int, v \in Int, w \in Int : u = a.pos * a.size /\ v = u * m /\ w = u * a.entry
  BY <1>1
<1>4. Initial \in Int
  BY DEF Initial
<1>5. a.pos * a.size * (m - 2 * a.entry) = v - 2 * w
  BY <1>2, <1>3
<1>6. Marked(a, m) = Initial + a.realized + (v - 2 * w)
  BY <1>5 DEF Marked
<1>7. Cash(a) = a.realized - 2 * w /\ Units(a) * m = v
  BY <1>3 DEF Cash, Units
<1> HIDE DEF Initial
<1>8. QED
  BY <1>1, <1>3, <1>4, <1>6, <1>7

\* Prices between the quotes are prices the market passed.
LEMMA CrossedIsPassed ==
  ASSUME PaperAssumption, NEW b \in Bids, NEW bid \in Bids,
         mid = 2 * b + Spread, mid' = 2 * bid + Spread
  PROVE  Crossed(b, bid) \subseteq Ledger!Passed
<1>1. b \in Nat /\ bid \in Nat /\ Spread \in Nat
  BY DEF PaperAssumption
<1>2. PICK h \in Int : h = Spread \div 2 /\ h <= Spread /\ 0 <= h
  BY <1>1
<1>3. mid \div 2 = b + h /\ mid' \div 2 = bid + h
  BY <1>1, <1>2
<1>4. Ledger!Passed = IF mid < mid' THEN ((mid \div 2) - Spread)..((mid' \div 2) + Spread)
                      ELSE ((mid' \div 2) - Spread)..((mid \div 2) + Spread)
  BY DEF Ledger!Passed
<1>5. QED
  BY <1>1, <1>2, <1>3, <1>4 DEF Crossed

\* What is dealt at prices the market passed is a step of the account.
LEMMA AccountSteps ==
  ASSUME NEW Q, Q \subseteq Ledger!Passed, Q \subseteq Int, Q # {},
         Units(p) \in Int, Units(p') \in Int, Cash(p) \in Int, Cash(p') \in Int,
         mid \in Int, mid' \in Int, Initial \in Int,
         equity = Initial + Cash(p) + Units(p) * mid,
         equity' = Initial + Cash(p') + Units(p') * mid',
         Dealt(p, p', Q)
  PROVE  Ledger!Next
<1>1. PICK u \in Int, n \in Int, c \in Int, e \in Int, i \in Int, m \in Int, k \in Int :
        /\ u = Units(p) /\ n = Units(p') /\ c = Cash(p) /\ e = Cash(p')
        /\ i = Initial /\ m = mid /\ k = mid'
  OBVIOUS
<1>2. p.pos * p.size = u /\ p'.pos * p'.size = n
  BY <1>1 DEF Units
<1>3. PICK x \in Int, y \in Int : x = u * m /\ y = n * k
  BY <1>1
<1>4. equity = i + c + x /\ equity' = i + e + y
  BY <1>1, <1>3
<1>5. \A z \in Int : 0 * Ledger!Abs(z) = 0 /\ Ledger!Abs(z) \in Int
  BY DEF Ledger!Abs
<1>6. ASSUME NEW q \in Ledger!Passed, q \in Int, e = c + 2 * ((u - n) * q)
      PROVE  Ledger!Next
  <2>1. PICK z \in Int, w \in Int : z = (u - n) * q /\ w = Ledger!Abs(n - u)
    BY <1>5
  <2>0. e = c + 2 * z
    BY <1>6, <2>1
  <2>2. equity' = equity + 2 * (z - 0 * w) + y - x
    BY <1>4, <2>0
  <2>3. Ledger!Deal(q)
    BY <1>1, <1>2, <1>3, <2>1, <2>2 DEF Ledger!Deal
  <2>4. QED
    BY <2>3 DEF Ledger!Next
<1>7. ASSUME NEW q \in Ledger!Passed, NEW r \in Ledger!Passed, q \in Int, r \in Int,
             e = c + 2 * (u * q - n * r)
      PROVE  Ledger!Next
  <2>1. PICK z \in Int, w \in Int : z = u * q - n * r /\ w = Ledger!Abs(u) + Ledger!Abs(n)
    BY <1>5
  <2>0. e = c + 2 * z
    BY <1>7, <2>1
  <2>2. equity' = equity + 2 * (z - 0 * w) + y - x
    BY <1>4, <2>0
  <2>3. Ledger!TurnOver(q, r)
    BY <1>1, <1>2, <1>3, <2>1, <2>2 DEF Ledger!TurnOver
  <2>4. QED
    BY <2>3 DEF Ledger!Next
<1>8. CASE Units(p') = Units(p) /\ Cash(p') = Cash(p)
  <2>1. PICK q \in Q : q \in Int /\ q \in Ledger!Passed
    OBVIOUS
  <2>2. e = c + 2 * ((u - n) * q)
    BY <1>1, <1>8, <2>1
  <2>3. QED
    BY <1>6, <2>1, <2>2
<1>9. CASE \E q \in Q : Cash(p') = Cash(p) + 2 * ((Units(p) - Units(p')) * q)
  BY <1>1, <1>6, <1>9
<1>10. CASE \E q, r \in Q : Cash(p') = Cash(p) + 2 * (Units(p) * q - Units(p') * r)
  BY <1>1, <1>7, <1>10
<1>11. QED
  BY <1>8, <1>9, <1>10 DEF Dealt

-----------------------------------------------------------------------------
(* The invariant.                                                          *)

LEMMA Starts == ASSUME PaperAssumption, Init PROVE Inv
<1>1. /\ cfg \in Cfgs /\ equity = Initial /\ signals = 0 /\ stopped = FALSE
      /\ p = [pos |-> 0, size |-> 0, entry |-> 0, realized |-> 0, levels |-> NoLevels,
              sizing |-> NewSizing(cfg.equity)]
  BY DEF Init
<1>2. PICK b \in Bids : mid = 2 * b + Spread
  BY DEF Init
<1>3. /\ cfg.equity \in Int /\ cfg.maxLev \in Nat /\ Lot \in Nat /\ MaxSignals \in Nat
      /\ b \in Nat /\ Spread \in Nat
  BY <1>1 DEF PaperAssumption
<1>4. NewSizing(cfg.equity) \in Sizings /\ NoLevels \in Levels
  BY <1>3 DEF NewSizing, NoLevels, Sizings, Levels
<1>5. p \in Portfolios
  BY <1>1, <1>4 DEF Portfolios
<1>6. 0 <= Max({Lot, cfg.maxLev})
  BY <1>3, MaxOfTwo
<1>7. Sound(cfg, p)
  BY <1>1, <1>5, <1>6 DEF Sound, Counted, NewSizing
<1>8. Owned(cfg, p) /\ Ahead(p, b)
  BY <1>1 DEF Owned, Ahead
<1>9. mid \in Int
  BY <1>2, <1>3
<1>10. Units(p) = 0 /\ Cash(p) = 0
  BY <1>1 DEF Units, Cash
<1>11. equity = Marked(p, mid) /\ equity \in Int
  BY <1>1, <1>3, <1>7, <1>9, <1>10, MarkedIsCash
<1>12. signals \in 0..MaxSignals /\ stopped \in BOOLEAN
  <2>1. signals \in 0..MaxSignals
    BY <1>1, <1>3
  <2>2. stopped \in BOOLEAN
    BY <1>1, Zenon
  <2>3. QED
    BY <2>1, <2>2
<1>13. \E n \in Bids : mid = 2 * n + Spread /\ Ahead(p, n)
  BY <1>2, <1>8
<1>14. QED
  BY <1>1, <1>7, <1>8, <1>11, <1>12, <1>13 DEF Inv

\* A signal keeps the invariant and is a step of the account.
LEMMA SignalSteps ==
  ASSUME PaperAssumption, Inv, NEW target \in {-1, 0, 1}, NEW bid \in Bids,
         NEW atr \in AtrAt(signals), ProcessSignal(target, bid, atr)
  PROVE  Inv' /\ Ledger!Next
<1>1. /\ ~stopped /\ signals < MaxSignals /\ mid' = 2 * bid + Spread /\ equity' = Marked(p', mid')
      /\ signals' = signals + 1 /\ cfg' = cfg /\ stopped' = stopped
  BY DEF ProcessSignal
<1>2. /\ cfg \in Cfgs /\ Sound(cfg, p) /\ signals \in 0..MaxSignals /\ stopped \in BOOLEAN
      /\ equity = Marked(p, mid) /\ Owned(cfg, p)
  BY <1>1 DEF Inv
<1>3. PICK b \in Bids : mid = 2 * b + Spread /\ Ahead(p, b)
  BY <1>1 DEF Inv
<1>4. atr \in Nat
  BY DEF AtrAt, PaperAssumption
<1>5. PICK a : a = IF Hit(bid) = "" THEN p ELSE CloseOpenPosition(p, FillPrice(Hit(bid)))
  OBVIOUS
<1>6. p' = IF target = a.pos /\ a.pos # 0 THEN a ELSE Turn(a, target, bid, atr)
  BY <1>5 DEF ProcessSignal
<1>7. PICK r : r = p'
  OBVIOUS
<1>8. /\ Sound(cfg, r) /\ Owned(cfg, r) /\ Ahead(r, bid) /\ Dealt(p, r, Crossed(b, bid))
  BY <1>2, <1>3, <1>4, <1>5, <1>6, <1>7, SignalDeals
<1>9. /\ cfg.equity \in Int /\ MaxSignals \in Nat /\ b \in Nat /\ bid \in Nat /\ Spread \in Nat
  BY <1>2 DEF PaperAssumption
<1>10. mid \in Int /\ mid' \in Int
  BY <1>1, <1>3, <1>9
<1>11. /\ equity = Initial + Cash(p) + Units(p) * mid /\ Initial \in Int
       /\ Units(p) \in Int /\ Cash(p) \in Int
  BY <1>2, <1>9, <1>10, MarkedIsCash, SoundTypes
<1>12. PICK m : m = mid'
  OBVIOUS
<1>13. /\ Marked(r, m) = Initial + Cash(r) + Units(r) * m /\ Marked(r, m) \in Int
       /\ Units(r) \in Int /\ Cash(r) \in Int
  BY <1>8, <1>9, <1>10, <1>12, MarkedIsCash, SoundTypes
<1>14. equity' = Marked(r, m)
  <2>1. Initial' = Initial
    BY <1>1 DEF Initial
  <2>2. QED
    BY <1>1, <1>7, <1>12, <2>1 DEF Marked
<1>15. Ledger!Next
  <2>1. Crossed(b, bid) \subseteq Ledger!Passed
    BY <1>1, <1>3, CrossedIsPassed
  <2>2. Crossed(b, bid) \subseteq Int
    BY DEF Crossed
  <2>3. Crossed(b, bid) # {}
    BY QuotesCross
  <2>4. QED
    BY <1>7, <1>8, <1>10, <1>11, <1>12, <1>13, <1>14, <2>1, <2>2, <2>3, AccountSteps
<1>16. Inv'
  <2>1. Sound(cfg, p)' /\ Owned(cfg, p)' /\ Ahead(p, bid)'
    BY <1>1, <1>7, <1>8 DEF Sound, Owned, Ahead, Counted
  <2>2. (equity = Marked(p, mid))' /\ equity' \in Int
    BY <1>1, <1>7, <1>12, <1>13, <1>14 DEF Marked, Initial
  <2>3. signals' \in 0..MaxSignals
    BY <1>1, <1>2, <1>9
  <2>4. QED
    BY <1>1, <1>2, <2>1, <2>2, <2>3 DEF Inv
<1>17. QED
  BY <1>15, <1>16

\* stop() keeps it too: it deals at the quote, or at the entry when it has none.
LEMMA StopSteps ==
  ASSUME PaperAssumption, Inv, NEW bid \in Bids, NEW known \in BOOLEAN, Stop(bid, known)
  PROVE  Inv' /\ Ledger!Next
<1>1. PICK x : x = IF known THEN ExitQuote(p.pos, bid) ELSE p.entry
  OBVIOUS
<1>2. /\ ~stopped /\ stopped' = TRUE /\ signals' = signals /\ cfg' = cfg
      /\ p' = IF p.pos = 0 THEN p ELSE [CloseOpenPosition(p, x) EXCEPT !.levels = p.levels]
      /\ equity' = Initial + p'.realized
      /\ mid' = IF known THEN 2 * bid + Spread ELSE IF p.pos # 0 THEN 2 * p.entry ELSE mid
  BY <1>1 DEF Stop
<1>3. /\ cfg \in Cfgs /\ Sound(cfg, p) /\ signals \in 0..MaxSignals /\ equity = Marked(p, mid)
  BY <1>2 DEF Inv
<1>4. PICK b \in Bids : mid = 2 * b + Spread
  BY <1>2 DEF Inv
<1>5. /\ cfg.equity \in Int /\ cfg.maxLev \in Nat /\ Lot \in Nat \ {0}
      /\ b \in Nat /\ bid \in Nat /\ Spread \in Nat
  BY <1>3 DEF PaperAssumption
<1>6. /\ p.pos \in {-1, 0, 1} /\ p.entry \in Int /\ Units(p) \in Int /\ Cash(p) \in Int
      /\ p.levels \in Levels
  BY <1>3, SoundTypes
<1>7. x \in Int /\ mid \in Int /\ mid' \in Int
  BY <1>1, <1>2, <1>4, <1>5, <1>6 DEF ExitQuote
<1>8. PICK r : r = p'
  OBVIOUS
<1>9. /\ Sound(cfg, r) /\ Units(r) = 0 /\ Cash(r) = Cash(p) + 2 * (Units(p) * x) /\ r.realized = Cash(r)
  <2>1. CASE p.pos = 0
    <3>1. r = p /\ p.size = 0 /\ p.entry = 0
      BY <1>2, <1>3, <1>8, <2>1 DEF Sound
    <3>2. Units(p) = 0 /\ Cash(p) = p.realized /\ p.realized \in Int
      BY <1>3, <2>1, <3>1, SoundTypes DEF Units, Cash
    <3>3. QED
      BY <1>3, <1>7, <3>1, <3>2
  <2>2. CASE p.pos # 0
    <3>1. PICK flat : flat = CloseOpenPosition(p, x)
      OBVIOUS
    <3>2. /\ Sound(cfg, flat) /\ flat.pos = 0 /\ flat.size = 0 /\ flat.entry = 0
      BY <1>3, <1>5, <1>7, <2>2, <3>1, CloseBooks
    <3>3. Units(flat) = 0 /\ Cash(flat) = Cash(p) + 2 * (Units(p) * x)
      BY <1>3, <1>5, <1>7, <2>2, <3>1, CloseCash
    <3>4. r = [flat EXCEPT !.levels = p.levels]
      BY <1>2, <1>8, <2>2, <3>1
    <3>5. flat \in Portfolios
      BY <3>2 DEF Sound
    <3>6. /\ r.pos = 0 /\ r.size = 0 /\ r.entry = 0 /\ r.realized = flat.realized /\ r.sizing = flat.sizing
          /\ r = [pos |-> 0, size |-> 0, entry |-> 0, realized |-> flat.realized,
                  levels |-> p.levels, sizing |-> flat.sizing]
      BY <3>2, <3>4, <3>5 DEF Portfolios
    <3>7. r \in Portfolios
      BY <1>6, <3>5, <3>6 DEF Portfolios
    <3>8. Sound(cfg, r)
      BY <3>2, <3>6, <3>7 DEF Sound, Counted
    <3>9. Units(r) = 0 /\ Cash(r) = Cash(flat) /\ r.realized = Cash(r)
      <4>1. flat.realized \in Int
        BY <3>2, SoundTypes
      <4>2. QED
        BY <3>2, <3>6, <4>1 DEF Units, Cash
    <3>10. QED
      BY <3>3, <3>8, <3>9
  <2>3. QED
    BY <2>1, <2>2
<1>10. Cash(r) \in Int /\ Initial \in Int /\ equity = Initial + Cash(p) + Units(p) * mid
  BY <1>3, <1>5, <1>7, <1>9, MarkedIsCash, SoundTypes
<1>11. equity' = Initial + Cash(r) + Units(r) * mid'
  BY <1>2, <1>7, <1>8, <1>9, <1>10
<1>12. PICK q \in Int : q \in Ledger!Passed /\ Units(p) * q = Units(p) * x
  <2>1. CASE known
    <3>1. mid' = 2 * bid + Spread
      BY <1>2, <2>1
    <3>2. x \in Crossed(b, bid)
      BY <1>1, <1>6, <2>1, QuotesCross
    <3>3. x \in Ledger!Passed
      BY <1>4, <3>1, <3>2, CrossedIsPassed
    <3>4. QED
      BY <1>7, <3>3
  <2>2. CASE ~known /\ p.pos # 0
    <3>1. mid' = 2 * x
      BY <1>1, <1>2, <2>2
    <3>2. Ledger!Passed = IF mid < mid' THEN ((mid \div 2) - Spread)..((mid' \div 2) + Spread)
                          ELSE ((mid' \div 2) - Spread)..((mid \div 2) + Spread)
      BY DEF Ledger!Passed
    <3>3. x \in Ledger!Passed
      BY <1>5, <1>7, <3>1, <3>2
    <3>4. QED
      BY <1>7, <3>3
  <2>3. CASE ~known /\ p.pos = 0
    <3>1. mid' = mid /\ Units(p) = 0
      <4>1. p.size \in Nat
        BY <1>3, SoundTypes
      <4>2. QED
        BY <1>2, <2>3, <4>1 DEF Units
    <3>2. Ledger!Passed = IF mid < mid' THEN ((mid \div 2) - Spread)..((mid' \div 2) + Spread)
                          ELSE ((mid' \div 2) - Spread)..((mid \div 2) + Spread)
      BY DEF Ledger!Passed
    <3>3. mid \div 2 \in Ledger!Passed /\ mid \div 2 \in Int
      BY <1>5, <1>7, <3>1, <3>2
    <3>4. QED
      BY <1>7, <3>1, <3>3
  <2>4. QED
    BY <2>1, <2>2, <2>3
<1>13. Ledger!Next
  <2>1. Cash(r) = Cash(p) + 2 * ((Units(p) - Units(r)) * q)
    BY <1>6, <1>9, <1>12
  <2>2. Dealt(p, r, {q})
    BY <2>1 DEF Dealt
  <2>3. {q} \subseteq Ledger!Passed /\ {q} \subseteq Int /\ {q} # {}
    BY <1>12
  <2>4. /\ Dealt(p, p', {q}) /\ Units(p') \in Int /\ Cash(p') \in Int
        /\ equity' = Initial + Cash(p') + Units(p') * mid'
    BY <1>8, <1>9, <1>10, <1>11, <2>2
  <2>5. QED
    BY ONLY <1>6, <1>7, <1>10, <2>3, <2>4, AccountSteps
<1>14. Inv'
  <2>1. Sound(cfg, p)'
    BY <1>2, <1>8, <1>9 DEF Sound, Counted
  <2>2. equity' \in Int
    BY <1>7, <1>9, <1>10, <1>11
  <2>3. QED
    BY <1>2, <1>3, <2>1, <2>2 DEF Inv
<1>15. QED
  BY <1>13, <1>14

LEMMA InvIsInductive == ASSUME PaperAssumption PROVE Spec => []Inv
<1>1. Init => Inv
  BY Starts
<1>2. Inv /\ [Next]_vars => Inv'
  <2> SUFFICES ASSUME Inv, [Next]_vars PROVE Inv'
    OBVIOUS
  <2>1. CASE UNCHANGED vars
    BY <2>1 DEF vars, Inv, Sound, Counted, Owned, Ahead, Marked, Initial
  <2>2. ASSUME NEW bid \in Bids, NEW target \in {-1, 0, 1}, NEW atr \in AtrAt(signals),
               ProcessSignal(target, bid, atr)
        PROVE  Inv'
    BY <2>2, SignalSteps
  <2>3. ASSUME NEW bid \in Bids, NEW known \in BOOLEAN, Stop(bid, known)
        PROVE  Inv'
    BY <2>3, StopSteps
  <2>4. QED
    BY <2>1, <2>2, <2>3 DEF Next
<1>3. QED
  BY <1>1, <1>2, PTL DEF Spec

-----------------------------------------------------------------------------
(* The theorems.                                                           *)

(* A position has its side, a size within the leverage or a lot, and an    *)
(* entry, whatever is configured and whatever the quotes do.               *)
THEOREM TypesHold == Spec => []TypeOK
<1>1. Inv => TypeOK
  BY DEF Inv, TypeOK, Sound, Portfolios
<1>2. QED
  BY <1>1, Configured, InvIsInductive, PTL

(* The sums that sizes are made from are those of the realized PnL, and no *)
(* stop level outlives its position or lies on the wrong side of it.       *)
THEOREM BooksStayTrue == Spec => []BooksTrue
<1>1. Inv => BooksTrue
  <2> SUFFICES ASSUME Inv PROVE BooksTrue
    OBVIOUS
  <2>1. StatisticsAgree
    BY DEF Inv, Sound, Counted, StatisticsAgree
  <2>2. LevelsBelong
    BY DEF Inv, Owned, LevelsBelong
  <2>3. QED
    BY <2>1, <2>2 DEF BooksTrue
<1>2. QED
  BY <1>1, Configured, InvIsInductive, PTL

(* A paper session implements Account: over holds, reversals, stop-outs    *)
(* with a new position at once and the final close, its equity is that of  *)
(* a ledger that deals at prices the market passed.                        *)
THEOREM PaperIsAnAccount == Spec => IsAnAccount
<1>1. Init => Ledger!Init
  BY DEF Init, Ledger!Init
<1>2. Inv /\ [Next]_vars => [Ledger!Next]_(Ledger!vars)
  <2> SUFFICES ASSUME Inv, [Next]_vars PROVE [Ledger!Next]_(Ledger!vars)
    OBVIOUS
  <2>1. CASE UNCHANGED vars
    BY <2>1 DEF vars, Ledger!vars
  <2>2. ASSUME NEW bid \in Bids, NEW target \in {-1, 0, 1}, NEW atr \in AtrAt(signals),
               ProcessSignal(target, bid, atr)
        PROVE  Ledger!Next
    BY <2>2, Configured, SignalSteps
  <2>3. ASSUME NEW bid \in Bids, NEW known \in BOOLEAN, Stop(bid, known)
        PROVE  Ledger!Next
    BY <2>3, Configured, StopSteps
  <2>4. QED
    BY <2>1, <2>2, <2>3 DEF Next
<1>3. QED
  BY <1>1, <1>2, Configured, InvIsInductive, PTL DEF Spec, IsAnAccount, Ledger!Spec
=============================================================================
