--------------------------- MODULE PaperEngine ---------------------------
(***************************************************************************)
(* trading/paper_engine.py: one paper session, from start() to stop().     *)
(* Prices are ticks, a size is in units of 1/Lot, money is in half ticks   *)
(* times units so that a mark at the mid price is whole.  The volatility   *)
(* tracker gives no ATR before its third price and any of Atrs after it.   *)
(***************************************************************************)
EXTENDS ExecutionModels

CONSTANTS Cfgs,       \* the sizing, trust and stop configurations a session can have
          Bids, Spread, Atrs,
          MaxSignals  \* bound on the signals of a session

\* start() clamps the trust to 0..1, its StopConfig has no partial close, and an
\* average true range is a mean of absolute moves.  That distances are not
\* negative is asked of who configures them; methods that read the volatility
\* of the bars are left out.
PaperAssumption ==
  /\ Lot \in Nat \ {0} /\ Bids \subseteq Nat \ {0} /\ Spread \in Nat /\ Atrs \subseteq Nat
  /\ MaxSignals \in Nat
  /\ \A c \in Cfgs :
       /\ c.sizing \in {"fixed", "fixed_fractional", "kelly", "atr"}
       /\ c.equity \in Int /\ c.trust \in 0..Lot /\ c.maxLev \in Nat /\ c.atrSl \in Nat \ {0}
       /\ c.fraction \in Int /\ c.kelly \in Int /\ c.kellyMin \in Int
       /\ c.stop \in {"none", "fixed_pips", "atr"} /\ c.sl \in Nat /\ c.tp \in Nat /\ ~c.partial
ASSUME Configured == PaperAssumption

VARIABLES cfg,      \* the configuration of the session
          p,        \* the portfolio with its open trade and the stop levels
          equity, mid,
          signals,  \* signal_count
          stopped,
          exit      \* history: the last exit, with the quotes it was made at

vars == <<cfg, p, equity, mid, signals, stopped, exit>>

Initial == 2 * cfg.equity

Init ==
  /\ cfg \in Cfgs
  /\ p = [pos |-> 0, size |-> 0, entry |-> 0, realized |-> 0, levels |-> NoLevels,
          sizing |-> NewSizing(cfg.equity)]
  /\ equity = Initial /\ mid \in {2 * b + Spread : b \in Bids}
  /\ signals = 0 /\ stopped = FALSE
  /\ exit = [price |-> 0, quote |-> 0]

\* The side of the quote that closes a position, and the one that opens it.
ExitQuote(pos, bid)  == IF pos = 1 THEN bid ELSE bid + Spread
EntryQuote(pos, bid) == IF pos = 1 THEN bid + Spread ELSE bid

Marked(a, m) == Initial + a.realized + a.pos * a.size * (m - 2 * a.entry)

\* slip: the levels of the closed trade stay
CloseKeepingLevels(a, price) ==
  LET pnl == 2 * a.pos * (price - a.entry) * a.size
  IN [a EXCEPT !.pos = 0, !.size = 0, !.entry = 0, !.realized = @ + pnl,
               !.sizing = UpdateSizing(@, pnl)]

CloseOpenPosition(a, price) ==
  LET pnl == 2 * a.pos * (price - a.entry) * a.size
  IN [a EXCEPT !.pos = 0, !.size = 0, !.entry = 0, !.realized = @ + pnl,
               !.sizing = UpdateSizing(@, pnl), !.levels = NoLevels]

OpenPosition(a, target, bid, atr) ==
  LET entry == EntryQuote(target, bid)
      size  == ComputeSize(cfg, a.sizing, 0, atr)
  IN [a EXCEPT !.pos = target, !.entry = entry, !.size = IF size <= 0 THEN Lot ELSE size,
               !.levels = ComputeStopLevels(cfg, entry, target, atr, 0)]

\* The level that the exit side of the quote reached, "" for none.
Hit(bid) ==
  IF p.pos = 0 THEN ""
  ELSE CheckStopHit(p.levels, p.pos, ExitQuote(p.pos, bid), ExitQuote(p.pos, bid))

\* A level is filled at its own price.
FillPrice(hit) == IF hit = "sl" THEN p.levels.sl ELSE p.levels.tp

\* slip: the target of a signal is opened on top of what is held
Pyramid(a, target, bid, atr) ==
  IF target = 0 THEN CloseOpenPosition(a, ExitQuote(a.pos, bid)) ELSE OpenPosition(a, target, bid, atr)

\* Reverse or leave what is held, then take the signal's side.
Turn(a, target, bid, atr) ==
  LET flat == IF a.pos = 0 THEN a ELSE CloseOpenPosition(a, ExitQuote(a.pos, bid))
  IN IF target = 0 THEN flat ELSE OpenPosition(flat, target, bid, atr)

AtrAt(k) == IF k < 2 THEN {0} ELSE Atrs

ProcessSignal(target, bid, atr) ==
  LET hit == Hit(bid)
      a   == IF hit = "" THEN p ELSE CloseOpenPosition(p, FillPrice(hit))
  IN /\ ~stopped /\ signals < MaxSignals
     /\ p' = IF target = a.pos /\ a.pos # 0 THEN a ELSE Turn(a, target, bid, atr)
     /\ mid' = 2 * bid + Spread
     /\ equity' = Marked(p', mid')
     /\ signals' = signals + 1
     /\ exit' = IF hit # "" THEN [price |-> FillPrice(hit), quote |-> ExitQuote(p.pos, bid)]
                ELSE IF p.pos # 0 /\ target # p.pos
                THEN [price |-> ExitQuote(p.pos, bid), quote |-> ExitQuote(p.pos, bid)]
                ELSE exit
     /\ UNCHANGED <<cfg, stopped>>

\* stop() closes at the quote, or takes the entry for the market's price when
\* there is none.  It leaves the stop levels, which nothing reads once the session has stopped.
Stop(bid, known) ==
  LET price == IF known THEN ExitQuote(p.pos, bid) ELSE p.entry
      a == IF p.pos = 0 THEN p ELSE [CloseOpenPosition(p, price) EXCEPT !.levels = p.levels]
  IN /\ ~stopped /\ stopped' = TRUE
     /\ p' = a /\ equity' = Initial + a.realized
     /\ mid' = IF known THEN 2 * bid + Spread ELSE IF p.pos # 0 THEN 2 * p.entry ELSE mid
     /\ exit' = IF p.pos # 0 /\ known THEN [price |-> price, quote |-> price] ELSE exit
     /\ UNCHANGED <<cfg, signals>>

Next == \E bid \in Bids :
          \/ \E target \in {-1, 0, 1}, atr \in AtrAt(signals) : ProcessSignal(target, bid, atr)
          \/ \E known \in BOOLEAN : Stop(bid, known)

Spec == Init /\ [][Next]_vars

---------------------------------------------------------------------------
(* Properties.                                                             *)

\* The portfolio has its types; a position has a size and an entry, and
\* being flat has neither.
TypeOK ==
  /\ p.pos \in {-1, 0, 1} /\ p.size \in 0..Max({Lot, cfg.maxLev}) /\ p.realized \in Int
  /\ (p.pos = 0) = (p.size = 0) /\ (p.pos = 0) = (p.entry = 0)
  /\ equity \in Int /\ stopped \in BOOLEAN /\ signals \in 0..MaxSignals

\* Over reversals, stop-outs with an immediate new entry and the final close,
\* the equity is that of an account that pays and is paid what it deals at.
Ledger == INSTANCE Account WITH units <- p.pos * p.size, price <- mid, Fee <- 0, Scale <- 2,
                                Slack <- Spread
IsAnAccount == Ledger!Spec

\* The sums that the sizing reads agree with the realized PnL.
StatisticsAgree == p.realized = p.sizing.won - p.sizing.lost /\ p.sizing.wins <= p.sizing.trades

\* While the session runs, stop levels belong to the position that is open:
\* none without one, and on their own sides of its entry.
LevelsBelong ==
  ~stopped => IF p.pos = 0 THEN p.levels = NoLevels
              ELSE cfg.stop # "none" => /\ p.pos * (p.entry - p.levels.sl) >= 0
                                        /\ p.pos * (p.levels.tp - p.entry) >= 0

\* What the engine tells its sizing and its stops is true of its trades: the
\* sums behind the sizes are those of the realized PnL, and a level of a closed
\* position is never met by the next one.
BooksTrue == StatisticsAgree /\ LevelsBelong

\* A long is closed at the bid and a short at the ask, whatever closed it.
ExitsAtQuote == exit.price = exit.quote

\* A position has the size that the sizing model gives, as in the backtest.
SizedAsBacktest == p.pos # 0 => p.size = ComputeSize(cfg, p.sizing, 0, 0)

\* The sizing model sees the account's equity.
SizingSeesEquity == Initial + p.realized = 2 * p.sizing.equity
=============================================================================
