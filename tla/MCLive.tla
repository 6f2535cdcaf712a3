-------------------------------- MODULE MCLive --------------------------------
(* The live engine, the committee engine and the sessions that run them,   *)
(* for TLC.  The initial state chooses the part and its configuration.     *)
EXTENDS LiveEngine, TradingSession

CalmCfg == [enabled |-> TRUE, equity |-> 20, size |-> 2, stops |-> FALSE,
            maxPosition |-> 50, maxDaily |-> 3, maxHourly |-> 2, cooldown |-> 2, reversal |-> 1,
            useDd |-> TRUE, maxDd |-> 15, useDaily |-> FALSE, maxDailyLoss |-> 50,
            useConsec |-> TRUE, maxLosses |-> 2,
            useRolling |-> FALSE, rolling |-> 2, minSharpe |-> 1, minWinRate |-> 25, minProfitFactor |-> 100,
            heartbeat |-> 2, lifetime |-> 24, maxErrors |-> 2, minEquity |-> 50]
StopsCfg   == [CalmCfg EXCEPT !.stops = TRUE, !.maxHourly = 3, !.useDaily = TRUE]
RollingCfg == [CalmCfg EXCEPT !.cooldown = 0, !.reversal = 0, !.useDd = FALSE, !.useConsec = FALSE,
                              !.useRolling = TRUE, !.maxHourly = 3, !.lifetime = 2]
AllFaults  == {"position", "close", "account", "order", "lost"}
LiveSessions == {[cfg |-> CalmCfg,    faults |-> {},        time |-> 4, signals |-> 4],
                 [cfg |-> StopsCfg,   faults |-> {},        time |-> 3, signals |-> 3],
                 [cfg |-> RollingCfg, faults |-> {},        time |-> 2, signals |-> 4],
                 [cfg |-> CalmCfg,    faults |-> AllFaults, time |-> 1, signals |-> 2]}
LossOrGain   == {-3, 2}

PlainCfg == [enabled |-> TRUE, equity |-> 20, maxPosition |-> 50, maxDaily |-> 9, maxHourly |-> 2,
             cooldown |-> 0, reversal |-> 0,
             useDd |-> TRUE, maxDd |-> 15, useDaily |-> FALSE, maxDailyLoss |-> 50,
             useConsec |-> TRUE, maxLosses |-> 2, useRolling |-> FALSE, rolling |-> 2,
             heartbeat |-> 2, lifetime |-> 24, maxErrors |-> 2, minEquity |-> 50,
             sizing |-> "fixed", trust |-> 2, maxLev |-> 4,
             stop |-> "fixed_pips", sl |-> 2, tp |-> 3, partial |-> FALSE, tp1 |-> 0, tp2 |-> 0]
AtrCfg == [PlainCfg EXCEPT !.stop = "atr", !.sl = 1, !.tp = 2, !.trust = 0]

Calm   == [cfg |-> PlainCfg, live |-> FALSE, client |-> FALSE, bids |-> {10, 13},
           convictions |-> {1, 2}, signals |-> 3, time |-> 1]
PaperOrLive == {Calm,
                [Calm EXCEPT !.cfg = AtrCfg, !.bids = {10, 12, 15}, !.signals = 2],
                [Calm EXCEPT !.live = TRUE, !.client = TRUE, !.signals = 2]}

CONSTANTS Committees, Spread, Lot  \* of CommitteeEngine

VARIABLE part  \* the part that moves
VARIABLES  \* of CommitteeEngine
  committee, p, committee_rs, committee_brk, mid, committee_now, committee_stopped, event, hourly

Committee == INSTANCE CommitteeEngine WITH rs <- committee_rs, brk <- committee_brk,
  now <- committee_now, stopped <- committee_stopped

committeeVars == <<committee, p, committee_rs, committee_brk, mid, committee_now,
                   committee_stopped, event, hourly>>
suiteVars == <<part, vars, committeeVars, sessionVars>>

SuiteAssumption == LiveAssumption /\ Committee!CommitteeAssumption /\ SessionAssumption
ASSUME Configured == SuiteAssumption

SessionKinds == {"paper", "live", "committee"}

----------------------------------------------------------------------------
(* One part moves, the others stand still: the parts share nothing.        *)
SuiteInit ==
  /\ part \in {"engine", "committee", "session"}
  /\ Init /\ Committee!Init /\ SessionInit

SuiteNext ==
  /\ UNCHANGED part
  /\ \/ part = "engine"    /\ Next           /\ UNCHANGED <<committeeVars, sessionVars>>
     \/ part = "committee" /\ Committee!Next /\ UNCHANGED <<vars, sessionVars>>
     \/ part = "session"   /\ SessionNext    /\ UNCHANGED <<vars, committeeVars>>

Suite == SuiteInit /\ [][SuiteNext]_suiteVars

\* What stands still has one state.
OneStateEach ==
  /\ part # "committee" => committee = Calm /\ mid = 21
  /\ part # "engine" => session.time = 4
  /\ part # "session" => kind = "paper"

CheckedInit  == SuiteInit /\ OneStateEach
CheckedSuite == CheckedInit /\ [][SuiteNext]_suiteVars

----------------------------------------------------------------------------
(* Properties: those of the parts, and SessionHolds of TradingSession.     *)

\* Every part keeps the types of its state.
TypesOK == TypeOK /\ Committee!TypeOK /\ SessionTypeOK

\* A committee's portfolio is an account that pays and is paid what it deals
\* at, its trade has stop levels on their sides of its entry, the gates see
\* every trade of a session that deals with the broker and let no clock hour
\* have more than G3 allows, and the emergency button is final for it as well.
CommitteeHolds ==
  /\ Committee!IsAnAccount
  /\ [](Committee!LevelsBelong /\ (Committee!Dealt /\ Committee!Cfg.enabled => Committee!HourlyCap))
  /\ Committee!EmergencyIsFinal

=============================================================================
