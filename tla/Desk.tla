--------------------------------- MODULE Desk ---------------------------------
(***************************************************************************)
(* What runs beside the backtests: the price stream, the candles, the      *)
(* runner of a live committee, the rotation of its models, full cycles,    *)
(* the factory's search and the licence, next to the desktop shell, a      *)
(* rented machine and the news, which this module extends.  Each part has  *)
(* its own state and its own steps; here are the constants of all of them  *)
(* and what they promise together.                                         *)
(***************************************************************************)
EXTENDS DesktopShell, VastRental, NewsStore

CONSTANTS
  Charts, Loops, Streamed, KeyMoves, MaxBars,                         \* PriceStream
  LastSlot, Closed, ColdStart, PageSizes, Chunk, Years, PerDay, StoreStops,  \* CandleStore
  Downloads,
  RunnerRegimes, RunnerModels, Assigned, FeatureBars, MaxCandles, MaxTrades, MaxRetrains,
  LoadedModels, Snapshot, Cap, DayTicks, Cooldown, LastTick,          \* RotationScheduler
  OptionSets, CycleModels, MaxRounds,                                 \* FullCycle
  RegimeOrder, Seats, Fallback, Setups, Refresh, Patience, Tolerance, \* FactoryLoop
  Keys, TrialTime, Grace, LastHalfDay, MaxRows, MaxRestarts           \* Licensing

VARIABLE part  \* the part that moves
VARIABLES  \* of PriceStream
  keys, moves, on, refs, subs, counted, bar, bars_buffer, writing, table, at, bars_since,
  woken, heard
VARIABLES  \* of CandleStore
  store_page, store_now, candles, sync, download, store_stops
VARIABLES  \* of CommitteeRunner
  running, candle, runner_buffer, runner_models, trades, runner_since, retrain, count, swaps
VARIABLES  \* of RotationScheduler
  rotation_now, rotation_models, rotation_known, bad, blank, stamps, cool
VARIABLES  \* of FullCycle
  cycle_up, cycle_pc, opts, have, todo, training, pending, cycle_known, dir, status,
  cycle_results, flag, beating, fresh, cancel, caught
VARIABLES  \* of FactoryLoop
  setup, config, best, tests, history, arms, asked, factory_trial, done
VARIABLES  \* of Licensing
  licence_now, rows, licence_trial, cached, call, valid, restarts, last

Stream == INSTANCE PriceStream WITH MaxMoves <- KeyMoves,
  buffer <- bars_buffer, since <- bars_since

\* The loop is the only one that syncs.
Store == INSTANCE CandleStore WITH Syncs <- {"loop"}, MaxTime <- LastSlot,
  Lookback <- ColdStart, Pages <- PageSizes, MaxStops <- StoreStops, page <- store_page,
  now <- store_now, stops <- store_stops

Runner == INSTANCE CommitteeRunner WITH Regimes <- RunnerRegimes, Names <- RunnerModels,
  Lookback <- FeatureBars,
  buffer <- runner_buffer, models <- runner_models, since <- runner_since

Rotation == INSTANCE RotationScheduler WITH Committee <- LoadedModels, Day <- DayTicks,
  MaxTime <- LastTick, now <- rotation_now, models <- rotation_models,
  known <- rotation_known

Cycle == INSTANCE FullCycle WITH Models <- CycleModels, up <- cycle_up, pc <- cycle_pc,
  known <- cycle_known, results <- cycle_results

Factory == INSTANCE FactoryLoop WITH Committee <- Seats, trial <- factory_trial

Licence == INSTANCE Licensing WITH MaxTime <- LastHalfDay, now <- licence_now,
  trial <- licence_trial

bars     == <<keys, moves, on, refs, subs, counted, bar, bars_buffer, writing, table, at,
              bars_since, woken, heard>>
store    == <<store_page, store_now, candles, sync, download, store_stops>>
runner   == <<running, candle, runner_buffer, runner_models, trades, runner_since, retrain,
              count, swaps>>
rotation == <<rotation_now, rotation_models, rotation_known, bad, blank, stamps, cool>>
cycle    == <<cycle_up, cycle_pc, opts, have, todo, training, pending, cycle_known, dir,
              status, cycle_results, flag, beating, fresh, cancel, caught>>
factory  == <<setup, config, best, tests, history, arms, asked, factory_trial, done>>
licence  == <<licence_now, rows, licence_trial, cached, call, valid, restarts, last>>
suiteVars == <<part, bars, store, runner, rotation, cycle, factory, licence, shell, rental, news>>

DeskAssumption ==
  /\ Stream!StreamAssumption /\ Store!CandleAssumption /\ Runner!RunnerAssumption
  /\ Rotation!RotationAssumption /\ Cycle!CycleAssumption /\ Factory!FactoryAssumption
  /\ Licence!LicensingAssumption /\ RentalAssumption /\ NewsAssumption

----------------------------------------------------------------------------
(* One part moves, the others stand still: the parts share nothing.        *)
Parts == {"bars", "store", "runner", "rotation", "cycle", "factory", "licence", "shell", "rental", "archive"}

SuiteInit ==
  /\ part \in Parts
  /\ Stream!Init /\ Store!Init /\ Runner!Init /\ Rotation!Init /\ Cycle!Init /\ Factory!Init
  /\ Licence!Init /\ Init /\ RentalInit /\ NewsInit

SuiteNext ==
  /\ UNCHANGED part
  /\ \/ /\ part = "bars"     /\ Stream!Next
        /\ UNCHANGED <<store, runner, rotation, cycle, factory, licence, shell, rental, news>>
     \/ /\ part = "store"    /\ Store!Next
        /\ UNCHANGED <<bars, runner, rotation, cycle, factory, licence, shell, rental, news>>
     \/ /\ part = "runner"   /\ Runner!Next
        /\ UNCHANGED <<bars, store, rotation, cycle, factory, licence, shell, rental, news>>
     \/ /\ part = "rotation" /\ Rotation!Next
        /\ UNCHANGED <<bars, store, runner, cycle, factory, licence, shell, rental, news>>
     \/ /\ part = "cycle"    /\ Cycle!Next
        /\ UNCHANGED <<bars, store, runner, rotation, factory, licence, shell, rental, news>>
     \/ /\ part = "factory"  /\ Factory!Next
        /\ UNCHANGED <<bars, store, runner, rotation, cycle, licence, shell, rental, news>>
     \/ /\ part = "licence"  /\ Licence!Next
        /\ UNCHANGED <<bars, store, runner, rotation, cycle, factory, shell, rental, news>>
     \/ /\ part = "shell"    /\ Next
        /\ UNCHANGED <<bars, store, runner, rotation, cycle, factory, licence, rental, news>>
     \/ /\ part = "rental"   /\ RentalNext
        /\ UNCHANGED <<bars, store, runner, rotation, cycle, factory, licence, shell, news>>
     \/ /\ part = "archive"  /\ NewsNext
        /\ UNCHANGED <<bars, store, runner, rotation, cycle, factory, licence, shell, rental>>

Suite == SuiteInit /\ [][SuiteNext]_suiteVars

----------------------------------------------------------------------------
(* Properties: those of the parts.  ServiceHolds of the shell, MirrorIsTrue *)
(* of a rented run and ArchiveHolds of the news are in their own modules.   *)

\* Every part keeps the types of its state.
TypesOK == CASE part = "bars"     -> Stream!TypeOK
             [] part = "store"    -> Store!TypeOK
             [] part = "runner"   -> Runner!TypeOK
             [] part = "rotation" -> Rotation!TypeOK
             [] part = "cycle"    -> Cycle!TypeOK
             [] part = "factory"  -> Factory!TypeOK
             [] part = "licence"  -> Licence!TypeOK
             [] part = "shell"    -> TypeOK
             [] part = "rental"   -> RentalTypeOK
             [] part = "archive"  -> NewsTypeOK

\* The price stream of a pair runs as long as somebody uses it (while the keys of
\* the broker stay), feeds only its users, and wakes each waiting loop at the end
\* of each bar, whoever comes and goes meanwhile.  The candles have no hole
\* between the first and the last, whenever the server was stopped; only the last
\* may have been stored before it was over (while an answer has all of them); and
\* a download without an error is whole.
DataArrives ==
  /\ part = "bars"  => Stream!RefsAreUsers /\ Stream!FedAreThere /\ Stream!WokenEachBar
  /\ part = "store" => Store!NoHole /\ Store!FinalBehindNewest /\ Store!DownloadWhole

\* A model is judged by its own trades on bars in order, and never replaced by
\* an older one; rotations keep their cap and cool-down; and the factory's
\* committee is the best that was tested, each change of it an improvement.
CommitteesImprove ==
  /\ [](/\ Runner!JudgedByItsOwn /\ Runner!BufferInOrder /\ Rotation!RotationsCapped
        /\ Factory!BestIsBest /\ Factory!BestIsCurrent)
  /\ Runner!NewestStays /\ Rotation!CoolDownHeld
  /\ Factory!BestNeverFalls /\ Factory!GreedyClimbs

\* A cycle's phase only advances until its directory is gone, a cancelled one is
\* not overwritten, and one whose thread was caught stays gone.  A licence is
\* only said with a row, stored for a key the server takes, given up by a
\* deactivation and not refused within the grace period.
RecordsHold ==
  /\ [](Cycle!CaughtStaysGone /\ Cycle!SixIsWhole /\ Licence!ProHasRow)
  /\ Cycle!PhaseAdvances /\ Cycle!CancelledHolds
  /\ Licence!RowsAreValid /\ Licence!DeactivatedIsFree /\ Licence!GraceIsGiven

=============================================================================
