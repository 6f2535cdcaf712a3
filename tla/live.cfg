SPECIFICATION CheckedSuite
CONSTANTS
  Sessions <- LiveSessions
  Pnls <- LossOrGain
  HourTicks = 2
  DayTicks = 4
  WindowCap = 3
  Committees <- PaperOrLive
  Spread = 1
  Lot = 2
  Kinds <- SessionKinds
  MaxQueue = 3
  MaxTrades = 2
INVARIANTS TypesOK 
PROPERTIES OrdersSpaced  CommitteeHolds SessionHolds
CHECK_DEADLOCK FALSE
