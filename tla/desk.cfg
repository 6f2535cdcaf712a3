SPECIFICATION CheckedSuite
CONSTANTS
  None = None
  m1 = m1
  m2 = m2
  Charts = {"chart1", "chart2"}
  Loops = {"s1"}
  Streamed = TRUE
  KeyMoves = 2
  MaxBars = 3
  LastSlot = 6
  Closed = {4}
  ColdStart = 2
  PageSizes = {2, 7}
  Chunk = 2
  Years = 4
  PerDay = 2
  StoreStops = 1
  Downloads = TRUE
  RunnerRegimes <- UpOrFlat
  RunnerModels = {"svm", "mlp"}
  Assigned <- AssignedTo
  FeatureBars = 2
  MaxCandles = 2
  MaxTrades = 1
  MaxRetrains = 2
  LoadedModels <- TwoLoaded
  Snapshot <- FourInAll
  Cap = 2
  DayTicks = 3
  Cooldown = 2
  LastTick = 6
  OptionSets <- SomePhases
  CycleModels <- CycleModelsOfTwo
  MaxRounds = 2
  RegimeOrder <- RegimesInOrder
  Seats <- SeatsAtFirst
  Fallback <- OneFallback
  Setups <- Searches
  Refresh = 2
  Patience = 2
  Tolerance = 2
  Keys = {"k1", "k2"}
  TrialTime = 3
  Grace = 2
  LastHalfDay = 4
  MaxRows = 2
  MaxRestarts = 1
  Systems = {"windows", "other"}
  MaxRetries = 1
  Jobs = {"r1", "r2"}
  Pages = {"page"}
  MaxFaults = 1
  Fetchers = {"thread", "socket"}
  Window = 2
  Keep = 2
  Limit = 2
  MaxTime = 4
  MaxStops = 1
INVARIANTS TypesOK ServiceHolds DataArrives MirrorIsTrue
PROPERTIES  RecordsHold ArchiveHolds
CHECK_DEADLOCK FALSE
