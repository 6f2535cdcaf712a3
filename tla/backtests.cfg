SPECIFICATION Suite
CONSTANTS
  a = a
  b = b
  c = c
  d = d
  Jobs <- BothJobs
  Config <- SameConfig
  KeysSorted = TRUE
  Posix = FALSE
  MaxRestart = 1
  MaxDeath = 1
  FinalIndex = 1
  Keep = 1
  MaxDrops = 1
  MaxReloads = 0
  MonitorOpen = TRUE
  BridgeLines = {"progress", "callback"}
  MaxPrinted = 4
  MaxErr = 2
  OutPipe = 2
  ErrPipe = 2
  WorkJobs <- TwoWorkers
  Names <- ModelsOfTwo
  Repeats <- RepeatsOfTwo
  Trials = 2
  Periods = 2
  Capacity = 3
  MaxLines = 7
  Walks <- OneOfEach
  Months = 4
  Bars = 4
  Lead = 2
  Span = 1
  Session = {1, 2, 3}
  Warm = 1
  Ret <- Returns
  Wide = {10, 13}
  Fee = 1
  Signals <- MonthSignals
  Target = 3
  Radius = 3
  Floor = 60
  Interval = 3
  Block = 2
SYMMETRY Symmetry
INVARIANTS TypesOK  ShownOnce MonthsFollow WalkHolds
PROPERTIES WorkerReports StopsHold UsesService
CHECK_DEADLOCK FALSE
