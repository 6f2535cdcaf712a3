SPECIFICATION Suite
CONSTANTS
  Lot = 2
  Cfgs <- PaperCfgs
  Bids <- PaperBids
  Spread = 1
  Atrs <- PaperAtrs
  MaxSignals = 5
INVARIANTS TypesOK BooksTrue PositionsExplained FoldsSound TrialsJudged
PROPERTIES  IsAnAccount
CHECK_DEADLOCK FALSE
