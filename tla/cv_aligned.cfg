SPECIFICATION Suite
CONSTANTS
  Lot = 2
  Cfgs <- PaperCfgs
  Bids <- PaperBids
  Spread = 1
  Atrs <- PaperAtrs
  MaxSignals = 5
INVARIANT Aligned
CHECK_DEADLOCK FALSE
