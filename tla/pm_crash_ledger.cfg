SPECIFICATION Spec
CONSTANTS
  a = a
  b = b
  c = c
  d = d
  Jobs <- MCJobs3
  GpuJobs <- MCGpu3
  Budget = 1
  TotalVram = 2
  CpuSize = 1
  GpuSize = 2
  NewSizes <- MCNone
  MaxExec = 2
  MaxCrash = 1
SYMMETRY Symmetry
INVARIANT LedgerExact
CHECK_DEADLOCK FALSE
