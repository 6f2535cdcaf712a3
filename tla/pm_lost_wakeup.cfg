SPECIFICATION Spec
CONSTANTS
  a = a
  b = b
  c = c
  d = d
  Jobs <- MCJobs3
  GpuJobs <- MCNone
  Budget = 1
  TotalVram = 2
  CpuSize = 1
  GpuSize = 1
  NewSizes <- MCNone
  MaxExec = 2
  MaxCrash = 0
SYMMETRY Symmetry
INVARIANT NobodyWaitsAtRest
CHECK_DEADLOCK FALSE
