SPECIFICATION Spec
CONSTANTS
  a = a
  b = b
  c = c
  d = d
  Jobs <- MCJobs2
  GpuJobs <- MCGpu2
  Budget = 1
  TotalVram = 1
  CpuSize = 1
  GpuSize = 1
  NewSizes <- MCTwo
  MaxExec = 4
  MaxCrash = 1
SYMMETRY Symmetry
INVARIANTS OnePlace
CHECK_DEADLOCK FALSE
