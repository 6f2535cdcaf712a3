SPECIFICATION EndpointFairSpec
CONSTANTS
  a = a
  b = b
  c = c
  d = d
  Jobs <- MCJobs1
  GpuJobs <- MCJobs1
  Budget = 1
  TotalVram = 1
  CpuSize = 1
  GpuSize = 1
  NewSizes <- MCNone
  MaxExec = 2
  MaxCrash = 0
PROPERTY AcceptedRuns
CHECK_DEADLOCK FALSE
