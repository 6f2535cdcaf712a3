SPECIFICATION EndpointSpec
CONSTANTS
  a = a
  b = b
  c = c
  d = d
  Jobs <- MCJobs2
  GpuJobs <- MCJobs2
  Budget = 1
  TotalVram = 2
  CpuSize = 1
  GpuSize = 1
  NewSizes <- MCTwo
  MaxExec = 4
  MaxCrash = 1
SYMMETRY Symmetry
INVARIANTS EndpointInv LiveIsTracked ReservationsCovered
PROPERTIES ImplementsService StartedOnce
CHECK_DEADLOCK FALSE
