\* A job submitted earlier but queued later.
SPECIFICATION Spec
CONSTANTS
  a = a
  b = b
  c = c
  vc1 = vc1
  vc2 = vc2
  None = None
  Jobs = {a, b, c}
  VCs = {vc1}
  Resources <- GpuOnly
  Discounted <- Nothing
  Preemptible = {c}
  VcOf <- OneVc
  Need <- TwoGpu
  JobTime <- Times
  ClusterStatuses <- Rows3
  Priorities = {100}
  DefaultPriority = 100
  StartTime = 2
  MaxClock = 3
  MaxMoves = 2
  MaxFaults = 0
  MaxCrashes = 0
INVARIANTS
  SubmissionOrder
