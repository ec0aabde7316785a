\* Two VCs, nodes and VCs that come and go, the discount.
SPECIFICATION Spec
CONSTANTS
  a = a
  b = b
  c = c
  vc1 = vc1
  vc2 = vc2
  None = None
  Jobs = {a, b, c}
  VCs = {vc1, vc2}
  Resources <- GpuCpu
  Discounted <- Cpu
  Preemptible = {c}
  VcOf <- VerdictVcs
  Need <- VerdictNeed
  JobTime <- Times
  ClusterStatuses <- VerdictRows
  Priorities = {100, 200}
  DefaultPriority = 100
  StartTime = 2
  MaxClock = 3
  MaxMoves = 2
  MaxFaults = 0
  MaxCrashes = 0
INVARIANTS
  TypeOK
  GreedyVerdict
  NoRoomLeft
PROPERTIES
  PreemptOnlyForRoom
