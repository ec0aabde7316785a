\* Two jobs that take turns: is room used?
SPECIFICATION FairSpec
CONSTANTS
  a = a
  b = b
  c = c
  vc1 = vc1
  vc2 = vc2
  None = None
  Jobs = {a, b}
  VCs = {vc1}
  Resources <- GpuOnly
  Discounted <- Nothing
  Preemptible = {b}
  VcOf <- PairVc
  Need <- PairNeed
  JobTime <- PairTimes
  ClusterStatuses <- Rows3
  Priorities = {100}
  DefaultPriority = 100
  StartTime = 2
  MaxClock = 2
  MaxMoves = 2
  MaxFaults = 1
  MaxCrashes = 1
PROPERTIES
  RoomIsUsed
