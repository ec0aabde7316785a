\* Requests, vanished and ended jobs over a failed call or a death.
SPECIFICATION FairSpec
CONSTANTS
  j1 = j1
  j2 = j2
  c1 = c1
  c2 = c2
  None = None
  PodMoves <- PodsEnd
  Jobs = {j1}
  Roles = {"master"}
  Clients = {c1}
  Preemptible = {}
  BadJobs = {}
  DebugJobs = {}
  MaxRetries = 1
  PoolSize = 2
  MaxOps = 1
  MaxFaults = 1
  MaxCrashes = 1
  MaxMishaps = 1
PROPERTIES
  NothingForgotten
  EndedJobsRelease
