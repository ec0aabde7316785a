\* A kill of a running job that does not end in killed.
SPECIFICATION Spec
CONSTANTS
  j1 = j1
  j2 = j2
  c1 = c1
  c2 = c2
  None = None
  PodMoves <- PodsAll
  Jobs = {j1}
  Roles = {"master"}
  Clients = {c1}
  Preemptible = {}
  BadJobs = {}
  DebugJobs = {}
  MaxRetries = 2
  PoolSize = 2
  MaxOps = 1
  MaxFaults = 0
  MaxCrashes = 0
  MaxMishaps = 0
PROPERTIES
  KillOfRunningJobEndsKilled
