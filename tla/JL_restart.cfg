\* A job of two pods: failed calls, dying workers and managers, orphans.
SPECIFICATION Spec
CONSTANTS
  j1 = j1
  j2 = j2
  c1 = c1
  c2 = c2
  None = None
  PodMoves <- PodsVanish
  Jobs = {j1}
  Roles = {"ps", "worker"}
  Clients = {c1}
  Preemptible = {}
  BadJobs = {}
  DebugJobs = {}
  MaxRetries = 2
  PoolSize = 2
  MaxOps = 1
  MaxFaults = 1
  MaxCrashes = 1
  MaxMishaps = 1
INVARIANTS
  OneTaskPerJob
  OneGangPerJob
