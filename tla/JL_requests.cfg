\* Two requests in flight at once, one failed API call.
SPECIFICATION Spec
CONSTANTS
  j1 = j1
  j2 = j2
  c1 = c1
  c2 = c2
  None = None
  PodMoves <- PodsFail
  Jobs = {j1}
  Roles = {"master"}
  Clients = {c1, c2}
  Preemptible = {j1}
  BadJobs = {}
  DebugJobs = {j1}
  MaxRetries = 2
  PoolSize = 2
  MaxOps = 2
  MaxFaults = 0
  MaxCrashes = 0
  MaxMishaps = 1
SYMMETRY Symmetry
INVARIANTS
  TypeOK
  KilledOnlyOnRequest
  PausedOnlyOnRequest
  NoPodsBeforeApproval
