\* Two jobs and one worker; no template exists for the second.
SPECIFICATION Spec
CONSTANTS
  j1 = j1
  j2 = j2
  c1 = c1
  c2 = c2
  None = None
  PodMoves <- PodsVanish
  Jobs = {j1, j2}
  Roles = {"master"}
  Clients = {c1}
  Preemptible = {}
  BadJobs = {j2}
  DebugJobs = {}
  MaxRetries = 2
  PoolSize = 1
  MaxOps = 1
  MaxFaults = 1
  MaxCrashes = 0
  MaxMishaps = 1
INVARIANTS
  Provenance
PROPERTIES
  PipelineOrder
  ImplementsContract
