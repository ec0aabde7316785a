\* Two endpoints, two places, a watcher and a submitter; three moves of the job,
\* its pod and its managers, a request, a failure or a death, but four of these.
SPECIFICATION FairSpec
CONSTANTS
  ssh = ssh
  jupyter = jupyter
  n1 = n1
  n2 = n2
  c1 = c1
  w1 = w1
  s1 = s1
  manager = manager
  None = None
  Endpoints = {ssh, jupyter}
  Ssh = {ssh}
  Begun = {ssh}
  Places = {n1, n2}
  Home = n1
  Clients = {c1}
  Watchers = {w1}
  Submitters = {s1}
  Manager = manager
  MaxMoves = 3
  MaxAsks = 1
  MaxMishaps = 1
  MaxEvents = 4
INVARIANTS
  TypeOK
  StoppedWasDead
PROPERTIES
  PendingServed
  RecordFollowsPod
  DeadEndpointsClosed
