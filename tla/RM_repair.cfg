\* Two nodes, a job, two errors and a mishap.
SPECIFICATION FairSpec
CONSTANTS
  n1 = n1
  n2 = n2
  j1 = j1
  j2 = j2
  None = None
  Nodes = {n1, n2}
  Jobs = {j1}
  Wide = {j1}
  MaxErrors = 2
  MaxMishaps = 1
INVARIANTS
  TypeOK
PROPERTIES
  NoJobRebooted
  UncordonNeedsBoot
  NodesComeBack
