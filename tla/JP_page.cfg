\* Two jobs and two of: an operation, a failed request or poll, a job set back.
SPECIFICATION FairSpec
CONSTANTS
  j1 = j1
  j2 = j2
  j3 = j3
  k1 = k1
  k2 = k2
  None = None
  Jobs = {j1, j2}
  Ops = {"pause", "kill"}
  Begun = "running"
  Clicks = {k1}
  BatchSize = 1
  MaxSetbacks = 1
  MaxClicks = 2
  MaxFaults = 1
  MaxEvents = 2
INVARIANTS
  TypeOK
PROPERTIES
  OnlyPickedAreOperated
  PageCatchesUp
