SPECIFICATION FairSpec
CONSTANTS
  Workers = {w1, w2}
  Jobs = {j1, j2, j3}
  Server = Server
  NoOne = NoOne
  NoJob = NoJob
  Resets = {TRUE, FALSE}
INVARIANTS TypeOK WakePending
PROPERTIES ImplementsPool JobsCollected
CHECK_DEADLOCK FALSE
