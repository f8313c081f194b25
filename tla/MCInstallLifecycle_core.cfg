\* Two calls; each install may complete or fail.
SPECIFICATION Spec
CONSTANTS
  p1 = p1
  p2 = p2
  None = None
  Call <- MCCalls
  Script <- LastStatus
  MaxIPs = 2
SYMMETRY MCSymmetry
\* Every call, event and clean-up may have ended.
CHECK_DEADLOCK FALSE
INVARIANTS
  TypeOK
  NotLeftProvisioning
  TasksAreStarted
  EventsFindATask
  NobodyBlocks
PROPERTIES
  LaterCallsRefused
  ActiveOnlyIfCompleted
