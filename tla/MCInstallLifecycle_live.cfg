\* One call; the handlers of three reports overlap.
SPECIFICATION FairSpec
CONSTANTS
  p1 = p1
  p2 = p2
  None = None
  Call <- MCOneCall
  Script <- UnknownScript
  MaxIPs = 1
\* Every call, event and clean-up may have ended.
CHECK_DEADLOCK FALSE
PROPERTIES
  TasksLeavePending
  CompletedIsCleaned
