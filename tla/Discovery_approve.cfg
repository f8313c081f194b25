SPECIFICATION DiscoverySpec
CONSTANTS
  MaxSessions = 1
  Machine = {m1, m2}
  MaxDecisions = 2
CHECK_DEADLOCK FALSE
INVARIANT ApprovalCreates
