\* Two calls at the same time.
SPECIFICATION Spec
CONSTANTS
  p1 = p1
  p2 = p2
  None = None
  Call <- MCCalls
  Script <- NoStatus
  MaxIPs = 1
SYMMETRY MCSymmetry
\* Every call, event and clean-up may have ended.
CHECK_DEADLOCK FALSE
INVARIANTS
  AtMostOneActiveTask
