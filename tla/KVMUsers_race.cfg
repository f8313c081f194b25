SPECIFICATION UsersSpec
CONSTANTS
  Session = {s1, s2}
  Slot = {3, 4}
  None = None
INVARIANTS
  ActiveSessionHasUser
CHECK_DEADLOCK FALSE
