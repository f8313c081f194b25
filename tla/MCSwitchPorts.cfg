SPECIFICATION Spec
CONSTANTS
  Port = {p1}
  Server = {s1}
  Payload <- MCPayload
  Stored <- MCStored
  Found <- MCFound
  Elsewhere = {30}
  Vendor = "cisco_ios"
  MaxRequests = 2
  None = None
INVARIANTS
  TypeOK
  AnsweredIsDone
PROPERTIES
  WritesOnlyItsField
  RowsConverge
CHECK_DEADLOCK FALSE
