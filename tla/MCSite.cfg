SPECIFICATION MCSpec
CONSTANTS
  \* the BMC's users
  Session = {s1, s2}
  Slot = {3, 4}
  None = None
  \* the relay
  Browser = {b1, b2}
  \* the switch driver
  VendorName = {"nexus", "juniper", "sonic", "cumulus"}
  PortRequest <- MCPortRequest
  InfraRequest <- MCInfraRequest
  Interface = {"vlan10", "vlan20"}
  DHCPServer = {7}
  Unknown = Unknown
  \* discovery
  MaxSessions = 2
  Machine = {m1}
  MaxDecisions = 2
  \* the rate limit
  Requester = {q1, q2}
  MaxRequests = 2
  Window = 4
  MaxDelay = 1
  MaxClock = 6
  \* access
  User = {u1}
  Role = {r1, r2}
  Permission = {"view"}
  Login = {l1}
  AccessTTL = 2
  RefreshTTL = 3
  MaxTime = 3
  NoRole = NoRole
  r1 = r1
  r2 = r2
  s1 = s1
  s2 = s2
INVARIANTS
  SiteOK
  SerialSessionsTidy
  LastProvisionWins
  InfrastructureAsAsked
  DriverFollowsTemplates
  ReportsUnderOwnSession
  AgentTidy
  WindowHolds
  RevokedInTime
PROPERTIES
  OtherUsersKept
  ContainerEnds
  BrowserEndEndsAll
  DecisionStands
CHECK_DEADLOCK FALSE
