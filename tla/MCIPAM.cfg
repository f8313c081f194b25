\* Two goroutines, four requests of fourteen kinds, one change to a pool.
SPECIFICATION Spec
CONSTANTS
  c1 = c1
  c2 = c2
  s1 = s1
  s2 = s2
  lan = lan
  wan = wan
  None = None
  Call <- MCCalls
  Server <- MCServers
  Pool <- MCPools
  Host <- MCHosts
  Port = {1, 2}
  Vlan <- MCVlans
  Hosts <- HostsOf
  Gateway <- Gateways
  Network <- Networks
  LinkedTo <- Links
  Config <- MCConfigs
  Request <- MCRequests
  MaxRequests = 4
  MaxEdits = 1
SYMMETRY MCSymmetry
\* Every request may have returned.
CHECK_DEADLOCK FALSE
INVARIANTS
  TypeOK
  GatewayKept
  PortsFollowAddresses
PROPERTIES
  AssignsAlone
