\* Addresses assigned to two servers from a pool with a range of VLANs for native VLANs,
\* one request at a time.
SPECIFICATION Spec
CONSTANTS
  c1 = c1
  c2 = c2
  s1 = s1
  s2 = s2
  lan = lan
  wan = wan
  None = None
  Call <- MCOneCall
  Server <- MCServers
  Pool <- MCPools
  Host <- MCHosts
  Port = {1, 2}
  Vlan <- MCVlans
  Hosts <- HostsOf
  Gateway <- Gateways
  Network <- Networks
  LinkedTo <- Links
  Config <- NativeOnly
  Request <- AssignRequests
  MaxRequests = 3
  MaxEdits = 0
\* Every request may have returned.
CHECK_DEADLOCK FALSE
INVARIANTS
  RangeVlansDistinct
