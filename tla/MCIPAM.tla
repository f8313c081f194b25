------------------------------- MODULE MCIPAM -------------------------------
(***************************************************************************)
(* Instances of IPAM for TLC: a pool that automates the ports, one that    *)
(* does not, two servers with a port each on one switch.                   *)
(***************************************************************************)
EXTENDS IPAM, TLC

CONSTANTS c1, c2, s1, s2, lan, wan

MCCalls   == {c1, c2}
MCOneCall  == {c1}
MCSymmetry == Permutations(MCCalls)
MCServers == {s1, s2}
MCPools   == {lan, wan}
MCHosts   == 1 .. 4
MCVlans   == {10, 11}
HostsOf   == lan :> {1, 2, 3} @@ wan :> {4}
Gateways  == lan :> 1 @@ wan :> 4
Networks  == lan :> 1 @@ wan :> 2
Links     == 1 :> s1 @@ 2 :> s2

Plain     == [automation |-> FALSE, mode |-> "access", vlan |-> 0, range |-> {}]
Fixed     == [automation |-> TRUE, mode |-> "trunk", vlan |-> 0, range |-> {}]
Ranged    == [automation |-> TRUE, mode |-> "access", vlan |-> 0, range |-> {10, 11}]
NativeRange == [automation |-> TRUE, mode |-> "trunk_native", vlan |-> 0, range |-> {10, 11}]
MCConfigs == {Plain, Ranged, NativeRange}
NativeOnly == {NativeRange}

Assign(p, s, preview) == [op |-> "assign", pool |-> p, server |-> s, preview |-> preview]
Auto(ps, s) == [op |-> "auto", pools |-> ps, server |-> s, preview |-> FALSE]
Update(a, status, s) == [op |-> "update", addr |-> a, status |-> status, server |-> s]
Delete(a) == [op |-> "delete", addr |-> a]
Create(p, a, status, s) ==
  [op |-> "create", pool |-> p, addr |-> a, status |-> status, server |-> s]
GenerateIPs(p, reserve) == [op |-> "generate", pool |-> p, reserve |-> reserve]

MCRequests ==
  {GenerateIPs(lan, TRUE), GenerateIPs(wan, FALSE),
   Assign(lan, s1, FALSE), Assign(lan, s2, TRUE), Auto({lan, wan}, s1), Auto({wan}, s2),
   Update(1, "available", None), Update(2, "reserved", None), Update(2, None, s2),
   Update(3, "assigned", s1), Delete(2), Delete(3),
   Create(lan, 2, "assigned", s1), Create(wan, 3, "available", None)}
AssignRequests == {GenerateIPs(lan, TRUE), Assign(lan, s1, FALSE), Assign(lan, s2, FALSE)}
=============================================================================
