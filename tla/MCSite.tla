------------------------------- MODULE MCSite -------------------------------
(***************************************************************************)
(* The smaller machines of the site, which share no state: the users of a  *)
(* BMC, the relay of a KVM session, the switch driver with its ports,      *)
(* SVIs and DHCP relays, discovery with its sessions and its decisions,    *)
(* the rate limit, and access.  A behaviour is of one of them, its topic;  *)
(* the rest stays as it was.                                               *)
(***************************************************************************)
EXTENDS KVMUsers, KVMRelay, SwitchDriver, Discovery, RateLimit, Access

VARIABLE topic

\* A port has one request of each mode, or two, of which one shuts it down.
AskPort(mode, vlan, native, trunk, admin) ==
  [mode |-> mode, vlan |-> vlan, native |-> native, trunk |-> trunk, admin |-> admin]
MCPortRequest == {AskPort("access", 10, 0, {}, "up"), AskPort("access", 20, 0, {}, "down"),
                  AskPort("trunk", 0, 0, {10, 20}, "up"),
                  AskPort("trunk_native", 0, 20, {}, "up")}

\* An SVI without a VRF, with one and a relay, and a VLAN without an SVI.
AskInfra(vlan, gateway, vrf, dhcp) == [vlan |-> vlan, gateway |-> gateway, vrf |-> vrf, dhcp |-> dhcp]
MCInfraRequest == {AskInfra(10, 1, 0, 0), AskInfra(10, 1, 2, 7), AskInfra(20, 0, 0, 0)}

CONSTANTS s1, s2,  \* the sessions, interchangeable: s1 starts first
          r1, r2   \* the role the users have at first, and one that goes at most

-----------------------------------------------------------------------------
Other(vars) == UNCHANGED <<vars, topic>>

\* Operators come and go in slot 3, until a second session begins.  A session is stopped
\* before it is active, or work overlaps, not both.
MCUsers == /\ topic = "users"
           /\ \/ SessionNext
              \/ start[s2] = "idle" /\ (OperatorAdds(3) \/ OperatorRemoves(3))
           /\ start'[s2] # "idle" => start'[s1] # "idle"
           /\ overlap' => hurried' = {}
           /\ Other(<<relayVars, driverVars, discoveryVars, rateVars, accessVars>>)

MCRelay == /\ topic = "relay" /\ RelayNext
           /\ Other(<<usersVars, driverVars, discoveryVars, rateVars, accessVars>>)

\* The settings of a port, of an SVI and of the relays do not meet.
MCDriver == /\ \/ topic = "port" /\ PortNext
               \/ topic = "svi"  /\ VLANNext
               \/ topic = "dhcp" /\ RelayingNext
               \/ Restart
            /\ topic \in {"port", "svi", "dhcp"}
            /\ Other(<<usersVars, relayVars, discoveryVars, rateVars, accessVars>>)

\* Two sessions and their reports, or the reports of one and decisions about them.
MCDiscovery == /\ topic \in {"report", "decide"} /\ DiscoveryNext
               /\ topic = "report" => decide' = decide
               /\ topic = "decide" => status'[2] = "none"
               /\ Other(<<usersVars, relayVars, driverVars, rateVars, accessVars>>)

MCRate == /\ topic = "limit" /\ RateNext
          /\ Other(<<usersVars, relayVars, driverVars, discoveryVars, accessVars>>)

\* A role that changes gets no permission or the wildcard.
MCAccess == /\ topic = "access" /\ AccessNext
            /\ \A r \in Role : roles'[r] \in {roles[r], {}, {"*"}}
            /\ roles'[r2] = roles[r2] /\ Cardinality(access') <= 2
            /\ Other(<<usersVars, relayVars, driverVars, discoveryVars, rateVars>>)

siteVars == <<usersVars, relayVars, driverVars, discoveryVars, rateVars, accessVars, topic>>

\* What the topic does not need of the initial states of another machine is fixed.
MCInit ==
  /\ topic \in {"users", "relay", "port", "svi", "dhcp", "report", "decide", "limit", "access"}
  /\ UsersInit /\ RelayInit /\ DriverInit /\ DiscoveryInit /\ RateInit /\ AccessInit
  /\ bmc[4] = Empty /\ (topic # "users" => bmc[3] = Empty)
  /\ topic \notin {"port", "svi", "dhcp"} => vendor = "sonic"
  /\ users = [u \in User |-> [there |-> TRUE, active |-> TRUE, role |-> r1]]

MCNext == MCUsers \/ MCRelay \/ MCDriver \/ MCDiscovery \/ MCRate \/ MCAccess

\* The fairness of the relay, of whose actions it holds anyhow while none is enabled.
MCSpec == MCInit /\ [][MCNext]_siteVars /\ RelayFairness

-----------------------------------------------------------------------------
\* Each machine has the state its definitions take for granted: among it, that a relay
\* slot in the map is not done, that a browser that is relayed has an agent, and that
\* whoever runs in a KVM session can take its next step when its turn comes, which is
\* what the fairness of the relay is worth.
SiteOK == /\ UsersTypeOK /\ RelayTypeOK /\ RelayNobodyBlocks
          /\ DriverTypeOK /\ DiscoveryTypeOK /\ RateTypeOK /\ AccessTypeOK
=============================================================================
