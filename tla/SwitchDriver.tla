---------------------------- MODULE SwitchDriver ----------------------------
(***************************************************************************)
(* One switch and the sessions the agent holds with it, one after another: *)
(* the handlers of switch.provision, switch.port_admin,                    *)
(* switch.vlan_provision and switch.dhcp_relay                             *)
(* (agent/internal/executor/switch.go).  A session may be cut off after    *)
(* any of its commands: when its 30 s are over the handler answers an      *)
(* error, when the connection fails execSSH drops that error and the       *)
(* handler answers ok.  The switch may restart from the configuration it   *)
(* saved last.                                                             *)
(***************************************************************************)
EXTENDS SwitchCLI

CONSTANTS VendorName,     \* what the API may call the vendor of the switch
          PortRequest,    \* payloads of switch.provision
          InfraRequest,   \* payloads of switch.vlan_provision
          Interface,      \* interfaces that relay DHCP
          DHCPServer,
          Unknown

\* No interface here is the one of the VLAN of a switch.vlan_provision.
ASSUME DriverAssumption ==
  /\ PortRequest \subseteq PortSettings /\ InfraRequest \subseteq InfraSettings
  /\ Interface \subseteq Text \ {"port", "svi"} /\ DHCPServer \subseteq Nat \ {0}
  /\ Unknown \notin PortRequest /\ Unknown \notin InfraRequest
  /\ Unknown \notin DHCPServer /\ Unknown # 0

VARIABLES
  vendor,     \* the vendor of the switch
  edit,       \* the configuration commands change: the running one, or a candidate
  saved,      \* the one a restart comes back to; of JunOS and Cumulus the one in force
  port,       \* the port as last asked for and answered with success, Unknown when it has
              \* been disturbed since
  svi,        \* the VLAN's infrastructure, likewise
  relayTo,    \* the DHCP server asked for per interface, likewise; 0 after a removal
  lost        \* what was answered with success although the session lost its
              \* connection: of "port", "svi" and the interfaces

driverVars == <<vendor, edit, saved, port, svi, relayTo, lost>>

DriverTypeOK ==
  /\ vendor \in Vendors \union VendorName /\ lost \subseteq {"port", "svi"} \union Interface
  /\ {edit, saved} \subseteq Configuration
  /\ port \in PortRequest \union {Unknown}
  /\ svi \in InfraRequest \union {Unknown}
  /\ relayTo \in [Interface -> DHCPServer \union {0, Unknown}]

DriverInit ==
  /\ vendor \in {normalizeVendor(v) : v \in VendorName}
  /\ edit = Unconfigured
  /\ saved = Unconfigured
  /\ port = Unknown
  /\ svi = Unknown
  /\ relayTo = [i \in Interface |-> Unknown]
  /\ lost = {}

-----------------------------------------------------------------------------
\* A whole session, with the save or commit that ends it.
WholeSession(commands) ==
  /\ commands # <<>>
  /\ edit' = ExecSSH(edit, commands)
  /\ saved' = edit'
  /\ UNCHANGED vendor

\* A session that ends early: some of its commands were executed, none was saved.
Partial(commands) ==
  /\ commands # <<>>
  /\ \E k \in 0 .. Len(commands) : edit' = ExecSSH(edit, SubSeq(commands, 1, k))
  /\ UNCHANGED <<vendor, saved>>

\* Of an answer about x: its session went through, or was reported as an error; or it
\* lost its connection and was answered with success.
Held(x) == lost' = lost \ {x}
Lost(x) == lost' = lost \union {x}

\* HandleSwitchProvision looks at the port first, and answers no_change without a
\* session when nothing needs to change.  When the port cannot be shown it goes on.
Shown == parsePortConfig(vendor, edit)
Unneeded(p, shown) == CanShow(vendor) /\ ~portNeedsChange(p, shown)

Provision(p) ==
  /\ \/ Unneeded(p, Shown) /\ UNCHANGED <<vendor, edit, saved>>
     \/ WholeSession(ProvisionCommands(vendor, p))
  /\ port' = p
  /\ Held("port")
  /\ UNCHANGED <<svi, relayTo>>

\* The first session or the second is cut off.
ProvisionCutOff(p) ==
  /\ \/ /\ Unneeded(p, CutShort(Shown))
        /\ UNCHANGED <<vendor, edit, saved>>
        /\ port' = p /\ Lost("port")
     \/ /\ Partial(ProvisionCommands(vendor, p))
        /\ \/ port' = Unknown /\ Held("port")
           \/ port' = p       /\ Lost("port")
  /\ UNCHANGED <<svi, relayTo>>

\* HandleSwitchPortAdmin.
PortAdmin(status) ==
  /\ LET commands == PortAdminCommands(vendor, status)
     IN WholeSession(commands) \/ Partial(commands)
  /\ port' = Unknown
  /\ Held("port")
  /\ UNCHANGED <<svi, relayTo>>

\* HandleSwitchVLANProvision, of a dry run nothing.
VLANProvision(p) ==
  LET commands == VLANProvisionCommands(vendor, p)
  IN /\ \/ WholeSession(commands) /\ svi' = p /\ Held("svi")
        \/ Partial(commands) /\ \/ svi' = Unknown /\ Held("svi")
                                \/ svi' = p       /\ Lost("svi")
     /\ UNCHANGED <<port, relayTo>>

\* HandleSwitchDHCPRelay.
DHCPRelay(i, s, remove) ==
  LET commands == DHCPRelayCommands(vendor, i, s, remove)
      outcome  == IF remove THEN 0 ELSE s
  IN /\ remove => relayTo[i] = s
     /\ \/ WholeSession(commands) /\ relayTo' = [relayTo EXCEPT ![i] = outcome] /\ Held(i)
        \/ Partial(commands) /\ \/ relayTo' = [relayTo EXCEPT ![i] = Unknown] /\ Held(i)
                                \/ relayTo' = [relayTo EXCEPT ![i] = outcome] /\ Lost(i)
     /\ UNCHANGED <<port, svi>>

\* The switch restarts, and forgets what was never saved.
Restart ==
  /\ edit # saved
  /\ edit' = saved
  /\ port' = Unknown /\ Held("port")
  /\ UNCHANGED <<vendor, saved, svi, relayTo>>

PortNext  == \/ \E p \in PortRequest : Provision(p) \/ ProvisionCutOff(p)
             \/ \E s \in {"up", "down"} : PortAdmin(s)
VLANNext  == \E p \in InfraRequest : VLANProvision(p)
RelayingNext == \E i \in Interface, s \in DHCPServer, remove \in BOOLEAN : DHCPRelay(i, s, remove)

DriverNext == PortNext \/ VLANNext \/ RelayingNext \/ Restart

DriverSpec == DriverInit /\ [][DriverNext]_driverVars

-----------------------------------------------------------------------------
(* Properties.                                                             *)

\* Whatever was configured on the port before, by sessions cut off half-way too, a
\* switch with switchport modes has the port as it was asked for after a provisioning
\* answered with success, until something else is done to it or the switch restarts:
\* applied, or found to be so.  The connection must have held: execSSH takes the
\* failure of a connection for the end of the session.  (The other vendors
\* accumulate VLANs, and a request with another port mode is not compared.  A request
\* for access mode without a VLAN asks Satisfies for no mode: generateCiscoPortModeCmds
\* sends no switchport command for it, switch.go:445-448, and a trunk stays a trunk.)
LastProvisionWins ==
  vendor \in SwitchportCLI /\ port # Unknown /\ "port" \notin lost /\ port.mode \in PortModes =>
    Satisfies(edit, port)

\* The SVI of a VLAN has the VRF, address and relay asked for after a success whose
\* session kept its connection, whatever VRF and address it had and whatever sessions
\* before it were cut off: moving it to a VRF does not cost it its address.
SviAsAsked ==
  svi # Unknown /\ "svi" \notin lost =>
    /\ svi.vlan \in saved.vlans
    /\ svi.gateway # 0 => /\ saved.ip = svi.gateway /\ saved.up
                          /\ svi.vrf # 0 => saved.vrf = svi.vrf
                          /\ svi.dhcp # 0 => svi.dhcp \in Relays(vendor, saved, "svi")

\* An interface relays to the server it was given, in a session that kept its
\* connection, until that is removed, whatever is done to the other interfaces, and
\* to none once it is.  (Cumulus keeps one list of servers for all interfaces, and a
\* removal takes it from all of them.)
RelaysAsAsked ==
  \A i \in Interface \ lost :
    /\ relayTo[i] \in DHCPServer /\ vendor # "cumulus" => relayTo[i] \in Relays(vendor, saved, i)
    /\ relayTo[i] = 0 /\ vendor \in Commits => Relays(vendor, saved, i) = {}

\* The two promises about layer 3, each in its own settings.  Both exempt what was
\* answered with success after its connection failed half-way: execSSH drops the error
\* (switch.go:403-405), and such an answer promises nothing.
InfrastructureAsAsked == SviAsAsked /\ RelaysAsAsked

\* The driver leaves a port, whatever its state, as the template of the same
\* operation in the backend does, where there are VLANs to set.  (Not on SONiC,
\* where the driver adds trunk VLANs untagged and the template tagged, nor on
\* JunOS, where only the template sets access mode.)
DriverFollowsTemplates ==
  \A p \in PortRequest :
    vendor \in Vendors \ {"sonic", "junos"} /\ p.admin = "up" =>
      /\ p.mode = "access" /\ p.vlan > 0 =>
           ExecSSH(edit, ProvisionCommands(vendor, p))
             = ExecSSH(edit, Template(vendor, "provision_access", p))
      /\ p.mode = "trunk" /\ p.trunk # {} =>
           ExecSSH(edit, ProvisionCommands(vendor, p))
             = ExecSSH(edit, Template(vendor, "provision_trunk", p))
=============================================================================
