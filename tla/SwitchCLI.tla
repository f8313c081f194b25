------------------------------ MODULE SwitchCLI ------------------------------
(***************************************************************************)
(* The commands the agent sends to switches, and what they do there.       *)
(*   agent/internal/executor/switch.go          the driver of six vendors  *)
(*   backend/internal/domain/switch_templates.go   the commands the        *)
(*                              backend documents for the same operations  *)
(* A command is abstracted to the setting it assigns, extends or removes   *)
(* from; prompts, names, descriptions and speeds are left out.  What a     *)
(* switch makes of a command is not in this repository: Execute says what  *)
(* the driver takes for granted.  Pure operators: SwitchDriver and         *)
(* SwitchPorts put them to work.                                           *)
(***************************************************************************)
EXTENDS Naturals, Sequences

\* The configuration of one switch, of a port, an SVI and its DHCP relays.
\* An absent VLAN, address or VRF is 0.
Unconfigured ==
  [mode |-> "access", access |-> 1, native |-> 1, trunk |-> {}, untagged |-> {}, down |-> FALSE,
   vlans |-> {1}, vrf |-> 0, ip |-> 0, up |-> FALSE, helpers |-> {},
   relays |-> {}, servers |-> {}]

\* Names and texts nobody checks.  They are strings, the literals too: that they are is
\* spelled out for the provers, which do not know.
Text == STRING \union {"svi", "access", "up", "down"}

Configuration ==
  [mode : {"access", "trunk"}, access : Nat, native : Nat, trunk : SUBSET Nat,
   untagged : SUBSET Nat, down : BOOLEAN, vlans : SUBSET Nat, vrf : Nat, ip : Nat,
   up : BOOLEAN, helpers : SUBSET (Text \X Nat), relays : SUBSET Text, servers : SUBSET Nat]

\* What is asked of a port, and of the infrastructure of a VLAN.  The mode of a port
\* and its status are texts nobody checks; the driver knows three modes.
PortSettings  == [mode : Text, vlan : Nat, native : Nat, trunk : SUBSET Nat, admin : Text]
PortModes     == {"access", "trunk", "trunk_native"}
InfraSettings == [vlan : Nat, gateway : Nat, vrf : Nat, dhcp : Nat]

Vendors  == {"cisco_ios", "cisco_nxos", "arista_eos", "junos", "sonic", "cumulus"}

\* The vendors whose CLI has switchport and interface modes.
SwitchportCLI == {"cisco_ios", "cisco_nxos", "arista_eos"}

\* Vendors that edit a candidate configuration, which takes effect with a commit.
Commits == {"junos", "cumulus"}

\* normalizeVendor: the names of the API for the vendors of the driver.
normalizeVendor(name) ==
  CASE name \in {"cisco", "cisco_ios"}           -> "cisco_ios"
    [] name \in {"cisco_nxos", "nxos", "nexus"}  -> "cisco_nxos"
    [] name \in {"juniper", "junos"}             -> "junos"
    [] name \in {"arista", "arista_eos"}         -> "arista_eos"
    [] OTHER                                     -> name

-----------------------------------------------------------------------------
(* What a command does.                                                    *)

Set(field, value) == [verb |-> "set", field |-> field, value |-> value]
Add(field, value) == [verb |-> "add", field |-> field, value |-> value]
Del(field, value) == [verb |-> "del", field |-> field, value |-> value]

When(condition, commands) == IF condition THEN commands ELSE <<>>

\* A switch drops the address of an interface that moves to another VRF.
Execute(config, c) ==
  CASE c.field = "vrf"  -> [config EXCEPT !.vrf = c.value,
                                          !.ip = IF config.vrf = c.value THEN @ ELSE 0]
    [] c.verb = "set" /\ c.field # "vrf" -> [config EXCEPT ![c.field] = c.value]
    [] c.verb = "add"   -> [config EXCEPT ![c.field] = @ \union c.value]
    [] c.verb = "del"   -> [config EXCEPT ![c.field] = @ \ c.value]

\* execSSH: the commands of a batch in their order, in one session.
ExecSSH(config, commands) ==
  LET after[n \in 0 .. Len(commands)] ==
        IF n = 0 THEN config ELSE Execute(after[n - 1], commands[n])
  IN after[Len(commands)]

-----------------------------------------------------------------------------
(* Provisioning a port: what is asked for, and the commands for it.        *)

\* Fault: the mode is set with the native VLAN only.
CiscoPortModeNoTrunk(p) ==
  CASE p.mode \in {"trunk", "trunk_native"} ->
         When(p.native > 0, <<Set("mode", "trunk"), Set("native", p.native)>>)
           \o When(p.trunk # {}, <<Set("trunk", p.trunk)>>)
    [] OTHER -> When(p.vlan > 0, <<Set("mode", "access"), Set("access", p.vlan)>>)

\* generateCiscoPortModeCmds.
CiscoPortMode(p) ==
  CASE p.mode = "trunk" ->
         <<Set("mode", "trunk")>> \o When(p.trunk # {}, <<Set("trunk", p.trunk)>>)
    [] p.mode = "trunk_native" ->
         <<Set("mode", "trunk")>> \o When(p.native > 0, <<Set("native", p.native)>>)
                                  \o When(p.trunk # {}, <<Set("trunk", p.trunk)>>)
    [] OTHER -> When(p.vlan > 0, <<Set("mode", "access"), Set("access", p.vlan)>>)

\* The members of a VLAN accumulate, and access mode is never set.
JunosPortMode(p) ==
  CASE p.mode = "trunk" -> <<Set("mode", "trunk"), Add("trunk", p.trunk)>>
    [] p.mode = "trunk_native" ->
         <<Set("mode", "trunk")>> \o When(p.native > 0, <<Set("native", p.native)>>)
                                  \o <<Add("trunk", p.trunk)>>
    [] OTHER -> When(p.vlan > 0, <<Add("trunk", {p.vlan})>>)

\* Access VLANs are added as members as they come, trunk VLANs as untagged members.
SonicPortMode(p) ==
  CASE p.mode = "trunk" -> <<Add("untagged", p.trunk)>>
    [] OTHER -> When(p.vlan > 0, <<Add("trunk", {p.vlan})>>)

CumulusPortMode(p) ==
  CASE p.mode = "trunk" -> <<Add("trunk", p.trunk)>>
    [] p.mode = "trunk_native" ->
         When(p.native > 0, <<Set("native", p.native)>>) \o <<Add("trunk", p.trunk)>>
    [] OTHER -> When(p.vlan > 0, <<Set("access", p.vlan)>>)

\* generateProvisionCommands, without the save or commit that ends every batch;
\* none for a vendor the driver does not know.
ProvisionCommands(vendor, p) ==
  LET admin == <<Set("down", p.admin = "down")>>
  IN CASE vendor \in SwitchportCLI -> CiscoPortMode(p) \o admin
       [] vendor = "junos"         -> JunosPortMode(p) \o admin
       [] vendor = "sonic"         -> SonicPortMode(p) \o admin
       [] vendor = "cumulus"       -> CumulusPortMode(p) \o admin
       [] OTHER                    -> <<>>

\* generatePortAdminCommands.
PortAdminCommands(vendor, status) == When(vendor \in Vendors, <<Set("down", status = "down")>>)

\* parsePortConfig of what the switch shows.  Defaults are not shown, and of
\* JunOS's answer, which the same parser reads, nothing is understood.
NotShown == [mode |-> "", access |-> 0, native |-> 0, trunk |-> {}, down |-> FALSE]
parsePortConfig(vendor, config) ==
  IF vendor \in SwitchportCLI
  THEN [mode |-> config.mode, access |-> IF config.access = 1 THEN 0 ELSE config.access,
        native |-> IF config.native = 1 THEN 0 ELSE config.native,
        trunk |-> config.trunk, down |-> config.down]
  ELSE NotShown

\* A show whose connection fails is taken for what came of it.  It lacks its end,
\* where the shutdown stands, and perhaps more: settings that then seem to differ.
CutShort(shown) == [shown EXCEPT !.down = FALSE]

\* Fault: the native VLAN is not compared.
NeedsChangeButNative(p, current) ==
  \/ p.mode = "access" /\ (current.mode # "access" \/ (p.vlan > 0 /\ p.vlan # current.access))
  \/ p.mode \in {"trunk", "trunk_native"} /\ current.mode # "trunk"
  \/ p.mode \in {"trunk", "trunk_native"} /\ p.trunk # {} /\ p.trunk # current.trunk
  \/ (p.admin = "down") # current.down

\* portNeedsChange: a setting asked for differs from the one shown.  A port mode
\* that is none of the three is not compared.
portNeedsChange(p, current) ==
  \/ p.mode = "access" /\ (current.mode # "access" \/ (p.vlan > 0 /\ p.vlan # current.access))
  \/ p.mode \in {"trunk", "trunk_native"} /\ current.mode # "trunk"
  \/ p.mode \in {"trunk", "trunk_native"} /\ p.trunk # {} /\ p.trunk # current.trunk
  \/ p.mode = "trunk_native" /\ p.native > 0 /\ p.native # current.native
  \/ (p.admin = "down") # current.down

\* generateShowRunInterfaceCmd: the vendors whose configuration is looked at first.
CanShow(vendor) == vendor \in SwitchportCLI \union {"junos"}

\* A port is as asked, in the settings that were asked for.  Access mode without a VLAN
\* asks for no mode: the driver has no command for it.
Satisfies(config, p) ==
  /\ config.down = (p.admin = "down")
  /\ CASE p.mode \in {"trunk", "trunk_native"} ->
            /\ config.mode = "trunk"
            /\ p.trunk # {} => config.trunk = p.trunk
            /\ p.mode = "trunk_native" /\ p.native > 0 => config.native = p.native
       [] OTHER -> p.vlan > 0 => config.mode = "access" /\ config.access = p.vlan

-----------------------------------------------------------------------------
(* The infrastructure of a VLAN, and DHCP relays.                          *)

CreateVlan(p) == <<Add("vlans", {p.vlan})>>

\* Fault: the address first, the VRF after it.
CreateSviIpFirst(p) ==
  When(p.gateway # 0,
       <<Set("ip", p.gateway), Set("up", TRUE)>>
         \o When(p.vrf # 0, <<Set("vrf", p.vrf)>>)
         \o When(p.dhcp # 0, <<Add("helpers", {<<"svi", p.dhcp>>})>>))

\* The SVI with its VRF, address and relay.
CreateSvi(p) ==
  When(p.gateway # 0,
       When(p.vrf # 0, <<Set("vrf", p.vrf)>>)
         \o <<Set("ip", p.gateway), Set("up", TRUE)>>
         \o When(p.dhcp # 0, <<Add("helpers", {<<"svi", p.dhcp>>})>>))

\* The steps of the three vendors differ in syntax only.
AristaVLANProvision(p) == CreateVlan(p) \o CreateSvi(p)
NXOSVLANProvision(p)   == CreateVlan(p) \o CreateSvi(p)
IOSVLANProvision(p)    == CreateVlan(p) \o CreateSvi(p)
VLANProvisionCommands(vendor, p) ==
  CASE vendor = "arista_eos" -> AristaVLANProvision(p)
    [] vendor = "cisco_nxos" -> NXOSVLANProvision(p)
    [] vendor = "cisco_ios"  -> IOSVLANProvision(p)
    [] OTHER                 -> <<>>

\* generateDHCPRelayCommands: servers per interface, or per group of interfaces
\* (JunOS, always the group default here), or for all interfaces (Cumulus).
DHCPRelayCommands(vendor, interface, server, remove) ==
  CASE vendor \in SwitchportCLI \union {"sonic"} ->
         IF remove THEN <<Del("helpers", {<<interface, server>>})>>
                   ELSE <<Add("helpers", {<<interface, server>>})>>
    [] vendor = "junos" ->
         IF remove THEN <<Del("relays", {interface})>>
                   ELSE <<Add("relays", {interface}), Add("servers", {server})>>
    [] vendor = "cumulus" ->
         IF remove THEN <<Del("relays", {interface}), Del("servers", {server})>>
                   ELSE <<Add("relays", {interface}), Add("servers", {server})>>
    [] OTHER -> <<>>

\* The servers an interface relays to.
Relays(vendor, config, interface) ==
  IF vendor \in Commits
  THEN IF interface \in config.relays THEN config.servers ELSE {}
  ELSE {h[2] : h \in {x \in config.helpers : x[1] = interface}}

-----------------------------------------------------------------------------
(* The templates of the backend, for an access port and a trunk.  The      *)
(* others show, save, or touch nothing the driver provisions on a port.    *)

ciscoIOSTemplates(op, p) ==
  CASE op = "provision_access" -> <<Set("mode", "access"), Set("access", p.vlan), Set("down", FALSE)>>
    [] op = "provision_trunk"  -> <<Set("mode", "trunk"), Set("trunk", p.trunk), Set("down", FALSE)>>
    [] op = "vlan_create"      -> <<Add("vlans", {p.vlan})>>
    [] op = "vlan_delete"      -> <<Del("vlans", {p.vlan})>>
    [] op = "port_shutdown"    -> <<Set("down", TRUE)>>
    [] op = "port_no_shutdown" -> <<Set("down", FALSE)>>
    [] OTHER -> <<>>
ciscoNXOSTemplates(op, p) == ciscoIOSTemplates(op, p)
aristaEOSTemplates(op, p) == ciscoIOSTemplates(op, p)
junosTemplates(op, p) ==
  CASE op = "provision_access" -> <<Set("mode", "access"), Add("trunk", {p.vlan}), Set("down", FALSE)>>
    [] op = "provision_trunk"  -> <<Set("mode", "trunk"), Add("trunk", p.trunk), Set("down", FALSE)>>
    [] OTHER -> ciscoIOSTemplates(op, p)
sonicTemplates(op, p) ==
  CASE op = "provision_access" -> <<Add("trunk", {p.vlan}), Set("down", FALSE)>>
    [] op = "provision_trunk"  -> <<Add("trunk", p.trunk), Set("down", FALSE)>>
    [] OTHER -> ciscoIOSTemplates(op, p)
cumulusTemplates(op, p) ==
  CASE op = "provision_access" -> <<Set("access", p.vlan), Set("down", FALSE)>>
    [] op = "provision_trunk"  -> <<Add("trunk", p.trunk), Set("down", FALSE)>>
    [] OTHER -> ciscoIOSTemplates(op, p)

\* DefaultSwitchTemplates.
Template(vendor, op, p) ==
  CASE vendor = "cisco_ios"  -> ciscoIOSTemplates(op, p)
    [] vendor = "cisco_nxos" -> ciscoNXOSTemplates(op, p)
    [] vendor = "junos"      -> junosTemplates(op, p)
    [] vendor = "arista_eos" -> aristaEOSTemplates(op, p)
    [] vendor = "sonic"      -> sonicTemplates(op, p)
    [] vendor = "cumulus"    -> cumulusTemplates(op, p)
=============================================================================
