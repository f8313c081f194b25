---------------------------- MODULE MCSwitchPorts ----------------------------
(* One port, two requests of operators at once, and the ticker.            *)
EXTENDS SwitchPorts

PutRow(mode, vlan, native, trunk, admin) ==
  [server |-> None, mode |-> mode, vlan |-> vlan, native |-> native, trunk |-> trunk, admin |-> admin,
   polled |-> FALSE]

MCPayload == {PutRow("", 10, 0, {}, ""), PutRow("trunk_native", 0, 30, {10}, "up")}

MCStored == {[PutRow("access", 20, 0, {}, "up") EXCEPT !.polled = TRUE]}
MCFound == {[Unconfigured EXCEPT !.mode = "trunk", !.native = 20, !.trunk = {10}]}
=============================================================================
