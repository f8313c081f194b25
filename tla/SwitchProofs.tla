---------------------------- MODULE SwitchProofs ----------------------------
(***************************************************************************)
(* Proofs about what the agent's sessions leave on a switch: of a batch of *)
(* commands (SwitchCLI), of sessions one after another (SwitchDriver), and *)
(* of the sessions and the rows of the requests of operators that run side *)
(* by side (SwitchPorts).                                                  *)
(***************************************************************************)
EXTENDS SwitchPorts, SwitchDriver, WellFoundedInduction, SequenceTheorems, TLAPS

-----------------------------------------------------------------------------
(* A session executes its commands one after another.                      *)

\* The configurations of a session, before the first command and after each.
Session(g, config, commands) ==
  g = [n \in 0 .. Len(commands) |->
         IF n = 0 THEN config ELSE Execute(g[n - 1], commands[n])]

\* A nonempty set of numbers has a least one.
LEMMA LeastOf ==
  ASSUME NEW S, S \subseteq Nat, S # {}
  PROVE  \E x \in S : \A y \in S : x =< y
<1> DEFINE R == {p \in Nat \X Nat : p[1] < p[2]}
<1>1. IsWellFoundedOn(R, Nat)
  <2>1. R = OpToRel(<, Nat) BY DEF OpToRel
  <2> QED BY <2>1, NatLessThanWellFounded
<1>2. PICK x \in S : \A y \in S : ~(<<y, x>> \in R)
  <2> HIDE DEF R
  <2> QED BY <1>1, WFMin
<1>3. ASSUME NEW y \in S PROVE x =< y
  <2>1. x \in Nat /\ y \in Nat OBVIOUS
  <2>2. y < x => <<y, x>> \in R BY <2>1
  <2>3. ~(y < x) BY <1>2, <2>2
  <2> QED BY <2>1, <2>3
<1> QED BY <1>3

\* There are such configurations: were there a first command without, the one before
\* it would have a configuration to start from.
LEMMA SessionExists ==
  ASSUME NEW config, NEW commands, Len(commands) \in Nat
  PROVE  \E g : Session(g, config, commands)
<1> DEFINE Upto(g, m) ==
             g = [n \in 0 .. m |-> IF n = 0 THEN config ELSE Execute(g[n - 1], commands[n])]
           Missing == {m \in Nat : ~\E g : Upto(g, m)}
<1>1. SUFFICES ASSUME Missing # {} PROVE FALSE
  BY DEF Session
<1>2. PICK m \in Missing : \A k \in Missing : m =< k BY <1>1, LeastOf
<1>3. CASE m = 0
  <2> DEFINE g == [n \in 0 .. 0 |-> config]
  <2>1. g = [n \in 0 .. 0 |-> IF n = 0 THEN config ELSE Execute(g[n - 1], commands[n])]
    OBVIOUS
  <2>2. Upto(g, 0) BY <2>1
  <2> QED BY <1>3, <2>2
<1>4. CASE m # 0
  <2>1. m - 1 \in Nat /\ m - 1 \notin Missing
    <3>1. Missing \subseteq Nat OBVIOUS
    <3> HIDE DEF Missing
    <3> QED BY <1>2, <1>4, <3>1
  <2>2. PICK f : Upto(f, m - 1) BY <2>1
  <2> DEFINE g == [n \in 0 .. m |-> IF n = m THEN Execute(f[m - 1], commands[m]) ELSE f[n]]
  <2>3. ASSUME NEW n \in 0 .. m
        PROVE  g[n] = IF n = 0 THEN config ELSE Execute(g[n - 1], commands[n])
    <3>1. \A k \in 0 .. m - 1 :
            f[k] = IF k = 0 THEN config ELSE Execute(f[k - 1], commands[k])
      BY <2>2
    <3>2. CASE n = m BY <1>4, <2>1, <3>2
    <3>3. CASE n # m
      <4>1. n \in 0 .. m - 1 BY <3>3
      <4>2. n # 0 => n - 1 \in 0 .. m /\ n - 1 # m /\ g[n - 1] = f[n - 1] BY <4>1
      <4>3. g[n] = f[n] BY <4>1
      <4> HIDE DEF g
      <4> QED BY <3>1, <4>1, <4>2, <4>3
    <3> QED BY <3>2, <3>3
  <2>4. DOMAIN g = 0 .. m /\ g = [n \in DOMAIN g |-> g[n]] OBVIOUS
  <2> HIDE DEF g
  <2>5. Upto(g, m) BY <2>3, <2>4
  <2> QED BY <1>2, <2>5
<1> QED BY <1>3, <1>4

\* What a session leaves, by its configurations.
LEMMA SessionLeaves ==
  ASSUME NEW config, NEW commands, Len(commands) \in Nat
  PROVE  \E g : /\ g[0] = config
                /\ \A n \in 1 .. Len(commands) : g[n] = Execute(g[n - 1], commands[n])
                /\ ExecSSH(config, commands) = g[Len(commands)]
<1> DEFINE after[n \in 0 .. Len(commands)] ==
             IF n = 0 THEN config ELSE Execute(after[n - 1], commands[n])
<1>1. \E g : Session(g, config, commands) BY SessionExists
<1>2. Session(after, config, commands) BY <1>1 DEF Session
<1>3. ExecSSH(config, commands) = after[Len(commands)] BY DEF ExecSSH
<1> HIDE DEF after
<1>4. after[0] = config BY <1>2 DEF Session
<1>5. \A n \in 1 .. Len(commands) : after[n] = Execute(after[n - 1], commands[n])
  BY <1>2 DEF Session
<1> QED BY <1>3, <1>4, <1>5

\* A set of configurations that no command of a session leaves is not left by the session.
LEMMA SessionStays ==
  ASSUME NEW C, NEW config \in C, NEW S, NEW commands \in Seq(S),
         \A n \in 1 .. Len(commands) : \A x \in C : Execute(x, commands[n]) \in C
  PROVE  ExecSSH(config, commands) \in C
<1>1. Len(commands) \in Nat OBVIOUS
<1>2. PICK g : /\ g[0] = config
               /\ \A n \in 1 .. Len(commands) : g[n] = Execute(g[n - 1], commands[n])
               /\ ExecSSH(config, commands) = g[Len(commands)]
  BY <1>1, SessionLeaves
<1> DEFINE Left == {n \in Nat : n =< Len(commands) /\ g[n] \notin C}
<1>3. Left = {}
  <2>1. SUFFICES ASSUME Left # {} PROVE FALSE
    OBVIOUS
  <2>2. PICK m \in Left : \A k \in Left : m =< k BY <2>1, LeastOf
  <2>3. m # 0 BY <1>2
  <2>4. m - 1 \in Nat /\ m - 1 \notin Left
    <3>1. Left \subseteq Nat OBVIOUS
    <3> HIDE DEF Left
    <3> QED BY <2>2, <2>3, <3>1
  <2>5. g[m - 1] \in C /\ m \in 1 .. Len(commands) BY <1>1, <2>3, <2>4
  <2> QED BY <1>2, <2>5
<1> QED BY <1>1, <1>2, <1>3

\* A session of two commands executes the one and then the other.
LEMMA SessionOfTwo ==
  ASSUME NEW x, NEW s, Len(s) \in Nat
  PROVE  Len(s) = 2 => ExecSSH(x, s) = Execute(Execute(x, s[1]), s[2])
<1>1. PICK g : /\ g[0] = x
               /\ \A n \in 1 .. Len(s) : g[n] = Execute(g[n - 1], s[n])
               /\ ExecSSH(x, s) = g[Len(s)]
  BY SessionLeaves
<1>2. Len(s) = 2 => g[1] = Execute(g[0], s[1]) /\ g[2] = Execute(g[1], s[2]) BY <1>1
<1> QED BY <1>1, <1>2

\* A batch of none, of one, of two commands.
LEMMA SessionOf ==
  /\ \A x : ExecSSH(x, <<>>) = x
  /\ \A x, a : ExecSSH(x, <<a>>) = Execute(x, a)
  /\ \A x, a, b : ExecSSH(x, <<a, b>>) = Execute(Execute(x, a), b)
<1>1. ASSUME NEW x PROVE ExecSSH(x, <<>>) = x
  <2>1. Len(<<>>) = 0 OBVIOUS
  <2> QED BY <2>1, SessionLeaves
<1>2. ASSUME NEW x, NEW a PROVE ExecSSH(x, <<a>>) = Execute(x, a)
  <2>1. Len(<<a>>) = 1 /\ <<a>>[1] = a OBVIOUS
  <2> QED BY <2>1, SessionLeaves
<1>3. ASSUME NEW x, NEW a, NEW b PROVE ExecSSH(x, <<a, b>>) = Execute(Execute(x, a), b)
  <2>1. Len(<<a, b>>) = 2 /\ <<a, b>>[1] = a /\ <<a, b>>[2] = b OBVIOUS
  <2> QED BY <2>1, SessionOfTwo
<1> QED BY <1>1, <1>2, <1>3

\* One batch after another in a session is two sessions.
LEMMA SessionConcat ==
  ASSUME NEW config, NEW S, NEW s \in Seq(S), NEW t \in Seq(S)
  PROVE  ExecSSH(config, s \o t) = ExecSSH(ExecSSH(config, s), t)
<1> DEFINE u == s \o t
           mid == ExecSSH(config, s)
<1>1. /\ Len(s) \in Nat /\ Len(t) \in Nat /\ Len(u) = Len(s) + Len(t)
      /\ \A n \in 1 .. Len(s) : u[n] = s[n]
      /\ \A n \in 1 .. Len(t) : u[Len(s) + n] = t[n]
  OBVIOUS
<1> HIDE DEF u
<1>2. PICK f : /\ f[0] = config
               /\ \A n \in 1 .. Len(s) : f[n] = Execute(f[n - 1], s[n])
               /\ mid = f[Len(s)]
  BY <1>1, SessionLeaves
<1> HIDE DEF mid
<1>3. PICK g : /\ g[0] = mid
               /\ \A n \in 1 .. Len(t) : g[n] = Execute(g[n - 1], t[n])
               /\ ExecSSH(mid, t) = g[Len(t)]
  <2>1. Len(t) \in Nat BY <1>1
  <2> QED BY <2>1, SessionLeaves
<1>4. PICK h : /\ h[0] = config
               /\ \A n \in 1 .. Len(u) : h[n] = Execute(h[n - 1], u[n])
               /\ ExecSSH(config, u) = h[Len(u)]
  <2>1. Len(u) \in Nat BY <1>1
  <2> QED BY <2>1, SessionLeaves
<1> DEFINE First  == {n \in Nat : n =< Len(s) /\ h[n] # f[n]}
           Second == {n \in Nat : n =< Len(t) /\ h[Len(s) + n] # g[n]}
<1>5. First = {}
  <2>1. SUFFICES ASSUME First # {} PROVE FALSE
    OBVIOUS
  <2>2. PICK m \in First : \A k \in First : m =< k BY <2>1, LeastOf
  <2>3. m # 0 BY <1>2, <1>4
  <2>4. m - 1 \in Nat /\ m - 1 \notin First
    <3>1. First \subseteq Nat OBVIOUS
    <3> HIDE DEF First
    <3> QED BY <2>2, <2>3, <3>1
  <2>5. h[m - 1] = f[m - 1] /\ m \in 1 .. Len(s) /\ m \in 1 .. Len(u)
    BY <1>1, <2>3, <2>4
  <2> QED BY <1>1, <1>2, <1>4, <2>5
<1>6. Second = {}
  <2>1. SUFFICES ASSUME Second # {} PROVE FALSE
    OBVIOUS
  <2>2. PICK m \in Second : \A k \in Second : m =< k BY <2>1, LeastOf
  <2>3. m # 0 BY <1>1, <1>2, <1>3, <1>5
  <2>4. m - 1 \in Nat /\ m - 1 \notin Second
    <3>1. Second \subseteq Nat OBVIOUS
    <3> HIDE DEF Second
    <3> QED BY <2>2, <2>3, <3>1
  <2>5. /\ h[Len(s) + (m - 1)] = g[m - 1] /\ m \in 1 .. Len(t) /\ Len(s) + m \in 1 .. Len(u)
        /\ Len(s) + m - 1 = Len(s) + (m - 1)
    BY <1>1, <2>3, <2>4
  <2> QED BY <1>1, <1>3, <1>4, <2>5
<1>7. h[Len(u)] = g[Len(t)] BY <1>1, <1>6
<1> QED BY <1>3, <1>4, <1>7 DEF u, mid

-----------------------------------------------------------------------------
(* What the driver's commands do to a configuration.                       *)

\* The commands the driver makes: for a port, and for a VLAN and its relays.
PortCommand ==
  UNION {[verb : {"set"}, field : {"mode"}, value : {"access", "trunk"}],
         [verb : {"set"}, field : {"access", "native"}, value : Nat],
         [verb : {"set"}, field : {"down"}, value : BOOLEAN],
         [verb : {"set"}, field : {"trunk"}, value : SUBSET Nat],
         [verb : {"add", "del"}, field : {"trunk", "untagged"}, value : SUBSET Nat]}
LayerCommand ==
  UNION {[verb : {"set"}, field : {"vrf", "ip"}, value : Nat],
         [verb : {"set"}, field : {"up"}, value : BOOLEAN],
         [verb : {"add", "del"}, field : {"vlans", "servers"}, value : SUBSET Nat],
         [verb : {"add", "del"}, field : {"helpers"}, value : SUBSET (Text \X Nat)],
         [verb : {"add", "del"}, field : {"relays"}, value : SUBSET Text]}
Command == PortCommand \union LayerCommand

\* A command leaves a configuration.
LEMMA ExecuteType ==
  ASSUME NEW x \in Configuration, NEW c \in Command
  PROVE  Execute(x, c) \in Configuration
<1>1. CASE c \in PortCommand
  <2>1. CASE c.field \in {"mode", "access", "native", "down"}
    BY <1>1, <2>1 DEF PortCommand, Execute, Configuration
  <2>2. CASE c.field = "trunk" BY <1>1, <2>2 DEF PortCommand, Execute, Configuration
  <2>3. CASE c.field = "untagged" BY <1>1, <2>3 DEF PortCommand, Execute, Configuration
  <2> QED BY <1>1, <2>1, <2>2, <2>3 DEF PortCommand
<1>2. CASE c \in LayerCommand
  <2>1. CASE c.field \in {"ip", "up"} BY <1>2, <2>1 DEF LayerCommand, Execute, Configuration
  <2>2. CASE c.field = "vrf"
    <3>1. c.value \in Nat /\ c.verb = "set" BY <1>2, <2>2 DEF LayerCommand
    <3> DEFINE ip == IF x.vrf = c.value THEN x.ip ELSE 0
    <3>2. ip \in Nat BY DEF Configuration
    <3>3. Execute(x, c) = [x EXCEPT !.vrf = c.value, !.ip = ip]
      BY <2>2, <3>1 DEF Execute, Configuration
    <3> HIDE DEF ip
    <3> QED BY <3>1, <3>2, <3>3 DEF Configuration
  <2>3. CASE c.field = "vlans" BY <1>2, <2>3 DEF LayerCommand, Execute, Configuration
  <2>4. CASE c.field = "servers" BY <1>2, <2>4 DEF LayerCommand, Execute, Configuration
  <2>5. CASE c.field = "helpers" BY <1>2, <2>5 DEF LayerCommand, Execute, Configuration
  <2>6. CASE c.field = "relays" BY <1>2, <2>6 DEF LayerCommand, Execute, Configuration
  <2> QED BY <1>2, <2>1, <2>2, <2>3, <2>4, <2>5, <2>6 DEF LayerCommand
<1> QED BY <1>1, <1>2 DEF Command

\* A command changes the setting it names, and the VRF's the address.
LEMMA ExecuteKeeps ==
  ASSUME NEW x \in Configuration, NEW c \in Command
  PROVE  LET y == Execute(x, c)
         IN /\ c.field # "mode"     => y.mode = x.mode
            /\ c.field # "access"   => y.access = x.access
            /\ c.field # "native"   => y.native = x.native
            /\ c.field # "trunk"    => y.trunk = x.trunk
            /\ c.field # "down"     => y.down = x.down
            /\ c.field # "vlans"    => y.vlans = x.vlans
            /\ c.field # "vrf"      => y.vrf = x.vrf
            /\ c.field \notin {"ip", "vrf"} => y.ip = x.ip
            /\ c.field # "up"       => y.up = x.up
            /\ c.field # "helpers"  => y.helpers = x.helpers
            /\ c.field # "relays"   => y.relays = x.relays
            /\ c.field # "servers"  => y.servers = x.servers
<1> USE DEF Execute, Configuration
<1>1. CASE c.field = "vrf" BY <1>1
<1>2. CASE c.field # "vrf" /\ c.verb = "set" BY <1>2
<1>3. CASE c.field # "vrf" /\ c.verb = "add" BY <1>3
<1>4. CASE c.field # "vrf" /\ c.verb = "del" BY <1>4
<1>5. c.verb \in {"set", "add", "del"} BY DEF Command, PortCommand, LayerCommand
<1> HIDE DEF Execute, Configuration
<1> QED BY <1>1, <1>2, <1>3, <1>4, <1>5

\* The commands for a port, one by one.
LEMMA SetsMode ==
  ASSUME NEW x \in Configuration, NEW v \in {"access", "trunk"}
  PROVE  LET y == Execute(x, Set("mode", v))
         IN y \in Configuration /\ y.mode = v
BY DEF Execute, Set, Configuration

\* What the command for the access VLAN sets, and leaves.
LEMMA SetsAccess ==
  ASSUME NEW x \in Configuration, NEW v \in Nat
  PROVE  LET y == Execute(x, Set("access", v))
         IN y \in Configuration /\ y.mode = x.mode /\ y.access = v
BY DEF Execute, Set, Configuration

\* What the command for the native VLAN sets, and leaves.
LEMMA SetsNative ==
  ASSUME NEW x \in Configuration, NEW v \in Nat
  PROVE  LET y == Execute(x, Set("native", v))
         IN y \in Configuration /\ y.mode = x.mode /\ y.native = v
BY DEF Execute, Set, Configuration

\* What the command for the trunk's VLANs sets, and leaves.
LEMMA SetsTrunk ==
  ASSUME NEW x \in Configuration, NEW v \in SUBSET Nat
  PROVE  LET y == Execute(x, Set("trunk", v))
         IN y \in Configuration /\ y.mode = x.mode /\ y.native = x.native /\ y.trunk = v
BY DEF Execute, Set, Configuration

\* What the command for the administrative status sets, and leaves.
LEMMA SetsDown ==
  ASSUME NEW x \in Configuration, NEW v \in BOOLEAN
  PROVE  LET y == Execute(x, Set("down", v))
         IN /\ y \in Configuration /\ y.down = v /\ y.mode = x.mode /\ y.access = x.access
            /\ y.native = x.native /\ y.trunk = x.trunk
BY DEF Execute, Set, Configuration

\* Commands that are sent on a condition.
LEMMA SessionWhen ==
  ASSUME NEW x, NEW s, NEW b \in BOOLEAN
  PROVE  ExecSSH(x, When(b, s)) = IF b THEN ExecSSH(x, s) ELSE x
BY SessionOf DEF When

\* The commands of the driver have the types of commands for ports or for layer 3.
LEMMA CommandTypes ==
  /\ \A v \in {"access", "trunk"} : Set("mode", v) \in PortCommand
  /\ \A v \in Nat, f \in {"access", "native"} : Set(f, v) \in PortCommand
  /\ \A v \in BOOLEAN : Set("down", v) \in PortCommand
  /\ \A v \in SUBSET Nat : Set("trunk", v) \in PortCommand
  /\ \A v \in SUBSET Nat, f \in {"trunk", "untagged"} : Add(f, v) \in PortCommand
  /\ \A v \in Nat, f \in {"vrf", "ip"} : Set(f, v) \in LayerCommand
  /\ \A v \in BOOLEAN : Set("up", v) \in LayerCommand
  /\ \A v \in SUBSET Nat, f \in {"vlans", "servers"} :
       Add(f, v) \in LayerCommand /\ Del(f, v) \in LayerCommand
  /\ \A v \in SUBSET (Text \X Nat) :
       Add("helpers", v) \in LayerCommand /\ Del("helpers", v) \in LayerCommand
  /\ \A v \in SUBSET Text : Add("relays", v) \in LayerCommand /\ Del("relays", v) \in LayerCommand
BY DEF PortCommand, LayerCommand, Set, Add, Del

\* Batches, and their parts.
LEMMA CommandSequences ==
  ASSUME NEW S
  PROVE  /\ <<>> \in Seq(S)
         /\ \A a \in S : <<a>> \in Seq(S)
         /\ \A a, b \in S : <<a, b>> \in Seq(S)
         /\ \A s, t \in Seq(S) : s \o t \in Seq(S)
         /\ \A b \in BOOLEAN, s \in Seq(S) : When(b, s) \in Seq(S)
         /\ \A s \in Seq(S) : \A k \in 0 .. Len(s) : SubSeq(s, 1, k) \in Seq(S)
BY DEF When

\* Both are commands.
LEMMA CommandSets == Seq(PortCommand) \subseteq Seq(Command) /\ Seq(LayerCommand) \subseteq Seq(Command)
BY DEF Command

\* The driver's batches for a port are made of port commands.
LEMMA PortBatches ==
  ASSUME NEW p \in PortSettings, NEW v
  PROVE  /\ CiscoPortMode(p) \in Seq(PortCommand)
         /\ ProvisionCommands(v, p) \in Seq(PortCommand)
<1>1. p.vlan \in Nat /\ p.native \in Nat /\ p.trunk \in SUBSET Nat /\ {p.vlan} \in SUBSET Nat
  BY DEF PortSettings
<1> DEFINE down == p.admin = "down"
           vlanned == p.vlan > 0
           natived == p.native > 0
           trunked == p.trunk # {}
<1>2. /\ down \in BOOLEAN /\ vlanned \in BOOLEAN /\ natived \in BOOLEAN /\ trunked \in BOOLEAN
  OBVIOUS
<1> HIDE DEF down, vlanned, natived, trunked
<1>3. CiscoPortMode(p) \in Seq(PortCommand)
  BY <1>1, <1>2, CommandTypes, CommandSequences DEF CiscoPortMode, vlanned, natived, trunked
<1>4. JunosPortMode(p) \in Seq(PortCommand)
  BY <1>1, <1>2, CommandTypes, CommandSequences DEF JunosPortMode, vlanned, natived
<1>5. SonicPortMode(p) \in Seq(PortCommand)
  BY <1>1, <1>2, CommandTypes, CommandSequences DEF SonicPortMode, vlanned
<1>6. CumulusPortMode(p) \in Seq(PortCommand)
  BY <1>1, <1>2, CommandTypes, CommandSequences DEF CumulusPortMode, vlanned, natived
<1>7. <<Set("down", down)>> \in Seq(PortCommand)
  BY <1>2, CommandTypes, CommandSequences
<1>8. ProvisionCommands(v, p) \in Seq(PortCommand)
  BY <1>3, <1>4, <1>5, <1>6, <1>7, CommandSequences DEF ProvisionCommands, down
<1> QED BY <1>3, <1>8

\* The batch of a toggle is of commands for ports.
LEMMA ToggleBatch ==
  ASSUME NEW v, NEW status
  PROVE  PortAdminCommands(v, status) \in Seq(PortCommand)
<1> DEFINE off == status = "down"
           known == v \in Vendors
<1>1. off \in BOOLEAN /\ known \in BOOLEAN OBVIOUS
<1> HIDE DEF off, known
<1>2. <<Set("down", off)>> \in Seq(PortCommand) BY <1>1, CommandTypes, CommandSequences
<1> QED BY <1>1, <1>2, CommandSequences DEF PortAdminCommands, off, known

\* The mode commands of the vendors with switchport modes: whatever the port was, its
\* mode and what was asked for with it.
LEMMA CiscoModeSatisfies ==
  ASSUME NEW p \in PortSettings, NEW x \in Configuration
  PROVE  LET y == ExecSSH(x, CiscoPortMode(p))
         IN /\ y \in Configuration
            /\ CASE p.mode \in {"trunk", "trunk_native"} ->
                      /\ y.mode = "trunk"
                      /\ p.trunk # {} => y.trunk = p.trunk
                      /\ p.mode = "trunk_native" /\ p.native > 0 => y.native = p.native
                 [] OTHER -> p.vlan > 0 => y.mode = "access" /\ y.access = p.vlan
<1> DEFINE natived == p.native > 0
           trunked == p.trunk # {}
           setMode == <<Set("mode", "trunk")>>
           setNative == <<Set("native", p.native)>>
           setTrunk == <<Set("trunk", p.trunk)>>
           natives == When(natived, setNative)
           trunks == When(trunked, setTrunk)
           moded == setMode \o natives
           a == Execute(x, Set("mode", "trunk"))
           b == IF natived THEN Execute(a, Set("native", p.native)) ELSE a
<1>1. p.vlan \in Nat /\ p.native \in Nat /\ p.trunk \in SUBSET Nat
  BY DEF PortSettings
<1>2. /\ natived \in BOOLEAN /\ trunked \in BOOLEAN
      /\ natived = (p.native > 0) /\ trunked = (p.trunk # {})
  OBVIOUS
<1> HIDE DEF natived, trunked
<1>3. setMode \in Seq(PortCommand) /\ setNative \in Seq(PortCommand) /\ setTrunk \in Seq(PortCommand)
  BY <1>1, CommandTypes, CommandSequences
<1>4. a \in Configuration /\ a.mode = "trunk" BY SetsMode
<1>5. b \in Configuration /\ b.mode = "trunk" /\ (natived => b.native = p.native)
  <2> HIDE DEF a
  <2>1. LET y == Execute(a, Set("native", p.native))
        IN y \in Configuration /\ y.mode = a.mode /\ y.native = p.native
    BY <1>1, <1>4, SetsNative
  <2> QED BY <1>4, <2>1
<1>6. ExecSSH(x, setMode) = a BY SessionOf
<1> HIDE DEF a
<1>7. ExecSSH(a, setNative) = Execute(a, Set("native", p.native)) BY SessionOf
<1>8. \A y : ExecSSH(y, setTrunk) = Execute(y, Set("trunk", p.trunk)) BY SessionOf
<1> HIDE DEF setMode, setNative, setTrunk
<1>9. ExecSSH(a, natives) = b
  <2>1. ExecSSH(a, natives) = IF natived THEN ExecSSH(a, setNative) ELSE a BY <1>2, SessionWhen
  <2> QED BY <2>1, <1>7
<1>10. natives \in Seq(PortCommand) /\ trunks \in Seq(PortCommand) BY <1>2, <1>3, CommandSequences
<1> HIDE DEF b
<1>11. ASSUME NEW y \in Configuration
       PROVE  LET z == ExecSSH(y, trunks)
              IN /\ z \in Configuration /\ z.mode = y.mode /\ z.native = y.native
                 /\ trunked => z.trunk = p.trunk
  <2>1. LET z == Execute(y, Set("trunk", p.trunk))
        IN z \in Configuration /\ z.mode = y.mode /\ z.native = y.native /\ z.trunk = p.trunk
    BY <1>1, SetsTrunk
  <2>2. ExecSSH(y, trunks) = IF trunked THEN ExecSSH(y, setTrunk) ELSE y
    BY <1>2, SessionWhen
  <2> QED BY <1>2, <1>8, <2>1, <2>2
<1>12. CASE p.mode = "trunk"
  <2>1. CiscoPortMode(p) = setMode \o trunks
    BY <1>12 DEF CiscoPortMode, setMode, setTrunk, trunked
  <2> HIDE DEF trunks
  <2>2. ExecSSH(x, setMode \o trunks) = ExecSSH(a, trunks)
    BY <1>3, <1>6, <1>10, SessionConcat
  <2> QED BY <1>2, <1>4, <1>11, <1>12, <2>1, <2>2
<1>13. CASE p.mode = "trunk_native"
  <2>1. CiscoPortMode(p) = moded \o trunks
    BY <1>13 DEF CiscoPortMode, setMode, setNative, setTrunk, natived, trunked
  <2>2. moded \in Seq(PortCommand)
    <3> HIDE DEF natives
    <3> QED BY <1>3, <1>10, CommandSequences
  <2>3. ExecSSH(x, moded) = b
    <3> HIDE DEF natives
    <3> QED BY <1>3, <1>6, <1>9, <1>10, SessionConcat
  <2> HIDE DEF moded, trunks
  <2>4. ExecSSH(x, moded \o trunks) = ExecSSH(b, trunks)
    BY <1>10, <2>2, <2>3, SessionConcat
  <2> QED BY <1>2, <1>5, <1>11, <1>13, <2>1, <2>4
<1>14. CASE p.mode \notin {"trunk", "trunk_native"}
  <2> DEFINE vlanned == p.vlan > 0
             setAccess == <<Set("mode", "access"), Set("access", p.vlan)>>
             c == Execute(x, Set("mode", "access"))
             d == Execute(c, Set("access", p.vlan))
  <2>1. c \in Configuration /\ c.mode = "access" BY SetsMode
  <2>2. d \in Configuration /\ d.mode = "access" /\ d.access = p.vlan
    <3> HIDE DEF c
    <3> QED BY <1>1, <2>1, SetsAccess
  <2>3. ExecSSH(x, setAccess) = d BY SessionOf
  <2>4. vlanned \in BOOLEAN /\ vlanned = (p.vlan > 0) OBVIOUS
  <2>5. CiscoPortMode(p) = When(vlanned, setAccess) BY <1>14 DEF CiscoPortMode
  <2> HIDE DEF d, setAccess, vlanned
  <2>6. ExecSSH(x, When(vlanned, setAccess)) = IF vlanned THEN d ELSE x
    BY <2>3, <2>4, SessionWhen
  <2> QED BY <1>14, <2>2, <2>4, <2>5, <2>6
<1> QED BY <1>12, <1>13, <1>14

\* A provisioning leaves the port as it was asked for, whatever it was.
LEMMA ProvisionSatisfies ==
  ASSUME NEW p \in PortSettings, NEW x \in Configuration, NEW v \in SwitchportCLI
  PROVE  /\ ExecSSH(x, ProvisionCommands(v, p)) \in Configuration
         /\ Satisfies(ExecSSH(x, ProvisionCommands(v, p)), p)
<1> DEFINE down == p.admin = "down"
           setDown == <<Set("down", down)>>
           y == ExecSSH(x, CiscoPortMode(p))
           z == Execute(y, Set("down", down))
<1>1. ProvisionCommands(v, p) = CiscoPortMode(p) \o setDown
  BY DEF ProvisionCommands, SwitchportCLI
<1>2. down \in BOOLEAN /\ down = (p.admin = "down") OBVIOUS
<1> HIDE DEF down
<1>3. CiscoPortMode(p) \in Seq(PortCommand) /\ setDown \in Seq(PortCommand)
  BY <1>2, PortBatches, CommandTypes, CommandSequences
<1>4. ExecSSH(y, setDown) = z
  <2> HIDE DEF y
  <2> QED BY SessionOf
<1> HIDE DEF setDown
<1>5. ExecSSH(x, ProvisionCommands(v, p)) = z
  BY <1>1, <1>3, <1>4, SessionConcat
<1>6. y \in Configuration BY CiscoModeSatisfies
<1>7. /\ z \in Configuration /\ z.down = down /\ z.mode = y.mode /\ z.access = y.access
      /\ z.native = y.native /\ z.trunk = y.trunk
  <2> HIDE DEF y
  <2> QED BY <1>2, <1>6, SetsDown
<1> HIDE DEF z
<1> QED BY <1>2, <1>5, <1>7, CiscoModeSatisfies DEF Satisfies

\* A port that seems to need no change, shown whole, is as it was asked for.
LEMMA UnneededSatisfies ==
  ASSUME NEW p \in PortSettings, p.mode \in PortModes, NEW x \in Configuration,
         NEW v \in SwitchportCLI, ~portNeedsChange(p, parsePortConfig(v, x))
  PROVE  Satisfies(x, p)
<1>1. /\ x.mode \in {"access", "trunk"} /\ x.access \in Nat /\ x.native \in Nat
      /\ x.trunk \in SUBSET Nat /\ x.down \in BOOLEAN
      /\ p.vlan \in Nat /\ p.native \in Nat
  BY DEF Configuration, PortSettings
<1>2. LET shown == parsePortConfig(v, x)
      IN /\ shown.mode = x.mode /\ shown.trunk = x.trunk /\ shown.down = x.down
         /\ shown.access = (IF x.access = 1 THEN 0 ELSE x.access)
         /\ shown.native = (IF x.native = 1 THEN 0 ELSE x.native)
  BY DEF parsePortConfig
<1>3. (p.admin = "down") = x.down BY <1>1, <1>2 DEF portNeedsChange
<1>4. p.mode = "access" => x.mode = "access" /\ (p.vlan > 0 => x.access = p.vlan)
  BY <1>1, <1>2 DEF portNeedsChange
<1>5. p.mode \in {"trunk", "trunk_native"} =>
        /\ x.mode = "trunk"
        /\ p.trunk # {} => x.trunk = p.trunk
  BY <1>1, <1>2 DEF portNeedsChange
<1>6. p.mode = "trunk_native" /\ p.native > 0 => x.native = p.native
  BY <1>1, <1>2 DEF portNeedsChange
<1> QED BY <1>3, <1>4, <1>5, <1>6 DEF Satisfies, PortModes

\* Of a toggle.
LEMMA ToggleSets ==
  ASSUME NEW x \in Configuration, NEW v \in Vendors, NEW status
  PROVE  LET y == ExecSSH(x, PortAdminCommands(v, status))
         IN y \in Configuration /\ y.down = (status = "down")
<1> DEFINE off == status = "down"
<1>1. off \in BOOLEAN OBVIOUS
<1>2. PortAdminCommands(v, status) = <<Set("down", off)>> BY DEF PortAdminCommands, When
<1> HIDE DEF off
<1>3. ExecSSH(x, PortAdminCommands(v, status)) = Execute(x, Set("down", off))
  BY <1>2, SessionOf
<1>4. LET y == Execute(x, Set("down", off)) IN y \in Configuration /\ y.down = off
  BY <1>1, SetsDown
<1> QED BY <1>3, <1>4 DEF off

\* Any part of a batch leaves a configuration.
LEMMA SessionType ==
  ASSUME NEW x \in Configuration, NEW s \in Seq(Command)
  PROVE  /\ ExecSSH(x, s) \in Configuration
         /\ \A k \in 0 .. Len(s) : ExecSSH(x, SubSeq(s, 1, k)) \in Configuration
<1>1. \A t \in Seq(Command) : ExecSSH(x, t) \in Configuration
  <2>1. \A t \in Seq(Command) : \A n \in 1 .. Len(t) : t[n] \in Command
    OBVIOUS
  <2> QED BY <2>1, ExecuteType, SessionStays
<1> QED BY <1>1, CommandSequences

\* Commands for a port leave VLANs and relays alone, and the other way round.
LEMMA PortSessionKeeps ==
  ASSUME NEW x \in Configuration, NEW s \in Seq(PortCommand)
  PROVE  LET y == ExecSSH(x, s)
         IN /\ y \in Configuration
            /\ y.vlans = x.vlans /\ y.vrf = x.vrf /\ y.ip = x.ip /\ y.up = x.up
            /\ y.helpers = x.helpers /\ y.relays = x.relays /\ y.servers = x.servers
<1> DEFINE C == {y \in Configuration :
                   /\ y.vlans = x.vlans /\ y.vrf = x.vrf /\ y.ip = x.ip /\ y.up = x.up
                   /\ y.helpers = x.helpers /\ y.relays = x.relays /\ y.servers = x.servers}
<1>1. x \in C OBVIOUS
<1>2. ASSUME NEW y \in C, NEW c \in PortCommand PROVE Execute(y, c) \in C
  <2>1. c.field \in {"mode", "access", "native", "down", "trunk", "untagged"}
    BY DEF PortCommand
  <2> QED BY <2>1, ExecuteType, ExecuteKeeps DEF Command
<1>3. \A n \in 1 .. Len(s) : s[n] \in PortCommand OBVIOUS
<1> HIDE DEF C
<1>4. ExecSSH(x, s) \in C BY <1>1, <1>2, <1>3, SessionStays
<1> QED BY <1>4 DEF C

\* A layer 3 session leaves the settings of the ports alone.
LEMMA LayerSessionKeeps ==
  ASSUME NEW x \in Configuration, NEW s \in Seq(LayerCommand)
  PROVE  LET y == ExecSSH(x, s)
         IN /\ y \in Configuration
            /\ y.mode = x.mode /\ y.access = x.access /\ y.native = x.native
            /\ y.trunk = x.trunk /\ y.down = x.down
<1> DEFINE C == {y \in Configuration :
                   /\ y.mode = x.mode /\ y.access = x.access /\ y.native = x.native
                   /\ y.trunk = x.trunk /\ y.down = x.down}
<1>1. x \in C OBVIOUS
<1>2. ASSUME NEW y \in C, NEW c \in LayerCommand PROVE Execute(y, c) \in C
  <2>1. c.field \in {"vrf", "ip", "up", "vlans", "servers", "helpers", "relays"}
    BY DEF LayerCommand
  <2> QED BY <2>1, ExecuteType, ExecuteKeeps DEF Command
<1>3. \A n \in 1 .. Len(s) : s[n] \in LayerCommand OBVIOUS
<1> HIDE DEF C
<1>4. ExecSSH(x, s) \in C BY <1>1, <1>2, <1>3, SessionStays
<1> QED BY <1>4 DEF C

\* An interface with a server makes a set of one pair.
LEMMA HelperPairs == \A i \in Text, n \in Nat : {<<i, n>>} \in SUBSET (Text \X Nat)
<1> SUFFICES ASSUME NEW i \in Text, NEW n \in Nat PROVE <<i, n>> \in Text \X Nat
  OBVIOUS
<1> QED OBVIOUS

\* The batches for a VLAN and for a relay.
LEMMA LayerBatches ==
  /\ \A p \in InfraSettings : \A v : VLANProvisionCommands(v, p) \in Seq(LayerCommand)
  /\ \A i \in Text, n \in Nat : \A v, remove :
       DHCPRelayCommands(v, i, n, remove) \in Seq(LayerCommand)
<1>1. ASSUME NEW p \in InfraSettings PROVE CreateVlan(p) \o CreateSvi(p) \in Seq(LayerCommand)
  <2>1. p.vlan \in Nat /\ p.gateway \in Nat /\ p.vrf \in Nat /\ p.dhcp \in Nat
    BY DEF InfraSettings
  <2> DEFINE gatewayed == p.gateway # 0
             vrfed == p.vrf # 0
             relayed == p.dhcp # 0
             vrf == When(vrfed, <<Set("vrf", p.vrf)>>)
             ip == <<Set("ip", p.gateway), Set("up", TRUE)>>
             relay == When(relayed, <<Add("helpers", {<<"svi", p.dhcp>>})>>)
  <2>2. gatewayed \in BOOLEAN /\ vrfed \in BOOLEAN /\ relayed \in BOOLEAN OBVIOUS
  <2> HIDE DEF gatewayed, vrfed, relayed
  <2>3. {<<"svi", p.dhcp>>} \in SUBSET (Text \X Nat) /\ {p.vlan} \in SUBSET Nat
    <3>1. "svi" \in Text BY DEF Text
    <3>2. {<<"svi", p.dhcp>>} \in SUBSET (Text \X Nat) BY <2>1, <3>1, HelperPairs
    <3> QED BY <2>1, <3>2
  <2>4. Add("helpers", {<<"svi", p.dhcp>>}) \in LayerCommand BY <2>3, CommandTypes
  <2>5. Set("vrf", p.vrf) \in LayerCommand /\ Set("ip", p.gateway) \in LayerCommand
        /\ Set("up", TRUE) \in LayerCommand /\ Add("vlans", {p.vlan}) \in LayerCommand
    BY <2>1, <2>3, CommandTypes
  <2>6. vrf \in Seq(LayerCommand) /\ ip \in Seq(LayerCommand) /\ relay \in Seq(LayerCommand)
    BY <2>2, <2>4, <2>5, CommandSequences
  <2>7. CreateVlan(p) \in Seq(LayerCommand) BY <2>5, CommandSequences DEF CreateVlan
  <2>8. CreateSvi(p) = When(gatewayed, vrf \o ip \o relay)
    BY DEF CreateSvi, gatewayed, vrfed, relayed
  <2> HIDE DEF vrf, ip, relay
  <2> QED BY <2>2, <2>6, <2>7, <2>8, CommandSequences
<1>2. ASSUME NEW p \in InfraSettings, NEW v PROVE VLANProvisionCommands(v, p) \in Seq(LayerCommand)
  BY <1>1, CommandSequences
     DEF VLANProvisionCommands, AristaVLANProvision, NXOSVLANProvision, IOSVLANProvision
<1>3. ASSUME NEW i \in Text, NEW n \in Nat, NEW v, NEW remove
      PROVE  DHCPRelayCommands(v, i, n, remove) \in Seq(LayerCommand)
  <2>1. {<<i, n>>} \in SUBSET (Text \X Nat) /\ {i} \in SUBSET Text /\ {n} \in SUBSET Nat
    BY HelperPairs
  <2>2. /\ Add("helpers", {<<i, n>>}) \in LayerCommand /\ Del("helpers", {<<i, n>>}) \in LayerCommand
        /\ Add("relays", {i}) \in LayerCommand /\ Del("relays", {i}) \in LayerCommand
        /\ Add("servers", {n}) \in LayerCommand /\ Del("servers", {n}) \in LayerCommand
    BY <2>1, CommandTypes
  <2> QED BY <2>2, CommandSequences DEF DHCPRelayCommands
<1> QED BY <1>2, <1>3

-----------------------------------------------------------------------------
(* The driver: one session after another.                                  *)

\* Whatever session is held with the switch, and wherever it is cut off, the switch is left
\* with a configuration.
LEMMA WholeType ==
  ASSUME NEW s \in Seq(Command), {edit, saved} \subseteq Configuration, WholeSession(s)
  PROVE  edit' \in Configuration /\ saved' \in Configuration /\ vendor' = vendor
BY SessionType DEF WholeSession

\* A session cut off leaves configurations.
LEMMA PartialType ==
  ASSUME NEW s \in Seq(Command), {edit, saved} \subseteq Configuration, Partial(s)
  PROVE  edit' \in Configuration /\ saved' \in Configuration /\ vendor' = vendor
<1>1. PICK k \in 0 .. Len(s) : edit' = ExecSSH(edit, SubSeq(s, 1, k)) BY DEF Partial
<1> QED BY <1>1, SessionType DEF Partial

\* The configurations of the switch are configurations, and what was asked of it last is
\* one of the requests, or unknown: in every reachable state.
THEOREM DriverTypeCorrect == DriverSpec => []DriverTypeOK
<1> USE DriverAssumption
<1>1. DriverInit => DriverTypeOK
  <2> SUFFICES ASSUME DriverInit PROVE DriverTypeOK
    OBVIOUS
  <2>1. vendor \in Vendors \union VendorName
    BY DEF DriverInit, normalizeVendor, Vendors
  <2>2. Unconfigured \in Configuration BY DEF Unconfigured, Configuration
  <2> QED BY <2>1, <2>2 DEF DriverInit, DriverTypeOK
<1>2. DriverTypeOK /\ [DriverNext]_driverVars => DriverTypeOK'
  <2> SUFFICES ASSUME DriverTypeOK, [DriverNext]_driverVars PROVE DriverTypeOK'
    OBVIOUS
  <2>a. {edit, saved} \subseteq Configuration BY DEF DriverTypeOK
  <2>1. ASSUME NEW p \in PortRequest, Provision(p) PROVE DriverTypeOK'
    <3>1. ProvisionCommands(vendor, p) \in Seq(Command) BY PortBatches, CommandSets
    <3>2. edit' \in Configuration /\ saved' \in Configuration /\ vendor' = vendor
      BY <2>1, <2>a, <3>1, WholeType DEF Provision
    <3> QED BY <2>1, <3>2 DEF Provision, DriverTypeOK, Held
  <2>2. ASSUME NEW p \in PortRequest, ProvisionCutOff(p) PROVE DriverTypeOK'
    <3>1. ProvisionCommands(vendor, p) \in Seq(Command) BY PortBatches, CommandSets
    <3>2. edit' \in Configuration /\ saved' \in Configuration /\ vendor' = vendor
      BY <2>2, <2>a, <3>1, PartialType DEF ProvisionCutOff
    <3> QED BY <2>2, <3>2 DEF ProvisionCutOff, DriverTypeOK, Held, Lost
  <2>3. ASSUME NEW s, PortAdmin(s) PROVE DriverTypeOK'
    <3>1. PortAdminCommands(vendor, s) \in Seq(Command) BY ToggleBatch, CommandSets
    <3>2. edit' \in Configuration /\ saved' \in Configuration /\ vendor' = vendor
      BY <2>3, <2>a, <3>1, WholeType, PartialType DEF PortAdmin
    <3> QED BY <2>3, <3>2 DEF PortAdmin, DriverTypeOK, Held
  <2>4. ASSUME NEW p \in InfraRequest, VLANProvision(p) PROVE DriverTypeOK'
    <3>1. VLANProvisionCommands(vendor, p) \in Seq(Command) BY LayerBatches, CommandSets
    <3>2. edit' \in Configuration /\ saved' \in Configuration /\ vendor' = vendor
      BY <2>4, <2>a, <3>1, WholeType, PartialType DEF VLANProvision
    <3> QED BY <2>4, <3>2 DEF VLANProvision, DriverTypeOK, Held, Lost
  <2>5. ASSUME NEW i \in Interface, NEW s \in DHCPServer, NEW remove \in BOOLEAN,
               DHCPRelay(i, s, remove)
        PROVE  DriverTypeOK'
    <3>1. DHCPRelayCommands(vendor, i, s, remove) \in Seq(Command) BY LayerBatches, CommandSets
    <3>2. edit' \in Configuration /\ saved' \in Configuration /\ vendor' = vendor
      BY <2>5, <2>a, <3>1, WholeType, PartialType DEF DHCPRelay
    <3>3. relayTo' \in [Interface -> DHCPServer \union {0, Unknown}]
      BY <2>5 DEF DHCPRelay, DriverTypeOK
    <3> QED BY <2>5, <3>2, <3>3 DEF DHCPRelay, DriverTypeOK, Held, Lost
  <2>6. CASE Restart BY <2>6 DEF Restart, DriverTypeOK, Held
  <2>7. CASE UNCHANGED driverVars BY <2>7 DEF driverVars, DriverTypeOK
  <2> QED BY <2>1, <2>2, <2>3, <2>4, <2>5, <2>6, <2>7
          DEF DriverNext, PortNext, VLANNext, RelayingNext
<1> QED BY <1>1, <1>2, PTL DEF DriverSpec

\* The commands of a provisioning of the VLAN, and of a relay of interface i.
VlanCommand ==
  {c \in LayerCommand : \/ c.field \in {"vlans", "vrf", "ip", "up"}
                        \/ c.field = "helpers" /\ c.verb = "add"}
RelayCommand(v, i) ==
  {c \in LayerCommand : \/ c.field = "helpers" /\ \A h \in c.value : h[1] = i
                        \/ c.field = "relays" /\ c.value = {i}
                        \/ c.field = "servers" /\ (c.verb = "add" \/ v = "cumulus")}

\* What such commands add and take.
LEMMA LayerSets ==
  ASSUME NEW x \in Configuration
  PROVE  /\ \A v : Execute(x, Set("vrf", v)).vrf = v
         /\ \A v : Execute(x, Set("ip", v)).ip = v
         /\ \A v : Execute(x, Set("up", v)).up = v
         /\ \A v : Execute(x, Add("vlans", v)).vlans = x.vlans \union v
         /\ \A v : Execute(x, Add("helpers", v)).helpers = x.helpers \union v
         /\ \A v : Execute(x, Del("helpers", v)).helpers = x.helpers \ v
         /\ \A v : Execute(x, Add("relays", v)).relays = x.relays \union v
         /\ \A v : Execute(x, Del("relays", v)).relays = x.relays \ v
         /\ \A v : Execute(x, Add("servers", v)).servers = x.servers \union v
         /\ \A v : Execute(x, Del("servers", v)).servers = x.servers \ v
BY DEF Execute, Set, Add, Del, Configuration

\* What a layer 3 command adds to a set of a configuration, or takes from it.
LEMMA LayerAddsDels ==
  ASSUME NEW x \in Configuration, NEW c \in LayerCommand
  PROVE  LET y == Execute(x, c)
         IN /\ c.field = "helpers" /\ c.verb = "add" => y.helpers = x.helpers \union c.value
            /\ c.field = "helpers" /\ c.verb # "add" => y.helpers = x.helpers \ c.value
            /\ c.field = "relays" /\ c.verb = "add" => y.relays = x.relays \union c.value
            /\ c.field = "relays" /\ c.verb # "add" => y.relays = x.relays \ c.value
            /\ c.field = "servers" /\ c.verb = "add" => y.servers = x.servers \union c.value
BY DEF Execute, LayerCommand, Configuration

\* The batches are of such commands.
LEMMA VlanBatches ==
  ASSUME NEW p \in InfraSettings, NEW v
  PROVE  VLANProvisionCommands(v, p) \in Seq(VlanCommand)
<1>1. p.vlan \in Nat /\ p.gateway \in Nat /\ p.vrf \in Nat /\ p.dhcp \in Nat
  BY DEF InfraSettings
<1> DEFINE gatewayed == p.gateway # 0
           vrfed == p.vrf # 0
           relayed == p.dhcp # 0
           vrf == When(vrfed, <<Set("vrf", p.vrf)>>)
           ip == <<Set("ip", p.gateway), Set("up", TRUE)>>
           relay == When(relayed, <<Add("helpers", {<<"svi", p.dhcp>>})>>)
<1>2. gatewayed \in BOOLEAN /\ vrfed \in BOOLEAN /\ relayed \in BOOLEAN OBVIOUS
<1> HIDE DEF gatewayed, vrfed, relayed
<1>3. Add("helpers", {<<"svi", p.dhcp>>}) \in LayerCommand
  <2>1. "svi" \in Text BY DEF Text
  <2>2. {<<"svi", p.dhcp>>} \in SUBSET (Text \X Nat) BY <1>1, <2>1, HelperPairs
  <2> QED BY <2>2, CommandTypes
<1>4. Set("vrf", p.vrf) \in LayerCommand /\ Set("ip", p.gateway) \in LayerCommand
      /\ Set("up", TRUE) \in LayerCommand /\ Add("vlans", {p.vlan}) \in LayerCommand
  <2>1. {p.vlan} \in SUBSET Nat BY <1>1
  <2> QED BY <1>1, <2>1, CommandTypes
<1>5. Set("vrf", p.vrf) \in VlanCommand /\ Set("ip", p.gateway) \in VlanCommand
      /\ Set("up", TRUE) \in VlanCommand /\ Add("vlans", {p.vlan}) \in VlanCommand
      /\ Add("helpers", {<<"svi", p.dhcp>>}) \in VlanCommand
  BY <1>3, <1>4 DEF VlanCommand, Set, Add
<1>6. vrf \in Seq(VlanCommand) /\ ip \in Seq(VlanCommand) /\ relay \in Seq(VlanCommand)
  BY <1>2, <1>5, CommandSequences
<1>7. CreateVlan(p) \in Seq(VlanCommand) BY <1>5, CommandSequences DEF CreateVlan
<1>8. CreateSvi(p) = When(gatewayed, vrf \o ip \o relay)
  BY DEF CreateSvi, gatewayed, vrfed, relayed
<1> HIDE DEF vrf, ip, relay
<1>9. CreateVlan(p) \o CreateSvi(p) \in Seq(VlanCommand)
  BY <1>2, <1>6, <1>7, <1>8, CommandSequences
<1> QED BY <1>9, CommandSequences
        DEF VLANProvisionCommands, AristaVLANProvision, NXOSVLANProvision, IOSVLANProvision

\* The batch of a DHCP relay is of commands about that interface.
LEMMA RelayBatches ==
  ASSUME NEW i \in Text, NEW n \in Nat, NEW v, NEW remove
  PROVE  DHCPRelayCommands(v, i, n, remove) \in Seq(RelayCommand(v, i))
<1>1. {<<i, n>>} \in SUBSET (Text \X Nat) /\ {i} \in SUBSET Text /\ {n} \in SUBSET Nat
  BY HelperPairs
<1>2. /\ Add("helpers", {<<i, n>>}) \in LayerCommand /\ Del("helpers", {<<i, n>>}) \in LayerCommand
      /\ Add("relays", {i}) \in LayerCommand /\ Del("relays", {i}) \in LayerCommand
      /\ Add("servers", {n}) \in LayerCommand /\ Del("servers", {n}) \in LayerCommand
  BY <1>1, CommandTypes
<1>3. \A h \in {<<i, n>>} : h[1] = i OBVIOUS
<1>4. /\ Add("helpers", {<<i, n>>}) \in RelayCommand(v, i)
      /\ Del("helpers", {<<i, n>>}) \in RelayCommand(v, i)
      /\ Add("relays", {i}) \in RelayCommand(v, i) /\ Del("relays", {i}) \in RelayCommand(v, i)
      /\ Add("servers", {n}) \in RelayCommand(v, i)
      /\ v = "cumulus" => Del("servers", {n}) \in RelayCommand(v, i)
  BY <1>2, <1>3 DEF RelayCommand, Add, Del
<1> HIDE DEF RelayCommand
<1> QED BY <1>4, CommandSequences DEF DHCPRelayCommands, SwitchportCLI

\* A session for the VLAN leaves the relays of the interfaces.
LEMMA VlanSessionKeeps ==
  ASSUME NEW x \in Configuration, NEW s \in Seq(VlanCommand)
  PROVE  LET y == ExecSSH(x, s)
         IN y.relays = x.relays /\ y.servers = x.servers /\ x.helpers \subseteq y.helpers
<1> DEFINE C == {y \in Configuration :
                   y.relays = x.relays /\ y.servers = x.servers /\ x.helpers \subseteq y.helpers}
<1>1. x \in C OBVIOUS
<1>2. ASSUME NEW y \in C, NEW c \in VlanCommand PROVE Execute(y, c) \in C
  <2>1. c \in LayerCommand /\ c \in Command BY DEF VlanCommand, Command
  <2>2. CASE c.field \in {"vlans", "vrf", "ip", "up"}
    BY <2>1, <2>2, ExecuteType, ExecuteKeeps
  <2>3. CASE c.field = "helpers" /\ c.verb = "add"
    BY <2>1, <2>3, ExecuteType, ExecuteKeeps, LayerAddsDels
  <2> QED BY <2>2, <2>3 DEF VlanCommand
<1>3. \A n \in 1 .. Len(s) : s[n] \in VlanCommand OBVIOUS
<1> HIDE DEF C
<1>4. ExecSSH(x, s) \in C BY <1>1, <1>2, <1>3, SessionStays
<1> QED BY <1>4 DEF C

\* A session for the relay of one interface leaves the VLAN and the other interfaces.
LEMMA RelaySessionKeeps ==
  ASSUME NEW x \in Configuration, NEW v, NEW i, NEW s \in Seq(RelayCommand(v, i))
  PROVE  LET y == ExecSSH(x, s)
         IN /\ y.vlans = x.vlans /\ y.vrf = x.vrf /\ y.ip = x.ip /\ y.up = x.up
            /\ \A h : h[1] # i => (h \in y.helpers <=> h \in x.helpers)
            /\ \A j : j # i => (j \in y.relays <=> j \in x.relays)
            /\ v # "cumulus" => x.servers \subseteq y.servers
<1> DEFINE C == {y \in Configuration :
                   /\ y.vlans = x.vlans /\ y.vrf = x.vrf /\ y.ip = x.ip /\ y.up = x.up
                   /\ \A h : h[1] # i => (h \in y.helpers <=> h \in x.helpers)
                   /\ \A j : j # i => (j \in y.relays <=> j \in x.relays)
                   /\ v # "cumulus" => x.servers \subseteq y.servers}
<1>1. x \in C OBVIOUS
<1>2. ASSUME NEW y \in C, NEW c \in RelayCommand(v, i) PROVE Execute(y, c) \in C
  <2>1. c \in LayerCommand /\ c \in Command BY DEF RelayCommand, Command
  <2> DEFINE z == Execute(y, c)
  <2>2. z \in Configuration /\ y \in Configuration BY <2>1, ExecuteType
  <2>3. c.field \in {"helpers", "relays", "servers"} BY DEF RelayCommand
  <2>4. /\ z.vlans = y.vlans /\ z.vrf = y.vrf /\ z.ip = y.ip /\ z.up = y.up
        /\ c.field # "helpers" => z.helpers = y.helpers
        /\ c.field # "relays" => z.relays = y.relays
        /\ c.field # "servers" => z.servers = y.servers
    BY <2>1, <2>2, <2>3, ExecuteKeeps
  <2>5. /\ c.field = "helpers" /\ c.verb = "add" => z.helpers = y.helpers \union c.value
        /\ c.field = "helpers" /\ c.verb # "add" => z.helpers = y.helpers \ c.value
        /\ c.field = "relays" /\ c.verb = "add" => z.relays = y.relays \union c.value
        /\ c.field = "relays" /\ c.verb # "add" => z.relays = y.relays \ c.value
        /\ c.field = "servers" /\ c.verb = "add" => z.servers = y.servers \union c.value
    BY <2>1, <2>2, LayerAddsDels
  <2>6. /\ c.field = "helpers" => \A h \in c.value : h[1] = i
        /\ c.field = "relays" => c.value = {i}
        /\ c.field = "servers" => c.verb = "add" \/ v = "cumulus"
    BY DEF RelayCommand
  <2> HIDE DEF z
  <2>7. \A h : h[1] # i => (h \in z.helpers <=> h \in y.helpers) BY <2>4, <2>5, <2>6
  <2>8. \A j : j # i => (j \in z.relays <=> j \in y.relays) BY <2>4, <2>5, <2>6
  <2>9. v # "cumulus" => y.servers \subseteq z.servers BY <2>4, <2>5, <2>6
  <2> QED BY <2>2, <2>4, <2>7, <2>8, <2>9 DEF z
<1>3. \A n \in 1 .. Len(s) : s[n] \in RelayCommand(v, i) OBVIOUS
<1> HIDE DEF C
<1>4. ExecSSH(x, s) \in C BY <1>1, <1>2, <1>3, SessionStays
<1> QED BY <1>4 DEF C

\* Every part of a session leaves what the whole leaves.
LEMMA PartialOf ==
  ASSUME NEW S, NEW s \in Seq(S), Partial(s)
  PROVE  /\ \E t \in Seq(S) : edit' = ExecSSH(edit, t)
         /\ saved' = saved /\ vendor' = vendor
<1>1. PICK k \in 0 .. Len(s) : edit' = ExecSSH(edit, SubSeq(s, 1, k)) BY DEF Partial
<1>2. SubSeq(s, 1, k) \in Seq(S) BY CommandSequences
<1> QED BY <1>1, <1>2 DEF Partial

\* A whole session leaves its end both running and saved.
LEMMA WholeOf ==
  ASSUME NEW s, WholeSession(s)
  PROVE  s # <<>> /\ edit' = ExecSSH(edit, s) /\ saved' = edit' /\ vendor' = vendor
BY DEF WholeSession

\* What one session does to a port, another for VLANs or relays does not undo.
LEMMA SatisfiesStays ==
  ASSUME NEW x, NEW y, NEW p,
         /\ y.mode = x.mode /\ y.access = x.access /\ y.native = x.native
         /\ y.trunk = x.trunk /\ y.down = x.down,
         Satisfies(x, p)
  PROVE  Satisfies(y, p)
BY DEF Satisfies

\* LastProvisionWins: after a provisioning answered with success over a connection that held,
\* a port of a switch with switchport modes is as asked for, whatever was configured before,
\* until something else is done to it -- through all provisionings of VLANs and relays, whole
\* or cut off, and through provisionings found to be unneeded.
THEOREM LastProvisionHolds == DriverSpec => []LastProvisionWins
<1> USE DriverAssumption
<1>1. DriverInit => LastProvisionWins BY DEF DriverInit, LastProvisionWins
<1>2. DriverTypeOK /\ LastProvisionWins /\ [DriverNext]_driverVars => LastProvisionWins'
  <2> SUFFICES ASSUME DriverTypeOK, LastProvisionWins, [DriverNext]_driverVars
               PROVE  LastProvisionWins'
    OBVIOUS
  <2>a. edit \in Configuration /\ saved \in Configuration BY DEF DriverTypeOK
  <2>1. ASSUME NEW p \in PortRequest, Provision(p) PROVE LastProvisionWins'
    <3> SUFFICES ASSUME vendor' \in SwitchportCLI, p.mode \in PortModes
                 PROVE  Satisfies(edit', p)
      BY <2>1 DEF Provision, LastProvisionWins, Held
    <3>1. p \in PortSettings OBVIOUS
    <3>2. CASE Unneeded(p, Shown) /\ UNCHANGED <<vendor, edit, saved>>
      BY <2>a, <3>1, <3>2, UnneededSatisfies DEF Unneeded, Shown
    <3>3. CASE WholeSession(ProvisionCommands(vendor, p))
      BY <2>a, <3>1, <3>3, WholeOf, ProvisionSatisfies
    <3> QED BY <2>1, <3>2, <3>3 DEF Provision
  <2>2. ASSUME NEW p \in PortRequest, ProvisionCutOff(p) PROVE LastProvisionWins'
    BY <2>2 DEF ProvisionCutOff, LastProvisionWins, Lost
  <2>3. ASSUME NEW s, PortAdmin(s) PROVE LastProvisionWins'
    BY <2>3 DEF PortAdmin, LastProvisionWins
  <2>4. ASSUME NEW t \in Seq(LayerCommand), edit' = ExecSSH(edit, t),
               UNCHANGED <<vendor, port>>, "port" \in lost' <=> "port" \in lost
        PROVE  LastProvisionWins'
    <3>1. /\ edit'.mode = edit.mode /\ edit'.access = edit.access /\ edit'.native = edit.native
          /\ edit'.trunk = edit.trunk /\ edit'.down = edit.down
      BY <2>a, <2>4, LayerSessionKeeps
    <3>2. \A p : Satisfies(edit, p) => Satisfies(edit', p)
      BY <3>1, SatisfiesStays
    <3> QED BY <2>4, <3>2 DEF LastProvisionWins
  <2>5. ASSUME NEW s \in Seq(LayerCommand), WholeSession(s) \/ Partial(s),
               port' = port, "port" \in lost' <=> "port" \in lost
        PROVE  LastProvisionWins'
    <3>1. \E t \in Seq(LayerCommand) : edit' = ExecSSH(edit, t)
      BY <2>5, WholeOf, PartialOf
    <3>2. vendor' = vendor BY <2>5, WholeOf, PartialOf
    <3> QED BY <2>4, <2>5, <3>1, <3>2
  <2>6. ASSUME NEW p \in InfraRequest, VLANProvision(p) PROVE LastProvisionWins'
    <3>1. VLANProvisionCommands(vendor, p) \in Seq(LayerCommand) BY LayerBatches
    <3> QED BY <2>5, <2>6, <3>1 DEF VLANProvision, Held, Lost
  <2>7. ASSUME NEW i \in Interface, NEW s \in DHCPServer, NEW remove \in BOOLEAN,
               DHCPRelay(i, s, remove)
        PROVE  LastProvisionWins'
    <3>1. DHCPRelayCommands(vendor, i, s, remove) \in Seq(LayerCommand) BY LayerBatches
    <3>2. i # "port" OBVIOUS
    <3> QED BY <2>5, <2>7, <3>1, <3>2 DEF DHCPRelay, Held, Lost
  <2>8. CASE Restart BY <2>8 DEF Restart, LastProvisionWins
  <2>9. CASE UNCHANGED driverVars BY <2>9 DEF driverVars, LastProvisionWins
  <2> QED BY <2>1, <2>2, <2>3, <2>6, <2>7, <2>8, <2>9
          DEF DriverNext, PortNext, VLANNext, RelayingNext
<1> QED BY <1>1, <1>2, DriverTypeCorrect, PTL DEF DriverSpec

\* A whole provisioning of a VLAN: the VRF comes before the address, which it would drop.
LEMMA VlanProvisioned ==
  ASSUME NEW p \in InfraSettings, NEW x \in Configuration
  PROVE  LET y == ExecSSH(x, CreateVlan(p) \o CreateSvi(p))
         IN /\ p.vlan \in y.vlans
            /\ p.gateway # 0 => /\ y.ip = p.gateway /\ y.up
                                /\ p.vrf # 0 => y.vrf = p.vrf
                                /\ p.dhcp # 0 => <<"svi", p.dhcp>> \in y.helpers
<1> DEFINE gatewayed == p.gateway # 0
           vrfed == p.vrf # 0
           relayed == p.dhcp # 0
           setVrf == <<Set("vrf", p.vrf)>>
           addHelper == <<Add("helpers", {<<"svi", p.dhcp>>})>>
           vlan == <<Add("vlans", {p.vlan})>>
           vrf == When(vrfed, setVrf)
           setUp == Set("up", TRUE)
           ip == <<Set("ip", p.gateway), setUp>>
           relay == When(relayed, addHelper)
           svi1 == vrf \o ip
           svi2 == svi1 \o relay
           a == ExecSSH(x, vlan)
           b == ExecSSH(a, vrf)
           c == Execute(b, Set("ip", p.gateway))
           d == Execute(c, setUp)
           e == ExecSSH(d, relay)
<1>1. p.vlan \in Nat /\ p.gateway \in Nat /\ p.vrf \in Nat /\ p.dhcp \in Nat
  BY DEF InfraSettings
<1>2. /\ gatewayed \in BOOLEAN /\ vrfed \in BOOLEAN /\ relayed \in BOOLEAN
      /\ gatewayed = (p.gateway # 0) /\ vrfed = (p.vrf # 0) /\ relayed = (p.dhcp # 0)
  OBVIOUS
<1> HIDE DEF gatewayed, vrfed, relayed
<1>3. {<<"svi", p.dhcp>>} \in SUBSET (Text \X Nat)
  <2>1. "svi" \in Text BY DEF Text
  <2> QED BY <1>1, <2>1, HelperPairs
<1>4. /\ Set("vrf", p.vrf) \in LayerCommand /\ Set("ip", p.gateway) \in LayerCommand
      /\ Set("up", TRUE) \in LayerCommand /\ Add("vlans", {p.vlan}) \in LayerCommand
      /\ Add("helpers", {<<"svi", p.dhcp>>}) \in LayerCommand
  <2>1. {p.vlan} \in SUBSET Nat BY <1>1
  <2> QED BY <1>1, <1>3, <2>1, CommandTypes
<1>5. /\ vlan \in Seq(LayerCommand) /\ setVrf \in Seq(LayerCommand)
      /\ addHelper \in Seq(LayerCommand) /\ ip \in Seq(LayerCommand)
  BY <1>4, CommandSequences
<1>6. vrf \in Seq(LayerCommand) /\ relay \in Seq(LayerCommand)
  <2> HIDE DEF setVrf, addHelper
  <2> QED BY <1>2, <1>5, CommandSequences
<1>7. a \in Configuration /\ p.vlan \in a.vlans
  <2>1. a = Execute(x, Add("vlans", {p.vlan})) BY SessionOf
  <2>2. a.vlans = x.vlans \union {p.vlan} BY <2>1, LayerSets
  <2>3. a \in Configuration BY <1>4, <2>1, ExecuteType DEF Command
  <2> QED BY <2>2, <2>3
<1> HIDE DEF a
<1>8. b \in Configuration /\ b.vlans = a.vlans /\ (vrfed => b.vrf = p.vrf)
  <2> DEFINE z == Execute(a, Set("vrf", p.vrf))
  <2>1. ExecSSH(a, setVrf) = z BY SessionOf
  <2>2. z \in Configuration BY <1>4, <1>7, ExecuteType DEF Command
  <2>3. z.vrf = p.vrf BY <1>7, LayerSets
  <2>4. Set("vrf", p.vrf).field = "vrf" BY DEF Set
  <2>5. z.vlans = a.vlans BY <1>4, <1>7, <2>4, ExecuteKeeps DEF Command
  <2> HIDE DEF setVrf, z
  <2>6. b = IF vrfed THEN ExecSSH(a, setVrf) ELSE a BY <1>2, SessionWhen
  <2> QED BY <1>2, <1>7, <2>1, <2>2, <2>3, <2>5, <2>6
<1> HIDE DEF b
<1>9. c \in Configuration /\ c.ip = p.gateway /\ c.vlans = b.vlans /\ c.vrf = b.vrf
  <2>1. c \in Configuration BY <1>4, <1>8, ExecuteType DEF Command
  <2>2. c.ip = p.gateway BY <1>8, LayerSets
  <2>3. Set("ip", p.gateway).field = "ip" BY DEF Set
  <2> QED BY <1>4, <1>8, <2>1, <2>2, <2>3, ExecuteKeeps DEF Command
<1>10. ExecSSH(b, ip) = d
  <2> HIDE DEF setUp
  <2> QED BY SessionOf
<1> HIDE DEF c
<1>11. /\ d \in Configuration /\ d.up = TRUE /\ d.ip = c.ip /\ d.vlans = c.vlans /\ d.vrf = c.vrf
  <2>1. d \in Configuration BY <1>4, <1>9, ExecuteType DEF Command
  <2>2. d.up = TRUE BY <1>9, LayerSets
  <2>3. Set("up", TRUE).field = "up" BY DEF Set
  <2> QED BY <1>4, <1>9, <2>1, <2>2, <2>3, ExecuteKeeps DEF Command
<1> HIDE DEF d
<1>12. /\ e.up = d.up /\ e.ip = d.ip /\ e.vlans = d.vlans /\ e.vrf = d.vrf
       /\ relayed => <<"svi", p.dhcp>> \in e.helpers
  <2> DEFINE z == Execute(d, Add("helpers", {<<"svi", p.dhcp>>}))
  <2>1. ExecSSH(d, addHelper) = z BY SessionOf
  <2>2. z.helpers = d.helpers \union {<<"svi", p.dhcp>>} BY <1>11, LayerSets
  <2>3. Add("helpers", {<<"svi", p.dhcp>>}).field = "helpers" BY DEF Add
  <2>4. z.up = d.up /\ z.ip = d.ip /\ z.vlans = d.vlans /\ z.vrf = d.vrf
    BY <1>4, <1>11, <2>3, ExecuteKeeps DEF Command
  <2> HIDE DEF addHelper, z
  <2>5. e = IF relayed THEN ExecSSH(d, addHelper) ELSE d BY <1>2, SessionWhen
  <2> QED BY <1>2, <2>1, <2>2, <2>4, <2>5
<1>13. CreateSvi(p) = When(gatewayed, svi2) /\ CreateVlan(p) = vlan
  BY DEF CreateSvi, CreateVlan, gatewayed, vrfed, relayed
<1> HIDE DEF vlan, vrf, ip, relay
<1>14. svi1 \in Seq(LayerCommand) /\ ExecSSH(a, svi1) = d
  BY <1>5, <1>6, <1>10, CommandSequences, SessionConcat DEF b
<1> HIDE DEF svi1
<1>15. svi2 \in Seq(LayerCommand) /\ ExecSSH(a, svi2) = e
  BY <1>6, <1>14, CommandSequences, SessionConcat
<1> HIDE DEF svi2, e
<1>16. CreateSvi(p) \in Seq(LayerCommand) /\ ExecSSH(a, CreateSvi(p)) = IF gatewayed THEN e ELSE a
  <2>1. CreateSvi(p) \in Seq(LayerCommand) BY <1>2, <1>13, <1>15, CommandSequences
  <2>2. ExecSSH(a, When(gatewayed, svi2)) = IF gatewayed THEN ExecSSH(a, svi2) ELSE a
    BY <1>2, SessionWhen
  <2> QED BY <1>13, <1>15, <2>1, <2>2
<1>17. ExecSSH(x, CreateVlan(p) \o CreateSvi(p)) = IF gatewayed THEN e ELSE a
  BY <1>5, <1>13, <1>16, SessionConcat DEF a
<1> QED BY <1>2, <1>7, <1>8, <1>9, <1>11, <1>12, <1>17

\* A whole session for a relay.
LEMMA RelayProvisioned ==
  ASSUME NEW i \in Text, NEW n \in Nat, NEW v, NEW remove \in BOOLEAN, NEW x \in Configuration,
         DHCPRelayCommands(v, i, n, remove) # <<>>
  PROVE  LET y == ExecSSH(x, DHCPRelayCommands(v, i, n, remove))
         IN /\ ~remove /\ v \in Commits => i \in y.relays /\ n \in y.servers
            /\ ~remove /\ v \notin Commits => <<i, n>> \in y.helpers
            /\ remove /\ v \in Commits => i \notin y.relays
<1> DEFINE y == ExecSSH(x, DHCPRelayCommands(v, i, n, remove))
           add == Execute(x, Add("relays", {i}))
           del == Execute(x, Del("relays", {i}))
<1>1. v \in SwitchportCLI \union {"sonic", "junos", "cumulus"}
  BY DEF DHCPRelayCommands
<1>2. /\ Add("relays", {i}) \in LayerCommand /\ Del("relays", {i}) \in LayerCommand
      /\ Add("servers", {n}) \in LayerCommand /\ Del("servers", {n}) \in LayerCommand
  <2>1. {i} \in SUBSET Text /\ {n} \in SUBSET Nat OBVIOUS
  <2> QED BY <2>1, CommandTypes
<1>3. /\ add \in Configuration /\ i \in add.relays
      /\ del \in Configuration /\ i \notin del.relays
  <2>1. add \in Configuration /\ del \in Configuration BY <1>2, ExecuteType DEF Command
  <2>2. add.relays = x.relays \union {i} /\ del.relays = x.relays \ {i} BY LayerSets
  <2> QED BY <2>1, <2>2
<1>4. CASE v \notin Commits /\ ~remove
  <2>1. DHCPRelayCommands(v, i, n, remove) = <<Add("helpers", {<<i, n>>})>>
    BY <1>1, <1>4 DEF DHCPRelayCommands, Commits
  <2>2. y = Execute(x, Add("helpers", {<<i, n>>})) BY <2>1, SessionOf
  <2>3. y.helpers = x.helpers \union {<<i, n>>} BY <2>2, LayerSets
  <2> QED BY <1>4, <2>3
<1>5. CASE v \in Commits /\ ~remove
  <2>1. DHCPRelayCommands(v, i, n, remove) = <<Add("relays", {i}), Add("servers", {n})>>
    BY <1>5 DEF DHCPRelayCommands, Commits, SwitchportCLI
  <2>2. y = Execute(add, Add("servers", {n})) BY <2>1, SessionOf
  <2> HIDE DEF add
  <2>3. y.servers = add.servers \union {n} BY <1>3, <2>2, LayerSets
  <2>4. Add("servers", {n}).field = "servers" BY DEF Add
  <2>5. y.relays = add.relays BY <1>2, <1>3, <2>2, <2>4, ExecuteKeeps DEF Command
  <2> HIDE DEF y
  <2>6. i \in y.relays /\ n \in y.servers BY <1>3, <2>3, <2>5
  <2> QED BY <1>5, <2>6 DEF y
<1>6. CASE v \in Commits /\ remove
  <2>1. CASE v = "junos"
    <3>1. DHCPRelayCommands(v, i, n, remove) = <<Del("relays", {i})>>
      BY <1>6, <2>1 DEF DHCPRelayCommands, Commits, SwitchportCLI
    <3>2. y = del BY <3>1, SessionOf
    <3> QED BY <1>3, <1>6, <3>2
  <2>2. CASE v = "cumulus"
    <3>1. DHCPRelayCommands(v, i, n, remove) = <<Del("relays", {i}), Del("servers", {n})>>
      BY <1>6, <2>2 DEF DHCPRelayCommands, Commits, SwitchportCLI
    <3>2. y = Execute(del, Del("servers", {n})) BY <3>1, SessionOf
    <3> HIDE DEF del
    <3>3. Del("servers", {n}).field = "servers" BY DEF Del
    <3>4. y.relays = del.relays BY <1>2, <1>3, <3>2, <3>3, ExecuteKeeps DEF Command
    <3> QED BY <1>3, <1>6, <3>4
  <2> QED BY <1>6, <2>1, <2>2 DEF Commits
<1>7. CASE v \notin Commits /\ remove BY <1>7
<1> QED BY <1>4, <1>5, <1>6, <1>7

\* What was asked of VLAN and relays, in sessions that kept their connection, holds of the configuration that commands change and of the
\* one that was saved: only of both together is it inductive, as a restart brings the second back.
SviIn(config) ==
  svi # Unknown /\ "svi" \notin lost =>
    /\ vendor \in SwitchportCLI
    /\ svi.vlan \in config.vlans
    /\ svi.gateway # 0 => /\ config.ip = svi.gateway /\ config.up
                          /\ svi.vrf # 0 => config.vrf = svi.vrf
                          /\ svi.dhcp # 0 => <<"svi", svi.dhcp>> \in config.helpers
RelayIn(config, i) ==
  i \notin lost =>
    /\ relayTo[i] \in DHCPServer /\ vendor \in Commits => i \in config.relays
    /\ relayTo[i] \in DHCPServer /\ vendor = "junos" => relayTo[i] \in config.servers
    /\ relayTo[i] \in DHCPServer /\ vendor \notin Commits => <<i, relayTo[i]>> \in config.helpers
    /\ relayTo[i] = 0 /\ vendor \in Commits => i \notin config.relays
LayersInv ==
  /\ SviIn(edit) /\ SviIn(saved)
  /\ \A i \in Interface : RelayIn(edit, i) /\ RelayIn(saved, i)

\* LayersInv implies the property.
LEMMA LayersImply == DriverTypeOK /\ LayersInv => InfrastructureAsAsked
<1> SUFFICES ASSUME DriverTypeOK, LayersInv PROVE InfrastructureAsAsked
  OBVIOUS
<1>1. \A i, n : <<i, n>> \in saved.helpers => n \in {h[2] : h \in {z \in saved.helpers : z[1] = i}}
  <2> SUFFICES ASSUME NEW i, NEW n, <<i, n>> \in saved.helpers
               PROVE  n \in {h[2] : h \in {z \in saved.helpers : z[1] = i}}
    OBVIOUS
  <2>1. <<i, n>>[1] = i /\ <<i, n>>[2] = n OBVIOUS
  <2> QED BY <2>1
<1>2. SviAsAsked
  <2>1. vendor \in SwitchportCLI => vendor \notin Commits BY DEF SwitchportCLI, Commits
  <2> QED BY <1>1, <2>1 DEF LayersInv, SviIn, SviAsAsked, Relays
<1>3. ASSUME NEW i \in Interface, relayTo[i] \in DHCPServer, vendor # "cumulus",
             i \notin lost
      PROVE  relayTo[i] \in Relays(vendor, saved, i)
  BY <1>1, <1>3 DEF LayersInv, RelayIn, Relays, Commits
<1>4. ASSUME NEW i \in Interface, i \notin lost, relayTo[i] = 0, vendor \in Commits
      PROVE  Relays(vendor, saved, i) = {}
  BY <1>4 DEF LayersInv, RelayIn, Relays
<1> QED BY <1>2, <1>3, <1>4 DEF InfrastructureAsAsked, RelaysAsAsked

\* What a session leaves of it.
LEMMA PortKeepsLayers ==
  ASSUME DriverTypeOK, DriverTypeOK', LayersInv, NEW t \in Seq(PortCommand),
         edit' = ExecSSH(edit, t), saved' \in {saved, edit'}, UNCHANGED <<vendor, svi, relayTo>>,
         \A x \in Interface \union {"svi"} : x \in lost' <=> x \in lost
  PROVE  LayersInv'
<1>1. edit \in Configuration BY DEF DriverTypeOK
<1>2. /\ edit'.vlans = edit.vlans /\ edit'.vrf = edit.vrf /\ edit'.ip = edit.ip
      /\ edit'.up = edit.up /\ edit'.helpers = edit.helpers /\ edit'.relays = edit.relays
      /\ edit'.servers = edit.servers
  BY <1>1, PortSessionKeeps
<1>3. SviIn(edit)' /\ SviIn(saved)'
  <2>1. SviIn(edit)' BY <1>2 DEF LayersInv, SviIn
  <2>2. CASE saved' = saved BY <2>1, <2>2 DEF LayersInv, SviIn
  <2>3. CASE saved' = edit' BY <2>1, <2>3 DEF SviIn
  <2> QED BY <2>1, <2>2, <2>3
<1>4. ASSUME NEW i \in Interface PROVE RelayIn(edit, i)' /\ RelayIn(saved, i)'
  <2>1. RelayIn(edit, i)' BY <1>2 DEF LayersInv, RelayIn
  <2>2. CASE saved' = saved BY <2>1, <2>2 DEF LayersInv, RelayIn
  <2>3. CASE saved' = edit' BY <2>1, <2>3 DEF RelayIn
  <2> QED BY <2>1, <2>2, <2>3
<1> QED BY <1>3, <1>4 DEF LayersInv

\* A session for a VLAN leaves the relays as they were.
LEMMA VlanKeepsRelays ==
  ASSUME DriverTypeOK, LayersInv, NEW t \in Seq(VlanCommand),
         edit' = ExecSSH(edit, t), saved' \in {saved, edit'}, UNCHANGED <<vendor, relayTo>>,
         \A i \in Interface : i \in lost' <=> i \in lost
  PROVE  \A i \in Interface : RelayIn(edit, i)' /\ RelayIn(saved, i)'
<1> SUFFICES ASSUME NEW i \in Interface PROVE RelayIn(edit, i)' /\ RelayIn(saved, i)'
  OBVIOUS
<1>1. edit \in Configuration BY DEF DriverTypeOK
<1>2. edit'.relays = edit.relays /\ edit'.servers = edit.servers /\ edit.helpers \subseteq edit'.helpers
  BY <1>1, VlanSessionKeeps
<1>3. RelayIn(edit, i)' BY <1>2 DEF LayersInv, RelayIn
<1>4. CASE saved' = saved BY <1>3, <1>4 DEF LayersInv, RelayIn
<1>5. CASE saved' = edit' BY <1>3, <1>5 DEF RelayIn
<1> QED BY <1>3, <1>4, <1>5

\* A session for a relay leaves the SVI and the other interfaces' relays as they were.
LEMMA RelayKeepsOthers ==
  ASSUME DriverTypeOK, LayersInv, NEW i \in Interface, NEW t \in Seq(RelayCommand(vendor, i)),
         edit' = ExecSSH(edit, t), saved' \in {saved, edit'}, UNCHANGED <<vendor, svi>>,
         NEW to, relayTo' = [relayTo EXCEPT ![i] = to],
         \A x \in (Interface \union {"svi"}) \ {i} : x \in lost' <=> x \in lost
  PROVE  /\ SviIn(edit)' /\ SviIn(saved)'
         /\ \A j \in Interface \ {i} : RelayIn(edit, j)' /\ RelayIn(saved, j)'
<1> USE DriverAssumption
<1>1. edit \in Configuration BY DEF DriverTypeOK
<1>2. /\ edit'.vlans = edit.vlans /\ edit'.vrf = edit.vrf /\ edit'.ip = edit.ip /\ edit'.up = edit.up
      /\ \A h : h[1] # i => (h \in edit'.helpers <=> h \in edit.helpers)
      /\ \A j : j # i => (j \in edit'.relays <=> j \in edit.relays)
      /\ vendor # "cumulus" => edit.servers \subseteq edit'.servers
  BY <1>1, RelaySessionKeeps
<1>3. \A j, n : j # i => (<<j, n>> \in edit'.helpers <=> <<j, n>> \in edit.helpers)
  <2>1. \A j, n : <<j, n>>[1] = j OBVIOUS
  <2> QED BY <1>2, <2>1
<1>4. i # "svi" OBVIOUS
<1>5. SviIn(edit)' BY <1>2, <1>3, <1>4 DEF LayersInv, SviIn
<1>6. SviIn(saved)'
  <2>1. CASE saved' = saved BY <2>1 DEF LayersInv, SviIn
  <2>2. CASE saved' = edit' BY <1>5, <2>2 DEF SviIn
  <2> QED BY <2>1, <2>2
<1>7. ASSUME NEW j \in Interface \ {i} PROVE RelayIn(edit, j)' /\ RelayIn(saved, j)'
  <2>1. relayTo'[j] = relayTo[j] BY DEF DriverTypeOK
  <2>2. RelayIn(edit, j)' BY <1>2, <1>3, <2>1 DEF LayersInv, RelayIn
  <2>3. CASE saved' = saved BY <2>1, <2>2, <2>3 DEF LayersInv, RelayIn
  <2>4. CASE saved' = edit' BY <2>2, <2>4 DEF RelayIn
  <2> QED BY <2>2, <2>3, <2>4
<1> QED BY <1>5, <1>6, <1>7

\* InfrastructureAsAsked: after a success, the SVI of a VLAN has the VRF, address and relay asked
\* for, and an interface the DHCP server it was given, in the configuration a restart comes
\* back to -- whatever sessions for ports, VLANs and other interfaces follow, cut off or not.
\* The success must be one of a session that kept its connection: lost exempts the others.
THEOREM InfrastructureHolds == DriverSpec => []InfrastructureAsAsked
<1> USE DriverAssumption
<1>1. DriverInit => LayersInv
  <2> SUFFICES ASSUME DriverInit PROVE LayersInv
    OBVIOUS
  <2>1. svi = Unknown /\ \A i \in Interface : relayTo[i] = Unknown BY DEF DriverInit
  <2> QED BY <2>1 DEF LayersInv, SviIn, RelayIn
<1>2. DriverTypeOK /\ DriverTypeOK' /\ LayersInv /\ [DriverNext]_driverVars => LayersInv'
  <2> SUFFICES ASSUME DriverTypeOK, DriverTypeOK', LayersInv, [DriverNext]_driverVars
               PROVE  LayersInv'
    OBVIOUS
  <2>a. edit \in Configuration /\ saved \in Configuration BY DEF DriverTypeOK
  <2>b. \A t \in Seq(PortCommand) :
          WholeSession(t) \/ Partial(t) =>
            /\ \E z \in Seq(PortCommand) : edit' = ExecSSH(edit, z)
            /\ saved' \in {saved, edit'} /\ vendor' = vendor
    BY WholeOf, PartialOf
  <2>c. edit = ExecSSH(edit, <<>>) /\ <<>> \in Seq(PortCommand)
    BY SessionOf, CommandSequences
  <2>1. ASSUME NEW p \in PortRequest, Provision(p) \/ ProvisionCutOff(p) PROVE LayersInv'
    <3>1. ProvisionCommands(vendor, p) \in Seq(PortCommand) BY PortBatches
    <3>2. \/ UNCHANGED <<vendor, edit, saved>>
          \/ WholeSession(ProvisionCommands(vendor, p))
          \/ Partial(ProvisionCommands(vendor, p))
      BY <2>1 DEF Provision, ProvisionCutOff
    <3>3. /\ UNCHANGED <<svi, relayTo>>
          /\ \A x \in Interface \union {"svi"} : x \in lost' <=> x \in lost
      BY <2>1 DEF Provision, ProvisionCutOff, Held, Lost
    <3>4. /\ \E z \in Seq(PortCommand) : edit' = ExecSSH(edit, z)
          /\ saved' \in {saved, edit'} /\ vendor' = vendor
      BY <2>b, <2>c, <3>1, <3>2
    <3> QED BY <3>3, <3>4, PortKeepsLayers
  <2>2. ASSUME NEW s, PortAdmin(s) PROVE LayersInv'
    <3>1. PortAdminCommands(vendor, s) \in Seq(PortCommand) BY ToggleBatch
    <3>2. /\ \E z \in Seq(PortCommand) : edit' = ExecSSH(edit, z)
          /\ saved' \in {saved, edit'} /\ vendor' = vendor
      BY <2>2, <2>b, <3>1 DEF PortAdmin
    <3>3. \A x \in Interface \union {"svi"} : x \in lost' <=> x \in lost
      BY <2>2 DEF PortAdmin, Held
    <3> QED BY <2>2, <3>2, <3>3, PortKeepsLayers DEF PortAdmin
  <2>3. ASSUME NEW p \in InfraRequest, VLANProvision(p) PROVE LayersInv'
    <3> DEFINE commands == VLANProvisionCommands(vendor, p)
    <3>1. p \in InfraSettings /\ p # Unknown OBVIOUS
    <3>2. commands \in Seq(VlanCommand) BY <3>1, VlanBatches
    <3> HIDE DEF commands
    <3>3. /\ \E z \in Seq(VlanCommand) : edit' = ExecSSH(edit, z)
          /\ saved' \in {saved, edit'} /\ vendor' = vendor
      BY <2>3, <3>2, WholeOf, PartialOf DEF VLANProvision, commands
    <3>4. relayTo' = relayTo /\ \A i \in Interface : i \in lost' <=> i \in lost
      BY <2>3 DEF VLANProvision, Held, Lost
    <3>5. \A i \in Interface : RelayIn(edit, i)' /\ RelayIn(saved, i)'
      BY <3>3, <3>4, VlanKeepsRelays
    <3>6. CASE svi' = Unknown \/ "svi" \in lost' BY <3>5, <3>6 DEF LayersInv, SviIn
    <3>7. CASE WholeSession(commands) /\ svi' = p
      <4>1. /\ commands # <<>> /\ edit' = ExecSSH(edit, commands)
            /\ saved' = edit' /\ vendor' = vendor
        BY <3>7, WholeOf
      <4>2. vendor \in SwitchportCLI /\ commands = CreateVlan(p) \o CreateSvi(p)
        BY <4>1 DEF commands, VLANProvisionCommands, SwitchportCLI, AristaVLANProvision,
                    NXOSVLANProvision, IOSVLANProvision
      <4>3. SviIn(edit)'
        BY <2>a, <3>1, <3>7, <4>1, <4>2, VlanProvisioned DEF SviIn
      <4>4. SviIn(saved)' BY <4>1, <4>3 DEF SviIn
      <4> QED BY <3>5, <4>3, <4>4 DEF LayersInv
    <3> QED BY <2>3, <3>6, <3>7 DEF VLANProvision, commands, Lost
  <2>4. ASSUME NEW i \in Interface, NEW s \in DHCPServer, NEW remove \in BOOLEAN,
               DHCPRelay(i, s, remove)
        PROVE  LayersInv'
    <3> DEFINE commands == DHCPRelayCommands(vendor, i, s, remove)
               outcome == IF remove THEN 0 ELSE s
    <3>1. i \in Text /\ s \in Nat /\ s # 0 /\ s # Unknown OBVIOUS
    <3>2. commands \in Seq(RelayCommand(vendor, i)) BY <3>1, RelayBatches
    <3> HIDE DEF commands
    <3>3. /\ \E z \in Seq(RelayCommand(vendor, i)) : edit' = ExecSSH(edit, z)
          /\ saved' \in {saved, edit'} /\ vendor' = vendor
      BY <2>4, <3>2, WholeOf, PartialOf DEF DHCPRelay, commands
    <3>4. /\ svi' = svi
          /\ \/ WholeSession(commands) /\ relayTo' = [relayTo EXCEPT ![i] = outcome]
             \/ relayTo' = [relayTo EXCEPT ![i] = Unknown]
             \/ relayTo' = [relayTo EXCEPT ![i] = outcome] /\ i \in lost'
          /\ \A x \in (Interface \union {"svi"}) \ {i} : x \in lost' <=> x \in lost
      BY <2>4 DEF DHCPRelay, commands, Held, Lost
    <3>5. PICK to : relayTo' = [relayTo EXCEPT ![i] = to] BY <3>4
    <3>6. /\ SviIn(edit)' /\ SviIn(saved)'
          /\ \A j \in Interface \ {i} : RelayIn(edit, j)' /\ RelayIn(saved, j)'
      <4>1. PICK z \in Seq(RelayCommand(vendor, i)) : edit' = ExecSSH(edit, z) BY <3>3
      <4> QED BY <3>3, <3>4, <3>5, <4>1, RelayKeepsOthers
    <3>7. RelayIn(edit, i)' /\ RelayIn(saved, i)'
      <4>1. CASE relayTo' = [relayTo EXCEPT ![i] = Unknown]
        <5>1. relayTo'[i] = Unknown BY <4>1 DEF DriverTypeOK
        <5> QED BY <5>1 DEF RelayIn
      <4>2. CASE WholeSession(commands) /\ relayTo' = [relayTo EXCEPT ![i] = outcome]
        <5>1. /\ commands # <<>> /\ edit' = ExecSSH(edit, commands)
              /\ saved' = edit' /\ vendor' = vendor
          BY <4>2, WholeOf
        <5>2. relayTo'[i] = outcome BY <4>2 DEF DriverTypeOK
        <5>3. /\ ~remove /\ vendor \in Commits => i \in edit'.relays /\ s \in edit'.servers
              /\ ~remove /\ vendor \notin Commits => <<i, s>> \in edit'.helpers
              /\ remove /\ vendor \in Commits => i \notin edit'.relays
          BY <2>a, <3>1, <5>1, RelayProvisioned DEF commands
        <5>4. RelayIn(edit, i)' BY <3>1, <5>1, <5>2, <5>3 DEF RelayIn, Commits
        <5>5. RelayIn(saved, i)' BY <5>1, <5>4 DEF RelayIn
        <5> QED BY <5>4, <5>5
      <4>3. CASE i \in lost' BY <4>3 DEF RelayIn
      <4> QED BY <3>4, <4>1, <4>2, <4>3
    <3> QED BY <3>6, <3>7 DEF LayersInv
  <2>5. CASE Restart
    <3>1. /\ UNCHANGED <<vendor, saved, svi, relayTo>> /\ edit' = saved
          /\ \A x \in Interface \union {"svi"} : x \in lost' <=> x \in lost
      BY <2>5 DEF Restart, Held
    <3> QED BY <3>1 DEF LayersInv, SviIn, RelayIn
  <2>6. CASE UNCHANGED driverVars BY <2>6 DEF driverVars, LayersInv, SviIn, RelayIn
  <2> QED BY <2>1, <2>2, <2>3, <2>4, <2>5, <2>6
          DEF DriverNext, PortNext, VLANNext, RelayingNext
<1>3. DriverTypeOK /\ LayersInv => InfrastructureAsAsked BY LayersImply
<1> QED BY <1>1, <1>2, <1>3, DriverTypeCorrect, PTL DEF DriverSpec

\* Three commands.
LEMMA SessionOfThree ==
  \A x, a, b, c : ExecSSH(x, <<a, b, c>>) = Execute(Execute(Execute(x, a), b), c)
<1>1. ASSUME NEW x, NEW s, Len(s) \in Nat
      PROVE  Len(s) = 3 => ExecSSH(x, s) = Execute(Execute(Execute(x, s[1]), s[2]), s[3])
  <2>1. PICK g : /\ g[0] = x
                 /\ \A n \in 1 .. Len(s) : g[n] = Execute(g[n - 1], s[n])
                 /\ ExecSSH(x, s) = g[Len(s)]
    <3>1. Len(s) \in Nat BY <1>1
    <3>2. \E f : /\ f[0] = x
                 /\ \A n \in 1 .. Len(s) : f[n] = Execute(f[n - 1], s[n])
                 /\ ExecSSH(x, s) = f[Len(s)]
      BY <3>1, SessionLeaves
    <3> QED BY <3>2
  <2>2. Len(s) = 3 => /\ g[1] = Execute(g[0], s[1]) /\ g[2] = Execute(g[1], s[2])
                      /\ g[3] = Execute(g[2], s[3])
    <3>1. Len(s) = 3 => {1, 2, 3} \subseteq 1 .. Len(s) OBVIOUS
    <3>2. 1 - 1 = 0 /\ 2 - 1 = 1 /\ 3 - 1 = 2 OBVIOUS
    <3>3. Len(s) = 3 => \A n \in {1, 2, 3} : g[n] = Execute(g[n - 1], s[n]) BY <2>1, <3>1
    <3> QED BY <3>2, <3>3
  <2> QED BY <2>1, <2>2
<1>2. ASSUME NEW x, NEW a, NEW b, NEW c
      PROVE  ExecSSH(x, <<a, b, c>>) = Execute(Execute(Execute(x, a), b), c)
  <2>1. Len(<<a, b, c>>) = 3 /\ <<a, b, c>>[1] = a /\ <<a, b, c>>[2] = b /\ <<a, b, c>>[3] = c
    OBVIOUS
  <2> QED BY <1>1, <2>1
<1> QED BY <1>2

\* DriverFollowsTemplates: for an access port or a trunk with VLANs to set, the driver leaves
\* the port as the backend's template does, in every reachable configuration of the switch.
THEOREM TemplatesFollowed == DriverSpec => []DriverFollowsTemplates
<1> USE DriverAssumption
<1>1. ASSUME NEW p \in PortSettings, NEW x, vendor \in Vendors \ {"sonic", "junos"},
             p.admin = "up"
      PROVE  /\ p.mode = "access" /\ p.vlan > 0 =>
                  ExecSSH(x, ProvisionCommands(vendor, p))
                    = ExecSSH(x, Template(vendor, "provision_access", p))
             /\ p.mode = "trunk" /\ p.trunk # {} =>
                  ExecSSH(x, ProvisionCommands(vendor, p))
                    = ExecSSH(x, Template(vendor, "provision_trunk", p))
  <2> DEFINE up == FALSE
             asked == p.admin = "down"
             setDown == <<Set("down", up)>>
             access == <<Set("mode", "access"), Set("access", p.vlan)>>
             trunk == <<Set("mode", "trunk")>>
             vlans == <<Set("trunk", p.trunk)>>
             untag == <<Set("access", p.vlan)>>
             tag == <<Add("trunk", p.trunk)>>
  <2>1. asked = up BY <1>1
  <2>2. p.vlan \in Nat /\ p.trunk \in SUBSET Nat /\ up \in BOOLEAN BY DEF PortSettings
  <2> HIDE DEF up, asked
  <2>3. /\ setDown \in Seq(PortCommand) /\ access \in Seq(PortCommand)
        /\ trunk \in Seq(PortCommand) /\ vlans \in Seq(PortCommand)
        /\ untag \in Seq(PortCommand) /\ tag \in Seq(PortCommand)
    BY <2>2, CommandTypes, CommandSequences
  <2>4. \A y : ExecSSH(y, setDown) = Execute(y, Set("down", up)) BY SessionOf
  <2>5. vendor \in SwitchportCLI \/ vendor = "cumulus" BY <1>1 DEF Vendors, SwitchportCLI
  <2>6. CASE vendor \in SwitchportCLI /\ p.mode = "access" /\ p.vlan > 0
    <3>1. CiscoPortMode(p) = access BY <2>6 DEF CiscoPortMode, When
    <3>2. ProvisionCommands(vendor, p) = CiscoPortMode(p) \o setDown
      BY <2>1, <2>6 DEF ProvisionCommands, SwitchportCLI, asked
    <3>3. Template(vendor, "provision_access", p)
            = <<Set("mode", "access"), Set("access", p.vlan), Set("down", up)>>
      BY <2>6 DEF Template, ciscoIOSTemplates, ciscoNXOSTemplates, aristaEOSTemplates,
                  SwitchportCLI, up
    <3>4. ExecSSH(x, access) = Execute(Execute(x, Set("mode", "access")), Set("access", p.vlan))
      BY SessionOf
    <3>5. ExecSSH(x, Template(vendor, "provision_access", p))
            = Execute(ExecSSH(x, access), Set("down", up))
      BY <3>3, <3>4, SessionOfThree
    <3> HIDE DEF access, setDown
    <3>6. ExecSSH(x, access \o setDown) = ExecSSH(ExecSSH(x, access), setDown)
      BY <2>3, SessionConcat
    <3> QED BY <2>4, <2>6, <3>1, <3>2, <3>5, <3>6
  <2>7. CASE vendor \in SwitchportCLI /\ p.mode = "trunk" /\ p.trunk # {}
    <3> DEFINE moded == trunk \o vlans
    <3>1. CiscoPortMode(p) = moded BY <2>7 DEF CiscoPortMode, When
    <3>2. ProvisionCommands(vendor, p) = CiscoPortMode(p) \o setDown
      BY <2>1, <2>7 DEF ProvisionCommands, SwitchportCLI, asked
    <3>3. Template(vendor, "provision_trunk", p)
            = <<Set("mode", "trunk"), Set("trunk", p.trunk), Set("down", up)>>
      BY <2>7 DEF Template, ciscoIOSTemplates, ciscoNXOSTemplates, aristaEOSTemplates,
                  SwitchportCLI, up
    <3>4. ExecSSH(x, trunk) = Execute(x, Set("mode", "trunk")) BY SessionOf
    <3>5. \A y : ExecSSH(y, vlans) = Execute(y, Set("trunk", p.trunk)) BY SessionOf
    <3>6. ExecSSH(x, Template(vendor, "provision_trunk", p))
            = Execute(ExecSSH(ExecSSH(x, trunk), vlans), Set("down", up))
      BY <3>3, <3>4, <3>5, SessionOfThree
    <3> HIDE DEF trunk, vlans, setDown
    <3>7. moded \in Seq(PortCommand) /\ ExecSSH(x, moded) = ExecSSH(ExecSSH(x, trunk), vlans)
      BY <2>3, CommandSequences, SessionConcat
    <3> HIDE DEF moded
    <3>8. ExecSSH(x, moded \o setDown) = ExecSSH(ExecSSH(x, moded), setDown)
      BY <2>3, <3>7, SessionConcat
    <3> QED BY <2>4, <2>7, <3>1, <3>2, <3>6, <3>7, <3>8
  <2>8. CASE vendor = "cumulus" /\ p.mode = "access" /\ p.vlan > 0
    <3>1. CumulusPortMode(p) = untag BY <2>8 DEF CumulusPortMode, When
    <3>2. ProvisionCommands(vendor, p) = CumulusPortMode(p) \o setDown
      BY <2>1, <2>8 DEF ProvisionCommands, asked, SwitchportCLI
    <3>3. Template(vendor, "provision_access", p) = <<Set("access", p.vlan), Set("down", up)>>
      BY <2>8 DEF Template, cumulusTemplates, up
    <3>4. ExecSSH(x, untag) = Execute(x, Set("access", p.vlan)) BY SessionOf
    <3>5. ExecSSH(x, Template(vendor, "provision_access", p))
            = Execute(ExecSSH(x, untag), Set("down", up))
      BY <3>3, <3>4, SessionOf
    <3> HIDE DEF untag, setDown
    <3>6. ExecSSH(x, untag \o setDown) = ExecSSH(ExecSSH(x, untag), setDown)
      BY <2>3, SessionConcat
    <3> QED BY <2>4, <2>8, <3>1, <3>2, <3>5, <3>6
  <2>9. CASE vendor = "cumulus" /\ p.mode = "trunk" /\ p.trunk # {}
    <3>1. CumulusPortMode(p) = tag BY <2>9 DEF CumulusPortMode
    <3>2. ProvisionCommands(vendor, p) = CumulusPortMode(p) \o setDown
      BY <2>1, <2>9 DEF ProvisionCommands, asked, SwitchportCLI
    <3>3. Template(vendor, "provision_trunk", p) = <<Add("trunk", p.trunk), Set("down", up)>>
      BY <2>9 DEF Template, cumulusTemplates, up
    <3>4. ExecSSH(x, tag) = Execute(x, Add("trunk", p.trunk)) BY SessionOf
    <3>5. ExecSSH(x, Template(vendor, "provision_trunk", p))
            = Execute(ExecSSH(x, tag), Set("down", up))
      BY <3>3, <3>4, SessionOf
    <3> HIDE DEF tag, setDown
    <3>6. ExecSSH(x, tag \o setDown) = ExecSSH(ExecSSH(x, tag), setDown)
      BY <2>3, SessionConcat
    <3> QED BY <2>4, <2>9, <3>1, <3>2, <3>5, <3>6
  <2> QED BY <2>5, <2>6, <2>7, <2>8, <2>9
<1>2. DriverFollowsTemplates BY <1>1 DEF DriverFollowsTemplates
<1> QED BY <1>2, PTL

-----------------------------------------------------------------------------
(* The requests on the ports.                                              *)

\* The variables have the values their declarations say.
PortsShape ==
  /\ row \in [Port -> Row \union {None}]
  /\ device \in [Port -> Configuration]
  /\ req \in [Process -> [op : Ops, port : Port \union {None},
                         arg : Server \union {None, "up", "down"}]]
  /\ pc \in [Process -> {"idle", "asked", "write", "done", "failed"}]
  /\ task \in [Process -> {"none", "sent", "apply", "over"}]
  /\ answer \in [Process -> {None, "ok", "error"}]
  /\ todo \in [Process -> SUBSET Port]
  /\ orphan \subseteq Request /\ crossed \subseteq Request /\ mixed \subseteq Request
  /\ DOMAIN got = Process

\* What a request was asked, by its stage.
RequestInv(x) ==
  /\ x \in Request /\ pc[x] = "idle" => req[x].op = "none" /\ task[x] = "none"
  /\ req[x].op = "none" => got[x] = None
  /\ x = Ticker => req[x].op \in {"none", "sync"}
  /\ req[x].op \notin {"none", "sync"} => req[x].port \in Port
  /\ req[x].op = "toggle" => req[x].arg \in {"up", "down"}
  /\ req[x].op \in {"link", "unlink"} => req[x].arg \in Server \union {None}
  /\ pc[x] = "asked" => req[x].op \in {"provision", "toggle", "sync"}
  /\ pc[x] = "write" => req[x].op \in {"link", "unlink", "toggle", "sync"}
  /\ pc[x] \in {"write", "done"} /\ req[x].op = "toggle" => answer[x] = "ok"
  /\ pc[x] = "done" /\ req[x].op = "provision" => answer[x] = "ok"

\* What it holds, and what the agent works on.
WorkInv(x) ==
  /\ got[x] # None => IF req[x].op = "sync" THEN got[x] \in [Port -> Nat] ELSE got[x] \in Row
  /\ pc[x] \in {"asked", "write"} /\ req[x].op # "sync" => got[x] \in Row
  /\ req[x].op = "provision" => got[x] \in Row
  /\ pc[x] = "asked" /\ answer[x] = "ok" /\ req[x].op = "sync" => got[x] \in [Port -> Nat]
  /\ todo[x] # {} => got[x] \in [Port -> Nat] /\ pc[x] = "write" /\ req[x].op = "sync"
  /\ answer[x] # None => task[x] = "over"
  /\ answer[x] # None => req[x].op \in {"provision", "toggle", "sync"}
  /\ task[x] = "sent" => req[x].op \in {"provision", "sync"}
  /\ task[x] = "apply" => req[x].op \in {"provision", "toggle"}

PortsInv == PortsShape /\ \A x \in Process : RequestInv(x) /\ WorkInv(x)

\* The invariant contains the types.
LEMMA PortsInvImplies == PortsInv => TypeOK
<1> SUFFICES ASSUME PortsInv PROVE TypeOK
  OBVIOUS
<1>1. \A r \in Request : r \in Process BY DEF Process
<1> QED BY <1>1 DEF PortsInv, PortsShape, RequestInv, WorkInv, TypeOK

\* A step is of one process: the others' requests are as they were.
LEMMA OthersInv ==
  ASSUME NEW y, RequestInv(y), WorkInv(y), req'[y] = req[y], pc'[y] = pc[y], got'[y] = got[y],
         todo'[y] = todo[y], task'[y] = task[y], answer'[y] = answer[y]
  PROVE  RequestInv(y)' /\ WorkInv(y)'
BY DEF RequestInv, WorkInv

\* A request that arrives is as it was asked, and the rest stays.
LEMMA ArrivesShape ==
  ASSUME PortsShape, NEW x \in Process, NEW op \in Ops, NEW p \in Port \union {None},
         NEW arg \in Server \union {None, "up", "down"}, Arrives(x, op, p, arg)
  PROVE  /\ req' \in [Process -> [op : Ops, port : Port \union {None},
                                  arg : Server \union {None, "up", "down"}]]
         /\ req'[x].op = op /\ req'[x].port = p /\ req'[x].arg = arg
         /\ \A y \in Process \ {x} : req'[y] = req[y]
         /\ device' = device
         /\ x \in Request => pc[x] = "idle"
BY DEF PortsShape, Arrives

\* Those at work on a port are requests.
LEMMA AtWorkRequests == \A x, p : AtWork(x, p) \subseteq Request /\ Others(x, p) \subseteq Request
BY DEF AtWork, Others

\* A row that is created, or changed by a poll, is a row.
LEMMA RowTypes ==
  /\ \A w \in Row : Create(w) \in Row
  /\ \A old \in Row \union {None}, n \in Nat : Upsert(old, n) \in Row
  /\ \A w \in Row : w # None
<1>1. ASSUME NEW w \in Row PROVE Create(w) \in Row
  BY DEF Row, Create, Text
<1>2. ASSUME NEW old \in Row \union {None}, NEW n \in Nat PROVE Upsert(old, n) \in Row
  <2>1. CASE old = None BY <2>1 DEF Row, Upsert, NewRow, Text
  <2>2. CASE old # None BY <2>2 DEF Row, Upsert
  <2> QED BY <2>1, <2>2
<1> QED BY <1>1, <1>2, PortsAssumption

\* The statements on a row.
LEMMA StatementInv ==
  ASSUME PortsInv, NEW r \in Request, NEW op \in {"create", "update", "delete"}, NEW p \in Port,
         NEW w \in Row \union {None}, Statement(r, op, p, w), orphan' \in SUBSET Request
  PROVE  PortsInv'
<1>1. r \in Process /\ r # Ticker BY DEF Process, Request, Ticker
<1>2. op \in Ops BY DEF Ops
<1>3. /\ req' \in [Process -> [op : Ops, port : Port \union {None},
                               arg : Server \union {None, "up", "down"}]]
      /\ req'[r].op = op /\ req'[r].port = p
      /\ \A y \in Process \ {r} : req'[y] = req[y]
      /\ device' = device /\ pc[r] = "idle"
  BY <1>1, <1>2, ArrivesShape DEF Statement, PortsInv
<1>4. PortsShape'
  BY <1>1, <1>3, AtWorkRequests DEF Statement, PortsInv, PortsShape
<1>5. /\ UNCHANGED <<got, todo, task, answer>> /\ pc'[r] = "done"
      /\ \A y \in Process \ {r} : pc'[y] = pc[y]
  BY <1>1 DEF Statement, PortsInv, PortsShape
<1>6. ASSUME NEW y \in Process \ {r} PROVE RequestInv(y)' /\ WorkInv(y)'
  BY <1>3, <1>5, OthersInv DEF PortsInv
<1>7. RequestInv(r)' /\ WorkInv(r)'
  <2>1. RequestInv(r) /\ WorkInv(r) BY <1>1 DEF PortsInv
  <2>2. got[r] = None /\ answer[r] = None /\ task[r] = "none" /\ todo[r] = {}
    BY <1>3, <2>1 DEF RequestInv, WorkInv
  <2> QED BY <1>1, <1>3, <1>5, <2>2 DEF RequestInv, WorkInv
<1> QED BY <1>4, <1>6, <1>7 DEF PortsInv

\* The requests that read the row first.
LEMMA ReadsInv ==
  ASSUME PortsInv, NEW r \in Request, NEW p \in Port,
         NEW op \in {"link", "unlink", "provision", "toggle"},
         NEW arg \in Server \union {None, "up", "down"}, NEW next, NEW t,
         Reads(r, op, p, arg, next), task' = [task EXCEPT ![r] = t],
         \/ op = "link" /\ arg \in Server /\ next = "write" /\ t = "none"
         \/ op = "unlink" /\ arg = None /\ next = "write" /\ t = "none"
         \/ op = "provision" /\ arg = None /\ next = "asked" /\ t = "sent"
         \/ op = "toggle" /\ arg \in {"up", "down"} /\ next = "asked" /\ t = "apply"
  PROVE  PortsInv'
<1>1. r \in Process /\ r # Ticker BY DEF Process, Request, Ticker
<1>2. op \in Ops BY DEF Ops
<1>3. /\ req' \in [Process -> [op : Ops, port : Port \union {None},
                               arg : Server \union {None, "up", "down"}]]
      /\ req'[r].op = op /\ req'[r].port = p /\ req'[r].arg = arg
      /\ \A y \in Process \ {r} : req'[y] = req[y]
      /\ device' = device /\ pc[r] = "idle"
  BY <1>1, <1>2, ArrivesShape DEF Reads, PortsInv
<1>4. PortsShape'
  BY <1>1, <1>3 DEF Reads, PortsInv, PortsShape
<1>5. /\ UNCHANGED <<todo, answer>> /\ pc'[r] = next /\ got'[r] = row[p] /\ task'[r] = t
      /\ \A y \in Process \ {r} : pc'[y] = pc[y] /\ got'[y] = got[y] /\ task'[y] = task[y]
  BY <1>1 DEF Reads, PortsInv, PortsShape
<1>6. ASSUME NEW y \in Process \ {r} PROVE RequestInv(y)' /\ WorkInv(y)'
  BY <1>3, <1>5, OthersInv DEF PortsInv
<1>7. RequestInv(r)' /\ WorkInv(r)'
  <2>1. RequestInv(r) /\ WorkInv(r) BY <1>1 DEF PortsInv
  <2>2. answer[r] = None /\ todo[r] = {}
    BY <1>3, <2>1 DEF RequestInv, WorkInv
  <2>3. row[p] \in Row BY DEF Reads, PortsInv, PortsShape
  <2>4. RequestInv(r)' BY <1>1, <1>3, <1>5, <2>2 DEF RequestInv
  <2>5. WorkInv(r)' BY <1>1, <1>3, <1>5, <2>2, <2>3 DEF WorkInv
  <2> QED BY <2>4, <2>5
<1> QED BY <1>4, <1>6, <1>7 DEF PortsInv

\* A poll that is asked for, by an operator or by the ticker.
LEMMA PollInv ==
  ASSUME PortsInv, NEW x \in Process, pc[x] = "idle", PollSNMP(x)
  PROVE  PortsInv'
<1>1. "sync" \in Ops BY DEF Ops
<1>2. /\ req' \in [Process -> [op : Ops, port : Port \union {None},
                               arg : Server \union {None, "up", "down"}]]
      /\ req'[x].op = "sync"
      /\ \A y \in Process \ {x} : req'[y] = req[y]
      /\ device' = device
  BY <1>1, ArrivesShape DEF PollSNMP, PortsInv
<1>3. PortsShape'
  BY <1>2 DEF PollSNMP, PortsInv, PortsShape
<1>4. /\ UNCHANGED <<todo, got>> /\ pc'[x] = "asked" /\ answer'[x] = None /\ task'[x] = "sent"
      /\ \A y \in Process \ {x} : pc'[y] = pc[y] /\ answer'[y] = answer[y] /\ task'[y] = task[y]
  BY DEF PollSNMP, PortsInv, PortsShape
<1>5. ASSUME NEW y \in Process \ {x} PROVE RequestInv(y)' /\ WorkInv(y)'
  BY <1>2, <1>4, OthersInv DEF PortsInv
<1>6. RequestInv(x)' /\ WorkInv(x)'
  <2>1. RequestInv(x) /\ WorkInv(x) BY DEF PortsInv
  <2>2. todo[x] = {} BY <2>1 DEF WorkInv
  <2>3. got[x] # None => got[x] \in [Port -> Nat]
    <3>1. x \in Request \/ x = Ticker BY DEF Process
    <3>2. req[x].op \in {"none", "sync"} BY <2>1, <3>1 DEF RequestInv
    <3> QED BY <2>1, <3>2 DEF RequestInv, WorkInv
  <2>4. RequestInv(x)' BY <1>2, <1>4 DEF RequestInv
  <2>5. WorkInv(x)' BY <1>2, <1>4, <2>2, <2>3, PortsAssumption DEF WorkInv
  <2> QED BY <2>4, <2>5
<1> QED BY <1>3, <1>5, <1>6 DEF PortsInv

\* What the agent is asked for.
LEMMA DesiredType ==
  ASSUME NEW r, got[r] \in Row
  PROVE  Desired(r) \in PortSettings /\ Desired(r).mode = got[r].mode
BY DEF Desired, Row, PortSettings

\* What a request is about to apply is a batch of commands for ports.
LEMMA CommandsType ==
  ASSUME PortsInv, NEW r \in Process, task[r] = "apply"
  PROVE  Commands(r) \in Seq(PortCommand)
<1>1. RequestInv(r) /\ WorkInv(r) BY DEF PortsInv
<1>2. CASE req[r].op = "toggle" BY <1>2, ToggleBatch DEF Commands
<1>3. CASE req[r].op = "provision"
  <2>1. Desired(r) \in PortSettings BY <1>1, <1>3, DesiredType DEF WorkInv
  <2> QED BY <1>3, <2>1, PortBatches DEF Commands
<1> QED BY <1>1, <1>2, <1>3 DEF WorkInv

\* The look at a port keeps the invariant.
LEMMA LookInv ==
  ASSUME PortsInv, NEW r \in Process, LookAtPort(r)
  PROVE  PortsInv'
<1>1. /\ task[r] = "sent" /\ req[r].op = "provision"
      /\ UNCHANGED <<row, device, req, pc, got, todo, orphan, crossed>>
      /\ \/ Answers(r, "ok") /\ mixed' \in {mixed, mixed \union {r}}
         \/ task' = [task EXCEPT ![r] = "apply"] /\ UNCHANGED <<answer, mixed>>
  BY DEF LookAtPort
<1>2. RequestInv(r) /\ WorkInv(r) BY DEF PortsInv
<1>3. r \in Request
  <2>1. r # Ticker BY <1>1, <1>2 DEF RequestInv
  <2> QED BY <2>1 DEF Process
<1>4. PortsShape' BY <1>1, <1>3 DEF PortsInv, PortsShape, Answers
<1>5. \A y \in Process \ {r} : task'[y] = task[y] /\ answer'[y] = answer[y]
  BY <1>1 DEF PortsInv, PortsShape, Answers
<1>6. \/ task'[r] = "over" /\ answer'[r] = "ok"
      \/ task'[r] = "apply" /\ answer' = answer
  BY <1>1 DEF PortsInv, PortsShape, Answers
<1>7. ASSUME NEW y \in Process \ {r} PROVE RequestInv(y)' /\ WorkInv(y)'
  BY <1>1, <1>5, OthersInv DEF PortsInv
<1>8. answer[r] = None BY <1>1, <1>2 DEF WorkInv
<1>9. RequestInv(r)' BY <1>1, <1>2, <1>6 DEF RequestInv
<1>10. WorkInv(r)' BY <1>1, <1>2, <1>6, <1>8, PortsAssumption DEF WorkInv
<1> QED BY <1>4, <1>7, <1>9, <1>10 DEF PortsInv

\* The session of a request keeps the invariant.
LEMMA ConfigureInv ==
  ASSUME PortsInv, NEW r \in Process, Configure(r)
  PROVE  PortsInv'
<1> DEFINE p == req[r].port
<1>1. /\ task[r] = "apply" /\ UNCHANGED <<row, req, pc, got, todo, orphan, crossed>>
      /\ \E a \in {"ok", "error"} : Answers(r, a)
      /\ \/ mixed' = mixed \union Others(r, p)
         \/ mixed' = mixed \union Others(r, p) \union {r}
  BY DEF Configure
<1>2. RequestInv(r) /\ WorkInv(r) BY DEF PortsInv
<1>3. req[r].op \in {"provision", "toggle"} /\ p \in Port
  <2>1. req[r].op \in {"provision", "toggle"} BY <1>1, <1>2 DEF WorkInv
  <2> QED BY <1>2, <2>1 DEF RequestInv
<1>4. r \in Request
  <2>1. r # Ticker BY <1>2, <1>3 DEF RequestInv
  <2> QED BY <2>1 DEF Process
<1>5. device' \in [Port -> Configuration]
  <2>1. Commands(r) \in Seq(Command) BY <1>1, CommandsType, CommandSets
  <2>2. device[p] \in Configuration BY <1>3 DEF PortsInv, PortsShape
  <2>3. \E x \in Configuration : device' = [device EXCEPT ![p] = x]
    <3>1. CASE device' = [device EXCEPT ![p] = ExecSSH(@, Commands(r))]
      BY <2>1, <2>2, <3>1, SessionType
    <3>2. ASSUME NEW k \in 0 .. Len(Commands(r)),
                 device' = [device EXCEPT ![p] = ExecSSH(@, SubSeq(Commands(r), 1, k))]
          PROVE  \E x \in Configuration : device' = [device EXCEPT ![p] = x]
      BY <2>1, <2>2, <3>2, SessionType
    <3> QED BY <3>1, <3>2 DEF Configure
  <2> QED BY <1>3, <2>3 DEF PortsInv, PortsShape
<1>6. PortsShape'
  <2> HIDE DEF p
  <2> QED BY <1>1, <1>4, <1>5, AtWorkRequests DEF PortsInv, PortsShape, Answers
<1>7. \A y \in Process \ {r} : task'[y] = task[y] /\ answer'[y] = answer[y]
  BY <1>1 DEF PortsInv, PortsShape, Answers
<1>8. task'[r] = "over" /\ answer'[r] \in {"ok", "error"}
  BY <1>1 DEF PortsInv, PortsShape, Answers
<1>9. ASSUME NEW y \in Process \ {r} PROVE RequestInv(y)' /\ WorkInv(y)'
  BY <1>1, <1>7, OthersInv DEF PortsInv
<1>10. answer[r] = None BY <1>1, <1>2 DEF WorkInv
<1>11. RequestInv(r)' BY <1>1, <1>2, <1>8, <1>10, PortsAssumption DEF RequestInv
<1>12. WorkInv(r)' BY <1>1, <1>2, <1>3, <1>8 DEF WorkInv
<1> QED BY <1>6, <1>9, <1>11, <1>12 DEF PortsInv

\* The answer to a poll keeps the invariant.
LEMMA PollAnswerInv ==
  ASSUME PortsInv, NEW x \in Process, HandleSNMPPoll(x)
  PROVE  PortsInv'
<1>1. /\ task[x] = "sent" /\ req[x].op = "sync"
      /\ UNCHANGED <<row, device, req, pc, todo, orphan, crossed, mixed>>
      /\ \/ Answers(x, "error") /\ got' = got
         \/ \E v \in pollPortVLANs : Answers(x, "ok") /\ got' = [got EXCEPT ![x] = v]
  BY DEF HandleSNMPPoll
<1>2. RequestInv(x) /\ WorkInv(x) BY DEF PortsInv
<1>3. \A v \in pollPortVLANs : v \in [Port -> Nat]
  <2>1. \A p \in Port : PVID(device[p]) \in Nat
    BY DEF PortsInv, PortsShape, PVID, Configuration
  <2>2. [p \in Port |-> PVID(device[p])] \in [Port -> Nat] BY <2>1
  <2>3. ASSUME NEW v \in [Port -> Elsewhere \union {0}] PROVE v \in [Port -> Nat]
    <3>1. Elsewhere \union {0} \subseteq Nat BY PortsAssumption
    <3> QED BY <3>1
  <2> DEFINE found == [p \in Port |-> PVID(device[p])]
  <2>4. pollPortVLANs = {found} \union [Port -> Elsewhere \union {0}] BY DEF pollPortVLANs
  <2> HIDE DEF found
  <2>5. found \in [Port -> Nat] BY <2>2 DEF found
  <2> QED BY <2>3, <2>4, <2>5
<1>4. PortsShape'
  <2>1. /\ answer' \in [Process -> {None, "ok", "error"}]
        /\ task' \in [Process -> {"none", "sent", "apply", "over"}]
    <3>1. PICK a \in {"ok", "error"} : Answers(x, a) BY <1>1
    <3>2. /\ answer \in [Process -> {None, "ok", "error"}]
          /\ task \in [Process -> {"none", "sent", "apply", "over"}]
      BY DEF PortsInv, PortsShape
    <3> QED BY <3>1, <3>2 DEF Answers
  <2>2. DOMAIN got' = Process BY <1>1 DEF PortsInv, PortsShape
  <2> QED BY <1>1, <2>1, <2>2 DEF PortsInv, PortsShape
<1>5. \A y \in Process \ {x} : task'[y] = task[y] /\ answer'[y] = answer[y] /\ got'[y] = got[y]
  BY <1>1 DEF PortsInv, PortsShape, Answers
<1>6. /\ task'[x] = "over"
      /\ \/ answer'[x] = "error" /\ got'[x] = got[x]
         \/ answer'[x] = "ok" /\ got'[x] \in [Port -> Nat]
  BY <1>1, <1>3 DEF PortsInv, PortsShape, Answers
<1>7. ASSUME NEW y \in Process \ {x} PROVE RequestInv(y)' /\ WorkInv(y)'
  BY <1>1, <1>5, OthersInv DEF PortsInv
<1>8. RequestInv(x)' BY <1>1, <1>2 DEF RequestInv
<1>9. todo[x] # {} => got'[x] \in [Port -> Nat] BY <1>2, <1>6 DEF WorkInv
<1>10. WorkInv(x)' BY <1>1, <1>2, <1>6, <1>9 DEF WorkInv
<1> QED BY <1>4, <1>7, <1>8, <1>10 DEF PortsInv

\* The receipt of an answer keeps the invariant.
LEMMA ReceiveInv ==
  ASSUME PortsInv, NEW x \in Process, Receive(x)
  PROVE  PortsInv'
<1> DEFINE next == IF answer[x] = "error" THEN End(x, "failed")
                   ELSE IF req[x].op = "provision" THEN "done" ELSE "write"
           left == IF answer[x] = "ok" /\ req[x].op = "sync" THEN Port ELSE {}
<1>1. /\ pc[x] = "asked" /\ answer[x] # None
      /\ UNCHANGED <<row, device, req, got, task, answer, orphan, crossed, mixed>>
      /\ pc' = [pc EXCEPT ![x] = next] /\ todo' = [todo EXCEPT ![x] = left]
  BY DEF Receive
<1>2. RequestInv(x) /\ WorkInv(x) BY DEF PortsInv
<1>3. answer[x] \in {"ok", "error"} BY <1>1 DEF PortsInv, PortsShape
<1>4. req[x].op \in {"provision", "toggle", "sync"} BY <1>1, <1>2 DEF RequestInv
<1>5. \/ answer[x] = "error" /\ next = "failed" /\ left = {}
      \/ answer[x] = "error" /\ next = "idle" /\ left = {} /\ x = Ticker
      \/ answer[x] = "ok" /\ req[x].op = "provision" /\ next = "done" /\ left = {}
      \/ answer[x] = "ok" /\ req[x].op = "toggle" /\ next = "write" /\ left = {}
      \/ answer[x] = "ok" /\ req[x].op = "sync" /\ next = "write" /\ left = Port
  <2>1. CASE answer[x] = "error"
    <3>1. next = End(x, "failed")
      <4> HIDE DEF left
      <4> QED BY <2>1
    <3>3. left = {}
      <4> HIDE DEF next
      <4> QED BY <2>1
    <3>2. End(x, "failed") = "failed" \/ (End(x, "failed") = "idle" /\ x = Ticker) BY DEF End
    <3> HIDE DEF next, left
    <3> QED BY <2>1, <3>1, <3>2, <3>3
  <2>2. CASE answer[x] = "ok" BY <1>4, <2>2
  <2> QED BY <1>3, <2>1, <2>2
<1> HIDE DEF next, left
<1>6. PortsShape' BY <1>1, <1>5 DEF PortsInv, PortsShape
<1>7. /\ \A y \in Process \ {x} : pc'[y] = pc[y] /\ todo'[y] = todo[y]
      /\ pc'[x] = next /\ todo'[x] = left
  BY <1>1 DEF PortsInv, PortsShape
<1>8. ASSUME NEW y \in Process \ {x} PROVE RequestInv(y)' /\ WorkInv(y)'
  BY <1>1, <1>7, OthersInv DEF PortsInv
<1>9. Ticker \notin Request BY DEF Ticker, Request
<1>10. RequestInv(x)' BY <1>1, <1>2, <1>5, <1>7, <1>9 DEF RequestInv
<1>11. got[x] \in Row \/ req[x].op = "sync" BY <1>1, <1>2 DEF WorkInv
<1>12. req[x].op = "sync" /\ answer[x] = "ok" => got[x] \in [Port -> Nat] BY <1>1, <1>2 DEF WorkInv
<1>13. WorkInv(x)' BY <1>1, <1>2, <1>5, <1>7, <1>11, <1>12 DEF WorkInv
<1> QED BY <1>6, <1>8, <1>10, <1>13 DEF PortsInv

\* A timer that fires keeps the invariant.
LEMMA TimeOutInv ==
  ASSUME PortsInv, NEW x \in Process, TimeOut(x)
  PROVE  PortsInv'
<1>1. /\ pc[x] = "asked" /\ answer[x] = None
      /\ UNCHANGED <<row, device, req, got, todo, answer, orphan, crossed, mixed>>
      /\ pc' = [pc EXCEPT ![x] = End(x, "failed")]
      /\ task' = [task EXCEPT ![x] = IF req[x].op = "sync" THEN "over" ELSE @]
  BY DEF TimeOut
<1>2. RequestInv(x) /\ WorkInv(x) BY DEF PortsInv
<1>3. PortsShape' BY <1>1 DEF PortsInv, PortsShape, End
<1>4. /\ \A y \in Process \ {x} : pc'[y] = pc[y] /\ task'[y] = task[y]
      /\ pc'[x] = "failed" \/ (pc'[x] = "idle" /\ x = Ticker)
      /\ task'[x] = "over" \/ task'[x] = task[x]
  BY <1>1 DEF PortsInv, PortsShape, End
<1>5. ASSUME NEW y \in Process \ {x} PROVE RequestInv(y)' /\ WorkInv(y)'
  BY <1>1, <1>4, OthersInv DEF PortsInv
<1>6. Ticker \notin Request BY DEF Ticker, Request
<1>7. RequestInv(x)' BY <1>1, <1>2, <1>4, <1>6 DEF RequestInv
<1>8. todo[x] = {} BY <1>1, <1>2 DEF WorkInv
<1>9. WorkInv(x)' BY <1>1, <1>2, <1>4, <1>8 DEF WorkInv
<1> QED BY <1>3, <1>5, <1>7, <1>9 DEF PortsInv

\* The write of a row keeps the invariant.
LEMMA WriteBackInv ==
  ASSUME PortsInv, NEW r \in Process, WriteBack(r)
  PROVE  PortsInv'
<1> DEFINE p == req[r].port
           w == IF req[r].op = "toggle" THEN [got[r] EXCEPT !.admin = req[r].arg]
                                        ELSE [got[r] EXCEPT !.server = req[r].arg]
<1>1. /\ pc[r] = "write" /\ req[r].op # "sync"
      /\ row' = IF r \in orphan THEN row ELSE [row EXCEPT ![p] = w]
      /\ pc' = [pc EXCEPT ![r] = "done"] /\ got' = [got EXCEPT ![r] = None]
      /\ crossed' = (crossed \union AtWork(r, p)) \ {r}
      /\ UNCHANGED <<device, req, todo, task, answer, orphan, mixed>>
  BY DEF WriteBack
<1>2. RequestInv(r) /\ WorkInv(r) BY DEF PortsInv
<1>3. req[r].op \in {"link", "unlink", "toggle"} BY <1>1, <1>2 DEF RequestInv
<1>4. p \in Port /\ got[r] \in Row BY <1>1, <1>2, <1>3 DEF RequestInv, WorkInv
<1>5. w \in Row
  <2>1. CASE req[r].op = "toggle"
    <3>1. req[r].arg \in Text BY <1>2, <2>1 DEF RequestInv, Text
    <3> QED BY <1>4, <2>1, <3>1 DEF Row
  <2>2. CASE req[r].op # "toggle"
    <3>1. req[r].arg \in Server \union {None} BY <1>2, <1>3, <2>2 DEF RequestInv
    <3> QED BY <1>4, <2>2, <3>1 DEF Row
  <2> QED BY <2>1, <2>2
<1> HIDE DEF p, w
<1>6. PortsShape' BY <1>1, <1>4, <1>5, AtWorkRequests DEF PortsInv, PortsShape
<1>7. /\ \A y \in Process \ {r} : pc'[y] = pc[y] /\ got'[y] = got[y]
      /\ pc'[r] = "done" /\ got'[r] = None
  BY <1>1 DEF PortsInv, PortsShape
<1>8. ASSUME NEW y \in Process \ {r} PROVE RequestInv(y)' /\ WorkInv(y)'
  BY <1>1, <1>7, OthersInv DEF PortsInv
<1>9. RequestInv(r)' BY <1>1, <1>2, <1>3, <1>7 DEF RequestInv
<1>10. todo[r] = {} BY <1>1, <1>2 DEF WorkInv
<1>11. WorkInv(r)' BY <1>1, <1>2, <1>3, <1>7, <1>10 DEF WorkInv
<1> QED BY <1>6, <1>8, <1>9, <1>11 DEF PortsInv

\* The write of a port that a poll found keeps the invariant.
LEMMA UpsertInv ==
  ASSUME PortsInv, NEW x \in Process, NEW p \in Port, UpsertPort(x, p)
  PROVE  PortsInv'
<1>1. /\ p \in todo[x]
      /\ row' = [row EXCEPT ![p] = Upsert(@, got[x][p])]
      /\ todo' = [todo EXCEPT ![x] = @ \ {p}]
      /\ pc' = [pc EXCEPT ![x] = IF todo'[x] = {} THEN End(x, "done") ELSE @]
      /\ got' = [got EXCEPT ![x] = IF todo'[x] = {} THEN None ELSE @]
      /\ UNCHANGED <<device, req, task, answer, orphan, crossed, mixed>>
  BY DEF UpsertPort
<1>2. RequestInv(x) /\ WorkInv(x) BY DEF PortsInv
<1>3. got[x] \in [Port -> Nat] /\ pc[x] = "write" /\ req[x].op = "sync"
  BY <1>1, <1>2 DEF WorkInv
<1>4. row' \in [Port -> Row \union {None}]
  <2>1. got[x][p] \in Nat /\ row[p] \in Row \union {None} BY <1>3 DEF PortsInv, PortsShape
  <2>2. Upsert(row[p], got[x][p]) \in Row BY <2>1, RowTypes
  <2> QED BY <1>1, <2>2 DEF PortsInv, PortsShape
<1>5. /\ \A y \in Process \ {x} : pc'[y] = pc[y] /\ got'[y] = got[y] /\ todo'[y] = todo[y]
      /\ \/ todo'[x] # {} /\ pc'[x] = "write" /\ got'[x] = got[x]
         \/ todo'[x] = {} /\ got'[x] = None /\ pc'[x] = End(x, "done")
  BY <1>1, <1>3 DEF PortsInv, PortsShape
<1>6. End(x, "done") = "done" \/ (End(x, "done") = "idle" /\ x = Ticker) BY DEF End
<1>7. PortsShape'
  <2>1. pc' \in [Process -> {"idle", "asked", "write", "done", "failed"}]
    BY <1>1, <1>6 DEF PortsInv, PortsShape
  <2>2. todo' \in [Process -> SUBSET Port] /\ DOMAIN got' = Process
    BY <1>1 DEF PortsInv, PortsShape
  <2> QED BY <1>1, <1>4, <2>1, <2>2 DEF PortsInv, PortsShape
<1>8. ASSUME NEW y \in Process \ {x} PROVE RequestInv(y)' /\ WorkInv(y)'
  BY <1>1, <1>5, OthersInv DEF PortsInv
<1>9. Ticker \notin Request BY DEF Ticker, Request
<1>10. RequestInv(x)' BY <1>1, <1>2, <1>3, <1>5, <1>6, <1>9 DEF RequestInv
<1>11. WorkInv(x)' BY <1>1, <1>2, <1>3, <1>5, <1>6 DEF WorkInv
<1> QED BY <1>7, <1>8, <1>10, <1>11 DEF PortsInv

\* What is known at the start, and what each step leaves.
LEMMA PortsInvInit == Init => PortsInv
<1> SUFFICES ASSUME Init PROVE PortsInv
  OBVIOUS
<1>1. PortsShape
  <2>1. NoRequest \in [op : Ops, port : Port \union {None}, arg : Server \union {None, "up", "down"}]
    BY DEF NoRequest, Ops
  <2> QED BY <2>1, PortsAssumption DEF Init, PortsShape
<1>2. ASSUME NEW x \in Process PROVE RequestInv(x) /\ WorkInv(x)
  <2>1. /\ req[x].op = "none" /\ pc[x] = "idle" /\ got[x] = None /\ todo[x] = {}
        /\ task[x] = "none" /\ answer[x] = None
    BY DEF Init, NoRequest
  <2> QED BY <2>1 DEF RequestInv, WorkInv
<1> QED BY <1>1, <1>2 DEF PortsInv

\* Every step keeps the invariant.
LEMMA PortsInvStep == PortsInv /\ [Next]_vars => PortsInv'
<1> SUFFICES ASSUME PortsInv, [Next]_vars PROVE PortsInv'
  OBVIOUS
<1> USE PortsAssumption
<1>1. ASSUME NEW r \in Request, Operator(r) PROVE PortsInv'
  <2>1. r \in Process BY DEF Process
  <2>2. CASE PollSNMP(r) BY <2>1, <2>2, PollInv DEF PollSNMP, Arrives
  <2>3. ASSUME NEW p \in Port, NEW w \in Payload, CreatePort(r, p, w) PROVE PortsInv'
    <3>1. Create(w) \in Row BY RowTypes
    <3>2. orphan' \in SUBSET Request BY <2>3 DEF CreatePort, PortsInv, PortsShape
    <3> QED BY <2>3, <3>1, <3>2, StatementInv DEF CreatePort
  <2>4. ASSUME NEW p \in Port, NEW w \in Payload, UpdatePort(r, p, w) PROVE PortsInv'
    <3>1. w \in Row OBVIOUS
    <3>2. orphan' \in SUBSET Request BY <2>4 DEF UpdatePort, PortsInv, PortsShape
    <3> QED BY <2>4, <3>1, <3>2, StatementInv DEF UpdatePort
  <2>5. ASSUME NEW p \in Port, DeletePort(r, p) PROVE PortsInv'
    <3>1. orphan' \in SUBSET Request
      BY <2>5, AtWorkRequests DEF DeletePort, PortsInv, PortsShape
    <3> QED BY <2>5, <3>1, StatementInv DEF DeletePort
  <2>6. ASSUME NEW p \in Port, NEW s \in Server, LinkPortToServer(r, p, s) PROVE PortsInv'
    <3>1. RequestInv(r) /\ pc[r] = "idle" /\ task' = task
      BY <2>1, <2>6 DEF LinkPortToServer, Reads, Arrives, PortsInv
    <3>2. task' = [task EXCEPT ![r] = "none"]
      BY <2>1, <3>1 DEF RequestInv, PortsInv, PortsShape
    <3> QED BY <2>6, <3>2, ReadsInv DEF LinkPortToServer
  <2>7. ASSUME NEW p \in Port, UnlinkPort(r, p) PROVE PortsInv'
    <3>1. RequestInv(r) /\ pc[r] = "idle" /\ task' = task
      BY <2>1, <2>7 DEF UnlinkPort, Reads, Arrives, PortsInv
    <3>2. task' = [task EXCEPT ![r] = "none"]
      BY <2>1, <3>1 DEF RequestInv, PortsInv, PortsShape
    <3> QED BY <2>7, <3>2, ReadsInv DEF UnlinkPort
  <2>8. ASSUME NEW p \in Port, ProvisionPort(r, p) PROVE PortsInv'
    BY <2>8, ReadsInv DEF ProvisionPort
  <2>9. ASSUME NEW p \in Port, NEW status \in {"up", "down"}, TogglePortAdmin(r, p, status)
        PROVE  PortsInv'
    BY <2>9, ReadsInv DEF TogglePortAdmin
  <2> QED BY <1>1, <2>2, <2>3, <2>4, <2>5, <2>6, <2>7, <2>8, <2>9 DEF Operator
<1>2. ASSUME NEW x \in Process, Agent(x) PROVE PortsInv'
  BY <1>2, LookInv, ConfigureInv, PollAnswerInv DEF Agent
<1>3. ASSUME NEW x \in Process, Backend(x) PROVE PortsInv'
  BY <1>3, ReceiveInv, TimeOutInv, WriteBackInv, UpsertInv DEF Backend
<1>4. CASE Tick
  <2>1. Ticker \in Process BY DEF Process
  <2> QED BY <1>4, <2>1, PollInv DEF Tick
<1>5. CASE UNCHANGED vars
  BY <1>5 DEF vars, PortsInv, PortsShape, RequestInv, WorkInv
<1> QED BY <1>1, <1>2, <1>3, <1>4, <1>5 DEF Next

\* Every row is a row, the switch holds a configuration for every port, a request holds what its
\* operation needs at its stage, and the agent works on what it was sent: however requests,
\* sessions, polls and time-outs interleave.
THEOREM PortsTypeCorrect == Spec => []TypeOK
<1>1. Spec => []PortsInv BY PortsInvInit, PortsInvStep, PTL DEF Spec
<1> QED BY <1>1, PortsInvImplies, PTL

\* A request whose answer, port and arguments are as they were, of a port that was not
\* configured, has been done if it had.
DoneInv(r) ==
  answer[r] = "ok" /\ r \notin mixed /\ Vendor \in SwitchportCLI =>
    /\ req[r].op = "provision" /\ got[r].mode \in PortModes => Satisfies(device[req[r].port], Desired(r))
    /\ req[r].op = "toggle" => device[req[r].port].down = (req[r].arg = "down")

\* A step of another keeps what an answered request is owed.
LEMMA DoneStays ==
  ASSUME NEW r, DoneInv(r), answer'[r] = answer[r], req'[r] = req[r], mixed \subseteq mixed',
         req[r].op = "provision" => got'[r] = got[r],
         r \in mixed' \/ device'[req[r].port] = device[req[r].port]
  PROVE  DoneInv(r)'
<1>1. req[r].op = "provision" => Desired(r)' = Desired(r) BY DEF Desired
<1> QED BY <1>1 DEF DoneInv

\* A request that is not answered is owed nothing.
LEMMA NotAnswered ==
  ASSUME NEW r, answer'[r] = None
  PROVE  DoneInv(r)'
BY PortsAssumption DEF DoneInv

\* AnsweredIsDone: what the agent answered with success has been done on the switch and stays so
\* until another session configures the port, whatever the other requests, the ticker's polls
\* and the agent's work on requests that have timed out do meanwhile.
THEOREM AnsweredHolds == Spec => []AnsweredIsDone
<1> DEFINE Done == \A r \in Request : DoneInv(r)
<1>1. Init => Done BY PortsAssumption DEF Init, DoneInv, Process
<1>2. PortsInv /\ Done /\ [Next]_vars => Done'
  <2> SUFFICES ASSUME PortsInv, Done, [Next]_vars, NEW r \in Request PROVE DoneInv(r)'
    OBVIOUS
  <2>a. r \in Process /\ r # Ticker BY DEF Process, Request, Ticker
  <2>b. RequestInv(r) /\ WorkInv(r) /\ DoneInv(r) BY <2>a DEF PortsInv
  <2>c. pc[r] = "idle" => answer[r] = None BY <2>b DEF RequestInv, WorkInv
  <2>1. ASSUME NEW x \in Process, NEW op, NEW p, NEW arg, Arrives(x, op, p, arg),
               UNCHANGED mixed, answer' = answer, \A y \in Process \ {x} : got'[y] = got[y]
        PROVE  DoneInv(r)'
    <3>1. CASE x = r
      <4>1. pc[r] = "idle" BY <2>1, <3>1 DEF Arrives
      <4> QED BY <2>1, <2>c, <4>1, NotAnswered
    <3>2. CASE x # r
      <4>1. req'[r] = req[r] /\ device' = device BY <2>1, <2>a, <3>2 DEF Arrives, PortsInv, PortsShape
      <4> QED BY <2>1, <2>a, <2>b, <3>2, <4>1, DoneStays
    <3> QED BY <3>1, <3>2
  <2>2. ASSUME NEW x \in Request, NEW op, NEW p, NEW w, Statement(x, op, p, w) PROVE DoneInv(r)'
    BY <2>1, <2>2 DEF Statement, Process
  <2>3. ASSUME NEW x \in Request, NEW op, NEW p, NEW arg, NEW next, Reads(x, op, p, arg, next)
        PROVE  DoneInv(r)'
    <3>1. \A y \in Process \ {x} : got'[y] = got[y] BY <2>3 DEF Reads, PortsInv, PortsShape
    <3> QED BY <2>1, <2>3, <3>1 DEF Reads, Process
  <2>4. ASSUME NEW x \in Process, pc[x] = "idle", PollSNMP(x) PROVE DoneInv(r)'
    <3>1. CASE x = r
      <4>1. answer'[r] = None BY <2>4, <3>1, <2>a DEF PollSNMP, PortsInv, PortsShape
      <4> QED BY <4>1, NotAnswered
    <3>2. CASE x # r
      <4>1. /\ req'[r] = req[r] /\ device' = device /\ answer'[r] = answer[r]
            /\ got' = got /\ mixed' = mixed
        BY <2>4, <2>a, <3>2 DEF PollSNMP, Arrives, PortsInv, PortsShape
      <4> QED BY <2>b, <4>1, DoneStays
    <3> QED BY <3>1, <3>2
  <2>5. ASSUME NEW x \in Request, Operator(x) PROVE DoneInv(r)'
    <3>1. PollSNMP(x) => pc[x] = "idle" BY DEF PollSNMP, Arrives
    <3>2. x \in Process BY DEF Process
    <3> QED BY <2>2, <2>3, <2>4, <2>5, <3>1, <3>2
            DEF Operator, CreatePort, UpdatePort, DeletePort, LinkPortToServer, UnlinkPort,
                ProvisionPort, TogglePortAdmin
  <2>6. CASE Tick
    <3>1. Ticker \in Process BY DEF Process
    <3> QED BY <2>4, <2>6, <3>1 DEF Tick
  <2>7. ASSUME NEW x \in Process, LookAtPort(x) PROVE DoneInv(r)'
    <3>1. UNCHANGED <<device, req, got>> /\ mixed \subseteq mixed' BY <2>7 DEF LookAtPort
    <3>2. CASE x # r
      <4>1. answer'[r] = answer[r]
        BY <2>7, <2>a, <3>2 DEF LookAtPort, Answers, PortsInv, PortsShape
      <4> QED BY <2>b, <3>1, <4>1, DoneStays
    <3>3. CASE x = r
      <4> DEFINE shown == parsePortConfig(Vendor, device[req[r].port])
                 asWanted(current) == CanShow(Vendor) /\ ~portNeedsChange(Desired(r), current)
      <4>1. task[r] = "sent" /\ req[r].op = "provision" BY <2>7, <3>3 DEF LookAtPort
      <4>2. answer[r] = None BY <2>b, <4>1 DEF WorkInv
      <4>3. got[r] \in Row /\ req[r].port \in Port BY <2>b, <4>1 DEF WorkInv, RequestInv
      <4>4. \/ asWanted(shown) \/ r \in mixed' \/ answer' = answer
        BY <2>7, <3>3 DEF LookAtPort
      <4>5. CASE r \in mixed' BY <4>5 DEF DoneInv
      <4>6. CASE answer' = answer BY <4>2, <4>6, NotAnswered
      <4>7. CASE asWanted(shown)
        <5>1. Desired(r) \in PortSettings /\ Desired(r).mode = got[r].mode BY <4>3, DesiredType
        <5>2. device[req[r].port] \in Configuration BY <4>3 DEF PortsInv, PortsShape
        <5>3. Vendor \in SwitchportCLI /\ got[r].mode \in PortModes =>
                Satisfies(device[req[r].port], Desired(r))
          BY <4>7, <5>1, <5>2, UnneededSatisfies
        <5>4. Desired(r)' = Desired(r) BY <3>1 DEF Desired
        <5> QED BY <3>1, <4>1, <5>3, <5>4 DEF DoneInv
      <4> QED BY <4>4, <4>5, <4>6, <4>7
    <3> QED BY <3>2, <3>3
  <2>8. ASSUME NEW x \in Process, Configure(x) PROVE DoneInv(r)'
    <3> DEFINE p == req[x].port
    <3>1. /\ task[x] = "apply" /\ UNCHANGED <<req, got>>
          /\ mixed \union Others(x, p) \subseteq mixed'
          /\ \E a : Answers(x, a)
          /\ \E y : device' = [device EXCEPT ![p] = y]
      BY <2>8 DEF Configure
    <3>2. RequestInv(x) /\ WorkInv(x) BY DEF PortsInv
    <3>3. req[x].op \in {"provision", "toggle"} BY <3>1, <3>2 DEF WorkInv
    <3>4. p \in Port BY <3>2, <3>3 DEF RequestInv
    <3>5. CASE x # r
      <4>1. answer'[r] = answer[r] BY <3>1, <2>a, <3>5 DEF Answers, PortsInv, PortsShape
      <4>2. CASE req[r].port = p
        <5>1. r \in Others(x, p) BY <3>5, <4>2 DEF Others
        <5> QED BY <3>1, <5>1 DEF DoneInv
      <4>3. CASE req[r].port # p
        <5>1. device'[req[r].port] = device[req[r].port]
          <6>1. CASE req[r].port \in Port BY <3>1, <4>3, <6>1 DEF PortsInv, PortsShape
          <6>2. CASE req[r].port \notin Port
            <7>1. answer[r] = None \/ req[r].op = "sync"
              BY <2>b, <6>2 DEF RequestInv, WorkInv
            <7> QED BY <3>1, <4>3, <6>2, <7>1 DEF PortsInv, PortsShape
          <6> QED BY <6>1, <6>2
        <5> QED BY <2>b, <3>1, <4>1, <5>1, DoneStays
      <4> QED BY <4>2, <4>3
    <3>6. CASE x = r
      <4>1. CASE r \in mixed' BY <4>1 DEF DoneInv
      <4>2. CASE device' = [device EXCEPT ![p] = ExecSSH(@, Commands(r))]
        <5>1. device[p] \in Configuration BY <3>4 DEF PortsInv, PortsShape
        <5>2. device'[p] = ExecSSH(device[p], Commands(r)) BY <3>4, <4>2 DEF PortsInv, PortsShape
        <5>3. CASE req[r].op = "toggle"
          <6>1. Commands(r) = PortAdminCommands(Vendor, req[r].arg) BY <5>3 DEF Commands
          <6>2. device'[p].down = (req[r].arg = "down")
            BY <5>1, <5>2, <6>1, ToggleSets, VendorAssumption
          <6> QED BY <3>1, <3>6, <5>3, <6>2 DEF DoneInv
        <5>4. CASE req[r].op = "provision"
          <6>1. Commands(r) = ProvisionCommands(Vendor, Desired(r)) BY <5>4 DEF Commands
          <6>2. Desired(r) \in PortSettings BY <2>b, <5>4, DesiredType DEF WorkInv
          <6>3. Vendor \in SwitchportCLI => Satisfies(device'[p], Desired(r))
            BY <5>1, <5>2, <6>1, <6>2, ProvisionSatisfies
          <6>4. Desired(r)' = Desired(r) BY <3>1 DEF Desired
          <6> QED BY <3>1, <3>6, <5>4, <6>3, <6>4 DEF DoneInv
        <5> QED BY <3>3, <3>6, <5>3, <5>4
      <4>3. r \in mixed' \/ device' = [device EXCEPT ![p] = ExecSSH(@, Commands(r))]
        BY <2>8, <3>6 DEF Configure
      <4> QED BY <4>1, <4>2, <4>3
    <3> QED BY <3>5, <3>6
  <2>9. ASSUME NEW x \in Process, HandleSNMPPoll(x) PROVE DoneInv(r)'
    <3>1. req[x].op = "sync" /\ UNCHANGED <<device, req, mixed>> BY <2>9 DEF HandleSNMPPoll
    <3>2. x # r => answer'[r] = answer[r] /\ got'[r] = got[r]
      BY <2>9, <2>a DEF HandleSNMPPoll, Answers, PortsInv, PortsShape
    <3>3. CASE x = r BY <3>1, <3>3 DEF DoneInv
    <3> QED BY <2>b, <3>1, <3>2, <3>3, DoneStays
  <2>10. ASSUME NEW x \in Process, Backend(x) PROVE DoneInv(r)'
    <3>1. UNCHANGED <<device, req, answer, mixed>>
      BY <2>10 DEF Backend, Receive, TimeOut, WriteBack, UpsertPort
    <3>2. req[r].op = "provision" => got'[r] = got[r]
      <4>1. CASE Receive(x) \/ TimeOut(x) BY <4>1 DEF Receive, TimeOut
      <4>2. CASE WriteBack(x)
        <5>1. pc[x] = "write" /\ got' = [got EXCEPT ![x] = None] BY <4>2 DEF WriteBack
        <5>2. req[x].op # "provision" BY <5>1 DEF PortsInv, RequestInv
        <5> QED BY <2>a, <5>1, <5>2 DEF PortsInv, PortsShape
      <4>3. ASSUME NEW p \in Port, UpsertPort(x, p) PROVE req[r].op = "provision" => got'[r] = got[r]
        <5>1. todo[x] # {} /\ \A y \in Process \ {x} : got'[y] = got[y]
          BY <4>3 DEF UpsertPort, PortsInv, PortsShape
        <5>2. req[x].op = "sync" BY <5>1 DEF PortsInv, WorkInv
        <5> QED BY <2>a, <5>1, <5>2
      <4> QED BY <2>10, <4>1, <4>2, <4>3 DEF Backend
    <3> QED BY <2>b, <3>1, <3>2, DoneStays
  <2>11. CASE UNCHANGED vars BY <2>b, <2>11, DoneStays DEF vars
  <2> QED BY <2>5, <2>6, <2>7, <2>8, <2>9, <2>10, <2>11 DEF Next, Agent
<1>3. Done => AnsweredIsDone BY DEF DoneInv, AnsweredIsDone
<1> HIDE DEF Done
<1> QED BY <1>1, <1>2, <1>3, PortsInvInit, PortsInvStep, PTL DEF Spec

\* A request that is to write back the row it read, and whose row no other request wrote: the
\* row is still there, and as it was read but for what polls store.
AlikeRows(w, v) ==
  /\ w.server = v.server /\ w.mode = v.mode /\ w.native = v.native
  /\ w.trunk = v.trunk /\ w.admin = v.admin
WillWrite(r) == pc[r] \in {"asked", "write"} /\ req[r].op \in {"link", "unlink", "toggle"}
ReadInv(r) ==
  WillWrite(r) /\ r \notin crossed =>
    r \notin orphan /\ row[req[r].port] # None /\ AlikeRows(row[req[r].port], got[r])

\* A step of another keeps what a request knows of its row.
LEMMA ReadStays ==
  ASSUME NEW r, ReadInv(r), WillWrite(r)' => WillWrite(r),
         WillWrite(r) => req'[r] = req[r] /\ got'[r] = got[r],
         crossed \subseteq crossed', r \in orphan' => r \in orphan \union crossed',
         \/ r \in crossed'
         \/ row'[req[r].port] = row[req[r].port]
         \/ row[req[r].port] # None => row'[req[r].port] # None
                                       /\ AlikeRows(row'[req[r].port], row[req[r].port])
  PROVE  ReadInv(r)'
BY DEF ReadInv, WillWrite, AlikeRows

\* What a poll stores in a row that is there is its VLAN and the polled columns.
LEMMA UpsertAlike ==
  ASSUME NEW old \in Row, NEW n \in Nat
  PROVE  Upsert(old, n) # None /\ AlikeRows(Upsert(old, n), old)
<1>1. old # None BY RowTypes
<1>2. Upsert(old, n) \in Row BY RowTypes
<1>3. Upsert(old, n) # None BY <1>2, RowTypes
<1>4. Upsert(old, n) = [old EXCEPT !.vlan = IF n > 0 THEN n ELSE @, !.polled = TRUE] BY <1>1 DEF Upsert
<1> QED BY <1>3, <1>4 DEF AlikeRows, Row

\* Two rows with the same fields are one.
LEMMA RowEqual ==
  ASSUME NEW v \in Row, NEW w \in Row, AlikeRows(v, w), v.vlan = w.vlan,
         v.polled = w.polled
  PROVE  v = w
BY DEF Row, AlikeRows

\* A row that is deleted is missed by requests that have begun only.
FreshInv(r) == pc[r] = "idle" => r \notin orphan

\* Every step keeps FreshInv.
LEMMA FreshInvStep ==
  PortsInv /\ (\A r \in Request : FreshInv(r)) /\ [Next]_vars => \A r \in Request : FreshInv(r)'
<1> SUFFICES ASSUME PortsInv, \A r \in Request : FreshInv(r), [Next]_vars, NEW r \in Request,
                    pc'[r] = "idle"
             PROVE  r \notin orphan'
  BY DEF FreshInv
<1>a. r \in Process /\ r # Ticker BY DEF Process, Request, Ticker
<1>1. CASE pc[r] = "idle"
  <2>1. r \notin orphan BY <1>1 DEF FreshInv
  <2>2. ASSUME NEW x \in Request, NEW p \in Port, DeletePort(x, p) PROVE r \notin orphan'
    BY <1>1, <2>1, <2>2 DEF DeletePort, AtWork
  <2>3. ASSUME NEW x \in Request, Operator(x) PROVE r \notin orphan'
    BY <2>1, <2>2, <2>3
       DEF Operator, CreatePort, UpdatePort, LinkPortToServer, UnlinkPort, ProvisionPort,
           TogglePortAdmin, Reads, PollSNMP
  <2>4. CASE Tick BY <2>1, <2>4 DEF Tick, PollSNMP
  <2>5. ASSUME NEW x \in Process, Agent(x) \/ Backend(x) PROVE r \notin orphan'
    BY <2>1, <2>5 DEF Agent, LookAtPort, Configure, HandleSNMPPoll, Backend, Receive, TimeOut,
                     WriteBack, UpsertPort
  <2>6. CASE UNCHANGED vars BY <2>1, <2>6 DEF vars
  <2> QED BY <2>3, <2>4, <2>5, <2>6 DEF Next
<1>2. CASE pc[r] # "idle"
  <2>1. ASSUME NEW x \in Request, NEW op, NEW p, NEW w, Statement(x, op, p, w) PROVE FALSE
    BY <1>a, <1>2, <2>1 DEF Statement, PortsInv, PortsShape
  <2>2. ASSUME NEW x \in Process, NEW op, NEW p, NEW arg, NEW next \in {"asked", "write"},
               Reads(x, op, p, arg, next)
        PROVE  FALSE
    BY <1>a, <1>2, <2>2 DEF Reads, PortsInv, PortsShape
  <2>3. ASSUME NEW x \in Process, PollSNMP(x) PROVE FALSE
    BY <1>a, <1>2, <2>3 DEF PollSNMP, PortsInv, PortsShape
  <2>4. ASSUME NEW x \in Request, Operator(x) PROVE FALSE
    BY <2>1, <2>2, <2>3, <2>4
       DEF Operator, CreatePort, UpdatePort, DeletePort, LinkPortToServer, UnlinkPort,
           ProvisionPort, TogglePortAdmin, Process
  <2>5. CASE Tick BY <2>3, <2>5 DEF Tick, Process
  <2>6. ASSUME NEW x \in Process, Agent(x) PROVE FALSE
    BY <1>2, <2>6 DEF Agent, LookAtPort, Configure, HandleSNMPPoll
  <2>7. ASSUME NEW x \in Process, Backend(x) PROVE FALSE
    <3>1. /\ x = r => \A outcome : End(x, outcome) = outcome
      BY <1>a DEF End
    <3>2. CASE Receive(x) BY <1>a, <1>2, <3>1, <3>2 DEF Receive, PortsInv, PortsShape
    <3>3. CASE TimeOut(x) BY <1>a, <1>2, <3>1, <3>3 DEF TimeOut, PortsInv, PortsShape
    <3>4. CASE WriteBack(x) BY <1>a, <1>2, <3>4 DEF WriteBack, PortsInv, PortsShape
    <3>5. ASSUME NEW p \in Port, UpsertPort(x, p) PROVE FALSE
      BY <1>a, <1>2, <3>1, <3>5 DEF UpsertPort, PortsInv, PortsShape
    <3> QED BY <2>7, <3>2, <3>3, <3>4, <3>5 DEF Backend
  <2>8. CASE UNCHANGED vars BY <1>2, <2>8 DEF vars
  <2> QED BY <2>4, <2>5, <2>6, <2>7, <2>8 DEF Next
<1> QED BY <1>1, <1>2

\* Every step keeps ReadInv.
LEMMA ReadInvStep ==
  /\ PortsInv /\ (\A r \in Request : ReadInv(r)) /\ (\A r \in Request : FreshInv(r)) /\ [Next]_vars
  => \A r \in Request : ReadInv(r)'
<1> SUFFICES ASSUME PortsInv, \A r \in Request : ReadInv(r), \A r \in Request : FreshInv(r),
                    [Next]_vars, NEW r \in Request
             PROVE  ReadInv(r)'
  OBVIOUS
<1>a. r \in Process /\ r # Ticker BY DEF Process, Request, Ticker
<1>b. RequestInv(r) /\ WorkInv(r) /\ ReadInv(r) BY <1>a DEF PortsInv
<1>c. WillWrite(r) => req[r].port \in Port /\ got[r] \in Row /\ req[r].op # "sync"
  BY <1>b DEF WillWrite, RequestInv, WorkInv
<1>1. ASSUME NEW x \in Request, NEW op \in {"create", "update", "delete"}, NEW p \in Port, NEW w,
             Statement(x, op, p, w), orphan' \in {orphan, orphan \union AtWork(x, p)}
      PROVE  ReadInv(r)'
  <2>1. x \in Process BY DEF Process
  <2>2. /\ pc'[x] = "done" /\ got' = got /\ crossed' = crossed \union AtWork(x, p)
        /\ row' = [row EXCEPT ![p] = w] /\ pc[x] = "idle"
        /\ \A y \in Process \ {x} : pc'[y] = pc[y] /\ req'[y] = req[y]
    BY <1>1, <2>1 DEF Statement, Arrives, PortsInv, PortsShape
  <2>3. CASE x = r BY <2>2, <2>3 DEF ReadInv, WillWrite
  <2>4. CASE x # r
    <3>1. pc'[r] = pc[r] /\ req'[r] = req[r] BY <1>a, <2>2, <2>4
    <3>2. WillWrite(r)' <=> WillWrite(r) BY <3>1 DEF WillWrite
    <3>3. WillWrite(r) /\ req[r].port = p => r \in crossed'
      BY <2>2, <2>4 DEF AtWork, Others, WillWrite
    <3>4. WillWrite(r) /\ req[r].port # p => row'[req[r].port] = row[req[r].port]
      BY <1>c, <2>2 DEF PortsInv, PortsShape
    <3>5. r \in orphan' => r \in orphan \union crossed' BY <1>1, <2>2
    <3>6. CASE ~WillWrite(r) BY <3>2, <3>6 DEF ReadInv
    <3>7. CASE WillWrite(r) BY <1>b, <2>2, <3>1, <3>2, <3>3, <3>4, <3>5, <3>7, ReadStays
    <3> QED BY <3>6, <3>7
  <2> QED BY <2>3, <2>4
<1>2. ASSUME NEW x \in Request, NEW op, NEW p \in Port, NEW arg, NEW next,
             Reads(x, op, p, arg, next)
      PROVE  ReadInv(r)'
  <2>1. x \in Process BY DEF Process
  <2>2. /\ UNCHANGED <<row, orphan, crossed>> /\ got'[x] = row[p] /\ row[p] # None
        /\ req'[x].port = p /\ pc[x] = "idle"
        /\ \A y \in Process \ {x} : pc'[y] = pc[y] /\ req'[y] = req[y] /\ got'[y] = got[y]
    BY <1>2, <2>1 DEF Reads, Arrives, PortsInv, PortsShape
  <2>3. CASE x = r
    <3>1. r \notin orphan' BY <2>2, <2>3 DEF FreshInv
    <3> QED BY <2>2, <2>3, <3>1 DEF ReadInv, AlikeRows
  <2>4. CASE x # r
    <3>1. pc'[r] = pc[r] /\ req'[r] = req[r] /\ got'[r] = got[r] BY <1>a, <2>2, <2>4
    <3>2. WillWrite(r)' <=> WillWrite(r) BY <3>1 DEF WillWrite
    <3> QED BY <1>b, <2>2, <3>1, <3>2, ReadStays
  <2> QED BY <2>3, <2>4
<1>3. ASSUME NEW x \in Process, pc[x] = "idle", PollSNMP(x) PROVE ReadInv(r)'
  <2>1. /\ UNCHANGED <<row, got, orphan, crossed>> /\ pc'[x] = "asked" /\ req'[x].op = "sync"
        /\ \A y \in Process \ {x} : pc'[y] = pc[y] /\ req'[y] = req[y]
    BY <1>3 DEF PollSNMP, Arrives, PortsInv, PortsShape
  <2>2. CASE x = r BY <2>1, <2>2 DEF ReadInv, WillWrite
  <2>3. CASE x # r
    <3>1. pc'[r] = pc[r] /\ req'[r] = req[r] BY <1>a, <2>1, <2>3
    <3>2. WillWrite(r)' <=> WillWrite(r) BY <3>1 DEF WillWrite
    <3> QED BY <1>b, <2>1, <3>1, <3>2, ReadStays
  <2> QED BY <2>2, <2>3
<1>4. ASSUME NEW x \in Request, Operator(x) PROVE ReadInv(r)'
  <2>1. PollSNMP(x) => pc[x] = "idle" BY DEF PollSNMP, Arrives
  <2>2. x \in Process BY DEF Process
  <2> QED BY <1>1, <1>2, <1>3, <1>4, <2>1, <2>2
          DEF Operator, CreatePort, UpdatePort, DeletePort, LinkPortToServer, UnlinkPort,
              ProvisionPort, TogglePortAdmin
<1>5. CASE Tick
  <2>1. Ticker \in Process BY DEF Process
  <2> QED BY <1>3, <1>5, <2>1 DEF Tick
<1>6. ASSUME NEW x \in Process, Agent(x) PROVE ReadInv(r)'
  <2>1. UNCHANGED <<row, req, pc, orphan, crossed>>
    BY <1>6 DEF Agent, LookAtPort, Configure, HandleSNMPPoll
  <2>2. req[r].op # "sync" => got'[r] = got[r]
    BY <1>6, <1>a DEF Agent, LookAtPort, Configure, HandleSNMPPoll, PortsInv, PortsShape
  <2>3. WillWrite(r)' <=> WillWrite(r) BY <2>1 DEF WillWrite
  <2> QED BY <1>b, <1>c, <2>1, <2>2, <2>3, ReadStays
<1>7. ASSUME NEW x \in Process, Receive(x) \/ TimeOut(x) PROVE ReadInv(r)'
  <2>1. /\ UNCHANGED <<row, req, got, orphan, crossed>> /\ pc[x] = "asked"
        /\ \A y \in Process \ {x} : pc'[y] = pc[y]
    BY <1>7 DEF Receive, TimeOut, PortsInv, PortsShape
  <2>2. WillWrite(r)' => WillWrite(r) BY <1>a, <2>1 DEF WillWrite
  <2> QED BY <1>b, <2>1, <2>2, ReadStays
<1>8. ASSUME NEW x \in Process, WriteBack(x) PROVE ReadInv(r)'
  <2> DEFINE p == req[x].port
  <2>1. /\ pc[x] = "write" /\ pc'[x] = "done" /\ UNCHANGED <<req, orphan>>
        /\ crossed' = (crossed \union AtWork(x, p)) \ {x}
        /\ \E w : row' = IF x \in orphan THEN row ELSE [row EXCEPT ![p] = w]
        /\ \A y \in Process \ {x} : pc'[y] = pc[y] /\ got'[y] = got[y]
    BY <1>8 DEF WriteBack, PortsInv, PortsShape
  <2>2. CASE x = r BY <2>1, <2>2 DEF ReadInv, WillWrite
  <2>3. CASE x # r
    <3>1. pc'[r] = pc[r] /\ got'[r] = got[r] BY <1>a, <2>1, <2>3
    <3>2. WillWrite(r)' <=> WillWrite(r) BY <2>1, <3>1 DEF WillWrite
    <3>3. WillWrite(r) /\ req[r].port = p => r \in crossed'
      BY <2>1, <2>3 DEF AtWork, Others, WillWrite
    <3>4. WillWrite(r) /\ req[r].port # p => row'[req[r].port] = row[req[r].port]
      BY <1>c, <2>1 DEF PortsInv, PortsShape
    <3>5. r \in crossed => r \in crossed' BY <2>1, <2>3
    <3>6. CASE ~WillWrite(r) BY <3>2, <3>6 DEF ReadInv
    <3>7. CASE r \in crossed' BY <3>7 DEF ReadInv
    <3>8. CASE WillWrite(r) /\ r \notin crossed'
      <4>1. row'[req[r].port] = row[req[r].port] BY <3>3, <3>4, <3>8
      <4> QED BY <1>b, <2>1, <3>1, <3>2, <3>5, <3>8, <4>1 DEF ReadInv, WillWrite
    <3> QED BY <3>6, <3>7, <3>8
  <2> QED BY <2>2, <2>3
<1>9. ASSUME NEW x \in Process, NEW p \in Port, UpsertPort(x, p) PROVE ReadInv(r)'
  <2>1. /\ p \in todo[x] /\ UNCHANGED <<req, orphan, crossed>>
        /\ row' = [row EXCEPT ![p] = Upsert(@, got[x][p])]
        /\ \A y \in Process \ {x} : pc'[y] = pc[y] /\ got'[y] = got[y]
    BY <1>9 DEF UpsertPort, PortsInv, PortsShape
  <2>2. got[x] \in [Port -> Nat] /\ req[x].op = "sync" BY <2>1 DEF PortsInv, WorkInv
  <2>3. CASE x = r BY <2>1, <2>2, <2>3 DEF ReadInv, WillWrite
  <2>4. CASE x # r
    <3>1. pc'[r] = pc[r] /\ got'[r] = got[r] BY <1>a, <2>1, <2>4
    <3>2. WillWrite(r)' <=> WillWrite(r) BY <2>1, <3>1 DEF WillWrite
    <3>3. ASSUME WillWrite(r), row[req[r].port] # None
          PROVE  \/ row'[req[r].port] = row[req[r].port]
                 \/ /\ row'[req[r].port] # None
                    /\ AlikeRows(row'[req[r].port], row[req[r].port])
      <4>1. CASE req[r].port = p
        <5>1. row[p] \in Row /\ got[x][p] \in Nat
          BY <2>2, <3>3, <4>1 DEF PortsInv, PortsShape
        <5>2. row'[p] = Upsert(row[p], got[x][p]) BY <2>1 DEF PortsInv, PortsShape
        <5> QED BY <4>1, <5>1, <5>2, UpsertAlike
      <4>2. CASE req[r].port # p BY <1>c, <2>1, <3>3, <4>2 DEF PortsInv, PortsShape
      <4> QED BY <4>1, <4>2
    <3>4. CASE ~WillWrite(r) BY <3>2, <3>4 DEF ReadInv
    <3>5. CASE WillWrite(r) /\ row[req[r].port] # None
      BY <1>b, <2>1, <3>1, <3>2, <3>3, <3>5, ReadStays
    <3>6. CASE WillWrite(r) /\ row[req[r].port] = None
      BY <1>b, <2>1, <3>6 DEF ReadInv
    <3> QED BY <3>4, <3>5, <3>6
  <2> QED BY <2>3, <2>4
<1>10. CASE UNCHANGED vars
  <2>1. WillWrite(r)' <=> WillWrite(r) BY <1>10 DEF vars, WillWrite
  <2> QED BY <1>b, <1>10, <2>1, ReadStays DEF vars
<1> QED BY <1>4, <1>5, <1>6, <1>7, <1>8, <1>9, <1>10 DEF Next, Backend

\* WritesOnlyItsField: a link, an unlink or a toggle whose row no other request wrote while it
\* was at work changes its own field, and the columns that polls store are then as they were
\* when it read the row, whatever polls stored meanwhile.
THEOREM OnlyFieldWritten == Spec => WritesOnlyItsField
<1> DEFINE Reading == \A r \in Request : ReadInv(r)
           Fresh   == \A r \in Request : FreshInv(r)
           OwnField ==
             \A r \in Request :
               WriteBack(r) /\ r \notin crossed /\ row[req[r].port] # None =>
                 LET p == req[r].port
                 IN IF req[r].op = "toggle"
                    THEN row'[p] = [PolledAs(row[p], got[r]) EXCEPT !.admin = req[r].arg]
                    ELSE row'[p] = [PolledAs(row[p], got[r]) EXCEPT !.server = req[r].arg]
<1>1. Init => Reading /\ Fresh BY DEF Init, ReadInv, FreshInv, WillWrite, Process
<1>2. PortsInv /\ Reading /\ Fresh /\ [Next]_vars => Reading' /\ Fresh'
  BY ReadInvStep, FreshInvStep
<1>3. PortsInv /\ Reading => OwnField
  <2> SUFFICES ASSUME PortsInv, Reading, NEW r \in Request, WriteBack(r), r \notin crossed
               PROVE  LET p == req[r].port
                      IN IF req[r].op = "toggle"
                         THEN row'[p] = [PolledAs(row[p], got[r]) EXCEPT !.admin = req[r].arg]
                         ELSE row'[p] = [PolledAs(row[p], got[r]) EXCEPT !.server = req[r].arg]
    OBVIOUS
  <2> DEFINE p == req[r].port
             w == IF req[r].op = "toggle" THEN [got[r] EXCEPT !.admin = req[r].arg]
                                          ELSE [got[r] EXCEPT !.server = req[r].arg]
  <2>1. RequestInv(r) /\ WorkInv(r) /\ ReadInv(r) BY DEF PortsInv, Process
  <2>2. /\ pc[r] = "write" /\ req[r].op # "sync"
        /\ row' = IF r \in orphan THEN row ELSE [row EXCEPT ![p] = w]
    BY DEF WriteBack
  <2>3. req[r].op \in {"link", "unlink", "toggle"} BY <2>1, <2>2 DEF RequestInv
  <2>4. p \in Port /\ got[r] \in Row BY <2>1, <2>2, <2>3 DEF RequestInv, WorkInv
  <2>5. r \notin orphan /\ row[p] # None /\ AlikeRows(row[p], got[r])
    BY <2>1, <2>2, <2>3 DEF ReadInv, WillWrite
  <2>6. row[p] \in Row BY <2>4, <2>5 DEF PortsInv, PortsShape
  <2>7. row'[p] = w BY <2>2, <2>4, <2>5 DEF PortsInv, PortsShape
  <2>8. CASE req[r].op = "toggle"
    <3>1. req[r].arg \in Text BY <2>1, <2>8 DEF RequestInv, Text
    <3>2. w = [PolledAs(row[p], got[r]) EXCEPT !.admin = req[r].arg]
      <4>1. w = [got[r] EXCEPT !.admin = req[r].arg] BY <2>8
      <4> DEFINE old == row[p]
                 read == got[r]
                 arg == req[r].arg
      <4>2. /\ old \in Row /\ read \in Row /\ AlikeRows(old, read)
            /\ arg \in Text
        BY <2>4, <2>5, <2>6, <3>1
      <4>3. w = [read EXCEPT !.admin = arg] BY <4>1
      <4> HIDE DEF w, old, read, arg
      <4> DEFINE u == [PolledAs(old, read) EXCEPT !.admin = arg]
      <4>4. w \in Row /\ u \in Row BY <4>2, <4>3 DEF Row, PolledAs
      <4>5. AlikeRows(w, u) /\ w.vlan = u.vlan /\ w.polled = u.polled
        BY <4>2, <4>3 DEF AlikeRows, PolledAs, Row
      <4> HIDE DEF u
      <4>6. w = u BY <4>4, <4>5, RowEqual
      <4> QED BY <4>6 DEF u, old, read, arg
    <3> QED BY <2>7, <2>8, <3>2
  <2>9. CASE req[r].op # "toggle"
    <3>1. req[r].arg \in Server \union {None} BY <2>1, <2>3, <2>9 DEF RequestInv
    <3>2. w = [PolledAs(row[p], got[r]) EXCEPT !.server = req[r].arg]
      <4>1. w = [got[r] EXCEPT !.server = req[r].arg] BY <2>9
      <4> DEFINE old == row[p]
                 read == got[r]
                 arg == req[r].arg
      <4>2. /\ old \in Row /\ read \in Row /\ AlikeRows(old, read)
            /\ arg \in Server \union {None}
        BY <2>4, <2>5, <2>6, <3>1
      <4>3. w = [read EXCEPT !.server = arg] BY <4>1
      <4> HIDE DEF w, old, read, arg
      <4> DEFINE u == [PolledAs(old, read) EXCEPT !.server = arg]
      <4>4. w \in Row /\ u \in Row BY <4>2, <4>3 DEF Row, PolledAs
      <4>5. AlikeRows(w, u) /\ w.vlan = u.vlan /\ w.polled = u.polled
        BY <4>2, <4>3 DEF AlikeRows, PolledAs, Row
      <4> HIDE DEF u
      <4>6. w = u BY <4>4, <4>5, RowEqual
      <4> QED BY <4>6 DEF u, old, read, arg
    <3> QED BY <2>7, <2>9, <3>2
  <2> QED BY <2>8, <2>9
<1>4. PortsInv /\ Reading /\ [Next]_vars => [OwnField]_vars BY <1>3
<1>5. Spec => [][OwnField]_vars
  <2> HIDE DEF Reading, Fresh, OwnField
  <2> QED BY <1>1, <1>2, <1>4, PortsInvInit, PortsInvStep, PTL DEF Spec
<1> QED BY <1>5 DEF WritesOnlyItsField
=============================================================================
