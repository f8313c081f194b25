-------------------------------- MODULE IPAM --------------------------------
(***************************************************************************)
(* The addresses of the IP pools and the VLANs of the servers' switch      *)
(* ports that follow them.                                                 *)
(*   backend/internal/service/ip_service.go                                *)
(*   backend/internal/repository/postgres/{ip_address,ip_pool,switch_port}_repo.go *)
(* A request runs in a goroutine of its own and makes its queries one at a *)
(* time, with no transaction around them: each step below is one query.    *)
(* The ports are those of one switch, on which VLANs are allocated, and    *)
(* their links to servers do not change.  What the switch itself is told   *)
(* is left out: the code drops a failure there.  (So is a panic of         *)
(* SendRequest, hub.go:161, which would end a request between two ports.)  *)
(* The pools exist at the start, with no addresses.                        *)
(***************************************************************************)
EXTENDS Naturals, FiniteSets, FiniteSetsExt, Functions

CONSTANTS Call,         \* the goroutines of requests; each serves one after another
          Server, Pool,
          Host,         \* the addresses, in the order of the column "address"
          Port,         \* the switch's ports, by port_index
          Vlan,         \* the VLANs of the pools' settings
          Hosts,        \* the host addresses of a pool's network
          Gateway,      \* a pool's gateway
          Network,      \* a pool's place in the order of the column "network"
          LinkedTo,     \* the server a port is linked to, or None
          Config,       \* the settings a pool may have
          Request,      \* the requests that clients make
          MaxRequests,  \* a bound on the requests made
          MaxEdits,     \* a bound on the changes made to pools
          None

Modes    == {"access", "trunk_native", "trunk"}
Statuses == {"available", "assigned", "reserved"}

\* What a client may ask for.
RequestType ==
  UNION {[op : {"assign"}, pool : Pool, server : Server, preview : BOOLEAN],
         [op : {"auto"}, pools : SUBSET Pool, server : Server, preview : BOOLEAN],
         [op : {"update"}, addr : Host, status : Statuses \union {None}, server : Server \union {None}],
         [op : {"delete"}, addr : Host],
         [op : {"create"}, pool : Pool, addr : Host, status : Statuses, server : Server \union {None}],
         [op : {"generate"}, pool : Pool, reserve : BOOLEAN]}

ASSUME NetworkAssumption ==
  /\ Pool # {} /\ Host \subseteq Nat /\ IsFiniteSet(Host)
  /\ Hosts \in [Pool -> SUBSET Host] /\ Network \in [Pool -> Nat]

ASSUME PortAssumption ==
  /\ Port \subseteq Nat /\ Vlan \subseteq Nat \ {0}
  /\ LinkedTo \in [Port -> Server \union {None}]

ASSUME ClientAssumption ==
  /\ Request \subseteq RequestType
  /\ Config \subseteq [automation : BOOLEAN, mode : Modes, vlan : Vlan \union {0}, range : SUBSET Vlan]
  /\ MaxRequests \in Nat /\ MaxEdits \in Nat

ASSUME NoneAssumption ==
  /\ None \notin Server /\ None \notin Pool /\ None \notin Host
  /\ None \notin Config /\ None \notin Request /\ None \notin Statuses

VARIABLES
  pool,      \* ip_pools: a pool's settings, None when it is deleted
  row,       \* ip_addresses: the row of an address and the number of its insertion
  port,      \* switch_ports: mode and VLANs
  step,      \* where a goroutine is
  job,       \* the local variables of a goroutine
  requests,  \* how many requests were made
  edits,     \* how many changes were made to pools
  disturbed, \* the goroutines whose request lost its client, or ran beside another request
             \* or a change to a pool
  kept,      \* the addresses generated as reserved that no update wrote since
  followed   \* so far, requests were not disturbed and asked only for what the ports follow

data  == <<pool, row, port>>
ghost == <<disturbed, kept, followed>>
vars  == <<data, step, job, requests, edits, ghost>>

Access(v)   == [mode |-> "access", vlan |-> v, native |-> 0]
Native(v)   == [mode |-> "trunk_native", vlan |-> 0, native |-> v]
Trunk       == [mode |-> "trunk", vlan |-> 0, native |-> 0]
DefaultPort == Access(1)

Steps    == {"idle", "list", "pick", "take", "read", "write", "count", "delete", "insert",
             "generate", "pool", "ports", "vlan", "port"}
Row      == [id : Nat, pool : Pool, status : Statuses \union {"absent"},
             server : Server \union {None}]
PortRow  == [mode : Modes, vlan : Vlan \union {0, 1},
             native : Vlan \union {0}]

\* The local variables: the request, the pool it works on, the address it
\* read, the pool's settings, the ports left to configure as they were read,
\* the VLAN allocated (0: none), whether the ports are to be reverted, and
\* the addresses left to generate.
Job   == [req : Request \union {None}, from : Pool \union {None}, addr : Host \union {None},
          got : Row \union {None}, cfg : Config \union {None},
          todo : UNION {[qs -> PortRow] : qs \in SUBSET Port},
          vid : Vlan \union {0}, revert : BOOLEAN, left : SUBSET Host]
NoJob == [req |-> None, from |-> None, addr |-> None, got |-> None, cfg |-> None,
          todo |-> <<>>, vid |-> 0, revert |-> FALSE, left |-> {}]

Holds(r, s) == r.status = "assigned" /\ r.server = s
HeldBy(s)   == {a \in Host : Holds(row[a], s)}
Assigned(r) == r.status = "assigned" /\ r.server # None
\* Fault: GetNextAvailable with a weaker condition on the status.
NotAssigned(p) == {a \in Host : row[a].pool = p /\ row[a].status \notin {"absent", "assigned"}}

Available(p) == {a \in Host : row[a].pool = p /\ row[a].status = "available"}
Active      == {c \in Call : step[c] # "idle"}

TypeOK ==
  /\ pool \in [Pool -> Config \union {None}]
  /\ row \in [Host -> Row]
  /\ port \in [Port -> PortRow]
  /\ step \in [Call -> Steps]
  /\ job \in [Call -> Job]
  /\ \A c \in Call : step[c] = "idle" <=> job[c] = NoJob
  /\ requests \in 0 .. MaxRequests
  /\ edits \in 0 .. MaxEdits
  /\ disturbed \subseteq Call
  /\ kept \subseteq Host
  /\ followed \in BOOLEAN

Init ==
  /\ pool \in [Pool -> Config]
  /\ row = [a \in Host |-> [id |-> 0, pool |-> CHOOSE p \in Pool : TRUE, status |-> "absent",
                            server |-> None]]
  /\ port = [q \in Port |-> DefaultPort]
  /\ step = [c \in Call |-> "idle"]
  /\ job = [c \in Call |-> NoJob]
  /\ requests = 0
  /\ edits = 0
  /\ disturbed = {}
  /\ kept = {}
  /\ followed = TRUE

-----------------------------------------------------------------------------
Goto(c, where, locals) == /\ step' = [step EXCEPT ![c] = where]
                          /\ job' = [job EXCEPT ![c] = locals]
Return(c) == Goto(c, "idle", NoJob)

FirstStep(r) == CASE r.op = "assign"   -> "pick"
                  [] r.op = "auto"     -> "list"
                  [] r.op = "create"   -> "insert"
                  [] r.op = "generate" -> "generate"
                  [] OTHER             -> "read"

\* A client's request.  An update or a delete names a row the client saw listed.
Begin(c, r) ==
  /\ step[c] = "idle"
  /\ requests < MaxRequests
  /\ r.op \in {"update", "delete"} => row[r.addr].status # "absent"
  /\ Goto(c, FirstStep(r),
          [NoJob EXCEPT !.req = r,
                        !.from = IF r.op \in {"assign", "create", "generate"} THEN r.pool ELSE None,
                        !.addr = IF r.op \in {"update", "delete", "create"} THEN r.addr ELSE None,
                        !.got = IF r.op \in {"update", "delete"} THEN row[r.addr] ELSE None,
                        !.left = IF r.op = "generate" THEN Hosts[r.pool] ELSE {}])
  /\ requests' = requests + 1
  /\ disturbed' = IF Active = {} THEN disturbed \ {c} ELSE disturbed \union Active \union {c}
  /\ followed' = (followed /\ Active = {})
  /\ UNCHANGED <<data, edits, kept>>

\* The client of a request goes away.  Its context is cancelled and every query
\* it still has fails, which the code meets by making no other change.
ClientGoes(c) ==
  /\ step[c] # "idle"
  /\ Return(c)
  /\ disturbed' = disturbed \union {c}
  /\ followed' = FALSE
  /\ UNCHANGED <<data, requests, edits, kept>>

\* An administrator changes the settings of a pool: nothing is applied to its addresses.
UpdatePool(p, k) ==
  /\ edits < MaxEdits
  /\ pool[p] \notin {None, k}
  /\ pool' = [pool EXCEPT ![p] = k]
  /\ edits' = edits + 1
  /\ disturbed' = disturbed \union Active
  /\ followed' = FALSE
  /\ UNCHANGED <<row, port, step, job, requests, kept>>

\* A pool is deleted, and its addresses with it.
DeletePool(p) ==
  /\ edits < MaxEdits
  /\ pool[p] # None
  /\ pool' = [pool EXCEPT ![p] = None]
  /\ row' = [a \in Host |-> IF row[a].pool = p THEN [row[a] EXCEPT !.status = "absent"] ELSE row[a]]
  /\ edits' = edits + 1
  /\ disturbed' = disturbed \union Active
  /\ followed' = FALSE
  /\ UNCHANGED <<port, step, job, requests, kept>>

-----------------------------------------------------------------------------
(* The queries on addresses.                                               *)

\* The row a goroutine read is still in the table.
Exists(c) == LET r == row[job[c].addr] IN r.id = job[c].got.id /\ r.status # "absent"

\* UPDATE of the row a goroutine read: no row, and no error, when it was deleted since.
Write(c, status, server) ==
  row' = IF Exists(c)
         THEN [row EXCEPT ![job[c].addr].status = status, ![job[c].addr].server = server]
         ELSE row

\* INSERT of an address: none when it exists in any pool or its pool is gone.
CanInsert(a, p) == row[a].status = "absent" /\ pool[p] # None
InsertRow(a, p, status, server) ==
  row' = [row EXCEPT ![a] = [id |-> row[a].id + 1, pool |-> p, status |-> status,
                             server |-> server]]

\* GetNextAvailable.
NextAvailable(p) == Min(Available(p))

\* Fault: ListAllAssignable without the count of available addresses.
EveryPool == {p \in Pool : pool[p] # None}

\* ListAllAssignable: the pools with an available address.
Assignable == {p \in Pool : pool[p] # None /\ Available(p) # {}}

\* AutoAssign takes the first of them that has the VRF asked for.
ListPools(c) ==
  /\ step[c] = "list"
  /\ LET choice == Assignable \intersect job[c].req.pools
     IN IF choice = {}
        THEN Return(c)
        ELSE \E p \in choice : /\ \A q \in choice : Network[p] <= Network[q]
                               /\ Goto(c, "pick", [job[c] EXCEPT !.from = p])
  /\ UNCHANGED <<data, requests, edits, ghost>>

\* AssignNextAvailable reads the pool's first available address, or gives up.
Pick(c) ==
  /\ step[c] = "pick"
  /\ LET p == job[c].from
     IN IF Available(p) = {}
        THEN Return(c)
        ELSE Goto(c, "take", [job[c] EXCEPT !.addr = NextAvailable(p),
                                            !.got = row[NextAvailable(p)]])
  /\ UNCHANGED <<data, requests, edits, ghost>>

\* It writes the server into the row it read, whatever the row holds now.
Take(c) ==
  /\ step[c] = "take"
  /\ Write(c, "assigned", job[c].req.server)
  /\ Goto(c, "pool", job[c])
  /\ followed' = (followed /\ ~job[c].req.preview)
  /\ UNCHANGED <<pool, port, requests, edits, disturbed, kept>>

\* UpdateAddress and DeleteAddress read the row; Delete goes on without one.
ReadRow(c) ==
  /\ step[c] = "read"
  /\ LET got == row[job[c].addr]
     IN IF job[c].req.op = "update"
        THEN IF Exists(c) THEN Goto(c, "write", [job[c] EXCEPT !.got = got])
                          ELSE Return(c)
        ELSE IF Exists(c) /\ Assigned(got)
             THEN Goto(c, "count", [job[c] EXCEPT !.got = got, !.from = got.pool])
             ELSE Goto(c, "delete", job[c])
  /\ UNCHANGED <<data, requests, edits, ghost>>

\* UpdateAddress writes the row: the status asked for or the one it read, and the
\* server asked for or none.  The ports are left alone when the address stays assigned.
WriteRow(c) ==
  /\ step[c] = "write"
  /\ LET old == job[c].got
         new == [old EXCEPT !.status = IF job[c].req.status = None THEN @ ELSE job[c].req.status,
                            !.server = job[c].req.server]
     IN /\ Write(c, new.status, new.server)
        /\ CASE Assigned(old) /\ new.status # "assigned" ->
                  Goto(c, "count", [job[c] EXCEPT !.from = old.pool])
             [] Assigned(new) /\ ~Assigned(old) ->
                  Goto(c, "pool", [job[c] EXCEPT !.from = old.pool])
             [] OTHER -> Return(c)
        /\ followed' = (followed /\ (Assigned(old) /\ new.status = "assigned"
                                       => new.server = old.server))
  /\ kept' = kept \ {job[c].addr}
  /\ UNCHANGED <<pool, port, requests, edits, disturbed>>

\* CountAssignedByPoolAndServer.  The row itself counts in a delete, which
\* comes after; in an update it was written before.
Count(c) == Cardinality({a \in HeldBy(job[c].got.server) : row[a].pool = job[c].from})

\* Fault: DeleteAddress counts the other addresses as if its own were gone already.
CountRemaining(c) ==
  /\ step[c] = "count"
  /\ IF job[c].req.op = "delete"
     THEN Goto(c, "delete", [job[c] EXCEPT !.revert = Count(c) = 0])
     ELSE IF Count(c) = 0
          THEN Goto(c, "pool", [job[c] EXCEPT !.revert = TRUE])
          ELSE Return(c)
  /\ UNCHANGED <<data, requests, edits, ghost>>

CountRows(c) ==
  /\ step[c] = "count"
  /\ IF job[c].req.op = "delete"
     THEN Goto(c, "delete", [job[c] EXCEPT !.revert = Count(c) <= 1])
     ELSE IF Count(c) = 0
          THEN Goto(c, "pool", [job[c] EXCEPT !.revert = TRUE])
          ELSE Return(c)
  /\ UNCHANGED <<data, requests, edits, ghost>>

DeleteRow(c) ==
  /\ step[c] = "delete"
  /\ row' = IF Exists(c) THEN [row EXCEPT ![job[c].addr].status = "absent"] ELSE row
  /\ IF job[c].revert THEN Goto(c, "pool", job[c]) ELSE Return(c)
  /\ UNCHANGED <<pool, port, requests, edits, ghost>>

\* CreateAddress: any status and server, and no port is configured.
Insert(c) ==
  /\ step[c] = "insert"
  /\ LET r == job[c].req
     IN IF CanInsert(r.addr, r.pool)
        THEN /\ InsertRow(r.addr, r.pool, r.status, r.server)
             /\ kept' = kept \ {r.addr}
             /\ followed' = (followed /\ ~(r.status = "assigned" /\ r.server # None))
        ELSE UNCHANGED <<row, kept, followed>>
  /\ Return(c)
  /\ UNCHANGED <<pool, port, requests, edits, disturbed>>

\* GeneratePoolIPs: the next address; one that exists is skipped.
Generate(c) ==
  /\ step[c] = "generate"
  /\ IF job[c].left = {}
     THEN Return(c) /\ UNCHANGED <<row, kept>>
     ELSE LET p == job[c].from
              a == Min(job[c].left)
              reserved == job[c].req.reserve /\ a = Gateway[p]
          IN /\ IF CanInsert(a, p)
                THEN /\ InsertRow(a, p, IF reserved THEN "reserved" ELSE "available", None)
                     /\ kept' = IF reserved THEN kept \union {a} ELSE kept \ {a}
                ELSE UNCHANGED <<row, kept>>
             /\ IF job[c].left = {a} THEN Return(c)
                ELSE Goto(c, "generate", [job[c] EXCEPT !.left = @ \ {a}])
  /\ UNCHANGED <<pool, port, requests, edits, disturbed, followed>>

-----------------------------------------------------------------------------
(* The queries on ports: provisionServerPort and unprovisionServerPort.    *)

\* The server whose ports a goroutine configures.
Target(c) == IF job[c].revert THEN job[c].got.server ELSE job[c].req.server

\* The pool's settings.
ReadPool(c) ==
  /\ step[c] = "pool"
  /\ LET k == pool[job[c].from]
     IN IF k = None THEN Return(c)
        ELSE IF k.automation THEN Goto(c, "ports", [job[c] EXCEPT !.cfg = k])
        ELSE Return(c)
  /\ UNCHANGED <<data, requests, edits, ghost>>

\* A preview stops before the ports are configured.
Preview(c) == ~job[c].revert /\ job[c].req.op # "update" /\ job[c].req.preview

\* Where the loop over the ports goes on.
NextPort(j) ==
  IF ~j.revert /\ j.cfg.range # {} /\ j.cfg.mode # "trunk" THEN "vlan" ELSE "port"

\* The rows of the server's ports.
ReadPorts(c) ==
  /\ step[c] = "ports"
  /\ LET qs == {q \in Port : LinkedTo[q] = Target(c)}
     IN IF qs = {} \/ Preview(c)
        THEN Return(c)
        ELSE Goto(c, NextPort(job[c]), [job[c] EXCEPT !.todo = [q \in qs |-> port[q]]])
  /\ UNCHANGED <<data, requests, edits, ghost>>

\* ListUsedVlanIDs reads the column vlan_id, and no other, of every port of the switch.
UsedVlans == {port[q].vlan : q \in Port}

\* Fault: the walk of the range starts one VLAN too low.
AllocateTooLow(c) ==
  /\ step[c] = "vlan"
  /\ LET free == (job[c].cfg.range \union {Min(job[c].cfg.range) - 1}) \ UsedVlans
     IN /\ Goto(c, "port", [job[c] EXCEPT !.vid = IF free = {} THEN 0 ELSE Min(free)])
        /\ followed' = (followed /\ free # {})
  /\ UNCHANGED <<data, requests, edits, disturbed, kept>>

\* allocateVlanFromRange: 0 when every VLAN of the range is used.
AllocateVlan(c) ==
  /\ step[c] = "vlan"
  /\ LET free == job[c].cfg.range \ UsedVlans
     IN /\ Goto(c, "port", [job[c] EXCEPT !.vid = IF free = {} THEN 0 ELSE Min(free)])
        /\ followed' = (followed /\ free # {})
  /\ UNCHANGED <<data, requests, edits, disturbed, kept>>

\* What a port is to be, from the pool's settings k, the VLAN allocated and the row read.
\* (A pool has one of three modes, and an empty range stands for fixed VLANs.  The
\* API lets two more through: a mode of another name, of which a port gets the name and no
\* VLAN, and auto_range with an invalid range, which leaves the port the VLAN it had,
\* ip_service.go:334.)
NewPortRow(k, vid, r) ==
  CASE k.mode = "access"       -> Access(IF k.range = {} THEN k.vlan
                                         ELSE IF vid > 0 THEN vid ELSE r.vlan)
    [] k.mode = "trunk_native" -> Native(IF k.range = {} THEN k.vlan
                                         ELSE IF vid > 0 THEN vid ELSE r.native)
    [] OTHER                   -> Trunk

\* One port is written, and the loop goes on.
SavePort(c) ==
  /\ step[c] = "port"
  /\ LET j == job[c]
         q == Min(DOMAIN j.todo)
         rest == DOMAIN j.todo \ {q}
     IN /\ port' = [port EXCEPT ![q] = IF j.revert THEN DefaultPort
                                       ELSE NewPortRow(j.cfg, j.vid, j.todo[q])]
        /\ IF rest = {} THEN Return(c)
           ELSE Goto(c, NextPort(j),
                     [j EXCEPT !.todo = Restrict(@, rest), !.vid = 0])
  /\ UNCHANGED <<pool, row, requests, edits, ghost>>

-----------------------------------------------------------------------------
RequestStep(c) ==
  \/ ListPools(c) \/ Pick(c) \/ Take(c)
  \/ ReadRow(c) \/ WriteRow(c) \/ CountRows(c) \/ DeleteRow(c)
  \/ Insert(c) \/ Generate(c)
  \/ ReadPool(c) \/ ReadPorts(c) \/ AllocateVlan(c) \/ SavePort(c)

Next == \/ \E c \in Call : RequestStep(c) \/ ClientGoes(c) \/ \E r \in Request : Begin(c, r)
        \/ \E p \in Pool : DeletePool(p) \/ \E k \in Config : UpdatePool(p, k)

Spec == Init /\ [][Next]_vars

-----------------------------------------------------------------------------
(* Properties.                                                             *)

\* A request that nothing disturbs never takes an address from its holder: the
\* address an assignment writes is available and the one it read, whatever
\* requests, updates, deletions and generations came before; and an
\* auto-assignment is refused only when no pool of the VRF has an available
\* address: the first pool that lists has one.
AssignsAlone ==
  [][\A c \in Call : c \notin disturbed' =>
       /\ step[c] = "take" /\ step'[c] # "take" =>
            row[job[c].addr] = job[c].got /\ row[job[c].addr].status = "available"
       /\ step[c] \in {"list", "pick"} /\ step'[c] = "idle" /\ job[c].req.op = "auto" =>
            Assignable \intersect job[c].req.pools = {}]_vars

\* A gateway that was generated as reserved is handed to no server, however
\* requests interleave, until an operator updates it or its row is deleted.
GatewayKept == \A a \in kept : row[a].status \in {"reserved", "absent"}

\* The port carries a VLAN of the pool's settings, in their mode.
OnPool(r, k) ==
  LET vids == IF k.range = {} THEN {k.vlan} ELSE k.range
  IN r \in CASE k.mode = "access"       -> {Access(v) : v \in vids}
             [] k.mode = "trunk_native" -> {Native(v) : v \in vids}
             [] OTHER                   -> {Trunk}

\* With one pool that automates the ports, and as long as requests keep their
\* clients, do not overlap and ask for no preview, no direct creation of an assigned address and no
\* move of an address between servers: when no request runs, the ports of a
\* server are on the pool's VLAN while it holds an address of the pool, and
\* back on the default VLAN once the last one is unassigned or deleted.
PortsFollowAddresses ==
  LET automatic == {p \in Pool : pool[p] # None /\ pool[p].automation}
  IN followed /\ Active = {} =>
       \A p \in automatic : automatic = {p} =>
         \A q \in Port : IF LinkedTo[q] # None /\ \E a \in HeldBy(LinkedTo[q]) : row[a].pool = p
                         THEN OnPool(port[q], pool[p])
                         ELSE port[q] = DefaultPort

-----------------------------------------------------------------------------
(* What the documents say and the code does not do.                        *)

\* A VLAN allocated from a pool's range is on one port of the switch.
RangeVlansDistinct ==
  LET carried(q) == IF port[q].mode = "trunk_native" THEN port[q].native ELSE port[q].vlan
      ranges     == UNION {k.range : k \in {pool[p] : p \in Pool} \ {None}}
  IN \A q, r \in Port : carried(q) = carried(r) /\ carried(q) \in ranges => q = r
=============================================================================
