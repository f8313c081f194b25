----------------------------- MODULE SwitchPorts -----------------------------
(***************************************************************************)
(* The ports of one switch: their rows in the database, their settings on  *)
(* the switch, and the requests that read and write both.                  *)
(*   backend/internal/service/switch_service.go, its handlers and repository *)
(*   agent/internal/executor/switch.go and snmp.go, at the agent           *)
(* A request reads the row it works on, asks the agent when it needs the   *)
(* switch, and may write the row back; a poll of the switch, asked for by  *)
(* an operator or by the ticker, stores the VLANs it found.  The backend   *)
(* gives up on the agent after 30 s; the agent, which does not know, may   *)
(* still be at work.  (A panic of SendRequest, hub.go:161, unwinds a       *)
(* request as an error does that writes nothing, and in the ticker's       *)
(* goroutine ends the backend, which is left out.)                         *)
(***************************************************************************)
EXTENDS SwitchCLI, FiniteSets

CONSTANTS Port,          \* the ports of the switch
          Server,        \* servers a port can be linked to
          Payload,       \* the rows operators send
          Stored,        \* the rows a port may have at first, None included
          Found,         \* the configurations it may have on the switch at first
          Elsewhere,     \* VLANs of the switch's other interfaces
          Vendor,        \* the vendor of the switch
          MaxRequests,   \* how many requests operators make
          None

ASSUME VendorAssumption == Vendor \in Vendors

\* A row of the table; the mode and the status of a port are texts nobody checks.
\* polled: the columns that polls store besides the VLAN (port_name, speed_mbps,
\* oper_status, last_polled) are those of a poll.
Row == [server : Server \union {None}, mode : Text, vlan : Nat, native : Nat,
        trunk : SUBSET Nat, admin : Text, polled : BOOLEAN]

ASSUME PortsAssumption ==
  /\ Payload \subseteq Row /\ Stored \subseteq Row \union {None}
  /\ Found \subseteq Configuration /\ Elsewhere \subseteq Nat /\ MaxRequests \in Nat
  /\ None \notin Row /\ None \notin Server /\ None \notin Port /\ None \notin Text \union {"ok", "error"}

Ticker   == 0
Request  == 1 .. MaxRequests
Process  == Request \union {Ticker}

VARIABLES
  row,       \* switch_ports: the row of a port, or None
  device,    \* the configuration of each port on the switch
  req,       \* what a process was asked: [op, port, arg]
  pc,        \* "idle", "asked" (the agent), "write" (the row), "done", "failed"
  got,       \* the row a request read; of a poll, the VLANs found
  todo,      \* the ports a poll has yet to store
  task,      \* the agent's work: "none", "sent", "apply", "over"
  answer,    \* its answer: None, "ok", "error"
  orphan,    \* requests whose row was deleted after they read it
  crossed,   \* requests whose row another request wrote since
  mixed      \* requests whose port another session configured since, or whose own
             \* session was cut off

vars == <<row, device, req, pc, got, todo, task, answer, orphan, crossed, mixed>>

NoRequest == [op |-> "none", port |-> None, arg |-> None]

Ops == {"none", "create", "update", "delete", "link", "unlink", "provision", "toggle", "sync"}

TypeOK ==
  /\ row \in [Port -> Row \union {None}]
  /\ device \in [Port -> Configuration]
  /\ req \in [Process -> [op : Ops, port : Port \union {None},
                         arg : Server \union {None, "up", "down"}]]
  /\ pc \in [Process -> {"idle", "asked", "write", "done", "failed"}]
  /\ task \in [Process -> {"none", "sent", "apply", "over"}]
  /\ answer \in [Process -> {None, "ok", "error"}]
  /\ todo \in [Process -> SUBSET Port]
  /\ orphan \subseteq Request /\ crossed \subseteq Request /\ mixed \subseteq Request
  /\ \A x \in Process :
       /\ got[x] # None => IF req[x].op = "sync" THEN got[x] \in [Port -> Nat] ELSE got[x] \in Row
       /\ answer[x] # None => task[x] = "over"
       /\ pc[x] = "write" => req[x].op \in {"link", "unlink", "toggle", "sync"}
       /\ todo[x] # {} => pc[x] = "write" /\ req[x].op = "sync"
  /\ \A r \in Request : pc[r] = "done" /\ req[r].op \in {"provision", "toggle"} => answer[r] = "ok"

Init ==
  /\ row \in [Port -> Stored]
  /\ device \in [Port -> Found]
  /\ req = [x \in Process |-> NoRequest]
  /\ pc = [x \in Process |-> "idle"]
  /\ got = [x \in Process |-> None]
  /\ todo = [x \in Process |-> {}]
  /\ task = [x \in Process |-> "none"]
  /\ answer = [x \in Process |-> None]
  /\ orphan = {} /\ crossed = {} /\ mixed = {}

-----------------------------------------------------------------------------
(* The repository, and the ticker's and the operators' requests.           *)

\* SwitchPortRepo.Create, whose polled columns are the operator's or none, and the
\* service's default.
Create(w) == [w EXCEPT !.mode  = IF @ = "" THEN "access" ELSE @,
                       !.admin = IF @ = "" THEN "up" ELSE @,
                       !.polled = FALSE]

\* The row of a port that a poll finds first.
NewRow(vlan) == [server |-> None, mode |-> "access", vlan |-> vlan, native |-> 0,
                 trunk |-> {}, admin |-> "up", polled |-> TRUE]

\* Fault: the agent's work does not end with its answer.
AnswersAndGoesOn(x, a) == answer' = [answer EXCEPT ![x] = a] /\ UNCHANGED task

\* Fault: the poll's status goes into the row as well.
UpsertAdmin(old, vlan) ==
  IF old = None THEN NewRow(vlan)
  ELSE [old EXCEPT !.vlan = IF vlan > 0 THEN vlan ELSE @, !.admin = "up", !.polled = TRUE]

\* Fault: the VLAN of a known port is not stored.
UpsertNoVlan(old, vlan) ==
  IF old = None THEN NewRow(vlan) ELSE [old EXCEPT !.polled = TRUE]

\* UpsertBySwitchAndIndex: the polled columns of a row that exists and its VLAN, when
\* one was found; a row of defaults otherwise.
Upsert(old, vlan) ==
  IF old = None THEN NewRow(vlan)
  ELSE [old EXCEPT !.vlan = IF vlan > 0 THEN vlan ELSE @, !.polled = TRUE]

\* The requests on port p but for x, and those still at work.
Others(x, p) == {y \in Request \ {x} : req[y].port = p}
AtWork(x, p) == {y \in Others(x, p) : pc[y] \in {"asked", "write"}}

\* Operators make their requests one after another, or none any more.
Arrives(x, op, p, arg) ==
  /\ x \in Request => pc[x] = "idle" /\ (x = 1 \/ pc[x - 1] # "idle")
  /\ req' = [req EXCEPT ![x] = [op |-> op, port |-> p, arg |-> arg]]
  /\ UNCHANGED device

\* A request that is one statement on the row of port p.
Statement(r, op, p, w) ==
  /\ Arrives(r, op, p, None)
  /\ row' = [row EXCEPT ![p] = w]
  /\ pc' = [pc EXCEPT ![r] = "done"]
  /\ crossed' = crossed \union AtWork(r, p)
  /\ UNCHANGED <<got, todo, task, answer, mixed>>

CreatePort(r, p, w) ==
  /\ row[p] = None
  /\ Statement(r, "create", p, Create(w))
  /\ UNCHANGED orphan

\* PUT: the whole row from the request, whatever the row holds.
UpdatePort(r, p, w) ==
  /\ row[p] # None
  /\ Statement(r, "update", p, w)
  /\ UNCHANGED orphan

DeletePort(r, p) ==
  /\ row[p] # None
  /\ Statement(r, "delete", p, None)
  /\ orphan' = orphan \union AtWork(r, p)

\* A request that reads the row first.
Reads(r, op, p, arg, next) ==
  /\ row[p] # None
  /\ Arrives(r, op, p, arg)
  /\ got' = [got EXCEPT ![r] = row[p]]
  /\ pc' = [pc EXCEPT ![r] = next]
  /\ UNCHANGED <<row, todo, answer, orphan, crossed, mixed>>

LinkPortToServer(r, p, s) == Reads(r, "link", p, s, "write") /\ UNCHANGED task
UnlinkPort(r, p) == Reads(r, "unlink", p, None, "write") /\ UNCHANGED task

\* The request goes to the agent.
ProvisionPort(r, p) ==
  Reads(r, "provision", p, None, "asked") /\ task' = [task EXCEPT ![r] = "sent"]
TogglePortAdmin(r, p, status) ==
  Reads(r, "toggle", p, status, "asked") /\ task' = [task EXCEPT ![r] = "apply"]

\* PollSNMP and SyncPortsFromSNMP of an operator, and the ticker's.
PollSNMP(x) ==
  /\ Arrives(x, "sync", None, None)
  /\ pc' = [pc EXCEPT ![x] = "asked"]
  /\ task' = [task EXCEPT ![x] = "sent"]
  /\ answer' = [answer EXCEPT ![x] = None]
  /\ UNCHANGED <<row, got, todo, orphan, crossed, mixed>>

\* StartPeriodicSNMPSync: the next round starts when the last one is through.
Tick == pc[Ticker] = "idle" /\ PollSNMP(Ticker)

-----------------------------------------------------------------------------
(* The agent.                                                              *)

Desired(r) == [mode |-> got[r].mode, vlan |-> got[r].vlan, native |-> got[r].native,
               trunk |-> got[r].trunk, admin |-> got[r].admin]

Commands(r) == IF req[r].op = "toggle" THEN PortAdminCommands(Vendor, req[r].arg)
                                       ELSE ProvisionCommands(Vendor, Desired(r))

Answers(x, a) ==
  /\ answer' = [answer EXCEPT ![x] = a]
  /\ task' = [task EXCEPT ![x] = "over"]

\* The first session of a provisioning shows the port: no_change when it is as
\* wanted, or seems so because the connection failed, and on with it when it is not
\* or could not be shown.
LookAtPort(r) ==
  LET shown == parsePortConfig(Vendor, device[req[r].port])
      asWanted(current) == CanShow(Vendor) /\ ~portNeedsChange(Desired(r), current)
  IN /\ task[r] = "sent" /\ req[r].op = "provision"
     /\ \/ asWanted(shown) /\ Answers(r, "ok") /\ UNCHANGED mixed
        \/ asWanted(CutShort(shown)) /\ Answers(r, "ok") /\ mixed' = mixed \union {r}
        \/ task' = [task EXCEPT ![r] = "apply"] /\ UNCHANGED <<answer, mixed>>
     /\ UNCHANGED <<row, device, req, pc, got, todo, orphan, crossed>>

\* The session that configures the port: all of its commands, or those up to where
\* the connection fails or its time is over, which is not always reported.
Configure(r) ==
  LET p == req[r].port
  IN /\ task[r] = "apply"
     /\ \/ /\ device' = [device EXCEPT ![p] = ExecSSH(@, Commands(r))]
           /\ Answers(r, "ok")
           /\ mixed' = mixed \union Others(r, p)
        \/ \E k \in 0 .. Len(Commands(r)), a \in {"ok", "error"} :
             /\ device' = [device EXCEPT ![p] = ExecSSH(@, SubSeq(Commands(r), 1, k))]
             /\ Answers(r, a)
             /\ mixed' = mixed \union Others(r, p) \union {r}
     /\ UNCHANGED <<row, req, pc, got, todo, orphan, crossed>>

\* The VLAN untagged frames of a port belong to.
PVID(config) == IF config.mode = "trunk" THEN config.native ELSE config.access

\* What a poll of the VLANs finds: them all; none (0), when no strategy works; or,
\* when the walk of the bridge ports fails, for a port the VLAN of the other
\* interface whose bridge port has its number.
pollPortVLANs ==
  {[p \in Port |-> PVID(device[p])]} \union [Port -> Elsewhere \union {0}]

HandleSNMPPoll(x) ==
  /\ task[x] = "sent" /\ req[x].op = "sync"
  /\ \/ Answers(x, "error") /\ UNCHANGED got
     \/ \E v \in pollPortVLANs : Answers(x, "ok") /\ got' = [got EXCEPT ![x] = v]
  /\ UNCHANGED <<row, device, req, pc, todo, orphan, crossed, mixed>>

-----------------------------------------------------------------------------
(* Back at the backend.                                                    *)

\* The ticker waits for its next round, whatever became of this one.
End(x, outcome) == IF x = Ticker THEN "idle" ELSE outcome

\* An answer: an error ends the request, and so does the success of a provisioning.
Receive(x) ==
  /\ pc[x] = "asked" /\ answer[x] # None
  /\ pc' = [pc EXCEPT ![x] = IF answer[x] = "error" THEN End(x, "failed")
                             ELSE IF req[x].op = "provision" THEN "done" ELSE "write"]
  /\ todo' = [todo EXCEPT ![x] = IF answer[x] = "ok" /\ req[x].op = "sync" THEN Port ELSE {}]
  /\ UNCHANGED <<row, device, req, got, task, answer, orphan, crossed, mixed>>

\* 30 s without an answer.  The agent's work goes on; of a poll nothing is left.
TimeOut(x) ==
  /\ pc[x] = "asked" /\ answer[x] = None
  /\ pc' = [pc EXCEPT ![x] = End(x, "failed")]
  /\ task' = [task EXCEPT ![x] = IF req[x].op = "sync" THEN "over" ELSE @]
  /\ UNCHANGED <<row, device, req, got, todo, answer, orphan, crossed, mixed>>

\* The row read at first goes back with one field changed, all its columns with it.
WriteBack(r) ==
  LET p == req[r].port
      w == IF req[r].op = "toggle" THEN [got[r] EXCEPT !.admin = req[r].arg]
                                   ELSE [got[r] EXCEPT !.server = req[r].arg]
  IN /\ pc[r] = "write" /\ req[r].op # "sync"
     /\ row' = IF r \in orphan THEN row ELSE [row EXCEPT ![p] = w]
     /\ pc' = [pc EXCEPT ![r] = "done"]
     /\ got' = [got EXCEPT ![r] = None]
     /\ crossed' = (crossed \union AtWork(r, p)) \ {r}
     /\ UNCHANGED <<device, req, todo, task, answer, orphan, mixed>>

\* upsertPortsFromSNMPPayload: the ports one by one.
UpsertPort(x, p) ==
  /\ p \in todo[x]
  /\ row' = [row EXCEPT ![p] = Upsert(@, got[x][p])]
  /\ todo' = [todo EXCEPT ![x] = @ \ {p}]
  /\ pc' = [pc EXCEPT ![x] = IF todo'[x] = {} THEN End(x, "done") ELSE @]
  /\ got' = [got EXCEPT ![x] = IF todo'[x] = {} THEN None ELSE @]
  /\ UNCHANGED <<device, req, task, answer, orphan, crossed, mixed>>

Agent(x)   == LookAtPort(x) \/ Configure(x) \/ HandleSNMPPoll(x)
Backend(x) == Receive(x) \/ TimeOut(x) \/ WriteBack(x) \/ \E p \in Port : UpsertPort(x, p)

\* The routes of the ports.
Operator(r) ==
  \/ PollSNMP(r)
  \/ \E p \in Port :
       \/ \E w \in Payload : CreatePort(r, p, w) \/ UpdatePort(r, p, w)
       \/ DeletePort(r, p)
       \/ \E s \in Server : LinkPortToServer(r, p, s)
       \/ UnlinkPort(r, p)
       \/ ProvisionPort(r, p)
       \/ \E status \in {"up", "down"} : TogglePortAdmin(r, p, status)

Next ==
  \/ \E r \in Request : Operator(r)
  \/ \E x \in Process : Agent(x) \/ Backend(x)
  \/ Tick

\* A complete poll of the ticker, answered in time.
GoodPoll ==
  /\ HandleSNMPPoll(Ticker)
  /\ answer'[Ticker] = "ok"
  /\ got'[Ticker] = [p \in Port |-> PVID(device[p])]

\* The ticker ticks, the agent works, the backend goes on; a poll that is tried
\* again and again is complete and in time again and again.
Fairness ==
  /\ WF_vars(Tick)
  /\ \A x \in Process : WF_vars(Agent(x)) /\ WF_vars(Backend(x))
  /\ SF_vars(GoodPoll)
  /\ SF_vars(Receive(Ticker) /\ answer[Ticker] = "ok")

Spec == Init /\ [][Next]_vars /\ Fairness

-----------------------------------------------------------------------------
(* Properties.                                                             *)

\* A provisioning answered with success, on a vendor with switchport modes, leaves
\* the port as the row it read asks for, and a toggle leaves it up or down, until
\* another session configures it: whether the agent applied it or found that
\* nothing needs to change, and whatever sessions went before, timed out ones
\* included.  (A row with another port mode, or none, is excluded: the agent does
\* not compare its VLAN.  Of a row in access mode without a VLAN Satisfies asks only
\* whether the port is up: the agent sends no switchport command for it.)
AnsweredIsDone ==
  \A r \in Request :
    answer[r] = "ok" /\ r \notin mixed /\ Vendor \in SwitchportCLI =>
      /\ req[r].op = "provision" /\ got[r].mode \in PortModes => Satisfies(device[req[r].port], Desired(r))
      /\ req[r].op = "toggle" => device[req[r].port].down = (req[r].arg = "down")

\* The row with the columns that polls store, the VLAN included, as they were in another.
PolledAs(w, v) == [w EXCEPT !.vlan = v.vlan, !.polled = v.polled]

\* A link, an unlink or a toggle writes a whole row that may be 30 s old.  When no
\* other request wrote the row meanwhile, the write changes its own field, and of the
\* others only those that polls stored in between: the VLAN and the polled columns,
\* which go back to what they were when the row was read.
WritesOnlyItsField ==
  [][\A r \in Request :
       WriteBack(r) /\ r \notin crossed /\ row[req[r].port] # None =>
         LET p == req[r].port
         IN IF req[r].op = "toggle" THEN row'[p] = [PolledAs(row[p], got[r]) EXCEPT !.admin = req[r].arg]
                                    ELSE row'[p] = [PolledAs(row[p], got[r]) EXCEPT !.server = req[r].arg]]_vars

\* Operators make so many requests and no more.  The rows show the VLANs of the
\* switch and polled columns again and again, however the last requests and the work
\* of the agent that outlived its request ended, whatever an incomplete poll stored
\* and a stale write-back put back.
RowsConverge ==
  []<>(\A p \in Port : row[p] # None /\ row[p].polled /\ row[p].vlan = PVID(device[p]))
=============================================================================
