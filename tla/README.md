# Verification of sakura-dcim

TLA+ models of the backend and the agent of Sakura DCIM, TLC runs that check
them on small instances, and TLAPS proofs of what matters most for every
instance. Source paths below are relative to the repository.

- [The system](#the-system): components, state, operations, interactions
- [What is hard here](#what-is-hard-here)
- [Plan](#plan)
- [AgentHub](#agenthub-and-agentrpc), [InstallLifecycle](#installlifecycle), [IPAM](#ipam),
  [switches](#switchcli-switchdriver-switchports), [KVM](#kvmusers-and-kvmrelay),
  [Discovery](#discovery), [RateLimit and Access](#ratelimit-and-access):
  models, properties, runs, bounds, fairness
- [Proofs](#proofs)
- [Where the code and its documents part](#where-the-code-and-its-documents-part)
- [What is not modelled](#what-is-not-modelled)

## The system

A Go backend (`backend/`) serves a REST API over PostgreSQL, Redis and
InfluxDB. One Go agent (`agent/`) per site holds a WebSocket to the backend and
acts on hardware: BMCs over IPMI, switches over SSH and SNMP, servers over PXE.

| Component | State | Operations | Correct when |
|---|---|---|---|
| Agent hub, `internal/websocket/hub.go`, `agent_ws_handler.go`, `agent/internal/client/ws_client.go` | `Hub.agents`; per connection `Send` (256), `pending`, two pumps; the agent's current connection | register, unregister, `SendRequest`, read and write pumps, reconnect | requests go to an open connection of the right agent; a call gets its own answer or none; a request is acted on at most once; a dead connection leaves nothing behind; `Hub.Run` never panics |
| Installation, `reinstall_service.go`, `provision_service.go`, `install_task_repo.go`, `executor/pxe.go` | `servers.status`, `install_tasks`, the agent's PXE files | reinstall, provision, PXE preparation, `pxe.status` events, clean-up | one install at a time; no server stuck in `provisioning`; every task has someone to work on it; `active` only after a completed install |
| IPAM, `ip_service.go`, `ip_address_repo.go`, `ip_pool_repo.go` | `ip_pools`, `ip_addresses` | pools, generation, create, assign, auto-assign, update, delete | an address has one holder; reserved ones stay reserved; switch ports follow the addresses of their server |
| Switches and ports, `switch_service.go`, `switch_port_repo.go`, `executor/switch.go`, `executor/snmp.go` | `switches`, `switch_ports`, the switch's own configuration | link, provision, admin status, SNMP sync, VLAN infrastructure | rows and switch converge; a write never undoes another; VLANs of a range are distinct |
| KVM sessions, `kvm_service.go`, `executor/kvm.go`, `executor/ipmi_user.go` | the session map, a container and a temporary BMC user (slots 3-15) per session | start, stop, expiry after 30 min | one session per server; no user or container outlives its session; no session loses its user |
| KVM relay, `kvm_handler.go` | the relay map, two sockets | agent side, browser side, clean-up | the two sides find each other in either order; both end together |
| Discovery, `discovery_service.go`, `executor/discovery.go` | sessions and discovered servers; the agent's token, report server and dnsmasq files | start, stop, report, approve, reject | a report counts for the session its machine was booted for; a stop leaves nothing running; a decision stands |
| Access: `middleware/auth.go`, `rbac.go`, `auth_service.go`, `user_service.go`, `role_service.go`, `domain/role.go` | users, roles, signed tokens | login, refresh, permission check, changes of users and roles | what a user no longer may is over when the access tokens are |
| Rate limit, `middleware/ratelimit.go` | a sorted set in Redis per client | the middleware | at most the limit in any window |
| Tenants, users, servers, OS profiles, scripts | a table each | create, read, update, delete | tree and slugs consistent |
| Inventory, bandwidth, sensors | components of a server; samples | result events, polls | late results do not replace newer ones; rates and percentile right |
| IPMI power, RAID, serial console | none in the backend | calls of vendor tools through the hub | as `SendRequest` |
| Configuration watcher, audit, metrics, crypto, web interface, containers | settings, log | | |

How they interact. Handlers run one goroutine per HTTP request and make
separate SQL statements with no transaction around them. Whatever concerns
hardware goes through `Hub.SendRequest`, a blocking call with a timer. The
agent answers each request in a goroutine of its own, and sends events
(`pxe.status`, discovery results, inventory) for which the hub starts a
goroutine each. `ProvisionService` calls `IPService` (which calls
`SwitchService`) and `ReinstallService` in turn. Maps guarded by mutexes are
the only shared memory: the hub's, the KVM sessions', the relays'.

## What is hard here

`PROJECT.json` lists every hazard at its line. In short:

- connections that fail, are replaced and outlive each other, and answers that
  come late, twice or on another connection (hub);
- read, decide, write in separate statements, with other requests and SSH
  calls of 30 s between (installation, IPAM, switches, KVM);
- the request context: when a client goes away every later query of its request
  fails, error paths included;
- events whose handlers run in any order;
- resources outside the process (BMC users, containers, PXE files, dnsmasq)
  that must be released on every way out.

## Plan

| | Module | Status |
|---|---|---|
| A | `AgentRPC`, `AgentHub`: the hub and its contract | modelled, checked, proved; `DeadConnectionsAreReaped` checked only |
| B | `InstallLifecycle`: provision and reinstall of a server, on A's contract | modelled, checked, proved |
| C | `IPAM`: addresses, and the ports that follow them | modelled, checked, proved |
| D | `SwitchCLI`: what the agent's commands do to a switch; `SwitchDriver`: one switch and its sessions; `SwitchPorts`: rows, requests, polls and the switch | modelled, checked, proved; `RowsConverge` checked only |
| E | `KVMUsers`: sessions of a server and their users on its BMC | modelled, checked, proved |
| F | `KVMRelay`: one session's container, agent and browsers | modelled, checked, proved, its liveness included |
| G | `Discovery`: backend and agent, start against stop, reports, decisions | modelled, checked, proved |
| H | `RateLimit` | modelled, checked, proved |
| I | `Access`: tokens, users, roles | modelled, checked, proved |
| J | pure algorithms: CIDR containment and generation, `AutoRAIDLevel`, 95th percentile, SNMP rates with wrapping counters | not begun |

B uses `SendRequest` by the contract of `AgentRPC`. D, F and G state in their
actions the part of it they meet: a request that is lost, answered, or given up
while the agent is still at work.

## AgentHub and AgentRPC

`AgentRPC` is what a caller of `SendRequest` may rely on: an at-most-once call
answered *ok* or *error* by the agent itself, *refused* with nothing done,
*panicked* with nothing done by the agent nor by what the caller had still to do, or
*unknown* after a timeout, in which case the agent may have acted, may act later
or never. `AgentHub` is the code:

| Model | Code |
|---|---|
| `agents`, `closes`, `HubRegister`, `HubUnregister` | `Hub.agents` and the two cases of `Hub.Run`, with `close(conn.Send)` |
| `serve`, `Connect`, `StartPumps` | `agent_ws_handler.go`: upgrade, `Register`, the two pumps |
| `ReadResponse`, `Deliver`, `ReadFail`, `ReadPumpExit` | `ReadPump`, `handleMessage`; the send to the caller's channel is a step outside the lock |
| `wp`, `WriteRequest`, `WriteFail`, `WritePumpExit` | `WritePump` |
| `Lookup` ... `Return` | `SendRequest`, one step per access to shared state: the connection may be replaced between any two; a send on a closed channel is `SendPanics`, which unwinds the caller |
| `AgentRead`, `AgentExecute`, `AgentAnswer`, `AgentDisconnect`, `AgentRestart` | the agent's read loop, a goroutine per request, the answer on whatever connection is current, reconnection, a crash |

The channel and the socket are sets: order cannot be observed, since requests
run concurrently and answers are routed by id. Time is abstract: any timer may
fire, any connection may fail, at any moment.

**Runs.** `hub_calls`: two calls over two connections of one agent with a
`Send` of capacity one. The pump never blocks on a late answer
(`ReadPumpNeverBlocks`); `pending` matches the calls in progress on every way
out; the routed connection is open and the agent's own, and is not evicted by the
unregistration of the one it replaced; `Send` is closed once,
although a replacement and an unregistration may both want to;
nobody whose turn it is waits for anything (`NobodyBlocks`: a call with a full
channel, a lost answer or a closed `Send` has a step to take, and so has each end of
a connection); and the whole implements `AgentRPC` (`KeepsRPCContract`).
`hub_live`: every call returns, a connection whose peer is gone leaves the map
and ends its goroutines, and an agent does not go on believing in a connection
the hub does not route to.

**Bounds.** Two connections are a replacement and its victim, which is what the
hub's races are about; two calls make one find the other's message in the full
channel; agents share nothing but the map, by key. The proofs have no bounds.

**Fairness** of `hub_live`: the backend's goroutines run, `Hub.Run` starves
neither of its channels, timers fire, and a closed socket is noticed (pongs are
waited for 90 s). Weak fairness suffices: each step stays enabled until taken.
Dialling and calling are not fair.

## InstallLifecycle

One server: every query is keyed by it. A call (`pc`) is a provision or a
reinstall; `Validate`, `CheckActiveTask`, `CreateTask`, `MarkReinstalling` are
`StartReinstall`; `SetProvisioning`, `ListAddresses`, `AssignAddress`,
`Rollback` are `Provision` around it. `prepare` is the goroutine that sends
`pxe.prepare`; `agent` what the agent did of it, by the contract of
`AgentRPC`; `handler` the goroutines of `HandlePXEStatusEvent`, whose reads and
writes interleave; `pxe` and `CleanUp` the agent's files. `ClientGoes` cancels a call's
context: every later query of it fails, the guard's (whose error is dropped) and
the rollback's included. A panic of `SendRequest` unwinds a request past its error path
(step `cut`, under `gin.Recovery`) and ends the backend from a bare goroutine.
`BackendStops` is that end, and any other: what is in progress is cut, and nothing resumes it.

**Runs.** `install_core`: two calls, their clients leaving or not, with
refused, late and lost preparations, one report per install, of success or
failure, and a backend that stops anywhere. `LaterCallsRefused`: a call creates no task
while one that was active when it began is still active. (What the guard does after an
install that ended is another matter, see `install_retry`.) `NotLeftProvisioning`: with
clients that stay, no return from `Provision` leaves the status; a panic or the backend's
end does. `TasksAreStarted`: *ok* means a task, and a pending one has a
goroutine, or had one when the backend stopped. `EventsFindATask`. `ActiveOnlyIfCompleted`: an action property, that
only the handler of a completed install makes a server active. `NobodyBlocks`: calls,
goroutines and handlers have a step to take until they are done.
`install_live`: one call and three overlapping reports, one of a status the
backend does not know; a task leaves `pending`, a completion is cleaned up after, unless
the backend stops over it: a task that was being prepared then stays `pending` for good
(`TaskCut`, `EventCut`).
With a second call that got past the guard at the same time, a task may go back to
`pending` and stay there: the handler of a report of unknown status, sent in the course of the
one install, reads the other's task pending and writes that back when it has been prepared
(`Overtaken`; `reinstall_service.go:238,258,266`). `TasksLeavePending` names that case. It cannot
happen in `install_live`, where the backend's end is the only exception, and is what the
proof for any number of calls needs.
`install_retry`, `install_race`: see [below](#where-the-code-and-its-documents-part).

**Bounds.** Two calls make the race of the guard; a third meets what the second
meets. `MaxIPs` is the addresses two calls assign. One report in `install_core`
and three in `install_live`, since handlers race in pairs.

**Fairness** of `install_live`: handlers and goroutines of the backend run,
queries answer, `SendRequest` returns (`CallsReturn` of the hub). Client and
agent owe nothing.

## IPAM

`row` is `ip_addresses`, one row per address since the column is unique over
all pools; `id` numbers its insertions, so that a request that read a row deleted and
generated again since writes nothing; the id also tells a row read long ago from
one generated since, the gateway's among them. `pool` is the settings of the pools,
`port` the mode and VLANs of the ports of one switch. A goroutine (`step`,
`job`) makes one query a step:

| Model | Code |
|---|---|
| `ListPools`, `Pick`, `Take` | `AutoAssign`, `AssignNextAvailable`: the row is read and written by two statements |
| `ReadRow`, `WriteRow`, `CountRows`, `DeleteRow` | `UpdateAddress`, `DeleteAddress`; the count comes before the deletion, after the update |
| `Insert`, `Generate` | `CreateAddress`, `GeneratePoolIPs`, one address a step |
| `ReadPool`, `ReadPorts`, `AllocateVlan`, `SavePort` | `provisionServerPort`, `allocateVlanFromRange`, `unprovisionServerPort` |
| `UpdatePool`, `DeletePool`, `ClientGoes` | settings changed at any moment, deletion with its cascade, a cancelled context |

**Run** `ipam`. Under every interleaving: `GatewayKept`, a gateway generated as
reserved is handed to nobody until an operator updates it. Of a request that
nothing disturbs, whatever went before (`AssignsAlone`): it takes no held
address, and an auto-assignment fails only when every
pool of its VRF is empty. `PortsFollowAddresses`: after any sequence of
requests that do not overlap, ports are on the pool's VLAN exactly while their
server holds an address of it. Its antecedent (`followed`) names what the
automation does not follow: overlapping requests, lost clients, previews, changes to a
pool, addresses created as assigned or moved between servers, a range with no
VLAN left, two automating pools. Those are limits of the code, each a hazard.

**Bounds.** Four requests (generate, two assignments, a deletion is the
shortest sequence in which a port must stay), two goroutines, two pools,
four addresses (a gateway and two hosts in the one, one in the other), two servers with a port each, a range of
two VLANs, one change to a pool. Fourteen requests stand for the API's: each
operation, with each status and with and without a server. `IPAM` takes any: pools,
their hosts and their ports are constants of which it is assumed only that a
pool's hosts are finite and that requests and settings have their types. A port
may be linked to no server, and a pool may have no host left to generate. A pool's VLAN mode
is one of the three of `domain/network.go:65`, and an empty range stands for fixed VLANs: of a
mode of another name, which the API lets through, a port would get the name and no VLAN
(`ip_service.go:296`), and `auto_range` with an invalid range leaves it the VLAN it had (`:334`).

## SwitchCLI, SwitchDriver, SwitchPorts

`SwitchCLI` has no state: it is the driver's commands as assignments to the
settings of an interface (`Set`, `Add`, `Del`, the shape of each vendor's
syntax), and their execution, command by command (`ExecSSH`, a recursive
function of the configurations of a session). `ProvisionCommands`, `PortAdminCommands`,
`VLANProvisionCommands` and `DHCPRelayCommands` are the four `generate...`
functions of `executor/switch.go`; `parsePortConfig` and `portNeedsChange` what
the agent sees of a port and whether it goes on; `Template` the backend's
templates for the same operations (`domain/switch_templates.go`), translated
from their text. That a switch executes a command is the one thing taken from
outside.

`SwitchDriver` is one switch and its sessions in sequence: whole, cut off after
any number of commands with nothing saved (`Partial`), which the agent answers as an error when
the session timed out and as a success when its connection failed, since `execSSH` drops the
error of `session.Wait` (`lost`: such answers, for ports, SVIs and relays alike); and a
restart of the switch from what it saved.

`SwitchPorts` adds the backend: `row` is `switch_ports`, `device` the switch. The
columns that polls store besides the VLAN (`port_name`, `speed_mbps`, `oper_status`,
`last_polled`) are one flag, `polled`: whether they are a poll's.
A process is a request or the ticker. It reads the row (`Reads`,
`ProvisionPort`, `TogglePortAdmin`), asks the agent (`LookAtPort`, `Configure`,
`HandleSNMPPoll`), is answered or gives up (`Receive`, `TimeOut`), and writes the
whole row it read (`WriteBack`) or what a poll found, port by port (`UpsertPort`).
`pollPortVLANs` is every outcome of the walks, failed ones included.

**Run** `switch_ports`. `AnsweredIsDone`: a provisioning or toggle answered with
success is on the switch until another session configures the port, whether it was
applied or found unneeded, and whatever timed-out session came before.
A row in access mode without a VLAN asks for no mode: the driver sends nothing for it
(`switch.go:445`), and `Satisfies` exempts it. `WritesOnlyItsField`: the write of a row that
may be 30 s old changes its own field, and takes the columns that polls store, and no
others, back to what they were when it was read. `RowsConverge`: the rows agree
with the switch, in columns a poll stored, again and again.

**Run** `site`, topics `port`, `svi`, `dhcp`. `LastProvisionWins`: whatever
sessions went before, the port of a switch with switchport modes is as the last
success asked for. `InfrastructureAsAsked`: an SVI that moves between VRFs keeps
address and relay; relays of interfaces do not disturb each other. Both are about
successes over a connection that held (`lost` is exempt), whatever sessions were cut off
before.
`DriverFollowsTemplates`: applied to any configuration the model reaches, the
driver and the template agree (SONiC's and Junos's templates do another thing:
the comment at the property says what).

**Bounds.** One port: ports share only the walk of a poll. Two requests at once
of eight kinds: a write-back races one other writer. The row and the
configuration disagree at first, which is what the look at the port is about. The driver's
four port requests cover the three modes, two access VLANs and a shutdown; four
vendor names reach, by `normalizeVendor`, the shapes of switchport, commit and Linux syntax.

**Fairness** of `switch_ports`: backend and agent run; `SF` says that
polls of the ticker which find everything and are answered keep coming, as they
do on a site that works. Operators make finitely many requests.

## KVMUsers and KVMRelay

`KVMUsers`: several `StartSession` and `StopSession` of one server at once.
`FindSession` and `InsertSession` are the two critical sections of the start;
`create` and `delete` the agent's `HandleCreateTempUser` and
`HandleDeleteTempUser`, whose ipmitool commands interleave; `bmc` the slots. Operators add
users of their own to free slots and remove them (`OperatorAdds`, `OperatorRemoves`); `exposed`
are the slots where one was added while the agent had the slot listed, chosen or given to a
session (`HoldsSlot`).
`KVMRelay`: one session, with three ways to stop it (a request, expiry, each
browser), the relay slots that `StartKVM` and `HandleAgentRelay` make, the agent's
connection, and the browsers. A slot is named apart from the map's entry
because handlers hold on to slots that the map has replaced. Two windows may be paired with
one agent connection; gorilla allows such a connection one reader and one writer, and what the
two do to it, a panic included, is left out.

**Run** `site`, topic `users`: `SerialSessionsTidy` (while the agent works for one
session of the BMC at a time, an active session keeps its user, and nobody's
user is left but that of a session stopped while it started), `OtherUsersKept` (no
interleaving touches the operators' users, but the `exposed` ones: the code looks at no name
before it writes to a slot, so that it overwrites and deletes those). Topic `relay`: `ContainerEnds`
(a session ends for good and its container is gone from then on, but for the two leaks
`LeftBehind` names), `BrowserEndEndsAll` (when a browser's relaying ends, the slot, the
handler, the connection and the container do). **Run** `kvm_race`: see [below](#where-the-code-and-its-documents-part).

**Bounds.** Two sessions are the orphan race; two slots, so that one may be the
operator's or both be contended. Operators come and go in one of them until the second
session begins, which exposes users to every step of the first; and a behaviour has
overlapping work or a session stopped before it was active, not both. The proofs
have neither bound. Two browsers, so that one is refused.

**Fairness** of the relay: handlers and agent goroutines run, `SendRequest`
returns, the expiry's ticker fires. Browsers, operators and the network owe nothing: a
connection may die at any time, and none has to be made but the agent's dial
after its container is up.

## Discovery

`status` is the sessions' table, `starting` and `stopping` the agent's
goroutines, step by step between which they may cross; `active`, `field`,
`listener`, `conf` and `boot` what they leave: the token, `e.httpServer`, who serves
port 9877, dnsmasq's file and PXELINUX's. `carries` is the token in a running
scanner; `record`, `link`, `server` the tables that approvals write, one
statement a step (`CreateServer`, `MarkApproved`, `SetServerID`).

**Run** `site`, topic `report`: `ReportsUnderOwnSession`, `AgentTidy` (starts and stops
that do not cross leave server, port, token and DHCP together, whichever step
failed). Topic `decide`: `DecisionStands`. **Run** `discovery_approve`: see below.

**Bounds.** Two sessions: a start over a forgotten stop. One machine in `site`
and two in `discovery_approve`: machines share only the nil UUID. Two decisions race in pairs.

## RateLimit and Access

`RateLimit` is the middleware on one key: `ReadClock`, and the four commands of the
pipeline (`ZRemRangeByScore`, `ZAdd`, `ZCard`, `Expire`), which is no transaction
(`ratelimit.go:30`): commands of other requests come in between, in any order, and the key
may expire between any two (`KeyExpires`). `WindowHolds` is about a window less `MaxDelay`,
the time a request may be under way; about the full window it fails, by an entry that a
faster request has trimmed. It lets as many more requests through as run at once when the
key expires between their `ZADD` and their `EXPIRE`, since their entries are lost
(`slipped`). Backend and Redis have one clock here, and Redis does not fail.
`Access`: a token names a role until it expires; users and roles change beside
logins and refreshes. `RevokedInTime`: a user who is deleted, deactivated or
given another role passes by the old one no longer than an access token lives.

**Run** `site`, topics `limit` and `access`. **Bounds.** Two requests at a limit
of two: the third in a window is the one to refuse; a window of four, a delay of
one and six ticks, so that a window and a key end inside the run. One user, two roles, of
which one is changed, to no permission or all (`UpdateRole` itself takes any set of them);
tokens of two and three units: a refresh after an access token has expired.

**The run `site`** is one state space for machines that share no state. A
behaviour picks a topic and only that machine moves, so that it is checked as it
would be alone; sessions that are interchangeable start in order, and initial
states that another topic has no use for are fixed (`MCInit`). `SiteOK`
collects their invariants of type, with what definitions take for granted (a
slot in the relays' map is not done, a relaying browser has an agent), and
`RelayNobodyBlocks`: whoever runs in a KVM session has a step to take.

## Proofs

The proof modules hold for any number of agents, connections, calls, scripts,
addresses, pools, ports, sessions, slots, machines, users and any capacity. Every
invariant and every safety action property that a passing run checks is a theorem,
one by one in `PROJECT.json`, but `NobodyBlocks` and `SiteOK`, which are about `ENABLED`
(the six parts of the latter that are not are theorems of their machines each). So are
six of the eight liveness properties, from `NobodyBlocks` and fairness. An invariant is proved from an inductive one that says, for every step of a
goroutine, what it has read, what of that still holds, and who may have changed
the rest. Those with
the longest proofs (`SerialInv` and `RelayInv`) were checked by TLC on the run's instance first.

**Assumptions.** Those the modules state as `ASSUME`, which TLC evaluates on their runs: `None` and
`Unknown` are not values; a browser is not the user or the expiry; `SendCap` is a natural number, `Script` a sequence of
strings, `MaxIPs` positive; hosts, ports and VLANs are numbers and the hosts of a pool finite
(`NetworkAssumption`, `PortAssumption`); requests, settings, rows and findings have the
types the API and the tables give them (`ClientAssumption`, `DriverAssumption`,
`PortsAssumption`); no interface is called `svi`; slots are of 3 to 15 and a session is
not the operator; a window is longer than the delay; `NoRole` is neither a user nor a
role; times are natural numbers. `AccessTypeCorrect` takes positive times to live
besides: a token of none is signed expired.

*AgentHub.* `TypeCorrect`; `RoutedConnectionOpen` and `NoDoubleClose` from
`RegistryInv`: a routed connection is served by a goroutine that has not
unregistered, which is what makes its `Send` open and makes a close the first.
`StaleUnregisterHarmless` follows. `PendingCorrect` and `ReadPumpFree` need
`CallInv` (where a message of a call may be: in `Send`, on the wire or in the
agent, in one of them, and only if the call was accepted) and `ResponseInv` (an answer is on
one wire, in one pump's hand or in its channel, never in two places), since it is the
uniqueness of the answer that leaves the channel empty for it.
`HubImplementsRPC`: under the same invariant each step maps to one of
`AgentRPC` or to a stutter.

*InstallLifecycle.* `Invariant` proves the inductive `IInv`: types, `CallInv`
(what a call at a step has done: which of them have a task, and that one which began over
an active task inserts none),
`EventInv` (a handler's task exists, an event implies an agent that acted),
`CompletedInv` and `ProvisioningInv` (a server is `provisioning` only while some
call is on its way out or lost its client). From it `TypeCorrect`,
`LateCallsAreRefused`, `NeverLeftProvisioning`, `TasksHaveGoroutines`,
`EventsHaveTasks` and the action property `ActiveMeansCompleted`.

*IPAM.* `IPAMTypeCorrect` from `IPAMTypeInv`, which adds to the types what a goroutine
knows at each step (`KnownAt`). `GatewayNeverTaken` from `GatewayInv`: the row an
assignment is about to overwrite was available when it was read, and is either the same
row still or has a greater id, in which case the `UPDATE` finds nothing; so no
generated gateway is under it. `AssignmentsAlone` is an action property from `AloneInv`: who is
undisturbed is the only goroutine, and what it read is what is there. `PortsFollow` from
`FollowInv`: while requests do not overlap, every port is as the addresses of its
server ask (`Follows`) or waits for the one request under way (`Pending`), which has,
by its stage, the row it changed (`StageRow`), the count of the server's other
addresses in the pool (`StageCount`) and the ports still to write (`StagePorts`).

*Switches.* All rests on lemmas about a session, which is a sequence of
configurations: it exists, it is unique in its end, it changes nothing that none of its
commands sets (`SessionLeaves`), and what one command sets and no later one
does is there at the end (`SessionStays`); for two sessions in a row,
`SessionConcat`. From them what each vendor's batch makes of any
configuration (`ProvisionSatisfies`, `UnneededSatisfies`, `ToggleSets`,
`VlanProvisioned`, `RelayProvisioned`), and from that `LastProvisionHolds`,
`TemplatesFollowed`, and `InfrastructureHolds` by `LayersInv`, the property of
the saved configuration and of the running one: a session cut off changes the latter
alone, and a restart returns to the former; what was answered for a lost connection is
exempt until the next success. `AnsweredHolds` needs of the
requests side by side that work cut off by the backend's timer is
remembered as such; `OnlyFieldWritten` that a row read is the row still, or that a request
which has written it since is known (`ReadInv`, `FreshInv`), polls apart, which touch
the VLAN and the columns of their own only. `PortsInv` is the types and what a process at a step has.

*KVM.* `OthersAreKept` and `UsersTypeCorrect` from `UsersInv`: whatever the
agent remembers of a BMC (orphans it listed, the slot it chose, the slot a
session was given long before) is no slot of an operator's user, but an exposed one. It is inductive
because no command writes an operator's name, so that a stale listing can be
wrong about sessions, and about users added since, which makes them exposed. `SerialSessionsAreTidy` from `SerialInv`: whatever overlaps, a
session's name is nowhere but in the slot it chose, at most one deletion is asked
by each side and in its order (`Life`); while nothing overlaps, one session at most
is involved, the backend knows the slot the agent gave it (`Known`), and the slot has
what was put there until it is cleared for that session (`Put`). `RelayTypeCorrect`
and `BrowsersMeetTheAgent` from `RelayInv`: the agent connects once, to a slot that it
holds from then on, and a browser's slot has an agent only if it is that one
(`PairInv`). That three names for slots are enough, however many browsers there are, is
`SlotsInv`: the only ones to make a slot are the two answers to a start and the
agent, once each, so that one who has made none finds a name free.

*Discovery.* `ReportsStayWithTheirSession` from `ReportInv`: events and rows are of
pairs that were booted. The agent compares the token of a report with the one
whose session it then sends, in whatever state crossing handlers left it.
`DecisionsStand` from `DecideInv`: two requests at work on one record have
overlapped, and a request nobody overlapped finds its record pending until it
marks it, so that the check of the status long before the write is enough.
`AgentLeftTidy` from `TidyInv`: as long as no handlers cross, the agent has all of a
discovery, or nothing of one, or what the one start at work has done up to
its step (`Progress`); each failure's cleanup undoes just that.
`DiscoveryTypeCorrect` from `RowsInv` beside these: a record that has a server
is listed, and its server is there.

*Access.* `Revoked` from `AccessInv`: a row read for a login says what its user
had in the unit of time in which the tokens are signed, so that a token
expires at most its life after the role was last held. It assumes that a login
takes less than a unit of time (`TimePasses`).

*RateLimit.* `RateLimited` from `RateInvariant`: a reading let through that is no
longer in the set is older than the window, or slipped. The `ZCARD` that lets the last
reading of a stretch through then counts all those before it, up to the delay. Those that
slipped in one stretch did so at one expiry, since a key outlives them by a window.

*Liveness.* No backend of the prover decides `ENABLED`, so what an argument needs of it is put
into a state predicate: `NobodyBlocks` of the hub and of the installation, `RelayNobodyBlocks`
of the relay. It says of each fair step in which states it can be taken. TLC checks it as an
invariant, on the instances of the runs `hub_calls`, `install_core` and `site`, and the theorems
are of the form `FairSpec /\ []NobodyBlocks => Property`. All else is proved, for all constants:
that no other step takes the goroutine out of such a state, that the fair step moves it
on, and that the property follows from the fairness of each goroutine
(`CallFairness(r)`, `ConnFairness(c)`, ...). Fairness is per goroutine, as the Go scheduler
gives it, never of the system as a whole.

- `CallsReturnIfFair`: a call goes through its steps in one direction, and nobody else's step
  moves it.
- `NoZombieIfFair`: by `ConnInv`, a connection that its agent uses and that the hub does not
  route to is closed at the backend, and stays so, unless its handler has yet to register it. If
  it has, the hub comes to route to it; if not, the agent notices.
- `TasksLeavePendingIfFair`: by `PendingInv`, a task that is pending is one whose call is about to
  start its goroutine, or whose goroutine has just started, or one that was overtaken.
- `CompletedIsCleanedIfFair`: by `CleanedInv`, the handler of a `completed` report
  goes on to the server's status and the clean-up, since a task was there to be found when it
  began and a known status is written whatever was read.
- `ContainerEndsIfFair`, `BrowserEndEndsAllIfFair`: by `EndInv`, a session that is over was stopped
  by someone, whose `kvm.stop` is on its way, was handled or was lost, or has a start that failed; a
  container that a stop came too early for dials later and is refused, since the session is over by
  then (`OverMoves`); and the slot the agent holds is the one in the map or done, so that the clean-up
  of the browser that ended reaches the handler (`EndedMoves`). `SeatIsKept`: agent
  and browser keep the slot they share, and a slot that is done stays so.

**Only model-checked.** `NobodyBlocks` and `RelayNobodyBlocks` (a conjunct of `SiteOK`), because
of `ENABLED`. `DeadConnectionsAreReaped`: a pump reads what is left on a dead connection before it
sees its end, so that the proof is an induction on the answers left; and `RowsConverge`, one on
the requests left. The induction theorems of the library take an operator and cannot be
used here; what a session does to a setting is proved instead by the least step at which it
would be otherwise, of which there is one by the well-foundedness of `<`. `SiteOK` of the
specification `site` as a whole, a device of the run in which machines take turns. The
properties of violation runs are counterexamples.

## Where the code and its documents part

Shown by runs that end in a counterexample:

- `install_retry`: `GetActiveByServerID` has no condition on the status, so the
  guard refuses every install after a server's first, a failed one included. The tests'
  in-memory repository and the retry drawn in `README_AI.md:381` say otherwise.
- `install_race`: two calls both pass the guard before either inserts its task,
  although the guard "prevents concurrent reinstalls" (`README_AI.md`).
- `ipam_vlans`: native VLANs of a range are not deduplicated, one request at a
  time (`README_AI.md:176`), since the query of used VLANs reads `vlan_id` only.

- `kvm_race`: two starts for one server are both past the search before either
  inserts its session, and the second removes the first's user as an orphan
  "from previous sessions" (`ipmi_user.go:53`).
- `discovery_approve`: an approved server is inserted without an ID, so that the
  first takes the nil UUID and every other approval fails (`discovery_service.go:281`).

Seen while modelling, with no run of their own:

- a rollback runs under the request's context: with the client gone the server
  stays `provisioning` (`provision_service.go:119,154`, `README_AI.md:12`);
- a failed install is not cleaned up (`reinstall_service.go:272`, `README_AI.md:14`);
- `provisioning` does not block a second provision (`provision_service.go:110`,
  `README_AI.md:148`), and two at once assign two addresses (`README_AI.md:146`);
- an unassignment that moves the address to another server reverts no port
  (`ip_service.go:188,195`, `README_AI.md:14`);
- `agents.status` is never set offline by a heartbeat (`README_AI.md:385`);
- the browser's wait for the agent has no timer although its comment says 30 s
  (`kvm_handler.go:226`);
- a panic of `SendRequest` (`hub.go:161`) leaves a server `provisioning` and a task `pending`
  (`provision_service.go:154`, `reinstall_service.go:176`), and the backend's end likewise;
- a user that an operator adds to a slot of the BMC which the agent has listed free, or whose
  user it is to delete, is overwritten or deleted (`ipmi_user.go:79-96,194-211`);
- overlapping handlers may move a task out of `completed` (`reinstall_service.go:188,266`);
- an expiry cleans up no relay slot: the agent's handler then waits for ever
  unless a browser ends (`kvm_service.go:329`, `kvm_handler.go:178`), and
  `CleanupExpired` is called by nothing;
- two starts of discovery at once make two active sessions of one agent
  (`discovery_service.go:55`), and the agent's stop looks at no session id;
- the goroutine that serves reports reads `e.httpServer` without the lock, and
  finds nil after a stop (`executor/discovery.go:209`);
- discovery's files survive a restart of the agent, and `cleanup` removes another
  PXELINUX file than the one that was written (`executor/discovery.go:127`);
- a request without a port mode is not compared and may be answered `no_change`
  (`executor/switch.go:103`);
- an update of a user writes back the row it read (`user_service.go:74`).

## What is not modelled

`PROJECT.json` lists every component. Planned still: the pure algorithms (J).
Left out for good: create-read-update-delete of single tables (tenants, OS
profiles, scripts, pools' creation), power, RAID and serial console, whose calls
keep no state, inventory and bandwidth, which nothing else reads, the counters
and rates of SNMP, the text and prompts of switch sessions, encryption,
metrics, the web interface, containers and scripts. Events are modelled where they are handled;
heartbeats only keep TCP deadlines alive. Queries fail only for a cancelled
context. A failing Redis lets every request pass. The backend's own end, by a panic of
`SendRequest` in a bare goroutine or otherwise, is modelled where it leaves something in the
database (`InstallLifecycle`). In the KVM, switch, discovery and IPAM modules it is left out,
and so is the panic in a request, which unwinds it where it stands: a KVM session or a
user then waits for a stop or an expiry, ports stay unconfigured. The agent's crash is
modelled where it leaves something behind (hub, discovery). A BMC that refuses a removal, and the agent's
own time limits on a whole ipmitool sequence, are left out of `KVMUsers`.
