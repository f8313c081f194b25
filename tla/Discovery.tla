------------------------------ MODULE Discovery ------------------------------
(***************************************************************************)
(* Discovery: an agent boots unknown machines into a scanner and reports   *)
(* what they are, an operator makes servers of them or rejects them.       *)
(*   backend/internal/service/discovery_service.go and its repositories    *)
(*   agent/internal/executor/discovery.go                                  *)
(* The backend stores a session and sends start and stop from goroutines   *)
(* of their own, whose outcome nobody waits for; the agent runs each in a  *)
(* goroutine.  They may be lost, cross, or overtake each other.  A         *)
(* machine boots with whatever configuration is there, late ones included. *)
(* (The backend's end, by a panic of SendRequest in one of those           *)
(* goroutines or otherwise, is left out.)                                  *)
(***************************************************************************)
EXTENDS Naturals, FiniteSets

CONSTANTS MaxSessions,   \* sessions operators start
          Machine,       \* machines that boot from the network
          MaxDecisions   \* decisions about what was discovered

Run      == 1 .. MaxSessions     \* discovery sessions
Decision == 1 .. MaxDecisions
Record   == Run \X Machine     \* UNIQUE(session_id, mac_address)
NoRecord == <<0, 0>>

\* A listener nobody serves yet.
Bound == MaxSessions + 1

VARIABLES
  status,     \* discovery_sessions: "none", "checked" (no row yet), "active", "stopped"
  starting,   \* discovery.start at the agent: "none", "sent", "files", "server", "listen",
              \* "serve", "over"
  stopping,   \* discovery.stop: "none", "sent", "over"
  active,     \* activeToken and sessionID: the session, 0 for none
  field,      \* e.httpServer: the start that made it, 0 for nil
  listener,   \* of port 9877: 0 for none, Bound, or the start whose server serves it
  conf,       \* dnsmasq's discovery.conf is there
  boot,       \* the session in pxelinux.cfg/default, 0 before the first
  carries,    \* the session in the boot parameters of a running scanner
  booted,     \* history: the sessions a machine was booted for
  event,      \* discovery.result events on their way
  record,     \* discovered_servers: "none", "pending", "approved", "rejected"
  link,       \* records whose server_id is set
  server,     \* the record the servers row with the nil UUID was made of
  decide,     \* a decision: [kind, of, at]
  crossed,    \* history: the agent was disturbed, by crossing handlers or a restart
  overlapped  \* history: records decided by two requests at once

discoveryVars == <<status, starting, stopping, active, field, listener, conf, boot, carries, booted,
                   event, record, link, server, decide, crossed, overlapped>>
agentState == <<active, field, listener, conf, boot>>
scanners   == <<carries, booted, event>>
database   == <<record, link, server, decide, overlapped>>

DiscoveryTypeOK ==
  /\ status \in [Run -> {"none", "checked", "active", "stopped"}]
  /\ starting \in [Run -> {"none", "sent", "files", "server", "listen", "serve", "over"}]
  /\ active \in {0} \union Run /\ field \in {0} \union Run /\ boot \in {0} \union Run
  /\ listener \in {0, Bound} \union Run
  /\ \A s \in Run : starting[s] # "none" => status[s] \in {"active", "stopped"}
  /\ event \subseteq Record /\ link \subseteq Record /\ server \in Record \union {NoRecord}
  /\ \A r \in link : record[r] # "none" /\ server # NoRecord
  /\ \A d \in Decision : decide[d].at \in {"idle", "read", "created", "marked", "done", "failed"}

DiscoveryInit ==
  /\ status = [s \in Run |-> "none"]
  /\ starting = [s \in Run |-> "none"] /\ stopping = [s \in Run |-> "none"]
  /\ active = 0 /\ field = 0 /\ listener = 0 /\ conf = FALSE /\ boot = 0
  /\ carries = [m \in Machine |-> 0] /\ booted = {} /\ event = {}
  /\ record = [r \in Record |-> "none"] /\ link = {} /\ server = NoRecord
  /\ decide = [d \in Decision |-> [kind |-> "none", of |-> NoRecord, at |-> "idle"]]
  /\ crossed = FALSE /\ overlapped = {}

-----------------------------------------------------------------------------
(* The backend starts and stops sessions.                                  *)

\* StartDiscovery looks for an active session of the agent, ...
CheckActiveSession(s) ==
  /\ status[s] = "none"
  /\ \A i \in Run : i < s => status[i] # "none"
  /\ \A i \in Run : status[i] # "active"
  /\ status' = [status EXCEPT ![s] = "checked"]
  /\ UNCHANGED <<starting, stopping, agentState, scanners, database, crossed>>

\* ... stores one, and sends discovery.start, which may not get there.
StartDiscovery(s) ==
  /\ status[s] = "checked"
  /\ status' = [status EXCEPT ![s] = "active"]
  /\ \E sent \in {"sent", "over"} : starting' = [starting EXCEPT ![s] = sent]
  /\ UNCHANGED <<stopping, agentState, scanners, database, crossed>>

\* StopDiscovery stops the active session started last.
StopDiscovery(s) ==
  /\ status[s] = "active"
  /\ \A i \in Run : i > s => status[i] # "active"
  /\ status' = [status EXCEPT ![s] = "stopped"]
  /\ \E sent \in {"sent", "over"} : stopping' = [stopping EXCEPT ![s] = sent]
  /\ UNCHANGED <<starting, agentState, scanners, database, crossed>>

-----------------------------------------------------------------------------
(* The agent.                                                              *)

AtWork == {s \in Run : starting[s] \in {"files", "server", "listen", "serve"}}

\* Fault: the server is shut down, and its port with it, but the files stay.
CleanupLeavesFiles ==
  /\ active' = 0
  /\ field' = 0
  /\ listener' = IF field # 0 /\ listener = field THEN 0 ELSE listener
  /\ UNCHANGED conf

\* cleanup, whatever the session: the token, the server with the listener it
\* serves, the files -- but not the one that boots machines, of another name.
cleanup ==
  /\ active' = 0
  /\ field' = 0
  /\ listener' = IF field # 0 /\ listener = field THEN 0 ELSE listener
  /\ conf' = FALSE

\* HandleDiscoveryStart takes the token, or refuses, which nobody hears.
TakeToken(s) ==
  /\ starting[s] = "sent"
  /\ IF active # 0
     THEN starting' = [starting EXCEPT ![s] = "over"] /\ UNCHANGED <<active, crossed>>
     ELSE /\ starting' = [starting EXCEPT ![s] = "files"]
          /\ active' = s
          /\ crossed' = (crossed \/ AtWork # {})
  /\ UNCHANGED <<status, stopping, field, listener, conf, boot, scanners, database>>

\* dnsmasq's and PXELINUX's files; a write or the reload can fail.
WriteConfigs(s) ==
  /\ starting[s] = "files"
  /\ \/ /\ starting' = [starting EXCEPT ![s] = "server"]
        /\ conf' = TRUE /\ boot' = s
        /\ UNCHANGED <<active, field, listener>>
     \/ starting' = [starting EXCEPT ![s] = "over"] /\ cleanup /\ boot' \in {boot, s}
  /\ UNCHANGED <<status, stopping, scanners, database, crossed>>

\* startHTTPServer makes a server, ...
MakeServer(s) ==
  /\ starting[s] = "server"
  /\ starting' = [starting EXCEPT ![s] = "listen"]
  /\ field' = s
  /\ UNCHANGED <<status, stopping, active, listener, conf, boot, scanners, database, crossed>>

\* ... listens, which fails when the port is taken, ...
Listen(s) ==
  /\ starting[s] = "listen"
  /\ \/ /\ listener = 0
        /\ starting' = [starting EXCEPT ![s] = "serve"]
        /\ listener' = Bound
        /\ UNCHANGED <<active, field, conf>>
     \/ starting' = [starting EXCEPT ![s] = "over"] /\ cleanup
  /\ UNCHANGED <<status, stopping, boot, scanners, database, crossed>>

\* ... and serves, in a goroutine that reads the field without the lock: whatever
\* server is there now; when there is none, the agent crashes.
Serve(s) ==
  /\ starting[s] = "serve" /\ field # 0
  /\ starting' = [starting EXCEPT ![s] = "over"]
  /\ listener' = field
  /\ UNCHANGED <<status, stopping, active, field, conf, boot, scanners, database, crossed>>

\* The agent's restart, after that crash or another: the files survive it.
AgentRestart ==
  /\ active # 0 \/ AtWork # {}
  /\ starting' = [s \in Run |-> IF starting[s] \in {"none", "sent"} THEN starting[s] ELSE "over"]
  /\ active' = 0 /\ field' = 0 /\ listener' = 0
  /\ crossed' = TRUE
  /\ UNCHANGED <<status, stopping, conf, boot, scanners, database>>

\* HandleDiscoveryStop.
HandleDiscoveryStop(s) ==
  /\ stopping[s] = "sent"
  /\ stopping' = [stopping EXCEPT ![s] = "over"]
  /\ crossed' = (crossed \/ AtWork # {})
  /\ cleanup
  /\ UNCHANGED <<status, starting, boot, scanners, database>>

-----------------------------------------------------------------------------
(* The machines.                                                           *)

\* A machine boots the scanner with the token of the last start.
Boot(m) ==
  /\ boot # 0 /\ carries[m] # boot
  /\ carries' = [carries EXCEPT ![m] = boot]
  /\ booted' = booted \union {<<boot, m>>}
  /\ UNCHANGED <<status, starting, stopping, agentState, event, database, crossed>>

\* Fault: the token of the report is not looked at.
ReportUnchecked(m) ==
  /\ carries[m] # 0 /\ listener \in Run /\ active # 0
  /\ event' = event \union {<<active, m>>}
  /\ UNCHANGED <<status, starting, stopping, agentState, carries, booted, database, crossed>>

\* handleReport, when a server serves: the token must be the active one, and the
\* report goes on with the session of that moment.
handleReport(m) ==
  /\ carries[m] # 0 /\ listener \in Run
  /\ carries[m] = active
  /\ event' = event \union {<<active, m>>}
  /\ UNCHANGED <<status, starting, stopping, agentState, carries, booted, database, crossed>>

EventLost(r) ==
  /\ r \in event
  /\ event' = event \ {r}
  /\ UNCHANGED <<status, starting, stopping, agentState, carries, booted, database, crossed>>

\* Fault: a machine that reports again is pending again.
UpsertPending(old) == "pending"

\* DiscoveredServerRepo.Upsert: the status of a record that exists stays.
Upsert(old) == IF old = "none" THEN "pending" ELSE old

\* HandleDiscoveryResultEvent.
HandleResult(r) ==
  /\ r \in event
  /\ event' = event \ {r}
  /\ record' = [record EXCEPT ![r] = Upsert(@)]
  /\ UNCHANGED <<status, starting, stopping, agentState, carries, booted, link, server, decide,
                 crossed, overlapped>>

-----------------------------------------------------------------------------
(* Decisions.                                                              *)

Under(r) == {d \in Decision : decide[d].of = r /\ decide[d].at \in {"read", "created", "marked"}}

Moves(d, at) == decide' = [decide EXCEPT ![d].at = at]

\* ApproveServer and RejectServer go on with a record that is pending only.
ReadRecord(d, kind, r) ==
  /\ decide[d].at = "idle" /\ \A e \in Decision : e < d => decide[e].at # "idle"
  /\ record[r] # "none"
  /\ decide' = [decide EXCEPT ![d] = [kind |-> kind, of |-> r,
                                      at |-> IF record[r] = "pending" THEN "read" ELSE "done"]]
  /\ overlapped' = IF Under(r) # {} THEN overlapped \union {r} ELSE overlapped
  /\ UNCHANGED <<status, starting, stopping, agentState, scanners, record, link, server, crossed>>

\* The server is inserted under the ID it has, which nobody gave it: the nil UUID.
CreateServer(d) ==
  /\ decide[d].kind = "approve" /\ decide[d].at = "read"
  /\ IF server = NoRecord
     THEN server' = decide[d].of /\ Moves(d, "created")
     ELSE Moves(d, "failed") /\ UNCHANGED server
  /\ UNCHANGED <<status, starting, stopping, agentState, scanners, record, link, crossed, overlapped>>

\* UpdateStatus of a record that may be gone.
Mark(r, decision) == record' = [record EXCEPT ![r] = IF @ = "none" THEN @ ELSE decision]

MarkApproved(d) ==
  /\ decide[d].at = "created"
  /\ Mark(decide[d].of, "approved")
  /\ Moves(d, "marked")
  /\ UNCHANGED <<status, starting, stopping, agentState, scanners, link, server, crossed, overlapped>>

SetServerID(d) ==
  LET r == decide[d].of
  IN /\ decide[d].at = "marked"
     /\ link' = IF record[r] = "none" \/ server = NoRecord THEN link ELSE link \union {r}
     /\ Moves(d, "done")
     /\ UNCHANGED <<status, starting, stopping, agentState, scanners, record, server, crossed, overlapped>>

RejectServer(d) ==
  /\ decide[d].kind = "reject" /\ decide[d].at = "read"
  /\ Mark(decide[d].of, "rejected")
  /\ Moves(d, "done")
  /\ UNCHANGED <<status, starting, stopping, agentState, scanners, link, server, crossed, overlapped>>

\* The client goes: the statements left to do fail, and the log says so.
ClientGoes(d) ==
  /\ decide[d].at \in {"read", "created", "marked"}
  /\ Moves(d, "done")
  /\ UNCHANGED <<status, starting, stopping, agentState, scanners, record, link, server, crossed, overlapped>>

\* DeleteDiscoveredServer; a decision under way may find another record of the
\* machine in its place.
DeleteRecord(r) ==
  /\ record[r] # "none"
  /\ record' = [record EXCEPT ![r] = "none"]
  /\ link' = link \ {r}
  /\ overlapped' = IF Under(r) # {} THEN overlapped \union {r} ELSE overlapped
  /\ UNCHANGED <<status, starting, stopping, agentState, scanners, server, decide, crossed>>

\* DELETE of the server, refused while a record refers to it.
DeleteServer ==
  /\ server # NoRecord /\ link = {}
  /\ server' = NoRecord
  /\ UNCHANGED <<status, starting, stopping, agentState, scanners, record, link, decide, crossed,
                 overlapped>>

DiscoveryNext ==
  \/ \E s \in Run :
       \/ CheckActiveSession(s) \/ StartDiscovery(s) \/ StopDiscovery(s)
       \/ TakeToken(s) \/ WriteConfigs(s) \/ MakeServer(s) \/ Listen(s) \/ Serve(s)
       \/ HandleDiscoveryStop(s)
  \/ AgentRestart
  \/ \E m \in Machine : Boot(m) \/ handleReport(m)
  \/ \E r \in Record : EventLost(r) \/ HandleResult(r) \/ DeleteRecord(r)
  \/ \E d \in Decision :
       \/ \E kind \in {"approve", "reject"}, r \in Record : ReadRecord(d, kind, r)
       \/ CreateServer(d) \/ MarkApproved(d) \/ SetServerID(d) \/ RejectServer(d) \/ ClientGoes(d)
  \/ DeleteServer

DiscoverySpec == DiscoveryInit /\ [][DiscoveryNext]_discoveryVars

-----------------------------------------------------------------------------
(* Properties.                                                             *)

\* A machine is listed under the session it was booted for and no other, although
\* it may report when that session is over, another is active, and the server of
\* either answers.
ReportsUnderOwnSession ==
  \A r \in Record : r \in event \/ record[r] # "none" => r \in booted

\* Starts and stops that do not cross at the agent leave it, whatever step failed,
\* either discovering, with its server at the port, or with nothing of it: no
\* server, port or DHCP configuration.
AgentTidy ==
  ~crossed /\ AtWork = {} =>
    IF active = 0 THEN field = 0 /\ listener = 0 /\ ~conf
                  ELSE listener = field /\ field = active /\ conf

\* A decision stands: only a decision that was taken at the same time changes it,
\* neither a later one nor the machine when it reports again, nor what
\* becomes of the session, or of the agent.
DecisionStands ==
  [][\A r \in Record : r \notin overlapped' /\ record[r] \in {"approved", "rejected"} =>
       record'[r] \in {record[r], "none"}]_discoveryVars

\* An approval that finds its record pending makes a server of it, as ApproveServer's
\* comment says, unless another decision about that record has come before it.
ApprovalCreates ==
  \A d \in Decision : decide[d].kind = "approve" /\ decide[d].at = "failed" =>
    \E e \in Decision \ {d} : decide[e].of = decide[d].of
=============================================================================
