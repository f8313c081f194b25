--------------------------- MODULE DiscoveryProofs ---------------------------
(***************************************************************************)
(* Proofs about Discovery, for any number of sessions, machines and        *)
(* decisions.                                                              *)
(***************************************************************************)
EXTENDS Discovery, TLAPS

\* What a report can be of: a running scanner carries a session its machine was
\* booted for, and neither an event nor a row names anything else.  The token the
\* agent compares is the session whose report it becomes, so whatever handlers
\* cross, the pair it sends was booted.
ReportInv ==
  /\ carries \in [Machine -> {0} \union Run]
  /\ record \in [Record -> {"none", "pending", "approved", "rejected"}]
  /\ \A m \in Machine : carries[m] # 0 => <<carries[m], m>> \in booted
  /\ event \subseteq booted
  /\ boot \in {0} \union Run
  /\ \A r \in Record : record[r] # "none" => r \in booted

\* Nothing has been reported at first.
LEMMA ReportInvInit == DiscoveryInit => ReportInv
BY DEF DiscoveryInit, ReportInv

\* The handlers of the agent's sessions change only the token that boots machines.
LEMMA HandlersKeepInv ==
  ASSUME ReportInv, NEW s \in Run,
         \/ CheckActiveSession(s) \/ StartDiscovery(s) \/ StopDiscovery(s)
         \/ TakeToken(s) \/ WriteConfigs(s) \/ MakeServer(s) \/ Listen(s) \/ Serve(s)
         \/ HandleDiscoveryStop(s)
  PROVE  ReportInv'
<1>1. boot' \in {0} \union Run
  <2>1. CASE WriteConfigs(s) BY <2>1 DEF WriteConfigs, ReportInv
  <2>2. CASE \/ CheckActiveSession(s) \/ StartDiscovery(s) \/ StopDiscovery(s)
             \/ TakeToken(s) \/ MakeServer(s) \/ Listen(s) \/ Serve(s) \/ HandleDiscoveryStop(s)
    BY <2>2 DEF ReportInv, CheckActiveSession, StartDiscovery, StopDiscovery, TakeToken, MakeServer,
                Listen, Serve, HandleDiscoveryStop, agentState
  <2> QED BY <2>1, <2>2
<1>2. UNCHANGED <<carries, booted, event, record>>
  BY DEF CheckActiveSession, StartDiscovery, StopDiscovery, TakeToken, WriteConfigs, MakeServer,
         Listen, Serve, HandleDiscoveryStop, scanners, database
<1> QED BY <1>1, <1>2 DEF ReportInv

\* A machine that boots, and a report, whoever answers it.
LEMMA MachinesKeepInv ==
  ASSUME ReportInv, NEW m \in Machine, Boot(m) \/ handleReport(m)
  PROVE  ReportInv'
<1>1. CASE Boot(m)
  <2>1. /\ carries' = [carries EXCEPT ![m] = boot]
        /\ booted' = booted \union {<<boot, m>>}
        /\ boot # 0 /\ UNCHANGED <<boot, event, record>>
    BY <1>1 DEF Boot, agentState, database
  <2>2. \A n \in Machine : carries'[n] # 0 => <<carries'[n], n>> \in booted'
    BY <2>1 DEF ReportInv
  <2> QED BY <2>1, <2>2 DEF ReportInv
<1>2. CASE handleReport(m)
  <2>1. /\ carries[m] # 0 /\ carries[m] = active
        /\ event' = event \union {<<active, m>>}
        /\ UNCHANGED <<boot, carries, booted, record>>
    BY <1>2 DEF handleReport, agentState, database
  <2>2. <<active, m>> \in booted
    BY <2>1 DEF ReportInv
  <2> QED BY <2>1, <2>2 DEF ReportInv
<1> QED BY <1>1, <1>2

\* The backend stores an event it was sent; it makes no row of another kind.
LEMMA RecordsKeepInv ==
  ASSUME ReportInv, NEW r \in Record, EventLost(r) \/ HandleResult(r) \/ DeleteRecord(r)
  PROVE  ReportInv'
<1>1. UNCHANGED <<boot, carries, booted>> /\ event' \subseteq event
  BY DEF EventLost, HandleResult, DeleteRecord, agentState, scanners
<1>2. record' \in [Record -> {"none", "pending", "approved", "rejected"}]
  BY DEF EventLost, HandleResult, DeleteRecord, database, ReportInv, Upsert
<1>3. \A q \in Record : record'[q] # "none" => q \in booted
  BY DEF EventLost, HandleResult, DeleteRecord, database, ReportInv
<1> QED BY <1>1, <1>2, <1>3 DEF ReportInv

\* A decision marks a row that is there.
LEMMA DecisionsKeepInv ==
  ASSUME ReportInv, NEW d \in Decision,
         \/ \E kind \in {"approve", "reject"}, r \in Record : ReadRecord(d, kind, r)
         \/ CreateServer(d) \/ MarkApproved(d) \/ SetServerID(d) \/ RejectServer(d) \/ ClientGoes(d)
  PROVE  ReportInv'
<1>1. UNCHANGED <<boot, carries, booted, event>>
  BY DEF ReadRecord, CreateServer, MarkApproved, SetServerID, RejectServer, ClientGoes,
         agentState, scanners
<1>2. /\ record' \in [Record -> {"none", "pending", "approved", "rejected"}]
      /\ \A q \in Record : record'[q] # "none" => record[q] # "none"
  <2>1. CASE MarkApproved(d) \/ RejectServer(d)
    BY <2>1 DEF MarkApproved, RejectServer, Mark, ReportInv
  <2>2. CASE \/ \E kind \in {"approve", "reject"}, r \in Record : ReadRecord(d, kind, r)
             \/ CreateServer(d) \/ SetServerID(d) \/ ClientGoes(d)
    BY <2>2 DEF ReadRecord, CreateServer, SetServerID, ClientGoes, ReportInv
  <2> QED BY <2>1, <2>2
<1> QED BY <1>1, <1>2 DEF ReportInv

\* Every step keeps events and rows to pairs of machine and session that were booted.
THEOREM StepKeepsReportInv == ReportInv /\ [DiscoveryNext]_discoveryVars => ReportInv'
<1> SUFFICES ASSUME ReportInv, [DiscoveryNext]_discoveryVars PROVE ReportInv'
    OBVIOUS
<1>1. ASSUME NEW s \in Run,
             \/ CheckActiveSession(s) \/ StartDiscovery(s) \/ StopDiscovery(s)
             \/ TakeToken(s) \/ WriteConfigs(s) \/ MakeServer(s) \/ Listen(s) \/ Serve(s)
             \/ HandleDiscoveryStop(s)
      PROVE  ReportInv'
  BY <1>1, HandlersKeepInv
<1>2. CASE AgentRestart
  BY <1>2 DEF AgentRestart, ReportInv, scanners, database
<1>3. ASSUME NEW m \in Machine, Boot(m) \/ handleReport(m) PROVE ReportInv'
  BY <1>3, MachinesKeepInv
<1>4. ASSUME NEW r \in Record, EventLost(r) \/ HandleResult(r) \/ DeleteRecord(r) PROVE ReportInv'
  BY <1>4, RecordsKeepInv
<1>5. ASSUME NEW d \in Decision,
             \/ \E kind \in {"approve", "reject"}, r \in Record : ReadRecord(d, kind, r)
             \/ CreateServer(d) \/ MarkApproved(d) \/ SetServerID(d) \/ RejectServer(d)
             \/ ClientGoes(d)
      PROVE  ReportInv'
  BY <1>5, DecisionsKeepInv
<1>6. CASE DeleteServer
  BY <1>6 DEF DeleteServer, ReportInv, agentState, scanners
<1>7. CASE UNCHANGED discoveryVars
  BY <1>7 DEF discoveryVars, ReportInv
<1> QED
  BY <1>1, <1>2, <1>3, <1>4, <1>5, <1>6, <1>7 DEF DiscoveryNext

\* A row of discovered_servers, and an event on its way to one, is of a machine that
\* was booted for the session it names: in whatever order starts, stops, restarts,
\* reports and decisions come (handleReport, HandleDiscoveryResultEvent).
THEOREM ReportsStayWithTheirSession == DiscoverySpec => []ReportsUnderOwnSession
<1>1. ReportInv => ReportsUnderOwnSession
  BY DEF ReportInv, ReportsUnderOwnSession
<1> QED
  BY <1>1, ReportInvInit, StepKeepsReportInv, PTL DEF DiscoverySpec

-----------------------------------------------------------------------------
\* Decisions.

OpenAt == {"read", "created", "marked"}

\* Two requests that are at work on one record have overlapped, and a request that
\* nobody overlapped still finds its record as it read it, until it marks it.
DecideInv ==
  /\ record \in [Record -> {"none", "pending", "approved", "rejected"}]
  /\ decide \in [Decision -> [kind : {"none", "approve", "reject"}, of : Record \union {NoRecord},
                              at : {"idle", "read", "created", "marked", "done", "failed"}]]
  /\ \A d \in Decision : decide[d].at \in OpenAt => decide[d].of \in Record
  /\ \A d \in Decision :
       decide[d].at \in {"read", "created"} /\ decide[d].of \notin overlapped =>
         record[decide[d].of] = "pending"
  /\ \A d, e \in Decision :
       d # e /\ decide[d].at \in OpenAt /\ decide[e].at \in OpenAt /\ decide[d].of = decide[e].of =>
         decide[d].of \in overlapped

Stands == \A r \in Record : r \notin overlapped' /\ record[r] \in {"approved", "rejected"} =>
                             record'[r] \in {record[r], "none"}

\* Nothing is being decided at first.
LEMMA DecideInvInit == DiscoveryInit => DecideInv
BY DEF DiscoveryInit, DecideInv, OpenAt

\* Reading a record that another request is at work on is what overlapping is.
LEMMA ReadKeepsDecisions ==
  ASSUME DecideInv, NEW d \in Decision, NEW kind \in {"approve", "reject"}, NEW r \in Record,
         ReadRecord(d, kind, r)
  PROVE  DecideInv' /\ Stands
<1> DEFINE now == [kind |-> kind, of |-> r, at |-> IF record[r] = "pending" THEN "read" ELSE "done"]
<1>1. /\ decide[d].at = "idle" /\ decide' = [decide EXCEPT ![d] = now] /\ record' = record
      /\ overlapped' = IF Under(r) # {} THEN overlapped \union {r} ELSE overlapped
  BY DEF ReadRecord
<1>2. \A e \in Decision : e # d => decide'[e] = decide[e]
  BY <1>1 DEF DecideInv
<1>3. decide'[d] = now
  BY <1>1 DEF DecideInv
<1>4. \A e \in Decision : decide[e].at \in OpenAt /\ decide[e].of = r => r \in overlapped'
  BY <1>1 DEF Under, OpenAt
<1>5. overlapped \subseteq overlapped'
  BY <1>1
<1>6. decide' \in [Decision -> [kind : {"none", "approve", "reject"}, of : Record \union {NoRecord},
                               at : {"idle", "read", "created", "marked", "done", "failed"}]]
  BY <1>1 DEF DecideInv
<1>7. \A e \in Decision : decide'[e].at \in OpenAt => decide'[e].of \in Record
  BY <1>2, <1>3 DEF DecideInv
<1>8. \A e \in Decision :
        decide'[e].at \in {"read", "created"} /\ decide'[e].of \notin overlapped' =>
          record'[decide'[e].of] = "pending"
  BY <1>1, <1>2, <1>3, <1>5 DEF DecideInv
<1>9. \A e, f \in Decision :
        e # f /\ decide'[e].at \in OpenAt /\ decide'[f].at \in OpenAt /\ decide'[e].of = decide'[f].of =>
          decide'[e].of \in overlapped'
  BY <1>2, <1>3, <1>4, <1>5 DEF DecideInv
<1> QED BY <1>1, <1>6, <1>7, <1>8, <1>9 DEF DecideInv, Stands

\* A step that moves a request on and leaves its record, or marks it for the first time.
LEMMA MoveKeepsDecisions ==
  ASSUME DecideInv, NEW d \in Decision, NEW to \in {"created", "marked", "done", "failed"},
         decide[d].at \in OpenAt, Moves(d, to), UNCHANGED overlapped,
         \/ UNCHANGED record /\ (to = "created" => decide[d].at = "read")
         \/ /\ decide[d].at \in {"read", "created"} /\ to \in {"marked", "done"}
            /\ \E decision \in {"approved", "rejected"} : Mark(decide[d].of, decision)
  PROVE  DecideInv' /\ Stands
<1> DEFINE r == decide[d].of
<1>1. /\ \A e \in Decision : e # d => decide'[e] = decide[e]
      /\ decide'[d].of = r /\ decide'[d].at = to
      /\ decide' \in [Decision -> [kind : {"none", "approve", "reject"}, of : Record \union {NoRecord},
                                   at : {"idle", "read", "created", "marked", "done", "failed"}]]
  BY DEF Moves, DecideInv
<1>2. r \in Record
  BY DEF DecideInv
<1>3. /\ record' \in [Record -> {"none", "pending", "approved", "rejected"}]
      /\ \A q \in Record \ {r} : record'[q] = record[q]
      /\ record'[r] # record[r] => decide[d].at \in {"read", "created"} /\ to \notin {"read", "created"}
  BY <1>2 DEF Mark, DecideInv
<1>4. \A e \in Decision : decide'[e].at \in OpenAt => decide[e].at \in OpenAt /\ decide'[e].of = decide[e].of
  BY <1>1
<1>5. \A e \in Decision : decide'[e].at \in OpenAt => decide'[e].of \in Record
  BY <1>4 DEF DecideInv
<1>6. \A e, f \in Decision :
        e # f /\ decide'[e].at \in OpenAt /\ decide'[f].at \in OpenAt /\ decide'[e].of = decide'[f].of =>
          decide'[e].of \in overlapped'
  BY <1>4 DEF DecideInv
<1>7. ASSUME NEW e \in Decision, decide'[e].at \in {"read", "created"}, decide'[e].of \notin overlapped'
      PROVE  record'[decide'[e].of] = "pending"
  <2>1. decide[e].at \in OpenAt /\ decide[e].of \in Record /\ decide'[e].of = decide[e].of
    BY <1>4, <1>7 DEF OpenAt, DecideInv
  <2>2. decide[e].at \in {"read", "created"}
    BY <1>1, <1>3, <1>7 DEF OpenAt
  <2>3. record[decide[e].of] = "pending"
    BY <1>7, <2>1, <2>2 DEF DecideInv
  <2>4. CASE e = d
    BY <1>1, <1>3, <1>7, <2>1, <2>3, <2>4
  <2>5. CASE e # d
    <3>1. decide[e].of # r
      BY <1>7, <2>1, <2>5 DEF DecideInv
    <3> QED BY <1>3, <2>1, <2>3, <3>1
  <2> QED BY <2>4, <2>5
<1>8. Stands
  <2>1. r \notin overlapped /\ record'[r] # record[r] => record[r] = "pending"
    BY <1>3 DEF DecideInv
  <2> QED BY <1>3, <2>1 DEF Stands
<1> QED BY <1>1, <1>3, <1>5, <1>6, <1>7, <1>8 DEF DecideInv

\* A step of a request at work keeps the invariant and lets decisions stand.
LEMMA RequestsKeepDecisions ==
  ASSUME DecideInv, NEW d \in Decision,
         \/ CreateServer(d) \/ MarkApproved(d) \/ SetServerID(d) \/ RejectServer(d) \/ ClientGoes(d)
  PROVE  DecideInv' /\ Stands
<1>1. CASE CreateServer(d)
  <2>1. /\ decide[d].at = "read" /\ UNCHANGED <<overlapped, record>>
        /\ Moves(d, "created") \/ Moves(d, "failed")
    BY <1>1 DEF CreateServer
  <2> QED BY <2>1, MoveKeepsDecisions DEF OpenAt
<1>2. CASE MarkApproved(d)
  BY <1>2, MoveKeepsDecisions DEF MarkApproved, OpenAt
<1>3. CASE SetServerID(d)
  BY <1>3, MoveKeepsDecisions DEF SetServerID, OpenAt
<1>4. CASE RejectServer(d)
  BY <1>4, MoveKeepsDecisions DEF RejectServer, OpenAt
<1>5. CASE ClientGoes(d)
  BY <1>5, MoveKeepsDecisions DEF ClientGoes, OpenAt
<1> QED BY <1>1, <1>2, <1>3, <1>4, <1>5

\* A machine that reports again leaves the decision; a deletion under a request at
\* work is an overlap.
LEMMA RowsKeepDecisions ==
  ASSUME DecideInv, NEW r \in Record, HandleResult(r) \/ DeleteRecord(r)
  PROVE  DecideInv' /\ Stands
<1>1. /\ UNCHANGED decide /\ overlapped \subseteq overlapped'
      /\ record' \in [Record -> {"none", "pending", "approved", "rejected"}]
      /\ \A q \in Record \ {r} : record'[q] = record[q]
  BY DEF HandleResult, DeleteRecord, DecideInv, Upsert
<1>2. CASE HandleResult(r)
  <2>1. record'[r] = Upsert(record[r])
    BY <1>2 DEF HandleResult, DecideInv
  <2>2. \A q \in Record : record[q] # "none" => record'[q] = record[q]
    BY <1>1, <2>1 DEF Upsert
  <2> QED BY <1>1, <2>2 DEF DecideInv, Stands, OpenAt
<1>3. CASE DeleteRecord(r)
  <2>1. record'[r] = "none"
    BY <1>3 DEF DeleteRecord, DecideInv
  <2>2. \A e \in Decision : decide[e].at \in OpenAt /\ decide[e].of = r => r \in overlapped'
    BY <1>3 DEF DeleteRecord, Under, OpenAt
  <2>3. \A e \in Decision :
          decide[e].at \in {"read", "created"} /\ decide[e].of \notin overlapped' =>
            record'[decide[e].of] = "pending"
    BY <1>1, <2>2 DEF DecideInv, OpenAt
  <2> QED BY <1>1, <2>1, <2>3 DEF DecideInv, Stands
<1> QED BY <1>2, <1>3

\* Sessions, handlers, machines and events have no part in decisions.
LEMMA StepKeepsDecisions ==
  ASSUME DecideInv, [DiscoveryNext]_discoveryVars
  PROVE  DecideInv' /\ Stands
<1>1. ASSUME UNCHANGED <<record, decide, overlapped>> PROVE DecideInv' /\ Stands
  BY <1>1 DEF DecideInv, Stands
<1>2. ASSUME NEW s \in Run,
             \/ CheckActiveSession(s) \/ StartDiscovery(s) \/ StopDiscovery(s)
             \/ TakeToken(s) \/ WriteConfigs(s) \/ MakeServer(s) \/ Listen(s) \/ Serve(s)
             \/ HandleDiscoveryStop(s)
      PROVE  DecideInv' /\ Stands
  BY <1>1, <1>2 DEF CheckActiveSession, StartDiscovery, StopDiscovery, TakeToken, WriteConfigs,
                    MakeServer, Listen, Serve, HandleDiscoveryStop, database
<1>3. ASSUME NEW m \in Machine, Boot(m) \/ handleReport(m) PROVE DecideInv' /\ Stands
  BY <1>1, <1>3 DEF Boot, handleReport, database
<1>4. ASSUME NEW r \in Record, EventLost(r) \/ HandleResult(r) \/ DeleteRecord(r)
      PROVE  DecideInv' /\ Stands
  BY <1>1, <1>4, RowsKeepDecisions DEF EventLost, database
<1>5. ASSUME NEW d \in Decision,
             \/ \E kind \in {"approve", "reject"}, r \in Record : ReadRecord(d, kind, r)
             \/ CreateServer(d) \/ MarkApproved(d) \/ SetServerID(d) \/ RejectServer(d)
             \/ ClientGoes(d)
      PROVE  DecideInv' /\ Stands
  BY <1>5, ReadKeepsDecisions, RequestsKeepDecisions
<1>6. CASE AgentRestart \/ DeleteServer \/ UNCHANGED discoveryVars
  BY <1>1, <1>6 DEF AgentRestart, DeleteServer, database, discoveryVars
<1> QED BY <1>2, <1>3, <1>4, <1>5, <1>6 DEF DiscoveryNext

\* An approval or a rejection is changed by no later request, report, session or
\* restart: only by a request that was at work on the record at the same time
\* (ApproveServer and RejectServer read the status before they write it).
THEOREM DecisionsStand == DiscoverySpec => DecisionStands
<1>1. DecideInv /\ [DiscoveryNext]_discoveryVars => DecideInv' /\ [Stands]_discoveryVars
  BY StepKeepsDecisions
<1>2. DiscoverySpec => [][Stands]_discoveryVars
  BY <1>1, DecideInvInit, PTL DEF DiscoverySpec
<1> QED BY <1>2 DEF DecisionStands, Stands

-----------------------------------------------------------------------------
\* What the agent leaves.

\* What the agent has when no handler is at work.
Settled ==
  IF active = 0 THEN field = 0 /\ listener = 0 /\ ~conf
                ELSE listener = field /\ field = active /\ conf

\* What start s, alone at work, has done so far: the token, the files, the server,
\* the port.
Progress(s) ==
  /\ active = s
  /\ \/ starting[s] = "files"  /\ field = 0 /\ listener = 0 /\ ~conf
     \/ starting[s] = "server" /\ field = 0 /\ listener = 0 /\ conf
     \/ starting[s] = "listen" /\ field = s /\ listener = 0 /\ conf
     \/ starting[s] = "serve"  /\ field = s /\ listener = Bound /\ conf

\* A start is sent when its session is stored, once.
StartInv ==
  /\ status \in [Run -> {"none", "checked", "active", "stopped"}]
  /\ starting \in [Run -> {"none", "sent", "files", "server", "listen", "serve", "over"}]
  /\ \A s \in Run : starting[s] # "none" => status[s] \in {"active", "stopped"}

\* Undisturbed, the agent has one start at work and what that start has done, or none
\* and all or nothing of a discovery: each failure's cleanup finds the state its
\* own start made, and no other's.
TidyInv ==
  /\ StartInv
  /\ ~crossed => \/ AtWork = {} /\ Settled
                 \/ \E s \in Run : AtWork = {s} /\ Progress(s)

\* The agent is tidy at first.
LEMMA TidyInvInit == DiscoveryInit => TidyInv
BY DEF DiscoveryInit, TidyInv, StartInv, AtWork, Settled

\* No session is named 0, which stands for none.
LEMMA RunIsPositive == \A s \in Run : s # 0
BY DEF Run

\* A start that takes the token when none is at work makes the one that is.
LEMMA TakeTokenKeepsTidy ==
  ASSUME TidyInv, NEW s \in Run, TakeToken(s)
  PROVE  TidyInv'
<1>1. CASE active # 0
  <2>1. /\ starting[s] = "sent" /\ starting' = [starting EXCEPT ![s] = "over"]
        /\ UNCHANGED <<status, active, field, listener, conf, crossed>>
    BY <1>1 DEF TakeToken
  <2>2. AtWork' = AtWork /\ \A i \in AtWork : starting'[i] = starting[i]
    BY <2>1 DEF AtWork, TidyInv, StartInv
  <2>3. StartInv'
    BY <2>1 DEF TidyInv, StartInv
  <2> QED BY <2>1, <2>2, <2>3 DEF TidyInv, Settled, Progress, Bound
<1>2. CASE active = 0
  <2>1. /\ starting[s] = "sent" /\ starting' = [starting EXCEPT ![s] = "files"]
        /\ active' = s /\ crossed' = (crossed \/ AtWork # {})
        /\ UNCHANGED <<status, field, listener, conf>>
    BY <1>2 DEF TakeToken
  <2>2. StartInv'
    BY <2>1 DEF TidyInv, StartInv
  <2>3. ASSUME ~crossed' PROVE AtWork' = {s} /\ Progress(s)'
    <3>1. ~crossed /\ AtWork = {}
      BY <2>1, <2>3
    <3>2. Settled
      BY <3>1 DEF TidyInv
    <3>3. AtWork' = {s}
      BY <2>1, <3>1 DEF AtWork, TidyInv, StartInv
    <3>4. starting'[s] = "files"
      BY <2>1 DEF TidyInv, StartInv
    <3> QED BY <1>2, <2>1, <3>2, <3>3, <3>4 DEF Settled, Progress
  <2> QED BY <2>2, <2>3 DEF TidyInv
<1> QED BY <1>1, <1>2

\* A step of a start is of the one at work, which it leaves further on or over.
LEMMA WorkKeepsTidy ==
  ASSUME TidyInv, NEW s \in Run, NEW to \in {"server", "listen", "serve", "over"},
         s \in AtWork, starting' = [starting EXCEPT ![s] = to], UNCHANGED <<status, crossed>>,
         ~crossed /\ Progress(s) => IF to = "over" THEN Settled' ELSE Progress(s)'
  PROVE  TidyInv'
<1>1. StartInv'
  BY DEF TidyInv, StartInv, AtWork
<1>2. ASSUME ~crossed'
      PROVE  \/ AtWork' = {} /\ Settled'
             \/ AtWork' = {s} /\ Progress(s)'
  <2>1. AtWork = {s} /\ Progress(s)
    BY <1>2 DEF TidyInv
  <2>2. CASE to = "over"
    <3>1. AtWork' = {}
      BY <2>1, <2>2 DEF AtWork, TidyInv, StartInv
    <3> QED BY <1>2, <2>1, <2>2, <3>1
  <2>3. CASE to # "over"
    <3>1. AtWork' = {s}
      BY <2>1, <2>3 DEF AtWork, TidyInv, StartInv
    <3> QED BY <1>2, <2>1, <2>3, <3>1
  <2> QED BY <2>2, <2>3
<1> QED BY <1>1, <1>2 DEF TidyInv

\* A step of a start adds to what that start has done, or its failure undoes all of it.
LEMMA StartKeepsTidy ==
  ASSUME TidyInv, NEW s \in Run, WriteConfigs(s) \/ MakeServer(s) \/ Listen(s) \/ Serve(s)
  PROVE  TidyInv'
<1>0. s # 0
  BY RunIsPositive
<1>1. CASE WriteConfigs(s)
  <2>1. s \in AtWork /\ starting[s] = "files" /\ UNCHANGED <<status, crossed>>
    BY <1>1 DEF WriteConfigs, AtWork
  <2>2. CASE starting' = [starting EXCEPT ![s] = "server"] /\ conf' = TRUE
             /\ UNCHANGED <<active, field, listener>>
    <3>1. Progress(s) => Progress(s)'
      BY <2>1, <2>2 DEF Progress, TidyInv, StartInv
    <3> QED BY <2>1, <2>2, <3>1, WorkKeepsTidy
  <2>3. CASE starting' = [starting EXCEPT ![s] = "over"] /\ cleanup
    <3>1. Progress(s) => Settled'
      BY <2>1, <2>3 DEF Progress, Settled, cleanup
    <3> QED BY <2>1, <2>3, <3>1, WorkKeepsTidy
  <2> QED BY <1>1, <2>2, <2>3 DEF WriteConfigs
<1>2. CASE MakeServer(s)
  <2>1. /\ s \in AtWork /\ starting[s] = "server" /\ field' = s
        /\ starting' = [starting EXCEPT ![s] = "listen"]
        /\ UNCHANGED <<status, crossed, active, listener, conf>>
    BY <1>2 DEF MakeServer, AtWork
  <2>2. Progress(s) => Progress(s)'
    BY <2>1 DEF Progress, TidyInv, StartInv
  <2> QED BY <2>1, <2>2, WorkKeepsTidy
<1>3. CASE Listen(s)
  <2>1. s \in AtWork /\ starting[s] = "listen" /\ UNCHANGED <<status, crossed>>
    BY <1>3 DEF Listen, AtWork
  <2>2. CASE starting' = [starting EXCEPT ![s] = "serve"] /\ listener' = Bound
             /\ UNCHANGED <<active, field, conf>>
    <3>1. Progress(s) => Progress(s)'
      BY <2>1, <2>2 DEF Progress, TidyInv, StartInv, Bound
    <3> QED BY <2>1, <2>2, <3>1, WorkKeepsTidy
  <2>3. CASE starting' = [starting EXCEPT ![s] = "over"] /\ cleanup
    <3>1. Progress(s) => Settled'
      BY <2>1, <2>3 DEF Progress, Settled, cleanup
    <3> QED BY <2>1, <2>3, <3>1, WorkKeepsTidy
  <2> QED BY <1>3, <2>2, <2>3 DEF Listen
<1>4. CASE Serve(s)
  <2>1. /\ s \in AtWork /\ starting[s] = "serve" /\ listener' = field
        /\ starting' = [starting EXCEPT ![s] = "over"]
        /\ UNCHANGED <<status, crossed, active, field, conf>>
    BY <1>4 DEF Serve, AtWork
  <2>2. Progress(s) => Settled'
    BY <1>0, <2>1 DEF Progress, Settled
  <2> QED BY <2>1, <2>2, WorkKeepsTidy
<1> QED BY <1>1, <1>2, <1>3, <1>4

\* A stop that crosses a start is a disturbance; one that does not clears a discovery.
LEMMA StopKeepsTidy ==
  ASSUME TidyInv, NEW s \in Run, HandleDiscoveryStop(s)
  PROVE  TidyInv'
<1>1. UNCHANGED <<status, starting>> /\ cleanup /\ crossed' = (crossed \/ AtWork # {})
  BY DEF HandleDiscoveryStop
<1>2. AtWork' = AtWork
  BY <1>1 DEF AtWork
<1>3. ASSUME ~crossed' PROVE AtWork' = {} /\ Settled'
  <2>1. AtWork = {} /\ ~crossed
    BY <1>1, <1>3
  <2>2. Settled
    BY <2>1 DEF TidyInv
  <2> QED BY <1>1, <1>2, <2>1, <2>2 DEF Settled, cleanup
<1> QED BY <1>1, <1>3 DEF TidyInv, StartInv

\* A restart is a disturbance, and a start nobody took is there after it.
LEMMA RestartKeepsTidy == TidyInv /\ AgentRestart => TidyInv'
BY DEF TidyInv, StartInv, AgentRestart

\* The backend stores a session before it sends the start.
LEMMA SessionsKeepTidy ==
  ASSUME TidyInv, NEW s \in Run, CheckActiveSession(s) \/ StartDiscovery(s) \/ StopDiscovery(s)
  PROVE  TidyInv'
<1>1. UNCHANGED <<active, field, listener, conf, crossed>>
  BY DEF CheckActiveSession, StartDiscovery, StopDiscovery, agentState
<1>2. /\ StartInv'
      /\ \A i \in Run : starting'[i] # starting[i] => i = s /\ starting[i] = "none" /\ starting'[i] \in {"sent", "over"}
  BY DEF CheckActiveSession, StartDiscovery, StopDiscovery, TidyInv, StartInv
<1>3. AtWork' = AtWork /\ \A i \in AtWork : starting'[i] = starting[i]
  BY <1>2 DEF AtWork
<1> QED BY <1>1, <1>2, <1>3 DEF TidyInv, Settled, Progress, Bound

\* Every step keeps the agent tidy as long as no handlers cross.
LEMMA StepKeepsTidy == TidyInv /\ [DiscoveryNext]_discoveryVars => TidyInv'
<1> SUFFICES ASSUME TidyInv, [DiscoveryNext]_discoveryVars PROVE TidyInv'
    OBVIOUS
<1>1. ASSUME UNCHANGED <<status, starting, active, field, listener, conf, crossed>> PROVE TidyInv'
  BY <1>1 DEF TidyInv, StartInv, AtWork, Settled, Progress, Bound
<1>2. ASSUME NEW s \in Run,
             \/ CheckActiveSession(s) \/ StartDiscovery(s) \/ StopDiscovery(s)
             \/ TakeToken(s) \/ WriteConfigs(s) \/ MakeServer(s) \/ Listen(s) \/ Serve(s)
             \/ HandleDiscoveryStop(s)
      PROVE  TidyInv'
  BY <1>2, SessionsKeepTidy, TakeTokenKeepsTidy, StartKeepsTidy, StopKeepsTidy
<1>3. CASE AgentRestart
  BY <1>3, RestartKeepsTidy
<1>4. ASSUME NEW m \in Machine, Boot(m) \/ handleReport(m) PROVE TidyInv'
  BY <1>1, <1>4 DEF Boot, handleReport, agentState
<1>5. ASSUME NEW r \in Record, EventLost(r) \/ HandleResult(r) \/ DeleteRecord(r) PROVE TidyInv'
  BY <1>1, <1>5 DEF EventLost, HandleResult, DeleteRecord, agentState
<1>6. ASSUME NEW d \in Decision,
             \/ \E kind \in {"approve", "reject"}, r \in Record : ReadRecord(d, kind, r)
             \/ CreateServer(d) \/ MarkApproved(d) \/ SetServerID(d) \/ RejectServer(d)
             \/ ClientGoes(d)
      PROVE  TidyInv'
  BY <1>1, <1>6 DEF ReadRecord, CreateServer, MarkApproved, SetServerID, RejectServer, ClientGoes,
                    agentState
<1>7. CASE DeleteServer \/ UNCHANGED discoveryVars
  BY <1>1, <1>7 DEF DeleteServer, agentState, discoveryVars
<1> QED
  BY <1>2, <1>3, <1>4, <1>5, <1>6, <1>7 DEF DiscoveryNext

\* Starts and stops that do not cross at the agent leave it with all of a discovery or
\* nothing of one, whichever step of them failed, and however many of them there
\* were before (HandleDiscoveryStart, startHTTPServer, cleanup).
THEOREM AgentLeftTidy == DiscoverySpec => []AgentTidy
<1>1. TidyInv => AgentTidy
  BY DEF TidyInv, AgentTidy, Settled
<1> QED
  BY <1>1, TidyInvInit, StepKeepsTidy, PTL DEF DiscoverySpec

-----------------------------------------------------------------------------
\* Types.

\* The rows refer to what is there: a record that has a server is listed, and its server
\* is.  Foreign keys say the latter; SetServerID writes only rows that it finds.
RowsInv ==
  /\ active \in {0} \union Run /\ field \in {0} \union Run
  /\ listener \in {0, Bound} \union Run
  /\ event \subseteq Record /\ link \subseteq Record /\ server \in Record \union {NoRecord}
  /\ \A r \in link : record[r] # "none" /\ server # NoRecord

DiscoveryInv == ReportInv /\ DecideInv /\ TidyInv /\ RowsInv

\* NoRecord is no record.
LEMMA NoRecordIsNone == NoRecord \notin Record
BY DEF NoRecord, Record, Run

\* The handlers of start and stop leave the rows sound.
LEMMA HandlersKeepRows ==
  ASSUME DiscoveryInv, NEW s \in Run,
         \/ CheckActiveSession(s) \/ StartDiscovery(s) \/ StopDiscovery(s)
         \/ TakeToken(s) \/ WriteConfigs(s) \/ MakeServer(s) \/ Listen(s) \/ Serve(s)
         \/ HandleDiscoveryStop(s)
  PROVE  RowsInv'
<1>1. UNCHANGED <<event, record, link, server>>
  BY DEF CheckActiveSession, StartDiscovery, StopDiscovery, TakeToken, WriteConfigs, MakeServer,
         Listen, Serve, HandleDiscoveryStop, scanners, database
<1>2. /\ active' \in {active, 0, s} /\ field' \in {field, 0, s}
      /\ listener' \in {listener, 0, Bound, field}
  BY DEF CheckActiveSession, StartDiscovery, StopDiscovery, TakeToken, WriteConfigs, MakeServer,
         Listen, Serve, HandleDiscoveryStop, cleanup, agentState
<1> QED BY <1>1, <1>2 DEF DiscoveryInv, RowsInv, Bound

\* So do the results of discovery and the deletion of a record.
LEMMA RecordsKeepRows ==
  ASSUME DiscoveryInv, NEW r \in Record, EventLost(r) \/ HandleResult(r) \/ DeleteRecord(r)
  PROVE  RowsInv'
<1>1. UNCHANGED <<active, field, listener, server>>
  BY DEF EventLost, HandleResult, DeleteRecord, agentState, database
<1>2. /\ event' \subseteq event /\ link' \subseteq link
      /\ \A q \in link' : record'[q] # "none"
  BY DEF EventLost, HandleResult, DeleteRecord, scanners, database, Upsert, DiscoveryInv, RowsInv,
         ReportInv
<1> QED BY <1>1, <1>2 DEF DiscoveryInv, RowsInv, Bound

\* So do approvals and rejections.
LEMMA DecisionsKeepRows ==
  ASSUME DiscoveryInv, NEW d \in Decision,
         \/ \E kind \in {"approve", "reject"}, r \in Record : ReadRecord(d, kind, r)
         \/ CreateServer(d) \/ MarkApproved(d) \/ SetServerID(d) \/ RejectServer(d) \/ ClientGoes(d)
  PROVE  RowsInv'
<1>1. UNCHANGED <<active, field, listener, event>>
  BY DEF ReadRecord, CreateServer, MarkApproved, SetServerID, RejectServer, ClientGoes,
         agentState, scanners
<1>2. CASE \/ \E kind \in {"approve", "reject"}, r \in Record : ReadRecord(d, kind, r)
           \/ ClientGoes(d)
  BY <1>1, <1>2 DEF ReadRecord, ClientGoes, DiscoveryInv, RowsInv, Bound
<1>3. CASE MarkApproved(d) \/ RejectServer(d)
  <2>1. \A q \in Record : record[q] # "none" => record'[q] # "none"
    BY <1>3 DEF MarkApproved, RejectServer, Mark, DiscoveryInv, ReportInv
  <2>2. UNCHANGED <<link, server>>
    BY <1>3 DEF MarkApproved, RejectServer
  <2> QED BY <1>1, <2>1, <2>2 DEF DiscoveryInv, RowsInv, Bound
<1>4. CASE CreateServer(d)
  <2>1. decide[d].of \in Record /\ UNCHANGED <<link, record>>
    BY <1>4 DEF CreateServer, DiscoveryInv, DecideInv, OpenAt
  <2>2. server' = decide[d].of \/ server' = server
    BY <1>4 DEF CreateServer
  <2> QED BY <1>1, <2>1, <2>2, NoRecordIsNone DEF DiscoveryInv, RowsInv, Bound
<1>5. CASE SetServerID(d)
  <2>1. decide[d].of \in Record /\ UNCHANGED <<server, record>>
    BY <1>5 DEF SetServerID, DiscoveryInv, DecideInv, OpenAt
  <2>2. \/ link' = link
        \/ /\ link' = link \union {decide[d].of}
           /\ record[decide[d].of] # "none" /\ server # NoRecord
    BY <1>5 DEF SetServerID
  <2> QED BY <1>1, <2>1, <2>2 DEF DiscoveryInv, RowsInv, Bound
<1> QED BY <1>2, <1>3, <1>4, <1>5

\* Every step does.
LEMMA StepKeepsRows ==
  ASSUME DiscoveryInv, [DiscoveryNext]_discoveryVars
  PROVE  RowsInv'
<1>1. ASSUME UNCHANGED <<active, field, listener, event, record, link, server>> PROVE RowsInv'
  BY <1>1 DEF DiscoveryInv, RowsInv, Bound
<1>2. CASE AgentRestart
  BY <1>2 DEF AgentRestart, DiscoveryInv, RowsInv, Bound, scanners, database
<1>3. ASSUME NEW m \in Machine, Boot(m) PROVE RowsInv'
  BY <1>1, <1>3 DEF Boot, agentState, database
<1>4. ASSUME NEW m \in Machine, handleReport(m) PROVE RowsInv'
  <2>1. <<active, m>> \in Record
    BY <1>4 DEF handleReport, DiscoveryInv, RowsInv, Record
  <2> QED BY <1>4, <2>1 DEF handleReport, DiscoveryInv, RowsInv, Bound, agentState, database
<1>5. CASE DeleteServer
  BY <1>5 DEF DeleteServer, DiscoveryInv, RowsInv, Bound, agentState, scanners
<1>6. CASE UNCHANGED discoveryVars
  BY <1>1, <1>6 DEF discoveryVars
<1> QED
  BY <1>2, <1>3, <1>4, <1>5, <1>6, HandlersKeepRows, RecordsKeepRows, DecisionsKeepRows DEF DiscoveryNext

\* Every variable of discovery keeps its type; a start is of a stored session, and a row
\* that has a server has one that is there.
THEOREM DiscoveryTypeCorrect == DiscoverySpec => []DiscoveryTypeOK
<1>1. DiscoveryInit => DiscoveryInv
  <2>1. DiscoveryInit => RowsInv
    BY DEF DiscoveryInit, RowsInv
  <2> QED BY <2>1, ReportInvInit, DecideInvInit, TidyInvInit DEF DiscoveryInv
<1>2. DiscoveryInv /\ [DiscoveryNext]_discoveryVars => DiscoveryInv'
  BY StepKeepsReportInv, StepKeepsDecisions, StepKeepsTidy, StepKeepsRows DEF DiscoveryInv
<1>3. DiscoveryInv => DiscoveryTypeOK
  BY DEF DiscoveryInv, ReportInv, DecideInv, TidyInv, StartInv, RowsInv, DiscoveryTypeOK
<1> QED
  BY <1>1, <1>2, <1>3, PTL DEF DiscoverySpec
=============================================================================
