----------------------- MODULE InstallLifecycleProofs -----------------------
(***************************************************************************)
(* Theorems about InstallLifecycle, for every set of calls, every script   *)
(* of reports and every number of addresses.                               *)
(*                                                                         *)
(* The inductive invariant is TypeOK with three parts: CallInv says where  *)
(* a call is when it has a task, EventInv what stands behind an event and  *)
(* its handler, and CompletedInv that no task is completed without a       *)
(* report of it.  ProvisioningInv is inductive with TypeOK alone.          *)
(* PendingInv and CleanedInv say why a task is pending and when a handler  *)
(* is done, for the liveness theorems, which are of FairSpec and of        *)
(* []NobodyBlocks, the state property that nobody is stuck.                *)
(***************************************************************************)
EXTENDS InstallLifecycle, TLAPS

\* A call has a task from CreateTask on; the goroutine and the agent come after;
\* a call that began over an active install meets a task in the guard, or its
\* client has gone, which refuses the insert.
CallInv ==
  \A p \in Call :
    /\ pc[p] = "mark" \/ prepare[p] # "off" => p \in ToSet(tasks)
    /\ p \in ToSet(tasks) => pc[p] \in {"mark", "cut"} \/ prepare[p] # "off"
    /\ prepare[p] # "off" => pc[p] = "done"
    /\ pc[p] = "rollback" => result[p] = "error"
    /\ pc[p] = "done" => (result[p] = "ok" <=> prepare[p] # "off")
    /\ agent[p] # "none" => prepare[p] \notin {"off", "begin", "request"}
    /\ late[p] # {} => /\ tasks # <<>>
                       /\ pc[p] \notin {"idle", "mark"}
                       /\ pc[p] = "create" => gone[p]
                       /\ prepare[p] = "off"

\* An event was reported by an agent that acted, and its handler works on a
\* task of the server.
EventInv ==
  /\ pxe => tasks # <<>>
  /\ \A e \in Events :
       /\ handler[e] # "none" <=> event[e] # None
       /\ event[e] # None => agent[e[1]] = "acted" /\ e[2] <= emitted[e[1]]
       /\ handler[e] \in {"write", "server"} => found[e] # None /\ stale[e] # None
       /\ found[e] # None => found[e] \in ToSet(tasks)

\* A "completed" that a task has or a handler read comes from an event.
CompletedInv ==
  \/ \E e \in Events : event[e] = "completed"
  \/ /\ \A t \in Call : tstat[t] # "completed"
     /\ \A e \in Events : stale[e] # "completed"

\* A server in "provisioning" has a Provision call under way, or one whose
\* client left, or a call that was cut short.
ProvisioningInv ==
  /\ \A p \in Call : pc[p] = "provision" => kind[p] = "provision"
  /\ status = "provisioning" =>
       \E p \in Call : \/ gone[p] \/ pc[p] = "cut"
                       \/ /\ kind[p] = "provision"
                          /\ pc[p] \in {"list", "assign", "start", "guard", "create", "mark",
                                        "rollback"}

\* What the proofs about calls need of TypeOK.
CallTypes ==
  /\ tasks \in Seq(Call)
  /\ pc \in [Call -> CallSteps]
  /\ late \in [Call -> SUBSET Call]
  /\ gone \in [Call -> BOOLEAN]
  /\ result \in [Call -> {None, "ok", "error"}]
  /\ prepare \in [Call -> PrepareSteps]
  /\ agent \in [Call -> {"none", "asked", "acted"}]

\* What the proofs about events need of it.
EventTypes ==
  /\ tasks \in Seq(Call)
  /\ tstat \in [Call -> {None} \union TaskStatuses]
  /\ \A t \in Call : tstat[t] # None <=> t \in ToSet(tasks)
  /\ agent \in [Call -> {"none", "asked", "acted"}]
  /\ emitted \in [Call -> 0 .. Len(Script)]
  /\ handler \in [Events -> HandlerSteps]
  /\ event \in [Events -> {None, "failed"} \union ToSet(Script)]
  /\ found \in [Events -> {None} \union Call]
  /\ stale \in [Events -> {None} \union TaskStatuses]
  /\ pxe \in BOOLEAN

-----------------------------------------------------------------------------
\* The set of the elements of a sequence, and of one that has grown.
LEMMA AppendedTo ==
  ASSUME NEW S, NEW s \in Seq(S), NEW x \in S
  PROVE  /\ ToSet(Append(s, x)) = ToSet(s) \union {x}
         /\ Append(s, x) # <<>>
         /\ ToSet(s) \subseteq S
<1>1. Append(s, x) \in Seq(S) /\ Len(Append(s, x)) = Len(s) + 1
  OBVIOUS
<1>2. \A i \in 1 .. Len(s) : Append(s, x)[i] = s[i]
  OBVIOUS
<1>3. Append(s, x)[Len(s) + 1] = x
  OBVIOUS
<1>4. DOMAIN s = 1 .. Len(s) /\ DOMAIN Append(s, x) = 1 .. Len(s) + 1 /\ Len(s) \in Nat
  BY <1>1
<1>5. ToSet(Append(s, x)) = ToSet(s) \union {x}
  BY <1>2, <1>3, <1>4 DEF ToSet
<1>6. Append(s, x) # <<>>
  BY <1>1, <1>4
<1>7. ToSet(s) \subseteq S
  BY <1>4 DEF ToSet
<1>8. QED
  BY <1>5, <1>6, <1>7

\* The newest task of a server that has one is among its tasks.
LEMMA NewestTaskIn ==
  ASSUME tasks \in Seq(Call), NewestTask # None
  PROVE  NewestTask \in Call /\ NewestTask \in ToSet(tasks) /\ tasks # <<>>
<1>1. tasks # <<>> /\ NewestTask = tasks[Len(tasks)]
  BY DEF NewestTask, Last
<1>2. Len(tasks) \in 1 .. Len(tasks) /\ DOMAIN tasks = 1 .. Len(tasks)
  BY <1>1
<1>3. tasks[Len(tasks)] \in Call
  BY <1>2
<1>4. QED
  BY <1>1, <1>2, <1>3 DEF ToSet

\* A server with tasks has a newest one.
LEMMA NewestTaskIsOne ==
  ASSUME tasks \in Seq(Call), tasks # <<>>
  PROVE  NewestTask # None
<1>1. Len(tasks) \in 1 .. Len(tasks) /\ tasks[Len(tasks)] \in Call
  OBVIOUS
<1>2. QED
  BY <1>1, NoneAssumption DEF NewestTask, Last

\* The statuses, those of the script among them, are other values than None.
LEMMA ScriptFacts ==
  /\ Len(Script) \in Nat
  /\ \A n \in 1 .. Len(Script) : Script[n] \in ToSet(Script) /\ Script[n] # None
  /\ \A s \in TaskStatuses : s # None
<1>1. Len(Script) \in Nat /\ DOMAIN Script = 1 .. Len(Script)
  BY ScriptAssumption
<1>2. QED
  BY <1>1, NoneAssumption DEF ToSet

\* Every step keeps the type invariant.
LEMMA TypeStep ==
  ASSUME TypeOK, CallInv, EventInv, [Next]_vars
  PROVE  TypeOK'
<1> USE DEF TypeOK, vars, callVars, callerVars, eventVars, agentVars, backgroundVars
<1>a. \A p \in Call : tasks' = Append(tasks, p) =>
               tasks' \in Seq(Call) /\ ToSet(tasks') = ToSet(tasks) \union {p} /\ tasks' # <<>>
  BY AppendedTo, SMTT(30)
<1>b. NewestTask # None =>
        NewestTask \in Call /\ NewestTask \in ToSet(tasks) /\ tasks # <<>>
  BY NewestTaskIn
<1>c. \A s \in TaskStatuses : s # None
  BY ScriptFacts
<1>1. ASSUME NEW p \in Call, Begin(p) PROVE TypeOK'
  <2>1. late' \in [Call -> SUBSET Call]
    <3>1. {t \in ToSet(tasks) : tstat[t] \notin Terminal} \in SUBSET Call
      BY DEF ToSet
    <3> QED BY <1>1, <3>1 DEF Begin
  <2>2. /\ kind' \in [Call -> {None, "reinstall", "provision"}]
        /\ pc' \in [Call -> CallSteps] /\ result' \in [Call -> {None, "ok", "error"}]
    BY <1>1, ZenonT(60) DEF Begin, Goto, Finish, CallSteps
  <2> QED BY <1>1, <2>1, <2>2 DEF Begin
<1>2. ASSUME NEW p \in Call, ClientGoes(p) PROVE TypeOK'
  BY <1>2, ZenonT(60) DEF ClientGoes, CallSteps
<1>3. ASSUME NEW p \in Call, SetProvisioning(p) PROVE TypeOK'
  BY <1>3, ZenonT(60) DEF SetProvisioning, Goto, Finish, CallSteps
<1>4. ASSUME NEW p \in Call, ListAddresses(p) PROVE TypeOK'
  BY <1>4, ZenonT(60) DEF ListAddresses, Goto, CallSteps
<1>5. ASSUME NEW p \in Call, AssignAddress(p) PROVE TypeOK'
  <2>1. ips' \in 0 .. MaxIPs
    BY <1>5, MaxIPsAssumption DEF AssignAddress
  <2>2. pc' \in [Call -> CallSteps] /\ result' \in [Call -> {None, "ok", "error"}]
    BY <1>5, ZenonT(60) DEF AssignAddress, Goto, Refuse, CallSteps
  <2>3. QED
    BY <1>5, <2>1, <2>2 DEF AssignAddress
<1>6. ASSUME NEW p \in Call, Validate(p) PROVE TypeOK'
  BY <1>6, ZenonT(60) DEF Validate, Goto, Refuse, CallSteps
<1>7. ASSUME NEW p \in Call, CheckActiveTask(p) PROVE TypeOK'
  <2>1. saw' \in [Call -> {None} \union TaskStatuses]
    <3>1. CASE saw' = [saw EXCEPT ![p] = tstat[NewestTask]] /\ NewestTask # None
      <4>1. tstat[NewestTask] \in {None} \union TaskStatuses
        BY <1>b, <3>1
      <4>2. QED
        BY <3>1, <4>1
    <3>2. CASE UNCHANGED saw
      BY <3>2
    <3>3. QED
      BY <1>7, <3>1, <3>2 DEF CheckActiveTask
  <2>2. pc' \in [Call -> CallSteps] /\ result' \in [Call -> {None, "ok", "error"}]
    BY <1>7, ZenonT(60) DEF CheckActiveTask, Goto, Refuse, CallSteps
  <2>3. QED
    BY <1>7, <2>1, <2>2 DEF CheckActiveTask
<1>8. ASSUME NEW p \in Call, CreateTask(p) PROVE TypeOK'
  <2>1. CASE tasks' = Append(tasks, p) /\ tstat' = [tstat EXCEPT ![p] = "pending"]
    <3>1. tasks' \in Seq(Call) /\ ToSet(tasks') = ToSet(tasks) \union {p}
      BY <1>a, <2>1
    <3>2. tstat' \in [Call -> {None} \union TaskStatuses]
      BY <2>1 DEF TaskStatuses
    <3>3. \A t \in Call : tstat'[t] # None <=> t \in ToSet(tasks')
      BY <1>c, <2>1, <3>1 DEF TaskStatuses
    <3>4. pc' \in [Call -> CallSteps] /\ result' \in [Call -> {None, "ok", "error"}]
      BY <1>8, ZenonT(60) DEF CreateTask, Goto, Refuse, CallSteps
    <3>5. QED
      BY <1>8, <3>1, <3>2, <3>3, <3>4 DEF CreateTask
  <2>2. CASE UNCHANGED <<tasks, tstat>>
    <3>1. pc' \in [Call -> CallSteps] /\ result' \in [Call -> {None, "ok", "error"}]
      BY <1>8, ZenonT(60) DEF CreateTask, Goto, Refuse, CallSteps
    <3>2. QED
      BY <1>8, <2>2, <3>1 DEF CreateTask
  <2>3. QED
    BY <1>8, <2>1, <2>2 DEF CreateTask
<1>9. ASSUME NEW p \in Call, MarkReinstalling(p) PROVE TypeOK'
  BY <1>9, ZenonT(60) DEF MarkReinstalling, Goto, Finish, CallSteps, PrepareSteps
<1>10. ASSUME NEW p \in Call, Rollback(p) PROVE TypeOK'
  BY <1>10, ZenonT(60) DEF Rollback, Goto, CallSteps
<1>11. ASSUME NEW p \in Call, PrepareBegin(p) PROVE TypeOK'
  <2>1. prepare' \in [Call -> PrepareSteps] /\ prepare[p] # "off"
    BY <1>11 DEF PrepareBegin, Prepare, PrepareSteps
  <2>2. p \in ToSet(tasks)
    BY <2>1 DEF CallInv
  <2>3. tstat' \in [Call -> {None} \union TaskStatuses]
    BY <1>11 DEF PrepareBegin, TaskStatuses, Terminal
  <2>4. \A t \in Call : tstat'[t] # None <=> t \in ToSet(tasks)
    BY <1>11, <1>c, <2>2 DEF PrepareBegin, TaskStatuses, Terminal
  <2>5. QED
    BY <1>11, <2>1, <2>3, <2>4 DEF PrepareBegin
<1>12. ASSUME NEW p \in Call, PrepareSend(p) PROVE TypeOK'
  <2>1. prepare' \in [Call -> PrepareSteps]
    BY <1>12 DEF PrepareSend, Prepare, PrepareSteps
  <2>2. agent' \in [Call -> {"none", "asked", "acted"}]
    BY <1>12 DEF PrepareSend
  <2>3. QED
    BY <1>12, <2>1, <2>2 DEF PrepareSend
<1>13. ASSUME NEW p \in Call, PrepareAnswered(p) PROVE TypeOK'
  BY <1>13 DEF PrepareAnswered, Prepare, PrepareSteps
<1>14. ASSUME NEW p \in Call, PrepareTimeout(p) PROVE TypeOK'
  BY <1>14 DEF PrepareTimeout, Prepare, PrepareSteps
<1>15. ASSUME NEW p \in Call, PrepareDone(p) PROVE TypeOK'
  <2>1. prepare' \in [Call -> PrepareSteps] /\ prepare[p] # "off"
    BY <1>15 DEF PrepareDone, Prepare, PrepareSteps
  <2>2. p \in ToSet(tasks)
    BY <2>1 DEF CallInv
  <2>3. tstat' \in [Call -> {None} \union TaskStatuses]
    BY <1>15 DEF PrepareDone, TaskStatuses, Terminal
  <2>4. \A t \in Call : tstat'[t] # None <=> t \in ToSet(tasks)
    BY <1>15, <1>c, <2>2 DEF PrepareDone, TaskStatuses, Terminal
  <2>5. QED
    BY <1>15, <2>1, <2>3, <2>4 DEF PrepareDone
<1>16. ASSUME NEW p \in Call, PrepareFailTask(p) PROVE TypeOK'
  <2>1. prepare' \in [Call -> PrepareSteps] /\ prepare[p] # "off"
    BY <1>16 DEF PrepareFailTask, Prepare, PrepareSteps
  <2>2. p \in ToSet(tasks)
    BY <2>1 DEF CallInv
  <2>3. tstat' \in [Call -> {None} \union TaskStatuses]
    BY <1>16 DEF PrepareFailTask, TaskStatuses, Terminal
  <2>4. \A t \in Call : tstat'[t] # None <=> t \in ToSet(tasks)
    BY <1>16, <1>c, <2>2 DEF PrepareFailTask, TaskStatuses, Terminal
  <2>5. QED
    BY <1>16, <2>1, <2>3, <2>4 DEF PrepareFailTask
<1>17. ASSUME NEW p \in Call, PrepareFailServer(p) PROVE TypeOK'
  BY <1>17 DEF PrepareFailServer, Prepare, PrepareSteps
<1>18. ASSUME NEW p \in Call, AgentPrepares(p) PROVE TypeOK'
  BY <1>18 DEF AgentPrepares
<1>19. ASSUME NEW p \in Call, AgentReports(p) PROVE TypeOK'
  <2>1. emitted[p] + 1 \in 1 .. Len(Script) /\ <<p, emitted[p] + 1>> \in Events
    BY <1>19, ScriptFacts DEF AgentReports, Events
  <2>2. emitted' \in [Call -> 0 .. Len(Script)]
    BY <1>19, <2>1, ScriptFacts DEF AgentReports
  <2>3. handler' \in [Events -> HandlerSteps]
    BY <1>19, <2>1 DEF AgentReports, Emit, HandlerSteps
  <2>4. event' \in [Events -> {None, "failed"} \union ToSet(Script)]
    BY <1>19, <2>1, ScriptFacts DEF AgentReports, Emit
  <2>5. QED
    BY <1>19, <2>2, <2>3, <2>4 DEF AgentReports
<1>20. ASSUME NEW p \in Call, AgentFails(p) PROVE TypeOK'
  <2>1. emitted[p] + 1 \in 1 .. Len(Script) /\ <<p, emitted[p] + 1>> \in Events
    BY <1>20, ScriptFacts DEF AgentFails, Events
  <2>2. emitted' \in [Call -> 0 .. Len(Script)]
    BY <1>20, <2>1, ScriptFacts DEF AgentFails
  <2>3. handler' \in [Events -> HandlerSteps]
    BY <1>20, <2>1 DEF AgentFails, Emit, HandlerSteps
  <2>4. event' \in [Events -> {None, "failed"} \union ToSet(Script)]
    BY <1>20, <2>1, ScriptFacts DEF AgentFails, Emit
  <2>5. QED
    BY <1>20, <2>2, <2>3, <2>4 DEF AgentFails
<1>21. ASSUME NEW e \in Events, EventRead(e) PROVE TypeOK'
  <2>1. handler' \in [Events -> HandlerSteps]
    BY <1>21 DEF EventRead, Handle, HandlerSteps
  <2>2. /\ found' \in [Events -> {None} \union Call]
        /\ stale' \in [Events -> {None} \union TaskStatuses]
    <3>1. CASE NewestTask = None
      BY <1>21, <3>1 DEF EventRead
    <3>2. CASE NewestTask # None
      <4>1. NewestTask \in Call /\ tstat[NewestTask] \in {None} \union TaskStatuses
        BY <1>b, <3>2
      <4>2. /\ found' = [found EXCEPT ![e] = NewestTask]
            /\ stale' = [stale EXCEPT ![e] = tstat[NewestTask]]
        BY <1>21, <3>2 DEF EventRead
      <4>3. QED
        BY <4>1, <4>2
    <3>3. QED
      BY <3>1, <3>2
  <2>3. QED
    BY <1>21, <2>1, <2>2 DEF EventRead
<1>22. ASSUME NEW e \in Events, EventWrite(e) PROVE TypeOK'
  BY <1>22, <1>c DEF EventWrite, Handle, HandlerSteps, NewStatus, Terminal, TaskStatuses, Terminal, EventInv
<1>23. ASSUME NEW e \in Events, EventServer(e) PROVE TypeOK'
  BY <1>23 DEF EventServer, Handle, HandlerSteps, NewStatus, Terminal
<1>24. ASSUME NEW e \in Events, CleanUp(e) PROVE TypeOK'
  BY <1>24 DEF CleanUp
<1>25. CASE UNCHANGED vars
  BY <1>25
<1>26. ASSUME BackendStops PROVE TypeOK'
  BY <1>26 DEF BackendStops, CutUnless, CallSteps, PrepareSteps, HandlerSteps
<1>27. QED
  BY <1>1, <1>2, <1>3, <1>4, <1>5, <1>6, <1>7, <1>8, <1>9, <1>10, <1>11, <1>12, <1>13, <1>14, <1>15, <1>16, <1>17, <1>18, <1>19, <1>20, <1>21, <1>22, <1>23, <1>24, <1>25, <1>26 DEF Next, CallStep, PrepareStep, EventStep

\* Every step keeps CallInv.
LEMMA CallInvStep ==
  ASSUME CallTypes, CallInv, [Next]_vars
  PROVE  CallInv'
<1> USE DEF CallTypes, CallInv, vars, callVars, callerVars, eventVars, agentVars, backgroundVars
<1>a. \A p \in Call : tasks' = Append(tasks, p) =>
               ToSet(tasks') = ToSet(tasks) \union {p} /\ tasks' # <<>>
  BY AppendedTo DEF CallTypes
<1>b. tasks # <<>> => NewestTask # None
  BY NewestTaskIsOne DEF CallTypes
<1>1. ASSUME NEW p \in Call, Begin(p) PROVE CallInv'
  <2> DEFINE active == {t \in ToSet(tasks) : tstat[t] \notin Terminal}
  <2>1. late' = [late EXCEPT ![p] = active]
    BY <1>1 DEF Begin
  <2>2. active # {} => tasks # <<>>
    BY DEF ToSet
  <2> HIDE DEF active
  <2>3. /\ pc[p] = "idle" /\ UNCHANGED <<tasks, gone, prepare, agent>>
        /\ \/ \E x \in {"start", "provision"} : pc' = [pc EXCEPT ![p] = x] /\ UNCHANGED result
           \/ pc' = [pc EXCEPT ![p] = "done"] /\ result' = [result EXCEPT ![p] = "error"]
    BY <1>1 DEF Begin, Goto, Finish
  <2>4. ASSUME NEW q \in Call, q # p
        PROVE  pc'[q] = pc[q] /\ result'[q] = result[q] /\ late'[q] = late[q]
    BY <2>1, <2>3, <2>4
  <2>5. /\ pc'[p] \in {"start", "provision", "done"} /\ late'[p] = active
        /\ pc'[p] = "done" => result'[p] = "error"
    BY <2>1, <2>3
  <2> QED BY <2>2, <2>3, <2>4, <2>5
<1>2. ASSUME NEW p \in Call, ClientGoes(p) PROVE CallInv'
  BY <1>2 DEF ClientGoes
<1>3. ASSUME NEW p \in Call, SetProvisioning(p) PROVE CallInv'
  BY <1>3 DEF SetProvisioning, Goto, Finish
<1>4. ASSUME NEW p \in Call, ListAddresses(p) PROVE CallInv'
  BY <1>4 DEF ListAddresses, Goto
<1>5. ASSUME NEW p \in Call, AssignAddress(p) PROVE CallInv'
  BY <1>5 DEF AssignAddress, Goto, Refuse
<1>6. ASSUME NEW p \in Call, Validate(p) PROVE CallInv'
  BY <1>6 DEF Validate, Goto, Refuse
<1>7. ASSUME NEW p \in Call, CheckActiveTask(p) PROVE CallInv'
  BY <1>7, <1>b DEF CheckActiveTask, Goto, Refuse
<1>8. ASSUME NEW p \in Call, CreateTask(p) PROVE CallInv'
  BY <1>8, <1>a DEF CreateTask, Goto, Refuse
<1>9. ASSUME NEW p \in Call, MarkReinstalling(p) PROVE CallInv'
  BY <1>9 DEF MarkReinstalling, Goto, Finish
<1>10. ASSUME NEW p \in Call, Rollback(p) PROVE CallInv'
  BY <1>10 DEF Rollback, Goto
<1>11. ASSUME NEW p \in Call, PrepareBegin(p) PROVE CallInv'
  BY <1>11 DEF PrepareBegin, Prepare
<1>12. ASSUME NEW p \in Call, PrepareSend(p) PROVE CallInv'
  BY <1>12, ZenonT(120) DEF PrepareSend, Prepare
<1>13. ASSUME NEW p \in Call, PrepareAnswered(p) PROVE CallInv'
  BY <1>13 DEF PrepareAnswered, Prepare
<1>14. ASSUME NEW p \in Call, PrepareTimeout(p) PROVE CallInv'
  BY <1>14, ZenonT(60) DEF PrepareTimeout, Prepare
<1>15. ASSUME NEW p \in Call, PrepareDone(p) PROVE CallInv'
  BY <1>15 DEF PrepareDone, Prepare
<1>16. ASSUME NEW p \in Call, PrepareFailTask(p) PROVE CallInv'
  BY <1>16, ZenonT(60) DEF PrepareFailTask, Prepare
<1>17. ASSUME NEW p \in Call, PrepareFailServer(p) PROVE CallInv'
  BY <1>17, ZenonT(60) DEF PrepareFailServer, Prepare
<1>18. ASSUME NEW p \in Call, AgentPrepares(p) PROVE CallInv'
  BY <1>18 DEF AgentPrepares
<1>19. ASSUME NEW p \in Call, AgentReports(p) PROVE CallInv'
  BY <1>19 DEF AgentReports, Emit
<1>20. ASSUME NEW p \in Call, AgentFails(p) PROVE CallInv'
  BY <1>20 DEF AgentFails, Emit
<1>21. ASSUME NEW e \in Events, EventRead(e) PROVE CallInv'
  BY <1>21 DEF EventRead, Handle
<1>22. ASSUME NEW e \in Events, EventWrite(e) PROVE CallInv'
  BY <1>22 DEF EventWrite, Handle
<1>23. ASSUME NEW e \in Events, EventServer(e) PROVE CallInv'
  BY <1>23 DEF EventServer, Handle
<1>24. ASSUME NEW e \in Events, CleanUp(e) PROVE CallInv'
  BY <1>24 DEF CleanUp
<1>25. CASE UNCHANGED vars
  BY <1>25
<1>26. ASSUME BackendStops PROVE CallInv'
  BY <1>26 DEF BackendStops, CutUnless
<1>27. QED
  BY <1>1, <1>2, <1>3, <1>4, <1>5, <1>6, <1>7, <1>8, <1>9, <1>10, <1>11, <1>12, <1>13, <1>14, <1>15, <1>16, <1>17, <1>18, <1>19, <1>20, <1>21, <1>22, <1>23, <1>24, <1>25, <1>26 DEF Next, CallStep, PrepareStep, EventStep

\* Every step keeps EventInv.
LEMMA EventInvStep ==
  ASSUME EventTypes, CallTypes, CallInv, EventInv, [Next]_vars
  PROVE  EventInv'
<1> USE DEF EventTypes, EventInv, vars, callVars, callerVars, eventVars, agentVars, backgroundVars
<1>a. \A p \in Call : tasks' = Append(tasks, p) =>
               ToSet(tasks') = ToSet(tasks) \union {p} /\ tasks' # <<>>
  BY AppendedTo DEF EventTypes
<1>b. NewestTask # None =>
        NewestTask \in Call /\ NewestTask \in ToSet(tasks) /\ tasks # <<>>
  BY NewestTaskIn DEF EventTypes
<1>c. \A s \in TaskStatuses : s # None
  BY ScriptFacts
<1>1. ASSUME NEW p \in Call, Begin(p) PROVE EventInv'
  BY <1>1 DEF Begin, Goto, Finish
<1>2. ASSUME NEW p \in Call, ClientGoes(p) PROVE EventInv'
  BY <1>2 DEF ClientGoes
<1>3. ASSUME NEW p \in Call, SetProvisioning(p) PROVE EventInv'
  BY <1>3 DEF SetProvisioning, Goto, Finish
<1>4. ASSUME NEW p \in Call, ListAddresses(p) PROVE EventInv'
  BY <1>4 DEF ListAddresses, Goto
<1>5. ASSUME NEW p \in Call, AssignAddress(p) PROVE EventInv'
  BY <1>5 DEF AssignAddress, Goto, Refuse
<1>6. ASSUME NEW p \in Call, Validate(p) PROVE EventInv'
  BY <1>6 DEF Validate, Goto, Refuse
<1>7. ASSUME NEW p \in Call, CheckActiveTask(p) PROVE EventInv'
  BY <1>7 DEF CheckActiveTask, Goto, Refuse
<1>8. ASSUME NEW p \in Call, CreateTask(p) PROVE EventInv'
  BY <1>8, <1>a DEF CreateTask, Goto, Refuse
<1>9. ASSUME NEW p \in Call, MarkReinstalling(p) PROVE EventInv'
  BY <1>9 DEF MarkReinstalling, Goto, Finish
<1>10. ASSUME NEW p \in Call, Rollback(p) PROVE EventInv'
  BY <1>10 DEF Rollback, Goto
<1>11. ASSUME NEW p \in Call, PrepareBegin(p) PROVE EventInv'
  BY <1>11 DEF PrepareBegin, Prepare
<1>12. ASSUME NEW p \in Call, PrepareSend(p) PROVE EventInv'
  <2>1. ASSUME NEW q \in Call, agent[q] = "acted" PROVE agent'[q] = "acted"
    <3>1. prepare[q] # "request" /\ prepare[p] = "request"
      BY <1>12, <2>1 DEF PrepareSend, Prepare, CallInv
    <3> QED BY <1>12, <2>1, <3>1 DEF PrepareSend, CallTypes
  <2>2. QED
    BY <1>12, <2>1 DEF PrepareSend, Events
<1>13. ASSUME NEW p \in Call, PrepareAnswered(p) PROVE EventInv'
  BY <1>13 DEF PrepareAnswered, Prepare
<1>14. ASSUME NEW p \in Call, PrepareTimeout(p) PROVE EventInv'
  BY <1>14 DEF PrepareTimeout, Prepare
<1>15. ASSUME NEW p \in Call, PrepareDone(p) PROVE EventInv'
  BY <1>15 DEF PrepareDone, Prepare
<1>16. ASSUME NEW p \in Call, PrepareFailTask(p) PROVE EventInv'
  BY <1>16 DEF PrepareFailTask, Prepare
<1>17. ASSUME NEW p \in Call, PrepareFailServer(p) PROVE EventInv'
  BY <1>17 DEF PrepareFailServer, Prepare
<1>18. ASSUME NEW p \in Call, AgentPrepares(p) PROVE EventInv'
  <2>1. \A q \in Call : agent[q] = "acted" => agent'[q] = "acted"
    BY <1>18 DEF AgentPrepares
  <2>2. tasks # <<>>
    <3>1. p \in ToSet(tasks)
      BY <1>18 DEF AgentPrepares, CallInv
    <3>2. QED
      BY <3>1 DEF ToSet
  <2>3. QED
    BY <1>18, <2>1, <2>2 DEF AgentPrepares, Events
<1>19. ASSUME NEW p \in Call, AgentReports(p) PROVE EventInv'
  <2> DEFINE n == emitted[p] + 1
  <2>1. n \in 1 .. Len(Script) /\ <<p, n>> \in Events
    BY <1>19, ScriptFacts DEF AgentReports, Events
  <2>2. \A q \in Call : emitted[q] \in Nat /\ emitted'[q] \in Nat /\ emitted[q] <= emitted'[q]
    BY <1>19, <2>1, ScriptFacts DEF AgentReports
  <2>3. n <= emitted'[p]
    BY <1>19, <2>1, ScriptFacts DEF AgentReports
  <2>4. Script[emitted[p] + 1] # None
    BY <1>c, <2>1, ScriptFacts DEF TaskStatuses, Terminal
  <2>5. \A e \in Events : e[1] \in Call /\ e[2] \in Nat
    BY DEF Events
  <2>6. CASE /\ handler' = [handler EXCEPT ![<<p, n>>] = "read"]
             /\ event' = [event EXCEPT ![<<p, n>>] = Script[emitted[p] + 1]]
    <3>1. ASSUME NEW e \in Events, e # <<p, n>>
          PROVE  handler'[e] = handler[e] /\ event'[e] = event[e]
      BY <2>6, <3>1
    <3>2. handler'[<<p, n>>] = "read" /\ event'[<<p, n>>] # None
      BY <2>1, <2>4, <2>6
    <3>3. agent'[p] = "acted" /\ UNCHANGED <<agent, found, stale, tasks, pxe>>
      BY <1>19 DEF AgentReports
    <3>4. ASSUME NEW e \in Events, event'[e] # None
          PROVE  agent'[e[1]] = "acted" /\ e[2] <= emitted'[e[1]]
      <4>1. CASE e = <<p, n>>
        BY <2>3, <3>3, <4>1
      <4>2. CASE e # <<p, n>>
        BY <2>2, <2>5, <3>1, <3>3, <3>4, <4>2
      <4>3. QED
        BY <4>1, <4>2
    <3>5. \A e \in Events : handler'[e] # "none" <=> event'[e] # None
      BY <3>1, <3>2
    <3>6. QED
      BY <2>1, <3>1, <3>2, <3>3, <3>4, <3>5
  <2>7. CASE UNCHANGED <<handler, event>>
    <3>1. UNCHANGED <<agent, found, stale, tasks, pxe>>
      BY <1>19 DEF AgentReports
    <3>2. \A e \in Events : event[e] # None => e[2] <= emitted'[e[1]]
      BY <2>2, <2>5
    <3>3. QED
      BY <2>7, <3>1, <3>2
  <2>8. QED
    BY <1>19, <2>6, <2>7 DEF AgentReports, Emit
<1>20. ASSUME NEW p \in Call, AgentFails(p) PROVE EventInv'
  <2> DEFINE n == emitted[p] + 1
  <2>1. n \in 1 .. Len(Script) /\ <<p, n>> \in Events
    BY <1>20, ScriptFacts DEF AgentFails, Events
  <2>2. \A q \in Call : emitted[q] \in Nat /\ emitted'[q] \in Nat /\ emitted[q] <= emitted'[q]
    BY <1>20, <2>1, ScriptFacts DEF AgentFails
  <2>3. n <= emitted'[p]
    BY <1>20, <2>1, ScriptFacts DEF AgentFails
  <2>4. "failed" # None
    BY <1>c, <2>1, ScriptFacts DEF TaskStatuses, Terminal
  <2>5. \A e \in Events : e[1] \in Call /\ e[2] \in Nat
    BY DEF Events
  <2>6. CASE /\ handler' = [handler EXCEPT ![<<p, n>>] = "read"]
             /\ event' = [event EXCEPT ![<<p, n>>] = "failed"]
    <3>1. ASSUME NEW e \in Events, e # <<p, n>>
          PROVE  handler'[e] = handler[e] /\ event'[e] = event[e]
      BY <2>6, <3>1
    <3>2. handler'[<<p, n>>] = "read" /\ event'[<<p, n>>] # None
      BY <2>1, <2>4, <2>6
    <3>3. agent'[p] = "acted" /\ UNCHANGED <<agent, found, stale, tasks, pxe>>
      BY <1>20 DEF AgentFails
    <3>4. ASSUME NEW e \in Events, event'[e] # None
          PROVE  agent'[e[1]] = "acted" /\ e[2] <= emitted'[e[1]]
      <4>1. CASE e = <<p, n>>
        BY <2>3, <3>3, <4>1
      <4>2. CASE e # <<p, n>>
        BY <2>2, <2>5, <3>1, <3>3, <3>4, <4>2
      <4>3. QED
        BY <4>1, <4>2
    <3>5. \A e \in Events : handler'[e] # "none" <=> event'[e] # None
      BY <3>1, <3>2
    <3>6. QED
      BY <2>1, <3>1, <3>2, <3>3, <3>4, <3>5
  <2>7. CASE UNCHANGED <<handler, event>>
    <3>1. UNCHANGED <<agent, found, stale, tasks, pxe>>
      BY <1>20 DEF AgentFails
    <3>2. \A e \in Events : event[e] # None => e[2] <= emitted'[e[1]]
      BY <2>2, <2>5
    <3>3. QED
      BY <2>7, <3>1, <3>2
  <2>8. QED
    BY <1>20, <2>6, <2>7 DEF AgentFails, Emit
<1>21. ASSUME NEW e \in Events, EventRead(e) PROVE EventInv'
  BY <1>21, <1>b DEF EventRead, Handle
<1>22. ASSUME NEW e \in Events, EventWrite(e) PROVE EventInv'
  BY <1>22 DEF EventWrite, Handle
<1>23. ASSUME NEW e \in Events, EventServer(e) PROVE EventInv'
  BY <1>23 DEF EventServer, Handle
<1>24. ASSUME NEW e \in Events, CleanUp(e) PROVE EventInv'
  <2>1. pxe' => pxe
    BY <1>24 DEF CleanUp
  <2>2. QED
    BY <1>24, <2>1 DEF CleanUp
<1>25. CASE UNCHANGED vars
  BY <1>25
<1>26. ASSUME BackendStops PROVE EventInv'
  BY <1>26 DEF BackendStops, CutUnless
<1>27. QED
  BY <1>1, <1>2, <1>3, <1>4, <1>5, <1>6, <1>7, <1>8, <1>9, <1>10, <1>11, <1>12, <1>13, <1>14, <1>15, <1>16, <1>17, <1>18, <1>19, <1>20, <1>21, <1>22, <1>23, <1>24, <1>25, <1>26 DEF Next, CallStep, PrepareStep, EventStep

\* Every step keeps CompletedInv.
LEMMA CompletedStep ==
  ASSUME EventTypes, EventInv, CompletedInv, [Next]_vars
  PROVE  CompletedInv'
<1> USE DEF EventTypes, EventInv, CompletedInv, vars, callVars, callerVars, eventVars, agentVars, backgroundVars
<1>a. NewestTask # None => NewestTask \in Call
  BY NewestTaskIn DEF EventTypes
<1>b. None # "completed"
  BY ScriptFacts DEF TaskStatuses, Terminal
<1>1. ASSUME NEW p \in Call, Begin(p) PROVE CompletedInv'
  BY <1>1 DEF Begin, Goto, Finish
<1>2. ASSUME NEW p \in Call, ClientGoes(p) PROVE CompletedInv'
  BY <1>2 DEF ClientGoes
<1>3. ASSUME NEW p \in Call, SetProvisioning(p) PROVE CompletedInv'
  BY <1>3 DEF SetProvisioning, Goto, Finish
<1>4. ASSUME NEW p \in Call, ListAddresses(p) PROVE CompletedInv'
  BY <1>4 DEF ListAddresses, Goto
<1>5. ASSUME NEW p \in Call, AssignAddress(p) PROVE CompletedInv'
  BY <1>5 DEF AssignAddress, Goto, Refuse
<1>6. ASSUME NEW p \in Call, Validate(p) PROVE CompletedInv'
  BY <1>6 DEF Validate, Goto, Refuse
<1>7. ASSUME NEW p \in Call, CheckActiveTask(p) PROVE CompletedInv'
  BY <1>7 DEF CheckActiveTask, Goto, Refuse
<1>8. ASSUME NEW p \in Call, CreateTask(p) PROVE CompletedInv'
  BY <1>8 DEF CreateTask, Goto, Refuse
<1>9. ASSUME NEW p \in Call, MarkReinstalling(p) PROVE CompletedInv'
  BY <1>9 DEF MarkReinstalling, Goto, Finish
<1>10. ASSUME NEW p \in Call, Rollback(p) PROVE CompletedInv'
  BY <1>10 DEF Rollback, Goto
<1>11. ASSUME NEW p \in Call, PrepareBegin(p) PROVE CompletedInv'
  BY <1>11 DEF PrepareBegin, Prepare
<1>12. ASSUME NEW p \in Call, PrepareSend(p) PROVE CompletedInv'
  BY <1>12 DEF PrepareSend, Prepare
<1>13. ASSUME NEW p \in Call, PrepareAnswered(p) PROVE CompletedInv'
  BY <1>13 DEF PrepareAnswered, Prepare
<1>14. ASSUME NEW p \in Call, PrepareTimeout(p) PROVE CompletedInv'
  BY <1>14 DEF PrepareTimeout, Prepare
<1>15. ASSUME NEW p \in Call, PrepareDone(p) PROVE CompletedInv'
  BY <1>15 DEF PrepareDone, Prepare
<1>16. ASSUME NEW p \in Call, PrepareFailTask(p) PROVE CompletedInv'
  BY <1>16 DEF PrepareFailTask, Prepare
<1>17. ASSUME NEW p \in Call, PrepareFailServer(p) PROVE CompletedInv'
  BY <1>17 DEF PrepareFailServer, Prepare
<1>18. ASSUME NEW p \in Call, AgentPrepares(p) PROVE CompletedInv'
  BY <1>18 DEF AgentPrepares
<1>19. ASSUME NEW p \in Call, AgentReports(p) PROVE CompletedInv'
  <2> DEFINE n == emitted[p] + 1
  <2>1. UNCHANGED <<tstat, stale>>
    BY <1>19 DEF AgentReports
  <2>2. ASSUME NEW e \in Events, event[e] = "completed"
        PROVE  event'[e] = "completed"
    <3>1. e # <<p, n>>
      <4>1. e[2] <= emitted[e[1]]
        BY <1>b, <2>2
      <4>2. QED
        BY <4>1
    <3>2. QED
      BY <1>19, <2>2, <3>1 DEF AgentReports, Emit
  <2>3. QED
    BY <2>1, <2>2
<1>20. ASSUME NEW p \in Call, AgentFails(p) PROVE CompletedInv'
  <2> DEFINE n == emitted[p] + 1
  <2>1. UNCHANGED <<tstat, stale>>
    BY <1>20 DEF AgentFails
  <2>2. ASSUME NEW e \in Events, event[e] = "completed"
        PROVE  event'[e] = "completed"
    <3>1. e # <<p, n>>
      <4>1. e[2] <= emitted[e[1]]
        BY <1>b, <2>2
      <4>2. QED
        BY <4>1
    <3>2. QED
      BY <1>20, <2>2, <3>1 DEF AgentFails, Emit
  <2>3. QED
    BY <2>1, <2>2
<1>21. ASSUME NEW e \in Events, EventRead(e) PROVE CompletedInv'
  BY <1>21, <1>a DEF EventRead, Handle
<1>22. ASSUME NEW e \in Events, EventWrite(e) PROVE CompletedInv'
  BY <1>22 DEF EventWrite, Handle, NewStatus
<1>23. ASSUME NEW e \in Events, EventServer(e) PROVE CompletedInv'
  BY <1>23 DEF EventServer, Handle
<1>24. ASSUME NEW e \in Events, CleanUp(e) PROVE CompletedInv'
  BY <1>24 DEF CleanUp
<1>25. CASE UNCHANGED vars
  BY <1>25
<1>26. ASSUME BackendStops PROVE CompletedInv'
  BY <1>26 DEF BackendStops, CutUnless
<1>27. QED
  BY <1>1, <1>2, <1>3, <1>4, <1>5, <1>6, <1>7, <1>8, <1>9, <1>10, <1>11, <1>12, <1>13, <1>14, <1>15, <1>16, <1>17, <1>18, <1>19, <1>20, <1>21, <1>22, <1>23, <1>24, <1>25, <1>26 DEF Next, CallStep, PrepareStep, EventStep

\* Every step keeps ProvisioningInv.
LEMMA ProvisioningStep ==
  ASSUME kind \in [Call -> {None, "reinstall", "provision"}], CallTypes, ProvisioningInv, [Next]_vars
  PROVE  ProvisioningInv'
<1> USE DEF CallTypes, ProvisioningInv, vars, callVars, callerVars, eventVars, agentVars, backgroundVars
<1>1. ASSUME NEW p \in Call, Begin(p) PROVE ProvisioningInv'
  BY <1>1 DEF Begin, Goto, Finish
<1>2. ASSUME NEW p \in Call, ClientGoes(p) PROVE ProvisioningInv'
  BY <1>2 DEF ClientGoes
<1>3. ASSUME NEW p \in Call, SetProvisioning(p) PROVE ProvisioningInv'
  BY <1>3 DEF SetProvisioning, Goto, Finish
<1>4. ASSUME NEW p \in Call, ListAddresses(p) PROVE ProvisioningInv'
  BY <1>4 DEF ListAddresses, Goto
<1>5. ASSUME NEW p \in Call, AssignAddress(p) PROVE ProvisioningInv'
  BY <1>5 DEF AssignAddress, Goto, Refuse
<1>6. ASSUME NEW p \in Call, Validate(p) PROVE ProvisioningInv'
  BY <1>6 DEF Validate, Goto, Refuse
<1>7. ASSUME NEW p \in Call, CheckActiveTask(p) PROVE ProvisioningInv'
  BY <1>7 DEF CheckActiveTask, Goto, Refuse
<1>8. ASSUME NEW p \in Call, CreateTask(p) PROVE ProvisioningInv'
  BY <1>8 DEF CreateTask, Goto, Refuse
<1>9. ASSUME NEW p \in Call, MarkReinstalling(p) PROVE ProvisioningInv'
  BY <1>9 DEF MarkReinstalling, Goto, Finish
<1>10. ASSUME NEW p \in Call, Rollback(p) PROVE ProvisioningInv'
  BY <1>10 DEF Rollback, Goto
<1>11. ASSUME NEW p \in Call, PrepareBegin(p) PROVE ProvisioningInv'
  BY <1>11 DEF PrepareBegin, Prepare
<1>12. ASSUME NEW p \in Call, PrepareSend(p) PROVE ProvisioningInv'
  BY <1>12 DEF PrepareSend, Prepare
<1>13. ASSUME NEW p \in Call, PrepareAnswered(p) PROVE ProvisioningInv'
  BY <1>13 DEF PrepareAnswered, Prepare
<1>14. ASSUME NEW p \in Call, PrepareTimeout(p) PROVE ProvisioningInv'
  BY <1>14 DEF PrepareTimeout, Prepare
<1>15. ASSUME NEW p \in Call, PrepareDone(p) PROVE ProvisioningInv'
  BY <1>15 DEF PrepareDone, Prepare
<1>16. ASSUME NEW p \in Call, PrepareFailTask(p) PROVE ProvisioningInv'
  BY <1>16 DEF PrepareFailTask, Prepare
<1>17. ASSUME NEW p \in Call, PrepareFailServer(p) PROVE ProvisioningInv'
  BY <1>17 DEF PrepareFailServer, Prepare
<1>18. ASSUME NEW p \in Call, AgentPrepares(p) PROVE ProvisioningInv'
  BY <1>18 DEF AgentPrepares
<1>19. ASSUME NEW p \in Call, AgentReports(p) PROVE ProvisioningInv'
  BY <1>19 DEF AgentReports, Emit
<1>20. ASSUME NEW p \in Call, AgentFails(p) PROVE ProvisioningInv'
  BY <1>20 DEF AgentFails, Emit
<1>21. ASSUME NEW e \in Events, EventRead(e) PROVE ProvisioningInv'
  BY <1>21 DEF EventRead, Handle
<1>22. ASSUME NEW e \in Events, EventWrite(e) PROVE ProvisioningInv'
  BY <1>22 DEF EventWrite, Handle
<1>23. ASSUME NEW e \in Events, EventServer(e) PROVE ProvisioningInv'
  BY <1>23 DEF EventServer, Handle
<1>24. ASSUME NEW e \in Events, CleanUp(e) PROVE ProvisioningInv'
  BY <1>24 DEF CleanUp
<1>25. CASE UNCHANGED vars
  BY <1>25
<1>26. ASSUME BackendStops PROVE ProvisioningInv'
  BY <1>26 DEF BackendStops, CutUnless
<1>27. QED
  BY <1>1, <1>2, <1>3, <1>4, <1>5, <1>6, <1>7, <1>8, <1>9, <1>10, <1>11, <1>12, <1>13, <1>14, <1>15, <1>16, <1>17, <1>18, <1>19, <1>20, <1>21, <1>22, <1>23, <1>24, <1>25, <1>26 DEF Next, CallStep, PrepareStep, EventStep

-----------------------------------------------------------------------------
IInv == TypeOK /\ CallInv /\ EventInv /\ CompletedInv /\ ProvisioningInv

\* The parts of TypeOK used above follow from it.
LEMMA TypesOfTypeOK == TypeOK => CallTypes /\ EventTypes
  BY DEF TypeOK, CallTypes, EventTypes

\* The invariant holds at the start.
LEMMA InitIInv == Init => IInv
<1> SUFFICES ASSUME Init PROVE IInv
  OBVIOUS
<1>1. ToSet(tasks) = {} /\ tasks \in Seq(Call)
  BY DEF Init, ToSet
<1>2. TypeOK
  <2>1. ips \in 0 .. MaxIPs
    BY MaxIPsAssumption DEF Init
  <2>2. emitted \in [Call -> 0 .. Len(Script)]
    BY ScriptFacts DEF Init
  <2>3. /\ pc \in [Call -> CallSteps] /\ prepare \in [Call -> PrepareSteps]
        /\ handler \in [Events -> HandlerSteps]
    BY DEF Init, CallSteps, PrepareSteps, HandlerSteps
  <2>4. \A t \in Call : tstat[t] # None <=> t \in ToSet(tasks)
    BY <1>1 DEF Init
  <2>5. QED
    BY <1>1, <2>1, <2>2, <2>3, <2>4 DEF Init, TypeOK
<1>3. CallInv
  BY <1>1, NoneAssumption DEF Init, CallInv, TypeOK
<1>4. EventInv
  BY DEF Init, EventInv
<1>5. CompletedInv
  BY ScriptFacts DEF Init, CompletedInv, TaskStatuses, Terminal
<1>6. ProvisioningInv
  BY DEF Init, ProvisioningInv
<1>7. QED
  BY <1>2, <1>3, <1>4, <1>5, <1>6 DEF IInv

\* The invariant is inductive, so that it holds of every reachable state.
THEOREM Invariant == Spec => []IInv
<1>1. IInv /\ [Next]_vars => IInv'
  <2> SUFFICES ASSUME IInv, [Next]_vars PROVE IInv'
    OBVIOUS
  <2>1. CallTypes /\ EventTypes
    BY TypesOfTypeOK DEF IInv
  <2>2. kind \in [Call -> {None, "reinstall", "provision"}]
    BY DEF IInv, TypeOK
  <2>3. QED
    BY <2>1, <2>2, TypeStep, CallInvStep, EventInvStep, CompletedStep, ProvisioningStep DEF IInv
<1>2. QED
  BY InitIInv, <1>1, PTL DEF Spec

\* The variables keep their types; in particular a task has a status exactly
\* when it is in the table.
THEOREM TypeCorrect == Spec => []TypeOK
<1>1. IInv => TypeOK
  BY DEF IInv
<1>2. QED
  BY Invariant, <1>1, PTL

\* A call that begins over active installs never adds a task before they have ended,
\* with the error of the guard's query dropped and the client gone at any moment.
THEOREM LateCallsAreRefused == Spec => LaterCallsRefused
<1>1. ASSUME IInv, [Next]_vars, NEW p \in Call, tasks' = Append(tasks, p)
      PROVE  late[p] = {}
  <2>1. tasks \in Seq(Call) /\ tasks' # tasks
    BY <1>1 DEF IInv, TypeOK
  <2>2. PICK q \in Call : CreateTask(q)
    BY <1>1, <2>1 DEF Next, CallStep, PrepareStep, EventStep, vars, callVars, callerVars, agentVars,
       backgroundVars, Begin, ClientGoes, SetProvisioning, ListAddresses, AssignAddress, Validate,
       CheckActiveTask, MarkReinstalling, Rollback, PrepareBegin, PrepareSend, PrepareAnswered,
       PrepareTimeout, PrepareDone, PrepareFailTask, PrepareFailServer, AgentPrepares, AgentReports,
       AgentFails, EventRead, EventWrite, EventServer, CleanUp, BackendStops
  <2>3. pc[q] = "create" /\ ~gone[q] /\ tasks' = Append(tasks, q)
    BY <2>1, <2>2 DEF CreateTask
  <2>4. p = q
    <3>1. Append(tasks, p)[Len(tasks) + 1] = p /\ Append(tasks, q)[Len(tasks) + 1] = q
      BY <2>1
    <3> QED BY <1>1, <2>3, <3>1
  <2> QED BY <1>1, <2>3, <2>4 DEF IInv, CallInv
<1>2. IInv /\ [Next]_vars =>
        [\A p \in Call : tasks' = Append(tasks, p) => \A t \in late[p] : tstat[t] \in Terminal]_vars
  BY <1>1
<1>3. QED
  BY Invariant, <1>2, PTL DEF Spec, LaterCallsRefused

\* No combination of calls leaves the server in "provisioning" once they have
\* returned, if no client left early.
THEOREM NeverLeftProvisioning == Spec => []NotLeftProvisioning
<1>1. IInv => NotLeftProvisioning
  BY DEF IInv, ProvisioningInv, NotLeftProvisioning
<1>2. QED
  BY Invariant, <1>1, PTL

\* "ok" means a task, and a task has a goroutine or is about to.
THEOREM TasksHaveGoroutines == Spec => []TasksAreStarted
<1>1. IInv => TasksAreStarted
  BY DEF IInv, CallInv, TasksAreStarted
<1>2. QED
  BY Invariant, <1>1, PTL

\* The agent holds a boot configuration only for a server that has a task, and
\* an event is always one of a recorded task's agent.
THEOREM EventsHaveTasks == Spec => []EventsFindATask
<1>1. IInv => EventsFindATask
  <2> SUFFICES ASSUME IInv PROVE EventsFindATask
    OBVIOUS
  <2>1. ASSUME NEW e \in Events, handler[e] # "none" PROVE e[1] \in ToSet(tasks)
    <3>1. e[1] \in Call /\ agent[e[1]] = "acted"
      BY <2>1 DEF IInv, EventInv, Events
    <3>2. QED
      BY <3>1 DEF IInv, CallInv
  <2>2. QED
    BY <2>1 DEF IInv, EventInv, EventsFindATask
<1>2. QED
  BY Invariant, <1>1, PTL

\* A server turns "active" only after an agent that had acted reported "completed".
THEOREM ActiveMeansCompleted == Spec => ActiveOnlyIfCompleted
<1>1. ASSUME IInv, [Next]_vars, status' = "active", status # "active"
      PROVE  \E e \in Events : event[e] = "completed" /\ agent[e[1]] = "acted"
  <2>1. PICK e \in Events : EventServer(e)
    BY <1>1 DEF Next, CallStep, PrepareStep, EventStep, vars, callVars, callerVars, agentVars,
       backgroundVars, Begin, ClientGoes, SetProvisioning, ListAddresses, AssignAddress, Validate,
       CheckActiveTask, CreateTask, MarkReinstalling, Rollback, PrepareBegin, PrepareSend,
       PrepareAnswered, PrepareTimeout, PrepareDone, PrepareFailTask, PrepareFailServer,
       AgentPrepares, AgentReports, AgentFails, EventRead, EventWrite, CleanUp, BackendStops
  <2>2. NewStatus(e) = "completed"
    BY <1>1, <2>1 DEF EventServer
  <2>3. \E f \in Events : event[f] = "completed"
    BY <1>1, <2>2 DEF NewStatus, IInv, CompletedInv
  <2>4. None # "completed"
    BY ScriptFacts DEF TaskStatuses, Terminal
  <2>5. QED
    BY <1>1, <2>3, <2>4 DEF IInv, EventInv
<1>2. IInv /\ [Next]_vars =>
        [status' = "active" /\ status # "active" =>
           \E e \in Events : event[e] = "completed" /\ agent[e[1]] = "acted"]_vars
  BY <1>1
<1>3. QED
  BY Invariant, <1>2, PTL DEF Spec, ActiveOnlyIfCompleted

----------

-------------------------------------------------------------------
(* Liveness.  Fairness only helps an action that can be taken: that the    *)
(* ones needed here can be is NobodyBlocks, which TLC checks.              *)

\* A handler that has not read its task holds none; a task is pending before its
\* goroutine has begun, or because a handler holds it as pending.
PendingInv ==
  /\ \A e \in Events : handler[e] \in {"none", "read"} => found[e] = None /\ stale[e] = None
  /\ \A t \in Call : tstat[t] = "pending" =>
                       pc[t] = "mark" \/ prepare[t] = "begin" \/ Overtaken(t) \/ TaskCut(t)

\* An event that is sent has not been sent before.
LEMMA EventIsNew ==
  ASSUME EventTypes, EventInv, NEW t \in Call, emitted[t] + 1 <= Len(Script)
  PROVE  /\ <<t, emitted[t] + 1>> \in Events
         /\ handler[<<t, emitted[t] + 1>>] = "none"
         /\ event[<<t, emitted[t] + 1>>] = None
  <1>1. emitted[t] + 1 \in 1 .. Len(Script) /\ emitted[t] \in Nat
    BY ScriptFacts DEF EventTypes
  <1>2. <<t, emitted[t] + 1>> \in Events
    BY <1>1 DEF Events
  <1>3. event[<<t, emitted[t] + 1>>] = None
    BY <1>1, <1>2 DEF EventInv
  <1> QED BY <1>2, <1>3 DEF EventInv

\* Every step keeps PendingInv.
LEMMA PendingStep ==
  ASSUME EventTypes, CallTypes, EventInv, PendingInv, [Next]_vars
  PROVE  PendingInv'
<1> USE DEF EventTypes, CallTypes, PendingInv, Overtaken, TaskCut, vars, callVars, callerVars, eventVars, agentVars,
            backgroundVars
<1>1. ASSUME NEW p \in Call, Begin(p) \/ ClientGoes(p) \/ SetProvisioning(p) \/ ListAddresses(p)
                               \/ AssignAddress(p) \/ Validate(p) \/ CheckActiveTask(p) \/ Rollback(p)
      PROVE  PendingInv'
  <2>1. \/ UNCHANGED pc
        \/ pc[p] \notin {"mark", "cut"} /\ \E x \in CallSteps : pc' = [pc EXCEPT ![p] = x]
    BY <1>1 DEF Begin, ClientGoes, SetProvisioning, ListAddresses, AssignAddress, Validate,
                CheckActiveTask, Rollback, Goto, Finish, Refuse, CallSteps
  <2>2. UNCHANGED <<tstat, prepare, handler, found, stale>>
    BY <1>1 DEF Begin, ClientGoes, SetProvisioning, ListAddresses, AssignAddress, Validate,
                CheckActiveTask, Rollback
  <2> QED BY <2>1, <2>2
<1>2. ASSUME NEW p \in Call, CreateTask(p) PROVE PendingInv'
  BY <1>2, ZenonT(60) DEF CreateTask, Goto, Refuse
<1>3. ASSUME NEW p \in Call, MarkReinstalling(p) PROVE PendingInv'
  BY <1>3 DEF MarkReinstalling, Goto, Finish
<1>4. ASSUME NEW p \in Call, PrepareStep(p) PROVE PendingInv'
  <2>1. /\ UNCHANGED <<pc, handler, found, stale>>
        /\ \E x \in PrepareSteps : prepare' = [prepare EXCEPT ![p] = x]
    BY <1>4 DEF PrepareStep, PrepareBegin, PrepareSend, PrepareAnswered, PrepareTimeout, PrepareDone,
                PrepareFailTask, PrepareFailServer, Prepare, PrepareSteps
  <2>2. \/ tstat' = tstat /\ prepare[p] \notin {"begin", "cut"}
        \/ \E x \in {"pxe_booting", "failed"} : tstat' = [tstat EXCEPT ![p] = x]
    BY <1>4 DEF PrepareStep, PrepareBegin, PrepareSend, PrepareAnswered, PrepareTimeout, PrepareDone,
                PrepareFailTask, PrepareFailServer, Prepare
  <2>3. PendingInv!1'
    BY <2>1
  <2>4. ASSUME NEW t \in Call, tstat'[t] = "pending"
        PROVE  pc'[t] = "mark" \/ prepare'[t] = "begin" \/ Overtaken(t)' \/ TaskCut(t)'
    <3>1. tstat[t] = "pending"
      BY <2>2, <2>4
    <3>2. CASE t = p
      BY <2>1, <2>2, <2>4, <3>1, <3>2
    <3>3. CASE t # p
      BY <2>1, <3>1, <3>3
    <3> QED BY <3>2, <3>3
  <2> QED BY <2>3, <2>4
<1>5. ASSUME NEW p \in Call, AgentPrepares(p) PROVE PendingInv'
  BY <1>5 DEF AgentPrepares
<1>6. ASSUME NEW p \in Call, AgentReports(p) \/ AgentFails(p) PROVE PendingInv'
  <2> DEFINE e == <<p, emitted[p] + 1>>
  <2>1. /\ UNCHANGED <<pc, tstat, prepare, found, stale>>
        /\ UNCHANGED handler \/ handler' = [handler EXCEPT ![e] = "read"]
    BY <1>6 DEF AgentReports, AgentFails, Emit
  <2>2. e \in Events /\ handler[e] = "none"
    BY <1>6, EventIsNew DEF AgentReports, AgentFails
  <2> HIDE DEF e
  <2>3. PendingInv!1'
    BY <2>1, <2>2
  <2>4. PendingInv!2'
    BY <2>1
  <2> QED BY <2>3, <2>4
<1>7. ASSUME NEW e \in Events, EventRead(e) PROVE PendingInv'
  <2>1. /\ UNCHANGED <<pc, tstat, prepare>> /\ handler[e] = "read"
        /\ \E x \in {"write", "done"} : handler' = [handler EXCEPT ![e] = x]
        /\ \/ UNCHANGED <<found, stale>>
           \/ \E x : \E y : found' = [found EXCEPT ![e] = x] /\ stale' = [stale EXCEPT ![e] = y]
    BY <1>7 DEF EventRead, Handle
  <2>2. PendingInv!1'
    BY <2>1
  <2>3. ASSUME NEW t \in Call, Overtaken(t) PROVE Overtaken(t)'
    <3>1. PICK d \in Events : found[d] = t /\ stale[d] = "pending"
      BY <2>3
    <3>2. d # e
      BY <2>1, <3>1, NoneAssumption
    <3> QED BY <2>1, <3>1, <3>2
  <2> HIDE DEF Overtaken
  <2>4. PendingInv!2'
    BY <2>1, <2>3
  <2> QED BY <2>2, <2>4
<1>8. ASSUME NEW e \in Events, EventWrite(e) PROVE PendingInv'
  <2>1. /\ UNCHANGED <<pc, prepare, found, stale>> /\ handler[e] = "write"
        /\ \E x \in {"server", "done"} : handler' = [handler EXCEPT ![e] = x]
        /\ tstat' = [tstat EXCEPT ![found[e]] = NewStatus(e)]
    BY <1>8 DEF EventWrite, Handle
  <2>2. NewStatus(e) = "pending" => stale[e] = "pending"
    BY DEF NewStatus
  <2>3. PendingInv!1'
    BY <2>1
  <2>4. ASSUME NEW t \in Call, tstat'[t] = "pending"
        PROVE  pc'[t] = "mark" \/ prepare'[t] = "begin" \/ Overtaken(t)' \/ TaskCut(t)'
    <3>1. CASE t = found[e]
      BY <2>1, <2>2, <2>4, <3>1
    <3>2. CASE t # found[e]
      BY <2>1, <2>4, <3>2
    <3> QED BY <3>1, <3>2
  <2> QED BY <2>3, <2>4
<1>9. ASSUME NEW e \in Events, EventServer(e) PROVE PendingInv'
  BY <1>9 DEF EventServer, Handle
<1>10. ASSUME NEW e \in Events, CleanUp(e) PROVE PendingInv'
  BY <1>10 DEF CleanUp
<1>11. CASE UNCHANGED vars
  BY <1>11
<1>12. CASE BackendStops
  BY <1>12 DEF BackendStops, CutUnless
<1> QED BY <1>1, <1>2, <1>3, <1>4, <1>5, <1>6, <1>7, <1>8, <1>9, <1>10, <1>11, <1>12
        DEF Next, CallStep, EventStep

\* Whenever a task is pending, its call or its goroutine is about to go on with it, or it
\* was overtaken: the invariant behind TasksLeavePending.
THEOREM PendingCorrect == Spec => []PendingInv
<1>1. Init => PendingInv
  BY ScriptFacts DEF Init, PendingInv, TaskStatuses
<1>2. IInv /\ PendingInv /\ [Next]_vars => PendingInv'
  BY TypesOfTypeOK, PendingStep DEF IInv
<1> QED BY <1>1, <1>2, Invariant, PTL DEF Spec
-----------------------------------------------------------------------------
(* Liveness.  Fairness only helps an action that can be taken: that the    *)
(* ones needed here can be is NobodyBlocks, which TLC checks.              *)

\* The atoms of the temporal steps.
IsPending(t)     == tstat[t] = "pending"
LeavesPending(t) == tstat[t] # "pending" \/ Overtaken(t) \/ TaskCut(t)
IsMarking(t)     == pc[t] = "mark"
IsBeginning(t)   == prepare[t] = "begin"

\* A call that is about to start its goroutine does so with its next step.
LEMMA MarkingMoves ==
  ASSUME CallTypes, NEW t \in Call, IsMarking(t), [Next]_vars
  PROVE  /\ UNCHANGED pc[t] \/ IsBeginning(t)' \/ LeavesPending(t)'
         /\ CallStep(t) => IsBeginning(t)'
<1> USE DEF CallTypes, IsMarking, IsBeginning
<1>1. ASSUME CallStep(t) PROVE IsBeginning(t)'
  BY <1>1 DEF CallStep, SetProvisioning, ListAddresses, AssignAddress, Validate, CheckActiveTask,
              CreateTask, MarkReinstalling, Rollback
<1>2. ASSUME NEW p \in Call, p # t, Begin(p) \/ CallStep(p) PROVE UNCHANGED pc[t]
  <2>1. UNCHANGED pc \/ \E x : pc' = [pc EXCEPT ![p] = x]
    BY <1>2 DEF Begin, CallStep, SetProvisioning, ListAddresses, AssignAddress, Validate,
                CheckActiveTask, CreateTask, MarkReinstalling, Rollback, Goto, Finish, Refuse
  <2> QED BY <1>2, <2>1
<1>3. ASSUME Begin(t) PROVE FALSE
  BY <1>3 DEF Begin
<1>4. ASSUME NEW p \in Call, ClientGoes(p) \/ PrepareStep(p) \/ AgentPrepares(p) \/ AgentReports(p)
                               \/ AgentFails(p)
      PROVE  UNCHANGED pc
  BY <1>4 DEF ClientGoes, PrepareStep, PrepareBegin, PrepareSend, PrepareAnswered, PrepareTimeout,
              PrepareDone, PrepareFailTask, PrepareFailServer, AgentPrepares, AgentReports, AgentFails,
              callVars
<1>5. ASSUME NEW e \in Events, EventStep(e) \/ CleanUp(e) PROVE UNCHANGED pc
  BY <1>5 DEF EventStep, EventRead, EventWrite, EventServer, CleanUp, callVars
<1>6. CASE UNCHANGED vars
  BY <1>1, <1>6 DEF vars
<1>7. CASE BackendStops
  BY <1>1, <1>7 DEF BackendStops, CutUnless, LeavesPending, TaskCut
<1> QED BY <1>1, <1>2, <1>3, <1>4, <1>5, <1>6, <1>7 DEF Next

\* The goroutine's first step takes its task out of "pending".
LEMMA BeginningMoves ==
  ASSUME EventTypes, CallTypes, NEW t \in Call, IsBeginning(t), [Next]_vars
  PROVE  /\ IsBeginning(t)' \/ LeavesPending(t)'
         /\ PrepareStep(t) => LeavesPending(t)'
<1> USE DEF EventTypes, CallTypes, IsBeginning, LeavesPending
<1>1. ASSUME PrepareStep(t) PROVE tstat'[t] # "pending"
  BY <1>1 DEF PrepareStep, Prepare, PrepareBegin, PrepareSend, PrepareAnswered, PrepareTimeout,
              PrepareDone, PrepareFailTask, PrepareFailServer
<1>2. ASSUME NEW p \in Call, p # t, PrepareStep(p) PROVE prepare'[t] = prepare[t]
  <2>1. \E x : prepare' = [prepare EXCEPT ![p] = x]
    BY <1>2 DEF PrepareStep, Prepare, PrepareBegin, PrepareSend, PrepareAnswered, PrepareTimeout,
                PrepareDone, PrepareFailTask, PrepareFailServer
  <2> QED BY <1>2, <2>1
<1>3. ASSUME NEW p \in Call, MarkReinstalling(p) PROVE IsBeginning(t)'
  BY <1>3 DEF MarkReinstalling
<1>4. ASSUME NEW p \in Call, Begin(p) \/ ClientGoes(p) \/ SetProvisioning(p) \/ ListAddresses(p)
                               \/ AssignAddress(p) \/ Validate(p) \/ CheckActiveTask(p)
                               \/ CreateTask(p) \/ Rollback(p)
      PROVE  UNCHANGED prepare
  BY <1>4 DEF Begin, ClientGoes, SetProvisioning, ListAddresses, AssignAddress, Validate,
              CheckActiveTask, CreateTask, Rollback, backgroundVars
<1>5. ASSUME NEW p \in Call, AgentPrepares(p) \/ AgentReports(p) \/ AgentFails(p)
      PROVE  UNCHANGED prepare
  BY <1>5 DEF AgentPrepares, AgentReports, AgentFails
<1>6. ASSUME NEW e \in Events, EventStep(e) \/ CleanUp(e) PROVE UNCHANGED prepare
  BY <1>6 DEF EventStep, EventRead, EventWrite, EventServer, CleanUp
<1>7. CASE UNCHANGED vars
  BY <1>1, <1>7 DEF vars
<1>8. CASE BackendStops
  BY <1>1, <1>8 DEF BackendStops, CutUnless, LeavesPending, TaskCut
<1> QED BY <1>1, <1>2, <1>3, <1>4, <1>5, <1>6, <1>7, <1>8 DEF Next, CallStep

\* Every task leaves "pending", its client gone or not and its agent answering or not:
\* the call that made it starts its goroutine, and that begins with the status; unless
\* a report overtakes it, of an install of another call (StartReinstall).
THEOREM TasksLeavePendingIfFair == FairSpec /\ []NobodyBlocks => TasksLeavePending
<1> SUFFICES ASSUME NEW t \in Call
             PROVE  FairSpec /\ []NobodyBlocks => (IsPending(t) ~> LeavesPending(t))
  BY DEF TasksLeavePending, IsPending, LeavesPending
<1>1. PendingInv /\ IsPending(t) => IsMarking(t) \/ IsBeginning(t) \/ LeavesPending(t)
  BY DEF PendingInv, IsPending, IsMarking, IsBeginning, LeavesPending
<1>2. TypeOK /\ IsMarking(t) /\ [Next]_vars
        => IsMarking(t)' \/ IsBeginning(t)' \/ LeavesPending(t)'
  BY TypesOfTypeOK, MarkingMoves DEF IsMarking
<1>3. TypeOK /\ IsMarking(t) /\ <<CallStep(t)>>_vars => IsBeginning(t)'
  <2>1. CallStep(t) => [Next]_vars
    BY DEF Next
  <2> QED BY <2>1, TypesOfTypeOK, MarkingMoves
<1>4. TypeOK /\ IsBeginning(t) /\ [Next]_vars => IsBeginning(t)' \/ LeavesPending(t)'
  BY TypesOfTypeOK, BeginningMoves
<1>5. TypeOK /\ IsBeginning(t) /\ <<PrepareStep(t)>>_vars => LeavesPending(t)'
  <2>1. PrepareStep(t) => [Next]_vars
    BY DEF Next
  <2> QED BY <2>1, TypesOfTypeOK, BeginningMoves
<1>6. NobodyBlocks /\ IsMarking(t) => CallCanStep(t)
  BY DEF NobodyBlocks, IsMarking
<1>7. NobodyBlocks /\ IsBeginning(t) => PrepareCanStep(t)
  BY DEF NobodyBlocks, IsBeginning
<1>8. FairSpec => Spec /\ CallFairness(t)
  BY DEF FairSpec, Fairness
<1> QED
  BY <1>1, <1>2, <1>3, <1>4, <1>5, <1>6, <1>7, <1>8, TypeCorrect, PendingCorrect, PTL
     DEF Spec, CallFairness, CallCanStep, PrepareCanStep
-----------------------------------------------------------------------------
(* The cleanup after a completed install.                                  *)

\* The atoms: an event says "completed", where its handler is, and its cleanup: done,
\* or lost with the end of the backend.
SaysCompleted(e) == event[e] = "completed"
Reported(e, h)   == event[e] = "completed" /\ handler[e] = h
IsAsked(e)       == cleanup[e] = "sent"
IsCleaned(e)     == cleanup[e] = "done" \/ EventCut(e)

\* The handler of a "completed" event is not done before the cleanup is asked for.
CleanedInv == \A e \in Events : Reported(e, "done") => IsAsked(e) \/ IsCleaned(e)

\* An event that was sent is only changed by its handler and its cleanup.
LEMMA EventFrame ==
  ASSUME TypeOK, EventInv, NEW e \in Events, [Next]_vars
  PROVE  \/ EventStep(e) \/ CleanUp(e)
         \/ event[e] = None /\ handler'[e] = "read" /\ cleanup'[e] = cleanup[e]
         \/ /\ event'[e] = event[e]
            /\ \/ EventCut(e)'
               \/ handler'[e] = handler[e] /\ cleanup'[e] = cleanup[e]
<1> USE DEF TypeOK
<1> DEFINE Kept == event'[e] = event[e] /\ handler'[e] = handler[e] /\ cleanup'[e] = cleanup[e]
<1>1. ASSUME NEW p \in Call, AgentReports(p) \/ AgentFails(p)
      PROVE  Kept \/ (event[e] = None /\ handler'[e] = "read" /\ cleanup'[e] = cleanup[e])
  <2> DEFINE new == <<p, emitted[p] + 1>>
  <2>1. new \in Events /\ event[new] = None
    BY <1>1, EventIsNew, TypesOfTypeOK DEF AgentReports, AgentFails
  <2>2. /\ UNCHANGED cleanup
        /\ \/ UNCHANGED <<handler, event>>
           \/ \E s : /\ handler' = [handler EXCEPT ![new] = "read"]
                     /\ event' = [event EXCEPT ![new] = s]
    BY <1>1 DEF AgentReports, AgentFails, Emit
  <2> HIDE DEF new
  <2> QED BY <2>1, <2>2
<1>2. ASSUME NEW p \in Call, Begin(p) \/ ClientGoes(p) \/ CallStep(p) \/ PrepareStep(p)
                               \/ AgentPrepares(p)
      PROVE  Kept
  BY <1>2 DEF Begin, ClientGoes, CallStep, SetProvisioning, ListAddresses, AssignAddress, Validate,
              CheckActiveTask, CreateTask, MarkReinstalling, Rollback, PrepareStep, PrepareBegin,
              PrepareSend, PrepareAnswered, PrepareTimeout, PrepareDone, PrepareFailTask,
              PrepareFailServer, AgentPrepares, backgroundVars, eventVars
<1>3. ASSUME NEW d \in Events, d # e, EventStep(d) \/ CleanUp(d)
      PROVE  Kept
  <2>1. /\ UNCHANGED event
        /\ UNCHANGED handler \/ \E h : handler' = [handler EXCEPT ![d] = h]
        /\ UNCHANGED cleanup \/ \E x : cleanup' = [cleanup EXCEPT ![d] = x]
    BY <1>3 DEF EventStep, EventRead, EventWrite, EventServer, Handle, CleanUp, eventVars
  <2>2. handler'[e] = handler[e]
    BY <1>3, <2>1
  <2>3. cleanup'[e] = cleanup[e]
    BY <1>3, <2>1
  <2> QED BY <2>1, <2>2, <2>3
<1>4. CASE UNCHANGED vars
  BY <1>4 DEF vars
<1>5. CASE BackendStops
  <2>1. /\ handler'[e] \in {handler[e], "cut"} /\ cleanup'[e] \in {cleanup[e], "cut"}
        /\ event'[e] = event[e]
    BY <1>5 DEF BackendStops, CutUnless
  <2> QED BY <2>1 DEF EventCut
<1> QED BY <1>1, <1>2, <1>3, <1>4, <1>5 DEF Next

\* The handler of a "completed" event reads, writes and turns to the server, and
\* asks for the cleanup when it is done.
LEMMA HandlerMoves ==
  ASSUME TypeOK, EventInv, CallInv, NEW e \in Events, SaysCompleted(e), EventStep(e)
  PROVE  /\ event'[e] = event[e]
         /\ \/ handler[e] = "read"   /\ handler'[e] = "write"
            \/ handler[e] = "write"  /\ handler'[e] = "server"
            \/ handler[e] = "server" /\ handler'[e] = "done" /\ cleanup'[e] = "sent"
<1>1. NewStatus(e) = "completed"
  BY DEF SaysCompleted, NewStatus, TaskStatuses, Terminal
<1>2. CASE EventRead(e)
  <2>1. None # "completed" /\ handler[e] = "read"
    BY <1>2, ScriptFacts DEF EventRead, Handle, TaskStatuses, Terminal
  <2>2. e[1] \in Call /\ agent[e[1]] = "acted"
    BY <2>1 DEF SaysCompleted, EventInv, Events
  <2>3. e[1] \in ToSet(tasks)
    BY <2>2 DEF CallInv
  <2>4. NewestTask # None
    BY <2>3, NewestTaskIsOne DEF ToSet, TypeOK
  <2> QED BY <1>2, <2>4 DEF EventRead, Handle, TypeOK
<1>3. CASE EventWrite(e)
  BY <1>1, <1>3 DEF EventWrite, Handle, TypeOK, Terminal
<1>4. CASE EventServer(e)
  BY <1>1, <1>4 DEF EventServer, Handle, TypeOK
<1> QED BY <1>2, <1>3, <1>4 DEF EventStep

\* The cleanup only goes from asked for to done.
LEMMA CleanUpMoves ==
  ASSUME TypeOK, NEW e \in Events, CleanUp(e)
  PROVE  /\ event'[e] = event[e] /\ handler'[e] = handler[e]
         /\ cleanup[e] = "sent" /\ cleanup'[e] = "done"
  BY DEF TypeOK, CleanUp, eventVars

\* A handler of a "completed" event is never done without having asked for the cleanup.
THEOREM CleanedCorrect == Spec => []CleanedInv
<1>1. Init => CleanedInv
  BY DEF Init, CleanedInv, Reported
<1>2. IInv /\ CleanedInv /\ [Next]_vars => CleanedInv'
  <2> SUFFICES ASSUME IInv, CleanedInv, [Next]_vars, NEW e \in Events, Reported(e, "done")'
               PROVE  IsAsked(e)' \/ IsCleaned(e)'
    BY DEF CleanedInv
  <2>1. EventTypes /\ TypeOK /\ EventInv /\ CallInv
    BY TypesOfTypeOK DEF IInv
  <2>2. event'[e] = "completed" /\ handler'[e] = "done"
    BY DEF Reported
  <2>3. EventStep(e) => event'[e] = event[e]
    BY DEF EventStep, EventRead, EventWrite, EventServer
  <2> QED BY <2>1, <2>2, <2>3, EventFrame, HandlerMoves, CleanUpMoves
          DEF CleanedInv, Reported, IsAsked, IsCleaned, EventCut, SaysCompleted
<1> QED BY <1>1, <1>2, Invariant, PTL DEF Spec

\* Every "completed" event that arrives is followed by pxe.cleanup, whatever task its
\* handler finds and whatever other handlers do to that task meanwhile: the handler goes
\* by the status it was sent (HandlePXEStatusEvent).
THEOREM CompletedIsCleanedIfFair == FairSpec /\ []NobodyBlocks => CompletedIsCleaned
<1> SUFFICES ASSUME NEW e \in Events
             PROVE  FairSpec /\ []NobodyBlocks => (SaysCompleted(e) ~> IsCleaned(e))
  BY DEF CompletedIsCleaned, SaysCompleted, IsCleaned
<1>1. None # "completed"
  BY ScriptFacts DEF TaskStatuses, Terminal
<1>2. IInv /\ CleanedInv /\ SaysCompleted(e)
        => Reported(e, "read") \/ Reported(e, "write") \/ Reported(e, "server") \/ IsAsked(e)
             \/ IsCleaned(e)
  BY <1>1 DEF IInv, TypeOK, HandlerSteps, EventInv, CleanedInv, Reported, SaysCompleted,
              IsCleaned, EventCut
<1>3. ASSUME IInv, [Next]_vars, NEW h, Reported(e, h), h \in {"read", "write", "server"}
      PROVE  /\ Reported(e, h)' \/ EventStep(e) \/ IsCleaned(e)'
             /\ EventStep(e) => \/ h = "read" /\ Reported(e, "write")'
                                \/ h = "write" /\ Reported(e, "server")'
                                \/ h = "server" /\ IsAsked(e)'
  <2>1. TypeOK /\ EventInv /\ CallInv /\ SaysCompleted(e)
    BY <1>3 DEF IInv, Reported, SaysCompleted
  <2> QED BY <1>1, <1>3, <2>1, EventFrame, HandlerMoves, CleanUpMoves
          DEF Reported, SaysCompleted, IsAsked, IsCleaned
<1>4. IInv /\ Reported(e, "read") /\ [Next]_vars
        => Reported(e, "read")' \/ Reported(e, "write")' \/ IsCleaned(e)'
  BY <1>3
<1>5. IInv /\ Reported(e, "read") /\ <<EventStep(e)>>_vars => Reported(e, "write")'
  BY <1>3 DEF Next
<1>6. IInv /\ Reported(e, "write") /\ [Next]_vars
        => Reported(e, "write")' \/ Reported(e, "server")' \/ IsCleaned(e)'
  BY <1>3
<1>7. IInv /\ Reported(e, "write") /\ <<EventStep(e)>>_vars => Reported(e, "server")'
  BY <1>3 DEF Next
<1>8. IInv /\ Reported(e, "server") /\ [Next]_vars
        => Reported(e, "server")' \/ IsAsked(e)' \/ IsCleaned(e)'
  BY <1>3
<1>9. IInv /\ Reported(e, "server") /\ <<EventStep(e)>>_vars => IsAsked(e)'
  BY <1>3 DEF Next
<1>10. IInv /\ IsAsked(e) /\ [Next]_vars => IsAsked(e)' \/ IsCleaned(e)'
  <2> SUFFICES ASSUME IInv, IsAsked(e), [Next]_vars PROVE IsAsked(e)' \/ IsCleaned(e)'
    OBVIOUS
  <2>1. TypeOK /\ EventInv
    BY DEF IInv
  <2>2. EventStep(e) => cleanup'[e] \in {cleanup[e], "sent"}
    BY <2>1 DEF EventStep, EventRead, EventWrite, EventServer, TypeOK
  <2> QED BY <2>1, <2>2, EventFrame, CleanUpMoves DEF IsAsked, IsCleaned
<1>11. IInv /\ IsAsked(e) /\ <<CleanUp(e)>>_vars => IsCleaned(e)'
  BY CleanUpMoves DEF IInv, IsCleaned
<1>12. NobodyBlocks /\ (Reported(e, "read") \/ Reported(e, "write") \/ Reported(e, "server"))
         => EventCanStep(e)
  BY DEF NobodyBlocks, Reported
<1>13. NobodyBlocks /\ IsAsked(e) => CleanUpCanStep(e)
  BY DEF NobodyBlocks, IsAsked
<1>14. FairSpec => Spec /\ EventFairness(e)
  BY DEF FairSpec, Fairness
<1> QED
  BY <1>2, <1>4, <1>5, <1>6, <1>7, <1>8, <1>9, <1>10, <1>11, <1>12, <1>13, <1>14, Invariant,
     CleanedCorrect, PTL
     DEF Spec, EventFairness, EventCanStep, CleanUpCanStep
=============================================================================
