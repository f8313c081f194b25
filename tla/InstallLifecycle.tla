-------------------------- MODULE InstallLifecycle --------------------------
(***************************************************************************)
(* The installation of one server: POST /servers/:id/reinstall and         *)
(* POST /servers/:id/provision, the goroutine that prepares the PXE boot,  *)
(* the agent's pxe.status events and the PXE cleanup.                      *)
(*   backend/internal/service/{reinstall,provision}_service.go             *)
(*   backend/internal/repository/postgres/install_task_repo.go             *)
(* Every query is keyed by the server's id, so that one server is enough.  *)
(*                                                                         *)
(* SendRequest is used by its contract, AgentRPC: it may be refused, be    *)
(* answered after the agent acted, time out with the agent acting before,  *)
(* later or never, or panic.  A panic ends a request where it stands       *)
(* (gin.Recovery) and, in a bare goroutine, the whole backend, which may   *)
(* also stop for reasons of its own at any moment.  The hub starts a       *)
(* goroutine per event, so that the handlers of successive events overlap. *)
(* A call's context ends when its client goes away; every query it then    *)
(* makes fails.  Queries do not fail otherwise.                            *)
(***************************************************************************)
EXTENDS Naturals, Sequences, SequencesExt

CONSTANTS Call,         \* the API calls; a task is named by the call that creates it
          Script,       \* the statuses an agent reports in the course of an install
          MaxIPs,       \* a bound on the addresses assigned to the server
          None

VARIABLES
  status,     \* servers.status
  ips,        \* how many addresses have this server's id
  tasks,      \* the server's install_tasks in order of created_at
  tstat,      \* install_tasks.status
  kind,       \* which of the two operations a call is
  pc,         \* where a call is
  late,       \* the tasks that were active when the call began (for LaterCallsRefused)
  gone,       \* the call's client disconnected: its context is cancelled
  saw,        \* the status of the task the guard of StartReinstall found
  result,     \* what the call returns
  prepare,    \* the goroutine of a task
  agent,      \* the agent was handed pxe.prepare of a task, and acted on it
  emitted,    \* how many of the events of a task's install the agent has sent
  handler,    \* the goroutine of an event
  event,      \* the status an event reports
  found,      \* the task an event's handler works on
  stale,      \* that task's status when it was read
  cleanup,    \* the cleanup requests: to be sent or sent, and done
  pxe         \* the agent holds a PXE configuration for the server

callerVars == <<kind, late, gone>>
callVars  == <<callerVars, pc, saw, result>>
eventVars == <<handler, event, found, stale>>
agentVars == <<agent, emitted, pxe>>
backgroundVars == <<prepare, agentVars, eventVars, cleanup>>
vars == <<status, ips, tasks, tstat, kind, pc, late, gone, saw, result, prepare, agent, emitted,
          handler, event, found, stale, cleanup, pxe>>

Terminal     == {"completed", "failed"}
TaskStatuses == {"pending", "pxe_booting", "installing", "post_scripts"} \union Terminal
CallSteps    == {"idle", "provision", "list", "assign", "start", "guard", "create", "mark",
                 "rollback", "done", "cut"}
PrepareSteps == {"off", "begin", "request", "sent", "answered", "fail task", "fail server",
                 "done", "cut"}
HandlerSteps == {"none", "read", "write", "server", "done", "cut"}
Events       == Call \X (1 .. Len(Script))

ASSUME ScriptAssumption == Script \in Seq(STRING)
ASSUME MaxIPsAssumption == MaxIPs \in Nat \ {0}
ASSUME NoneAssumption   == None \notin Call \union TaskStatuses \union ToSet(Script)

TypeOK ==
  /\ status \in {"active", "provisioning", "reinstalling", "error"}
  /\ ips \in 0 .. MaxIPs
  /\ tasks \in Seq(Call)
  /\ tstat \in [Call -> {None} \union TaskStatuses]
  /\ \A t \in Call : tstat[t] # None <=> t \in ToSet(tasks)
  /\ kind \in [Call -> {None, "reinstall", "provision"}]
  /\ pc \in [Call -> CallSteps]
  /\ late \in [Call -> SUBSET Call]
  /\ gone \in [Call -> BOOLEAN]
  /\ saw \in [Call -> {None} \union TaskStatuses]
  /\ result \in [Call -> {None, "ok", "error"}]
  /\ prepare \in [Call -> PrepareSteps]
  /\ agent \in [Call -> {"none", "asked", "acted"}]
  /\ emitted \in [Call -> 0 .. Len(Script)]
  /\ handler \in [Events -> HandlerSteps]
  /\ event \in [Events -> {None, "failed"} \union ToSet(Script)]
  /\ found \in [Events -> {None} \union Call]
  /\ stale \in [Events -> {None} \union TaskStatuses]
  /\ cleanup \in [Events -> {"none", "sent", "done", "cut"}]
  /\ pxe \in BOOLEAN

Init ==
  /\ status \in {"active", "error"}
  /\ ips \in {0, 1}
  /\ tasks = <<>>
  /\ tstat = [t \in Call |-> None]
  /\ kind = [p \in Call |-> None]
  /\ pc = [p \in Call |-> "idle"]
  /\ late = [p \in Call |-> {}]
  /\ gone = [p \in Call |-> FALSE]
  /\ saw = [p \in Call |-> None]
  /\ result = [p \in Call |-> None]
  /\ prepare = [t \in Call |-> "off"]
  /\ agent = [t \in Call |-> "none"]
  /\ emitted = [t \in Call |-> 0]
  /\ handler = [e \in Events |-> "none"]
  /\ event = [e \in Events |-> None]
  /\ found = [e \in Events |-> None]
  /\ stale = [e \in Events |-> None]
  /\ cleanup = [e \in Events |-> "none"]
  /\ pxe = FALSE

-----------------------------------------------------------------------------
\* GetActiveByServerID: the newest task of the server, whatever its status.
NewestTask == IF tasks = <<>> THEN None ELSE Last(tasks)

Goto(p, where) == pc' = [pc EXCEPT ![p] = where]

Finish(p, r) == /\ Goto(p, "done")
                /\ result' = [result EXCEPT ![p] = r]

\* Fault: Provision returns StartReinstall's error without its own error path.
RefuseKeepsStatus(p) == Finish(p, "error")

\* StartReinstall returns an error: to the client, or to Provision.
Refuse(p) == /\ Goto(p, IF kind[p] = "provision" THEN "rollback" ELSE "done")
             /\ result' = [result EXCEPT ![p] = "error"]

\* The call begins.  Provision validates the server and its agent first.
Begin(p) ==
  /\ pc[p] = "idle"
  /\ \/ /\ kind' = [kind EXCEPT ![p] = "reinstall"]
        /\ Goto(p, "start")
        /\ UNCHANGED result
     \/ /\ kind' = [kind EXCEPT ![p] = "provision"]
        /\ \/ Goto(p, "provision") /\ UNCHANGED result
           \/ Finish(p, "error")
  /\ late' = [late EXCEPT ![p] = {t \in ToSet(tasks) : tstat[t] \notin Terminal}]
  /\ UNCHANGED <<status, ips, tasks, tstat, gone, saw, backgroundVars>>

\* The client closes its connection: the request's context is cancelled.
ClientGoes(p) ==
  /\ pc[p] \notin {"idle", "done", "cut"}
  /\ ~gone[p]
  /\ gone' = [gone EXCEPT ![p] = TRUE]
  /\ UNCHANGED <<status, ips, tasks, tstat, kind, pc, late, saw, result, backgroundVars>>

\* Provision, step 2: whatever the status is, it becomes "provisioning".
SetProvisioning(p) ==
  /\ pc[p] = "provision"
  /\ IF gone[p] THEN Finish(p, "error") /\ UNCHANGED status
                ELSE /\ status' = "provisioning"
                     /\ Goto(p, "list")
                     /\ UNCHANGED result
  /\ UNCHANGED <<ips, tasks, tstat, callerVars, saw, backgroundVars>>

\* Step 3: an address is assigned if the server has none.  The error of the
\* query is dropped and reads as "none".
ListAddresses(p) ==
  /\ pc[p] = "list"
  /\ Goto(p, IF ~gone[p] /\ ips > 0 THEN "start" ELSE "assign")
  /\ UNCHANGED <<status, ips, tasks, tstat, callerVars, saw, result, backgroundVars>>

\* AutoAssign; serverRepo.Update writes primary_ip and leaves the status alone.
\* Once the address is assigned the switch port is provisioned, and a panic in
\* that SendRequest unwinds the call past its error path.
AssignAddress(p) ==
  /\ pc[p] = "assign"
  /\ \/ /\ ~gone[p] /\ ips < MaxIPs
        /\ ips' = ips + 1
        /\ Goto(p, "start") \/ Goto(p, "cut")
        /\ UNCHANGED result
     \/ Refuse(p) /\ UNCHANGED ips
  /\ UNCHANGED <<status, tasks, tstat, callerVars, saw, backgroundVars>>

\* StartReinstall loads the server and asks whether its agent is online.
Validate(p) ==
  /\ pc[p] = "start"
  /\ \/ ~gone[p] /\ Goto(p, "guard") /\ UNCHANGED result
     \/ Refuse(p)
  /\ UNCHANGED <<status, ips, tasks, tstat, callerVars, saw, backgroundVars>>

\* The guard against a second install.  The query's error is dropped and
\* reads as "no task".
CheckActiveTask(p) ==
  LET existing == IF gone[p] THEN None ELSE NewestTask
  IN /\ pc[p] = "guard"
     /\ \/ /\ existing # None
           /\ saw' = [saw EXCEPT ![p] = tstat[existing]]
           /\ Refuse(p)
        \/ /\ existing = None
           /\ Goto(p, "create")
           /\ UNCHANGED <<saw, result>>
     /\ UNCHANGED <<status, ips, tasks, tstat, callerVars, backgroundVars>>

\* Fault: the insert runs under a context of its own.
CreateTaskDetached(p) ==
  /\ pc[p] = "create"
  /\ \/ /\ tasks' = Append(tasks, p)
        /\ tstat' = [tstat EXCEPT ![p] = "pending"]
        /\ Goto(p, "mark")
        /\ UNCHANGED result
     \/ Refuse(p) /\ UNCHANGED <<tasks, tstat>>
  /\ UNCHANGED <<status, ips, callerVars, saw, backgroundVars>>

\* Fault: the error of the insert is dropped like the others.
CreateTaskUnchecked(p) ==
  /\ pc[p] = "create"
  /\ IF gone[p] THEN UNCHANGED <<tasks, tstat>>
                ELSE /\ tasks' = Append(tasks, p)
                     /\ tstat' = [tstat EXCEPT ![p] = "pending"]
  /\ Goto(p, "mark")
  /\ UNCHANGED <<status, ips, callerVars, saw, result, backgroundVars>>

\* The OS profile is loaded and must be active; then the task is inserted.
CreateTask(p) ==
  /\ pc[p] = "create"
  /\ \/ /\ ~gone[p]
        /\ tasks' = Append(tasks, p)
        /\ tstat' = [tstat EXCEPT ![p] = "pending"]
        /\ Goto(p, "mark")
        /\ UNCHANGED result
     \/ Refuse(p) /\ UNCHANGED <<tasks, tstat>>
  /\ UNCHANGED <<status, ips, callerVars, saw, backgroundVars>>

\* Fault: a failed update of the server's status ends the call.
MarkOrFail(p) ==
  /\ pc[p] = "mark"
  /\ IF gone[p] THEN Refuse(p) /\ UNCHANGED <<status, prepare>>
                ELSE /\ status' = "reinstalling"
                     /\ prepare' = [prepare EXCEPT ![p] = "begin"]
                     /\ Finish(p, "ok")
  /\ UNCHANGED <<ips, tasks, tstat, callerVars, saw, agentVars, eventVars, cleanup>>

\* The server's status is updated, with the error dropped; the goroutine starts.
MarkReinstalling(p) ==
  /\ pc[p] = "mark"
  /\ status' = IF gone[p] THEN status ELSE "reinstalling"
  /\ prepare' = [prepare EXCEPT ![p] = "begin"]
  /\ Finish(p, "ok")
  /\ UNCHANGED <<ips, tasks, tstat, callerVars, saw, agentVars, eventVars, cleanup>>

\* Provision's own error path, under the same context as the rest of the call.
Rollback(p) ==
  /\ pc[p] = "rollback"
  /\ status' = IF gone[p] THEN status ELSE "error"
  /\ Goto(p, "done")
  /\ UNCHANGED <<ips, tasks, tstat, callerVars, saw, result, backgroundVars>>

-----------------------------------------------------------------------------
(* The goroutine of StartReinstall, with a context of its own.             *)

Prepare(t, from, to) == prepare[t] = from /\ prepare' = [prepare EXCEPT ![t] = to]

PrepareBegin(t) ==
  /\ Prepare(t, "begin", "request")
  /\ tstat' = [tstat EXCEPT ![t] = "pxe_booting"]
  /\ UNCHANGED <<status, ips, tasks, callVars, agentVars, eventVars, cleanup>>

\* SendRequest hands pxe.prepare to the agent's connection, or is refused.  Nothing
\* recovers its panic, which is BackendStops at this step.
PrepareSend(t) ==
  /\ \/ Prepare(t, "request", "sent") /\ agent' = [agent EXCEPT ![t] = "asked"]
     \/ Prepare(t, "request", "fail task") /\ UNCHANGED agent
  /\ UNCHANGED <<status, ips, tasks, tstat, callVars, emitted, pxe, eventVars, cleanup>>

\* The answer arrives: the agent has acted.
PrepareAnswered(t) ==
  /\ Prepare(t, "sent", "answered")
  /\ agent[t] = "acted"
  /\ UNCHANGED <<status, ips, tasks, tstat, callVars, agentVars, eventVars, cleanup>>

\* Fault: no timer.
PrepareTimeoutNever(t) == FALSE /\ UNCHANGED vars

\* No answer in 60 s, or the agent's error.
PrepareTimeout(t) ==
  /\ Prepare(t, "sent", "fail task")
  /\ UNCHANGED <<status, ips, tasks, tstat, callVars, agentVars, eventVars, cleanup>>

PrepareDone(t) ==
  /\ Prepare(t, "answered", "done")
  /\ tstat' = [tstat EXCEPT ![t] = "pxe_booting"]
  /\ UNCHANGED <<status, ips, tasks, callVars, agentVars, eventVars, cleanup>>

PrepareFailTask(t) ==
  /\ Prepare(t, "fail task", "fail server")
  /\ tstat' = [tstat EXCEPT ![t] = "failed"]
  /\ UNCHANGED <<status, ips, tasks, callVars, agentVars, eventVars, cleanup>>

PrepareFailServer(t) ==
  /\ Prepare(t, "fail server", "done")
  /\ status' = "error"
  /\ UNCHANGED <<ips, tasks, tstat, callVars, agentVars, eventVars, cleanup>>

-----------------------------------------------------------------------------
(* The agent and its events.                                               *)

\* pxe.prepare writes the boot configuration and resets the server, which
\* may be after SendRequest stopped waiting.
AgentPrepares(t) ==
  /\ agent[t] = "asked"
  /\ agent' = [agent EXCEPT ![t] = "acted"]
  /\ pxe' = TRUE
  /\ UNCHANGED <<status, ips, tasks, tstat, callVars, prepare, emitted, eventVars, cleanup>>

\* The event reaches the hub, which starts a goroutine for it, or is lost
\* with the connection.
Emit(e, s) == \/ /\ handler' = [handler EXCEPT ![e] = "read"]
                 /\ event' = [event EXCEPT ![e] = s]
              \/ UNCHANGED <<handler, event>>

\* The agent reports the next status of the install.
AgentReports(t) ==
  LET n == emitted[t] + 1
  IN /\ agent[t] = "acted" /\ n <= Len(Script)
     /\ Emit(<<t, n>>, Script[n])
     /\ emitted' = [emitted EXCEPT ![t] = n]
     /\ UNCHANGED <<status, ips, tasks, tstat, callVars, prepare, agent, found, stale, cleanup, pxe>>

\* The install fails instead of reaching its next status, or is given up.
AgentFails(t) ==
  LET n == emitted[t] + 1
  IN /\ agent[t] = "acted" /\ n <= Len(Script)
     /\ Emit(<<t, n>>, "failed")
     /\ emitted' = [emitted EXCEPT ![t] = Len(Script)]
     /\ UNCHANGED <<status, ips, tasks, tstat, callVars, prepare, agent, found, stale, cleanup, pxe>>

Handle(e, from, to) == handler[e] = from /\ handler' = [handler EXCEPT ![e] = to]

\* The status an event stands for: its own, or the one read from the task
\* when the handler does not know it.
NewStatus(e) == IF event[e] \in TaskStatuses \ {"pending"} THEN event[e] ELSE stale[e]

\* The event names the server; the handler takes the server's newest task.
EventRead(e) ==
  /\ IF NewestTask = None
     THEN Handle(e, "read", "done") /\ UNCHANGED <<found, stale>>
     ELSE /\ Handle(e, "read", "write")
          /\ found' = [found EXCEPT ![e] = NewestTask]
          /\ stale' = [stale EXCEPT ![e] = tstat[NewestTask]]
  /\ UNCHANGED <<status, ips, tasks, tstat, callVars, prepare, agentVars, event, cleanup>>

EventWrite(e) ==
  /\ Handle(e, "write", IF NewStatus(e) \in Terminal THEN "server" ELSE "done")
  /\ tstat' = [tstat EXCEPT ![found[e]] = NewStatus(e)]
  /\ UNCHANGED <<status, ips, tasks, callVars, prepare, agentVars, event, found, stale, cleanup>>

\* Fault: the branches of completion and failure are swapped.
EventServerSwapped(e) ==
  /\ Handle(e, "server", "done")
  /\ status' = IF NewStatus(e) = "completed" THEN "error" ELSE "active"
  /\ cleanup' = IF NewStatus(e) = "failed" THEN [cleanup EXCEPT ![e] = "sent"] ELSE cleanup
  /\ UNCHANGED <<ips, tasks, tstat, callVars, prepare, agentVars, event, found, stale>>

\* Fault: the server is given the status of the task.
EventServerTaskStatus(e) ==
  /\ Handle(e, "server", "done")
  /\ status' = NewStatus(e)
  /\ cleanup' = IF NewStatus(e) = "completed" THEN [cleanup EXCEPT ![e] = "sent"] ELSE cleanup
  /\ UNCHANGED <<ips, tasks, tstat, callVars, prepare, agentVars, event, found, stale>>

\* The server's status follows; only a completed install is cleaned up after.
EventServer(e) ==
  /\ Handle(e, "server", "done")
  /\ status' = IF NewStatus(e) = "completed" THEN "active" ELSE "error"
  /\ cleanup' = IF NewStatus(e) = "completed" THEN [cleanup EXCEPT ![e] = "sent"] ELSE cleanup
  /\ UNCHANGED <<ips, tasks, tstat, callVars, prepare, agentVars, event, found, stale>>

\* pxe.cleanup removes the boot configuration, unless the request is lost.  A panic
\* of this SendRequest, too, is BackendStops.
CleanUp(e) ==
  /\ cleanup[e] = "sent"
  /\ cleanup' = [cleanup EXCEPT ![e] = "done"]
  /\ pxe' \in {pxe, FALSE}
  /\ UNCHANGED <<status, ips, tasks, tstat, callVars, prepare, agent, emitted, eventVars>>

-----------------------------------------------------------------------------
(* The end of the backend.  What is stored stays; the calls, goroutines    *)
(* and handlers in progress are gone, and nothing resumes them when the    *)
(* backend starts again and serves new calls and events.                   *)

CutUnless(steps, where) == [x \in DOMAIN where |-> IF where[x] \in steps THEN where[x] ELSE "cut"]

BackendStops ==
  /\ pc' = CutUnless({"idle", "done"}, pc)
  /\ prepare' = CutUnless({"off", "done"}, prepare)
  /\ handler' = CutUnless({"none", "done"}, handler)
  /\ cleanup' = CutUnless({"none", "done"}, cleanup)
  /\ UNCHANGED <<status, ips, tasks, tstat, callerVars, saw, result, agentVars, event, found, stale>>

-----------------------------------------------------------------------------
CallStep(p) == SetProvisioning(p) \/ ListAddresses(p) \/ AssignAddress(p) \/ Validate(p)
               \/ CheckActiveTask(p) \/ CreateTask(p) \/ MarkReinstalling(p) \/ Rollback(p)

PrepareStep(t) == PrepareBegin(t) \/ PrepareSend(t) \/ PrepareAnswered(t) \/ PrepareTimeout(t)
                  \/ PrepareDone(t) \/ PrepareFailTask(t) \/ PrepareFailServer(t)

EventStep(e) == EventRead(e) \/ EventWrite(e) \/ EventServer(e)

Next ==
  \/ \E p \in Call : Begin(p) \/ ClientGoes(p) \/ CallStep(p) \/ PrepareStep(p)
                     \/ AgentPrepares(p) \/ AgentReports(p) \/ AgentFails(p)
  \/ \E e \in Events : EventStep(e) \/ CleanUp(e)
  \/ BackendStops

Spec == Init /\ [][Next]_vars

\* Handlers and goroutines run, queries answer, SendRequest has its timer:
\* the backend's steps are fair.  The client and the agent owe nothing.
CallFairness(p)  == WF_vars(CallStep(p)) /\ WF_vars(PrepareStep(p))
EventFairness(e) == WF_vars(EventStep(e)) /\ WF_vars(CleanUp(e))
Fairness == (\A p \in Call : CallFairness(p)) /\ (\A e \in Events : EventFairness(e))

FairSpec == Spec /\ Fairness

-----------------------------------------------------------------------------
(* Properties.                                                             *)

\* The error that CheckActiveTask drops does no harm: a call that begins while
\* installs of the server are active adds no task before each of them has ended,
\* its client gone or not.
LaterCallsRefused ==
  [][\A p \in Call : tasks' = Append(tasks, p) => \A t \in late[p] : tstat[t] \in Terminal]_vars

\* When every call has returned, no client left early and no call was cut short by a
\* panic or the end of the backend, the server is not left in "provisioning": each
\* way out of Provision sets another status.
NotLeftProvisioning ==
  (\A p \in Call : pc[p] \in {"idle", "done"} /\ ~gone[p]) => status # "provisioning"

\* A call says "ok" exactly when it left a task, and a task that waits for
\* its PXE preparation has a goroutine to do it or a call about to start one,
\* unless the end of the backend came between the two.
TasksAreStarted ==
  \A t \in Call : /\ pc[t] = "done" => (result[t] = "ok" <=> t \in ToSet(tasks))
                  /\ t \in ToSet(tasks) => pc[t] \in {"mark", "cut"} \/ prepare[t] # "off"

\* The agent boots a server for an install only when a task of that server is
\* on record, so that no event is dropped for want of a task.
EventsFindATask ==
  /\ pxe => tasks # <<>>
  /\ \A e \in Events : handler[e] # "none" => e[1] \in ToSet(tasks)

\* A server that says "active" after an install was told so by a "completed"
\* event of one of its installs, never by a PXE preparation or a failure.
ActiveOnlyIfCompleted ==
  [][status' = "active" /\ status # "active" =>
       \E e \in Events : event[e] = "completed" /\ agent[e[1]] = "acted"]_vars

\* Fairness only helps a step that can be taken.
CallCanStep(p)    == ENABLED <<CallStep(p)>>_vars
PrepareCanStep(t) == ENABLED <<PrepareStep(t)>>_vars
EventCanStep(e)   == ENABLED <<EventStep(e)>>_vars
CleanUpCanStep(e) == ENABLED <<CleanUp(e)>>_vars

\* Nothing in the backend waits for good: a call, the goroutine of a task, the
\* handler of an event and its cleanup can each take a step until they are done,
\* whatever the agent does.
NobodyBlocks ==
  /\ \A p \in Call : pc[p] \notin {"idle", "done", "cut"} => CallCanStep(p)
  /\ \A t \in Call : prepare[t] \notin {"off", "done", "cut"} => PrepareCanStep(t)
  /\ \A e \in Events : handler[e] \notin {"none", "done", "cut"} => EventCanStep(e)
  /\ \A e \in Events : cleanup[e] = "sent" => CleanUpCanStep(e)

\* A report with a status the backend does not know was read when the task was
\* still pending: its handler may write "pending" back at any later moment.
Overtaken(t) == \E e \in Events : found[e] = t /\ stale[e] = "pending"

\* The backend stopped before the goroutine of the task was done, or over an event
\* and its cleanup.
TaskCut(t)  == "cut" \in {pc[t], prepare[t]}
EventCut(e) == "cut" \in {handler[e], cleanup[e]}

\* Every task leaves "pending", whatever becomes of its call and its agent, unless a
\* report of another, overlapping install overtakes its preparation, or the backend
\* stops: nothing takes such a task up again.
TasksLeavePending ==
  \A t \in Call : tstat[t] = "pending" ~> (tstat[t] # "pending" \/ Overtaken(t) \/ TaskCut(t))

\* Every "completed" event that arrives has the PXE configuration cleaned up
\* after, or at least asked for, unless the backend stops over it.
CompletedIsCleaned ==
  \A e \in Events : (event[e] = "completed") ~> (cleanup[e] = "done" \/ EventCut(e))

-----------------------------------------------------------------------------
(* What the documents and the tests say and the code does not do.          *)

\* "Active" tasks are those neither completed nor failed; only they refuse an install.
RefusedOnlyWhileActive == \A p \in Call : saw[p] \notin Terminal

\* The guard prevents concurrent reinstalls of the same server.
AtMostOneActiveTask ==
  \A t, u \in ToSet(tasks) : {tstat[t], tstat[u]} \intersect Terminal = {} => t = u
=============================================================================
