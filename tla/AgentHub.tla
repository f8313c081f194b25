------------------------------ MODULE AgentHub ------------------------------
(***************************************************************************)
(* The backend's WebSocket hub, the pumps of its agent connections, the    *)
(* callers of Hub.SendRequest, and the client at the agent's end.          *)
(*   backend/internal/websocket/hub.go                                     *)
(*   backend/internal/handler/agent_ws_handler.go                          *)
(*   agent/internal/client/ws_client.go                                    *)
(*                                                                         *)
(* The Send channel and the two directions of a socket are sets of         *)
(* messages: the agent starts a goroutine per request, and a response is   *)
(* routed by its id, so that no order among them can be observed.  The     *)
(* capacity of Send is kept.  Time is abstract: a timeout may fire at any  *)
(* moment, a connection may fail at any moment.  Events, which carry no    *)
(* id, are the subject of InstallLifecycle.                                *)
(***************************************************************************)
EXTENDS Naturals, FiniteSets

CONSTANTS Agent,        \* the agents, by their id
          Conn,         \* the connections the agents ever open (bounds reconnections)
          Req,          \* the calls of SendRequest (bounds the requests)
          SendCap,      \* the capacity of AgentConnection.Send (256 in the code)
          None          \* no connection, no agent

ASSUME NoneAssumption == None \notin Conn \union Agent
ASSUME SendCapAssumption == SendCap \in Nat

VARIABLES
  agents,     \* Hub.agents: the connection requests to an agent are sent on
  owner,      \* AgentConnection.AgentID
  serve,      \* the goroutine that serves a connection: HTTP handler, then ReadPump
  hand,       \* the response a ReadPump is about to put on its caller's channel
  wp,         \* the WritePump of a connection
  up,         \* the backend's end of the socket is open
  closes,     \* how often Send was closed (a second time panics in Hub.Run)
  sendQ,      \* the messages in Send
  pending,    \* the ids in AgentConnection.pending
  toAgent,    \* requests on the wire, or in the agent's receive buffer
  toHub,      \* responses on the wire, or in the backend's receive buffer
  cur,        \* WSClient.conn at the agent
  exec,       \* the agent's goroutine for a request
  effect,     \* what the agent's executor did about a request
  pc,         \* where a call of SendRequest is
  conn,       \* the connection a call looked up
  respCh,     \* the response channel of a call, of capacity 1
  out         \* what a call returns

hubVars   == <<agents, closes>>
connVars  == <<owner, serve, hand, wp, up>>
callVars  == <<pc, conn, out>>
agentVars == <<cur, exec, effect>>
vars == <<agents, owner, serve, hand, wp, up, closes, sendQ, pending, toAgent, toHub,
          cur, exec, effect, pc, conn, respCh, out>>

Results  == {"ok", "error"}
Response == [req : Req, res : Results]
Refusals == {"offline", "full"}
\* The outcomes of a call whose message was never queued.
Unsent   == Refusals \union {"panic"}

TypeOK ==
  /\ agents \in [Agent -> Conn \union {None}]
  /\ owner \in [Conn -> Agent \union {None}]
  /\ serve \in [Conn -> {"none", "upgraded", "registered", "reading", "delivering",
                         "unregister", "closing", "done"}]
  /\ hand \in [Conn -> Response \union {None}]
  /\ \A c \in Conn : serve[c] = "delivering" => hand[c] \in Response
  /\ wp \in [Conn -> {"off", "on", "done"}]
  /\ up \in [Conn -> BOOLEAN]
  /\ closes \in [Conn -> Nat]
  /\ sendQ \in [Conn -> SUBSET Req]
  /\ \A c \in Conn : IsFiniteSet(sendQ[c]) /\ Cardinality(sendQ[c]) <= SendCap
  /\ pending \in [Conn -> SUBSET Req]
  /\ toAgent \in [Conn -> SUBSET Req]
  /\ toHub \in [Conn -> SUBSET Response]
  /\ cur \in [Agent -> Conn \union {None}]
  /\ exec \in [Req -> {"none", "running", "answering", "done"}]
  /\ effect \in [Req -> {"none"} \union Results]
  /\ \A r \in Req : exec[r] = "answering" => effect[r] \in Results
  /\ pc \in [Req -> {"idle", "found", "pending", "waiting", "returning", "done"}]
  /\ conn \in [Req -> Conn \union {None}]
  /\ respCh \in [Req -> {"empty"} \union Results]
  /\ out \in [Req -> {"none", "timeout"} \union Unsent \union Results]

Init ==
  /\ agents = [a \in Agent |-> None]
  /\ owner = [c \in Conn |-> None]
  /\ serve = [c \in Conn |-> "none"]
  /\ hand = [c \in Conn |-> None]
  /\ wp = [c \in Conn |-> "off"]
  /\ up = [c \in Conn |-> FALSE]
  /\ closes = [c \in Conn |-> 0]
  /\ sendQ = [c \in Conn |-> {}]
  /\ pending = [c \in Conn |-> {}]
  /\ toAgent = [c \in Conn |-> {}]
  /\ toHub = [c \in Conn |-> {}]
  /\ cur = [a \in Agent |-> None]
  /\ exec = [r \in Req |-> "none"]
  /\ effect = [r \in Req |-> "none"]
  /\ pc = [r \in Req |-> "idle"]
  /\ conn = [r \in Req |-> None]
  /\ respCh = [r \in Req |-> "empty"]
  /\ out = [r \in Req |-> "none"]

-----------------------------------------------------------------------------
(* The life of a connection at the backend.                                *)

\* The client dials and the handler has upgraded: the handler goroutine now
\* waits for Hub.Run to take the connection from the register channel.
Connect(a, c) ==
  /\ cur[a] = None
  /\ serve[c] = "none"
  /\ owner' = [owner EXCEPT ![c] = a]
  /\ serve' = [serve EXCEPT ![c] = "upgraded"]
  /\ up' = [up EXCEPT ![c] = TRUE]
  /\ cur' = [cur EXCEPT ![a] = c]
  /\ UNCHANGED <<hubVars, hand, wp, sendQ, pending, toAgent, toHub, exec, effect,
                 callVars, respCh>>

\* Fault: the agent's old connection is not closed.
HubRegisterKeepsOld(c) ==
  /\ serve[c] = "upgraded"
  /\ agents' = [agents EXCEPT ![owner[c]] = c]
  /\ serve' = [serve EXCEPT ![c] = "registered"]
  /\ UNCHANGED <<closes, owner, hand, wp, up, sendQ, pending, toAgent, toHub, agentVars,
                 callVars, respCh>>

\* Hub.Run takes a connection to register: the agent's old one is closed.
\* Two handlers may wait at once, and Run may take the newer one first.
HubRegister(c) ==
  LET a == owner[c]
      old == agents[a]
  IN /\ serve[c] = "upgraded"
     /\ agents' = [agents EXCEPT ![a] = c]
     /\ serve' = [serve EXCEPT ![c] = "registered"]
     /\ closes' = [d \in Conn |-> IF d = old THEN closes[d] + 1 ELSE closes[d]]
     /\ up' = [d \in Conn |-> IF d = old THEN FALSE ELSE up[d]]
     /\ UNCHANGED <<owner, hand, wp, sendQ, pending, toAgent, toHub, agentVars,
                    callVars, respCh>>

\* The handler returns from Register and starts the pumps.
StartPumps(c) ==
  /\ serve[c] = "registered"
  /\ serve' = [serve EXCEPT ![c] = "reading"]
  /\ wp' = [wp EXCEPT ![c] = "on"]
  /\ UNCHANGED <<hubVars, owner, hand, up, sendQ, pending, toAgent, toHub, agentVars,
                 callVars, respCh>>

\* ReadPump reads a response; handleMessage looks its id up under pendingMu,
\* releases it, and drops a response nobody waits for.
ReadResponse(c) ==
  /\ serve[c] = "reading"
  /\ up[c]
  /\ \E m \in toHub[c] :
       /\ toHub' = [toHub EXCEPT ![c] = @ \ {m}]
       /\ \/ /\ m.req \in pending[c]
             /\ serve' = [serve EXCEPT ![c] = "delivering"]
             /\ hand' = [hand EXCEPT ![c] = m]
          \/ /\ m.req \notin pending[c]
             /\ UNCHANGED <<serve, hand>>
  /\ UNCHANGED <<hubVars, owner, wp, up, sendQ, pending, toAgent, agentVars,
                 callVars, respCh>>

\* ch <- msg, outside the lock: it blocks the pump while the channel is full.
Deliver(c) ==
  /\ serve[c] = "delivering"
  /\ respCh[hand[c].req] = "empty"
  /\ respCh' = [respCh EXCEPT ![hand[c].req] = hand[c].res]
  /\ hand' = [hand EXCEPT ![c] = None]
  /\ serve' = [serve EXCEPT ![c] = "reading"]
  /\ UNCHANGED <<hubVars, owner, wp, up, sendQ, pending, toAgent, toHub, agentVars, callVars>>

\* ReadMessage fails: the peer went away, the 90 s deadline passed, or this
\* end was closed.  The deferred function hands the connection to Hub.Run.
ReadFail(c) ==
  /\ serve[c] = "reading"
  /\ serve' = [serve EXCEPT ![c] = "unregister"]
  /\ UNCHANGED <<hubVars, owner, hand, wp, up, sendQ, pending, toAgent, toHub,
                 agentVars, callVars, respCh>>

\* Fault: existing == conn is not checked.
HubUnregisterAny(c) ==
  /\ serve[c] = "unregister"
  /\ serve' = [serve EXCEPT ![c] = "closing"]
  /\ agents' = [agents EXCEPT ![owner[c]] = None]
  /\ closes' = [closes EXCEPT ![c] = @ + 1]
  /\ UNCHANGED <<owner, hand, wp, up, sendQ, pending, toAgent, toHub, agentVars,
                 callVars, respCh>>

\* Fault: Send is closed but the entry of the map is not deleted.
HubUnregisterKeepsEntry(c) ==
  /\ serve[c] = "unregister"
  /\ serve' = [serve EXCEPT ![c] = "closing"]
  /\ closes' = [closes EXCEPT ![c] = IF agents[owner[c]] = c THEN @ + 1 ELSE @]
  /\ UNCHANGED <<agents, owner, hand, wp, up, sendQ, pending, toAgent, toHub, agentVars,
                 callVars, respCh>>

\* Hub.Run takes a connection to unregister.
HubUnregister(c) ==
  /\ serve[c] = "unregister"
  /\ serve' = [serve EXCEPT ![c] = "closing"]
  /\ IF agents[owner[c]] = c
       THEN /\ agents' = [agents EXCEPT ![owner[c]] = None]
            /\ closes' = [closes EXCEPT ![c] = @ + 1]
       ELSE UNCHANGED hubVars
  /\ UNCHANGED <<owner, hand, wp, up, sendQ, pending, toAgent, toHub, agentVars,
                 callVars, respCh>>

\* The rest of ReadPump's deferred function.
ReadPumpExit(c) ==
  /\ serve[c] = "closing"
  /\ serve' = [serve EXCEPT ![c] = "done"]
  /\ up' = [up EXCEPT ![c] = FALSE]
  /\ UNCHANGED <<hubVars, owner, hand, wp, sendQ, pending, toAgent, toHub, agentVars,
                 callVars, respCh>>

\* WritePump sends one message; a closed Send still yields what it holds.
WriteRequest(c) ==
  /\ wp[c] = "on"
  /\ up[c]
  /\ \E r \in sendQ[c] :
       /\ sendQ' = [sendQ EXCEPT ![c] = @ \ {r}]
       /\ toAgent' = [toAgent EXCEPT ![c] = @ \union {r}]
  /\ UNCHANGED <<hubVars, connVars, pending, toHub, agentVars, callVars, respCh>>

\* Writing a message or a ping fails: the pump returns and closes the socket.
\* The message at the head, if it was one, is lost; the rest stays in Send.
WriteFail(c) ==
  /\ wp[c] = "on"
  /\ \/ \E r \in sendQ[c] : sendQ' = [sendQ EXCEPT ![c] = @ \ {r}]
     \/ UNCHANGED sendQ
  /\ wp' = [wp EXCEPT ![c] = "done"]
  /\ up' = [up EXCEPT ![c] = FALSE]
  /\ UNCHANGED <<hubVars, owner, serve, hand, pending, toAgent, toHub, agentVars,
                 callVars, respCh>>

\* Send is closed and drained: the pump says goodbye and closes the socket.
WritePumpExit(c) ==
  /\ wp[c] = "on"
  /\ closes[c] > 0
  /\ sendQ[c] = {}
  /\ wp' = [wp EXCEPT ![c] = "done"]
  /\ up' = [up EXCEPT ![c] = FALSE]
  /\ UNCHANGED <<hubVars, owner, serve, hand, sendQ, pending, toAgent, toHub, agentVars,
                 callVars, respCh>>

-----------------------------------------------------------------------------
(* SendRequest, one step per access to shared state.                       *)

\* GetAgent: the read lock is released before the connection is used.
Lookup(r) ==
  /\ pc[r] = "idle"
  /\ \E a \in Agent :
       IF agents[a] = None
         THEN /\ pc' = [pc EXCEPT ![r] = "done"]
              /\ out' = [out EXCEPT ![r] = "offline"]
              /\ UNCHANGED conn
         ELSE /\ pc' = [pc EXCEPT ![r] = "found"]
              /\ conn' = [conn EXCEPT ![r] = agents[a]]
              /\ UNCHANGED out
  /\ UNCHANGED <<hubVars, connVars, sendQ, pending, toAgent, toHub, agentVars, respCh>>

\* The call registers for its response under pendingMu.
AddPending(r) ==
  /\ pc[r] = "found"
  /\ pending' = [pending EXCEPT ![conn[r]] = @ \union {r}]
  /\ pc' = [pc EXCEPT ![r] = "pending"]
  /\ UNCHANGED <<hubVars, connVars, sendQ, toAgent, toHub, agentVars, conn, out, respCh>>

\* Fault: the message is queued whether or not the channel has room.
EnqueueUnbounded(r) ==
  /\ pc[r] = "pending"
  /\ closes[conn[r]] = 0
  /\ sendQ' = [sendQ EXCEPT ![conn[r]] = @ \union {r}]
  /\ pc' = [pc EXCEPT ![r] = "waiting"]
  /\ UNCHANGED <<hubVars, connVars, pending, toAgent, toHub, agentVars, conn, out, respCh>>

\* The select puts the message into Send, which has room.
Enqueue(r) ==
  /\ pc[r] = "pending"
  /\ closes[conn[r]] = 0
  /\ Cardinality(sendQ[conn[r]]) < SendCap
  /\ sendQ' = [sendQ EXCEPT ![conn[r]] = @ \union {r}]
  /\ pc' = [pc EXCEPT ![r] = "waiting"]
  /\ UNCHANGED <<hubVars, connVars, pending, toAgent, toHub, agentVars, conn, out, respCh>>

\* Fault: the select has no default; a call waits for room in the channel.
BufferFullWaits(r) == FALSE /\ UNCHANGED vars

\* The default branch of the select.
BufferFull(r) ==
  /\ pc[r] = "pending"
  /\ closes[conn[r]] = 0
  /\ Cardinality(sendQ[conn[r]]) >= SendCap
  /\ pc' = [pc EXCEPT ![r] = "returning"]
  /\ out' = [out EXCEPT ![r] = "full"]
  /\ UNCHANGED <<hubVars, connVars, sendQ, pending, toAgent, toHub, agentVars, conn, respCh>>

\* Hub.Run closed Send since the lookup: a send on a closed channel panics,
\* also in a select with a default.  The deferred delete still runs; the caller gets
\* no error and is unwound, up to gin.Recovery in a request's handler.  In a bare
\* goroutine nothing recovers it and the backend ends: InstallLifecycle says what that
\* leaves behind, this module goes on with the others.
SendPanics(r) ==
  /\ pc[r] = "pending"
  /\ closes[conn[r]] > 0
  /\ pc' = [pc EXCEPT ![r] = "returning"]
  /\ out' = [out EXCEPT ![r] = "panic"]
  /\ UNCHANGED <<hubVars, connVars, sendQ, pending, toAgent, toHub, agentVars, conn, respCh>>

\* The response arrives before the timer fires.
Receive(r) ==
  /\ pc[r] = "waiting"
  /\ respCh[r] # "empty"
  /\ out' = [out EXCEPT ![r] = respCh[r]]
  /\ respCh' = [respCh EXCEPT ![r] = "empty"]
  /\ pc' = [pc EXCEPT ![r] = "returning"]
  /\ UNCHANGED <<hubVars, connVars, sendQ, pending, toAgent, toHub, agentVars, conn>>

\* Fault: no timer.
TimeoutNever(r) == FALSE /\ UNCHANGED vars

\* time.After(timeout), also when the response is already in the channel.
Timeout(r) ==
  /\ pc[r] = "waiting"
  /\ out' = [out EXCEPT ![r] = "timeout"]
  /\ pc' = [pc EXCEPT ![r] = "returning"]
  /\ UNCHANGED <<hubVars, connVars, sendQ, pending, toAgent, toHub, agentVars, conn, respCh>>

\* Fault: the id stays in pending.
ReturnWithoutDelete(r) ==
  /\ pc[r] = "returning"
  /\ pc' = [pc EXCEPT ![r] = "done"]
  /\ UNCHANGED <<hubVars, connVars, sendQ, pending, toAgent, toHub, agentVars, conn, out,
                 respCh>>

\* The deferred delete from pending, on every way out.
Return(r) ==
  /\ pc[r] = "returning"
  /\ pending' = [pending EXCEPT ![conn[r]] = @ \ {r}]
  /\ pc' = [pc EXCEPT ![r] = "done"]
  /\ UNCHANGED <<hubVars, connVars, sendQ, toAgent, toHub, agentVars, conn, out, respCh>>

-----------------------------------------------------------------------------
(* The agent.                                                              *)

\* Fault: the message stays readable and is handled again.
AgentReadAgain(a) ==
  /\ cur[a] # None
  /\ \E r \in toAgent[cur[a]] : exec' = [exec EXCEPT ![r] = "running"]
  /\ UNCHANGED <<hubVars, connVars, sendQ, pending, toAgent, toHub, cur, effect, callVars,
                 respCh>>

\* readLoop starts a goroutine for a request.
AgentRead(a) ==
  /\ cur[a] # None
  /\ \E r \in toAgent[cur[a]] :
       /\ toAgent' = [toAgent EXCEPT ![cur[a]] = @ \ {r}]
       /\ exec' = [exec EXCEPT ![r] = "running"]
  /\ UNCHANGED <<hubVars, connVars, sendQ, pending, toHub, cur, effect, callVars, respCh>>

\* handleRequest runs the executor (an unknown action is an error).
AgentExecute(r) ==
  /\ exec[r] = "running"
  /\ exec' = [exec EXCEPT ![r] = "answering"]
  /\ \E res \in Results : effect' = [effect EXCEPT ![r] = res]
  /\ UNCHANGED <<hubVars, connVars, sendQ, pending, toAgent, toHub, cur, callVars, respCh>>

\* Fault: no return after the first response.
AgentAnswerTwice(r) ==
  /\ exec[r] = "answering"
  /\ toHub' = [d \in Conn |-> IF d = cur[owner[conn[r]]]
                                THEN toHub[d] \union {[req |-> r, res |-> effect[r]]}
                                ELSE toHub[d]]
  /\ UNCHANGED <<hubVars, connVars, sendQ, pending, toAgent, cur, exec, effect, callVars,
                 respCh>>

\* sendResponse writes on the client's connection of this moment, which need
\* not be the one the request came by; with none, the response is dropped.
AgentAnswer(r) ==
  LET c == cur[owner[conn[r]]]
  IN /\ exec[r] = "answering"
     /\ exec' = [exec EXCEPT ![r] = "done"]
     /\ toHub' = [d \in Conn |-> IF d = c
                                   THEN toHub[d] \union {[req |-> r, res |-> effect[r]]}
                                   ELSE toHub[d]]
     /\ UNCHANGED <<hubVars, connVars, sendQ, pending, toAgent, cur, effect, callVars, respCh>>

\* The agent's read fails: readLoop closes the socket and forgets it.
AgentDisconnect(a) ==
  /\ cur[a] # None
  /\ cur' = [cur EXCEPT ![a] = None]
  /\ UNCHANGED <<hubVars, connVars, sendQ, pending, toAgent, toHub, exec, effect,
                 callVars, respCh>>

\* The agent's process dies with every goroutine it had.
AgentRestart(a) ==
  /\ cur' = [cur EXCEPT ![a] = None]
  /\ exec' = [r \in Req |-> IF /\ exec[r] \in {"running", "answering"}
                               /\ owner[conn[r]] = a
                              THEN "done" ELSE exec[r]]
  /\ <<cur, exec>>' # <<cur, exec>>
  /\ UNCHANGED <<hubVars, connVars, sendQ, pending, toAgent, toHub, effect, callVars, respCh>>

-----------------------------------------------------------------------------
BackendStep(c) ==
  \/ HubRegister(c) \/ StartPumps(c) \/ ReadResponse(c) \/ Deliver(c) \/ ReadFail(c)
  \/ HubUnregister(c) \/ ReadPumpExit(c) \/ WriteRequest(c) \/ WriteFail(c) \/ WritePumpExit(c)

CallStep(r) ==
  \/ Lookup(r) \/ AddPending(r) \/ Enqueue(r) \/ BufferFull(r) \/ SendPanics(r)
  \/ Receive(r) \/ Timeout(r) \/ Return(r)

AgentStep(a) == AgentRead(a) \/ AgentDisconnect(a) \/ AgentRestart(a)

HandlerStep(r) == AgentExecute(r) \/ AgentAnswer(r)

Next ==
  \/ \E a \in Agent, c \in Conn : Connect(a, c)
  \/ \E c \in Conn : BackendStep(c)
  \/ \E r \in Req : CallStep(r)
  \/ \E a \in Agent : AgentStep(a)
  \/ \E r \in Req : HandlerStep(r)

Spec == Init /\ [][Next]_vars

-----------------------------------------------------------------------------
(* Properties.                                                             *)

\* The connection the hub routes an agent's requests to belongs to that agent
\* and its Send is open: a caller that looks it up can only meet a closed
\* channel when Run replaces or removes the connection after the lookup.
RoutedConnectionIsOpen ==
  \A a \in Agent : agents[a] # None => /\ owner[agents[a]] = a
                                        /\ closes[agents[a]] = 0

\* However registrations, replacements and the ReadPumps' unregistrations of
\* one agent's connections interleave, no Send is closed twice: a second
\* close panics in Hub.Run, the only goroutine that serves every agent.
SendClosedOnce == \A c \in Conn : closes[c] <= 1

\* ReadPump puts a response on the caller's channel after it has released
\* pendingMu.  It never finds that channel full, so that a late caller never
\* stops it from reading the other callers' responses.
ReadPumpNeverBlocks ==
  \A c \in Conn : serve[c] = "delivering" => respCh[hand[c].req] = "empty"

\* Only a call that has not returned is registered for a response, on every
\* way out of SendRequest (the pending map of a long-lived connection would
\* grow for ever otherwise), and a call that waits for one is registered.
PendingMatchesCalls ==
  \A c \in Conn, r \in Req :
    r \in pending[c] <=> conn[r] = c /\ pc[r] \in {"pending", "waiting", "returning"}

\* The hub forgets an agent only when the agent's present connection asked
\* for it: the unregistration of a connection that was replaced, however
\* late it comes, never takes its successor offline.
NoStaleUnregister ==
  [][\A a \in Agent : agents[a] # None /\ agents'[a] = None
                         => serve[agents[a]] = "unregister"]_vars

\* What a caller knows of its request at a point of SendRequest, given what
\* SendRequest returns.
Known(p, o) ==
  CASE p = "idle" -> "idle"
    [] p \in {"found", "pending"} -> "calling"
    [] p = "waiting" -> "sent"
    [] p \in {"returning", "done"} -> IF o \in Refusals THEN "refused"
                                      ELSE IF o = "panic" THEN "panicked"
                                      ELSE IF o = "timeout" THEN "unknown" ELSE o

callState == [r \in Req |-> Known(pc[r], out[r])]

RPC == INSTANCE AgentRPC WITH state <- callState

\* Every behaviour of the hub, its callers and the agents, with connections
\* that fail, are replaced and outlive each other, keeps the contract of
\* AgentRPC: a refused request, or one that panicked, is never acted on, an answer is
\* the agent's own answer to that request, and no request is acted on twice.
KeepsRPCContract == RPC!Spec

-----------------------------------------------------------------------------
(* Liveness.                                                               *)

\* The backend learns that a peer is gone from a read error: at once if its
\* own end is closed, otherwise when 90 s pass without a pong.
PeerGone(c) == serve[c] # "none" /\ (~up[c] \/ cur[owner[c]] # c)

\* Goroutines that can run do run, Hub.Run's select starves neither channel,
\* timers fire, and a socket that was closed is noticed at both ends.  Dialling
\* and calling are up to their users.
ConnFairness(c) ==
  /\ WF_vars(HubRegister(c)) /\ WF_vars(StartPumps(c)) /\ WF_vars(Deliver(c))
  /\ WF_vars(PeerGone(c) /\ ReadFail(c))
  /\ WF_vars(HubUnregister(c)) /\ WF_vars(ReadPumpExit(c))
  /\ WF_vars(WriteRequest(c)) /\ WF_vars(~up[c] /\ WriteFail(c)) /\ WF_vars(WritePumpExit(c))

\* The steps of a call that found a connection.
CallGoesOn(r) == AddPending(r) \/ Enqueue(r) \/ BufferFull(r) \/ SendPanics(r)
                   \/ Receive(r) \/ Timeout(r) \/ Return(r)
CallFairness(r) == WF_vars(CallGoesOn(r))

AgentNotices(a) == cur[a] # None /\ ~up[cur[a]] /\ AgentDisconnect(a)
AgentFairness(a) == WF_vars(AgentNotices(a))

Fairness == /\ \A c \in Conn : ConnFairness(c)
            /\ \A r \in Req : CallFairness(r)
            /\ \A a \in Agent : AgentFairness(a)

FairSpec == Spec /\ Fairness

\* Fairness only helps a step that can be taken.
CallCanGoOn(r)    == ENABLED <<CallGoesOn(r)>>_vars
CanRegister(c)    == ENABLED <<HubRegister(c)>>_vars
CanStartPumps(c)  == ENABLED <<StartPumps(c)>>_vars
CanDeliver(c)     == ENABLED <<Deliver(c)>>_vars
CanUnregister(c)  == ENABLED <<HubUnregister(c)>>_vars
CanExit(c)        == ENABLED <<ReadPumpExit(c)>>_vars
AgentCanNotice(a) == ENABLED <<AgentNotices(a)>>_vars

\* The next step of a call that found a connection, of a connection's handler and
\* of an agent whose connection was closed can always be taken: no full channel,
\* lost answer or closed Send stops them.
NobodyBlocks ==
  /\ \A r \in Req : pc[r] \in {"found", "pending", "waiting", "returning"} => CallCanGoOn(r)
  /\ \A c \in Conn :
       /\ serve[c] = "upgraded" => CanRegister(c)
       /\ serve[c] = "registered" => CanStartPumps(c)
       /\ serve[c] = "delivering" => CanDeliver(c)
       /\ serve[c] = "unregister" => CanUnregister(c)
       /\ serve[c] = "closing" => CanExit(c)
  /\ \A a \in Agent : cur[a] # None /\ ~up[cur[a]] => AgentCanNotice(a)

\* Every SendRequest that found a connection returns, whatever happens to the
\* connection and to the agent meanwhile.
CallsReturn == \A r \in Req : pc[r] = "found" ~> pc[r] = "done"

\* A connection whose agent is gone is taken out of the hub and both of its
\* pumps end, whichever of them notices first.
DeadConnectionsAreReaped ==
  \A c \in Conn : (serve[c] # "none" /\ cur[owner[c]] # c)
                     ~> (serve[c] = "done" /\ wp[c] = "done"
                           /\ \A a \in Agent : agents[a] # c)

\* An agent never goes on believing in a connection the hub does not route
\* to: either the hub comes to route to it or the agent learns it is closed.
\* Two handlers that wait on the register channel at the same time may be
\* served in either order, so that an older connection can replace a newer.
NoZombieConnection ==
  \A a \in Agent, c \in Conn :
    (cur[a] = c /\ agents[a] # c) ~> (cur[a] # c \/ agents[a] = c)
=============================================================================
