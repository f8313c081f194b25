--------------------------- MODULE AgentHubProofs ---------------------------
(***************************************************************************)
(* Theorems about AgentHub for any number of agents, connections and calls *)
(* and any capacity of Send.                                               *)
(*                                                                         *)
(* The inductive invariant has four parts, each proved inductive from the  *)
(* ones before it:                                                         *)
(*   TypeOK       the types, and the capacity of Send;                     *)
(*   RegistryInv  which connections Hub.Run may still close;               *)
(*   CallInv      where the message of each call can be, and what the      *)
(*                call's outcome then is;                                  *)
(*   ResponseInv  that the response to a request is in one place at most.  *)
(* For the liveness of connections there is ConnInv, which says when a     *)
(* connection is closed.  A liveness theorem is of FairSpec and of         *)
(* []NobodyBlocks, the state property that nobody is stuck.                *)
(***************************************************************************)
EXTENDS AgentHub, FiniteSetTheorems, TLAPS

USE NoneAssumption, SendCapAssumption

\* Stages of a connection's serving goroutine at which Hub.agents may hold it.
Routable == {"registered", "reading", "delivering", "unregister"}

RegistryInv ==
  /\ \A a \in Agent : agents[a] # None => /\ owner[agents[a]] = a
                                          /\ closes[agents[a]] = 0
                                          /\ serve[agents[a]] \in Routable
  /\ \A c \in Conn : serve[c] \in {"none", "upgraded"} => closes[c] = 0
  /\ \A c \in Conn : serve[c] # "none" => owner[c] \in Agent
  /\ \A c \in Conn : closes[c] <= 1

-----------------------------------------------------------------------------
(* Types.                                                                  *)

\* Before any connection, every variable has its type.
THEOREM InitTypeOK == Init => TypeOK
  BY FS_EmptySet DEF Init, TypeOK

\* A message put in a Send channel that has room leaves it within capacity.
LEMMA AddWithinCap ==
  ASSUME NEW S, IsFiniteSet(S), Cardinality(S) < SendCap, NEW r
  PROVE  /\ IsFiniteSet(S \union {r})
         /\ Cardinality(S \union {r}) <= SendCap
  <1>1. Cardinality(S) \in Nat
    BY FS_CardinalityType
  <1>2. /\ IsFiniteSet(S \union {r})
        /\ \/ Cardinality(S \union {r}) = Cardinality(S)
           \/ Cardinality(S \union {r}) = Cardinality(S) + 1
    BY FS_AddElement
  <1> QED BY <1>1, <1>2

\* A message taken out of a Send channel leaves it within capacity.
LEMMA RemoveWithinCap ==
  ASSUME NEW S, IsFiniteSet(S), Cardinality(S) <= SendCap, NEW r
  PROVE  /\ IsFiniteSet(S \ {r})
         /\ Cardinality(S \ {r}) <= SendCap
  <1>1. /\ Cardinality(S) \in Nat
        /\ IsFiniteSet(S \ {r})
        /\ \/ Cardinality(S \ {r}) = Cardinality(S)
           \/ Cardinality(S \ {r}) = Cardinality(S) - 1
    BY FS_CardinalityType, FS_RemoveElement
  <1> QED BY <1>1

\* Every step of the hub, the pumps, the calls and the agents keeps the types.
LEMMA TypeOKStep == TypeOK /\ [Next]_vars => TypeOK'
  <1> SUFFICES ASSUME TypeOK, [Next]_vars PROVE TypeOK'
    OBVIOUS
  <1> USE DEF TypeOK, hubVars, connVars, callVars, agentVars, Response, Results, Unsent, Refusals
  <1>1. ASSUME NEW a \in Agent, NEW c \in Conn, Connect(a, c) PROVE TypeOK'
    BY <1>1 DEF Connect
  <1>2. ASSUME NEW c \in Conn, BackendStep(c) PROVE TypeOK'
    <2>1. CASE HubRegister(c)
      <3>1. closes' \in [Conn -> Nat] /\ up' \in [Conn -> BOOLEAN]
        <4> DEFINE old == agents[owner[c]]
        <4>1. closes' = [d \in Conn |-> IF d = old THEN closes[d] + 1 ELSE closes[d]]
          BY <2>1 DEF HubRegister
        <4>2. up' = [d \in Conn |-> IF d = old THEN FALSE ELSE up[d]]
          BY <2>1 DEF HubRegister
        <4> HIDE DEF old
        <4>3. closes' \in [Conn -> Nat]
          BY <4>1
        <4>4. up' \in [Conn -> BOOLEAN]
          BY <4>2, Zenon
        <4> QED BY <4>3, <4>4
      <3>2. agents' \in [Agent -> Conn \union {None}]
        BY <2>1 DEF HubRegister
      <3> QED BY <2>1, <3>1, <3>2 DEF HubRegister
    <2>2. CASE StartPumps(c)
      BY <2>2 DEF StartPumps
    <2>3. CASE ReadResponse(c)
      BY <2>3 DEF ReadResponse
    <2>4. CASE Deliver(c)
      BY <2>4 DEF Deliver
    <2>5. CASE ReadFail(c)
      BY <2>5 DEF ReadFail
    <2>6. CASE HubUnregister(c)
      BY <2>6 DEF HubUnregister
    <2>7. CASE ReadPumpExit(c)
      BY <2>7 DEF ReadPumpExit
    <2>8. CASE WriteRequest(c)
      <3>1. PICK r \in sendQ[c] : /\ sendQ' = [sendQ EXCEPT ![c] = @ \ {r}]
                                  /\ toAgent' = [toAgent EXCEPT ![c] = @ \union {r}]
        BY <2>8 DEF WriteRequest
      <3>2. IsFiniteSet(sendQ[c] \ {r}) /\ Cardinality(sendQ[c] \ {r}) <= SendCap
        BY RemoveWithinCap
      <3>3. /\ sendQ' \in [Conn -> SUBSET Req]
            /\ toAgent' \in [Conn -> SUBSET Req]
        BY <3>1
      <3>4. \A d \in Conn : IsFiniteSet(sendQ'[d]) /\ Cardinality(sendQ'[d]) <= SendCap
        BY <3>1, <3>2
      <3> QED BY <2>8, <3>3, <3>4 DEF WriteRequest
    <2>9. CASE WriteFail(c)
      <3>1. CASE UNCHANGED sendQ
        BY <2>9, <3>1 DEF WriteFail
      <3>2. ASSUME NEW r \in sendQ[c], sendQ' = [sendQ EXCEPT ![c] = @ \ {r}]
            PROVE  TypeOK'
        <4>1. IsFiniteSet(sendQ[c] \ {r}) /\ Cardinality(sendQ[c] \ {r}) <= SendCap
          BY RemoveWithinCap
        <4> QED BY <2>9, <3>2, <4>1 DEF WriteFail
      <3> QED BY <2>9, <3>1, <3>2 DEF WriteFail
    <2>10. CASE WritePumpExit(c)
      BY <2>10 DEF WritePumpExit
    <2> QED BY <1>2, <2>1, <2>2, <2>3, <2>4, <2>5, <2>6, <2>7, <2>8, <2>9, <2>10
            DEF BackendStep
  <1>3. ASSUME NEW r \in Req, CallStep(r) PROVE TypeOK'
    <2>1. CASE Lookup(r)
      <3>1. /\ conn' \in [Req -> Conn \union {None}]
            /\ pc' \in [Req -> {"idle", "found", "pending", "waiting", "returning", "done"}]
            /\ out' \in [Req -> {"none", "timeout"} \union Unsent \union Results]
        <4>1. PICK a \in Agent :
                IF agents[a] = None
                  THEN /\ pc' = [pc EXCEPT ![r] = "done"]
                       /\ out' = [out EXCEPT ![r] = "offline"]
                       /\ UNCHANGED conn
                  ELSE /\ pc' = [pc EXCEPT ![r] = "found"]
                       /\ conn' = [conn EXCEPT ![r] = agents[a]]
                       /\ UNCHANGED out
          BY <2>1 DEF Lookup
        <4>2. CASE agents[a] = None
          BY <4>1, <4>2, ZenonT(60)
        <4>3. CASE agents[a] # None
          BY <4>1, <4>3, SMTT(30)
        <4> QED BY <4>2, <4>3
      <3> QED BY <2>1, <3>1 DEF Lookup
    <2>2. CASE AddPending(r)
      BY <2>2 DEF AddPending
    <2>3. CASE Enqueue(r)
      <3>1. conn[r] \in Conn => /\ IsFiniteSet(sendQ[conn[r]] \union {r})
                                /\ Cardinality(sendQ[conn[r]] \union {r}) <= SendCap
        BY <2>3, AddWithinCap DEF Enqueue
      <3> QED BY <2>3, <3>1, ZenonT(60) DEF Enqueue
    <2>4. CASE BufferFull(r)
      BY <2>4 DEF BufferFull
    <2>5. CASE SendPanics(r)
      BY <2>5 DEF SendPanics
    <2>6. CASE Receive(r)
      BY <2>6 DEF Receive
    <2>7. CASE Timeout(r)
      BY <2>7 DEF Timeout
    <2>8. CASE Return(r)
      BY <2>8 DEF Return
    <2> QED BY <1>3, <2>1, <2>2, <2>3, <2>4, <2>5, <2>6, <2>7, <2>8 DEF CallStep
  <1>4. ASSUME NEW a \in Agent, AgentStep(a) PROVE TypeOK'
    <2>1. CASE AgentRead(a)
      BY <2>1 DEF AgentRead
    <2>2. CASE AgentDisconnect(a)
      BY <2>2 DEF AgentDisconnect
    <2>3. CASE AgentRestart(a)
      BY <2>3 DEF AgentRestart
    <2> QED BY <1>4, <2>1, <2>2, <2>3 DEF AgentStep
  <1>5. ASSUME NEW r \in Req, HandlerStep(r) PROVE TypeOK'
    <2>1. CASE AgentExecute(r)
      BY <2>1 DEF AgentExecute
    <2>2. CASE AgentAnswer(r)
      <3>1. [req |-> r, res |-> effect[r]] \in Response
        BY <2>2 DEF AgentAnswer
      <3>2. toHub' \in [Conn -> SUBSET Response]
        BY <2>2, <3>1 DEF AgentAnswer
      <3> QED BY <2>2, <3>2 DEF AgentAnswer
    <2> QED BY <1>5, <2>1, <2>2 DEF HandlerStep
  <1>6. CASE UNCHANGED vars
    BY <1>6 DEF vars
  <1> QED BY <1>1, <1>2, <1>3, <1>4, <1>5, <1>6 DEF Next

\* Every variable keeps its type, and no Send channel exceeds its capacity.
THEOREM TypeCorrect == Spec => []TypeOK
  BY InitTypeOK, TypeOKStep, PTL DEF Spec

-----------------------------------------------------------------------------
(* The registry: what Hub.Run may still close.                             *)

\* RegistryInv depends on the map, the owners, the pumps and the closes alone.
LEMMA RegistryUnchanged ==
  RegistryInv /\ UNCHANGED <<agents, owner, serve, closes>> => RegistryInv'
  BY DEF RegistryInv

\* Every step keeps the registry consistent: Connect, register and unregister
\* are the steps that matter.
LEMMA RegistryStep == TypeOK /\ RegistryInv /\ [Next]_vars => RegistryInv'
  <1> SUFFICES ASSUME TypeOK, RegistryInv, [Next]_vars PROVE RegistryInv'
    OBVIOUS
  <1> USE DEF hubVars, connVars, callVars, agentVars
  <1> DEFINE Same == UNCHANGED <<agents, owner, serve, closes>>
  <1>1. ASSUME NEW a \in Agent, NEW c \in Conn, Connect(a, c) PROVE RegistryInv'
    BY <1>1 DEF Connect, RegistryInv, TypeOK, Routable
  <1>2. ASSUME NEW c \in Conn, BackendStep(c) PROVE RegistryInv'
    <2>1. CASE HubRegister(c)
      <3> DEFINE a == owner[c]
                 old == agents[a]
      <3>1. /\ a \in Agent
            /\ \A b \in Agent : agents[b] # c
            /\ \A b \in Agent : b # a /\ old # None => agents[b] # old
        BY <2>1 DEF HubRegister, RegistryInv, Routable
      <3>2. old # None => old \in Conn /\ closes[old] = 0
        BY <3>1 DEF RegistryInv, TypeOK
      <3>3. /\ agents' = [agents EXCEPT ![a] = c]
            /\ serve' = [serve EXCEPT ![c] = "registered"]
            /\ closes' = [d \in Conn |-> IF d = old THEN closes[d] + 1 ELSE closes[d]]
            /\ owner' = owner
            /\ serve[c] = "upgraded"
        BY <2>1 DEF HubRegister
      <3>4. closes[c] = 0 /\ c # old
        BY <3>1, <3>3 DEF RegistryInv
      <3>5. \A d \in Conn : closes'[d] \in Nat /\ closes'[d] <= 1
        BY <3>2, <3>3 DEF RegistryInv, TypeOK
      <3>6. \A d \in Conn : serve'[d] \in {"none", "upgraded"} => closes'[d] = 0
        <4> SUFFICES ASSUME NEW d \in Conn, serve'[d] \in {"none", "upgraded"}
                     PROVE  closes'[d] = 0
          OBVIOUS
        <4>1. d # c /\ serve[d] \in {"none", "upgraded"}
          BY <3>3 DEF TypeOK
        <4>2. d # old
          BY <4>1, <3>1 DEF RegistryInv, Routable
        <4> QED BY <4>1, <4>2, <3>3 DEF RegistryInv
      <3>7. \A b \in Agent : agents'[b] # None => /\ owner'[agents'[b]] = b
                                                  /\ closes'[agents'[b]] = 0
                                                  /\ serve'[agents'[b]] \in Routable
        <4> SUFFICES ASSUME NEW b \in Agent, agents'[b] # None
                     PROVE  /\ owner'[agents'[b]] = b
                            /\ closes'[agents'[b]] = 0
                            /\ serve'[agents'[b]] \in Routable
          OBVIOUS
        <4>1. CASE b = a
          <5>1. agents'[b] = c
            BY <4>1, <3>1, <3>3 DEF TypeOK
          <5> QED BY <5>1, <4>1, <3>3, <3>4 DEF TypeOK, Routable
        <4>2. CASE b # a
          <5>1. agents'[b] = agents[b] /\ agents[b] \in Conn /\ agents[b] # c
            BY <4>2, <3>1, <3>3 DEF TypeOK
          <5>2. agents[b] # old
            BY <5>1, <4>2, <3>1
          <5> QED BY <5>1, <5>2, <3>3 DEF RegistryInv, TypeOK
        <4> QED BY <4>1, <4>2
      <3>8. \A d \in Conn : serve'[d] # "none" => owner'[d] \in Agent
        BY <3>3 DEF RegistryInv, TypeOK
      <3> QED BY <3>5, <3>6, <3>7, <3>8 DEF RegistryInv
    <2>2. CASE StartPumps(c)
      BY <2>2 DEF StartPumps, RegistryInv, TypeOK, Routable
    <2>3. CASE ReadResponse(c)
      <3>1. /\ UNCHANGED <<agents, owner, closes>>
            /\ serve' = serve \/ serve' = [serve EXCEPT ![c] = "delivering"]
            /\ serve[c] = "reading"
        BY <2>3 DEF ReadResponse
      <3> QED BY <3>1 DEF RegistryInv, TypeOK, Routable
    <2>4. CASE Deliver(c)
      BY <2>4 DEF Deliver, RegistryInv, TypeOK, Routable
    <2>5. CASE ReadFail(c)
      BY <2>5 DEF ReadFail, RegistryInv, TypeOK, Routable
    <2>6. CASE HubUnregister(c)
      <3>1. owner[c] \in Agent
        BY <2>6 DEF HubUnregister, RegistryInv
      <3>2. CASE agents[owner[c]] = c
        <4>1. /\ agents' = [agents EXCEPT ![owner[c]] = None]
              /\ closes' = [closes EXCEPT ![c] = @ + 1]
              /\ serve' = [serve EXCEPT ![c] = "closing"]
              /\ owner' = owner
          BY <2>6, <3>2 DEF HubUnregister
        <4>2. \A b \in Agent : b # owner[c] => agents[b] # c
          BY DEF RegistryInv
        <4>3. closes[c] = 0
          BY <3>1, <3>2 DEF RegistryInv
        <4> QED BY <3>1, <4>1, <4>2, <4>3 DEF RegistryInv, TypeOK, Routable
      <3>3. CASE agents[owner[c]] # c
        <4>1. /\ UNCHANGED <<agents, closes, owner>>
              /\ serve' = [serve EXCEPT ![c] = "closing"]
          BY <2>6, <3>3 DEF HubUnregister
        <4>2. \A b \in Agent : agents[b] # c
          BY <3>3 DEF RegistryInv
        <4> QED BY <3>1, <4>1, <4>2 DEF RegistryInv, TypeOK, Routable
      <3> QED BY <3>2, <3>3
    <2>7. CASE ReadPumpExit(c)
      BY <2>7 DEF ReadPumpExit, RegistryInv, TypeOK, Routable
    <2>8. CASE WriteRequest(c) \/ WriteFail(c) \/ WritePumpExit(c)
      <3>1. Same
        BY <2>8 DEF WriteRequest, WriteFail, WritePumpExit
      <3> QED BY <3>1, RegistryUnchanged
    <2> QED BY <1>2, <2>1, <2>2, <2>3, <2>4, <2>5, <2>6, <2>7, <2>8 DEF BackendStep
  <1>3. ASSUME NEW r \in Req, CallStep(r) PROVE RegistryInv'
    <2>1. Same
      BY <1>3 DEF CallStep, Lookup, AddPending, Enqueue, BufferFull, SendPanics, Receive,
                  Timeout, Return
    <2> QED BY <2>1, RegistryUnchanged
  <1>4. ASSUME NEW a \in Agent, AgentStep(a) PROVE RegistryInv'
    <2>1. Same
      BY <1>4 DEF AgentStep, AgentRead, AgentDisconnect, AgentRestart
    <2> QED BY <2>1, RegistryUnchanged
  <1>5. ASSUME NEW r \in Req, HandlerStep(r) PROVE RegistryInv'
    <2>1. Same
      BY <1>5 DEF HandlerStep, AgentExecute, AgentAnswer
    <2> QED BY <2>1, RegistryUnchanged
  <1>6. CASE UNCHANGED vars
    BY <1>6, RegistryUnchanged DEF vars
  <1> QED BY <1>1, <1>2, <1>3, <1>4, <1>5, <1>6 DEF Next

\* The map of the hub and the states of the connections agree at all times.
THEOREM RegistryCorrect == Spec => []RegistryInv
  <1>1. Init => RegistryInv
    BY DEF Init, RegistryInv, Routable
  <1> QED BY <1>1, TypeCorrect, RegistryStep, PTL DEF Spec

\* The connection that requests to an agent are routed to is the agent's own
\* and its Send is open.
THEOREM RoutedConnectionOpen == Spec => []RoutedConnectionIsOpen
  <1>1. RegistryInv => RoutedConnectionIsOpen
    BY DEF RegistryInv, RoutedConnectionIsOpen
  <1> QED BY <1>1, RegistryCorrect, PTL

\* Hub.Run never closes the Send of a connection a second time.
THEOREM NoDoubleClose == Spec => []SendClosedOnce
  <1>1. RegistryInv => SendClosedOnce
    BY DEF RegistryInv, SendClosedOnce
  <1> QED BY <1>1, RegistryCorrect, PTL

\* Only the unregistration of the agent's present connection takes the agent
\* offline; that of a connection that was replaced never does.
THEOREM StaleUnregisterHarmless == Spec => NoStaleUnregister
  <1> DEFINE Harmless == \A a \in Agent : agents[a] # None /\ agents'[a] = None
                                            => serve[agents[a]] = "unregister"
  <1>1. TypeOK /\ [Next]_vars => [Harmless]_vars
    <2> SUFFICES ASSUME TypeOK, Next PROVE Harmless
      OBVIOUS
    <2> USE DEF hubVars
    <2>1. ASSUME NEW a \in Agent, NEW c \in Conn, Connect(a, c) PROVE Harmless
      BY <2>1 DEF Connect
    <2>2. ASSUME NEW c \in Conn, BackendStep(c) PROVE Harmless
      <3>1. CASE HubRegister(c)
        BY <3>1 DEF HubRegister, TypeOK
      <3>2. CASE HubUnregister(c)
        BY <3>2 DEF HubUnregister, TypeOK
      <3>3. CASE UNCHANGED agents
        BY <3>3
      <3> QED BY <2>2, <3>1, <3>2, <3>3
              DEF BackendStep, StartPumps, ReadResponse, Deliver, ReadFail, ReadPumpExit,
                  WriteRequest, WriteFail, WritePumpExit
    <2>3. ASSUME NEW r \in Req, CallStep(r) PROVE Harmless
      BY <2>3 DEF CallStep, Lookup, AddPending, Enqueue, BufferFull, SendPanics, Receive,
                  Timeout, Return
    <2>4. ASSUME NEW a \in Agent, AgentStep(a) PROVE Harmless
      BY <2>4 DEF AgentStep, AgentRead, AgentDisconnect, AgentRestart
    <2>5. ASSUME NEW r \in Req, HandlerStep(r) PROVE Harmless
      BY <2>5 DEF HandlerStep, AgentExecute, AgentAnswer
    <2> QED BY <2>1, <2>2, <2>3, <2>4, <2>5 DEF Next
  <1>2. Spec => [][Harmless]_vars
    BY <1>1, TypeCorrect, PTL DEF Spec
  <1> QED BY <1>2 DEF NoStaleUnregister

-----------------------------------------------------------------------------
(* The calls: where their messages are, and what their outcomes mean.      *)

\* The hub took the message of this call.
Accepted(r) == \/ pc[r] = "waiting"
               \/ pc[r] \in {"returning", "done"} /\ out[r] \notin Unsent

\* The message of this call is still between the hub and the agent, at c.
Unread(r, c) == r \in sendQ[c] \union toAgent[c]

CallInv ==
  \* a call in progress knows its connection and has no outcome
  /\ \A r \in Req : pc[r] \in {"found", "pending", "waiting", "returning"} => conn[r] \in Conn
  /\ \A r \in Req : out[r] = "none" <=> pc[r] \in {"idle", "found", "pending", "waiting"}
  \* only an accepted message travels, to one place at a time
  /\ \A r \in Req, c \in Conn : Unread(r, c) => Accepted(r) /\ exec[r] = "none"
  /\ \A r \in Req, c \in Conn : Unread(r, c) => conn[r] = c
  /\ \A c \in Conn : sendQ[c] \intersect toAgent[c] = {}
  /\ \A r \in Req : exec[r] # "none" => Accepted(r)
  \* the agent acts when its goroutine runs, not before
  /\ \A r \in Req : exec[r] \in {"none", "running"} => effect[r] = "none"

\* CallInv depends on the calls and on the connections' pending maps alone.
LEMMA CallUnchanged ==
  CallInv /\ UNCHANGED <<pc, conn, out, sendQ, toAgent, exec, effect>> => CallInv'
  BY DEF CallInv, Unread, Accepted

\* Every step keeps CallInv: each step of SendRequest, and no other step
\* touches a pending map.
LEMMA CallInvStep == TypeOK /\ CallInv /\ [Next]_vars => CallInv'
  <1> SUFFICES ASSUME TypeOK, CallInv, [Next]_vars PROVE CallInv'
    OBVIOUS
  <1> USE DEF hubVars, connVars, callVars, agentVars
  <1> DEFINE Same == UNCHANGED <<pc, conn, out, sendQ, toAgent, exec, effect>>
  <1>1. ASSUME NEW a \in Agent, NEW c \in Conn, Connect(a, c) PROVE CallInv'
    <2>1. Same
      BY <1>1 DEF Connect
    <2> QED BY <2>1, CallUnchanged
  <1>2. ASSUME NEW c \in Conn, BackendStep(c) PROVE CallInv'
    <2>1. CASE WriteRequest(c)
      <3>1. PICK r \in sendQ[c] : /\ sendQ' = [sendQ EXCEPT ![c] = @ \ {r}]
                                  /\ toAgent' = [toAgent EXCEPT ![c] = @ \union {r}]
        BY <2>1 DEF WriteRequest
      <3>2. \A q \in Req, d \in Conn : Unread(q, d)' => Unread(q, d)
        BY <3>1 DEF Unread, TypeOK
      <3>3. \A d \in Conn : (sendQ[d] \intersect toAgent[d])' = {}
        BY <3>1 DEF CallInv, TypeOK
      <3>4. UNCHANGED <<pc, conn, out, exec, effect>>
        BY <2>1 DEF WriteRequest
      <3> QED BY <3>2, <3>3, <3>4 DEF CallInv, Accepted
    <2>2. CASE WriteFail(c)
      <3>1. UNCHANGED <<pc, conn, out, toAgent, exec, effect>>
        BY <2>2 DEF WriteFail
      <3>2. \A d \in Conn : sendQ'[d] \subseteq sendQ[d]
        BY <2>2 DEF WriteFail, TypeOK
      <3>3. \A q \in Req, d \in Conn : Unread(q, d)' => Unread(q, d)
        BY <3>1, <3>2 DEF Unread
      <3> QED BY <3>1, <3>2, <3>3 DEF CallInv, Accepted
    <2>3. CASE Same
      BY <2>3, CallUnchanged
    <2> QED BY <1>2, <2>1, <2>2, <2>3
            DEF BackendStep, HubRegister, StartPumps, ReadResponse, Deliver, ReadFail,
                HubUnregister, ReadPumpExit, WritePumpExit
  <1>3. ASSUME NEW r \in Req, CallStep(r) PROVE CallInv'
    <2>1. CASE Lookup(r)
      <3>1. /\ UNCHANGED <<sendQ, toAgent, exec, effect>>
            /\ pc[r] = "idle"
        BY <2>1 DEF Lookup
      <3>2. PICK a \in Agent :
              \/ /\ agents[a] = None
                 /\ pc' = [pc EXCEPT ![r] = "done"]
                 /\ out' = [out EXCEPT ![r] = "offline"]
                 /\ conn' = conn
              \/ /\ agents[a] # None
                 /\ pc' = [pc EXCEPT ![r] = "found"]
                 /\ conn' = [conn EXCEPT ![r] = agents[a]]
                 /\ out' = out
        BY <2>1 DEF Lookup
      <3>3. exec[r] = "none" /\ \A c \in Conn : ~Unread(r, c)
        BY <3>1 DEF CallInv, Accepted
      <3>4. agents[a] # None => agents[a] \in Conn
        BY DEF TypeOK
      <3>5. CASE agents[a] = None
        <4>1. /\ pc' = [pc EXCEPT ![r] = "done"]
              /\ out' = [out EXCEPT ![r] = "offline"]
              /\ conn' = conn
          BY <3>2, <3>5
        <4>2. out'[r] = "offline" /\ pc'[r] = "done"
          BY <4>1 DEF TypeOK
        <4>3. \A q \in Req : q # r => pc'[q] = pc[q] /\ out'[q] = out[q]
          BY <4>1 DEF TypeOK
        <4> QED BY <3>1, <3>3, <4>1, <4>2, <4>3 DEF CallInv, Accepted, Unread
      <3>6. CASE agents[a] # None
        <4>1. /\ pc' = [pc EXCEPT ![r] = "found"]
              /\ conn' = [conn EXCEPT ![r] = agents[a]]
              /\ out' = out
          BY <3>2, <3>6
        <4>2. conn'[r] \in Conn /\ \A q \in Req : q # r => conn'[q] = conn[q]
          BY <3>4, <3>6, <4>1 DEF TypeOK
        <4> QED BY <3>1, <3>3, <4>1, <4>2 DEF CallInv, Accepted, Unread, TypeOK
      <3> QED BY <3>5, <3>6
    <2>2. CASE AddPending(r)
      <3>1. /\ pc[r] = "found"
            /\ pc' = [pc EXCEPT ![r] = "pending"]
            /\ UNCHANGED <<conn, out, sendQ, toAgent, exec, effect>>
        BY <2>2 DEF AddPending
      <3> QED BY <3>1 DEF CallInv, Accepted, Unread, TypeOK
    <2>3. CASE Enqueue(r)
      <3>1. /\ pc[r] = "pending"
            /\ sendQ' = [sendQ EXCEPT ![conn[r]] = @ \union {r}]
            /\ pc' = [pc EXCEPT ![r] = "waiting"]
            /\ UNCHANGED <<conn, out, toAgent, exec, effect>>
        BY <2>3 DEF Enqueue
      <3>2. /\ exec[r] = "none"
            /\ \A c \in Conn : ~Unread(r, c)
            /\ conn[r] \in Conn
        BY <3>1 DEF CallInv, Accepted
      <3>3. \A q \in Req, d \in Conn :
              Unread(q, d)' => Unread(q, d) \/ (q = r /\ d = conn[r])
        BY <3>1, <3>2 DEF Unread, TypeOK
      <3>4. \A q \in Req : Accepted(q) => Accepted(q)'
        BY <3>1 DEF Accepted, TypeOK
      <3>5. Accepted(r)'
        BY <3>1 DEF Accepted, TypeOK
      <3>6. \A d \in Conn : (sendQ[d] \intersect toAgent[d])' = {}
        BY <3>1, <3>2 DEF CallInv, Unread, TypeOK
      <3>7. \A q \in Req : out'[q] = "none" <=> pc'[q] \in {"idle", "found", "pending", "waiting"}
        BY <3>1 DEF CallInv, TypeOK
      <3>8. \A q \in Req : pc'[q] \in {"found", "pending", "waiting", "returning"} => conn'[q] \in Conn
        BY <3>1, <3>2 DEF CallInv, TypeOK
      <3> QED BY <3>1, <3>2, <3>3, <3>4, <3>5, <3>6, <3>7, <3>8 DEF CallInv
    <2>4. CASE BufferFull(r) \/ SendPanics(r)
      <3>1. /\ pc[r] = "pending"
            /\ pc' = [pc EXCEPT ![r] = "returning"]
            /\ out' = [out EXCEPT ![r] = "full"] \/ out' = [out EXCEPT ![r] = "panic"]
            /\ UNCHANGED <<conn, sendQ, toAgent, exec, effect>>
        BY <2>4 DEF BufferFull, SendPanics
      <3>2. exec[r] = "none" /\ \A c \in Conn : ~Unread(r, c)
        BY <3>1 DEF CallInv, Accepted
      <3> QED BY <3>1, <3>2 DEF CallInv, Accepted, Unread, TypeOK, Unsent, Refusals
    <2>5. CASE Receive(r) \/ Timeout(r)
      <3>1. /\ pc[r] = "waiting"
            /\ pc' = [pc EXCEPT ![r] = "returning"]
            /\ \E o \in {"timeout"} \union Results : out' = [out EXCEPT ![r] = o]
            /\ UNCHANGED <<conn, sendQ, toAgent, exec, effect>>
        BY <2>5 DEF Receive, Timeout, TypeOK
      <3> QED BY <3>1 DEF CallInv, Accepted, Unread, TypeOK, Unsent, Refusals, Results
    <2>6. CASE Return(r)
      <3>1. /\ pc[r] = "returning"
            /\ pc' = [pc EXCEPT ![r] = "done"]
            /\ UNCHANGED <<conn, out, sendQ, toAgent, exec, effect>>
        BY <2>6 DEF Return
      <3> QED BY <3>1 DEF CallInv, Accepted, Unread, TypeOK
    <2> QED BY <1>3, <2>1, <2>2, <2>3, <2>4, <2>5, <2>6 DEF CallStep
  <1>4. ASSUME NEW a \in Agent, AgentStep(a) PROVE CallInv'
    <2>1. CASE AgentRead(a)
      <3>1. /\ UNCHANGED <<pc, conn, out, sendQ, effect>>
            /\ cur[a] \in Conn
        BY <2>1 DEF AgentRead, TypeOK
      <3>2. PICK r \in toAgent[cur[a]] :
              /\ toAgent' = [toAgent EXCEPT ![cur[a]] = @ \ {r}]
              /\ exec' = [exec EXCEPT ![r] = "running"]
        BY <2>1 DEF AgentRead
      <3>3. /\ r \in Req
            /\ Unread(r, cur[a])
        BY <3>1 DEF TypeOK, Unread
      <3>4. \A d \in Conn : ~Unread(r, d)'
        BY <3>1, <3>2, <3>3 DEF CallInv, Unread, TypeOK
      <3>5. \A q \in Req, d \in Conn : Unread(q, d)' => Unread(q, d)
        BY <3>1, <3>2 DEF Unread, TypeOK
      <3>6. \A d \in Conn : (sendQ[d] \intersect toAgent[d])' = {}
        BY <3>1, <3>2 DEF CallInv, TypeOK
      <3> QED BY <3>1, <3>2, <3>3, <3>4, <3>5, <3>6 DEF CallInv, Accepted, TypeOK
    <2>2. CASE AgentDisconnect(a)
      <3>1. Same
        BY <2>2 DEF AgentDisconnect
      <3> QED BY <3>1, CallUnchanged
    <2>3. CASE AgentRestart(a)
      <3>1. /\ UNCHANGED <<pc, conn, out, sendQ, toAgent, effect>>
            /\ \A r \in Req : \/ exec'[r] = exec[r]
                              \/ exec[r] # "none" /\ exec'[r] = "done"
        BY <2>3 DEF AgentRestart
      <3> QED BY <3>1 DEF CallInv, Accepted, Unread
    <2> QED BY <1>4, <2>1, <2>2, <2>3 DEF AgentStep
  <1>5. ASSUME NEW r \in Req, HandlerStep(r) PROVE CallInv'
    <2>1. /\ UNCHANGED <<pc, conn, out, sendQ, toAgent>>
          /\ \A q \in Req : q # r => exec'[q] = exec[q] /\ effect'[q] = effect[q]
          /\ exec[r] # "none" /\ exec'[r] \in {"answering", "done"}
      BY <1>5 DEF HandlerStep, AgentExecute, AgentAnswer, TypeOK
    <2> QED BY <2>1 DEF CallInv, Accepted, Unread
  <1>6. CASE UNCHANGED vars
    BY <1>6, CallUnchanged DEF vars
  <1> QED BY <1>1, <1>2, <1>3, <1>4, <1>5, <1>6 DEF Next

\* A call is in a pending map exactly while it waits or returns.
THEOREM CallsCorrect == Spec => []CallInv
  <1>1. Init => CallInv
    BY DEF Init, CallInv, Unread, Accepted
  <1> QED BY <1>1, TypeCorrect, CallInvStep, PTL DEF Spec

\* An id is in pending exactly while its call is between registering it and
\* returning, and only in the map of the connection the call looked up.
THEOREM PendingCorrect == Spec => []PendingMatchesCalls
  <1> USE DEF hubVars, connVars, callVars, agentVars
  <1>1. Init => PendingMatchesCalls
    BY DEF Init, PendingMatchesCalls
  <1>2. TypeOK /\ CallInv /\ PendingMatchesCalls /\ [Next]_vars => PendingMatchesCalls'
    <2> SUFFICES ASSUME TypeOK, CallInv, PendingMatchesCalls, [Next]_vars
                 PROVE  PendingMatchesCalls'
      OBVIOUS
    <2> DEFINE Same == UNCHANGED <<pending, pc, conn>>
    <2>1. Same => PendingMatchesCalls'
      BY DEF PendingMatchesCalls
    <2>2. ASSUME NEW r \in Req, CallStep(r) PROVE PendingMatchesCalls'
      <3>1. CASE Lookup(r)
        <4>1. /\ pc[r] = "idle"
              /\ pc'[r] \in {"found", "done"}
              /\ \A q \in Req : q # r => pc'[q] = pc[q] /\ conn'[q] = conn[q]
              /\ pending' = pending
          BY <3>1 DEF Lookup, TypeOK
        <4> QED BY <4>1 DEF PendingMatchesCalls
      <3>2. CASE AddPending(r)
        <4>1. /\ pc[r] = "found" /\ conn[r] \in Conn
              /\ pending' = [pending EXCEPT ![conn[r]] = @ \union {r}]
              /\ pc' = [pc EXCEPT ![r] = "pending"]
              /\ conn' = conn
          BY <3>2 DEF AddPending, CallInv
        <4> QED BY <4>1 DEF PendingMatchesCalls, TypeOK
      <3>3. CASE Enqueue(r) \/ BufferFull(r) \/ SendPanics(r) \/ Receive(r) \/ Timeout(r)
        <4>1. /\ pc[r] \in {"pending", "waiting"}
              /\ pc'[r] \in {"waiting", "returning"}
              /\ \A q \in Req : q # r => pc'[q] = pc[q]
              /\ UNCHANGED <<pending, conn>>
          BY <3>3 DEF Enqueue, BufferFull, SendPanics, Receive, Timeout, TypeOK
        <4> QED BY <4>1 DEF PendingMatchesCalls
      <3>4. CASE Return(r)
        <4>1. /\ pc[r] = "returning" /\ conn[r] \in Conn
              /\ pending' = [pending EXCEPT ![conn[r]] = @ \ {r}]
              /\ pc' = [pc EXCEPT ![r] = "done"]
              /\ conn' = conn
          BY <3>4 DEF Return, CallInv
        <4> QED BY <4>1 DEF PendingMatchesCalls, TypeOK
      <3> QED BY <2>2, <3>1, <3>2, <3>3, <3>4 DEF CallStep
    <2>3. ASSUME NEW a \in Agent, NEW c \in Conn, Connect(a, c) PROVE Same
      BY <2>3 DEF Connect
    <2>4. ASSUME NEW c \in Conn, BackendStep(c) PROVE Same
      BY <2>4 DEF BackendStep, HubRegister, StartPumps, ReadResponse, Deliver, ReadFail,
                  HubUnregister, ReadPumpExit, WriteRequest, WriteFail, WritePumpExit
    <2>5. ASSUME NEW a \in Agent, AgentStep(a) PROVE Same
      BY <2>5 DEF AgentStep, AgentRead, AgentDisconnect, AgentRestart
    <2>6. ASSUME NEW r \in Req, HandlerStep(r) PROVE Same
      BY <2>6 DEF HandlerStep, AgentExecute, AgentAnswer
    <2>7. CASE UNCHANGED vars
      BY <2>7, <2>1 DEF vars
    <2> QED BY <2>1, <2>2, <2>3, <2>4, <2>5, <2>6, <2>7 DEF Next
  <1> QED BY <1>1, <1>2, TypeCorrect, CallsCorrect, PTL DEF Spec

-----------------------------------------------------------------------------
(* The responses: each exists once, and says what the agent did.           *)

OnWire(r, c)  == \E m \in toHub[c] : m.req = r
InHand(r, c)  == serve[c] = "delivering" /\ hand[c].req = r

ResponseInv ==
  \* a response comes from a goroutine that is done, and carries its result
  /\ \A c \in Conn : \A m \in toHub[c] : exec[m.req] = "done" /\ effect[m.req] = m.res
  /\ \A c \in Conn : serve[c] = "delivering"
                       => exec[hand[c].req] = "done" /\ effect[hand[c].req] = hand[c].res
  /\ \A r \in Req : respCh[r] # "empty" => exec[r] = "done" /\ effect[r] = respCh[r]
  /\ \A r \in Req : out[r] \in Results => exec[r] = "done" /\ effect[r] = out[r]
  \* it is in one place: on a wire, in the hand of a ReadPump or in its channel
  /\ \A r \in Req, c, d \in Conn : OnWire(r, c) /\ OnWire(r, d) => c = d
  /\ \A r \in Req, c, d \in Conn : InHand(r, c) => ~OnWire(r, d)
  /\ \A r \in Req, c, d \in Conn : InHand(r, c) /\ InHand(r, d) => c = d
  /\ \A r \in Req, c \in Conn : respCh[r] # "empty" => ~OnWire(r, c) /\ ~InHand(r, c)

\* ResponseInv depends on the responses under way alone.
LEMMA ResponseUnchanged ==
  ResponseInv /\ UNCHANGED <<toHub, serve, hand, respCh, out, exec, effect>> => ResponseInv'
  BY DEF ResponseInv, OnWire, InHand

\* A step that only moves a pump that holds no response keeps the invariant.
LEMMA ResponseServe ==
  ASSUME TypeOK, ResponseInv, UNCHANGED <<toHub, hand, respCh, out, exec, effect>>,
         \A c \in Conn : serve'[c] = "delivering" => serve[c] = "delivering"
  PROVE  ResponseInv'
  BY DEF ResponseInv, OnWire, InHand

\* As long as the agent's goroutine has not answered there is no response.
LEMMA NoResponseYet ==
  ASSUME TypeOK, ResponseInv, NEW r \in Req, exec[r] # "done"
  PROVE  /\ \A c \in Conn : ~OnWire(r, c) /\ ~InHand(r, c)
         /\ respCh[r] = "empty"
         /\ out[r] \notin Results
  BY DEF ResponseInv, OnWire, InHand

\* Every step keeps ResponseInv: there is one response per request, and it is
\* in one place.
LEMMA ResponseInvStep == TypeOK /\ CallInv /\ ResponseInv /\ [Next]_vars => ResponseInv'
  <1> SUFFICES ASSUME TypeOK, CallInv, ResponseInv, [Next]_vars PROVE ResponseInv'
    OBVIOUS
  <1> USE DEF hubVars, connVars, callVars, agentVars
  <1> DEFINE Same == UNCHANGED <<toHub, serve, hand, respCh, out, exec, effect>>
  <1>1. ASSUME NEW a \in Agent, NEW c \in Conn, Connect(a, c) PROVE ResponseInv'
    <2>1. /\ UNCHANGED <<toHub, hand, respCh, out, exec, effect>>
          /\ serve' = [serve EXCEPT ![c] = "upgraded"]
      BY <1>1 DEF Connect
    <2> QED BY <2>1, ResponseServe DEF TypeOK
  <1>2. ASSUME NEW c \in Conn, BackendStep(c) PROVE ResponseInv'
    <2>1. CASE \/ HubRegister(c) \/ StartPumps(c) \/ ReadFail(c) \/ HubUnregister(c)
               \/ ReadPumpExit(c)
      <3>1. /\ UNCHANGED <<toHub, hand, respCh, out, exec, effect>>
            /\ \E s \in {"registered", "reading", "unregister", "closing", "done"} :
                 serve' = [serve EXCEPT ![c] = s]
        BY <2>1 DEF HubRegister, StartPumps, ReadFail, HubUnregister, ReadPumpExit
      <3> QED BY <3>1, ResponseServe DEF TypeOK
    <2>2. CASE ReadResponse(c)
      <3>1. PICK m \in toHub[c] :
              /\ toHub' = [toHub EXCEPT ![c] = @ \ {m}]
              /\ \/ /\ serve' = [serve EXCEPT ![c] = "delivering"]
                    /\ hand' = [hand EXCEPT ![c] = m]
                 \/ UNCHANGED <<serve, hand>>
        BY <2>2 DEF ReadResponse
      <3>2. /\ UNCHANGED <<respCh, out, exec, effect>>
            /\ serve[c] = "reading"
        BY <2>2 DEF ReadResponse
      <3>3. /\ m \in Response /\ m.req \in Req
            /\ \A r \in Req, d \in Conn : OnWire(r, d)' => OnWire(r, d)
            /\ \A d \in Conn : toHub'[d] \subseteq toHub[d]
        BY <3>1 DEF TypeOK, OnWire, Response
      <3>4. CASE UNCHANGED <<serve, hand>>
        BY <3>2, <3>3, <3>4 DEF ResponseInv, InHand
      <3>5. CASE /\ serve' = [serve EXCEPT ![c] = "delivering"]
                 /\ hand' = [hand EXCEPT ![c] = m]
        <4>1. \A d \in Conn : ~OnWire(m.req, d)'
          <5> SUFFICES ASSUME NEW d \in Conn, OnWire(m.req, d)' PROVE FALSE
            OBVIOUS
          <5>1. PICK n \in toHub'[d] : n.req = m.req
            BY DEF OnWire
          <5>2. n \in toHub[d] /\ n \in Response
            BY <3>3, <5>1 DEF TypeOK
          <5>3. d = c
            BY <3>3, <5>1, <5>2 DEF ResponseInv, OnWire
          <5>4. n.res = m.res
            BY <5>1, <5>2, <5>3 DEF ResponseInv
          <5>5. n = m
            BY <3>3, <5>1, <5>2, <5>4 DEF Response
          <5> QED BY <3>1, <5>1, <5>3, <5>5 DEF TypeOK
        <4>2. \A r \in Req, d \in Conn : InHand(r, d)' => InHand(r, d) \/ (r = m.req /\ d = c)
          BY <3>5, <3>3 DEF InHand, TypeOK
        <4>3. \A d \in Conn : serve'[d] = "delivering"
                                => exec[hand'[d].req] = "done" /\ effect[hand'[d].req] = hand'[d].res
          BY <3>5 DEF ResponseInv, TypeOK
        <4>4. OnWire(m.req, c)
          BY DEF OnWire
        <4>5. respCh[m.req] = "empty" /\ \A d \in Conn : ~InHand(m.req, d)
          BY <3>3, <4>4 DEF ResponseInv
        <4> QED BY <3>2, <3>3, <4>1, <4>2, <4>3, <4>5 DEF ResponseInv
      <3> QED BY <3>1, <3>4, <3>5
    <2>3. CASE Deliver(c)
      <3> DEFINE m == hand[c]
      <3>1. /\ serve[c] = "delivering" /\ m \in Response
            /\ respCh' = [respCh EXCEPT ![m.req] = m.res]
            /\ serve' = [serve EXCEPT ![c] = "reading"]
            /\ hand' = [hand EXCEPT ![c] = None]
            /\ UNCHANGED <<toHub, out, exec, effect>>
        BY <2>3 DEF Deliver, TypeOK
      <3>2. m.req \in Req /\ m.res \in Results /\ InHand(m.req, c)
        BY <3>1 DEF Response, InHand
      <3>3. \A r \in Req, d \in Conn : OnWire(r, d)' <=> OnWire(r, d)
        BY <3>1 DEF OnWire
      <3>4. \A r \in Req, d \in Conn : InHand(r, d)' => InHand(r, d) /\ d # c
        BY <3>1 DEF InHand, TypeOK
      <3>5. \A d \in Conn : serve'[d] = "delivering" => serve[d] = "delivering" /\ hand'[d] = hand[d]
        BY <3>1 DEF TypeOK
      <3>6. \A r \in Req : \/ respCh'[r] = respCh[r] /\ r # m.req
                           \/ r = m.req /\ respCh'[r] = m.res
        BY <3>1, <3>2 DEF TypeOK
      <3>7. exec[m.req] = "done" /\ effect[m.req] = m.res
        BY <3>1 DEF ResponseInv
      <3> HIDE DEF m
      <3>8. \A r \in Req : respCh'[r] # "empty" => exec[r] = "done" /\ effect[r] = respCh'[r]
        BY <3>6, <3>7 DEF ResponseInv
      <3>9. \A r \in Req, d \in Conn : respCh'[r] # "empty" => ~OnWire(r, d)' /\ ~InHand(r, d)'
        BY <3>2, <3>3, <3>4, <3>6 DEF ResponseInv
      <3> QED BY <3>1, <3>3, <3>4, <3>5, <3>8, <3>9 DEF ResponseInv
    <2>4. CASE WriteRequest(c) \/ WriteFail(c) \/ WritePumpExit(c)
      <3>1. Same
        BY <2>4 DEF WriteRequest, WriteFail, WritePumpExit
      <3> QED BY <3>1, ResponseUnchanged
    <2> QED BY <1>2, <2>1, <2>2, <2>3, <2>4 DEF BackendStep
  <1>3. ASSUME NEW r \in Req, CallStep(r) PROVE ResponseInv'
    <2>1. CASE Receive(r)
      <3>1. /\ respCh[r] \in Results
            /\ respCh' = [respCh EXCEPT ![r] = "empty"]
            /\ out' = [out EXCEPT ![r] = respCh[r]]
            /\ UNCHANGED <<toHub, serve, hand, exec, effect>>
        BY <2>1 DEF Receive, TypeOK
      <3>2. \A q \in Req : respCh'[q] # "empty" => respCh'[q] = respCh[q]
        BY <3>1 DEF TypeOK
      <3>3. \A q \in Req : \/ out'[q] = out[q]
                           \/ respCh[q] # "empty" /\ out'[q] = respCh[q]
        BY <3>1 DEF TypeOK, Results
      <3> QED BY <3>1, <3>2, <3>3 DEF ResponseInv, OnWire, InHand
    <2>2. CASE Lookup(r) \/ BufferFull(r) \/ SendPanics(r) \/ Timeout(r)
      <3>1. /\ \A q \in Req : out'[q] = out[q] \/ out'[q] \notin Results
            /\ UNCHANGED <<toHub, serve, hand, respCh, exec, effect>>
        BY <2>2 DEF Lookup, BufferFull, SendPanics, Timeout, TypeOK, Results
      <3> QED BY <3>1 DEF ResponseInv, OnWire, InHand
    <2>3. CASE AddPending(r) \/ Enqueue(r) \/ Return(r)
      <3>1. Same
        BY <2>3 DEF AddPending, Enqueue, Return
      <3> QED BY <3>1, ResponseUnchanged
    <2> QED BY <1>3, <2>1, <2>2, <2>3 DEF CallStep
  <1>4. ASSUME NEW a \in Agent, AgentStep(a) PROVE ResponseInv'
    <2>1. CASE AgentRead(a)
      <3>1. /\ cur[a] \in Conn
            /\ UNCHANGED <<toHub, serve, hand, respCh, out, effect>>
        BY <2>1 DEF AgentRead, TypeOK
      <3>2. PICK r \in toAgent[cur[a]] : exec' = [exec EXCEPT ![r] = "running"]
        BY <2>1 DEF AgentRead
      <3>3. r \in Req /\ exec[r] = "none"
        BY <3>1 DEF TypeOK, CallInv, Unread
      <3>4. \A q \in Req : exec[q] = "done" => exec'[q] = "done"
        BY <3>2, <3>3 DEF TypeOK
      <3>5. \A c \in Conn : /\ \A m \in toHub[c] : m.req \in Req
                            /\ serve[c] = "delivering" => hand[c].req \in Req
        BY DEF TypeOK, Response
      <3> QED BY <3>1, <3>4, <3>5 DEF ResponseInv, OnWire, InHand
    <2>2. CASE AgentDisconnect(a)
      <3>1. Same
        BY <2>2 DEF AgentDisconnect
      <3> QED BY <3>1, ResponseUnchanged
    <2>3. CASE AgentRestart(a)
      <3>1. /\ UNCHANGED <<toHub, serve, hand, respCh, out, effect>>
            /\ \A q \in Req : exec[q] = "done" => exec'[q] = "done"
        BY <2>3 DEF AgentRestart
      <3>2. \A c \in Conn : /\ \A m \in toHub[c] : m.req \in Req
                            /\ serve[c] = "delivering" => hand[c].req \in Req
        BY DEF TypeOK, Response
      <3> QED BY <3>1, <3>2 DEF ResponseInv, OnWire, InHand
    <2> QED BY <1>4, <2>1, <2>2, <2>3 DEF AgentStep
  <1>5. ASSUME NEW r \in Req, HandlerStep(r) PROVE ResponseInv'
    <2>1. exec[r] # "done" /\ UNCHANGED <<serve, hand, respCh, out>>
      BY <1>5 DEF HandlerStep, AgentExecute, AgentAnswer
    <2>2. /\ \A c \in Conn : ~OnWire(r, c) /\ ~InHand(r, c)
          /\ respCh[r] = "empty"
          /\ out[r] \notin Results
      BY <2>1, NoResponseYet
    <2>3. \A c \in Conn : /\ \A m \in toHub[c] : m.req \in Req
                          /\ serve[c] = "delivering" => hand[c].req \in Req
      BY DEF TypeOK, Response
    <2>4. CASE AgentExecute(r)
      <3>1. /\ toHub' = toHub
            /\ \A q \in Req : q # r => exec'[q] = exec[q] /\ effect'[q] = effect[q]
        BY <2>4 DEF AgentExecute, TypeOK
      <3> QED BY <2>1, <2>2, <2>3, <3>1 DEF ResponseInv, OnWire, InHand
    <2>5. CASE AgentAnswer(r)
      <3> DEFINE c == cur[owner[conn[r]]]
                 m == [req |-> r, res |-> effect[r]]
      <3>1. /\ exec' = [exec EXCEPT ![r] = "done"]
            /\ effect' = effect
            /\ toHub' = [d \in Conn |-> IF d = c THEN toHub[d] \union {m} ELSE toHub[d]]
        BY <2>5 DEF AgentAnswer
      <3>2. m.req = r /\ m.res = effect[r]
        OBVIOUS
      <3> HIDE DEF c, m
      <3>3. /\ exec'[r] = "done"
            /\ \A q \in Req : q # r => exec'[q] = exec[q]
        BY <3>1 DEF TypeOK
      <3>4. \A d \in Conn : \A n \in toHub'[d] : n \in toHub[d] \/ (n = m /\ d = c)
        BY <3>1
      <3>5. \A q \in Req, d \in Conn : OnWire(q, d)' => OnWire(q, d) \/ (q = r /\ d = c)
        BY <3>2, <3>4 DEF OnWire
      <3>6. \A q \in Req, d \in Conn : InHand(q, d)' <=> InHand(q, d)
        BY <2>1 DEF InHand
      <3>7. \A d \in Conn : \A n \in toHub'[d] : exec'[n.req] = "done" /\ effect'[n.req] = n.res
        BY <2>3, <3>1, <3>2, <3>3, <3>4 DEF ResponseInv
      <3>8. \A d \in Conn : serve'[d] = "delivering"
              => exec'[hand'[d].req] = "done" /\ effect'[hand'[d].req] = hand'[d].res
        BY <2>1, <2>3, <3>1, <3>3 DEF ResponseInv
      <3> QED BY <2>1, <2>2, <3>1, <3>3, <3>5, <3>6, <3>7, <3>8 DEF ResponseInv
    <2> QED BY <1>5, <2>4, <2>5 DEF HandlerStep
  <1>6. CASE UNCHANGED vars
    BY <1>6, ResponseUnchanged DEF vars
  <1> QED BY <1>1, <1>2, <1>3, <1>4, <1>5, <1>6 DEF Next

\* A response is under way at most once, for a request that was executed.
THEOREM ResponsesCorrect == Spec => []ResponseInv
  <1>1. Init => ResponseInv
    BY DEF Init, ResponseInv, OnWire, InHand, Results
  <1> QED BY <1>1, TypeCorrect, CallsCorrect, ResponseInvStep, PTL DEF Spec

\* A ReadPump that holds a response finds the caller's channel empty: it
\* never blocks on a caller, late or gone.
THEOREM ReadPumpFree == Spec => []ReadPumpNeverBlocks
  <1>1. TypeOK /\ ResponseInv => ReadPumpNeverBlocks
    BY DEF TypeOK, Response, ResponseInv, InHand, ReadPumpNeverBlocks
  <1> QED BY <1>1, TypeCorrect, ResponsesCorrect, PTL

-----------------------------------------------------------------------------
(* The hub implements AgentRPC.                                            *)

\* Every step maps to a step of AgentRPC or to a stutter.
LEMMA RPCStep ==
  TypeOK /\ CallInv /\ ResponseInv /\ [Next]_vars => [RPC!Next]_(RPC!vars)
  <1> SUFFICES ASSUME TypeOK, CallInv, ResponseInv, [Next]_vars
               PROVE  RPC!Next \/ UNCHANGED <<callState, effect>>
    BY DEF RPC!vars
  <1> USE DEF hubVars, connVars, callVars, agentVars
  <1> DEFINE Same == UNCHANGED <<pc, out, effect>>
  <1>1. Same => UNCHANGED <<callState, effect>>
    BY DEF callState
  <1>2. ASSUME NEW a \in Agent, NEW c \in Conn, Connect(a, c) PROVE Same
    BY <1>2 DEF Connect
  <1>3. ASSUME NEW c \in Conn, BackendStep(c) PROVE Same
    BY <1>3 DEF BackendStep, HubRegister, StartPumps, ReadResponse, Deliver, ReadFail,
                HubUnregister, ReadPumpExit, WriteRequest, WriteFail, WritePumpExit
  <1>4. ASSUME NEW a \in Agent, AgentStep(a) PROVE Same
    BY <1>4 DEF AgentStep, AgentRead, AgentDisconnect, AgentRestart
  <1>5. ASSUME NEW r \in Req, CallStep(r)
        PROVE  RPC!Next \/ UNCHANGED <<callState, effect>>
    <2> DEFINE Becomes(s) == callState' = [callState EXCEPT ![r] = s]
    <2>0. ASSUME NEW p, NEW o,
                 pc' = [pc EXCEPT ![r] = p], out' = [out EXCEPT ![r] = o]
          PROVE  Becomes(Known(p, o))
      <3> HIDE DEF Known
      <3>1. \A q \in Req : Known(pc'[q], out'[q]) = IF q = r THEN Known(p, o)
                                                          ELSE Known(pc[q], out[q])
        BY <2>0 DEF TypeOK
      <3> QED BY <3>1 DEF callState
    <2>1. out = [out EXCEPT ![r] = out[r]]
      BY DEF TypeOK
    <2>2. CASE Lookup(r)
      <3>1. pc[r] = "idle" /\ effect' = effect /\ callState[r] = "idle"
        BY <2>2 DEF Lookup, callState, Known
      <3>2. CASE pc' = [pc EXCEPT ![r] = "done"] /\ out' = [out EXCEPT ![r] = "offline"]
        <4>1. Becomes("refused")
          BY <3>2, <2>0 DEF Refusals, Known
        <4> QED BY <3>1, <4>1 DEF RPC!Next, RPC!Refuse
      <3>3. CASE pc' = [pc EXCEPT ![r] = "found"] /\ out' = out
        <4>1. Becomes("calling")
          BY <3>3, <2>0, <2>1 DEF Known
        <4> QED BY <3>1, <4>1 DEF RPC!Next, RPC!Invoke
      <3> QED BY <2>2, <3>2, <3>3 DEF Lookup
    <2>3. CASE AddPending(r)
      <3>1. pc[r] = "found" /\ effect' = effect /\ pc' = [pc EXCEPT ![r] = "pending"] /\ out' = out
        BY <2>3 DEF AddPending
      <3>2. Becomes("calling") /\ callState[r] = "calling"
        BY <3>1, <2>0, <2>1 DEF callState, Known
      <3>3. callState' = callState
        BY <3>2 DEF callState
      <3> QED BY <3>1, <3>3
    <2>4. CASE Enqueue(r)
      <3>1. pc[r] = "pending" /\ effect' = effect /\ pc' = [pc EXCEPT ![r] = "waiting"] /\ out' = out
        BY <2>4 DEF Enqueue
      <3>2. Becomes("sent") /\ callState[r] = "calling"
        BY <3>1, <2>0, <2>1 DEF callState, Known
      <3> QED BY <3>1, <3>2 DEF RPC!Next, RPC!Send
    <2>5. CASE BufferFull(r) \/ SendPanics(r)
      <3>1. pc[r] = "pending" /\ effect' = effect /\ callState[r] = "calling"
        BY <2>5 DEF BufferFull, SendPanics, callState, Known
      <3>2. CASE BufferFull(r)
        <4>1. Becomes("refused")
          BY <3>2, <2>0 DEF BufferFull, Known, Refusals
        <4> QED BY <3>1, <4>1 DEF RPC!Next, RPC!Refuse
      <3>3. CASE SendPanics(r)
        <4>1. Becomes("panicked")
          BY <3>3, <2>0 DEF SendPanics, Known, Refusals
        <4> QED BY <3>1, <4>1 DEF RPC!Next, RPC!Panic
      <3> QED BY <2>5, <3>2, <3>3
    <2>6. CASE Receive(r)
      <3>1. /\ pc[r] = "waiting" /\ effect' = effect
            /\ pc' = [pc EXCEPT ![r] = "returning"]
            /\ out' = [out EXCEPT ![r] = respCh[r]]
            /\ respCh[r] \in Results /\ effect[r] = respCh[r]
        BY <2>6 DEF Receive, TypeOK, ResponseInv
      <3>2. Becomes(effect[r]) /\ callState[r] = "sent"
        BY <3>1, <2>0 DEF callState, Known, Refusals, Results
      <3> QED BY <3>1, <3>2 DEF RPC!Next, RPC!Answer, RPC!Results, Results
    <2>7. CASE Timeout(r)
      <3>1. /\ pc[r] = "waiting" /\ effect' = effect
            /\ pc' = [pc EXCEPT ![r] = "returning"]
            /\ out' = [out EXCEPT ![r] = "timeout"]
        BY <2>7 DEF Timeout
      <3>2. Becomes("unknown") /\ callState[r] = "sent"
        BY <3>1, <2>0 DEF callState, Known, Refusals
      <3> QED BY <3>1, <3>2 DEF RPC!Next, RPC!GiveUp
    <2>8. CASE Return(r)
      <3>1. pc[r] = "returning" /\ effect' = effect /\ pc' = [pc EXCEPT ![r] = "done"] /\ out' = out
        BY <2>8 DEF Return
      <3>2. callState' = callState
        BY <3>1 DEF callState, Known, TypeOK
      <3> QED BY <3>1, <3>2
    <2> QED BY <1>5, <2>2, <2>3, <2>4, <2>5, <2>6, <2>7, <2>8 DEF CallStep
  <1>6. ASSUME NEW r \in Req, HandlerStep(r)
        PROVE  RPC!Next \/ UNCHANGED <<callState, effect>>
    <2>1. CASE AgentExecute(r)
      <3>1. /\ exec[r] = "running" /\ UNCHANGED <<pc, out>>
            /\ \E res \in Results : effect' = [effect EXCEPT ![r] = res]
        BY <2>1 DEF AgentExecute
      <3>2. effect[r] = "none" /\ Accepted(r) /\ out[r] \notin Results
        BY <3>1, NoResponseYet DEF CallInv
      <3>3. callState[r] \in {"sent", "unknown"}
        BY <3>2 DEF callState, Known, Accepted, CallInv, TypeOK, Unsent
      <3>4. callState' = callState
        BY <3>1 DEF callState
      <3> QED BY <3>1, <3>2, <3>3, <3>4 DEF RPC!Next, RPC!Execute, RPC!Results, Results
    <2>2. CASE AgentAnswer(r)
      BY <2>2, <1>1 DEF AgentAnswer
    <2> QED BY <1>6, <2>1, <2>2 DEF HandlerStep
  <1>7. CASE UNCHANGED vars
    BY <1>7, <1>1 DEF vars
  <1> QED BY <1>1, <1>2, <1>3, <1>4, <1>5, <1>6, <1>7 DEF Next

\* SendRequest is an at-most-once call: the hub, its connections and the
\* agents, in all their interleavings, implement AgentRPC.
THEOREM HubImplementsRPC == Spec => KeepsRPCContract
  <1>1. Init => RPC!Init
    BY DEF Init, RPC!Init, callState, Known
  <1>2. Spec => RPC!Spec
    BY <1>1, RPCStep, TypeCorrect, CallsCorrect, ResponsesCorrect, PTL DEF Spec, RPC!Spec
  <1> QED BY <1>2 DEF KeepsRPCContract

-----------------------------------------------------------------------------
(* Liveness of calls.  Fairness only helps an action that can be taken:    *)
(* that the ones needed here can be is NobodyBlocks, which TLC checks.     *)

\* Where a call is, as an atom of the temporal steps.
CallAt(r, p) == pc[r] = p

\* A call that found a connection moves to the next point of SendRequest.
CallForward(r) ==
  \/ CallAt(r, "found") /\ CallAt(r, "pending")'
  \/ CallAt(r, "pending") /\ (CallAt(r, "waiting")' \/ CallAt(r, "returning")')
  \/ CallAt(r, "waiting") /\ CallAt(r, "returning")'
  \/ CallAt(r, "returning") /\ CallAt(r, "done")'

\* Each step of a call moves it forward.
LEMMA CallGoesForward ==
  ASSUME NEW r \in Req, TypeOK, CallGoesOn(r)
  PROVE  CallForward(r)
  BY DEF TypeOK, CallForward, CallAt, CallGoesOn, AddPending, Enqueue, BufferFull, SendPanics,
         Receive, Timeout, Return

\* Once it found a connection, a call stays where it is or moves forward.
LEMMA CallMoves ==
  ASSUME NEW r \in Req, TypeOK, [Next]_vars, pc[r] # "idle"
  PROVE  UNCHANGED pc[r] \/ CallForward(r)
  <1>1. UNCHANGED pc \/ \E q \in Req : CallStep(q)
    BY DEF Next, vars, callVars, Connect, BackendStep, HubRegister, StartPumps, ReadResponse,
           Deliver, ReadFail, HubUnregister, ReadPumpExit, WriteRequest, WriteFail,
           WritePumpExit, AgentStep, AgentRead, AgentDisconnect, AgentRestart, HandlerStep,
           AgentExecute, AgentAnswer
  <1>2. ASSUME NEW q \in Req, CallStep(q)
        PROVE  UNCHANGED pc[r] \/ CallForward(r)
    <2>1. CASE q = r
      BY <1>2, <2>1, CallGoesForward DEF CallStep, CallGoesOn, Lookup
    <2>2. CASE q # r
      <3>1. \E p \in {"found", "pending", "waiting", "returning", "done"} :
              pc' = [pc EXCEPT ![q] = p]
        BY <1>2, SMT DEF CallStep, Lookup, AddPending, Enqueue, BufferFull, SendPanics, Receive,
                    Timeout, Return
      <3> QED BY <2>2, <3>1 DEF TypeOK
    <2> QED BY <2>1, <2>2
  <1> QED BY <1>1, <1>2

\* Every call of SendRequest that found a connection returns, in at most four steps of
\* its own: the select takes one of its branches, the wait ends with the timer if with
\* nothing else, and the deferred delete comes last (hub.go SendRequest).
THEOREM CallsReturnIfFair == FairSpec /\ []NobodyBlocks => CallsReturn
  <1> SUFFICES ASSUME NEW r \in Req
               PROVE  FairSpec /\ []NobodyBlocks => (CallAt(r, "found") ~> CallAt(r, "done"))
    BY DEF CallsReturn, CallAt
  <1>1. TypeOK /\ CallAt(r, "found") /\ [Next]_vars => CallAt(r, "found")' \/ CallAt(r, "pending")'
    BY CallMoves DEF CallForward, CallAt
  <1>2. TypeOK /\ CallAt(r, "found") /\ <<CallGoesOn(r)>>_vars => CallAt(r, "pending")'
    BY CallGoesForward DEF CallForward, CallAt
  <1>3. TypeOK /\ CallAt(r, "pending") /\ [Next]_vars
          => CallAt(r, "pending")' \/ CallAt(r, "waiting")' \/ CallAt(r, "returning")'
    BY CallMoves DEF CallForward, CallAt
  <1>4. TypeOK /\ CallAt(r, "pending") /\ <<CallGoesOn(r)>>_vars
          => CallAt(r, "waiting")' \/ CallAt(r, "returning")'
    BY CallGoesForward DEF CallForward, CallAt
  <1>5. TypeOK /\ CallAt(r, "waiting") /\ [Next]_vars => CallAt(r, "waiting")' \/ CallAt(r, "returning")'
    BY CallMoves DEF CallForward, CallAt
  <1>6. TypeOK /\ CallAt(r, "waiting") /\ <<CallGoesOn(r)>>_vars => CallAt(r, "returning")'
    BY CallGoesForward DEF CallForward, CallAt
  <1>7. TypeOK /\ CallAt(r, "returning") /\ [Next]_vars => CallAt(r, "returning")' \/ CallAt(r, "done")'
    BY CallMoves DEF CallForward, CallAt
  <1>8. TypeOK /\ CallAt(r, "returning") /\ <<CallGoesOn(r)>>_vars => CallAt(r, "done")'
    BY CallGoesForward DEF CallForward, CallAt
  <1>9. NobodyBlocks /\ (CallAt(r, "found") \/ CallAt(r, "pending") \/ CallAt(r, "waiting")
                           \/ CallAt(r, "returning")) => CallCanGoOn(r)
    BY DEF NobodyBlocks, CallAt
  <1>10. FairSpec => Spec /\ CallFairness(r)
    BY DEF FairSpec, Fairness
  <1> QED
    BY <1>1, <1>2, <1>3, <1>4, <1>5, <1>6, <1>7, <1>8, <1>9, <1>10, TypeCorrect, PTL
       DEF Spec, CallFairness, CallCanGoOn

-----------------------------------------------------------------------------
(* Liveness of connections.                                                *)

\* What an agent believes in is its own; a connection the hub should route to
\* but does not, and one that is done with, are closed at the backend.
ConnInv ==
  /\ \A a \in Agent : cur[a] # None => owner[cur[a]] = a /\ serve[cur[a]] # "none"
  /\ \A c \in Conn : serve[c] \in Routable /\ agents[owner[c]] # c => ~up[c]
  /\ \A c \in Conn : serve[c] = "done" => ~up[c]

\* Every step keeps it.
LEMMA ConnInvStep == TypeOK /\ RegistryInv /\ ConnInv /\ [Next]_vars => ConnInv'
  <1> SUFFICES ASSUME TypeOK, RegistryInv, ConnInv, [Next]_vars PROVE ConnInv'
    OBVIOUS
  <1> USE DEF TypeOK, RegistryInv, ConnInv, Routable, hubVars, connVars, agentVars, callVars
  <1>1. ASSUME NEW a \in Agent, NEW c \in Conn, Connect(a, c) PROVE ConnInv'
    BY <1>1 DEF Connect
  <1>2. ASSUME NEW c \in Conn, BackendStep(c) PROVE ConnInv'
    <2>1. CASE HubRegister(c)
      BY <2>1 DEF HubRegister
    <2>2. CASE StartPumps(c)
      BY <2>2 DEF StartPumps
    <2>3. CASE ReadResponse(c)
      BY <2>3 DEF ReadResponse
    <2>4. CASE Deliver(c)
      BY <2>4 DEF Deliver
    <2>5. CASE ReadFail(c)
      BY <2>5 DEF ReadFail
    <2>6. CASE HubUnregister(c)
      BY <2>6 DEF HubUnregister
    <2>7. CASE ReadPumpExit(c)
      BY <2>7 DEF ReadPumpExit
    <2>8. CASE WriteRequest(c)
      BY <2>8 DEF WriteRequest
    <2>9. CASE WriteFail(c) \/ WritePumpExit(c)
      <3>1. /\ up' = [up EXCEPT ![c] = FALSE]
            /\ UNCHANGED <<agents, owner, serve, cur>>
        BY <2>9 DEF WriteFail, WritePumpExit
      <3> QED BY <3>1
    <2> QED BY <1>2, <2>1, <2>2, <2>3, <2>4, <2>5, <2>6, <2>7, <2>8, <2>9 DEF BackendStep
  <1>3. ASSUME NEW r \in Req, CallStep(r) \/ HandlerStep(r) PROVE ConnInv'
    <2>1. UNCHANGED <<agents, owner, serve, up, cur>>
      BY <1>3 DEF CallStep, Lookup, AddPending, Enqueue, BufferFull, SendPanics, Receive, Timeout,
                  Return, HandlerStep, AgentExecute, AgentAnswer
    <2> QED BY <2>1
  <1>4. ASSUME NEW a \in Agent, AgentStep(a) PROVE ConnInv'
    <2>1. UNCHANGED <<agents, owner, serve, up>> /\ (cur' = cur \/ cur' = [cur EXCEPT ![a] = None])
      BY <1>4 DEF AgentStep, AgentRead, AgentDisconnect, AgentRestart
    <2> QED BY <2>1
  <1>5. CASE UNCHANGED vars
    BY <1>5 DEF vars
  <1> QED BY <1>1, <1>2, <1>3, <1>4, <1>5 DEF Next

\* Registration and every way a connection can end keep what the hub, the two ends of
\* the connection and the agent believe of it in step (hub.go Run and ReadPump).
THEOREM ConnectionsCorrect == Spec => []ConnInv
  <1>1. Init => ConnInv
    BY DEF Init, ConnInv, Routable
  <1> QED BY <1>1, ConnInvStep, TypeCorrect, RegistryCorrect, PTL DEF Spec

\* An agent that believes in a connection the hub does not route to, and why it
\* does not: the hub has not heard of it yet, is done with it, or closed it.
Zombie(a, c)  == cur[a] = c /\ agents[a] # c
Settled(a, c) == cur[a] # c \/ agents[a] = c
Unheard(c)    == serve[c] = "upgraded"
Dismissed(c)  == serve[c] = "closing"
Closed(c)     == serve[c] # "none" /\ ~up[c]

\* A closed connection stays closed.
LEMMA ClosedForGood ==
  ASSUME NEW c \in Conn, TypeOK, [Next]_vars, Closed(c)
  PROVE  Closed(c)'
  <1> USE DEF TypeOK, Closed, hubVars, connVars, agentVars, callVars
  <1>1. ASSUME NEW a \in Agent, NEW d \in Conn, Connect(a, d) PROVE Closed(c)'
    BY <1>1 DEF Connect
  <1>2. ASSUME NEW d \in Conn, BackendStep(d) PROVE Closed(c)'
    <2>1. CASE HubRegister(d)
      BY <2>1 DEF HubRegister
    <2>2. CASE ReadResponse(d) \/ WriteRequest(d) \/ WriteFail(d) \/ WritePumpExit(d)
      <3>1. /\ serve' = serve \/ serve' = [serve EXCEPT ![d] = "delivering"]
            /\ up' = up \/ up' = [up EXCEPT ![d] = FALSE]
        BY <2>2 DEF ReadResponse, WriteRequest, WriteFail, WritePumpExit
      <3> QED BY <3>1
    <2>3. CASE StartPumps(d) \/ Deliver(d) \/ ReadFail(d) \/ HubUnregister(d) \/ ReadPumpExit(d)
      <3>1. /\ \E s \in {"reading", "unregister", "closing", "done"} : serve' = [serve EXCEPT ![d] = s]
            /\ up' = up \/ up' = [up EXCEPT ![d] = FALSE]
        BY <2>3 DEF StartPumps, Deliver, ReadFail, HubUnregister, ReadPumpExit
      <3> QED BY <3>1
    <2> QED BY <1>2, <2>1, <2>2, <2>3 DEF BackendStep
  <1>3. CASE UNCHANGED <<serve, up>>
    BY <1>3
  <1>4. ASSUME NEW r \in Req, CallStep(r) \/ HandlerStep(r) PROVE UNCHANGED <<serve, up>>
    BY <1>4 DEF CallStep, Lookup, AddPending, Enqueue, BufferFull, SendPanics, Receive, Timeout,
                Return, HandlerStep, AgentExecute, AgentAnswer
  <1>5. ASSUME NEW a \in Agent, AgentStep(a) PROVE UNCHANGED <<serve, up>>
    BY <1>5 DEF AgentStep, AgentRead, AgentDisconnect, AgentRestart
  <1> QED BY <1>1, <1>2, <1>3, <1>4, <1>5 DEF Next, vars

\* A connection the hub has not heard of, or is done with, goes on by one step.
LEMMA ServeMoves ==
  ASSUME NEW c \in Conn, TypeOK, [Next]_vars, serve[c] \in {"upgraded", "closing"}
  PROVE  UNCHANGED serve[c] \/ HubRegister(c) \/ ReadPumpExit(c)
  <1>1. ASSUME NEW d \in Conn, BackendStep(d), d # c PROVE UNCHANGED serve[c]
    BY <1>1 DEF TypeOK, connVars, BackendStep, HubRegister, StartPumps, ReadResponse, Deliver, ReadFail,
                HubUnregister, ReadPumpExit, WriteRequest, WriteFail, WritePumpExit
  <1>2. ASSUME BackendStep(c) PROVE UNCHANGED serve[c] \/ HubRegister(c) \/ ReadPumpExit(c)
    BY <1>2 DEF TypeOK, connVars, BackendStep, StartPumps, ReadResponse, Deliver, ReadFail,
                HubUnregister, WriteRequest, WriteFail, WritePumpExit
  <1>3. ASSUME NEW a \in Agent, NEW d \in Conn, Connect(a, d) PROVE UNCHANGED serve[c]
    BY <1>3 DEF TypeOK, Connect
  <1>4. ASSUME NEW r \in Req, CallStep(r) \/ HandlerStep(r) PROVE UNCHANGED serve[c]
    BY <1>4 DEF connVars, CallStep, Lookup, AddPending, Enqueue, BufferFull, SendPanics, Receive, Timeout,
                Return, HandlerStep, AgentExecute, AgentAnswer
  <1>5. ASSUME NEW a \in Agent, AgentStep(a) PROVE UNCHANGED serve[c]
    BY <1>5 DEF connVars, AgentStep, AgentRead, AgentDisconnect, AgentRestart
  <1>6. CASE UNCHANGED vars
    BY <1>6 DEF vars
  <1> QED BY <1>1, <1>2, <1>3, <1>4, <1>5, <1>6 DEF Next

\* No agent goes on for ever believing in a connection the hub does not route to: such a
\* connection is about to be registered, or its ReadPump's deferred function or the Hub
\* that replaced it closes the socket, which the agent's read notices (hub.go, ws_client.go).
THEOREM NoZombieIfFair == FairSpec /\ []NobodyBlocks => NoZombieConnection
  <1> SUFFICES ASSUME NEW a \in Agent, NEW c \in Conn
               PROVE  FairSpec /\ []NobodyBlocks
                        => (Zombie(a, c) ~> Settled(a, c))
    BY DEF NoZombieConnection, Zombie, Settled
  <1> DEFINE Inv == TypeOK /\ RegistryInv /\ ConnInv
  <1>1. Inv /\ Zombie(a, c) => Unheard(c) \/ Dismissed(c) \/ Closed(c)
    BY NoneAssumption DEF Zombie, Settled, TypeOK, ConnInv, Unheard, Dismissed, Closed, Routable
  <1>2. Inv /\ Zombie(a, c) /\ HubRegister(c) => Settled(a, c)'
    BY NoneAssumption DEF Zombie, Settled, HubRegister, ConnInv, TypeOK
  <1>3. Inv /\ Zombie(a, c) /\ Unheard(c) /\ [Next]_vars => Unheard(c)' \/ Settled(a, c)'
    BY <1>2, ServeMoves DEF Unheard, ReadPumpExit
  <1>4. Inv /\ Dismissed(c) /\ [Next]_vars => Dismissed(c)' \/ Closed(c)'
    <2> SUFFICES ASSUME Inv, Dismissed(c), [Next]_vars PROVE Dismissed(c)' \/ Closed(c)'
      OBVIOUS
    <2>1. serve'[c] = "closing" \/ HubRegister(c) \/ ReadPumpExit(c)
      BY ServeMoves DEF Dismissed
    <2>2. ~HubRegister(c)
      BY DEF Dismissed, HubRegister
    <2>3. ReadPumpExit(c) => Closed(c)'
      BY DEF Closed, ReadPumpExit, TypeOK
    <2> QED BY <2>1, <2>2, <2>3 DEF Dismissed
  <1>5. Inv /\ <<ReadPumpExit(c)>>_vars => Closed(c)'
    BY DEF Closed, ReadPumpExit, TypeOK
  <1>6. Inv /\ Closed(c) /\ [Next]_vars => Closed(c)'
    BY ClosedForGood
  <1>7. Inv /\ <<AgentNotices(a)>>_vars => Settled(a, c)'
    BY NoneAssumption DEF AgentNotices, AgentDisconnect, Settled, TypeOK
  <1>8. NobodyBlocks => /\ Unheard(c) => CanRegister(c)
                        /\ Dismissed(c) => CanExit(c)
                        /\ Zombie(a, c) /\ Closed(c) => AgentCanNotice(a)
    BY NoneAssumption DEF NobodyBlocks, Unheard, Dismissed, Closed, Zombie
  <1>9. FairSpec => Spec /\ ConnFairness(c) /\ AgentFairness(a)
    BY DEF FairSpec, Fairness
  <1>10. Zombie(a, c) \/ Settled(a, c)
    BY DEF Zombie, Settled
  <1> QED
    BY <1>1, <1>2, <1>3, <1>4, <1>5, <1>6, <1>7, <1>8, <1>9, <1>10,
       TypeCorrect, RegistryCorrect, ConnectionsCorrect, PTL
       DEF Spec, ConnFairness, AgentFairness, CanRegister, CanExit, AgentCanNotice
=============================================================================
