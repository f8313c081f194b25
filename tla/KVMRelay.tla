------------------------------ MODULE KVMRelay ------------------------------
(***************************************************************************)
(* One KVM session from its start to its end: the requests that start,     *)
(* join and stop it, the container at the agent, and the pairing of the    *)
(* agent's connection with the browser's.                                  *)
(*   backend/internal/service/kvm_service.go and handler/kvm_handler.go    *)
(*   agent/internal/executor/kvm.go                                        *)
(* The agent calls back while kvm.start is still being answered, a browser *)
(* may come before it, and the session may go at any time: stopped,        *)
(* expired, or because kvm.start was not answered.  The temporary user of  *)
(* the session is module KVMUsers'.  A panic of SendRequest, hub.go:161,   *)
(* is left out.                                                            *)
(***************************************************************************)
EXTENDS Naturals, FiniteSets, FiniteSetsExt

CONSTANTS Browser      \* the browser windows that open the session

Relay   == 1 .. 3      \* relay slots made one after another: by two requests and the agent
Stopper == {"user", "expiry"} \union Browser

ASSUME BrowserAssumption == "user" \notin Browser /\ "expiry" \notin Browser

VARIABLES
  session,    \* in the backend's map: "none", "in", "out"
  starter,    \* StartKVM: "idle", "asked" (kvm.start), "back", "done", "failed"
  joiner,     \* StartKVM of another request, which finds the session: "idle", "back", "done"
  stop,       \* StopSession and what follows: "idle", "asked" (kvm.stop), "clean", "done"
  entry,      \* h.relays: the relay slot of the session, 0 for none
  relay,      \* relay slots: [agent (has connected), done]
  handler,    \* HandleAgentRelay: "none", "valid", "in", "out"
  held,       \* its relay slot
  wire,       \* the connection from the agent: "none", "open", "closed"
  container,  \* "none", "booting", "registered" (in e.sessions), "removed"
  vnc,        \* relayVNC: "none", "dial", "run", "end"
  answer,     \* of kvm.start: "none", "ok", "error"
  stopMsg,    \* kvm.stop on its way: "none", "sent", "lost", "over"
  browser,    \* HandleBrowserWS: "none", "valid", "wait", "relay", "ended", "gone"
  seat        \* its relay slot

relayVars == <<session, starter, joiner, stop, entry, relay, handler, held, wire,
               container, vnc, answer, stopMsg, browser, seat>>
backend == <<session, starter, joiner, stop>>
slots   == <<entry, relay>>
agent   == <<container, vnc, answer, stopMsg>>
ends    == <<handler, held, wire>>
windows == <<browser, seat>>

RelayTypeOK ==
  /\ entry \in {0} \union Relay /\ held \in {0} \union Relay
  /\ relay \in [Relay -> [agent : BOOLEAN, done : BOOLEAN]]
  /\ entry # 0 => ~relay[entry].done
  /\ container = "none" => vnc = "none"
  /\ handler = "out" => wire = "closed"
  /\ \A b \in Browser : browser[b] \in {"wait", "relay", "ended"} => seat[b] # 0
  /\ \A b \in Browser : browser[b] = "relay" => relay[seat[b]].agent

RelayInit ==
  /\ session = "none" /\ starter = "idle" /\ joiner = "idle"
  /\ stop = [w \in Stopper |-> "idle"]
  /\ entry = 0 /\ relay = [i \in Relay |-> [agent |-> FALSE, done |-> FALSE]]
  /\ handler = "none" /\ held = 0 /\ wire = "none"
  /\ container = "none" /\ vnc = "none" /\ answer = "none" /\ stopMsg = "none"
  /\ browser = [b \in Browser |-> "none"] /\ seat = [b \in Browser |-> 0]

-----------------------------------------------------------------------------
(* Starting.                                                               *)

\* StartSession: the session is in the map before the agent is asked.
StartSession ==
  /\ starter = "idle"
  /\ session' = "in" /\ starter' = "asked"
  /\ UNCHANGED <<joiner, stop, slots, agent, ends, windows>>

\* The agent has started the container.
StartAnswered ==
  /\ starter = "asked" /\ answer = "ok"
  /\ starter' = "back"
  /\ UNCHANGED <<session, joiner, stop, slots, agent, ends, windows>>

\* The answer is an error, lost or late: the session goes, and the agent is not told.
StartUnanswered ==
  /\ starter = "asked"
  /\ starter' = "failed" /\ session' = "out"
  /\ UNCHANGED <<joiner, stop, slots, agent, ends, windows>>

\* Another request for the server gets the session there is, started or not.
JoinSession ==
  /\ joiner = "idle" /\ session = "in"
  /\ joiner' = "back"
  /\ UNCHANGED <<session, starter, stop, slots, agent, ends, windows>>

\* The relay slot of the session, a new one when there is none.
MakeEntry == entry' = IF entry # 0 THEN entry ELSE CHOOSE i \in Relay :
                           /\ ~relay[i].agent /\ ~relay[i].done
                           /\ i # held /\ \A b \in Browser : i # seat[b]

\* StartKVM returns the session, prepares the slot, and answers its client.
PrepareSlot ==
  /\ \/ starter = "back" /\ starter' = "done" /\ UNCHANGED joiner
     \/ joiner = "back" /\ joiner' = "done" /\ UNCHANGED starter
  /\ MakeEntry
  /\ UNCHANGED <<session, stop, relay, agent, ends, windows>>

-----------------------------------------------------------------------------
(* Stopping.                                                               *)

\* StopSession: out of the map, and kvm.stop to the agent, which may not get there.
\* Nothing is left to do when the session is not in the map, but for the browser's end.
SessionStopped(w) ==
  /\ stop[w] = "idle"
  /\ CASE w = "user"   -> session # "none"
       [] w = "expiry" -> session = "in"
       [] OTHER        -> browser[w] = "ended"
  /\ IF session = "in"
     THEN /\ stop' = [stop EXCEPT ![w] = "asked"]
          /\ session' = "out"
          /\ stopMsg' \in {"sent", "lost"}
     ELSE /\ stop' = [stop EXCEPT ![w] = IF w = "user" THEN "done" ELSE "clean"]
          /\ UNCHANGED <<session, stopMsg>>
  /\ UNCHANGED <<starter, joiner, slots, container, vnc, answer, ends, windows>>

\* The answer to kvm.stop, or 10 s.  The expiry is through with it.
StopAnswered(w) ==
  /\ stop[w] = "asked"
  /\ stop' = [stop EXCEPT ![w] = IF w = "expiry" THEN "done" ELSE "clean"]
  /\ UNCHANGED <<session, starter, joiner, slots, agent, ends, windows>>

\* Fault: the slot stays in the map.
CleanupRelayKeeps(w) ==
  /\ stop[w] = "clean"
  /\ stop' = [stop EXCEPT ![w] = "done"]
  /\ relay' = IF entry = 0 THEN relay ELSE [relay EXCEPT ![entry].done = TRUE]
  /\ wire' = IF entry # 0 /\ relay[entry].agent THEN "closed" ELSE wire
  /\ browser' = IF w \in Browser THEN [browser EXCEPT ![w] = "gone"] ELSE browser
  /\ UNCHANGED <<session, starter, joiner, entry, agent, handler, held, seat>>

\* Fault: the agent's handler is not told.
CleanupRelaySilent(w) ==
  /\ stop[w] = "clean"
  /\ stop' = [stop EXCEPT ![w] = "done"]
  /\ entry' = 0
  /\ browser' = IF w \in Browser THEN [browser EXCEPT ![w] = "gone"] ELSE browser
  /\ UNCHANGED <<session, starter, joiner, relay, agent, ends, seat>>

\* cleanupRelay: the slot goes, its agent's handler is told, its connection closed.
CleanupRelay(w) ==
  /\ stop[w] = "clean"
  /\ stop' = [stop EXCEPT ![w] = "done"]
  /\ entry' = 0
  /\ relay' = IF entry = 0 THEN relay ELSE [relay EXCEPT ![entry].done = TRUE]
  /\ wire' = IF entry # 0 /\ relay[entry].agent THEN "closed" ELSE wire
  /\ browser' = IF w \in Browser THEN [browser EXCEPT ![w] = "gone"] ELSE browser
  /\ UNCHANGED <<session, starter, joiner, agent, handler, held, seat>>

-----------------------------------------------------------------------------
(* The agent.                                                              *)

\* HandleKVMStart: docker run, the VNC port and its readiness can fail, and the
\* container is removed then.
DockerRun ==
  /\ starter \in {"asked", "failed"} /\ container = "none" /\ answer = "none"
  /\ \/ container' = "booting" /\ UNCHANGED answer
     \/ answer' = "error" /\ UNCHANGED container
  /\ UNCHANGED <<backend, slots, vnc, stopMsg, ends, windows>>

\* The session is registered, the relay started, the answer sent.
VNCReady ==
  /\ container = "booting"
  /\ \/ container' = "registered" /\ vnc' = "dial" /\ answer' = "ok"
     \/ container' = "removed" /\ UNCHANGED vnc /\ answer' = "error"
  /\ UNCHANGED <<backend, slots, stopMsg, ends, windows>>

\* HandleKVMStop: nothing happens before the session is registered.
HandleKVMStop ==
  /\ stopMsg = "sent"
  /\ stopMsg' = "over"
  /\ container' = IF container = "registered" THEN "removed" ELSE container
  /\ UNCHANGED <<backend, slots, vnc, answer, ends, windows>>

\* Fault: the backend accepts an agent whose session is over.
DialUnchecked ==
  /\ vnc = "dial"
  /\ vnc' = "run" /\ wire' = "open" /\ handler' = "valid"
  /\ UNCHANGED <<backend, slots, container, answer, stopMsg, held, windows>>

\* relayVNC dials the backend, which knows the session or rejects it; or cannot reach it.
Dial ==
  /\ vnc = "dial"
  /\ \/ /\ session = "in"
        /\ vnc' = "run" /\ wire' = "open" /\ handler' = "valid"
        /\ UNCHANGED container
     \/ /\ vnc' = "end" /\ container' = "removed"
        /\ UNCHANGED <<wire, handler>>
  /\ UNCHANGED <<backend, slots, answer, stopMsg, held, windows>>

\* The end of the relay, cancelled, closed, or because VNC ends: stopSession.
RelayEnds ==
  /\ vnc = "run"
  /\ vnc' = "end" /\ container' = "removed" /\ wire' = "closed"
  /\ UNCHANGED <<backend, slots, answer, stopMsg, handler, held, windows>>

\* It ends when the session was cancelled or the backend closed the connection.
RelayMustEnd == RelayEnds /\ (container = "removed" \/ wire = "closed")

-----------------------------------------------------------------------------
(* The agent's and the browsers' ends at the backend.                      *)

\* HandleAgentRelay: the slot, a new one when there is none, and the connection in it.
AgentConnects ==
  /\ handler = "valid"
  /\ handler' = "in"
  /\ MakeEntry
  /\ held' = entry'
  /\ relay' = [relay EXCEPT ![entry'].agent = TRUE]
  /\ UNCHANGED <<backend, agent, wire, windows>>

\* It waits for the end of the slot.  (The request's context does not end with a
\* connection that was upgraded.)
AgentReleased ==
  /\ handler = "in" /\ relay[held].done
  /\ handler' = "out" /\ wire' = "closed"
  /\ UNCHANGED <<backend, slots, agent, held, windows>>

\* HandleBrowserWS: the session is known, ...
BrowserComes(b) ==
  /\ browser[b] = "none" /\ session = "in"
  /\ browser' = [browser EXCEPT ![b] = "valid"]
  /\ UNCHANGED <<backend, slots, agent, ends, seat>>

\* ... the slot is looked up, and without one the browser is sent away, ...
BrowserSits(b) ==
  /\ browser[b] = "valid"
  /\ seat' = [seat EXCEPT ![b] = entry]
  /\ browser' = [browser EXCEPT ![b] = IF entry = 0 THEN "gone" ELSE "wait"]
  /\ UNCHANGED <<backend, slots, agent, ends>>

\* ... the agent waited for, ...  (Two windows then share the agent's connection, and
\* gorilla allows it one reader and one writer at a time: what that does to the data, and
\* the panic it can end in, is left out.)
BrowserRelays(b) ==
  /\ browser[b] = "wait" /\ relay[seat[b]].agent
  /\ browser' = [browser EXCEPT ![b] = "relay"]
  /\ UNCHANGED <<backend, slots, agent, ends, seat>>

\* ... and data passed on, until the browser goes away or the agent's connection does.
BrowserEnds(b) ==
  /\ browser[b] = "relay"
  /\ browser' = [browser EXCEPT ![b] = "ended"]
  /\ UNCHANGED <<backend, slots, agent, ends, seat>>
BrowserMustEnd(b) == BrowserEnds(b) /\ wire = "closed"

RelayNext ==
  \/ StartSession \/ StartAnswered \/ StartUnanswered \/ JoinSession \/ PrepareSlot
  \/ \E w \in Stopper : SessionStopped(w) \/ StopAnswered(w) \/ CleanupRelay(w)
  \/ DockerRun \/ VNCReady \/ HandleKVMStop \/ Dial \/ RelayEnds
  \/ AgentConnects \/ AgentReleased
  \/ \E b \in Browser : BrowserComes(b) \/ BrowserSits(b) \/ BrowserRelays(b) \/ BrowserEnds(b)

StartGoesOn == StartAnswered \/ StartUnanswered

\* What is begun goes on, requests to the agent are answered or given up, sessions
\* expire.  Nobody has to stop a session or close a browser, and a kvm.start may not
\* get to the agent.
RequestFairness == WF_relayVars(StartGoesOn) /\ WF_relayVars(PrepareSlot)
StopFairness(w) == WF_relayVars(StopAnswered(w)) /\ WF_relayVars(CleanupRelay(w))
ExpiryFairness  == WF_relayVars(SessionStopped("expiry"))
BrowserFairness(b) == /\ WF_relayVars(BrowserSits(b)) /\ WF_relayVars(BrowserRelays(b))
                      /\ WF_relayVars(BrowserMustEnd(b)) /\ WF_relayVars(SessionStopped(b))
AgentFairness   == /\ WF_relayVars(VNCReady) /\ WF_relayVars(HandleKVMStop)
                   /\ WF_relayVars(Dial) /\ WF_relayVars(RelayMustEnd)
HandlerFairness == WF_relayVars(AgentConnects) /\ WF_relayVars(AgentReleased)

RelayFairness == /\ RequestFairness /\ ExpiryFairness /\ AgentFairness /\ HandlerFairness
                 /\ \A b \in Browser : BrowserFairness(b)
                 /\ \A w \in Stopper : StopFairness(w)

RelaySpec == RelayInit /\ [][RelayNext]_relayVars /\ RelayFairness

-----------------------------------------------------------------------------
(* Properties.                                                             *)

\* Fairness only helps a step that can be taken.
CanStart         == ENABLED <<StartGoesOn>>_relayVars
CanPrepareSlot   == ENABLED <<PrepareSlot>>_relayVars
CanStop(w)       == ENABLED <<SessionStopped(w)>>_relayVars
CanAnswerStop(w) == ENABLED <<StopAnswered(w)>>_relayVars
CanCleanUp(w)    == ENABLED <<CleanupRelay(w)>>_relayVars
CanBoot          == ENABLED <<VNCReady>>_relayVars
CanHandleStop    == ENABLED <<HandleKVMStop>>_relayVars
CanDial          == ENABLED <<Dial>>_relayVars
CanEndRelay      == ENABLED <<RelayMustEnd>>_relayVars
CanConnect       == ENABLED <<AgentConnects>>_relayVars
CanRelease       == ENABLED <<AgentReleased>>_relayVars

\* Nobody waits for good: not the requests that start and stop the session, its
\* expiry, the end of a browser, the agent's relay or the handler at its other end.
RelayNobodyBlocks ==
  /\ starter = "asked" => CanStart
  /\ "back" \in {starter, joiner} => CanPrepareSlot
  /\ session = "in" => CanStop("expiry")
  /\ \A b \in Browser : browser[b] = "ended" /\ stop[b] = "idle" => CanStop(b)
  /\ \A w \in Stopper : /\ stop[w] = "asked" => CanAnswerStop(w)
                        /\ stop[w] = "clean" => CanCleanUp(w)
  /\ container = "booting" => CanBoot
  /\ stopMsg = "sent" => CanHandleStop
  /\ vnc = "dial" => CanDial
  /\ vnc = "run" /\ (container = "removed" \/ wire = "closed") => CanEndRelay
  /\ handler = "valid" => CanConnect
  /\ handler = "in" /\ relay[held].done => CanRelease

ContainerGone == container \in {"none", "removed"}

\* Two ways leave a container behind that nothing at the agent removes: a kvm.stop that is
\* lost, and a start whose answer is, when the agent has called back by then.
LeftBehind == stopMsg = "lost" \/ (starter = "failed" /\ stopMsg = "none" /\ handler # "none")

\* A session ends: it expires at the latest, and its container goes with it for good,
\* whatever the stop found of it: not yet booted, not yet registered, dialling, or in use.
ContainerEnds == session = "in" ~> [](session = "out" /\ (ContainerGone \/ LeftBehind))

\* When the relaying for a browser ends, the session is over and its container goes,
\* even if the kvm.stop is lost, and so do the relay slot, the agent's connection and
\* the handler that waits there.
AllEnded(b) == /\ session = "out" /\ ContainerGone
               /\ handler = "out" /\ seat[b] # 0 /\ relay[seat[b]].done
BrowserEndEndsAll == \A b \in Browser : browser[b] = "ended" ~> AllEnded(b)
=============================================================================
