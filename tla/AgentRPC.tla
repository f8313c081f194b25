------------------------------ MODULE AgentRPC ------------------------------
(***************************************************************************)
(* What a caller of Hub.SendRequest may rely on, whatever the connection   *)
(* does underneath: an at-most-once remote call with five outcomes.        *)
(*                                                                         *)
(*   "refused"  the hub reports that the request was not handed over (the  *)
(*              agent is not connected, or its send buffer is full): the   *)
(*              agent never acts on it;                                    *)
(*   "panicked" the connection was torn down under the caller, who gets no *)
(*              error but is unwound by a panic: the agent never acts on   *)
(*              it, and nor does what the caller had still to do;          *)
(*   "ok"       the agent acted on it, once, and succeeded;                *)
(*   "error"    the agent acted on it, once, and reported an error;        *)
(*   "unknown"  the request timed out: the agent may have acted on it, may *)
(*              still do so after the caller was told, or may never do it. *)
(*                                                                         *)
(* AgentHub implements this specification.                                 *)
(***************************************************************************)

CONSTANT Req            \* the calls of SendRequest, each with its own message id

VARIABLES state,        \* what the caller of each request knows
          effect        \* what the agent did about each request

vars == <<state, effect>>

Results == {"ok", "error"}

TypeOK == /\ state \in [Req -> {"idle", "calling", "sent", "refused", "panicked", "unknown"}
                              \union Results]
          /\ effect \in [Req -> {"none"} \union Results]

Init == /\ state = [r \in Req |-> "idle"]
        /\ effect = [r \in Req |-> "none"]

Invoke(r) == /\ state[r] = "idle"
             /\ state' = [state EXCEPT ![r] = "calling"]
             /\ UNCHANGED effect

Refuse(r) == /\ state[r] \in {"idle", "calling"}
             /\ state' = [state EXCEPT ![r] = "refused"]
             /\ UNCHANGED effect

Panic(r) == /\ state[r] = "calling"
            /\ state' = [state EXCEPT ![r] = "panicked"]
            /\ UNCHANGED effect

Send(r) == /\ state[r] = "calling"
           /\ state' = [state EXCEPT ![r] = "sent"]
           /\ UNCHANGED effect

\* The agent acts at most once, and only on a request the hub accepted.
Execute(r) == /\ state[r] \in {"sent", "unknown"}
              /\ effect[r] = "none"
              /\ \E res \in Results : effect' = [effect EXCEPT ![r] = res]
              /\ UNCHANGED state

\* The answer the caller gets is the one the agent gave to this very request.
Answer(r) == /\ state[r] = "sent"
             /\ effect[r] \in Results
             /\ state' = [state EXCEPT ![r] = effect[r]]
             /\ UNCHANGED effect

GiveUp(r) == /\ state[r] = "sent"
             /\ state' = [state EXCEPT ![r] = "unknown"]
             /\ UNCHANGED effect

Next == \E r \in Req : \/ Invoke(r) \/ Refuse(r) \/ Panic(r) \/ Send(r)
                       \/ Execute(r) \/ Answer(r) \/ GiveUp(r)

Spec == Init /\ [][Next]_vars
=============================================================================
