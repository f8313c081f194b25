----------------------------- MODULE MCAgentHub -----------------------------
(* Instances of AgentHub for TLC: two connections of one agent. *)
EXTENDS AgentHub, TLC

CONSTANTS a1, c1, c2, r1, r2

OneAgent == {a1}
TwoConns == {c1, c2}
OneCall  == {r1}
TwoCalls == {r1, r2}

Symmetry == Permutations(Conn) \union Permutations(Req)
=============================================================================
