------------------------- MODULE MCInstallLifecycle -------------------------
(***************************************************************************)
(* Instances of InstallLifecycle for TLC: two calls on one server, and the *)
(* reports of the mock agent, cut to what the handlers tell apart.         *)
(***************************************************************************)
EXTENDS InstallLifecycle, TLC

CONSTANTS p1, p2

MCCalls   == {p1, p2}
MCOneCall == {p1}
MCSymmetry == Permutations(MCCalls)

\* The agent never reports.
NoStatus      == <<>>
\* The last status only.
LastStatus    == <<"completed">>
\* A status the backend does not know stands for the one the task has.
UnknownScript == <<"installing", "partitioning", "completed">>
=============================================================================
