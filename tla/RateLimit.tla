------------------------------ MODULE RateLimit ------------------------------
(***************************************************************************)
(* The sliding window over the authentication routes, per client address:  *)
(*   backend/internal/middleware/ratelimit.go                              *)
(* A request reads its clock and sends four commands on a sorted set in    *)
(* Redis, whose members are the clock readings, in one pipeline, which is  *)
(* no transaction: commands of other requests come in between, and so may  *)
(* the end of the key's life.  Requests run at once, so their commands     *)
(* need not run in the order of their readings.  (The backend and Redis    *)
(* have one clock here.  When Redis fails the request passes, uncounted.)  *)
(***************************************************************************)
EXTENDS Naturals, FiniteSets

CONSTANTS Requester,     \* requests of one client that run at once
          MaxRequests,   \* requests allowed in a window
          Window,        \* its length
          MaxDelay,      \* how long a request takes at most to get to Redis and back
          MaxClock       \* where the clock stops

ASSUME RateAssumption ==
  /\ MaxRequests \in Nat \ {0} /\ Window \in Nat /\ MaxDelay \in Nat /\ MaxClock \in Nat \ {0}
  /\ MaxDelay < Window /\ IsFiniteSet(Requester)

VARIABLES
  clock,      \* milliseconds
  reading,    \* the clock reading of a request under way, and 0 of none
  pipe,       \* the command of its pipeline that Redis runs next, or "idle"
  members,    \* the sorted set: member and score are the reading
  expiry,     \* when the key expires; 0 without a key, or of one that does not
  slipped,    \* history: readings whose key expired between their ZADD and EXPIRE
  admitted    \* history: the readings of the requests let through

rateVars == <<clock, reading, pipe, members, expiry, slipped, admitted>>

RateTypeOK ==
  /\ clock \in 1 .. MaxClock
  /\ reading \in [Requester -> 0 .. clock]
  /\ pipe \in [Requester -> {"idle", "trim", "add", "count", "expire"}]
  /\ \A r \in Requester : reading[r] = 0 <=> pipe[r] = "idle"
  /\ members \subseteq 1 .. clock /\ slipped \subseteq 1 .. clock /\ admitted \subseteq 1 .. clock
  /\ expiry \in Nat /\ (expiry # 0 => members # {})

RateInit ==
  /\ clock = 1
  /\ reading = [r \in Requester |-> 0] /\ pipe = [r \in Requester |-> "idle"]
  /\ members = {} /\ expiry = 0
  /\ slipped = {} /\ admitted = {}

\* No request is under way for longer than MaxDelay.
Tick ==
  /\ clock < MaxClock
  /\ \A r \in Requester : reading[r] # 0 => clock < reading[r] + MaxDelay
  /\ clock' = clock + 1
  /\ UNCHANGED <<reading, pipe, members, expiry, slipped, admitted>>

ReadClock(r) ==
  /\ pipe[r] = "idle"
  /\ reading' = [reading EXCEPT ![r] = clock]
  /\ pipe' = [pipe EXCEPT ![r] = "trim"]
  /\ UNCHANGED <<clock, members, expiry, slipped, admitted>>

-----------------------------------------------------------------------------
(* The pipeline, one command at a time.                                    *)

\* Between ZADD and EXPIRE a reading lives as long as the key did before it came.
Unprotected == {r \in Requester : pipe[r] \in {"count", "expire"}}

\* The key's time is over, for every command that comes after.
Expired == expiry # 0 /\ clock >= expiry

KeyExpires ==
  /\ Expired
  /\ members' = {} /\ expiry' = 0
  /\ slipped' = slipped \union {reading[r] : r \in Unprotected}
  /\ UNCHANGED <<clock, reading, pipe, admitted>>

Command(r, command, next) ==
  /\ pipe[r] = command /\ ~Expired
  /\ pipe' = [pipe EXCEPT ![r] = next]
  /\ UNCHANGED <<clock, slipped>>

\* The entries outside the window of the reading go, bounds included; Redis deletes a
\* set it has emptied.
ZRemRangeByScore(r) ==
  /\ Command(r, "trim", "add")
  /\ members' = {s \in members : s + Window > reading[r]}
  /\ expiry' = IF members' = {} THEN 0 ELSE expiry
  /\ UNCHANGED <<reading, admitted>>

\* The key keeps the time it has to live, and a new one has none set.
ZAdd(r) ==
  /\ Command(r, "add", "count")
  /\ members' = members \union {reading[r]}
  /\ UNCHANGED <<reading, expiry, admitted>>

\* Fault: the request's own entry is not counted.
CountOthers(r) == Cardinality(members \ {reading[r]})

Count(r) == Cardinality(members)

\* The request passes, once the pipeline is through, when the count is within the
\* limit, and its entry stays when not.
ZCard(r) ==
  /\ Command(r, "count", "expire")
  /\ admitted' = IF Count(r) <= MaxRequests THEN admitted \union {reading[r]} ELSE admitted
  /\ UNCHANGED <<reading, members, expiry>>

Expire(r) ==
  /\ Command(r, "expire", "idle")
  /\ expiry' = IF members = {} THEN 0 ELSE clock + Window
  /\ reading' = [reading EXCEPT ![r] = 0]
  /\ UNCHANGED <<members, admitted>>

Pipeline(r) == ZRemRangeByScore(r) \/ ZAdd(r) \/ ZCard(r) \/ Expire(r)

RateNext == Tick \/ KeyExpires \/ \E r \in Requester : ReadClock(r) \/ Pipeline(r)

RateSpec == RateInit /\ [][RateNext]_rateVars

-----------------------------------------------------------------------------
\* In any stretch of the window's length, less the time a request may be under way,
\* requests pass in at most MaxRequests different milliseconds, in whatever order
\* their commands get to Redis; and, because the pipeline is no transaction, in as
\* many more as requests run at once when the key expires under them, between their
\* ZADD and their EXPIRE.  (Requests of one millisecond are one member of the set,
\* and pass together.)
WindowHolds ==
  \A from \in 1 .. MaxClock :
    LET stretch == {s \in admitted : from <= s /\ s < from + Window - MaxDelay}
    IN /\ Cardinality(stretch \ slipped) <= MaxRequests
       /\ Cardinality(stretch \intersect slipped) <= Cardinality(Requester)
=============================================================================
