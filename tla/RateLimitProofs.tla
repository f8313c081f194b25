--------------------------- MODULE RateLimitProofs ---------------------------
(***************************************************************************)
(* Proofs about RateLimit, for any finite number of requests at once, any  *)
(* limit, window and delay.                                                *)
(***************************************************************************)
EXTENDS RateLimit, FunctionTheorems, FiniteSetTheorems, TLAPS

\* A member outlives its window unless its request has yet to send the EXPIRE; what was let
\* through has left the set only when the window was over by the clock, or slipped away.
RateInv ==
  /\ RateTypeOK
  /\ \A r \in Requester : reading[r] # 0 => clock <= reading[r] + MaxDelay
  /\ expiry # 0 => \A s \in members : s + Window <= expiry \/ \E q \in Unprotected : reading[q] = s
  /\ expiry # 0 => \A s \in slipped : s + Window <= expiry
  /\ \A s \in admitted \ slipped : s \in members \/ s + Window <= clock
  /\ \A q \in Unprotected : reading[q] \in members \union slipped

\* The steps that are not commands keep the invariant.
LEMMA ClockKeepsInv ==
  ASSUME RateInv, Tick \/ \E r \in Requester : ReadClock(r)
  PROVE  RateInv'
<1> USE RateAssumption
<1>1. CASE Tick BY <1>1 DEF Tick, RateInv, RateTypeOK, Unprotected
<1>2. ASSUME NEW r \in Requester, ReadClock(r) PROVE RateInv'
  <2>1. /\ reading' = [reading EXCEPT ![r] = clock] /\ pipe' = [pipe EXCEPT ![r] = "trim"]
        /\ pipe[r] = "idle" /\ UNCHANGED <<clock, members, expiry, slipped, admitted>>
    BY <1>2 DEF ReadClock
  <2>2. RateTypeOK' BY <2>1 DEF RateInv, RateTypeOK
  <2>3. Unprotected' = Unprotected /\ \A q \in Unprotected : reading'[q] = reading[q]
    BY <2>1 DEF Unprotected, RateInv, RateTypeOK
  <2>4. \A q \in Requester : reading'[q] # 0 => clock' <= reading'[q] + MaxDelay
    BY <2>1 DEF RateInv, RateTypeOK
  <2> QED BY <2>1, <2>2, <2>3, <2>4 DEF RateInv
<1> QED BY <1>1, <1>2

\* The end of the key's life keeps it: what was in the set and not slipping away was as old
\* as the window.
LEMMA ExpiryKeepsInv ==
  ASSUME RateInv, KeyExpires
  PROVE  RateInv'
<1> USE RateAssumption
<1>1. /\ expiry # 0 /\ clock >= expiry /\ members' = {} /\ expiry' = 0
      /\ slipped' = slipped \union {reading[r] : r \in Unprotected}
      /\ UNCHANGED <<clock, reading, pipe, admitted>>
  BY DEF KeyExpires, Expired
<1>2. Unprotected' = Unprotected /\ Unprotected \subseteq Requester BY <1>1 DEF Unprotected
<1>3. \A q \in Unprotected : reading[q] \in 1 .. clock
  BY DEF RateInv, RateTypeOK, Unprotected
<1>4. RateTypeOK' BY <1>1, <1>3, ZenonT(60) DEF RateInv, RateTypeOK
<1>5. \A s \in (admitted \ slipped)' : s + Window <= clock'
  <2> SUFFICES ASSUME NEW s \in admitted, s \notin slipped, s \notin {reading[q] : q \in Unprotected}
               PROVE  s + Window <= clock
    BY <1>1
  <2>1. s \in Nat /\ clock \in Nat /\ expiry \in Nat BY DEF RateInv, RateTypeOK
  <2>2. CASE s \notin members BY <2>2 DEF RateInv
  <2>3. CASE s \in members
    <3>1. s + Window <= expiry BY <1>1, <2>3 DEF RateInv
    <3> QED BY <1>1, <2>1, <3>1
  <2> QED BY <2>2, <2>3
<1>6. \A q \in Unprotected' : reading'[q] \in slipped' BY <1>1, <1>2
<1>7. \A r \in Requester : reading'[r] # 0 => clock' <= reading'[r] + MaxDelay BY <1>1 DEF RateInv
<1> QED BY <1>1, <1>4, <1>5, <1>6, <1>7 DEF RateInv

\* The commands of the pipeline keep it, each at its turn.
LEMMA PipelineKeepsInv ==
  ASSUME RateInv, NEW r \in Requester, Pipeline(r)
  PROVE  RateInv'
<1> USE RateAssumption
<1>a. /\ clock \in Nat /\ clock \in 1 .. MaxClock /\ expiry \in Nat /\ Window \in Nat /\ MaxDelay \in Nat
      /\ members \subseteq 1 .. clock /\ slipped \subseteq 1 .. clock
  BY DEF RateInv, RateTypeOK
<1>b. pipe[r] # "idle" => reading[r] \in 1 .. clock /\ clock <= reading[r] + MaxDelay
  BY DEF RateInv, RateTypeOK
<1>1. CASE ZRemRangeByScore(r)
  <2>1. /\ pipe[r] = "trim" /\ pipe' = [pipe EXCEPT ![r] = "add"]
        /\ members' = {s \in members : s + Window > reading[r]}
        /\ expiry' = IF members' = {} THEN 0 ELSE expiry
        /\ UNCHANGED <<clock, reading, slipped, admitted>>
    BY <1>1 DEF ZRemRangeByScore, Command
  <2>2. Unprotected' = Unprotected /\ Unprotected \subseteq Requester
    BY <2>1 DEF Unprotected, RateInv, RateTypeOK
  <2>3. RateTypeOK' BY <2>1 DEF RateInv, RateTypeOK
  <2>4. \A s \in 1 .. clock : s \in members \ members' => s + Window <= clock
    BY <1>a, <1>b, <2>1
  <2>5. \A q \in Unprotected : reading[q] \in 1 .. clock /\ clock <= reading[q] + MaxDelay
    BY <2>2 DEF RateInv, RateTypeOK, Unprotected
  <2>6. \A q \in Unprotected' : reading'[q] \in (members \union slipped)'
    <3> SUFFICES ASSUME NEW q \in Unprotected PROVE reading[q] \in members' \union slipped
      BY <2>1, <2>2
    <3>1. reading[q] \in members \union slipped BY DEF RateInv
    <3>2. ~(reading[q] + Window <= clock) BY <1>a, <2>5
    <3> QED BY <2>4, <2>5, <3>1, <3>2
  <2>7. \A s \in (admitted \ slipped)' : s \in members' \/ s + Window <= clock'
    <3>1. admitted \subseteq 1 .. clock BY DEF RateInv, RateTypeOK
    <3> QED BY <2>1, <2>4, <3>1 DEF RateInv
  <2>8. expiry' # 0 => expiry' = expiry BY <2>1
  <2> QED BY <2>1, <2>2, <2>3, <2>6, <2>7, <2>8 DEF RateInv
<1>2. CASE ZAdd(r)
  <2>1. /\ pipe[r] = "add" /\ pipe' = [pipe EXCEPT ![r] = "count"]
        /\ members' = members \union {reading[r]}
        /\ UNCHANGED <<clock, reading, expiry, slipped, admitted>>
    BY <1>2 DEF ZAdd, Command
  <2>2. Unprotected' = Unprotected \union {r}
    BY <2>1 DEF Unprotected, RateInv, RateTypeOK
  <2>3. RateTypeOK' BY <1>b, <2>1 DEF RateInv, RateTypeOK
  <2>4. expiry' # 0 =>
          \A s \in members' : s + Window <= expiry' \/ \E q \in Unprotected' : reading'[q] = s
    BY <2>1, <2>2 DEF RateInv
  <2> QED BY <2>1, <2>2, <2>3, <2>4 DEF RateInv
<1>3. CASE ZCard(r)
  <2>1. /\ pipe[r] = "count" /\ pipe' = [pipe EXCEPT ![r] = "expire"]
        /\ admitted' \in {admitted, admitted \union {reading[r]}}
        /\ UNCHANGED <<clock, reading, members, expiry, slipped>>
    BY <1>3 DEF ZCard, Command
  <2>2. Unprotected' = Unprotected /\ r \in Unprotected
    BY <2>1 DEF Unprotected, RateInv, RateTypeOK
  <2>3. RateTypeOK' BY <1>b, <2>1 DEF RateInv, RateTypeOK
  <2>4. reading[r] \in members \union slipped BY <2>2 DEF RateInv
  <2> QED BY <2>1, <2>2, <2>3, <2>4 DEF RateInv
<1>4. CASE Expire(r)
  <2>1. /\ pipe[r] = "expire" /\ pipe' = [pipe EXCEPT ![r] = "idle"]
        /\ reading' = [reading EXCEPT ![r] = 0]
        /\ expiry' = IF members = {} THEN 0 ELSE clock + Window
        /\ UNCHANGED <<clock, members, slipped, admitted>>
    BY <1>4 DEF Expire, Command
  <2>2. /\ Unprotected' \subseteq Unprotected
        /\ \A q \in Unprotected' : reading'[q] = reading[q]
    BY <2>1 DEF Unprotected, RateInv, RateTypeOK
  <2>3. RateTypeOK' BY <2>1 DEF RateInv, RateTypeOK
  <2>4. expiry' # 0 => \A s \in 1 .. clock : s + Window <= expiry' BY <1>a, <2>1
  <2>5. \A q \in Requester : reading'[q] # 0 => clock' <= reading'[q] + MaxDelay
    BY <2>1 DEF RateInv, RateTypeOK
  <2> QED BY <1>a, <2>1, <2>2, <2>3, <2>4, <2>5 DEF RateInv
<1> QED BY <1>1, <1>2, <1>3, <1>4 DEF Pipeline

\* In every reachable state, what was let through within a window is in the sorted set, unless
\* the key expired between its ZADD and its EXPIRE; and the key expires no earlier than the
\* windows of its members end, but for those whose EXPIRE is still to come.
THEOREM RateInvariant == RateSpec => []RateInv
<1>1. RateInit => RateInv
  BY RateAssumption DEF RateInit, RateInv, RateTypeOK, Unprotected
<1>2. RateInv /\ [RateNext]_rateVars => RateInv'
  <2>1. CASE UNCHANGED rateVars
    BY <2>1 DEF rateVars, RateInv, RateTypeOK, Unprotected
  <2> QED BY <2>1, ClockKeepsInv, ExpiryKeepsInv, PipelineKeepsInv DEF RateNext
<1> QED
  BY <1>1, <1>2, PTL DEF RateSpec

Stretch(from) == {s \in admitted : from <= s /\ s < from + Window - MaxDelay}

\* The readings of a stretch, and those that slipped away, are finitely many.
LEMMA StretchFinite ==
  ASSUME RateTypeOK, NEW S, S \subseteq 1 .. clock
  PROVE  IsFiniteSet(S) /\ Cardinality(S) \in Nat
<1>1. clock \in Nat BY DEF RateTypeOK
<1>2. IsFiniteSet(1 .. clock) BY <1>1, FS_Interval
<1> QED BY <1>2, FS_Subset, FS_CardinalityType

\* Of a stretch around the reading of a request under way, whatever did not slip away is in
\* the set.
LEMMA StretchInSet ==
  ASSUME RateInv, NEW r \in Requester, reading[r] # 0, NEW from \in 1 .. MaxClock,
         reading[r] < from + Window - MaxDelay
  PROVE  Stretch(from) \ slipped \subseteq members
<1> SUFFICES ASSUME NEW s \in Stretch(from), s \notin slipped PROVE s \in members
  OBVIOUS
<1>1. s \in admitted /\ s \in Nat /\ from <= s /\ from \in Nat
  BY DEF Stretch, RateInv, RateTypeOK
<1>2. clock \in Nat /\ reading[r] \in Nat /\ Window \in Nat /\ MaxDelay \in Nat
  BY RateAssumption DEF RateInv, RateTypeOK
<1>3. clock <= reading[r] + MaxDelay BY DEF RateInv
<1>4. ~(s + Window <= clock) BY <1>1, <1>2, <1>3
<1> QED BY <1>1, <1>4 DEF RateInv

\* The count lets no reading through that would be too many for its window.
LEMMA CountKeepsWindow ==
  ASSUME RateInv, NEW r \in Requester, ZCard(r), NEW from \in 1 .. MaxClock,
         Cardinality(Stretch(from) \ slipped) <= MaxRequests
  PROVE  Cardinality((Stretch(from) \ slipped)') <= MaxRequests
<1>1. /\ pipe[r] = "count" /\ UNCHANGED <<clock, reading, members, slipped>>
      /\ admitted' = IF Count(r) <= MaxRequests THEN admitted \union {reading[r]} ELSE admitted
  BY DEF ZCard, Command
<1>2. CASE (Stretch(from) \ slipped)' = Stretch(from) \ slipped BY <1>2
<1>3. CASE (Stretch(from) \ slipped)' # Stretch(from) \ slipped
  <2>1. admitted' = admitted \union {reading[r]} /\ Count(r) <= MaxRequests
    BY <1>1, <1>3 DEF Stretch
  <2>2. /\ from <= reading[r] /\ reading[r] < from + Window - MaxDelay /\ reading[r] \notin slipped
        /\ (Stretch(from) \ slipped)' = (Stretch(from) \ slipped) \union {reading[r]}
    BY <1>1, <1>3, <2>1 DEF Stretch
  <2>3. reading[r] # 0 /\ r \in Unprotected BY <1>1 DEF RateInv, RateTypeOK, Unprotected
  <2>4. Stretch(from) \ slipped \subseteq members BY <2>2, <2>3, StretchInSet
  <2>5. reading[r] \in members BY <2>2, <2>3 DEF RateInv
  <2>6. (Stretch(from) \ slipped)' \subseteq members BY <2>2, <2>4, <2>5
  <2>7. members \subseteq 1 .. clock BY DEF RateInv, RateTypeOK
  <2>8. IsFiniteSet(members) /\ Cardinality(members) \in Nat
    BY <2>7, StretchFinite DEF RateInv
  <2>9. /\ Cardinality((Stretch(from) \ slipped)') <= Cardinality(members)
        /\ Cardinality((Stretch(from) \ slipped)') \in Nat
    BY <2>6, <2>8, FS_Subset, FS_CardinalityType
  <2> QED BY <2>1, <2>8, <2>9, RateAssumption DEF Count
<1> QED BY <1>2, <1>3

\* What slipped away in a stretch did so at one end of the key's life: no more than there are
\* requests at once.
SlippedIn(from) == {s \in slipped : from <= s /\ s < from + Window - MaxDelay}
SlipInv == \A from \in 1 .. MaxClock : Cardinality(SlippedIn(from)) <= Cardinality(Requester)

\* The next end of the key's life comes a window after an EXPIRE that came after the last one.
LEMMA SlipInvStep == RateInv /\ SlipInv /\ [RateNext]_rateVars => SlipInv'
<1> SUFFICES ASSUME RateInv, SlipInv, [RateNext]_rateVars, NEW from \in 1 .. MaxClock
             PROVE  Cardinality(SlippedIn(from)') <= Cardinality(Requester)
  BY DEF SlipInv
<1> USE RateAssumption
<1>1. CASE slipped' = slipped BY <1>1 DEF SlipInv, SlippedIn
<1>2. CASE KeyExpires
  <2> DEFINE new == {reading[q] : q \in Unprotected}
  <2>1. expiry # 0 /\ clock >= expiry /\ slipped' = slipped \union new
    BY <1>2 DEF KeyExpires, Expired
  <2>2. \A q \in Unprotected : reading[q] \in 1 .. clock /\ clock <= reading[q] + MaxDelay
    BY DEF RateInv, RateTypeOK, Unprotected
  <2>3. ASSUME NEW s \in SlippedIn(from), NEW t \in new, from <= t, t < from + Window - MaxDelay
        PROVE  FALSE
    <3>1. s \in Nat /\ t \in Nat /\ clock \in Nat /\ expiry \in Nat /\ from \in Nat
          /\ Window \in Nat /\ MaxDelay \in Nat
      BY <2>2 DEF SlippedIn, RateInv, RateTypeOK
    <3>2. s + Window <= expiry /\ from <= s BY <2>1 DEF SlippedIn, RateInv
    <3>3. clock <= t + MaxDelay BY <2>2
    <3> QED BY <2>1, <2>3, <3>1, <3>2, <3>3
  <2>4. SlippedIn(from)' = SlippedIn(from) \/ SlippedIn(from)' \subseteq new
    BY <2>1, <2>3 DEF SlippedIn
  <2>5. CASE SlippedIn(from)' = SlippedIn(from) BY <2>5 DEF SlipInv
  <2>6. CASE SlippedIn(from)' \subseteq new
    <3>1. IsFiniteSet(Unprotected) /\ Cardinality(Unprotected) <= Cardinality(Requester)
      BY FS_Subset DEF Unprotected
    <3>2. IsFiniteSet(new) /\ Cardinality(new) <= Cardinality(Unprotected)
      <4> DEFINE f == [q \in Unprotected |-> reading[q]]
      <4>1. f \in [Unprotected -> new] BY DEF f
      <4>2. \A t \in new : \E q \in Unprotected : f[q] = t BY DEF f
      <4>3. f \in Surjection(Unprotected, new) BY <4>1, <4>2, Fun_IsSurj
      <4> QED BY <3>1, <4>3, FS_Surjection
    <3>3. Cardinality(SlippedIn(from)') <= Cardinality(new) BY <2>6, <3>2, FS_Subset
    <3>4. /\ Cardinality(SlippedIn(from)') \in Nat /\ Cardinality(new) \in Nat
          /\ Cardinality(Unprotected) \in Nat /\ Cardinality(Requester) \in Nat
      BY <2>6, <3>1, <3>2, FS_Subset, FS_CardinalityType
    <3> QED BY <3>1, <3>2, <3>3, <3>4
  <2> QED BY <2>4, <2>5, <2>6
<1> QED
  BY <1>1, <1>2
     DEF RateNext, Tick, ReadClock, Pipeline, ZRemRangeByScore, ZAdd, ZCard, Expire, Command, rateVars

\* The half of WindowHolds that is of the readings that did not slip away.
Counted == \A from \in 1 .. MaxClock : Cardinality(Stretch(from) \ slipped) <= MaxRequests

\* Every step keeps it.
LEMMA CountedStep == RateInv /\ Counted /\ [RateNext]_rateVars => Counted'
<1> SUFFICES ASSUME RateInv, Counted, [RateNext]_rateVars, NEW from \in 1 .. MaxClock
             PROVE  Cardinality((Stretch(from) \ slipped)') <= MaxRequests
  BY DEF Counted
<1>1. Cardinality(Stretch(from) \ slipped) <= MaxRequests BY DEF Counted
<1>2. ASSUME NEW r \in Requester, ZCard(r)
      PROVE  Cardinality((Stretch(from) \ slipped)') <= MaxRequests
  BY <1>1, <1>2, CountKeepsWindow
<1>3. CASE KeyExpires
  <2>1. (Stretch(from) \ slipped)' \subseteq Stretch(from) \ slipped
    BY <1>3 DEF KeyExpires, Stretch
  <2>2. Stretch(from) \ slipped \subseteq 1 .. clock BY DEF Stretch, RateInv, RateTypeOK
  <2>3. IsFiniteSet(Stretch(from) \ slipped) /\ Cardinality(Stretch(from) \ slipped) \in Nat
    BY <2>2, StretchFinite DEF RateInv
  <2>4. Cardinality((Stretch(from) \ slipped)') <= Cardinality(Stretch(from) \ slipped)
        /\ Cardinality((Stretch(from) \ slipped)') \in Nat
    BY <2>1, <2>3, FS_Subset, FS_CardinalityType
  <2> QED BY <1>1, <2>3, <2>4, RateAssumption
<1>4. CASE UNCHANGED <<admitted, slipped>> BY <1>1, <1>4 DEF Stretch
<1> QED
  BY <1>2, <1>3, <1>4
     DEF RateNext, Tick, ReadClock, Pipeline, ZRemRangeByScore, ZAdd, Expire, Command, rateVars

\* WindowHolds: in any stretch of the window less the delay at most MaxRequests readings pass,
\* in whatever order the commands of the pipelines run, and no more than one for each request
\* at once besides, whose entry went with the key.
THEOREM RateLimited == RateSpec => []WindowHolds
<1>1. RateInit => Counted /\ SlipInv
  <2> SUFFICES ASSUME RateInit, NEW from \in 1 .. MaxClock
               PROVE  /\ Cardinality(Stretch(from) \ slipped) <= MaxRequests
                      /\ Cardinality(SlippedIn(from)) <= Cardinality(Requester)
    BY DEF Counted, SlipInv
  <2>1. Stretch(from) \ slipped = {} /\ SlippedIn(from) = {}
    BY DEF RateInit, Stretch, SlippedIn
  <2>2. Cardinality({}) = 0 BY FS_EmptySet
  <2>3. Cardinality(Requester) \in Nat BY RateAssumption, FS_CardinalityType
  <2> QED BY <2>1, <2>2, <2>3, RateAssumption
<1>2. RateInv /\ Counted /\ SlipInv => WindowHolds
  <2> SUFFICES ASSUME RateInv, Counted, SlipInv, NEW from \in 1 .. MaxClock
               PROVE  /\ Cardinality(Stretch(from) \ slipped) <= MaxRequests
                      /\ Cardinality(Stretch(from) \intersect slipped) <= Cardinality(Requester)
    BY DEF WindowHolds, Stretch
  <2>1. Stretch(from) \intersect slipped \subseteq SlippedIn(from) BY DEF Stretch, SlippedIn
  <2>2. SlippedIn(from) \subseteq 1 .. clock BY DEF SlippedIn, RateInv, RateTypeOK
  <2>3. IsFiniteSet(SlippedIn(from)) /\ Cardinality(SlippedIn(from)) \in Nat
    BY <2>2, StretchFinite DEF RateInv
  <2>4. /\ Cardinality(Stretch(from) \intersect slipped) <= Cardinality(SlippedIn(from))
        /\ Cardinality(Stretch(from) \intersect slipped) \in Nat
    BY <2>1, <2>3, FS_Subset, FS_CardinalityType
  <2>5. Cardinality(Requester) \in Nat BY RateAssumption, FS_CardinalityType
  <2>6. Cardinality(SlippedIn(from)) <= Cardinality(Requester) BY DEF SlipInv
  <2> QED BY <2>3, <2>4, <2>5, <2>6 DEF Counted
<1> QED
  BY <1>1, <1>2, CountedStep, SlipInvStep, RateInvariant, PTL DEF RateSpec

\* RateTypeOK, the part of the site's type invariant that is of the rate limit: readings are of
\* times that have been, and a key with a time to live has members.
THEOREM RateTypeCorrect == RateSpec => []RateTypeOK
<1>1. RateInv => RateTypeOK BY DEF RateInv
<1> QED BY <1>1, RateInvariant, PTL
=============================================================================
