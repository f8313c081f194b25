------------------------------ MODULE KVMProofs ------------------------------
(***************************************************************************)
(* Proofs about KVMUsers, for any sessions and any slots of the BMC, and   *)
(* about KVMRelay, for any number of browsers, its liveness included: of   *)
(* RelaySpec, which is fair, and of []RelayNobodyBlocks, the state         *)
(* property that nobody is stuck, which TLC checks.                        *)
(***************************************************************************)
EXTENDS KVMUsers, KVMRelay, TLAPS

\* The slots of the operators' users, those excepted that came to a slot when it was
\* held.
Others == {i \in Slot \ exposed : bmc[i].name = Operator}

\* No work for a session may yet write to one of them: neither as an orphan it will
\* remove, nor as the slot it chose, nor as the slot the session has its user in,
\* which a stop long after clears without looking.
NotTheirs(s) == \A i \in Others : ~HoldsSlot(s, i)

\* The part of it a creation has.
CreationHolds(s, i) ==
  \/ i \in orphans[s]
  \/ /\ at[s] = i
     /\ create[s] \in {"chosen", "named", "keyed"} \/ (create[s] = "ok" /\ start[s] = "user")

\* A creation works on a slot it chose; a deletion is of a slot the session was
\* given, which happens once.
SlotKnown(s) ==
  /\ create[s] \in {"chosen", "named", "keyed", "ok"} => at[s] \in Slot
  /\ \A b \in By : delete[s][b] \in {"sent", "disabled"} => slot[s] \in Slot
  /\ start[s] \in {"idle", "passed", "user"} => slot[s] = 0

UsersInv == UsersTypeOK /\ \A s \in Session : NotTheirs(s) /\ SlotKnown(s)

\* What sessions do to the BMC, and what anybody does.
Alone       == \A i \in Others : bmc'[i] = bmc[i]
NoneAdded   == \A i \in Slot : bmc'[i].name = Operator => bmc[i].name = Operator
OthersAlone == \A i \in Slot \ exposed :
                 bmc[i].name = Operator => bmc'[i] = bmc[i] \/ OperatorRemoves(i)

-----------------------------------------------------------------------------

\* Some set of slots has a first one: the agent counts from 3 to 15.
LEMMA FirstSlot ==
  ASSUME NEW S, S \subseteq 3 .. 15, S # {}
  PROVE  Min(S) \in S
<1>1. \E x \in S : \A y \in S : x =< y
  <2> DEFINE Least(n) == n \in S /\ \A y \in S : n =< y
             Above(n) == \A y \in S : n =< y
  <2>1. Above(3) BY SMT
  <2>2. \A n \in 3 .. 15 : Above(n) => Least(n) \/ Above(n + 1)
    <3> SUFFICES ASSUME NEW n \in 3 .. 15, Above(n), n \notin S, NEW y \in S
                 PROVE  n + 1 =< y
        OBVIOUS
    <3>1. y \in 3 .. 15 /\ n =< y /\ n # y OBVIOUS
    <3> QED BY <3>1
  <2>3. ~Above(16)
    <3>1. PICK y \in S : TRUE OBVIOUS
    <3>2. y \in 3 .. 15 OBVIOUS
    <3>3. ~(16 =< y) BY <3>2
    <3> QED BY <3>1, <3>3
  <2>4. SUFFICES ASSUME \A n \in 3 .. 15 : ~Least(n) PROVE FALSE BY SMT
  <2> HIDE DEF Least, Above
  <2>5. Above(4) /\ Above(5) /\ Above(6) BY <2>1, <2>2, <2>4
  <2>6. Above(7) /\ Above(8) /\ Above(9) BY <2>2, <2>4, <2>5
  <2>7. Above(10) /\ Above(11) /\ Above(12) BY <2>2, <2>4, <2>6
  <2>8. Above(13) /\ Above(14) /\ Above(15) /\ Above(16) BY <2>2, <2>4, <2>7
  <2> QED BY <2>3, <2>8
<1> QED BY <1>1 DEF Min

\* findFreeUserSlot gives a slot without a name, or none.
LEMMA FreeSlot ==
  ASSUME NEW list
  PROVE  findFreeUserSlot(list) \in {0} \union {i \in Slot : list[i].name = None}
<1> DEFINE free == {i \in Slot : list[i].name = None}
<1>1. free \subseteq 3 .. 15 BY SlotAssumption
<1>2. free # {} => Min(free) \in free BY <1>1, FirstSlot
<1> QED BY <1>2 DEF findFreeUserSlot

\* The invariant holds at first.
LEMMA UsersInvInit == UsersInit => UsersInv
<1> SUFFICES ASSUME UsersInit PROVE UsersInv
    OBVIOUS
<1>1. UsersTypeOK
  <2>1. bmc \in [Slot -> {Empty, OperatorsUser}]
    BY DEF UsersInit
  <2>2. {Empty, OperatorsUser} \subseteq
          [name : Session \union {Operator, None}, key : Session \union {Operator, None}, on : BOOLEAN]
    BY DEF Empty, OperatorsUser
  <2>3. bmc \in [Slot -> [name : Session \union {Operator, None},
                         key : Session \union {Operator, None}, on : BOOLEAN]]
    BY <2>1, <2>2
  <2> QED BY <2>3 DEF UsersInit, UsersTypeOK
<1>2. ASSUME NEW s \in Session PROVE NotTheirs(s) /\ SlotKnown(s)
  <2>1. 0 \notin Slot BY SlotAssumption
  <2> QED BY <2>1 DEF UsersInit, NotTheirs, SlotKnown, HoldsSlot, Others
<1> QED BY <1>1, <1>2 DEF UsersInv

\* The backend touches no BMC.
LEMMA BackendKeepsInv ==
  ASSUME UsersInv, NEW s \in Session,
         \/ FindSession(s) \/ InsertSession(s) \/ UserAnswer(s) \/ KVMStarted(s)
         \/ KVMFailed(s) \/ Undone(s) \/ StopSession(s)
  PROVE  UsersInv' /\ UNCHANGED bmc
<1>1. UNCHANGED <<bmc, orphans, at, exposed>> /\ Others' = Others
  BY DEF FindSession, InsertSession, UserAnswer, KVMStarted, KVMFailed, Undone, StopSession, Others
<1>2. 0 \notin Slot /\ (\A q \in Session : slot[q] > 0 => slot[q] \in Slot)
  BY SlotAssumption DEF UsersInv, UsersTypeOK
<1>3. CASE UserAnswer(s)
  <2>1. /\ start[s] = "user" /\ UNCHANGED <<live, create, delete, hurried>>
        /\ start' = [start EXCEPT ![s] = "kvm"]
        /\ \/ slot' = [slot EXCEPT ![s] = IF create[s] = "ok" THEN at[s] ELSE 0]
           \/ UNCHANGED slot
    BY <1>3 DEF UserAnswer
  <2>2. UsersTypeOK'
    BY <1>1, <2>1 DEF UsersInv, UsersTypeOK
  <2>3. \A b \in By : delete[s][b] \notin {"sent", "disabled"}
    BY <1>2, <2>1 DEF UsersInv, SlotKnown
  <2>4. \A q \in Session : SlotKnown(q)'
    BY <1>1, <2>1, <2>3 DEF UsersInv, UsersTypeOK, SlotKnown
  <2>5. \A q \in Session : NotTheirs(q)'
    <3>1. ASSUME NEW q \in Session, NEW i \in Others, HoldsSlot(q, i)' PROVE HoldsSlot(q, i)
      <4>1. i # 0 BY <1>2 DEF Others
      <4>2. create[s] = "ok" => \A j : at[s] = j => HoldsSlot(s, j) BY <2>1 DEF HoldsSlot
      <4>3. \/ slot'[s] \in {0, slot[s]}
            \/ slot'[s] = at[s] /\ create[s] = "ok"
        BY <1>3 DEF UserAnswer, UsersInv, UsersTypeOK
      <4>4. slot[s] = 0 BY <2>1 DEF UsersInv, SlotKnown
      <4>5. CASE q = s
        BY <1>1, <1>3, <2>1, <3>1, <4>1, <4>2, <4>3, <4>4, <4>5 DEF HoldsSlot, UsersInv, UsersTypeOK
      <4>6. CASE q # s
        BY <1>1, <2>1, <3>1, <4>6 DEF HoldsSlot, UsersInv, UsersTypeOK
      <4> QED BY <4>5, <4>6
    <3> QED BY <1>1, <3>1 DEF UsersInv, NotTheirs
  <2> QED BY <1>1, <2>2, <2>4, <2>5 DEF UsersInv
<1>4. CASE \/ FindSession(s) \/ InsertSession(s) \/ KVMStarted(s) \/ KVMFailed(s)
           \/ Undone(s) \/ StopSession(s)
  <2>1. UNCHANGED slot
    BY <1>4 DEF FindSession, InsertSession, KVMStarted, KVMFailed, Undone, StopSession
  <2>2. live' \subseteq Session /\ hurried' \subseteq Session
    BY <1>4 DEF FindSession, InsertSession, KVMStarted, KVMFailed, Undone, StopSession,
                UsersInv, UsersTypeOK
  <2>3. /\ start' \in [Session -> {"idle", "passed", "user", "kvm", "undo", "active", "joined", "failed"}]
        /\ \A q \in Session : start'[q] \in {"idle", "passed", "user"} =>
             start[q] \in {"idle", "passed", "user"}
    BY <1>4 DEF FindSession, InsertSession, KVMStarted, KVMFailed, Undone, StopSession,
                UsersInv, UsersTypeOK
  <2>4. /\ create' \in [Session -> {"none", "sent", "listed", "chosen", "named", "keyed", "ok", "error"}]
        /\ \A q \in Session : create'[q] \in {"sent", create[q]}
    BY <1>4 DEF FindSession, InsertSession, KVMStarted, KVMFailed, Undone, StopSession,
                UsersInv, UsersTypeOK
  <2>5. /\ delete' \in [Session -> [By -> {"none", "sent", "disabled", "over"}]]
        /\ \A q \in Session, b \in By :
             delete'[q][b] \in {"over", delete[q][b]} \/ slot[q] > 0
    <3>1. ASSUME NEW b \in By, DeleteTempUser(s, b), slot[s] > 0
          PROVE  /\ delete' \in [Session -> [By -> {"none", "sent", "disabled", "over"}]]
                 /\ \A q \in Session, c \in By :
                      delete'[q][c] \in {"over", delete[q][c]} \/ slot[q] > 0
      <4>1. \E to \in {"sent", "over"} :
              delete' = [delete EXCEPT ![s] = [delete[s] EXCEPT ![b] = to]]
        BY <3>1 DEF DeleteTempUser
      <4>2. delete \in [Session -> [By -> {"none", "sent", "disabled", "over"}]]
        BY DEF UsersInv, UsersTypeOK
      <4>3. \A to \in {"sent", "over"} :
              [delete[s] EXCEPT ![b] = to] \in [By -> {"none", "sent", "disabled", "over"}]
        BY <4>2
      <4>4. delete' \in [Session -> [By -> {"none", "sent", "disabled", "over"}]]
        BY <4>1, <4>2, <4>3
      <4> QED BY <3>1, <4>1, <4>2, <4>4
    <3>2. CASE UNCHANGED delete BY <3>2 DEF UsersInv, UsersTypeOK
    <3>3. CASE KVMFailed(s) BY <3>1, <3>2, <3>3 DEF KVMFailed, By
    <3>4. CASE StopSession(s) BY <3>1, <3>2, <3>4 DEF StopSession, By
    <3>5. CASE FindSession(s) \/ InsertSession(s) \/ KVMStarted(s) \/ Undone(s)
      BY <3>2, <3>5 DEF FindSession, InsertSession, KVMStarted, Undone
    <3> QED BY <1>4, <3>3, <3>4, <3>5
  <2>6. UsersTypeOK'
    BY <1>1, <2>1, <2>2, <2>3, <2>4, <2>5 DEF UsersInv, UsersTypeOK
  <2>7. \A q \in Session : NotTheirs(q)'
    <3>1. ASSUME NEW q \in Session, NEW i \in Others, HoldsSlot(q, i)' PROVE HoldsSlot(q, i)
      <4>1. i # 0 BY <1>2 DEF Others
      <4>2. create'[q] \in {"sent", create[q]} BY <2>4
      <4>3. start'[q] = "user" /\ create'[q] # "sent" => start[q] = "user"
        BY <1>4 DEF FindSession, InsertSession, KVMStarted, KVMFailed, Undone, StopSession,
                    UsersInv, UsersTypeOK
      <4>4. (q \in live' \/ start'[q] = "kvm" \/ \E b \in By : delete'[q][b] \in {"sent", "disabled"}) =>
              \/ q \in live \/ start[q] = "kvm" \/ slot[q] = 0
              \/ \E b \in By : delete[q][b] \in {"sent", "disabled"}
        <5>1. CASE InsertSession(s)
          <6>1. start[s] = "passed" /\ live' = live \union {s} /\ UNCHANGED delete
                /\ \A r \in Session \ {s} : start'[r] = start[r]
            BY <5>1 DEF InsertSession, UsersInv, UsersTypeOK
          <6>2. slot[s] = 0 BY <6>1 DEF UsersInv, SlotKnown
          <6> QED BY <6>1, <6>2
        <5>2. CASE FindSession(s) \/ KVMStarted(s) \/ Undone(s)
          BY <5>2 DEF FindSession, KVMStarted, Undone, UsersInv, UsersTypeOK
        <5>3. CASE KVMFailed(s)
          BY <5>3 DEF KVMFailed, DeleteTempUser, UsersInv, UsersTypeOK, By
        <5>4. CASE StopSession(s)
          BY <5>4 DEF StopSession, DeleteTempUser, UsersInv, UsersTypeOK, By
        <5> QED BY <1>4, <5>1, <5>2, <5>3, <5>4
      <4> QED BY <1>1, <2>1, <3>1, <4>1, <4>2, <4>3, <4>4 DEF HoldsSlot
    <3> QED BY <1>1, <3>1 DEF UsersInv, NotTheirs
  <2>8. \A q \in Session : SlotKnown(q)'
    BY <1>1, <1>2, <2>1, <2>3, <2>4, <2>5 DEF UsersInv, SlotKnown
  <2> QED BY <1>1, <2>6, <2>7, <2>8 DEF UsersInv
<1> QED BY <1>3, <1>4

\* What a command of the agent writes is a slot that is not of the others, and the
\* name it writes a session's or none, or the one that was there.
LEMMA WriteKeepsOthers ==
  ASSUME UsersInv, NEW i \in Slot, i \notin Others,
         NEW user \in [name : Session \union {Operator, None}, key : Session \union {Operator, None},
                       on : BOOLEAN],
         user.name = Operator => bmc[i].name = Operator, bmc' = [bmc EXCEPT ![i] = user]
  PROVE  /\ bmc' \in [Slot -> [name : Session \union {Operator, None},
                               key : Session \union {Operator, None}, on : BOOLEAN]]
         /\ Alone /\ NoneAdded
BY DEF UsersInv, UsersTypeOK, Others, Alone, NoneAdded

-----------------------------------------------------------------------------
\* The agent's commands, one by one.

\* If no user of another's changes and none is added, the others are the same.
LEMMA SameOthers ==
  ASSUME Alone, NoneAdded, UNCHANGED exposed
  PROVE  Others' = Others
BY DEF Alone, NoneAdded, Others

\* A step of the agent leaves the backend's state alone: the invariant follows from
\* the BMC, and from what the agent remembers of session s afterwards.
LEMMA AgentStep ==
  ASSUME UsersInv, UNCHANGED <<live, start, slot, hurried, exposed>>,
         create' \in [Session -> {"none", "sent", "listed", "chosen", "named", "keyed", "ok", "error"}],
         delete' \in [Session -> [By -> {"none", "sent", "disabled", "over"}]],
         at' \in [Session -> Slot \union {0}], orphans' \in [Session -> SUBSET Slot],
         bmc' \in [Slot -> [name : Session \union {Operator, None},
                           key : Session \union {Operator, None}, on : BOOLEAN]],
         Alone, NoneAdded,
         \A q \in Session :
           /\ \A i \in Others : ~CreationHolds(q, i)'
           /\ create'[q] \in {"chosen", "named", "keyed", "ok"} => at'[q] \in Slot
           /\ \A b \in By : delete'[q][b] \in {"sent", "disabled"} =>
                           delete[q][b] \in {"sent", "disabled"}
  PROVE  UsersInv'
<1>1. Others' = Others BY SameOthers
<1>2. UsersTypeOK' BY DEF UsersInv, UsersTypeOK
<1>3. \A q \in Session : NotTheirs(q)' BY <1>1 DEF UsersInv, NotTheirs, HoldsSlot, CreationHolds
<1>4. \A q \in Session : SlotKnown(q)' BY DEF UsersInv, SlotKnown
<1> QED BY <1>2, <1>3, <1>4 DEF UsersInv

\* Moving a creation on, with its slot as it was.
LEMMA CreateMoves ==
  ASSUME UsersInv, NEW s \in Session,
         NEW to \in {"none", "sent", "listed", "chosen", "named", "keyed", "ok", "error"},
         create' = [create EXCEPT ![s] = to], UNCHANGED <<orphans, at>>,
         to \in {"named", "keyed", "ok"} => create[s] \in {"chosen", "named", "keyed"},
         to # "chosen", UNCHANGED start
  PROVE  /\ create' \in [Session -> {"none", "sent", "listed", "chosen", "named", "keyed", "ok", "error"}]
         /\ at' \in [Session -> Slot \union {0}] /\ orphans' \in [Session -> SUBSET Slot]
         /\ \A q \in Session :
              /\ \A i \in Others : ~CreationHolds(q, i)'
              /\ create'[q] \in {"chosen", "named", "keyed", "ok"} => at'[q] \in Slot
BY DEF UsersInv, UsersTypeOK, NotTheirs, HoldsSlot, CreationHolds, SlotKnown

\* A listing names no user of an operator's as an orphan.
LEMMA ListKeepsInv ==
  ASSUME UsersInv, NEW s \in Session, ListUsers(s)
  PROVE  UsersInv' /\ Alone /\ NoneAdded
<1>1. /\ UNCHANGED <<live, start, slot, delete, hurried, exposed, at, bmc>>
      /\ \E to \in {"listed", "error"} : create' = [create EXCEPT ![s] = to]
      /\ orphans' \in {orphans, [orphans EXCEPT ![s] = findOrphanedKVMUsers(bmc)]}
  BY DEF ListUsers, Creates
<1>2. findOrphanedKVMUsers(bmc) \subseteq Slot /\ findOrphanedKVMUsers(bmc) \intersect Others = {}
  BY NameAssumption DEF findOrphanedKVMUsers, Others
<1>3. Alone /\ NoneAdded BY <1>1 DEF Alone, NoneAdded
<1>4. create' \in [Session -> {"none", "sent", "listed", "chosen", "named", "keyed", "ok", "error"}]
  BY <1>1 DEF UsersInv, UsersTypeOK
<1>5. orphans' \in [Session -> SUBSET Slot] /\ at' \in [Session -> Slot \union {0}]
  BY <1>1, <1>2 DEF UsersInv, UsersTypeOK
<1>6. \A q \in Session :
        /\ \A i \in Others : ~CreationHolds(q, i)'
        /\ create'[q] \in {"chosen", "named", "keyed", "ok"} => at'[q] \in Slot
  BY <1>1, <1>2 DEF UsersInv, UsersTypeOK, NotTheirs, HoldsSlot, CreationHolds, SlotKnown
<1>7. /\ delete' \in [Session -> [By -> {"none", "sent", "disabled", "over"}]]
      /\ bmc' \in [Slot -> [name : Session \union {Operator, None},
                            key : Session \union {Operator, None}, on : BOOLEAN]]
  BY <1>1 DEF UsersInv, UsersTypeOK
<1> QED BY <1>1, <1>3, <1>4, <1>5, <1>6, <1>7, AgentStep

\* What the removal of orphans takes are slots held since they were found; the slot
\* chosen has no name.
LEMMA CleanKeepsInv ==
  ASSUME UsersInv, NEW s \in Session, CleanAndChoose(s)
  PROVE  UsersInv' /\ Alone /\ NoneAdded
<1>1. /\ UNCHANGED <<live, start, slot, delete, hurried, exposed>>
      /\ bmc' = [i \in Slot |-> IF i \in orphans[s] THEN Empty ELSE bmc[i]]
      /\ orphans' = [orphans EXCEPT ![s] = {}]
      /\ at' = [at EXCEPT ![s] = findFreeUserSlot(bmc')]
      /\ \/ create' = [create EXCEPT ![s] = IF at'[s] = 0 THEN "error" ELSE "chosen"]
         \/ create' = [create EXCEPT ![s] = "error"]
  BY DEF CleanAndChoose, Creates
<1>2. orphans[s] \intersect Others = {} /\ Empty.name # Operator
  BY NameAssumption DEF UsersInv, NotTheirs, HoldsSlot, Empty
<1>3. Alone /\ NoneAdded
  BY <1>1, <1>2 DEF Alone, NoneAdded, Others
<1>4. bmc' \in [Slot -> [name : Session \union {Operator, None},
                        key : Session \union {Operator, None}, on : BOOLEAN]]
  BY <1>1 DEF UsersInv, UsersTypeOK, Empty
<1>5. at' \in [Session -> Slot \union {0}] /\ at'[s] \notin Others
  <2>1. findFreeUserSlot(bmc') \in {0} \union {i \in Slot : bmc'[i].name = None}
    BY FreeSlot
  <2>2. 0 \notin Others BY SlotAssumption DEF Others
  <2>3. \A i \in Slot : bmc'[i].name = None => i \notin Others
    BY <1>3, NameAssumption DEF Alone, Others
  <2> QED BY <1>1, <2>1, <2>2, <2>3 DEF UsersInv, UsersTypeOK
<1>6. /\ create' \in [Session -> {"none", "sent", "listed", "chosen", "named", "keyed", "ok", "error"}]
      /\ create'[s] = "chosen" => at'[s] # 0
      /\ create'[s] \in {"chosen", "error"}
      /\ \A q \in Session \ {s} : create'[q] = create[q]
  BY <1>1 DEF UsersInv, UsersTypeOK
<1>7. orphans' \in [Session -> SUBSET Slot] /\ (\A q \in Session : orphans'[q] \in {{}, orphans[q]})
  BY <1>1 DEF UsersInv, UsersTypeOK
<1>8. \A q \in Session :
        /\ \A i \in Others : ~CreationHolds(q, i)'
        /\ create'[q] \in {"chosen", "named", "keyed", "ok"} => at'[q] \in Slot
  <2>1. \A q \in Session \ {s} : at'[q] = at[q]
    BY <1>1 DEF UsersInv, UsersTypeOK
  <2> QED BY <1>1, <1>5, <1>6, <1>7, <2>1 DEF UsersInv, NotTheirs, HoldsSlot, CreationHolds, SlotKnown
<1>9. delete' \in [Session -> [By -> {"none", "sent", "disabled", "over"}]]
  BY <1>1 DEF UsersInv, UsersTypeOK
<1> QED BY <1>1, <1>3, <1>4, <1>5, <1>6, <1>7, <1>8, <1>9, AgentStep

\* The name, the password and the privileges go to the slot chosen.
LEMMA WritesKeepInv ==
  ASSUME UsersInv, NEW s \in Session, SetName(s) \/ SetPassword(s) \/ EnableUser(s)
  PROVE  UsersInv' /\ Alone /\ NoneAdded
<1> DEFINE Users == [name : Session \union {Operator, None}, key : Session \union {Operator, None},
                     on : BOOLEAN]
<1>1. /\ UNCHANGED <<live, start, slot, delete, hurried, exposed, orphans, at>>
      /\ \E to \in {"named", "keyed", "ok", "error"} : create' = [create EXCEPT ![s] = to]
      /\ create[s] \in {"chosen", "named", "keyed"}
  BY DEF SetName, SetPassword, EnableUser, Creates
<1>2. at[s] \in Slot /\ at[s] \notin Others
  BY <1>1 DEF UsersInv, NotTheirs, HoldsSlot, SlotKnown
<1>3. bmc[at[s]] \in Users
  BY <1>2 DEF UsersInv, UsersTypeOK
<1>4. bmc' \in [Slot -> Users] /\ Alone /\ NoneAdded
  <2>1. CASE UNCHANGED bmc
    BY <2>1 DEF UsersInv, UsersTypeOK, Alone, NoneAdded
  <2>2. ASSUME NEW user \in Users, user.name = Operator => bmc[at[s]].name = Operator,
               bmc' = [bmc EXCEPT ![at[s]] = user]
        PROVE  bmc' \in [Slot -> Users] /\ Alone /\ NoneAdded
    BY <1>2, <2>2, WriteKeepsOthers
  <2>3. CASE SetName(s)
    <3>1. \/ UNCHANGED bmc \/ bmc' = [bmc EXCEPT ![at[s]] = [bmc[at[s]] EXCEPT !.name = s]]
      BY <2>3 DEF SetName
    <3>2. [bmc[at[s]] EXCEPT !.name = s] \in Users
          /\ [bmc[at[s]] EXCEPT !.name = s].name # Operator
      BY <1>3, NameAssumption
    <3> HIDE DEF Users
    <3> QED BY <2>1, <2>2, <3>1, <3>2
  <2>4. CASE SetPassword(s)
    <3>1. \/ bmc' = [bmc EXCEPT ![at[s]] = [bmc[at[s]] EXCEPT !.key = s]]
          \/ bmc' = [bmc EXCEPT ![at[s]] = [bmc[at[s]] EXCEPT !.name = None]]
      BY <2>4 DEF SetPassword
    <3>2. [bmc[at[s]] EXCEPT !.key = s] \in Users
          /\ [bmc[at[s]] EXCEPT !.key = s].name = bmc[at[s]].name
      BY <1>3
    <3>3. [bmc[at[s]] EXCEPT !.name = None] \in Users
          /\ [bmc[at[s]] EXCEPT !.name = None].name # Operator
      BY <1>3, NameAssumption
    <3> HIDE DEF Users
    <3> QED BY <2>2, <3>1, <3>2, <3>3
  <2>5. CASE EnableUser(s)
    <3> DEFINE off == [[bmc[at[s]] EXCEPT !.name = None] EXCEPT !.on = FALSE]
    <3>1. \/ bmc' = [bmc EXCEPT ![at[s]] = [bmc[at[s]] EXCEPT !.on = TRUE]]
          \/ bmc' = [bmc EXCEPT ![at[s]] = off]
      <4>1. \/ bmc' = [bmc EXCEPT ![at[s]].on = TRUE]
            \/ bmc' = [bmc EXCEPT ![at[s]].name = None, ![at[s]].on = FALSE]
        BY <2>5 DEF EnableUser
      <4> QED BY <1>2, <4>1 DEF UsersInv, UsersTypeOK
    <3>2. [bmc[at[s]] EXCEPT !.on = TRUE] \in Users
          /\ [bmc[at[s]] EXCEPT !.on = TRUE].name = bmc[at[s]].name
      BY <1>3
    <3>3. off \in Users /\ off.name # Operator
      BY <1>3, NameAssumption
    <3> HIDE DEF Users, off
    <3> QED BY <2>2, <3>1, <3>2, <3>3
  <2> HIDE DEF Users
  <2> QED BY <2>3, <2>4, <2>5
<1>5. /\ create' \in [Session -> {"none", "sent", "listed", "chosen", "named", "keyed", "ok", "error"}]
      /\ at' \in [Session -> Slot \union {0}] /\ orphans' \in [Session -> SUBSET Slot]
      /\ \A q \in Session :
           /\ \A i \in Others : ~CreationHolds(q, i)'
           /\ create'[q] \in {"chosen", "named", "keyed", "ok"} => at'[q] \in Slot
  BY <1>1, CreateMoves
<1>6. delete' \in [Session -> [By -> {"none", "sent", "disabled", "over"}]]
  BY <1>1 DEF UsersInv, UsersTypeOK
<1> QED BY <1>1, <1>4, <1>5, <1>6, AgentStep

\* A deletion disables and clears the slot its session was given.
LEMMA DeletionKeepsInv ==
  ASSUME UsersInv, NEW s \in Session, NEW b \in By, DisableUser(s, b) \/ ClearUser(s, b)
  PROVE  UsersInv' /\ Alone /\ NoneAdded
<1> DEFINE Users == [name : Session \union {Operator, None}, key : Session \union {Operator, None},
                     on : BOOLEAN]
<1>1. /\ UNCHANGED <<live, start, slot, create, orphans, at, hurried, exposed>>
      /\ \E to \in {"disabled", "over"} : delete' = [delete EXCEPT ![s][b] = to]
      /\ delete[s][b] \in {"sent", "disabled"}
  BY DEF DisableUser, ClearUser
<1>2. slot[s] \in Slot /\ slot[s] \notin Others
  BY <1>1 DEF UsersInv, NotTheirs, HoldsSlot, SlotKnown
<1>3. bmc[slot[s]] \in Users
  BY <1>2 DEF UsersInv, UsersTypeOK
<1>4. bmc' \in [Slot -> Users] /\ Alone /\ NoneAdded
  <2>1. \E user \in Users : /\ user.name = Operator => bmc[slot[s]].name = Operator
                            /\ bmc' = [bmc EXCEPT ![slot[s]] = user]
    <3>1. CASE DisableUser(s, b)
      <4>1. bmc' = [bmc EXCEPT ![slot[s]] = [bmc[slot[s]] EXCEPT !.on = FALSE]]
        BY <3>1 DEF DisableUser
      <4>2. [bmc[slot[s]] EXCEPT !.on = FALSE] \in Users
            /\ [bmc[slot[s]] EXCEPT !.on = FALSE].name = bmc[slot[s]].name
        BY <1>3
      <4> HIDE DEF Users
      <4> QED BY <4>1, <4>2
    <3>2. CASE ClearUser(s, b)
      <4>1. bmc' = [bmc EXCEPT ![slot[s]] = Empty] BY <3>2 DEF ClearUser
      <4>2. Empty \in Users /\ Empty.name # Operator BY NameAssumption DEF Empty
      <4> HIDE DEF Users
      <4> QED BY <4>1, <4>2
    <3> QED BY <3>1, <3>2
  <2> QED BY <1>2, <2>1, WriteKeepsOthers
<1>5. delete' \in [Session -> [By -> {"none", "sent", "disabled", "over"}]]
      /\ \A q \in Session, c \in By : delete'[q][c] \in {"sent", "disabled"} =>
           delete[q][c] \in {"sent", "disabled"}
  BY <1>1 DEF UsersInv, UsersTypeOK
<1>6. /\ create' \in [Session -> {"none", "sent", "listed", "chosen", "named", "keyed", "ok", "error"}]
      /\ at' \in [Session -> Slot \union {0}] /\ orphans' \in [Session -> SUBSET Slot]
  BY <1>1 DEF UsersInv, UsersTypeOK
<1>7. \A q \in Session :
        /\ \A i \in Others : ~CreationHolds(q, i)'
        /\ create'[q] \in {"chosen", "named", "keyed", "ok"} => at'[q] \in Slot
  BY <1>1 DEF UsersInv, NotTheirs, HoldsSlot, CreationHolds, SlotKnown
<1> QED BY <1>1, <1>4, <1>5, <1>6, <1>7, AgentStep

-----------------------------------------------------------------------------

\* An operator adds a user to a slot without one, and the slot is one of the others'
\* unless it was held; or takes one away.
LEMMA OperatorKeepsInv ==
  ASSUME UsersInv, NEW i \in Slot, OperatorAdds(i) \/ OperatorRemoves(i)
  PROVE  UsersInv' /\ OthersAlone
<1>1. UNCHANGED <<live, start, slot, create, orphans, at, delete, hurried>>
  BY DEF OperatorAdds, OperatorRemoves
<1>2. Empty.name # Operator BY NameAssumption DEF Empty
<1>3. UsersTypeOK'
  <2>1. bmc' \in [Slot -> [name : Session \union {Operator, None},
                          key : Session \union {Operator, None}, on : BOOLEAN]]
    <3> DEFINE Users == [name : Session \union {Operator, None},
                         key : Session \union {Operator, None}, on : BOOLEAN]
    <3>1. Empty \in Users /\ OperatorsUser \in Users BY DEF Empty, OperatorsUser
    <3>2. bmc \in [Slot -> Users] BY DEF UsersInv, UsersTypeOK
    <3>3. \E user \in Users : bmc' = [bmc EXCEPT ![i] = user]
      BY <3>1 DEF OperatorAdds, OperatorRemoves
    <3> HIDE DEF Users
    <3>4. bmc' \in [Slot -> Users] BY <3>2, <3>3
    <3> QED BY <3>4 DEF Users
  <2>2. exposed' \subseteq Slot
    BY DEF OperatorAdds, OperatorRemoves, UsersInv, UsersTypeOK
  <2> QED BY <1>1, <2>1, <2>2 DEF UsersInv, UsersTypeOK
<1>4. \A q \in Session : SlotKnown(q)' BY <1>1 DEF UsersInv, SlotKnown
<1>5. \A q \in Session, j \in Slot : HoldsSlot(q, j)' = HoldsSlot(q, j)
  BY <1>1 DEF HoldsSlot
<1>6. CASE OperatorAdds(i)
  <2>1. /\ bmc' = [bmc EXCEPT ![i] = OperatorsUser] /\ bmc[i].name = None
        /\ exposed' = IF \E q \in Session : HoldsSlot(q, i) THEN exposed \union {i} ELSE exposed \ {i}
    BY <1>6 DEF OperatorAdds
  <2>2. ASSUME NEW q \in Session, NEW j \in Others' PROVE ~HoldsSlot(q, j)
    <3>1. CASE j = i BY <2>1, <3>1 DEF Others
    <3>2. CASE j # i
      <4>1. j \in Others BY <2>1, <3>2 DEF Others, UsersInv, UsersTypeOK
      <4> QED BY <4>1 DEF UsersInv, NotTheirs
    <3> QED BY <3>1, <3>2
  <2>3. \A q \in Session : NotTheirs(q)'
    <3>1. Others' \subseteq Slot BY DEF Others
    <3> QED BY <1>5, <2>2, <3>1 DEF NotTheirs
  <2>4. OthersAlone BY <2>1, NameAssumption DEF OthersAlone, UsersInv, UsersTypeOK
  <2> QED BY <1>3, <1>4, <2>3, <2>4 DEF UsersInv
<1>7. CASE OperatorRemoves(i)
  <2>1. /\ bmc' = [bmc EXCEPT ![i] = Empty] /\ exposed' = exposed \ {i}
    BY <1>7 DEF OperatorRemoves
  <2>2. Others' \subseteq Others BY <1>2, <2>1 DEF Others, UsersInv, UsersTypeOK
  <2>3. \A q \in Session : NotTheirs(q)'
    <3>1. Others \subseteq Slot BY DEF Others
    <3> QED BY <1>5, <2>2, <3>1 DEF UsersInv, NotTheirs
  <2>4. OthersAlone
    <3> SUFFICES ASSUME NEW j \in Slot, j # i PROVE bmc'[j] = bmc[j]
        BY <1>7 DEF OthersAlone
    <3> QED BY <2>1 DEF UsersInv, UsersTypeOK
  <2> QED BY <1>3, <1>4, <2>3, <2>4 DEF UsersInv
<1> QED BY <1>6, <1>7

\* Every step keeps the invariant, and the users that are not the agent's.
LEMMA StepKeepsUsersInv ==
  ASSUME UsersInv, [UsersNext]_usersVars
  PROVE  UsersInv' /\ OthersAlone
<1> Alone => OthersAlone BY DEF Alone, OthersAlone, Others
<1>1. CASE UNCHANGED usersVars
  BY <1>1 DEF usersVars, UsersInv, UsersTypeOK, NotTheirs, HoldsSlot, SlotKnown, Others, OthersAlone
<1>3. CASE \E i \in Slot : OperatorAdds(i) \/ OperatorRemoves(i) BY <1>3, OperatorKeepsInv
<1>2. CASE SessionNext
  <2>1. PICK s \in Session :
          \/ FindSession(s) \/ InsertSession(s) \/ UserAnswer(s)
          \/ KVMStarted(s) \/ KVMFailed(s) \/ Undone(s) \/ StopSession(s)
          \/ ListUsers(s) \/ CleanAndChoose(s) \/ SetName(s) \/ SetPassword(s) \/ EnableUser(s)
          \/ \E b \in By : DisableUser(s, b) \/ ClearUser(s, b)
    BY <1>2 DEF SessionNext
  <2>2. CASE \/ FindSession(s) \/ InsertSession(s) \/ UserAnswer(s) \/ KVMStarted(s)
             \/ KVMFailed(s) \/ Undone(s) \/ StopSession(s)
    BY <2>2, BackendKeepsInv DEF Alone
  <2>3. CASE ListUsers(s) BY <2>3, ListKeepsInv
  <2>4. CASE CleanAndChoose(s) BY <2>4, CleanKeepsInv
  <2>5. CASE SetName(s) \/ SetPassword(s) \/ EnableUser(s) BY <2>5, WritesKeepInv
  <2>6. CASE \E b \in By : DisableUser(s, b) \/ ClearUser(s, b) BY <2>6, DeletionKeepsInv
  <2> QED BY <2>1, <2>2, <2>3, <2>4, <2>5, <2>6
<1> QED BY <1>1, <1>2, <1>3 DEF UsersNext

\* Sessions are given slots of the BMC, or none, and requests have the states the
\* actions give them.
THEOREM UsersTypeCorrect == UsersSpec => []UsersTypeOK
<1>1. UsersInv /\ [UsersNext]_usersVars => UsersInv'
  BY StepKeepsUsersInv
<1>2. UsersInv => UsersTypeOK
  BY DEF UsersInv
<1> QED BY <1>1, <1>2, UsersInvInit, PTL DEF UsersSpec

\* Creations, removals of orphans, undone starts and stops of any number of sessions,
\* their commands interleaved in any way with one another and with operators who add
\* and remove users, never touch a user an operator added to a slot nobody held, or who
\* was there before; those added to a slot that was held are exposed.
THEOREM OthersAreKept == UsersSpec => OtherUsersKept
<1>1. UsersInv /\ [UsersNext]_usersVars => UsersInv' /\ [OthersAlone]_usersVars
  BY StepKeepsUsersInv
<1>2. UsersSpec => [][OthersAlone]_usersVars
  BY <1>1, UsersInvInit, PTL DEF UsersSpec
<1> QED BY <1>2 DEF OtherUsersKept, OthersAlone

-----------------------------------------------------------------------------
\* Sessions one at a time.

Done == {"kvm", "undo", "active", "failed"}

\* The agent works for s, or a user of s is for use.
Involved(s) == Busy(s) \/ (create[s] = "ok" /\ s \in live)

\* A session's life, whatever overlaps: what was asked for it and when, and that its
\* name is nowhere but in the slot it chose.
Life(s) ==
  /\ start[s] \in {"idle", "passed", "joined"} =>
       create[s] = "none" /\ s \notin live /\ delete[s]["stopper"] = "none"
  /\ start[s] \in {"user", "kvm", "undo"} => s \in live \union hurried
  /\ delete[s]["starter"] # "none" => start[s] \in {"undo", "failed"}
  /\ delete[s]["stopper"] # "none" => s \notin live
  /\ \A i \in Slot : bmc[i].name = s => i = at[s] /\ create[s] \in {"named", "keyed", "ok"}

\* While nothing overlaps, the backend knows the outcome of a creation and its slot, ...
Known(s) ==
  /\ IF start[s] \in Done
     THEN create[s] \in {"none", "ok", "error"} /\ slot[s] = IF create[s] = "ok" THEN at[s] ELSE 0
     ELSE slot[s] = 0
  /\ \A b \in By : delete[s][b] # "none" => slot[s] # 0
  /\ start[s] = "undo" /\ slot[s] # 0 => delete[s]["starter"] # "none"

\* ... and the slot has what was put there, until it is cleared for the session.
Put(s) ==
  /\ create[s] \in {"named", "keyed"} => bmc[at[s]].name = s
  /\ create[s] = "keyed" => bmc[at[s]].key = s
  /\ create[s] = "ok" /\ s \in live /\ (\A b \in By : delete[s][b] = "none") =>
       bmc[at[s]].name = s /\ bmc[at[s]].key = s /\ bmc[at[s]].on = TRUE
  /\ \A i \in Slot : bmc[i].name = s =>
       /\ \A b \in By : delete[s][b] # "over"
       /\ s \in live \union hurried \/ Busy(s)

OneInvolved == \A s, t \in Session : Involved(s) /\ Involved(t) => s = t

SerialInv ==
  /\ UsersInv
  /\ \A s \in Session : Life(s)
  /\ ~overlap => OneInvolved /\ \A s \in Session : Known(s) /\ Put(s)

\* What a step for another session leaves of t.
Same(t) ==
  /\ start'[t] = start[t] /\ create'[t] = create[t] /\ slot'[t] = slot[t] /\ at'[t] = at[t]
  /\ delete'[t] = delete[t]
  /\ (t \in live' <=> t \in live) /\ (t \in hurried' <=> t \in hurried)

\* Asking for work on the BMC overlaps with what is involved there.
LEMMA OverlapsInvolved ==
  ASSUME NEW s \in Session
  PROVE  Overlaps(s) <=> overlap \/ \E t \in Session \ {s} : Involved(t)
BY DEF Overlaps, Involved

\* It holds at first.
LEMMA SerialInvInit == UsersInit => SerialInv
<1> SUFFICES ASSUME UsersInit PROVE SerialInv
    OBVIOUS
<1>1. UsersInv
  BY UsersInvInit
<1>2. \A i \in Slot : bmc[i].name \notin Session
  <2>1. \A i \in Slot : bmc[i] \in {Empty, OperatorsUser}
    BY DEF UsersInit
  <2> QED BY <2>1, NameAssumption DEF Empty, OperatorsUser
<1>3. \A s \in Session : Life(s) /\ Known(s) /\ Put(s) /\ ~Involved(s)
  BY <1>2 DEF UsersInit, Life, Known, Put, Involved, Busy, Done, By
<1> QED BY <1>1, <1>3 DEF SerialInv, OneInvolved

\* A step for session s that leaves the others as they are, and does not name one of
\* them, keeps the invariant when it does so for s, when nobody else is involved once
\* s is, and when the BMC changes only while nobody else is involved.
LEMMA StepForOne ==
  ASSUME SerialInv, NEW s \in Session, UsersInv', Life(s)', overlap => overlap',
         \A t \in Session \ {s} : Same(t) /\ \A i \in Slot : bmc'[i].name = t => bmc[i].name = t,
         ~overlap' => /\ Known(s)' /\ Put(s)'
                      /\ Involved(s)' => Involved(s) \/ \A t \in Session \ {s} : ~Involved(t)
                      /\ UNCHANGED bmc \/ \A t \in Session \ {s} : ~Involved(t)
  PROVE  SerialInv'
<1>1. \A t \in Session \ {s} : Life(t)'
  BY DEF SerialInv, Life, Same
<1>2. \A t \in Session \ {s} : Involved(t)' <=> Involved(t)
  BY DEF Same, Involved, Busy
<1>3. ASSUME ~overlap' PROVE OneInvolved' /\ \A t \in Session : Known(t)' /\ Put(t)'
  <2>1. ~overlap /\ OneInvolved /\ \A t \in Session : Known(t) /\ Put(t)
    BY <1>3 DEF SerialInv
  <2>2. OneInvolved'
    BY <1>2, <1>3, <2>1 DEF OneInvolved
  <2>3. \A t \in Session \ {s} : Known(t)'
    BY <2>1 DEF Known, Same
  <2>4. ASSUME NEW t \in Session \ {s} PROVE Put(t)'
    <3>1. Put(t) /\ Same(t) /\ (Busy(t)' <=> Busy(t))
      BY <2>1 DEF Same, Busy
    <3>2. CASE UNCHANGED bmc
      BY <3>1, <3>2 DEF Put, Same
    <3>3. CASE ~Involved(t)
      BY <3>1, <3>3 DEF Put, Same, Involved, Busy
    <3> QED BY <1>3, <3>2, <3>3
  <2> QED BY <1>3, <2>2, <2>3, <2>4
<1> QED BY <1>1, <1>3 DEF SerialInv

-----------------------------------------------------------------------------
\* The backend's steps, which leave the BMC as it is.

\* A step of the backend is for one session: it leaves the others and the BMC as they are.
LEMMA BackendIsForOne ==
  ASSUME UsersInv, NEW s \in Session,
         \/ FindSession(s) \/ InsertSession(s) \/ UserAnswer(s) \/ KVMStarted(s)
         \/ KVMFailed(s) \/ Undone(s) \/ StopSession(s)
  PROVE  /\ UNCHANGED <<bmc, at>> /\ overlap => overlap'
         /\ \A t \in Session \ {s} : Same(t) /\ \A i \in Slot : bmc'[i].name = t => bmc[i].name = t
<1>1. UNCHANGED <<bmc, at>> /\ (overlap => overlap')
  BY DEF FindSession, InsertSession, UserAnswer, KVMStarted, KVMFailed, Undone, StopSession,
         DeleteTempUser, Overlaps
<1>2. \A t \in Session \ {s} : Same(t)
  BY DEF FindSession, InsertSession, UserAnswer, KVMStarted, KVMFailed, Undone, StopSession,
         DeleteTempUser, Same, UsersInv, UsersTypeOK
<1> QED BY <1>1, <1>2

\* A deletion that is asked for, or cannot be.
LEMMA DeleteAsked ==
  ASSUME UsersInv, NEW s \in Session, NEW b \in By, DeleteTempUser(s, b)
  PROVE  /\ \A c \in By \ {b} : delete'[s][c] = delete[s][c]
         /\ delete'[s][b] # "none"
         /\ ~overlap' => /\ delete'[s][b] = "sent"
                         /\ \A t \in Session \ {s} : ~Involved(t)
<1>1. \E to \in {"sent", "over"} : /\ delete' = [delete EXCEPT ![s] = [delete[s] EXCEPT ![b] = to]]
                                   /\ overlap' = IF to = "sent" THEN Overlaps(s) ELSE TRUE
  BY DEF DeleteTempUser
<1>2. delete[s] \in [By -> {"none", "sent", "disabled", "over"}] /\ DOMAIN delete = Session
  BY DEF UsersInv, UsersTypeOK
<1> QED BY <1>1, <1>2, OverlapsInvolved

\* The search for a session keeps the invariant.
LEMMA FindKeepsSerial ==
  ASSUME SerialInv, UsersInv', NEW s \in Session, FindSession(s)
  PROVE  SerialInv'
<1>1. /\ start[s] = "idle" /\ start'[s] \in {"passed", "joined"}
      /\ UNCHANGED <<live, slot, create, at, delete, bmc, overlap, hurried>>
  BY DEF FindSession, SerialInv, UsersInv, UsersTypeOK
<1>2. Life(s) /\ (~overlap => Known(s) /\ Put(s))
  BY DEF SerialInv
<1>3. Life(s)'
  BY <1>1, <1>2 DEF Life
<1>4. Known(s) => Known(s)'
  BY <1>1 DEF Known, Done
<1>5. (Put(s) => Put(s)') /\ (Involved(s)' => Involved(s))
  BY <1>1 DEF Put, Involved, Busy
<1> QED BY <1>1, <1>2, <1>3, <1>4, <1>5, BackendIsForOne, StepForOne DEF SerialInv

\* A request for a user is sent when nothing else is involved, or that is an overlap.
LEMMA InsertKeepsSerial ==
  ASSUME SerialInv, UsersInv', NEW s \in Session, InsertSession(s)
  PROVE  SerialInv'
<1>1. /\ start[s] = "passed" /\ live' = live \union {s}
      /\ \/ start'[s] = "user" /\ create'[s] = "sent" /\ overlap' = Overlaps(s)
         \/ start'[s] = "kvm" /\ UNCHANGED <<create, overlap>>
      /\ UNCHANGED <<slot, at, delete, bmc, hurried>>
  BY DEF InsertSession, SerialInv, UsersInv, UsersTypeOK
<1>2. /\ Life(s) /\ (~overlap' => ~overlap /\ Known(s) /\ Put(s))
      /\ create[s] = "none"
  <2>1. overlap => overlap'
    <3>1. CASE overlap' = Overlaps(s)
      BY <3>1 DEF Overlaps
    <3> QED BY <1>1, <3>1
  <2> QED BY <1>1, <2>1 DEF SerialInv, Life
<1>3. Life(s)'
  BY <1>1, <1>2 DEF Life
<1>4. Known(s) => Known(s)'
  BY <1>1, <1>2 DEF Known, Done
<1>5. Put(s)'
  BY <1>1, <1>2 DEF Put, Life
<1>6. ~overlap' /\ Involved(s)' => Involved(s) \/ \A t \in Session \ {s} : ~Involved(t)
  BY <1>1, <1>2, OverlapsInvolved DEF Involved, Busy
<1> QED BY <1>1, <1>2, <1>3, <1>4, <1>5, <1>6, BackendIsForOne, StepForOne DEF SerialInv

\* The receipt of the agent's answer to a creation keeps it.
LEMMA AnswerKeepsSerial ==
  ASSUME SerialInv, UsersInv', NEW s \in Session, UserAnswer(s)
  PROVE  SerialInv'
<1>1. /\ start[s] = "user" /\ start'[s] = "kvm"
      /\ \/ /\ create[s] \in {"ok", "error"}
            /\ slot'[s] = IF create[s] = "ok" THEN at[s] ELSE 0
            /\ UNCHANGED overlap
         \/ overlap' = TRUE
      /\ UNCHANGED <<live, create, at, delete, bmc, hurried>>
  BY DEF UserAnswer, SerialInv, UsersInv, UsersTypeOK
<1>2. Life(s) /\ (~overlap' => ~overlap /\ Known(s) /\ Put(s))
  BY <1>1 DEF SerialInv
<1>3. Life(s)'
  BY <1>1, <1>2 DEF Life
<1>4. ~overlap' => Known(s)'
  BY <1>1, <1>2 DEF Known, Done
<1>5. (Put(s) => Put(s)') /\ (Involved(s)' => Involved(s))
  BY <1>1 DEF Put, Involved, Busy
<1> QED BY <1>1, <1>2, <1>3, <1>4, <1>5, BackendIsForOne, StepForOne DEF SerialInv

\* The answer to kvm.start keeps it.
LEMMA StartedKeepsSerial ==
  ASSUME SerialInv, UsersInv', NEW s \in Session, KVMStarted(s)
  PROVE  SerialInv'
<1>1. /\ start[s] = "kvm" /\ start'[s] = "active"
      /\ UNCHANGED <<live, slot, create, at, delete, bmc, overlap, hurried>>
  BY DEF KVMStarted, SerialInv, UsersInv, UsersTypeOK
<1>2. Life(s) /\ (~overlap => Known(s) /\ Put(s))
  BY DEF SerialInv
<1>3. Life(s)'
  BY <1>1, <1>2 DEF Life
<1>4. Known(s) => Known(s)'
  BY <1>1 DEF Known, Done
<1>5. (Put(s) => Put(s)') /\ (Involved(s)' => Involved(s))
  BY <1>1 DEF Put, Involved, Busy
<1> QED BY <1>1, <1>2, <1>3, <1>4, <1>5, BackendIsForOne, StepForOne DEF SerialInv

\* A start that fails has its user deleted, if it has one.
LEMMA FailedKeepsSerial ==
  ASSUME SerialInv, UsersInv', NEW s \in Session, KVMFailed(s)
  PROVE  SerialInv'
<1>1. /\ start[s] = "kvm" /\ start'[s] = "undo"
      /\ IF slot[s] > 0 THEN DeleteTempUser(s, "starter") ELSE UNCHANGED <<delete, overlap>>
      /\ UNCHANGED <<live, slot, create, at, bmc, hurried>>
  BY DEF KVMFailed, SerialInv, UsersInv, UsersTypeOK
<1>2. Life(s) /\ (~overlap' => ~overlap /\ Known(s) /\ Put(s))
  BY <1>1 DEF SerialInv, DeleteTempUser, Overlaps
<1>3. /\ slot[s] > 0 => /\ delete'[s]["stopper"] = delete[s]["stopper"]
                        /\ delete'[s]["starter"] # "none"
                        /\ ~overlap' => /\ delete'[s]["starter"] = "sent"
                                        /\ \A t \in Session \ {s} : ~Involved(t)
      /\ ~(slot[s] > 0) => slot[s] = 0 /\ UNCHANGED <<delete, overlap>>
  <2>1. slot[s] \in Slot \union {0} /\ Slot \subseteq 3 .. 15
    BY SlotAssumption DEF SerialInv, UsersInv, UsersTypeOK
  <2>2. CASE slot[s] > 0
    <3>1. DeleteTempUser(s, "starter") /\ UsersInv
      BY <1>1, <2>2 DEF SerialInv
    <3>2. "starter" \in By /\ "stopper" \in By \ {"starter"}
      BY DEF By
    <3>3. /\ \A c \in By \ {"starter"} : delete'[s][c] = delete[s][c]
          /\ delete'[s]["starter"] # "none"
          /\ ~overlap' => /\ delete'[s]["starter"] = "sent"
                          /\ \A t \in Session \ {s} : ~Involved(t)
      BY <3>1, <3>2, DeleteAsked
    <3> QED BY <2>2, <3>2, <3>3
  <2>3. CASE ~(slot[s] > 0)
    <3>1. UNCHANGED <<delete, overlap>>
      BY <1>1, <2>3
    <3>2. slot[s] \in 3 .. 15 => slot[s] > 0
      OBVIOUS
    <3>3. slot[s] = 0
      BY <2>1, <2>3, <3>2
    <3> QED BY <2>3, <3>1, <3>3
  <2> QED BY <2>2, <2>3
<1>4. Life(s)'
  BY <1>1, <1>2, <1>3 DEF Life
<1>5. ~overlap' => Known(s)'
  BY <1>1, <1>2, <1>3 DEF Known, Done, By
<1>6. ASSUME ~overlap' PROVE Put(s)'
  <2>1. Busy(s) => Busy(s)'
    BY <1>1, <1>3, <1>6 DEF Busy, By
  <2> QED BY <1>1, <1>2, <1>3, <1>6, <2>1 DEF Put, By
<1>7. ~overlap' /\ Involved(s)' => Involved(s) \/ \A t \in Session \ {s} : ~Involved(t)
  BY <1>1, <1>3 DEF Involved, Busy
<1> QED BY <1>1, <1>2, <1>4, <1>5, <1>6, <1>7, BackendIsForOne, StepForOne DEF SerialInv

\* When its session goes, the deletion is through, or it is an overlap.
LEMMA UndoneKeepsSerial ==
  ASSUME SerialInv, UsersInv', NEW s \in Session, Undone(s)
  PROVE  SerialInv'
<1>1. /\ start[s] = "undo" /\ start'[s] = "failed" /\ live' = live \ {s}
      /\ overlap' = (overlap \/ delete[s]["starter"] \in {"sent", "disabled"})
      /\ UNCHANGED <<slot, create, at, delete, bmc, hurried>>
  BY DEF Undone, SerialInv, UsersInv, UsersTypeOK
<1>2. Life(s) /\ (~overlap' => ~overlap /\ Known(s) /\ Put(s))
  BY <1>1 DEF SerialInv
<1>3. Life(s)'
  BY <1>1, <1>2 DEF Life
<1>4. ~overlap' => Known(s)'
  BY <1>1, <1>2 DEF Known, Done
<1>5. ASSUME ~overlap' PROVE Put(s)'
  <2>1. ASSUME NEW i \in Slot, bmc[i].name = s PROVE FALSE
    <3>1. create[s] = "ok" /\ i = at[s] /\ slot[s] = at[s] /\ at[s] # 0
      BY <1>1, <1>2, <1>5, <2>1, SlotAssumption DEF Life, Known, Done
    <3>2. delete[s]["starter"] # "none" /\ delete[s]["starter"] # "over"
      BY <1>1, <1>2, <1>5, <2>1, <3>1 DEF Known, Put, By
    <3>3. delete[s]["starter"] \in {"none", "sent", "disabled", "over"}
      BY DEF SerialInv, UsersInv, UsersTypeOK, By
    <3> QED BY <1>1, <1>5, <3>2, <3>3
  <2>2. create[s] \notin {"named", "keyed"}
    BY <1>1, <1>2, <1>5 DEF Known, Done
  <2> QED BY <1>1, <1>2, <2>1, <2>2 DEF Put
<1>6. Involved(s)' => Involved(s)
  BY <1>1 DEF Involved, Busy
<1> QED BY <1>1, <1>2, <1>3, <1>4, <1>5, <1>6, BackendIsForOne, StepForOne DEF SerialInv

\* A session that is stopped when it is active has its user deleted; one that was
\* still starting is remembered as hurried.
LEMMA StopKeepsSerial ==
  ASSUME SerialInv, UsersInv', NEW s \in Session, StopSession(s)
  PROVE  SerialInv'
<1>1. /\ s \in live /\ live' = live \ {s}
      /\ hurried' = IF start[s] = "active" THEN hurried ELSE hurried \union {s}
      /\ IF slot[s] > 0 THEN DeleteTempUser(s, "stopper") ELSE UNCHANGED <<delete, overlap>>
      /\ UNCHANGED <<start, slot, create, at, bmc>>
  BY DEF StopSession
<1>2. Life(s) /\ (~overlap' => ~overlap /\ Known(s) /\ Put(s))
  BY <1>1 DEF SerialInv, DeleteTempUser, Overlaps
<1>3. /\ slot[s] > 0 => /\ delete'[s]["starter"] = delete[s]["starter"]
                        /\ delete'[s]["stopper"] # "none"
                        /\ ~overlap' => /\ delete'[s]["stopper"] = "sent"
                                        /\ \A t \in Session \ {s} : ~Involved(t)
      /\ ~(slot[s] > 0) => slot[s] = 0 /\ UNCHANGED <<delete, overlap>>
  <2>1. slot[s] \in Slot \union {0} /\ Slot \subseteq 3 .. 15
    BY SlotAssumption DEF SerialInv, UsersInv, UsersTypeOK
  <2>2. CASE slot[s] > 0
    <3>1. DeleteTempUser(s, "stopper") /\ UsersInv
      BY <1>1, <2>2 DEF SerialInv
    <3>2. "stopper" \in By /\ "starter" \in By \ {"stopper"}
      BY DEF By
    <3>3. /\ \A c \in By \ {"stopper"} : delete'[s][c] = delete[s][c]
          /\ delete'[s]["stopper"] # "none"
          /\ ~overlap' => /\ delete'[s]["stopper"] = "sent"
                          /\ \A t \in Session \ {s} : ~Involved(t)
      BY <3>1, <3>2, DeleteAsked
    <3> QED BY <2>2, <3>2, <3>3
  <2>3. CASE ~(slot[s] > 0)
    <3>1. UNCHANGED <<delete, overlap>>
      BY <1>1, <2>3
    <3>2. slot[s] \in 3 .. 15 => slot[s] > 0
      OBVIOUS
    <3>3. slot[s] = 0
      BY <2>1, <2>3, <3>2
    <3> QED BY <2>3, <3>1, <3>3
  <2> QED BY <2>2, <2>3
<1>4. Life(s)'
  BY <1>1, <1>2, <1>3 DEF Life
<1>5. ~overlap' => Known(s)'
  BY <1>1, <1>2, <1>3 DEF Known, Done, By
<1>6. ASSUME ~overlap' PROVE Put(s)'
  <2>1. Busy(s) => Busy(s)'
    BY <1>1, <1>3, <1>6 DEF Busy, By
  <2>2. ASSUME NEW i \in Slot, bmc[i].name = s
        PROVE  /\ \A b \in By : delete'[s][b] # "over"
               /\ s \in live' \union hurried' \/ Busy(s)'
    <3>1. \A b \in By : delete'[s][b] # "over"
      BY <1>2, <1>3, <1>6, <2>2 DEF Put, By
    <3>2. CASE start[s] # "active"
      BY <1>1, <3>1, <3>2
    <3>3. CASE start[s] = "active"
      <4>1. create[s] = "ok" /\ slot[s] = at[s] /\ at[s] = i
        BY <1>2, <1>6, <2>2, <3>3 DEF Known, Life, Done
      <4>2. slot[s] > 0
        BY <4>1, SlotAssumption
      <4>3. Busy(s)'
        BY <1>3, <1>6, <4>2 DEF Busy, By
      <4> QED BY <3>1, <4>3
    <3> QED BY <3>2, <3>3
  <2> QED BY <1>1, <1>2, <1>6, <2>2 DEF Put
<1>7. ~overlap' /\ Involved(s)' => Involved(s) \/ \A t \in Session \ {s} : ~Involved(t)
  BY <1>1, <1>3 DEF Involved, Busy
<1> QED BY <1>1, <1>2, <1>4, <1>5, <1>6, <1>7, BackendIsForOne, StepForOne DEF SerialInv

-----------------------------------------------------------------------------
\* The agent's commands, while nobody else is involved.

\* A step of the agent is for one session, and puts no other's name in a slot.
LEMMA AgentIsForOne ==
  ASSUME UsersInv, NEW s \in Session,
         \/ ListUsers(s) \/ CleanAndChoose(s) \/ SetName(s) \/ SetPassword(s) \/ EnableUser(s)
         \/ \E b \in By : DisableUser(s, b) \/ ClearUser(s, b)
  PROVE  /\ UNCHANGED <<live, start, slot, overlap, hurried>>
         /\ Busy(s)
         /\ \A t \in Session \ {s} : Same(t) /\ \A i \in Slot : bmc'[i].name = t => bmc[i].name = t
<1>1. UNCHANGED <<live, start, slot, overlap, hurried>> /\ Busy(s)
  BY DEF ListUsers, CleanAndChoose, SetName, SetPassword, EnableUser, Creates, DisableUser, ClearUser,
         Busy
<1>2. \A t \in Session \ {s} : create'[t] = create[t] /\ at'[t] = at[t] /\ delete'[t] = delete[t]
  BY DEF ListUsers, CleanAndChoose, SetName, SetPassword, EnableUser, Creates, DisableUser, ClearUser,
         UsersInv, UsersTypeOK
<1>3. \A i \in Slot : bmc'[i].name \in {bmc[i].name, s, None}
  <2>1. CASE ListUsers(s)
    BY <2>1 DEF ListUsers
  <2>2. CASE CleanAndChoose(s)
    BY <2>2 DEF CleanAndChoose, Empty
  <2>3. ASSUME NEW k \in Slot, NEW user, bmc' = [bmc EXCEPT ![k] = user],
               user.name \in {bmc[k].name, s, None}
        PROVE  \A i \in Slot : bmc'[i].name \in {bmc[i].name, s, None}
    BY <2>3 DEF UsersInv, UsersTypeOK
  <2>4. CASE SetName(s) \/ SetPassword(s) \/ EnableUser(s)
    <3>1. at[s] \in Slot /\ bmc[at[s]] \in [name : Session \union {Operator, None},
                                          key : Session \union {Operator, None}, on : BOOLEAN]
      BY <2>4 DEF SetName, SetPassword, EnableUser, Creates, UsersInv, UsersTypeOK, SlotKnown
    <3>2. \/ UNCHANGED bmc
          \/ bmc' = [bmc EXCEPT ![at[s]] = [bmc[at[s]] EXCEPT !.name = s]]
          \/ bmc' = [bmc EXCEPT ![at[s]] = [bmc[at[s]] EXCEPT !.key = s]]
          \/ bmc' = [bmc EXCEPT ![at[s]] = [bmc[at[s]] EXCEPT !.name = None]]
          \/ bmc' = [bmc EXCEPT ![at[s]] = [bmc[at[s]] EXCEPT !.on = TRUE]]
          \/ bmc' = [bmc EXCEPT ![at[s]] = [bmc[at[s]] EXCEPT !.name = None, !.on = FALSE]]
      BY <2>4, <3>1 DEF SetName, SetPassword, EnableUser, UsersInv, UsersTypeOK
    <3>3. /\ [bmc[at[s]] EXCEPT !.name = s].name = s
          /\ [bmc[at[s]] EXCEPT !.key = s].name = bmc[at[s]].name
          /\ [bmc[at[s]] EXCEPT !.name = None].name = None
          /\ [bmc[at[s]] EXCEPT !.on = TRUE].name = bmc[at[s]].name
          /\ [bmc[at[s]] EXCEPT !.name = None, !.on = FALSE].name = None
      BY <3>1
    <3> QED BY <2>3, <3>1, <3>2, <3>3
  <2>5. CASE \E b \in By : DisableUser(s, b) \/ ClearUser(s, b)
    <3>1. slot[s] \in Slot
      BY <2>5 DEF DisableUser, ClearUser, UsersInv, SlotKnown
    <3>2. bmc[slot[s]] \in [name : Session \union {Operator, None},
                            key : Session \union {Operator, None}, on : BOOLEAN]
      BY <3>1 DEF UsersInv, UsersTypeOK
    <3>3. \/ bmc' = [bmc EXCEPT ![slot[s]] = [bmc[slot[s]] EXCEPT !.on = FALSE]]
          \/ bmc' = [bmc EXCEPT ![slot[s]] = Empty]
      BY <2>5 DEF DisableUser, ClearUser
    <3>4. [bmc[slot[s]] EXCEPT !.on = FALSE].name = bmc[slot[s]].name /\ Empty.name = None
      BY <3>2 DEF Empty
    <3> QED BY <2>3, <3>1, <3>3, <3>4
  <2> QED BY <2>1, <2>2, <2>3, <2>4, <2>5
<1>4. \A t \in Session \ {s} : t # None
  BY NameAssumption
<1> QED BY <1>1, <1>2, <1>3, <1>4 DEF Same

\* A command for s finds nobody else involved, and then the rest is about s.
LEMMA AgentForOne ==
  ASSUME SerialInv, UsersInv', NEW s \in Session, Life(s)', ~overlap => Known(s)' /\ Put(s)',
         \/ ListUsers(s) \/ CleanAndChoose(s) \/ SetName(s) \/ SetPassword(s) \/ EnableUser(s)
         \/ \E b \in By : DisableUser(s, b) \/ ClearUser(s, b)
  PROVE  SerialInv'
<1>1. /\ UNCHANGED overlap /\ Busy(s)
      /\ \A t \in Session \ {s} : Same(t) /\ \A i \in Slot : bmc'[i].name = t => bmc[i].name = t
  BY AgentIsForOne DEF SerialInv
<1>2. Involved(s)
  BY <1>1 DEF Involved
<1>3. ~overlap => \A t \in Session \ {s} : ~Involved(t)
  BY <1>2 DEF SerialInv, OneInvolved
<1> QED BY <1>1, <1>2, <1>3, StepForOne

Creating == {"sent", "listed", "chosen", "named", "keyed"}

\* While a user is made for a session it waits for it, and has nothing to delete.
LEMMA WaitsForUser ==
  ASSUME SerialInv, ~overlap, NEW s \in Session, create[s] \in Creating
  PROVE  /\ start[s] = "user" /\ slot[s] = 0 /\ s \in live \union hurried
         /\ \A b \in By : delete[s][b] = "none"
<1>1. Life(s) /\ Known(s)
  BY DEF SerialInv
<1>2. start[s] \in {"idle", "passed", "user", "kvm", "undo", "active", "joined", "failed"}
  BY DEF SerialInv, UsersInv, UsersTypeOK
<1>3. start[s] \notin Done /\ start[s] \notin {"idle", "passed", "joined"}
  BY <1>1 DEF Life, Known, Creating
<1> QED BY <1>1, <1>2, <1>3 DEF Life, Known, Done

\* Until its name is written, and when it is cleared, a session's name is nowhere.
LEMMA CreateKeepsSerial ==
  ASSUME SerialInv, UsersInv', NEW s \in Session, NEW to \in {"listed", "chosen", "error"},
         create[s] \in Creating, create'[s] = to, UNCHANGED delete,
         \A i \in Slot : bmc'[i].name # s,
         \/ ListUsers(s) \/ CleanAndChoose(s) \/ SetName(s) \/ SetPassword(s) \/ EnableUser(s)
  PROVE  SerialInv'
<1>1. UNCHANGED <<live, start, slot, overlap, hurried>>
  BY AgentIsForOne DEF SerialInv
<1>2. Life(s)'
  BY <1>1 DEF SerialInv, Life, Creating
<1>3. ASSUME ~overlap PROVE Known(s)' /\ Put(s)'
  <2>1. start[s] = "user" /\ slot[s] = 0 /\ \A b \in By : delete[s][b] = "none"
    BY <1>3, WaitsForUser
  <2>2. Known(s)'
    BY <1>1, <2>1 DEF Known, Done
  <2>3. Put(s)'
    BY DEF Put
  <2> QED BY <2>2, <2>3
<1> QED BY <1>2, <1>3, AgentForOne

\* The name is written to the slot chosen; the password and the privileges follow it.
LEMMA WriteKeepsSerial ==
  ASSUME SerialInv, UsersInv', NEW s \in Session, NEW to \in {"named", "keyed", "ok"},
         create[s] \in Creating, create'[s] = to, UNCHANGED <<at, delete>>,
         \A i \in Slot : bmc'[i].name = s => i = at[s],
         ~overlap => /\ to \in {"named", "keyed", "ok"} => bmc'[at[s]].name = s
                     /\ to \in {"keyed", "ok"} => bmc'[at[s]].key = s
                     /\ to = "ok" => bmc'[at[s]].on = TRUE,
         SetName(s) \/ SetPassword(s) \/ EnableUser(s)
  PROVE  SerialInv'
<1>1. UNCHANGED <<live, start, slot, overlap, hurried>>
  BY AgentIsForOne DEF SerialInv
<1>2. Life(s)'
  BY <1>1 DEF SerialInv, Life, Creating
<1>3. ASSUME ~overlap PROVE Known(s)' /\ Put(s)'
  <2>1. /\ start[s] = "user" /\ slot[s] = 0 /\ s \in live \union hurried
        /\ \A b \in By : delete[s][b] = "none"
    BY <1>3, WaitsForUser
  <2>2. Known(s)'
    BY <1>1, <2>1 DEF Known, Done
  <2>3. Put(s)'
    BY <1>1, <1>3, <2>1 DEF Put
  <2> QED BY <2>2, <2>3
<1> QED BY <1>2, <1>3, AgentForOne

\* The commands that create a user keep it.
LEMMA CommandsKeepSerial ==
  ASSUME SerialInv, UsersInv', NEW s \in Session,
         \/ ListUsers(s) \/ CleanAndChoose(s) \/ SetName(s) \/ SetPassword(s) \/ EnableUser(s)
  PROVE  SerialInv'
<1>1. /\ \A i \in Slot : bmc[i].name = s => i = at[s] /\ create[s] \in {"named", "keyed", "ok"}
      /\ ~overlap => /\ create[s] \in {"named", "keyed"} => bmc[at[s]].name = s
                     /\ create[s] = "keyed" => bmc[at[s]].key = s
  BY DEF SerialInv, Life, Put
<1>2. create[s] \in {"chosen", "named", "keyed"} => at[s] \in Slot
  BY DEF SerialInv, UsersInv, SlotKnown
<1>3. s # None
  BY NameAssumption
<1>4. CASE ListUsers(s)
  <2>1. /\ create[s] = "sent" /\ create'[s] \in {"listed", "error"} /\ UNCHANGED <<delete, bmc>>
    BY <1>4 DEF ListUsers, Creates, SerialInv, UsersInv, UsersTypeOK
  <2>2. \A i \in Slot : bmc'[i].name # s
    BY <1>1, <2>1
  <2>3. create'[s] \in {"listed", "chosen", "error"} /\ create[s] \in Creating
    BY <2>1 DEF Creating
  <2> QED BY <1>4, <2>1, <2>2, <2>3, CreateKeepsSerial
<1>5. CASE CleanAndChoose(s)
  <2>1. /\ create[s] = "listed" /\ create'[s] \in {"chosen", "error"} /\ UNCHANGED delete
        /\ \A i \in Slot : bmc'[i] \in {Empty, bmc[i]}
    BY <1>5 DEF CleanAndChoose, Creates, SerialInv, UsersInv, UsersTypeOK
  <2>2. \A i \in Slot : bmc'[i].name # s
    BY <1>1, <1>3, <2>1 DEF Empty
  <2>3. create'[s] \in {"listed", "chosen", "error"} /\ create[s] \in Creating
    BY <2>1 DEF Creating
  <2> QED BY <1>5, <2>1, <2>2, <2>3, CreateKeepsSerial
<1>6. CASE SetName(s)
  <2>1. create[s] = "chosen" /\ create[s] \in Creating /\ UNCHANGED <<delete, at>>
    BY <1>6 DEF SetName, Creates, Creating
  <2>2. CASE create'[s] = "error" /\ UNCHANGED bmc
    <3>1. \A i \in Slot : bmc'[i].name # s
      BY <1>1, <2>1, <2>2
    <3> QED BY <1>6, <2>1, <2>2, <3>1, CreateKeepsSerial
  <2>3. CASE create'[s] = "named" /\ bmc' = [bmc EXCEPT ![at[s]].name = s]
    <3>1. /\ \A i \in Slot : bmc'[i].name = s => i = at[s]
          /\ bmc'[at[s]].name = s
      BY <1>1, <1>2, <2>1, <2>3 DEF SerialInv, UsersInv, UsersTypeOK
    <3> QED BY <1>6, <2>1, <2>3, <3>1, WriteKeepsSerial
  <2> QED BY <1>6, <2>2, <2>3 DEF SetName, Creates, SerialInv, UsersInv, UsersTypeOK
<1>7. CASE SetPassword(s)
  <2>1. create[s] = "named" /\ create[s] \in Creating /\ UNCHANGED <<delete, at>>
    BY <1>7 DEF SetPassword, Creates, Creating
  <2>2. CASE create'[s] = "error" /\ bmc' = [bmc EXCEPT ![at[s]].name = None]
    <3>1. \A i \in Slot : bmc'[i].name # s
      BY <1>1, <1>3, <2>2 DEF SerialInv, UsersInv, UsersTypeOK
    <3> QED BY <1>7, <2>1, <2>2, <3>1, CreateKeepsSerial
  <2>3. CASE create'[s] = "keyed" /\ bmc' = [bmc EXCEPT ![at[s]].key = s]
    <3>1. /\ \A i \in Slot : bmc'[i].name = s => i = at[s]
          /\ bmc'[at[s]].key = s /\ bmc'[at[s]].name = bmc[at[s]].name
      BY <1>1, <1>2, <2>1, <2>3 DEF SerialInv, UsersInv, UsersTypeOK
    <3>2. ~overlap => bmc'[at[s]].name = s
      BY <1>1, <2>1, <3>1
    <3> QED BY <1>7, <2>1, <2>3, <3>1, <3>2, WriteKeepsSerial
  <2> QED BY <1>7, <2>2, <2>3 DEF SetPassword, Creates, SerialInv, UsersInv, UsersTypeOK
<1>8. CASE EnableUser(s)
  <2>1. create[s] = "keyed" /\ create[s] \in Creating /\ UNCHANGED <<delete, at>>
    BY <1>8 DEF EnableUser, Creates, Creating
  <2>2. CASE create'[s] = "error" /\ bmc' = [bmc EXCEPT ![at[s]].name = None, ![at[s]].on = FALSE]
    <3>1. \A i \in Slot : bmc'[i].name # s
      BY <1>1, <1>3, <2>2 DEF SerialInv, UsersInv, UsersTypeOK
    <3> QED BY <1>8, <2>1, <2>2, <3>1, CreateKeepsSerial
  <2>3. CASE create'[s] = "ok" /\ bmc' = [bmc EXCEPT ![at[s]].on = TRUE]
    <3>1. /\ \A i \in Slot : bmc'[i].name = s => i = at[s]
          /\ bmc'[at[s]].on = TRUE /\ bmc'[at[s]].name = bmc[at[s]].name
          /\ bmc'[at[s]].key = bmc[at[s]].key
      BY <1>1, <1>2, <2>1, <2>3 DEF SerialInv, UsersInv, UsersTypeOK
    <3>2. ~overlap => bmc'[at[s]].name = s /\ bmc'[at[s]].key = s
      BY <1>1, <2>1, <3>1
    <3> QED BY <1>8, <2>1, <2>3, <3>1, <3>2, WriteKeepsSerial
  <2> QED BY <1>8, <2>2, <2>3 DEF EnableUser, Creates, SerialInv, UsersInv, UsersTypeOK
<1> QED BY <1>4, <1>5, <1>6, <1>7, <1>8

\* A deletion clears the slot its session was given, and no other has its name.
LEMMA DeletionKeepsSerial ==
  ASSUME SerialInv, UsersInv', NEW s \in Session, NEW b \in By, DisableUser(s, b) \/ ClearUser(s, b)
  PROVE  SerialInv'
<1>1. /\ UNCHANGED <<live, start, slot, create, at, overlap, hurried>>
      /\ delete[s][b] \in {"sent", "disabled"} /\ delete'[s][b] # "none"
      /\ \A c \in By \ {b} : delete'[s][c] = delete[s][c]
      /\ slot[s] \in Slot
  BY DEF DisableUser, ClearUser, SerialInv, UsersInv, UsersTypeOK, SlotKnown
<1>2. \A i \in Slot : bmc'[i].name = s => bmc[i].name = s
  <2>1. bmc[slot[s]] \in [name : Session \union {Operator, None},
                          key : Session \union {Operator, None}, on : BOOLEAN]
    BY <1>1 DEF SerialInv, UsersInv, UsersTypeOK
  <2>2. \/ bmc' = [bmc EXCEPT ![slot[s]] = [bmc[slot[s]] EXCEPT !.on = FALSE]]
        \/ bmc' = [bmc EXCEPT ![slot[s]] = Empty]
    BY DEF DisableUser, ClearUser
  <2>3. [bmc[slot[s]] EXCEPT !.on = FALSE].name = bmc[slot[s]].name /\ Empty.name # s
    BY <2>1, NameAssumption DEF Empty
  <2> QED BY <1>1, <2>2, <2>3 DEF SerialInv, UsersInv, UsersTypeOK
<1>3. \A c \in By : delete'[s][c] # "none" <=> delete[s][c] # "none"
  BY <1>1
<1>4. Life(s)'
  BY <1>1, <1>2, <1>3 DEF SerialInv, Life, By
<1>5. ASSUME ~overlap PROVE Known(s)' /\ Put(s)'
  <2>1. Life(s) /\ Known(s) /\ Put(s) /\ slot[s] # 0
    BY <1>1, <1>5, SlotAssumption DEF SerialInv
  <2>2. Known(s)'
    BY <1>1, <1>3, <2>1 DEF Known, By
  <2>3. create[s] = "ok" /\ slot[s] = at[s]
    BY <2>1 DEF Known
  <2>4. CASE DisableUser(s, b)
    <3>1. delete'[s][b] = "disabled"
      BY <2>4 DEF DisableUser, SerialInv, UsersInv, UsersTypeOK
    <3>2. Busy(s)'
      BY <3>1 DEF Busy
    <3>3. \A i \in Slot : bmc'[i].name = s => \A c \in By : delete'[s][c] # "over"
      BY <1>1, <1>2, <2>1, <3>1 DEF Put
    <3> QED BY <1>1, <2>2, <2>3, <3>1, <3>2, <3>3 DEF Put
  <2>5. CASE ClearUser(s, b)
    <3>1. bmc'[at[s]].name = None
      BY <1>1, <2>3, <2>5 DEF ClearUser, Empty, SerialInv, UsersInv, UsersTypeOK
    <3>2. \A i \in Slot : bmc'[i].name # s
      BY <1>2, <2>1, <3>1, NameAssumption DEF Life
    <3> QED BY <1>1, <2>2, <2>3, <3>2 DEF Put
  <2> QED BY <2>4, <2>5
<1> QED BY <1>4, <1>5, AgentForOne

\* Operators use slots without a name: none that a session's user is in.
LEMMA OperatorKeepsSerial ==
  ASSUME SerialInv, UsersInv', NEW i \in Slot, OperatorAdds(i) \/ OperatorRemoves(i)
  PROVE  SerialInv'
<1>1. UNCHANGED <<live, start, slot, create, orphans, at, delete, overlap, hurried>>
  BY DEF OperatorAdds, OperatorRemoves
<1>2. /\ bmc[i].name \notin Session /\ bmc'[i].name \notin Session
      /\ \A j \in Slot \ {i} : bmc'[j] = bmc[j]
  BY NameAssumption DEF OperatorAdds, OperatorRemoves, Empty, OperatorsUser, SerialInv, UsersInv,
     UsersTypeOK
<1>3. \A s \in Session : Busy(s)' = Busy(s) /\ Involved(s)' = Involved(s)
  BY <1>1 DEF Busy, Involved
<1>4. \A s \in Session : Life(s)' BY <1>1, <1>2 DEF SerialInv, Life
<1>5. ASSUME ~overlap, NEW s \in Session PROVE Known(s)' /\ Put(s)'
  <2>1. Known(s) /\ Put(s) BY <1>5 DEF SerialInv
  <2>2. create[s] \in {"named", "keyed", "ok"} => at[s] \in Slot
    BY DEF SerialInv, UsersInv, SlotKnown
  <2>3. bmc[at[s]].name = s /\ at[s] \in Slot => bmc'[at[s]] = bmc[at[s]] BY <1>2
  <2>4. \A j \in Slot : bmc'[j].name = s => bmc[j].name = s BY <1>2
  <2>5. Known(s)' BY <1>1, <2>1 DEF Known
  <2>6. Put(s)' BY <1>1, <1>3, <2>1, <2>2, <2>3, <2>4 DEF Put
  <2> QED BY <2>5, <2>6
<1> QED BY <1>1, <1>3, <1>4, <1>5 DEF SerialInv, OneInvolved

\* Every step keeps the invariant of sessions one at a time.
LEMMA StepKeepsSerial ==
  ASSUME SerialInv, [UsersNext]_usersVars
  PROVE  SerialInv'
<1>1. UsersInv'
  BY StepKeepsUsersInv DEF SerialInv
<1>2. CASE UNCHANGED usersVars
  BY <1>1, <1>2 DEF usersVars, SerialInv, Life, Known, Put, OneInvolved, Involved, Busy
<1>4. CASE \E i \in Slot : OperatorAdds(i) \/ OperatorRemoves(i)
  BY <1>1, <1>4, OperatorKeepsSerial
<1>3. CASE SessionNext
  <2>1. PICK s \in Session :
          \/ FindSession(s) \/ InsertSession(s) \/ UserAnswer(s)
          \/ KVMStarted(s) \/ KVMFailed(s) \/ Undone(s) \/ StopSession(s)
          \/ ListUsers(s) \/ CleanAndChoose(s) \/ SetName(s) \/ SetPassword(s) \/ EnableUser(s)
          \/ \E b \in By : DisableUser(s, b) \/ ClearUser(s, b)
    BY <1>3 DEF SessionNext
  <2>2. CASE FindSession(s) \/ InsertSession(s) \/ UserAnswer(s)
    BY <1>1, <2>2, FindKeepsSerial, InsertKeepsSerial, AnswerKeepsSerial
  <2>3. CASE KVMStarted(s) \/ KVMFailed(s)
    BY <1>1, <2>3, StartedKeepsSerial, FailedKeepsSerial
  <2>4. CASE Undone(s) \/ StopSession(s)
    BY <1>1, <2>4, UndoneKeepsSerial, StopKeepsSerial
  <2>5. CASE ListUsers(s) \/ CleanAndChoose(s) \/ SetName(s) \/ SetPassword(s) \/ EnableUser(s)
    BY <1>1, <2>5, CommandsKeepSerial
  <2>6. CASE \E b \in By : DisableUser(s, b) \/ ClearUser(s, b)
    BY <1>1, <2>6, DeletionKeepsSerial
  <2> QED BY <2>1, <2>2, <2>3, <2>4, <2>5, <2>6
<1> QED BY <1>2, <1>3, <1>4 DEF UsersNext

\* It implies the property.
LEMMA SerialIsTidy == SerialInv => SerialSessionsTidy
<1> SUFFICES ASSUME SerialInv, ~overlap
             PROVE  /\ ActiveSessionHasUser
                    /\ \A i \in Slot : bmc[i].name \in Session \ hurried =>
                         bmc[i].name \in live \/ Busy(bmc[i].name)
    BY DEF SerialSessionsTidy
<1>1. ASSUME NEW s \in live, start[s] = "active", slot[s] > 0
      PROVE  HasUser(s)
  <2>1. s \in Session /\ Life(s) /\ Known(s) /\ Put(s)
    BY DEF SerialInv, UsersInv, UsersTypeOK
  <2>2. create[s] = "ok" /\ slot[s] = at[s]
    BY <1>1, <2>1 DEF Known, Done
  <2>3. \A b \in By : delete[s][b] = "none"
    <3>1. delete[s]["starter"] = "none" /\ delete[s]["stopper"] = "none"
      BY <1>1, <2>1 DEF Life
    <3> QED BY <3>1 DEF By
  <2>4. bmc[slot[s]].name = s /\ bmc[slot[s]].key = s /\ bmc[slot[s]].on = TRUE
    BY <2>1, <2>2, <2>3 DEF Put
  <2>5. bmc[slot[s]] \in [name : Session \union {Operator, None},
                         key : Session \union {Operator, None}, on : BOOLEAN]
    <3>1. slot[s] \in Slot
      BY <2>1, <2>2 DEF SerialInv, UsersInv, SlotKnown
    <3> QED BY <3>1 DEF SerialInv, UsersInv, UsersTypeOK
  <2> QED BY <2>4, <2>5 DEF HasUser
<1>2. ASSUME NEW i \in Slot, bmc[i].name \in Session \ hurried
      PROVE  bmc[i].name \in live \/ Busy(bmc[i].name)
  BY <1>2 DEF SerialInv, Put
<1> QED BY <1>1, <1>2 DEF ActiveSessionHasUser

\* While the agent works for one session of a BMC at a time, whatever fails and whenever
\* sessions are stopped: an active session has the user it was given, and a user
\* of a session that is over is on its way out, or was left by a stop before the
\* session was active (ipmi_user.go; kvm_service.go's undo and StopSession).
THEOREM SerialSessionsAreTidy == UsersSpec => []SerialSessionsTidy
<1>1. SerialInv /\ [UsersNext]_usersVars => SerialInv'
  BY StepKeepsSerial
<1> QED BY <1>1, SerialInvInit, SerialIsTidy, PTL DEF UsersSpec

-----------------------------------------------------------------------------
\* The relay of a session.

\* Who makes relay slots, and who has: the answers to two requests, and the agent.
Maker == {"starter", "joiner", "agent"}
MadeOne == {x \in Maker : \/ x = "starter" /\ starter = "done"
                          \/ x = "joiner" /\ joiner = "done"
                          \/ x = "agent" /\ handler \in {"in", "out"}}

Taken(i) == \/ relay[i].agent \/ relay[i].done
            \/ i = held \/ i = entry \/ \E b \in Browser : i = seat[b]

\* Each slot was made by one of them, who makes one at most, or none at all when there
\* is one already: who has none yet finds one to make.
SlotsInv == \E f \in [Maker -> Relay] : \A i \in Relay : Taken(i) => \E x \in MadeOne : i = f[x]

\* The agent connects once, to the slot it holds from then on; whatever slot is in the map
\* then, or a browser sits in, it is the agent's only if it is that one.
PairInv ==
  /\ vnc \in {"none", "dial"} => handler = "none"
  /\ container \in {"none", "booting"} => vnc = "none"
  /\ handler \in {"none", "valid"} => held = 0
  /\ handler \in {"in", "out"} => held # 0
  /\ \A i \in Relay : relay[i].agent <=> i = held
  /\ handler = "out" => relay[held].done

\* A browser that data is passed on to, or was, sits in the slot the agent holds.
BrowserMeetsAgent ==
  \A b \in Browser : browser[b] \in {"relay", "ended"} => seat[b] = held /\ handler \in {"in", "out"}

RelayInv ==
  /\ RelayTypeOK
  /\ handler \in {"none", "valid", "in", "out"}
  /\ seat \in [Browser -> {0} \union Relay]
  /\ browser \in [Browser -> {"none", "valid", "wait", "relay", "ended", "gone"}]
  /\ PairInv
  /\ SlotsInv
  /\ BrowserMeetsAgent


\* The invariant holds at first.
LEMMA RelayInvInit == RelayInit => RelayInv
<1> SUFFICES ASSUME RelayInit PROVE RelayInv
    OBVIOUS
<1>1. \A i \in Relay : ~relay[i].agent /\ ~relay[i].done /\ ~Taken(i) /\ i # held
  BY DEF RelayInit, Taken, Relay
<1>2. SlotsInv
  <2>1. [x \in Maker |-> 1] \in [Maker -> Relay]
    BY DEF Relay
  <2> QED BY <1>1, <2>1 DEF SlotsInv
<1>3. RelayTypeOK
  BY <1>1 DEF RelayInit, RelayTypeOK
<1>4. PairInv /\ BrowserMeetsAgent
  BY <1>1 DEF RelayInit, PairInv, BrowserMeetsAgent
<1> QED BY <1>2, <1>3, <1>4 DEF RelayInit, RelayInv

\* Three slots are enough: who has not made one finds one that nobody has.
LEMMA SlotIsThere ==
  ASSUME RelayInv, NEW x \in Maker, x \notin MadeOne
  PROVE  \E i \in Relay : ~Taken(i)
<1>1. PICK f \in [Maker -> Relay] : \A i \in Relay : Taken(i) => \E y \in MadeOne : i = f[y]
  BY DEF RelayInv, SlotsInv
<1>2. SUFFICES ASSUME \A i \in Relay : Taken(i) PROVE FALSE
  OBVIOUS
<1>3. 1 \in Relay /\ 2 \in Relay /\ 3 \in Relay
  BY DEF Relay
<1>4. \A i \in Relay : \E y \in Maker \ {x} : i = f[y]
  BY <1>1, <1>2 DEF MadeOne
<1>5. CASE x = "starter"
  <2>1. \A i \in Relay : i = f["joiner"] \/ i = f["agent"]
    BY <1>4, <1>5 DEF Maker
  <2> QED BY <1>3, <2>1
<1>6. CASE x = "joiner"
  <2>1. \A i \in Relay : i = f["starter"] \/ i = f["agent"]
    BY <1>4, <1>6 DEF Maker
  <2> QED BY <1>3, <2>1
<1>7. CASE x = "agent"
  <2>1. \A i \in Relay : i = f["starter"] \/ i = f["joiner"]
    BY <1>4, <1>7 DEF Maker
  <2> QED BY <1>3, <2>1
<1> QED BY <1>5, <1>6, <1>7 DEF Maker

\* What MakeEntry leaves in the map: the slot that was there, or one that nobody has.
LEMMA EntryIsMade ==
  ASSUME RelayInv, NEW x \in Maker, x \notin MadeOne, MakeEntry
  PROVE  /\ entry' \in Relay /\ ~relay[entry'].done
         /\ IF entry # 0 THEN entry' = entry ELSE ~Taken(entry')
<1>1. CASE entry # 0
  BY <1>1 DEF MakeEntry, RelayInv, RelayTypeOK
<1>2. CASE entry = 0
  <2> DEFINE Free(i) == ~relay[i].agent /\ ~relay[i].done /\ i # held /\ \A b \in Browser : i # seat[b]
  <2>1. entry' = CHOOSE i \in Relay : Free(i)
    BY <1>2 DEF MakeEntry
  <2>2. \A i \in Relay : ~Taken(i) <=> Free(i)
    BY <1>2 DEF Taken, Relay
  <2>3. \E i \in Relay : Free(i)
    BY <2>2, SlotIsThere
  <2>4. entry' \in Relay /\ Free(entry')
    <3> HIDE DEF Free
    <3> QED BY <2>1, <2>3
  <2> QED BY <1>2, <2>2, <2>4
<1> QED BY <1>1, <1>2

\* When a maker makes its slot, the slots have still each a maker.
LEMMA MakerCounts ==
  ASSUME RelayInv, NEW x \in Maker, x \in MadeOne', MadeOne \subseteq MadeOne', entry' \in Relay,
         \A i \in Relay : Taken(i)' => Taken(i) \/ i = entry',
         x \notin MadeOne
  PROVE  SlotsInv'
<1>1. PICK f \in [Maker -> Relay] : \A i \in Relay : Taken(i) => \E y \in MadeOne : i = f[y]
  BY DEF RelayInv, SlotsInv
<1> DEFINE g == [f EXCEPT ![x] = entry']
<1>2. g \in [Maker -> Relay] /\ g[x] = entry' /\ \A y \in MadeOne : g[y] = f[y]
  BY DEF MadeOne
<1> HIDE DEF g
<1>3. \A i \in Relay : Taken(i)' => \E y \in MadeOne' : i = g[y]
  BY <1>1, <1>2
<1> QED BY <1>2, <1>3 DEF SlotsInv

\* A step that takes no slot needs no maker.
LEMMA NothingTaken ==
  ASSUME RelayInv, MadeOne \subseteq MadeOne', \A i \in Relay : Taken(i)' => Taken(i)
  PROVE  SlotsInv'
BY DEF RelayInv, SlotsInv

\* Steps of the requests and of the agent that leave slots, handler and browsers alone.
LEMMA AwayKeepsRelay ==
  ASSUME RelayInv, UNCHANGED <<slots, handler, held, browser, seat>>,
         starter = "done" => starter' = "done", joiner = "done" => joiner' = "done",
         vnc' \in {"none", "dial"} => vnc \in {"none", "dial"},
         container' \in {"none", "booting"} => vnc' = "none",
         handler = "out" => wire' = "closed"
  PROVE  RelayInv'
<1>1. SlotsInv'
  <2>1. MadeOne \subseteq MadeOne'
    BY DEF MadeOne
  <2>2. \A i \in Relay : Taken(i)' <=> Taken(i)
    BY DEF Taken, slots
  <2> QED BY <2>1, <2>2, NothingTaken
<1>2. RelayTypeOK'
  BY DEF RelayInv, RelayTypeOK, slots
<1>3. PairInv' /\ BrowserMeetsAgent'
  BY DEF RelayInv, PairInv, BrowserMeetsAgent, slots
<1> QED BY <1>1, <1>2, <1>3 DEF RelayInv, slots

\* What touches no slot keeps the invariant.
LEMMA RequestsKeepRelay ==
  ASSUME RelayInv,
         \/ StartSession \/ StartAnswered \/ StartUnanswered \/ JoinSession
         \/ \E w \in Stopper : SessionStopped(w) \/ StopAnswered(w)
         \/ DockerRun \/ VNCReady \/ HandleKVMStop \/ RelayEnds
  PROVE  RelayInv'
<1>1. CASE StartSession \/ StartAnswered \/ StartUnanswered \/ JoinSession
  BY <1>1, AwayKeepsRelay
     DEF StartSession, StartAnswered, StartUnanswered, JoinSession, agent, ends, windows, RelayInv,
         PairInv, RelayTypeOK
<1>2. CASE \E w \in Stopper : SessionStopped(w) \/ StopAnswered(w)
  BY <1>2, AwayKeepsRelay
     DEF SessionStopped, StopAnswered, agent, ends, windows, RelayInv, PairInv, RelayTypeOK
<1>3. CASE DockerRun \/ VNCReady \/ HandleKVMStop \/ RelayEnds
  BY <1>3, AwayKeepsRelay
     DEF DockerRun, VNCReady, HandleKVMStop, RelayEnds, backend, ends, windows, RelayInv, PairInv,
         RelayTypeOK
<1> QED BY <1>1, <1>2, <1>3

\* A request's answer makes a slot, or finds one.
LEMMA PrepareKeepsRelay ==
  ASSUME RelayInv, PrepareSlot
  PROVE  RelayInv'
<1>1. PICK x \in {"starter", "joiner"} : x \notin MadeOne /\ x \in MadeOne' /\ MadeOne \subseteq MadeOne'
  <2>1. CASE starter = "back" /\ starter' = "done" /\ UNCHANGED joiner
    BY <2>1 DEF PrepareSlot, MadeOne, Maker, ends
  <2>2. CASE joiner = "back" /\ joiner' = "done" /\ UNCHANGED starter
    BY <2>2 DEF PrepareSlot, MadeOne, Maker, ends
  <2> QED BY <2>1, <2>2 DEF PrepareSlot
<1>2. UNCHANGED <<relay, container, vnc, handler, held, wire, browser, seat>> /\ MakeEntry
  BY DEF PrepareSlot, agent, ends, windows
<1>3. entry' \in Relay /\ ~relay[entry'].done
  BY <1>1, <1>2, EntryIsMade DEF Maker
<1>4. SlotsInv'
  <2>1. \A i \in Relay : Taken(i)' => Taken(i) \/ i = entry'
    BY <1>2 DEF Taken
  <2> QED BY <1>1, <1>3, <2>1, MakerCounts DEF Maker
<1>5. RelayTypeOK'
  BY <1>2, <1>3 DEF RelayInv, RelayTypeOK
<1>6. PairInv' /\ BrowserMeetsAgent'
  BY <1>2 DEF RelayInv, PairInv, BrowserMeetsAgent
<1> QED BY <1>2, <1>4, <1>5, <1>6 DEF RelayInv

\* A slot that is given up is done and leaves the map; it is not used again.
LEMMA CleanupKeepsRelay ==
  ASSUME RelayInv, NEW w \in Stopper, CleanupRelay(w)
  PROVE  RelayInv'
<1>1. /\ entry' = 0
      /\ relay' = IF entry = 0 THEN relay ELSE [relay EXCEPT ![entry] = [relay[entry] EXCEPT !.done = TRUE]]
      /\ wire' \in {wire, "closed"}
      /\ browser' = IF w \in Browser THEN [browser EXCEPT ![w] = "gone"] ELSE browser
      /\ UNCHANGED <<starter, joiner, container, vnc, handler, held, seat>>
  BY DEF CleanupRelay, agent
<1>2. /\ relay' \in [Relay -> [agent : BOOLEAN, done : BOOLEAN]]
      /\ \A i \in Relay : /\ relay'[i].agent = relay[i].agent
                          /\ relay[i].done => relay'[i].done
                          /\ relay'[i].done => relay[i].done \/ i = entry
  <2>1. CASE entry = 0
    BY <1>1, <2>1 DEF RelayInv, RelayTypeOK
  <2>2. CASE entry # 0
    <3>1. entry \in Relay /\ relay[entry] \in [agent : BOOLEAN, done : BOOLEAN]
      BY <2>2 DEF RelayInv, RelayTypeOK
    <3>2. relay \in [Relay -> [agent : BOOLEAN, done : BOOLEAN]]
      BY DEF RelayInv, RelayTypeOK
    <3> QED BY <1>1, <2>2, <3>1, <3>2
  <2> QED BY <2>1, <2>2
<1>3. SlotsInv'
  <2>1. MadeOne' = MadeOne
    BY <1>1 DEF MadeOne
  <2>2. \A i \in Relay : Taken(i)' => Taken(i)
    BY <1>1, <1>2 DEF Taken, Relay
  <2> QED BY <2>1, <2>2, NothingTaken
<1>4. /\ browser' \in [Browser -> {"none", "valid", "wait", "relay", "ended", "gone"}]
      /\ \A b \in Browser : browser'[b] \in {browser[b], "gone"}
  BY <1>1 DEF RelayInv
<1>5. RelayTypeOK'
  <2>1. \A b \in Browser : browser'[b] = "relay" => seat[b] \in Relay /\ relay'[seat[b]].agent
    BY <1>2, <1>4 DEF RelayInv, RelayTypeOK
  <2>2. handler' = "out" => wire' = "closed"
    BY <1>1 DEF RelayInv, RelayTypeOK
  <2> QED BY <1>1, <1>2, <1>4, <2>1, <2>2 DEF RelayInv, RelayTypeOK
<1>6. PairInv' /\ BrowserMeetsAgent'
  <2>1. handler = "out" => held \in Relay
    BY DEF RelayInv, RelayTypeOK, PairInv
  <2>2. handler' = "out" => relay'[held].done
    BY <1>1, <1>2, <2>1 DEF RelayInv, PairInv
  <2>3. PairInv'
    BY <1>1, <1>2, <2>2 DEF RelayInv, PairInv
  <2>4. BrowserMeetsAgent'
    BY <1>1, <1>4 DEF RelayInv, BrowserMeetsAgent
  <2> QED BY <2>3, <2>4
<1> QED BY <1>1, <1>3, <1>4, <1>5, <1>6 DEF RelayInv

\* The backend lets the agent in once, and before that no slot has it.
LEMMA DialKeepsRelay ==
  ASSUME RelayInv, Dial
  PROVE  RelayInv'
<1>1. /\ vnc = "dial" /\ vnc' \in {"run", "end"}
      /\ handler = "none" /\ held = 0 /\ handler' \in {"none", "valid"}
      /\ container' \in {container, "removed"}
      /\ UNCHANGED <<starter, joiner, entry, relay, held, browser, seat>>
  BY DEF Dial, RelayInv, PairInv, backend, slots, windows
<1>2. SlotsInv'
  <2>1. MadeOne' = MadeOne
    BY <1>1 DEF MadeOne
  <2>2. \A i \in Relay : Taken(i)' => Taken(i)
    BY <1>1 DEF Taken
  <2> QED BY <2>1, <2>2, NothingTaken
<1>3. container \notin {"none", "booting"}
  BY <1>1 DEF RelayInv, PairInv
<1>4. RelayTypeOK'
  BY <1>1, <1>3 DEF RelayInv, RelayTypeOK
<1>5. PairInv' /\ BrowserMeetsAgent'
  BY <1>1, <1>3 DEF RelayInv, PairInv, BrowserMeetsAgent
<1> QED BY <1>1, <1>2, <1>4, <1>5 DEF RelayInv

\* The agent's connection goes to the slot in the map: one without an agent, as this is
\* the only one there is.
LEMMA ConnectKeepsRelay ==
  ASSUME RelayInv, AgentConnects
  PROVE  RelayInv'
<1>1. /\ handler = "valid" /\ handler' = "in" /\ held' = entry' /\ MakeEntry
      /\ relay' = [relay EXCEPT ![entry'] = [relay[entry'] EXCEPT !.agent = TRUE]]
      /\ UNCHANGED <<starter, joiner, container, vnc, wire, browser, seat>>
  BY DEF AgentConnects, backend, agent, windows
<1>2. held = 0 /\ vnc \notin {"none", "dial"} /\ \A i \in Relay : ~relay[i].agent
  <2>1. 0 \notin Relay
    BY DEF Relay
  <2> QED BY <1>1, <2>1 DEF RelayInv, PairInv
<1>3. "agent" \in Maker /\ "agent" \notin MadeOne /\ "agent" \in MadeOne' /\ MadeOne \subseteq MadeOne'
  BY <1>1 DEF Maker, MadeOne
<1>4. entry' \in Relay /\ ~relay[entry'].done
  BY <1>1, <1>3, EntryIsMade
<1>5. /\ relay' \in [Relay -> [agent : BOOLEAN, done : BOOLEAN]]
      /\ \A i \in Relay : /\ relay'[i].done = relay[i].done
                          /\ relay'[i].agent <=> i = entry'
  <2>1. relay \in [Relay -> [agent : BOOLEAN, done : BOOLEAN]]
    BY DEF RelayInv, RelayTypeOK
  <2> QED BY <1>1, <1>2, <1>4, <2>1
<1>6. SlotsInv'
  <2>1. \A i \in Relay : Taken(i)' => Taken(i) \/ i = entry'
    BY <1>1, <1>5 DEF Taken
  <2> QED BY <1>3, <1>4, <2>1, MakerCounts
<1>7. \A b \in Browser : browser[b] \notin {"relay", "ended"}
  BY <1>1 DEF RelayInv, BrowserMeetsAgent
<1>8. RelayTypeOK'
  BY <1>1, <1>4, <1>5, <1>7 DEF RelayInv, RelayTypeOK
<1>9. PairInv' /\ BrowserMeetsAgent'
  <2>1. entry' # 0
    BY <1>4 DEF Relay
  <2> QED BY <1>1, <1>2, <1>5, <1>7, <2>1 DEF RelayInv, PairInv, BrowserMeetsAgent
<1> QED BY <1>1, <1>6, <1>8, <1>9 DEF RelayInv

\* The handler leaves a slot that is done.
LEMMA ReleaseKeepsRelay ==
  ASSUME RelayInv, AgentReleased
  PROVE  RelayInv'
<1>1. /\ handler = "in" /\ relay[held].done /\ handler' = "out" /\ wire' = "closed"
      /\ UNCHANGED <<starter, joiner, entry, relay, container, vnc, held, browser, seat>>
  BY DEF AgentReleased, backend, slots, agent, windows
<1>2. SlotsInv'
  <2>1. MadeOne' = MadeOne
    BY <1>1 DEF MadeOne
  <2>2. \A i \in Relay : Taken(i)' => Taken(i)
    BY <1>1 DEF Taken
  <2> QED BY <2>1, <2>2, NothingTaken
<1>3. RelayTypeOK'
  BY <1>1 DEF RelayInv, RelayTypeOK
<1>4. PairInv' /\ BrowserMeetsAgent'
  BY <1>1 DEF RelayInv, PairInv, BrowserMeetsAgent
<1> QED BY <1>1, <1>2, <1>3, <1>4 DEF RelayInv

\* A browser sits in the slot that is in the map, and is relayed when its agent is there.
LEMMA BrowsersKeepRelay ==
  ASSUME RelayInv, NEW b \in Browser,
         BrowserComes(b) \/ BrowserSits(b) \/ BrowserRelays(b) \/ BrowserEnds(b)
  PROVE  RelayInv'
<1>1. UNCHANGED <<starter, joiner, entry, relay, container, vnc, handler, held, wire>>
  BY DEF BrowserComes, BrowserSits, BrowserRelays, BrowserEnds, backend, slots, agent, ends
<1>2. /\ browser' \in [Browser -> {"none", "valid", "wait", "relay", "ended", "gone"}]
      /\ seat' \in [Browser -> {0} \union Relay]
      /\ \A c \in Browser \ {b} : browser'[c] = browser[c] /\ seat'[c] = seat[c]
  BY DEF BrowserComes, BrowserSits, BrowserRelays, BrowserEnds, RelayInv, RelayTypeOK
<1>3. /\ seat'[b] \in {seat[b], entry}
      /\ browser'[b] \in {"wait", "relay", "ended"} => seat'[b] # 0
      /\ browser'[b] \in {"relay", "ended"} => seat'[b] \in Relay /\ relay[seat'[b]].agent
  <2>1. CASE BrowserComes(b)
    BY <2>1 DEF BrowserComes, RelayInv
  <2>2. CASE BrowserSits(b)
    BY <2>2 DEF BrowserSits, RelayInv
  <2>3. CASE BrowserRelays(b) \/ BrowserEnds(b)
    BY <2>3 DEF BrowserRelays, BrowserEnds, RelayInv, RelayTypeOK
  <2> QED BY <2>1, <2>2, <2>3
<1>4. SlotsInv'
  <2>1. MadeOne' = MadeOne
    BY <1>1 DEF MadeOne
  <2>2. \A i \in Relay : Taken(i)' => Taken(i)
    BY <1>1, <1>2, <1>3 DEF Taken
  <2> QED BY <2>1, <2>2, NothingTaken
<1>5. RelayTypeOK'
  BY <1>1, <1>2, <1>3 DEF RelayInv, RelayTypeOK
<1>6. PairInv'
  BY <1>1 DEF RelayInv, PairInv
<1>7. BrowserMeetsAgent'
  <2>1. browser'[b] \in {"relay", "ended"} => seat'[b] = held /\ handler \in {"in", "out"}
    <3>1. \A i \in Relay : relay[i].agent => i = held /\ held # 0
      BY DEF RelayInv, PairInv, Relay
    <3> QED BY <1>3, <3>1 DEF RelayInv, PairInv
  <2> QED BY <1>1, <1>2, <2>1 DEF RelayInv, BrowserMeetsAgent
<1> QED BY <1>1, <1>2, <1>4, <1>5, <1>6, <1>7 DEF RelayInv

\* Every step keeps the invariant.
LEMMA StepKeepsRelay == RelayInv /\ [RelayNext]_relayVars => RelayInv'
<1> SUFFICES ASSUME RelayInv, [RelayNext]_relayVars PROVE RelayInv'
    OBVIOUS
<1>1. CASE UNCHANGED relayVars
  <2>1. UNCHANGED <<slots, handler, held, browser, seat, starter, joiner, vnc, container, wire>>
    BY <1>1 DEF relayVars, slots
  <2>2. handler = "out" => wire = "closed"
    BY DEF RelayInv, RelayTypeOK
  <2>3. container \in {"none", "booting"} => vnc = "none"
    BY DEF RelayInv, PairInv
  <2> QED BY <2>1, <2>2, <2>3, AwayKeepsRelay
<1>2. ASSUME NEW w \in Stopper, CleanupRelay(w) PROVE RelayInv'
  BY <1>2, CleanupKeepsRelay
<1>3. ASSUME NEW b \in Browser,
             BrowserComes(b) \/ BrowserSits(b) \/ BrowserRelays(b) \/ BrowserEnds(b)
      PROVE  RelayInv'
  BY <1>3, BrowsersKeepRelay
<1> QED
  BY <1>1, <1>2, <1>3, RequestsKeepRelay, PrepareKeepsRelay, DialKeepsRelay, ConnectKeepsRelay,
     ReleaseKeepsRelay
     DEF RelayNext

\* So the invariant holds always.
LEMMA RelayInvHolds == RelaySpec => []RelayInv
<1>1. RelaySpec => RelayInit /\ [][RelayNext]_relayVars
  BY DEF RelaySpec
<1> QED BY <1>1, RelayInvInit, StepKeepsRelay, PTL

\* In whatever order starts, joins, stops, the agent and the browsers come: the slot in the
\* map is not done, a browser that waits has a slot and one that is relayed an agent in it,
\* and an agent's handler that returned has closed its connection (kvm_handler.go).
THEOREM RelayTypeCorrect == RelaySpec => []RelayTypeOK
<1>1. RelayInv => RelayTypeOK
  BY DEF RelayInv
<1> QED BY <1>1, RelayInvHolds, PTL

\* Slots are made by three, in any order, and given up by as many as stop the session;
\* a browser's data still goes to the one slot that the session's agent holds, so the
\* end of that slot is the end of both (HandleAgentRelay, HandleBrowserWS, cleanupRelay).
THEOREM BrowsersMeetTheAgent == RelaySpec => []BrowserMeetsAgent
<1>1. RelayInv => BrowserMeetsAgent
  BY DEF RelayInv
<1> QED BY <1>1, RelayInvHolds, PTL

-----------------------------------------------------------------------------
(* The end of a session.  Fairness only helps an action that can be taken: *)
(* that the ones needed here can be is RelayNobodyBlocks, which TLC checks *)
(* with the types of the site.                                             *)

\* The types that the proofs about slots had no use for.

EndTypes ==
  /\ session \in {"none", "in", "out"}
  /\ starter \in {"idle", "asked", "back", "done", "failed"}
  /\ stop \in [Stopper -> {"idle", "asked", "clean", "done"}]
  /\ wire \in {"none", "open", "closed"}
  /\ container \in {"none", "booting", "registered", "removed"}
  /\ vnc \in {"none", "dial", "run", "end"}
  /\ stopMsg \in {"none", "sent", "lost", "over"}

\* Where the session is, what was done to stop it, and how far it had come at the agent:
\* a kvm.stop that came too early for the container came before the agent called back.
StopInv ==
  /\ session = "none" <=> starter = "idle"
  /\ session = "none" => container = "none"
  /\ starter = "failed" => session = "out"
  /\ \A w \in Stopper : stop[w] # "idle" => session = "out"
  /\ stopMsg # "none" => session = "out"
  /\ session = "out" /\ stopMsg = "none" => starter = "failed"
  /\ container = "registered" => vnc \in {"dial", "run"}
  /\ vnc = "end" => container = "removed"
  /\ vnc = "run" => handler # "none"
  /\ vnc = "run" /\ stopMsg = "over" => container = "removed"

\* The end of a browser stops the session once, and the slot the agent holds is the one
\* in the map or done.
ClosingInv ==
  /\ \A b \in Browser : stop[b] # "idle" => browser[b] \in {"ended", "gone"}
  /\ \A b \in Browser : browser[b] = "ended" => stop[b] # "done"
  /\ \A b \in Browser : browser[b] \in {"none", "valid"} => seat[b] = 0
  /\ held # 0 => entry = held \/ relay[held].done
  /\ handler \in {"in", "out"} => vnc \in {"run", "end"}

EndInv == EndTypes /\ StopInv /\ ClosingInv

\* Every step keeps the invariant.
LEMMA EndInvStep ==
  ASSUME RelayInv, EndInv, [RelayNext]_relayVars
  PROVE  EndInv'
<1> USE DEF EndInv, EndTypes, StopInv, ClosingInv, backend, slots, agent, ends, windows
<1>1. CASE StartSession \/ StartAnswered \/ StartUnanswered \/ JoinSession
  BY <1>1 DEF StartSession, StartAnswered, StartUnanswered, JoinSession, RelayInv, PairInv
<1>2. CASE PrepareSlot
  <2>1. entry # 0 => entry' = entry
    BY <1>2 DEF PrepareSlot, MakeEntry
  <2> QED BY <1>2, <2>1 DEF PrepareSlot
<1>3. ASSUME NEW w \in Stopper, SessionStopped(w) PROVE EndInv'
  <2>1. session # "none"
    BY <1>3 DEF SessionStopped, RelayInv, PairInv, BrowserMeetsAgent, Stopper
  <2>2. w \in Browser => browser[w] = "ended"
    BY <1>3, BrowserAssumption DEF SessionStopped
  <2>3. \E x \in {"asked", "clean", "done"} : /\ stop' = [stop EXCEPT ![w] = x]
                                              /\ w \in Browser => x # "done"
    BY <1>3, BrowserAssumption DEF SessionStopped
  <2> QED BY <1>3, <2>1, <2>2, <2>3 DEF SessionStopped
<1>4. ASSUME NEW w \in Stopper, StopAnswered(w) PROVE EndInv'
  BY <1>4, BrowserAssumption DEF StopAnswered
<1>5. ASSUME NEW w \in Stopper, CleanupRelay(w) PROVE EndInv'
  BY <1>5 DEF CleanupRelay, RelayInv, RelayTypeOK
<1>6. CASE DockerRun \/ VNCReady \/ HandleKVMStop
  BY <1>6 DEF DockerRun, VNCReady, HandleKVMStop, RelayInv, PairInv
<1>7. CASE Dial \/ RelayEnds
  BY <1>7 DEF Dial, RelayEnds, RelayInv, PairInv
<1>8. CASE AgentConnects
  BY <1>8 DEF AgentConnects, RelayInv, PairInv
<1>9. CASE AgentReleased
  BY <1>9 DEF AgentReleased
<1>10. ASSUME NEW b \in Browser,
             BrowserComes(b) \/ BrowserSits(b) \/ BrowserRelays(b) \/ BrowserEnds(b)
      PROVE  EndInv'
  BY <1>10 DEF BrowserComes, BrowserSits, BrowserRelays, BrowserEnds, RelayInv
<1>11. CASE UNCHANGED relayVars
  BY <1>11 DEF relayVars
<1> QED BY <1>1, <1>2, <1>3, <1>4, <1>5, <1>6, <1>7, <1>8, <1>9, <1>10, <1>11 DEF RelayNext

\* Starts, stops and the agent's steps, in any order, leave a session that is over with a
\* container that is gone, can still be told, or was left behind in one of two ways.
THEOREM EndInvHolds == RelaySpec => []EndInv
<1>1. RelayInit => EndTypes /\ StopInv
  BY DEF RelayInit, EndTypes, StopInv
<1>2. RelayInit => ClosingInv
  BY DEF RelayInit, ClosingInv, Stopper
<1>3. RelaySpec => RelayInit /\ [][RelayNext]_relayVars
  BY DEF RelaySpec
<1>4. RelayInit => EndInv
  BY <1>1, <1>2 DEF EndInv
<1> QED BY <1>3, <1>4, EndInvStep, RelayInvHolds, PTL

\* The atoms of the temporal steps: how far a session that is over had come.
SessionIn  == session = "in"
SessionOut == session = "out"
Unbooted   == session = "out" /\ container = "none"
Booting    == session = "out" /\ container = "booting"
Dialling   == session = "out" /\ container = "registered" /\ vnc = "dial"
InUse      == session = "out" /\ container = "registered" /\ vnc = "run" /\ stopMsg = "sent"
Ended      == session = "out" /\ (container = "removed" \/ LeftBehind)
EndsWell   == session = "out" /\ (ContainerGone \/ LeftBehind)

\* What a step does to a session that is over.
LEMMA OverMoves ==
  ASSUME RelayInv, EndInv, SessionOut, [RelayNext]_relayVars
  PROVE  /\ SessionOut'
         /\ starter = "failed" => starter' = "failed"
         /\ handler # "none" => handler' # "none"
         /\ \/ UNCHANGED <<container, vnc, stopMsg>> /\ ~HandleKVMStop
            \/ /\ container \in {"none", "booting"}
               /\ container' \in {"booting", "registered", "removed"}
               /\ vnc' = IF container' = "registered" THEN "dial" ELSE vnc
               /\ UNCHANGED stopMsg
               /\ container = "none" <=> container' = "booting"
            \/ /\ stopMsg = "sent" /\ stopMsg' = "over" /\ UNCHANGED vnc
               /\ container' = IF container = "registered" THEN "removed" ELSE container
            \/ container' = "removed" /\ container # "none" /\ UNCHANGED stopMsg
<1> USE DEF SessionOut, backend, slots, agent, ends, windows
<1>1. CASE StartSession \/ StartAnswered \/ StartUnanswered \/ JoinSession \/ PrepareSlot
  BY <1>1 DEF StartSession, StartAnswered, StartUnanswered, JoinSession, PrepareSlot, HandleKVMStop,
              EndInv, EndTypes, StopInv
<1>2. ASSUME NEW w \in Stopper, SessionStopped(w) \/ StopAnswered(w) \/ CleanupRelay(w)
      PROVE  UNCHANGED <<session, starter, handler, container, vnc, stopMsg>>
  BY <1>2 DEF SessionStopped, StopAnswered, CleanupRelay
<1>3. CASE DockerRun \/ VNCReady \/ HandleKVMStop
  BY <1>3 DEF DockerRun, VNCReady, HandleKVMStop, RelayInv, PairInv
<1>4. CASE Dial \/ RelayEnds
  BY <1>4 DEF Dial, RelayEnds, RelayInv, PairInv
<1>5. CASE AgentConnects \/ AgentReleased
  BY <1>5 DEF AgentConnects, AgentReleased, HandleKVMStop
<1>6. ASSUME NEW b \in Browser,
             BrowserComes(b) \/ BrowserSits(b) \/ BrowserRelays(b) \/ BrowserEnds(b)
      PROVE  UNCHANGED <<session, starter, handler, container, vnc, stopMsg>>
  BY <1>6 DEF BrowserComes, BrowserSits, BrowserRelays, BrowserEnds
<1>7. CASE UNCHANGED relayVars
  BY <1>7 DEF relayVars, HandleKVMStop
<1>8. HandleKVMStop => stopMsg = "sent" /\ stopMsg' = "over"
  BY DEF HandleKVMStop
<1> QED BY <1>1, <1>2, <1>3, <1>4, <1>5, <1>6, <1>7, <1>8 DEF RelayNext

\* Every session that starts expires at the latest, and its container is gone for good
\* after that, however far the start had come when it did, but for LeftBehind: no order
\* of start, callback and stop lets a container outlive its session unnoticed
\* (kvm_service.go StartSession, StopSession and cleanupLoop; kvm.go at the agent).
THEOREM ContainerEndsIfFair == RelaySpec /\ []RelayNobodyBlocks => ContainerEnds
<1> SUFFICES RelaySpec /\ []RelayNobodyBlocks => (SessionIn ~> []EndsWell)
  BY DEF ContainerEnds, SessionIn, EndsWell
<1>1. RelayInv /\ EndInv /\ SessionIn /\ [RelayNext]_relayVars => SessionIn' \/ SessionOut'
  <2>1. EndInv /\ SessionIn /\ StartSession => FALSE
    BY DEF EndInv, StopInv, SessionIn, StartSession
  <2>2. SessionIn /\ [RelayNext]_relayVars /\ ~StartSession => SessionIn' \/ SessionOut'
    BY DEF RelayNext, SessionIn, SessionOut, relayVars, backend, StartAnswered, StartUnanswered,
           JoinSession, PrepareSlot, SessionStopped, StopAnswered, CleanupRelay, DockerRun, VNCReady,
           HandleKVMStop, Dial, RelayEnds, AgentConnects, AgentReleased, BrowserComes, BrowserSits,
           BrowserRelays, BrowserEnds
  <2> QED BY <2>1, <2>2
<1>2. SessionIn /\ <<SessionStopped("expiry")>>_relayVars => SessionOut'
  BY DEF SessionIn, SessionOut, SessionStopped
<1>3. EndInv /\ SessionOut => Unbooted \/ Booting \/ Dialling \/ InUse \/ Ended
  BY DEF EndInv, EndTypes, StopInv, SessionOut, Unbooted, Booting, Dialling, InUse, Ended, LeftBehind
<1>4. RelayInv /\ EndInv /\ Unbooted /\ [RelayNext]_relayVars => Unbooted' \/ Booting'
  BY OverMoves DEF Unbooted, Booting, SessionOut
<1>5. RelayInv /\ EndInv /\ Booting /\ [RelayNext]_relayVars => Booting' \/ Dialling' \/ Ended'
  BY OverMoves DEF Booting, Dialling, Ended, SessionOut
<1>6. RelayInv /\ EndInv /\ Booting /\ <<VNCReady>>_relayVars => Dialling' \/ Ended'
  BY DEF VNCReady, backend, Booting, Dialling, Ended
<1>7. RelayInv /\ EndInv /\ Dialling /\ [RelayNext]_relayVars => Dialling' \/ Ended'
  BY OverMoves DEF Dialling, Ended, SessionOut
<1>8. RelayInv /\ EndInv /\ Dialling /\ <<Dial>>_relayVars => Ended'
  BY DEF Dial, backend, Dialling, Ended
<1>9. RelayInv /\ EndInv /\ InUse /\ [RelayNext]_relayVars => InUse' \/ Ended'
  BY OverMoves DEF InUse, Ended, SessionOut
<1>10. RelayInv /\ EndInv /\ InUse /\ <<HandleKVMStop>>_relayVars => Ended'
  BY DEF HandleKVMStop, backend, InUse, Ended
<1>11. RelayInv /\ EndInv /\ Ended /\ [RelayNext]_relayVars => Ended'
  BY OverMoves DEF Ended, LeftBehind, SessionOut
<1>12. Unbooted \/ Ended => EndsWell
  BY DEF Unbooted, Ended, EndsWell, ContainerGone
<1>13. /\ RelayNobodyBlocks /\ SessionIn => CanStop("expiry")
       /\ RelayNobodyBlocks /\ Booting => CanBoot
       /\ RelayNobodyBlocks /\ Dialling => CanDial
       /\ RelayNobodyBlocks /\ InUse => CanHandleStop
  BY DEF RelayNobodyBlocks, SessionIn, Booting, Dialling, InUse
<1> QED
  BY <1>1, <1>2, <1>3, <1>4, <1>5, <1>6, <1>7, <1>8, <1>9, <1>10, <1>11, <1>12, <1>13,
     RelayInvHolds, EndInvHolds, PTL
     DEF RelaySpec, RelayFairness, ExpiryFairness, AgentFairness, CanStop, CanBoot, CanDial,
         CanHandleStop

\* The atoms: how far the end of a browser has been followed up.
IsEnded(b)    == browser[b] = "ended"
StopAt(b, p)  == browser[b] = "ended" /\ stop[b] = p
SlotDone(b)   == session = "out" /\ held # 0 /\ seat[b] = held /\ relay[held].done
Waiting(b)    == SlotDone(b) /\ handler = "in"
Relaying(b)   == SlotDone(b) /\ handler = "out" /\ vnc = "run"

\* The seat of a browser that met the agent, and its being done, are for good.
LEMMA SeatIsKept ==
  ASSUME RelayInv, EndInv, NEW b \in Browser, held # 0, seat[b] = held, [RelayNext]_relayVars
  PROVE  /\ held' = held /\ seat'[b] = held
         /\ relay[held].done => relay'[held].done
         /\ \/ UNCHANGED handler
            \/ handler = "in" /\ handler' = "out"
         /\ AgentReleased => handler' = "out"
<1> USE DEF backend, slots, agent, ends, windows
<1>1. handler \in {"in", "out"} /\ vnc \in {"run", "end"} /\ held \in Relay
  BY DEF RelayInv, RelayTypeOK, PairInv, EndInv, ClosingInv
<1>2. relay \in [Relay -> [agent : BOOLEAN, done : BOOLEAN]]
  BY DEF RelayInv, RelayTypeOK
<1>3. CASE AgentReleased
  BY <1>3 DEF AgentReleased
<1>4. ASSUME ~AgentReleased PROVE UNCHANGED handler /\ held' = held
  BY <1>1, <1>4 DEF RelayNext, relayVars, StartSession, StartAnswered, StartUnanswered, JoinSession,
       PrepareSlot, SessionStopped, StopAnswered, CleanupRelay, DockerRun, VNCReady, HandleKVMStop,
       Dial, RelayEnds, AgentConnects, BrowserComes, BrowserSits, BrowserRelays, BrowserEnds
<1>5. ASSUME ~AgentReleased PROVE seat'[b] = seat[b]
  <2>1. UNCHANGED seat \/ \E d \in Browser : BrowserSits(d)
    BY <1>1, <1>5 DEF RelayNext, relayVars, StartSession, StartAnswered, StartUnanswered,
         JoinSession, PrepareSlot, SessionStopped, StopAnswered, CleanupRelay, DockerRun, VNCReady,
         HandleKVMStop, Dial, RelayEnds, AgentConnects, BrowserComes, BrowserRelays, BrowserEnds
  <2>2. ASSUME NEW d \in Browser, BrowserSits(d) PROVE seat'[b] = seat[b]
    BY <2>2, <1>1 DEF BrowserSits, EndInv, ClosingInv, RelayInv
  <2> QED BY <2>1, <2>2
<1>6. ASSUME ~AgentReleased PROVE relay[held].done => relay'[held].done
  <2>1. UNCHANGED relay \/ \E w \in Stopper : CleanupRelay(w)
    BY <1>1, <1>6 DEF RelayNext, relayVars, StartSession, StartAnswered, StartUnanswered,
         JoinSession, PrepareSlot, SessionStopped, StopAnswered, DockerRun, VNCReady,
         HandleKVMStop, Dial, RelayEnds, AgentConnects, BrowserComes, BrowserSits, BrowserRelays,
         BrowserEnds
  <2>2. ASSUME NEW w \in Stopper, CleanupRelay(w) PROVE relay[held].done => relay'[held].done
    BY <2>2, <1>1, <1>2 DEF CleanupRelay, RelayInv, RelayTypeOK
  <2> QED BY <2>1, <2>2
<1> QED BY <1>3, <1>4, <1>5, <1>6

\* A browser that ended is followed up by its own stop and nobody else's.
LEMMA EndedMoves ==
  ASSUME RelayInv, EndInv, NEW b \in Browser, IsEnded(b), [RelayNext]_relayVars
  PROVE  \/ UNCHANGED <<browser[b], stop[b]>>
         \/ SessionStopped(b) \/ StopAnswered(b) \/ CleanupRelay(b)
<1> USE DEF IsEnded, backend, slots, agent, ends, windows
<1>1. CASE StartSession \/ StartAnswered \/ StartUnanswered \/ JoinSession \/ PrepareSlot
  BY <1>1 DEF StartSession, StartAnswered, StartUnanswered, JoinSession, PrepareSlot
<1>2. ASSUME NEW w \in Stopper, w # b, SessionStopped(w) \/ StopAnswered(w) \/ CleanupRelay(w)
      PROVE  UNCHANGED <<browser[b], stop[b]>>
  <2>1. /\ \E x : stop' = [stop EXCEPT ![w] = x]
        /\ UNCHANGED browser \/ browser' = [browser EXCEPT ![w] = "gone"]
    BY <1>2 DEF SessionStopped, StopAnswered, CleanupRelay
  <2> QED BY <1>2, <2>1 DEF RelayInv, EndInv, EndTypes, Stopper
<1>3. CASE \/ DockerRun \/ VNCReady \/ HandleKVMStop \/ Dial \/ RelayEnds \/ AgentConnects
           \/ AgentReleased \/ UNCHANGED relayVars
  BY <1>3 DEF DockerRun, VNCReady, HandleKVMStop, Dial, RelayEnds, AgentConnects, AgentReleased,
              relayVars
<1>4. ASSUME NEW d \in Browser,
             BrowserComes(d) \/ BrowserSits(d) \/ BrowserRelays(d) \/ BrowserEnds(d)
      PROVE  UNCHANGED <<browser[b], stop[b]>>
  BY <1>4 DEF BrowserComes, BrowserSits, BrowserRelays, BrowserEnds, RelayInv
<1> QED BY <1>1, <1>2, <1>3, <1>4 DEF RelayNext

\* For any number of browsers: when the relaying for one of them ends, its stop takes the
\* session out and finishes the slot, which releases the agent's handler, which closes
\* the agent's connection, which ends the relay there and removes the container, whether
\* or not kvm.stop arrives (kvm_handler.go HandleBrowserWS, cleanupRelay).
THEOREM BrowserEndEndsAllIfFair == RelaySpec /\ []RelayNobodyBlocks => BrowserEndEndsAll
<1> SUFFICES ASSUME NEW b \in Browser
             PROVE  RelaySpec /\ []RelayNobodyBlocks => (IsEnded(b) ~> AllEnded(b))
  BY DEF BrowserEndEndsAll, IsEnded
<1> DEFINE Inv == RelayInv /\ EndInv
<1>1. b \in Stopper /\ b \notin {"user", "expiry"}
  BY BrowserAssumption DEF Stopper
<1>2. Inv /\ IsEnded(b) => held # 0 /\ seat[b] = held /\ handler \in {"in", "out"}
  BY DEF IsEnded, RelayInv, BrowserMeetsAgent, PairInv
<1>3. SessionStopped(b) /\ Inv /\ IsEnded(b) => StopAt(b, "asked")' \/ StopAt(b, "clean")'
  BY <1>1 DEF SessionStopped, IsEnded, StopAt, windows, EndInv, EndTypes
<1>4. StopAnswered(b) /\ Inv /\ IsEnded(b) => StopAt(b, "clean")'
  BY <1>1 DEF StopAnswered, IsEnded, StopAt, windows, EndInv, EndTypes
<1>5. CleanupRelay(b) /\ Inv /\ IsEnded(b) => SlotDone(b)' /\ handler' \in {"in", "out"}
  <2>1. CleanupRelay(b) /\ Inv /\ IsEnded(b) => session = "out"
    BY <1>1 DEF CleanupRelay, EndInv, StopInv
  <2>2. CleanupRelay(b) /\ Inv /\ IsEnded(b) => relay'[held].done
    BY <1>2 DEF CleanupRelay, EndInv, ClosingInv, RelayInv, RelayTypeOK
  <2> QED BY <1>2, <2>1, <2>2 DEF CleanupRelay, SlotDone
<1>6. Inv /\ StopAt(b, "idle") /\ [RelayNext]_relayVars
        => StopAt(b, "idle")' \/ StopAt(b, "asked")' \/ StopAt(b, "clean")'
  <2>1. CleanupRelay(b) \/ StopAnswered(b) => stop[b] # "idle"
    BY DEF CleanupRelay, StopAnswered
  <2> QED BY <1>3, <2>1, EndedMoves DEF IsEnded, StopAt
<1>7. Inv /\ StopAt(b, "idle") /\ <<SessionStopped(b)>>_relayVars
        => StopAt(b, "asked")' \/ StopAt(b, "clean")'
  BY <1>3 DEF IsEnded, StopAt
<1>8. Inv /\ StopAt(b, "asked") /\ [RelayNext]_relayVars
        => StopAt(b, "asked")' \/ StopAt(b, "clean")'
  <2>1. CleanupRelay(b) \/ SessionStopped(b) => stop[b] # "asked"
    BY DEF CleanupRelay, SessionStopped
  <2> QED BY <1>4, <2>1, EndedMoves DEF IsEnded, StopAt
<1>9. Inv /\ StopAt(b, "asked") /\ <<StopAnswered(b)>>_relayVars => StopAt(b, "clean")'
  BY <1>4 DEF IsEnded, StopAt
<1>10. SlotDone(b) /\ handler \in {"in", "out"} /\ Inv
         => Waiting(b) \/ Relaying(b) \/ AllEnded(b)
  BY DEF SlotDone, Waiting, Relaying, AllEnded, ContainerGone, EndInv, StopInv, ClosingInv
<1>11. Inv /\ StopAt(b, "clean") /\ [RelayNext]_relayVars
         => StopAt(b, "clean")' \/ SlotDone(b)'
  <2>1. StopAnswered(b) \/ SessionStopped(b) => stop[b] # "clean"
    BY DEF StopAnswered, SessionStopped
  <2> QED BY <1>5, <2>1, EndedMoves DEF IsEnded, StopAt
<1>12. Inv /\ StopAt(b, "clean") /\ <<CleanupRelay(b)>>_relayVars => SlotDone(b)'
  BY <1>5 DEF IsEnded, StopAt
<1>13. Inv /\ SlotDone(b) => handler \in {"in", "out"}
  BY DEF SlotDone, RelayInv, PairInv
<1>14. Inv /\ SlotDone(b) /\ [RelayNext]_relayVars => SlotDone(b)'
  BY SeatIsKept, OverMoves DEF SlotDone, SessionOut
<1>15. Inv /\ Waiting(b) /\ <<AgentReleased>>_relayVars => Relaying(b)' \/ AllEnded(b)'
  <2>1. EndInv' /\ RelayInv' /\ SlotDone(b)' /\ handler' = "out"
                    => Relaying(b)' \/ AllEnded(b)'
    BY DEF SlotDone, Relaying, AllEnded, ContainerGone, EndInv, StopInv, ClosingInv
  <2>2. AgentReleased => [RelayNext]_relayVars
    BY DEF RelayNext
  <2> QED BY <1>14, <2>1, <2>2, EndInvStep, StepKeepsRelay, SeatIsKept DEF Waiting, SlotDone
<1>16. Inv /\ Relaying(b) /\ [RelayNext]_relayVars => Relaying(b)' \/ AllEnded(b)'
  <2>1. EndInv' /\ RelayInv' /\ SlotDone(b)' /\ handler' = "out"
                    => Relaying(b)' \/ AllEnded(b)'
    BY DEF SlotDone, Relaying, AllEnded, ContainerGone, EndInv, StopInv, ClosingInv
  <2> QED BY <1>14, <2>1, EndInvStep, StepKeepsRelay, SeatIsKept DEF Relaying, SlotDone
<1>17. Inv /\ Relaying(b) /\ <<RelayMustEnd>>_relayVars => AllEnded(b)'
  BY DEF RelayMustEnd, RelayEnds, Relaying, SlotDone, AllEnded, ContainerGone, backend, slots, windows
<1>18. /\ RelayNobodyBlocks /\ StopAt(b, "idle") => CanStop(b)
       /\ RelayNobodyBlocks /\ StopAt(b, "asked") => CanAnswerStop(b)
       /\ RelayNobodyBlocks /\ StopAt(b, "clean") => CanCleanUp(b)
       /\ RelayNobodyBlocks /\ Waiting(b) => CanRelease
       /\ RelayNobodyBlocks /\ Relaying(b) /\ Inv => CanEndRelay
  BY <1>1 DEF RelayNobodyBlocks, StopAt, Waiting, Relaying, SlotDone, RelayInv, RelayTypeOK
<1>19. RelaySpec => /\ RelayInit /\ [][RelayNext]_relayVars /\ BrowserFairness(b)
                    /\ StopFairness(b) /\ HandlerFairness /\ AgentFairness
  BY <1>1 DEF RelaySpec, RelayFairness
<1>20. Inv /\ IsEnded(b) => StopAt(b, "idle") \/ StopAt(b, "asked") \/ StopAt(b, "clean")
  BY <1>1 DEF IsEnded, StopAt, EndInv, EndTypes, ClosingInv
<1>21. Inv /\ SlotDone(b) => Waiting(b) \/ Relaying(b) \/ AllEnded(b)
  BY <1>10, <1>13
<1>22. Waiting(b) => SlotDone(b)
  BY DEF Waiting
<1> HIDE DEF Inv
<1>23. RelaySpec => []Inv
  BY RelayInvHolds, EndInvHolds, PTL DEF Inv
<1> QED
  BY <1>6, <1>7, <1>8, <1>9, <1>11, <1>12, <1>14, <1>15, <1>16, <1>17, <1>18, <1>19, <1>20, <1>21,
     <1>22, <1>23, PTL
     DEF BrowserFairness, StopFairness, HandlerFairness, AgentFairness, CanStop, CanAnswerStop,
         CanCleanUp, CanRelease, CanEndRelay
=============================================================================
