------------------------------ MODULE KVMUsers ------------------------------
(***************************************************************************)
(* The temporary BMC users of KVM sessions.                                *)
(*   backend/internal/service/kvm_service.go    sessions start, stop, expire *)
(*   agent/internal/executor/ipmi_user.go       users in the slots of a BMC *)
(* A session gets a user of its own on the server's BMC when it starts and *)
(* loses it when it stops.  Starts and stops of one server run in requests *)
(* of their own, and so does what they make the agent do: its ipmitool     *)
(* commands interleave.  Operators add users of their own to free slots,   *)
(* and remove them, as they like.  What the agent does else for a session  *)
(* is module KVMRelay's; here kvm.start succeeds or fails.  A BMC that     *)
(* refuses to remove a user is left out: the agent goes on as if it had.   *)
(* So is a panic of SendRequest, hub.go:161, which unwinds a start and     *)
(* leaves its session and user until a stop.                               *)
(***************************************************************************)
EXTENDS Naturals, FiniteSets, FiniteSetsExt

CONSTANTS Session,     \* the StartKVM requests for one server
          Slot,        \* the slots of its BMC the agent uses, of 3 to 15
          None

Operator == "operator" \* a user of the BMC that is no session's

ASSUME SlotAssumption == Slot \subseteq 3 .. 15
ASSUME NameAssumption == Operator \notin Session \union {None} /\ None \notin Session

VARIABLES
  live,       \* the sessions in the backend's map
  start,      \* StartSession: "idle", "passed", "user", "kvm", "undo", "active", "joined", "failed"
  slot,       \* session.TempUserSlot, 0 at first
  create,     \* ipmi.user.create at the agent: "none", "sent", "listed", "chosen", "named",
              \* "keyed", "ok", "error"
  orphans,    \* the slots it took for those of orphans
  at,         \* the slot it chose
  delete,     \* ipmi.user.delete for the starter's undo and the stopper, likewise:
              \* "none", "sent", "disabled", "over"
  bmc,        \* the slots: [name, key, on], name and password being a session's or another's
  overlap,    \* work on the BMC for two sessions has overlapped, or was given up waiting for
  hurried,    \* sessions stopped before they were active
  exposed     \* slots where an operator added a user while a session held the slot

usersVars == <<live, start, slot, create, orphans, at, delete, bmc, overlap, hurried, exposed>>

Empty == [name |-> None, key |-> None, on |-> FALSE]
OperatorsUser == [name |-> Operator, key |-> Operator, on |-> TRUE]
By == {"starter", "stopper"}

UsersTypeOK ==
  /\ live \subseteq Session /\ hurried \subseteq Session /\ exposed \subseteq Slot
  /\ start \in [Session -> {"idle", "passed", "user", "kvm", "undo", "active", "joined", "failed"}]
  /\ slot \in [Session -> Slot \union {0}] /\ at \in [Session -> Slot \union {0}]
  /\ orphans \in [Session -> SUBSET Slot]
  /\ create \in [Session -> {"none", "sent", "listed", "chosen", "named", "keyed", "ok", "error"}]
  /\ delete \in [Session -> [By -> {"none", "sent", "disabled", "over"}]]
  /\ bmc \in [Slot -> [name : Session \union {Operator, None},
                       key : Session \union {Operator, None}, on : BOOLEAN]]

UsersInit ==
  /\ live = {} /\ hurried = {} /\ exposed = {} /\ overlap = FALSE
  /\ start = [s \in Session |-> "idle"]
  /\ slot = [s \in Session |-> 0] /\ at = [s \in Session |-> 0]
  /\ create = [s \in Session |-> "none"]
  /\ orphans = [s \in Session |-> {}]
  /\ delete = [s \in Session |-> [b \in By |-> "none"]]
  /\ bmc \in [Slot -> {Empty, OperatorsUser}]

\* The agent has a request of session s on the BMC.
Busy(s) == \/ create[s] \in {"sent", "listed", "chosen", "named", "keyed"}
           \/ \E b \in By : delete[s][b] \in {"sent", "disabled"}

\* Whether a request for s now meets work of, or a user of, another session.
Overlaps(s) == overlap \/ \E t \in Session \ {s} : Busy(t) \/ (create[t] = "ok" /\ t \in live)

-----------------------------------------------------------------------------
(* The backend.                                                            *)

\* StartSession looks for a session of the server under the read lock ...
FindSession(s) ==
  /\ start[s] = "idle"
  /\ start' = [start EXCEPT ![s] = IF live = {} THEN "passed" ELSE "joined"]
  /\ UNCHANGED <<live, slot, create, orphans, at, delete, bmc, overlap, hurried, exposed>>

\* ... inserts its own under the write lock, and asks for a user, or cannot.
InsertSession(s) ==
  /\ start[s] = "passed"
  /\ live' = live \union {s}
  /\ \/ /\ start' = [start EXCEPT ![s] = "user"]
        /\ create' = [create EXCEPT ![s] = "sent"]
        /\ overlap' = Overlaps(s)
     \/ /\ start' = [start EXCEPT ![s] = "kvm"]
        /\ UNCHANGED <<create, overlap>>
  /\ UNCHANGED <<slot, orphans, at, delete, bmc, hurried, exposed>>

\* With the user, without it, or without waiting for it any longer: kvm.start is next.
UserAnswer(s) ==
  /\ start[s] = "user"
  /\ \/ /\ create[s] \in {"ok", "error"}
        /\ slot' = [slot EXCEPT ![s] = IF create[s] = "ok" THEN at[s] ELSE 0]
        /\ UNCHANGED overlap
     \/ /\ create[s] \notin {"ok", "error"}
        /\ overlap' = TRUE
        /\ UNCHANGED slot
  /\ start' = [start EXCEPT ![s] = "kvm"]
  /\ UNCHANGED <<live, create, orphans, at, delete, bmc, hurried, exposed>>

KVMStarted(s) ==
  /\ start[s] = "kvm"
  /\ start' = [start EXCEPT ![s] = "active"]
  /\ UNCHANGED <<live, slot, create, orphans, at, delete, bmc, overlap, hurried, exposed>>

\* deleteTempUser: the request goes to the agent, if the agent is there.
DeleteTempUser(s, b) ==
  \/ /\ delete' = [delete EXCEPT ![s][b] = "sent"]
     /\ overlap' = Overlaps(s)
  \/ /\ delete' = [delete EXCEPT ![s][b] = "over"]
     /\ overlap' = TRUE

\* kvm.start is not answered: the user is deleted first, the session after it.
KVMFailed(s) ==
  /\ start[s] = "kvm"
  /\ start' = [start EXCEPT ![s] = "undo"]
  /\ IF slot[s] > 0 THEN DeleteTempUser(s, "starter") ELSE UNCHANGED <<delete, overlap>>
  /\ UNCHANGED <<live, slot, create, orphans, at, bmc, hurried, exposed>>

\* The deletion is waited for, 15 s at most.
Undone(s) ==
  /\ start[s] = "undo"
  /\ overlap' = (overlap \/ delete[s]["starter"] \in {"sent", "disabled"})
  /\ start' = [start EXCEPT ![s] = "failed"]
  /\ live' = live \ {s}
  /\ UNCHANGED <<slot, create, orphans, at, delete, bmc, hurried, exposed>>

\* Fault: the user of a session that is not active yet is forgotten.
StopSessionForgets(s) ==
  /\ s \in live
  /\ live' = live \ {s}
  /\ hurried' = IF start[s] = "active" THEN hurried ELSE hurried \union {s}
  /\ UNCHANGED <<start, slot, create, orphans, at, bmc, delete, overlap, exposed>>

\* StopSession, of a request, of a browser that went away, of the expiry: it takes the
\* session out of the map, and then has the user deleted that the session has by then.
StopSession(s) ==
  /\ s \in live
  /\ live' = live \ {s}
  /\ hurried' = IF start[s] = "active" THEN hurried ELSE hurried \union {s}
  /\ IF slot[s] > 0 THEN DeleteTempUser(s, "stopper") ELSE UNCHANGED <<delete, overlap>>
  /\ UNCHANGED <<start, slot, create, orphans, at, bmc, exposed>>

-----------------------------------------------------------------------------
(* The agent.                                                              *)

\* findOrphanedKVMUsers: the slots whose name begins with kvm-.
findOrphanedKVMUsers(list) == {i \in Slot : list[i].name \in Session}

\* Fault: the first slot not in use by a session.
FirstSlotNotOurs(list) ==
  LET free == {i \in Slot : list[i].name \notin Session} IN IF free = {} THEN 0 ELSE Min(free)

\* findFreeUserSlot: the first slot without a name.
findFreeUserSlot(list) ==
  LET free == {i \in Slot : list[i].name = None} IN IF free = {} THEN 0 ELSE Min(free)

Creates(s, from, to) ==
  /\ create[s] = from
  /\ create' = [create EXCEPT ![s] = to]
  /\ UNCHANGED <<live, start, slot, delete, overlap, hurried, exposed>>

\* HandleCreateTempUser, command by command where two of them can meet: the listing ...
ListUsers(s) ==
  /\ \/ /\ Creates(s, "sent", "listed")
        /\ orphans' = [orphans EXCEPT ![s] = findOrphanedKVMUsers(bmc)]
     \/ Creates(s, "sent", "error") /\ UNCHANGED orphans
  /\ UNCHANGED <<at, bmc>>

\* ... the removal of the orphans found in it, the listing after that, which can fail
\* too, and the choice of a slot ...
CleanAndChoose(s) ==
  /\ bmc' = [i \in Slot |-> IF i \in orphans[s] THEN Empty ELSE bmc[i]]
  /\ orphans' = [orphans EXCEPT ![s] = {}]
  /\ at' = [at EXCEPT ![s] = findFreeUserSlot(bmc')]
  /\ \/ Creates(s, "listed", IF at'[s] = 0 THEN "error" ELSE "chosen")
     \/ orphans[s] # {} /\ Creates(s, "listed", "error")

SetName(s) ==
  /\ \/ Creates(s, "chosen", "named") /\ bmc' = [bmc EXCEPT ![at[s]].name = s]
     \/ Creates(s, "chosen", "error") /\ UNCHANGED bmc
  /\ UNCHANGED <<orphans, at>>

\* A failure from here on clears the name again.
SetPassword(s) ==
  /\ \/ Creates(s, "named", "keyed") /\ bmc' = [bmc EXCEPT ![at[s]].key = s]
     \/ Creates(s, "named", "error") /\ bmc' = [bmc EXCEPT ![at[s]].name = None]
  /\ UNCHANGED <<orphans, at>>

\* Enabling, with the privileges on both channels; not one of them is a failure too.
EnableUser(s) ==
  /\ \/ Creates(s, "keyed", "ok") /\ bmc' = [bmc EXCEPT ![at[s]].on = TRUE]
     \/ Creates(s, "keyed", "error") /\ bmc' = [bmc EXCEPT ![at[s]].name = None, ![at[s]].on = FALSE]
  /\ UNCHANGED <<orphans, at>>

\* HandleDeleteTempUser: whoever is in the slot is disabled, and cleared after that.
DisableUser(s, b) ==
  /\ delete[s][b] = "sent"
  /\ delete' = [delete EXCEPT ![s][b] = "disabled"]
  /\ bmc' = [bmc EXCEPT ![slot[s]].on = FALSE]
  /\ UNCHANGED <<live, start, slot, create, orphans, at, overlap, hurried, exposed>>

ClearUser(s, b) ==
  /\ delete[s][b] = "disabled"
  /\ delete' = [delete EXCEPT ![s][b] = "over"]
  /\ bmc' = [bmc EXCEPT ![slot[s]] = Empty]
  /\ UNCHANGED <<live, start, slot, create, orphans, at, overlap, hurried, exposed>>

-----------------------------------------------------------------------------
(* The operators of the BMC.                                               *)

\* Work for s may yet write to slot i, which no command looks at again: as that of an
\* orphan, as the slot chosen for its user, as the one its user is deleted from.
HoldsSlot(s, i) ==
  \/ i \in orphans[s]
  \/ /\ at[s] = i
     /\ create[s] \in {"chosen", "named", "keyed"} \/ (create[s] = "ok" /\ start[s] = "user")
  \/ /\ slot[s] = i
     /\ s \in live \/ start[s] = "kvm" \/ \E b \in By : delete[s][b] \in {"sent", "disabled"}

OperatorAdds(i) ==
  /\ bmc[i].name = None
  /\ bmc' = [bmc EXCEPT ![i] = OperatorsUser]
  /\ exposed' = IF \E s \in Session : HoldsSlot(s, i) THEN exposed \union {i} ELSE exposed \ {i}
  /\ UNCHANGED <<live, start, slot, create, orphans, at, delete, overlap, hurried>>

OperatorRemoves(i) ==
  /\ bmc[i].name = Operator
  /\ bmc' = [bmc EXCEPT ![i] = Empty]
  /\ exposed' = exposed \ {i}
  /\ UNCHANGED <<live, start, slot, create, orphans, at, delete, overlap, hurried>>

SessionNext ==
  \E s \in Session :
    \/ FindSession(s) \/ InsertSession(s) \/ UserAnswer(s)
    \/ KVMStarted(s) \/ KVMFailed(s) \/ Undone(s) \/ StopSession(s)
    \/ ListUsers(s) \/ CleanAndChoose(s) \/ SetName(s) \/ SetPassword(s) \/ EnableUser(s)
    \/ \E b \in By : DisableUser(s, b) \/ ClearUser(s, b)

UsersNext == SessionNext \/ \E i \in Slot : OperatorAdds(i) \/ OperatorRemoves(i)

UsersSpec == UsersInit /\ [][UsersNext]_usersVars

-----------------------------------------------------------------------------
(* Properties.                                                             *)

HasUser(s) == bmc[slot[s]] = [name |-> s, key |-> s, on |-> TRUE]

\* An active session that was given a user has it on the BMC, enabled and with its
\* password, until it is stopped: what a creation removes are orphans of sessions
\* that are over (ipmi_user.go's account of findOrphanedKVMUsers).
ActiveSessionHasUser ==
  \A s \in live : start[s] = "active" /\ slot[s] > 0 => HasUser(s)

\* While the agent works for one session of a BMC at a time, an active session keeps
\* its user, and on the BMC there is no user of a session that is over, failed starts
\* and double stops included -- but for those stopped while they were starting, which
\* the next creation removes.
SerialSessionsTidy ==
  ~overlap =>
    /\ ActiveSessionHasUser
    /\ \A i \in Slot : bmc[i].name \in Session \ hurried =>
         bmc[i].name \in live \/ Busy(bmc[i].name)

\* Whatever interleaves, creations, removals of orphans and deletions of a slot chosen
\* long before leave the BMC's other users alone -- those that were there, and those that
\* operators add meanwhile, when no session held the slot.  Those they add to a slot that
\* one held are exposed, and the code does overwrite or delete them: it looks at no name
\* before it writes to a slot it listed or chose before (ipmi_user.go:79-96, 194-211).
OtherUsersKept ==
  [][\A i \in Slot \ exposed :
       bmc[i].name = Operator => bmc'[i] = bmc[i] \/ OperatorRemoves(i)]_usersVars
=============================================================================
