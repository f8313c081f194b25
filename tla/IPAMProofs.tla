----------------------------- MODULE IPAMProofs -----------------------------
(***************************************************************************)
(* Proofs about IPAM, for any requests, pools, addresses, ports and        *)
(* goroutines.                                                             *)
(***************************************************************************)
EXTENDS IPAM, FiniteSetTheorems, TLAPS

-----------------------------------------------------------------------------
(* The local variables of a goroutine, by where it is.                     *)

\* A row was read, of an address.
HasRow(j) == j.addr \in Host /\ j.got \in Row

KnownAt(w, j) ==
  /\ w # "idle" => j.req \in Request
  /\ w = "list" => j.req.op = "auto"
  /\ w \in {"pick", "take"} => j.req.op \in {"assign", "auto"}
  /\ w \in {"read", "count"} => j.req.op \in {"update", "delete"}
  /\ w = "write" => j.req.op = "update"
  /\ w = "delete" => j.req.op = "delete"
  /\ w = "insert" => j.req.op = "create"
  /\ w = "generate" => j.req.op = "generate"
  /\ w \in {"take", "read", "write", "count", "delete"} => HasRow(j)
  /\ w \in {"pick", "take", "count", "generate", "pool", "ports", "vlan", "port"} => j.from \in Pool
  /\ j.revert => HasRow(j) /\ j.from \in Pool /\ j.req.op \in {"update", "delete"}
  /\ w \in {"pool", "ports", "vlan", "port"} /\ ~j.revert => j.req.op \in {"assign", "auto", "update"}
  /\ w \in {"ports", "vlan", "port"} => j.cfg \in Config
  /\ w \in {"vlan", "port"} => DOMAIN j.todo # {}
  /\ w = "vlan" => j.cfg.range # {} /\ j.cfg.mode # "trunk"
  /\ w \in {"list", "pick", "take", "read", "write", "count", "insert", "generate", "vlan"} =>
       ~j.revert

CallsKnown ==
  /\ step \in [Call -> Steps]
  /\ job \in [Call -> Job]
  /\ \A c \in Call : step[c] = "idle" <=> job[c] = NoJob
  /\ \A c \in Call : KnownAt(step[c], job[c])

IPAMTypeInv == TypeOK /\ CallsKnown

\* A nonempty set of addresses, ports or VLANs has a first one: "ORDER BY ... LIMIT 1".
LEMMA FirstOf ==
  ASSUME NEW S, S \subseteq Nat, S # {}
  PROVE  Min(S) \in S /\ \A y \in S : Min(S) =< y
<1> DEFINE R == {p \in Nat \X Nat : p[1] < p[2]}
<1>1. IsWellFoundedOn(R, Nat)
  <2>1. R = OpToRel(<, Nat) BY DEF OpToRel
  <2> QED BY <2>1, NatLessThanWellFounded
<1>2. PICK x \in S : \A y \in S : ~(<<y, x>> \in R)
  <2> HIDE DEF R
  <2> QED BY <1>1, WFMin
<1>3. ASSUME NEW y \in S PROVE x =< y
  <2>1. x \in Nat /\ y \in Nat OBVIOUS
  <2>2. y < x => <<y, x>> \in R BY <2>1
  <2>3. ~(y < x) BY <1>2, <2>2
  <2> QED BY <2>1, <2>3
<1> QED BY <1>3 DEF Min

\* A goroutine that does nothing carries nothing.
LEMMA NoJobType == NoJob \in Job /\ ~NoJob.revert /\ NoJob.req = None
<1>1. <<>> \in [{} -> PortRow] OBVIOUS
<1>2. {} \in SUBSET Port OBVIOUS
<1>3. <<>> \in UNION {[qs -> PortRow] : qs \in SUBSET Port} BY <1>1, <1>2
<1> QED BY <1>3 DEF NoJob, Job

\* A goroutine moves on with local variables that are right for where it goes.
LEMMA GotoKeepsCalls ==
  ASSUME CallsKnown, NEW c \in Call, NEW w \in Steps \ {"idle"}, NEW j \in Job, KnownAt(w, j),
         Goto(c, w, j)
  PROVE  CallsKnown'
<1>1. j # NoJob BY NoJobType, NoneAssumption DEF KnownAt
<1>2. step' = [step EXCEPT ![c] = w] /\ job' = [job EXCEPT ![c] = j] BY DEF Goto
<1>3. step' \in [Call -> Steps] /\ job' \in [Call -> Job] BY <1>2 DEF CallsKnown
<1>4. \A d \in Call : \/ step'[d] = step[d] /\ job'[d] = job[d]
                      \/ step'[d] = w /\ job'[d] = j
  BY <1>2 DEF CallsKnown
<1>5. \A d \in Call : step'[d] = "idle" <=> job'[d] = NoJob
  BY <1>1, <1>4 DEF CallsKnown
<1>6. \A d \in Call : KnownAt(step'[d], job'[d])
  BY <1>4 DEF CallsKnown
<1> QED BY <1>3, <1>5, <1>6 DEF CallsKnown

\* A request that returns leaves its goroutine idle, the others as they were.
LEMMA ReturnKeepsCalls ==
  ASSUME CallsKnown, NEW c \in Call, Return(c)
  PROVE  CallsKnown'
<1>1. step' = [step EXCEPT ![c] = "idle"] /\ job' = [job EXCEPT ![c] = NoJob]
  BY DEF Goto, Return
<1>2. KnownAt("idle", NoJob) BY NoJobType DEF KnownAt
<1>3. step' \in [Call -> Steps] /\ job' \in [Call -> Job]
  BY <1>1, NoJobType DEF CallsKnown, Steps
<1>4. \A d \in Call : \/ step'[d] = step[d] /\ job'[d] = job[d]
                      \/ step'[d] = "idle" /\ job'[d] = NoJob
  BY <1>1 DEF CallsKnown
<1>5. \A d \in Call : step'[d] = "idle" <=> job'[d] = NoJob
  BY <1>4 DEF CallsKnown
<1>6. \A d \in Call : KnownAt(step'[d], job'[d])
  BY <1>2, <1>4 DEF CallsKnown
<1> QED BY <1>3, <1>5, <1>6 DEF CallsKnown

\* What is not a goroutine's own has its type.
TablesTypeOK ==
  /\ pool \in [Pool -> Config \union {None}]
  /\ row \in [Host -> Row]
  /\ port \in [Port -> PortRow]
  /\ requests \in 0 .. MaxRequests
  /\ edits \in 0 .. MaxEdits
  /\ disturbed \subseteq Call
  /\ kept \subseteq Host
  /\ followed \in BOOLEAN

\* The invariant of type is about the tables and about the goroutines.
LEMMA TypeParts == IPAMTypeInv <=> TablesTypeOK /\ CallsKnown
BY DEF IPAMTypeInv, TypeOK, TablesTypeOK, CallsKnown

\* A step that changes nothing but where goroutine c is.
LEMMA QuietTables ==
  ASSUME TablesTypeOK, UNCHANGED <<data, requests, edits, ghost>>
  PROVE  TablesTypeOK'
BY DEF TablesTypeOK, data, ghost

\* An update of a row that is gone does nothing; of one that is there, its status and
\* its server are written.
LEMMA WriteType ==
  ASSUME TablesTypeOK, NEW c \in Call, job[c].addr \in Host,
         NEW status \in Statuses \union {"absent"}, NEW server \in Server \union {None},
         Write(c, status, server)
  PROVE  /\ row' \in [Host -> Row]
         /\ \A a \in Host \ {job[c].addr} : row'[a] = row[a]
         /\ ~Exists(c) => row' = row
         /\ Exists(c) => LET w == row'[job[c].addr]
                         IN /\ w.id = row[job[c].addr].id /\ w.pool = row[job[c].addr].pool
                            /\ w.status = status /\ w.server = server
<1> DEFINE a == job[c].addr
           w == [[row[a] EXCEPT !.status = status] EXCEPT !.server = server]
<1>1. CASE Exists(c)
  <2>1. row[a] \in Row BY DEF TablesTypeOK
  <2>2. /\ w \in Row /\ w.id = row[a].id /\ w.pool = row[a].pool
        /\ w.status = status /\ w.server = server
    BY <2>1 DEF Row
  <2>3. [row EXCEPT ![a].status = status, ![a].server = server] = [row EXCEPT ![a] = w]
    BY DEF TablesTypeOK
  <2>4. row' = [row EXCEPT ![a] = w] BY <1>1, <2>3 DEF Write
  <2> HIDE DEF w
  <2> QED BY <1>1, <2>2, <2>4 DEF TablesTypeOK
<1>2. CASE ~Exists(c)
  BY <1>2 DEF Write, TablesTypeOK
<1> QED BY <1>1, <1>2

\* An inserted row has the type of rows.
LEMMA InsertType ==
  ASSUME TablesTypeOK, NEW a \in Host, NEW p \in Pool, NEW status \in Statuses,
         NEW server \in Server \union {None}, InsertRow(a, p, status, server)
  PROVE  row' \in [Host -> Row]
<1>1. row[a].id \in Nat BY DEF TablesTypeOK, Row
<1>2. [id |-> row[a].id + 1, pool |-> p, status |-> status, server |-> server] \in Row
  BY <1>1 DEF Row
<1> QED BY <1>2 DEF InsertRow, TablesTypeOK

\* The fields of a request, by its kind.
LEMMA RequestFields ==
  ASSUME NEW r \in Request
  PROVE  /\ r.op \in {"assign", "auto", "update", "delete", "create", "generate"}
         /\ r.op \in {"assign", "create", "generate"} => r.pool \in Pool
         /\ r.op \in {"assign", "auto"} => r.server \in Server /\ r.preview \in BOOLEAN
         /\ r.op \in {"update", "create"} => r.server \in Server \union {None}
         /\ r.op \in {"update", "delete", "create"} => r.addr \in Host
         /\ r.op = "update" => r.status \in Statuses \union {None}
         /\ r.op = "create" => r.status \in Statuses
         /\ r.op = "generate" => r.reserve \in BOOLEAN
BY ClientAssumption DEF RequestType

-----------------------------------------------------------------------------
(* Types: each action gives a goroutine what the next step takes for granted. *)

\* The beginning of a request keeps the types.
LEMMA BeginType ==
  ASSUME IPAMTypeInv, NEW c \in Call, NEW r \in Request, Begin(c, r)
  PROVE  IPAMTypeInv'
<1> DEFINE from == IF r.op \in {"assign", "create", "generate"} THEN r.pool ELSE None
           addr == IF r.op \in {"update", "delete", "create"} THEN r.addr ELSE None
           got  == IF r.op \in {"update", "delete"} THEN row[r.addr] ELSE None
           left == IF r.op = "generate" THEN Hosts[r.pool] ELSE {}
           j    == [NoJob EXCEPT !.req = r, !.from = from, !.addr = addr, !.got = got, !.left = left]
<1>1. r.op \in {"update", "delete"} => row[r.addr] \in Row
  BY RequestFields DEF IPAMTypeInv, TypeOK
<1>2. r.op = "generate" => Hosts[r.pool] \in SUBSET Host
  BY RequestFields, NetworkAssumption
<1>3. j \in Job
  <2>1. from \in Pool \union {None} /\ addr \in Host \union {None}
    BY RequestFields
  <2>2. got \in Row \union {None} /\ left \in SUBSET Host
    BY <1>1, <1>2
  <2> HIDE DEF from, addr, got, left
  <2> DEFINE Reqs == Request \union {None}
             Froms == Pool \union {None}
             Addrs == Host \union {None}
             Gots == Row \union {None}
             Cfgs == Config \union {None}
             Todos == UNION {[qs -> PortRow] : qs \in SUBSET Port}
             Vids == Vlan \union {0}
             Lefts == SUBSET Host
  <2>3. Job = [req : Reqs, from : Froms, addr : Addrs, got : Gots, cfg : Cfgs, todo : Todos,
               vid : Vids, revert : BOOLEAN, left : Lefts]
    BY DEF Job
  <2>4. r \in Reqs /\ from \in Froms /\ addr \in Addrs /\ got \in Gots /\ left \in Lefts
    BY <2>1, <2>2
  <2> HIDE DEF Reqs, Froms, Addrs, Gots, Cfgs, Todos, Vids, Lefts
  <2> QED BY <2>3, <2>4, NoJobType
<1>4. /\ j.req = r /\ ~j.revert
      /\ r.op \in {"assign", "create", "generate"} => j.from = r.pool
      /\ r.op \in {"update", "delete"} => j.addr = r.addr /\ j.got = row[r.addr]
  BY DEF NoJob
<1> HIDE DEF j
<1>5. KnownAt(FirstStep(r), j)
  BY <1>1, <1>4, RequestFields DEF KnownAt, FirstStep, HasRow
<1>6. FirstStep(r) \in Steps \ {"idle"} BY DEF FirstStep, Steps
<1>7. CallsKnown'
  BY <1>3, <1>5, <1>6, TypeParts, GotoKeepsCalls DEF Begin, j
<1>8. TablesTypeOK'
  BY TypeParts, ClientAssumption DEF Begin, TablesTypeOK, data, Active
<1> QED BY <1>7, <1>8, TypeParts DEF IPAMTypeInv, TypeOK, TablesTypeOK, CallsKnown

\* Updates and deletions of pools keep the types.
LEMMA PoolEditType ==
  ASSUME IPAMTypeInv, NEW p \in Pool, DeletePool(p) \/ \E k \in Config : UpdatePool(p, k)
  PROVE  IPAMTypeInv'
<1>1. CallsKnown'
  BY TypeParts DEF DeletePool, UpdatePool, CallsKnown
<1>2. \A a \in Host : [row[a] EXCEPT !.status = "absent"] \in Row
  BY DEF IPAMTypeInv, TypeOK, Row
<1>3. row' \in [Host -> Row]
  BY <1>2 DEF DeletePool, UpdatePool, IPAMTypeInv, TypeOK
<1>4. pool' \in [Pool -> Config \union {None}]
  BY TypeParts DEF DeletePool, UpdatePool, TablesTypeOK
<1>5. /\ requests' = requests /\ edits' = edits + 1 /\ edits < MaxEdits /\ port' = port
      /\ disturbed' = disturbed \union Active /\ followed' = FALSE /\ kept' = kept
  BY DEF DeletePool, UpdatePool
<1>6. edits' \in 0 .. MaxEdits
  BY <1>5, TypeParts, ClientAssumption DEF TablesTypeOK
<1>7. TablesTypeOK'
  BY <1>3, <1>4, <1>5, <1>6, TypeParts DEF TablesTypeOK, Active
<1> QED BY <1>1, <1>7 DEF IPAMTypeInv, TypeOK, TablesTypeOK, CallsKnown

\* So does the end of a client.
LEMMA ClientGoesType ==
  ASSUME IPAMTypeInv, NEW c \in Call, ClientGoes(c)
  PROVE  IPAMTypeInv'
<1>1. CallsKnown' BY TypeParts, ReturnKeepsCalls DEF ClientGoes
<1>2. TablesTypeOK' BY TypeParts DEF ClientGoes, TablesTypeOK, data
<1> QED BY <1>1, <1>2 DEF IPAMTypeInv, TypeOK, TablesTypeOK, CallsKnown

\* A goroutine that moves on with local variables that are right, or returns, and the
\* tables as they should be.
LEMMA MovesOn ==
  ASSUME IPAMTypeInv, NEW c \in Call, TablesTypeOK',
         \/ Return(c)
         \/ \E w \in Steps \ {"idle"}, j \in Job : KnownAt(w, j) /\ Goto(c, w, j)
  PROVE  IPAMTypeInv'
<1>1. CallsKnown' BY TypeParts, ReturnKeepsCalls, GotoKeepsCalls
<1> QED BY <1>1 DEF IPAMTypeInv, TypeOK, TablesTypeOK, CallsKnown

\* So does a goroutine that moves on, or returns, and writes no table.
LEMMA MovesOnQuietly ==
  ASSUME IPAMTypeInv, NEW c \in Call, UNCHANGED <<data, requests, edits, ghost>>,
         \/ Return(c)
         \/ \E w \in Steps \ {"idle"}, j \in Job : KnownAt(w, j) /\ Goto(c, w, j)
  PROVE  IPAMTypeInv'
BY TypeParts, QuietTables, MovesOn

\* The listing of the assignable pools keeps the types.
LEMMA ListPoolsType ==
  ASSUME IPAMTypeInv, NEW c \in Call, ListPools(c)
  PROVE  IPAMTypeInv'
<1>1. job[c] \in Job /\ KnownAt("list", job[c])
  BY DEF ListPools, IPAMTypeInv, CallsKnown
<1>2. CASE Return(c)
  BY <1>2, MovesOnQuietly DEF ListPools
<1>3. ASSUME NEW p \in Pool, Goto(c, "pick", [job[c] EXCEPT !.from = p]) PROVE IPAMTypeInv'
  <2>1. [job[c] EXCEPT !.from = p] \in Job BY <1>1 DEF Job
  <2>2. KnownAt("pick", [job[c] EXCEPT !.from = p]) BY <1>1 DEF KnownAt, Job
  <2> QED BY <1>3, <2>1, <2>2, MovesOnQuietly DEF ListPools, Steps
<1> QED BY <1>2, <1>3 DEF ListPools, Assignable

\* The choice of an address keeps the types.
LEMMA PickType ==
  ASSUME IPAMTypeInv, NEW c \in Call, Pick(c)
  PROVE  IPAMTypeInv'
<1>1. job[c] \in Job /\ KnownAt("pick", job[c])
  BY DEF Pick, IPAMTypeInv, CallsKnown
<1>2. CASE Return(c)
  BY <1>2, MovesOnQuietly DEF Pick
<1>3. CASE ~Return(c)
  <2> DEFINE a == NextAvailable(job[c].from)
             j == [job[c] EXCEPT !.addr = a, !.got = row[a]]
  <2>1. Available(job[c].from) # {} /\ Goto(c, "take", j)
    BY <1>3 DEF Pick
  <2>2. a \in Host
    BY <2>1, FirstOf, NetworkAssumption DEF NextAvailable, Available
  <2>3. row[a] \in Row BY <2>2 DEF IPAMTypeInv, TypeOK
  <2> HIDE DEF a
  <2>4. j \in Job BY <1>1, <2>2, <2>3 DEF Job
  <2>5. KnownAt("take", j) BY <1>1, <2>2, <2>3 DEF KnownAt, HasRow, Job
  <2> QED BY <2>1, <2>4, <2>5, MovesOnQuietly DEF Pick, Steps
<1> QED BY <1>2, <1>3

\* The reading of a row keeps the types.
LEMMA ReadRowType ==
  ASSUME IPAMTypeInv, NEW c \in Call, ReadRow(c)
  PROVE  IPAMTypeInv'
<1> DEFINE got == row[job[c].addr]
           j   == [job[c] EXCEPT !.got = got]
           k   == [job[c] EXCEPT !.got = got, !.from = got.pool]
<1>1. job[c] \in Job /\ KnownAt("read", job[c])
  BY DEF ReadRow, IPAMTypeInv, CallsKnown
<1>2. got \in Row
  BY <1>1 DEF KnownAt, HasRow, IPAMTypeInv, TypeOK
<1>3. got.pool \in Pool BY <1>2 DEF Row
<1>4. \/ Return(c)
      \/ Goto(c, "write", j) /\ job[c].req.op = "update"
      \/ Goto(c, "count", k)
      \/ Goto(c, "delete", job[c]) /\ job[c].req.op # "update"
  BY DEF ReadRow
<1> HIDE DEF got
<1>5. j \in Job /\ k \in Job BY <1>1, <1>2, <1>3 DEF Job
<1>6. /\ job[c].req.op = "update" => KnownAt("write", j)
      /\ KnownAt("count", k)
      /\ job[c].req.op # "update" => KnownAt("delete", job[c])
  BY <1>1, <1>2, <1>3 DEF KnownAt, HasRow, Job
<1> QED BY <1>1, <1>4, <1>5, <1>6, MovesOnQuietly DEF ReadRow, Steps

\* The count of a server's addresses keeps the types.
LEMMA CountRowsType ==
  ASSUME IPAMTypeInv, NEW c \in Call, CountRows(c)
  PROVE  IPAMTypeInv'
<1>1. job[c] \in Job /\ KnownAt("count", job[c])
  BY DEF CountRows, IPAMTypeInv, CallsKnown
<1>2. \/ Return(c)
      \/ job[c].req.op = "delete" /\ \E b \in BOOLEAN : Goto(c, "delete", [job[c] EXCEPT !.revert = b])
      \/ Goto(c, "pool", [job[c] EXCEPT !.revert = TRUE])
  <2> DEFINE few == Count(c) <= 1
  <2>1. few \in BOOLEAN OBVIOUS
  <2>2. job[c].req.op = "delete" => Goto(c, "delete", [job[c] EXCEPT !.revert = few])
    BY DEF CountRows
  <2>3. job[c].req.op # "delete" =>
          Return(c) \/ Goto(c, "pool", [job[c] EXCEPT !.revert = TRUE])
    BY DEF CountRows
  <2> HIDE DEF few
  <2> QED BY <2>1, <2>2, <2>3
<1>3. \A b \in BOOLEAN : [job[c] EXCEPT !.revert = b] \in Job
  BY <1>1 DEF Job
<1>4. /\ KnownAt("pool", [job[c] EXCEPT !.revert = TRUE])
      /\ job[c].req.op = "delete" =>
           \A b \in BOOLEAN : KnownAt("delete", [job[c] EXCEPT !.revert = b])
  BY <1>1 DEF KnownAt, HasRow, Job
<1> QED BY <1>2, <1>3, <1>4, MovesOnQuietly DEF CountRows, Steps

\* The reading of a pool's settings keeps the types.
LEMMA ReadPoolType ==
  ASSUME IPAMTypeInv, NEW c \in Call, ReadPool(c)
  PROVE  IPAMTypeInv'
<1> DEFINE k == pool[job[c].from]
<1>1. job[c] \in Job /\ KnownAt("pool", job[c])
  BY DEF ReadPool, IPAMTypeInv, CallsKnown
<1>2. \/ Return(c)
      \/ k # None /\ Goto(c, "ports", [job[c] EXCEPT !.cfg = k])
  BY DEF ReadPool
<1>3. k \in Config \union {None}
  BY <1>1 DEF KnownAt, IPAMTypeInv, TypeOK
<1> HIDE DEF k
<1>4. k # None => [job[c] EXCEPT !.cfg = k] \in Job /\ KnownAt("ports", [job[c] EXCEPT !.cfg = k])
  BY <1>1, <1>3 DEF KnownAt, HasRow, Job
<1> QED BY <1>2, <1>4, MovesOnQuietly DEF ReadPool, Steps

\* The reading of a server's ports keeps the types.
LEMMA ReadPortsType ==
  ASSUME IPAMTypeInv, NEW c \in Call, ReadPorts(c)
  PROVE  IPAMTypeInv'
<1> DEFINE qs == {q \in Port : LinkedTo[q] = Target(c)}
           t  == [q \in qs |-> port[q]]
           j  == [job[c] EXCEPT !.todo = t]
           w  == NextPort(job[c])
<1>1. job[c] \in Job /\ KnownAt("ports", job[c])
  BY DEF ReadPorts, IPAMTypeInv, CallsKnown
<1>2. Return(c) \/ (qs # {} /\ Goto(c, w, j))
  BY DEF ReadPorts
<1>3. t \in [qs -> PortRow] /\ qs \in SUBSET Port /\ DOMAIN t = qs
  BY DEF IPAMTypeInv, TypeOK
<1>4. w \in {"vlan", "port"} /\ (w = "vlan" =>
        job[c].cfg.range # {} /\ job[c].cfg.mode # "trunk" /\ ~job[c].revert)
  BY DEF NextPort
<1> HIDE DEF w, t, qs
<1>5. j \in Job BY <1>1, <1>3 DEF Job
<1>6. qs # {} => KnownAt(w, j)
  BY <1>1, <1>3, <1>4 DEF KnownAt, HasRow, Job
<1> QED BY <1>2, <1>4, <1>5, <1>6, MovesOnQuietly DEF ReadPorts, Steps

\* An assignment writes the server it is for.
LEMMA TakeType ==
  ASSUME IPAMTypeInv, NEW c \in Call, Take(c)
  PROVE  IPAMTypeInv'
<1>1. job[c] \in Job /\ KnownAt("take", job[c])
  BY DEF Take, IPAMTypeInv, CallsKnown
<1>2. job[c].addr \in Host /\ job[c].req.server \in Server
  BY <1>1, RequestFields DEF KnownAt, HasRow
<1>3. row' \in [Host -> Row]
  BY <1>2, TypeParts, WriteType DEF Take, Statuses
<1>4. TablesTypeOK'
  BY <1>3, TypeParts DEF Take, TablesTypeOK
<1>5. KnownAt("pool", job[c]) BY <1>1 DEF KnownAt
<1>6. Goto(c, "pool", job[c]) /\ "pool" \in Steps \ {"idle"} BY DEF Take, Steps
<1> QED BY <1>1, <1>4, <1>5, <1>6, MovesOn

\* The update of an address keeps the types.
LEMMA WriteRowType ==
  ASSUME IPAMTypeInv, NEW c \in Call, WriteRow(c)
  PROVE  IPAMTypeInv'
<1> DEFINE old == job[c].got
           status == IF job[c].req.status = None THEN old.status ELSE job[c].req.status
           new == [old EXCEPT !.status = IF job[c].req.status = None THEN @ ELSE job[c].req.status,
                              !.server = job[c].req.server]
           j == [job[c] EXCEPT !.from = old.pool]
<1>1. job[c] \in Job /\ KnownAt("write", job[c])
  BY DEF WriteRow, IPAMTypeInv, CallsKnown
<1>2. old \in Row /\ old.pool \in Pool
  BY <1>1 DEF KnownAt, HasRow, Row
<1>3. new.status = status /\ new.server = job[c].req.server
  BY <1>2 DEF Row
<1>4. status \in Statuses \union {"absent"} /\ job[c].req.server \in Server \union {None}
  BY <1>1, <1>2, RequestFields DEF KnownAt, Row
<1>5. Write(c, status, job[c].req.server)
  BY <1>3 DEF WriteRow
<1>6. \/ Return(c) \/ Goto(c, "count", j) \/ Goto(c, "pool", j)
  BY DEF WriteRow
<1> HIDE DEF old, status, new
<1>7. row' \in [Host -> Row]
  BY <1>1, <1>4, <1>5, TypeParts, WriteType DEF KnownAt, HasRow
<1>8. TablesTypeOK'
  BY <1>7, TypeParts DEF WriteRow, TablesTypeOK
<1>9. j \in Job /\ KnownAt("count", j) /\ KnownAt("pool", j)
  BY <1>1, <1>2 DEF KnownAt, HasRow, Job
<1> QED BY <1>6, <1>8, <1>9, MovesOn DEF Steps

\* The deletion of an address keeps the types.
LEMMA DeleteRowType ==
  ASSUME IPAMTypeInv, NEW c \in Call, DeleteRow(c)
  PROVE  IPAMTypeInv'
<1>1. job[c] \in Job /\ KnownAt("delete", job[c])
  BY DEF DeleteRow, IPAMTypeInv, CallsKnown
<1>2. job[c].addr \in Host BY <1>1 DEF KnownAt, HasRow
<1>3. row' \in [Host -> Row]
  <2>1. [row[job[c].addr] EXCEPT !.status = "absent"] \in Row
    BY <1>2 DEF IPAMTypeInv, TypeOK, Row
  <2>2. row' \in {row, [row EXCEPT ![job[c].addr] = [row[job[c].addr] EXCEPT !.status = "absent"]]}
    BY DEF DeleteRow
  <2> QED BY <2>1, <2>2 DEF IPAMTypeInv, TypeOK
<1>4. TablesTypeOK'
  BY <1>3, TypeParts DEF DeleteRow, TablesTypeOK, ghost
<1>5. Return(c) \/ (job[c].revert /\ Goto(c, "pool", job[c]))
  BY DEF DeleteRow
<1>6. job[c].revert => KnownAt("pool", job[c])
  BY <1>1 DEF KnownAt
<1> QED BY <1>1, <1>4, <1>5, <1>6, MovesOn DEF Steps

\* The creation of an address keeps the types.
LEMMA InsertActionType ==
  ASSUME IPAMTypeInv, NEW c \in Call, Insert(c)
  PROVE  IPAMTypeInv'
<1> DEFINE r == job[c].req
<1>1. r \in Request /\ r.op = "create"
  BY DEF Insert, IPAMTypeInv, CallsKnown, KnownAt
<1>2. r.addr \in Host /\ r.pool \in Pool /\ r.status \in Statuses /\ r.server \in Server \union {None}
  BY <1>1, RequestFields
<1>3. \/ UNCHANGED <<row, kept, followed>>
      \/ /\ InsertRow(r.addr, r.pool, r.status, r.server) /\ kept' = kept \ {r.addr}
         /\ followed' \in BOOLEAN
  BY DEF Insert
<1> HIDE DEF r
<1>4. row' \in [Host -> Row]
  BY <1>2, <1>3, TypeParts, InsertType DEF TablesTypeOK
<1>5. TablesTypeOK'
  BY <1>3, <1>4, TypeParts DEF Insert, TablesTypeOK
<1> QED BY <1>5, MovesOn DEF Insert

\* The generation of the next address keeps the types.
LEMMA GenerateType ==
  ASSUME IPAMTypeInv, NEW c \in Call, Generate(c)
  PROVE  IPAMTypeInv'
<1> DEFINE p == job[c].from
           a == Min(job[c].left)
           reserved == job[c].req.reserve /\ a = Gateway[p]
           j == [job[c] EXCEPT !.left = @ \ {a}]
<1>1. job[c] \in Job /\ KnownAt("generate", job[c])
  BY DEF Generate, IPAMTypeInv, CallsKnown
<1>2. CASE job[c].left = {}
  <2>1. TablesTypeOK' BY <1>2, TypeParts DEF Generate, TablesTypeOK
  <2> QED BY <1>2, <2>1, MovesOn DEF Generate
<1>3. CASE job[c].left # {}
  <2>1. a \in Host
    BY <1>1, <1>3, FirstOf, NetworkAssumption DEF Job
  <2>2. p \in Pool BY <1>1 DEF KnownAt
  <2>3. \/ UNCHANGED <<row, kept>>
        \/ /\ InsertRow(a, p, IF reserved THEN "reserved" ELSE "available", None)
           /\ kept' \in {kept \union {a}, kept \ {a}}
    BY <1>3 DEF Generate
  <2>4. Return(c) \/ Goto(c, "generate", j)
    BY <1>3 DEF Generate
  <2> HIDE DEF a, p, reserved
  <2>5. row' \in [Host -> Row]
    BY <2>1, <2>2, <2>3, TypeParts, InsertType DEF TablesTypeOK, Statuses
  <2>6. TablesTypeOK'
    BY <2>1, <2>3, <2>5, TypeParts DEF Generate, TablesTypeOK
  <2>7. j \in Job BY <1>1 DEF Job
  <2>8. KnownAt("generate", j) BY <1>1 DEF KnownAt, Job, HasRow
  <2> QED BY <2>4, <2>6, <2>7, <2>8, MovesOn DEF Steps
<1> QED BY <1>2, <1>3

\* The choice of a VLAN keeps the types.
LEMMA AllocateVlanType ==
  ASSUME IPAMTypeInv, NEW c \in Call, AllocateVlan(c)
  PROVE  IPAMTypeInv'
<1> DEFINE free == job[c].cfg.range \ UsedVlans
           vid == IF free = {} THEN 0 ELSE Min(free)
           j == [job[c] EXCEPT !.vid = vid]
<1>1. job[c] \in Job /\ KnownAt("vlan", job[c])
  BY DEF AllocateVlan, IPAMTypeInv, CallsKnown
<1>2. vid \in Vlan \union {0}
  <2>1. free \subseteq Vlan
    BY <1>1, ClientAssumption DEF KnownAt
  <2>2. free # {} => Min(free) \in free
    BY <2>1, FirstOf, PortAssumption
  <2> QED BY <2>1, <2>2
<1>3. Goto(c, "port", j) /\ followed' \in BOOLEAN
  BY DEF AllocateVlan
<1> HIDE DEF vid
<1>4. TablesTypeOK'
  BY <1>3, TypeParts DEF AllocateVlan, TablesTypeOK, data
<1>5. j \in Job /\ KnownAt("port", j)
  BY <1>1, <1>2 DEF KnownAt, HasRow, Job
<1> QED BY <1>3, <1>4, <1>5, MovesOn DEF Steps

\* What a port is given has the type of a port's row.
LEMMA NewPortRowType ==
  ASSUME NEW k \in Config, NEW vid \in Vlan \union {0}, NEW r \in PortRow
  PROVE  NewPortRow(k, vid, r) \in PortRow
<1>1. k.vlan \in Vlan \union {0} BY ClientAssumption
<1>2. r.vlan \in Vlan \union {0, 1} /\ r.native \in Vlan \union {0} BY DEF PortRow
<1>3. \A v \in Vlan \union {0, 1} : Access(v) \in PortRow BY DEF Access, PortRow, Modes
<1>4. \A v \in Vlan \union {0} : Native(v) \in PortRow BY DEF Native, PortRow, Modes
<1>5. Trunk \in PortRow BY DEF Trunk, PortRow, Modes
<1> QED BY <1>1, <1>2, <1>3, <1>4, <1>5 DEF NewPortRow

\* The first of the ports left to configure, and the ports after it.
LEMMA NextTodo ==
  ASSUME NEW j \in Job, DOMAIN j.todo # {}
  PROVE  /\ DOMAIN j.todo \subseteq Port
         /\ Min(DOMAIN j.todo) \in DOMAIN j.todo /\ Min(DOMAIN j.todo) \in Port
         /\ \A q \in DOMAIN j.todo : j.todo[q] \in PortRow
         /\ \A rest \in SUBSET DOMAIN j.todo :
              LET k == [j EXCEPT !.todo = Restrict(@, rest), !.vid = 0]
              IN k \in Job /\ DOMAIN k.todo = rest
<1>1. PICK qs \in SUBSET Port : j.todo \in [qs -> PortRow]
  BY DEF Job
<1>2. DOMAIN j.todo = qs BY <1>1
<1>3. Min(qs) \in qs BY <1>2, FirstOf, PortAssumption
<1>4. ASSUME NEW rest \in SUBSET qs
      PROVE  LET k == [j EXCEPT !.todo = Restrict(@, rest), !.vid = 0]
             IN k \in Job /\ DOMAIN k.todo = rest
  <2> DEFINE t == Restrict(j.todo, rest)
  <2>1. t \in [rest -> PortRow] /\ DOMAIN t = rest BY <1>1 DEF Restrict
  <2>2. t \in UNION {[s -> PortRow] : s \in SUBSET Port} BY <2>1
  <2> HIDE DEF t
  <2>3. [j EXCEPT !.todo = t, !.vid = 0] \in Job /\ [j EXCEPT !.todo = t, !.vid = 0].todo = t
    BY <2>2 DEF Job
  <2> QED BY <2>1, <2>3 DEF t
<1> QED BY <1>1, <1>2, <1>3, <1>4

\* The write of a port keeps the types.
LEMMA SavePortType ==
  ASSUME IPAMTypeInv, NEW c \in Call, SavePort(c)
  PROVE  IPAMTypeInv'
<1> DEFINE j == job[c]
           q == Min(DOMAIN j.todo)
           rest == DOMAIN j.todo \ {q}
           w == IF j.revert THEN DefaultPort ELSE NewPortRow(j.cfg, j.vid, j.todo[q])
           k == [j EXCEPT !.todo = Restrict(@, rest), !.vid = 0]
<1>1. j \in Job /\ KnownAt("port", j)
  BY DEF SavePort, IPAMTypeInv, CallsKnown
<1>2. /\ q \in Port /\ j.todo[q] \in PortRow
      /\ k \in Job /\ DOMAIN k.todo = rest
  BY <1>1, NextTodo DEF KnownAt
<1>3. w \in PortRow
  <2>1. DefaultPort \in PortRow BY DEF DefaultPort, Access, PortRow, Modes
  <2>2. j.cfg \in Config /\ j.vid \in Vlan \union {0} BY <1>1 DEF KnownAt, Job
  <2> QED BY <1>2, <2>1, <2>2, NewPortRowType
<1>4. /\ port' = [port EXCEPT ![q] = w]
      /\ Return(c) \/ (rest # {} /\ Goto(c, NextPort(j), k))
  BY DEF SavePort
<1>5. /\ k.req = j.req /\ k.revert = j.revert /\ k.from = j.from /\ k.cfg = j.cfg
      /\ k.addr = j.addr /\ k.got = j.got
  BY <1>1 DEF Job
<1>6. NextPort(j) \in {"vlan", "port"} /\ (NextPort(j) = "vlan" =>
        j.cfg.range # {} /\ j.cfg.mode # "trunk" /\ ~j.revert)
  BY DEF NextPort
<1> HIDE DEF k, w, q
<1>7. TablesTypeOK'
  BY <1>3, <1>4, TypeParts DEF SavePort, TablesTypeOK, ghost
<1>8. rest # {} => KnownAt(NextPort(j), k)
  BY <1>1, <1>2, <1>5, <1>6 DEF KnownAt, HasRow
<1> QED BY <1>2, <1>4, <1>6, <1>7, <1>8, MovesOn DEF Steps

\* Every step keeps the types.
LEMMA TypeStep ==
  ASSUME IPAMTypeInv, [Next]_vars
  PROVE  IPAMTypeInv'
<1>1. ASSUME NEW c \in Call, RequestStep(c) PROVE IPAMTypeInv'
  BY <1>1, ListPoolsType, PickType, TakeType, ReadRowType, WriteRowType, CountRowsType,
     DeleteRowType, InsertActionType, GenerateType, ReadPoolType, ReadPortsType,
     AllocateVlanType, SavePortType DEF RequestStep
<1>2. CASE UNCHANGED vars
  BY <1>2 DEF vars, data, ghost, IPAMTypeInv, TypeOK, CallsKnown
<1> QED BY <1>1, <1>2, BeginType, PoolEditType, ClientGoesType DEF Next

\* The types hold at first.
LEMMA TypeInit == Init => IPAMTypeInv
<1> SUFFICES ASSUME Init PROVE IPAMTypeInv
    OBVIOUS
<1>1. CallsKnown
  <2>1. step \in [Call -> Steps] /\ job \in [Call -> Job]
    BY NoJobType DEF Init, Steps
  <2>2. \A c \in Call : step[c] = "idle" /\ job[c] = NoJob BY DEF Init
  <2>3. KnownAt("idle", NoJob) BY NoJobType DEF KnownAt
  <2> QED BY <2>1, <2>2, <2>3 DEF CallsKnown
<1>2. TablesTypeOK
  <2>1. pool \in [Pool -> Config \union {None}] BY DEF Init
  <2>2. row \in [Host -> Row]
    <3>1. (CHOOSE p \in Pool : TRUE) \in Pool BY NetworkAssumption
    <3> QED BY <3>1 DEF Init, Row
  <2>3. port \in [Port -> PortRow]
    <3>1. DefaultPort \in PortRow BY DEF DefaultPort, Access, PortRow, Modes
    <3> QED BY <3>1 DEF Init
  <2> QED BY <2>1, <2>2, <2>3, ClientAssumption DEF Init, TablesTypeOK
<1> QED BY <1>1, <1>2, TypeParts

\* The tables hold what their columns allow, and a goroutine has read what the query it
\* is about to make takes from its local variables: the row of an address before it
\* writes one, a pool before its ports, the pool's settings and a port before it writes one.
THEOREM IPAMTypeCorrect == Spec => []TypeOK
<1>1. IPAMTypeInv /\ [Next]_vars => IPAMTypeInv'
  BY TypeStep
<1>2. IPAMTypeInv => TypeOK BY DEF IPAMTypeInv
<1> QED BY <1>1, <1>2, TypeInit, PTL DEF Spec

-----------------------------------------------------------------------------
(* Reserved gateways.                                                      *)

\* An assignment read a row that was available.  If it is still the same row, it is no
\* reserved gateway: a gateway generated since is a row with another id.
NoGateway(c) ==
  step[c] = "take" =>
    LET now == row[job[c].addr]
    IN job[c].got.id <= now.id /\ (job[c].got.id = now.id => job[c].addr \notin kept)

GatewayInv == GatewayKept /\ \A c \in Call : NoGateway(c)

\* The invariant follows from what a step does to the rows, when no goroutine but one
\* that is about to take an address already goes on to take one.
LEMMA GatewayFromRows ==
  ASSUME IPAMTypeInv, IPAMTypeInv', GatewayInv,
         \A d \in Call : step'[d] = "take" => step[d] = "take" /\ job'[d] = job[d],
         \A a \in Host : /\ row[a].id <= row'[a].id
                         /\ a \in kept' => row'[a].status \in {"reserved", "absent"}
                         /\ row[a].id = row'[a].id /\ a \in kept' => a \in kept
  PROVE  GatewayInv'
<1>1. GatewayKept' BY DEF GatewayKept, IPAMTypeInv, TypeOK
<1>2. ASSUME NEW d \in Call, step'[d] = "take" PROVE NoGateway(d)'
  <2> DEFINE a == job[d].addr
  <2>1. step[d] = "take" /\ job'[d] = job[d] BY <1>2
  <2>2. a \in Host /\ job[d].got \in Row
    BY <2>1 DEF IPAMTypeInv, CallsKnown, KnownAt, HasRow
  <2>3. job[d].got.id \in Nat /\ row[a].id \in Nat /\ row'[a].id \in Nat
    BY <2>2 DEF IPAMTypeInv, TypeOK, Row
  <2>4. job[d].got.id <= row[a].id /\ (job[d].got.id = row[a].id => a \notin kept)
    BY <2>1 DEF GatewayInv, NoGateway
  <2>5. row[a].id <= row'[a].id /\ (row[a].id = row'[a].id /\ a \in kept' => a \in kept)
    BY <2>2
  <2>6. job[d].got.id <= row'[a].id /\ (job[d].got.id = row'[a].id => a \notin kept')
    BY <2>3, <2>4, <2>5
  <2> QED BY <2>1, <2>6 DEF NoGateway
<1> QED BY <1>1, <1>2 DEF GatewayInv, NoGateway

\* Where a step leaves the rows alone, and enters no "take".
LEMMA GatewayQuiet ==
  ASSUME IPAMTypeInv, IPAMTypeInv', GatewayInv, UNCHANGED <<row, kept>>,
         \A d \in Call : step'[d] = "take" => step[d] = "take" /\ job'[d] = job[d]
  PROVE  GatewayInv'
<1>1. \A a \in Host : row[a].id \in Nat BY DEF IPAMTypeInv, TypeOK, Row
<1> QED BY <1>1, GatewayFromRows DEF GatewayInv, GatewayKept

\* A goroutine that goes elsewhere.
LEMMA NoneTakes ==
  ASSUME IPAMTypeInv, NEW c \in Call, \E w, j : w # "take" /\ Goto(c, w, j)
  PROVE  \A d \in Call : step'[d] = "take" => step[d] = "take" /\ job'[d] = job[d]
BY DEF Goto, IPAMTypeInv, CallsKnown

\* Where the actions of a goroutine take it: only Pick goes on to take an address.
LEMMA WhereTo ==
  ASSUME NEW c \in Call
  PROVE  /\ RequestStep(c) => \E w, j : Goto(c, w, j)
         /\ RequestStep(c) /\ ~Pick(c) => \E w, j : w # "take" /\ Goto(c, w, j)
<1>1. Return(c) => \E w, j : w # "take" /\ Goto(c, w, j)
  BY DEF Return
<1>3. ListPools(c) => \E w, j : w # "take" /\ Goto(c, w, j) BY <1>1 DEF ListPools
<1>4. Pick(c) => \E w, j : Goto(c, w, j) BY <1>1 DEF Pick
<1>5. Take(c) => \E w, j : w # "take" /\ Goto(c, w, j) BY DEF Take
<1>6. ReadRow(c) => \E w, j : w # "take" /\ Goto(c, w, j) BY <1>1 DEF ReadRow
<1>7. WriteRow(c) => \E w, j : w # "take" /\ Goto(c, w, j) BY <1>1 DEF WriteRow
<1>8. CountRows(c) => \E w, j : w # "take" /\ Goto(c, w, j) BY <1>1 DEF CountRows
<1>9. DeleteRow(c) => \E w, j : w # "take" /\ Goto(c, w, j) BY <1>1 DEF DeleteRow
<1>10. Insert(c) => \E w, j : w # "take" /\ Goto(c, w, j) BY <1>1 DEF Insert
<1>11. Generate(c) => \E w, j : w # "take" /\ Goto(c, w, j) BY <1>1 DEF Generate
<1>12. ReadPool(c) => \E w, j : w # "take" /\ Goto(c, w, j) BY <1>1 DEF ReadPool
<1>13. ReadPorts(c) => \E w, j : w # "take" /\ Goto(c, w, j) BY <1>1 DEF ReadPorts, NextPort
<1>14. AllocateVlan(c) => \E w, j : w # "take" /\ Goto(c, w, j) BY DEF AllocateVlan
<1>15. SavePort(c) => \E w, j : w # "take" /\ Goto(c, w, j) BY <1>1 DEF SavePort, NextPort
<1> QED BY <1>3, <1>4, <1>5, <1>6, <1>7, <1>8, <1>9, <1>10, <1>11, <1>12, <1>13, <1>14, <1>15
     DEF RequestStep

\* The next id of a row is a greater number.
LEMMA NumbersGrow ==
  ASSUME IPAMTypeInv
  PROVE  \A a \in Host : row[a].id \in Nat /\ row[a].id <= row[a].id /\ row[a].id < row[a].id + 1
BY DEF IPAMTypeInv, TypeOK, Row

\* The row picked was available, and so no generated gateway's.
LEMMA PickGateway ==
  ASSUME IPAMTypeInv, IPAMTypeInv', GatewayInv, NEW c \in Call, Pick(c)
  PROVE  GatewayInv'
<1>1. UNCHANGED <<row, kept>> BY DEF Pick, data, ghost
<1>2. CASE Return(c)
  <2>1. \E w, j : w # "take" /\ Goto(c, w, j) BY <1>2 DEF Return
  <2> QED BY <1>1, <2>1, NoneTakes, GatewayQuiet
<1>3. CASE ~Return(c)
  <2> DEFINE a == NextAvailable(job[c].from)
             j == [job[c] EXCEPT !.addr = a, !.got = row[a]]
  <2>1. Available(job[c].from) # {} /\ Goto(c, "take", j)
    BY <1>3 DEF Pick
  <2>2. a \in Host /\ row[a].status = "available"
    BY <2>1, FirstOf, NetworkAssumption DEF NextAvailable, Available
  <2>3. a \notin kept
    BY <2>2 DEF GatewayInv, GatewayKept
  <2> HIDE DEF a
  <2>4. job[c] \in Job BY DEF IPAMTypeInv, CallsKnown
  <2>5. step'[c] = "take" /\ job'[c] = j /\ j.addr = a /\ j.got = row[a]
    BY <2>1, <2>4 DEF Goto, IPAMTypeInv, CallsKnown, Job
  <2>6. NoGateway(c)'
    BY <1>1, <2>2, <2>3, <2>5, NumbersGrow DEF NoGateway
  <2>7. \A d \in Call \ {c} : step'[d] = step[d] /\ job'[d] = job[d]
    BY <2>1 DEF Goto, IPAMTypeInv, CallsKnown
  <2>8. \A d \in Call \ {c} : NoGateway(d)'
    BY <1>1, <2>7 DEF GatewayInv, NoGateway
  <2> QED BY <1>1, <2>6, <2>8 DEF GatewayInv, GatewayKept
<1> QED BY <1>2, <1>3

\* The row written is the one picked, or has been inserted again and is left alone.
LEMMA TakeGateway ==
  ASSUME IPAMTypeInv, IPAMTypeInv', GatewayInv, NEW c \in Call, Take(c)
  PROVE  GatewayInv'
<1> DEFINE a == job[c].addr
<1>1. KnownAt("take", job[c]) BY DEF Take, IPAMTypeInv, CallsKnown
<1>2. a \in Host /\ job[c].req.server \in Server
  BY <1>1, RequestFields DEF KnownAt, HasRow
<1>3. kept' = kept /\ Write(c, "assigned", job[c].req.server) BY DEF Take
<1>4. /\ \A b \in Host \ {a} : row'[b] = row[b]
      /\ ~Exists(c) => row' = row
      /\ Exists(c) => row'[a].id = row[a].id
  BY <1>2, <1>3, TypeParts, WriteType DEF Statuses
<1>5. Exists(c) => a \notin kept
  BY DEF Exists, GatewayInv, NoGateway, Take
<1>6. ASSUME NEW b \in Host
      PROVE  /\ row[b].id <= row'[b].id
             /\ b \in kept' => row'[b].status \in {"reserved", "absent"}
             /\ row[b].id = row'[b].id /\ b \in kept' => b \in kept
  BY <1>3, <1>4, <1>5, NumbersGrow DEF GatewayInv, GatewayKept
<1>7. \E w, j : w # "take" /\ Goto(c, w, j) BY DEF Take
<1> QED BY <1>6, <1>7, NoneTakes, GatewayFromRows

\* An update keeps the gateways that no operator has updated.
LEMMA WriteRowGateway ==
  ASSUME IPAMTypeInv, IPAMTypeInv', GatewayInv, NEW c \in Call, WriteRow(c)
  PROVE  GatewayInv'
<1> DEFINE a == job[c].addr
           old == job[c].got
           status == IF job[c].req.status = None THEN old.status ELSE job[c].req.status
           new == [old EXCEPT !.status = IF job[c].req.status = None THEN @ ELSE job[c].req.status,
                              !.server = job[c].req.server]
<1>1. KnownAt("write", job[c]) BY DEF WriteRow, IPAMTypeInv, CallsKnown
<1>2. a \in Host /\ old \in Row BY <1>1 DEF KnownAt, HasRow
<1>3. status \in Statuses \union {"absent"} /\ job[c].req.server \in Server \union {None}
  BY <1>1, <1>2, RequestFields DEF KnownAt, Row
<1>4. Write(c, status, job[c].req.server) /\ kept' = kept \ {a}
  <2>1. new.status = status /\ new.server = job[c].req.server BY <1>2 DEF Row
  <2> QED BY <2>1 DEF WriteRow
<1> HIDE DEF status, old, new
<1>5. /\ \A b \in Host \ {a} : row'[b] = row[b]
      /\ ~Exists(c) => row' = row
      /\ Exists(c) => row'[a].id = row[a].id
  BY <1>2, <1>3, <1>4, TypeParts, WriteType
<1>6. ASSUME NEW b \in Host
      PROVE  /\ row[b].id <= row'[b].id
             /\ b \in kept' => row'[b].status \in {"reserved", "absent"}
             /\ row[b].id = row'[b].id /\ b \in kept' => b \in kept
  BY <1>4, <1>5, NumbersGrow DEF GatewayInv, GatewayKept
<1>7. \E w, j : w # "take" /\ Goto(c, w, j) BY WhereTo DEF RequestStep, WriteRow, Pick
<1> QED BY <1>6, <1>7, NoneTakes, GatewayFromRows

\* A deletion keeps the gateways reserved or absent.
LEMMA DeletionGateway ==
  ASSUME IPAMTypeInv, IPAMTypeInv', GatewayInv,
         \/ \E p \in Pool : DeletePool(p)
         \/ \E c \in Call : DeleteRow(c)
  PROVE  GatewayInv'
<1>1. kept' = kept /\ \A a \in Host : row'[a] \in {row[a], [row[a] EXCEPT !.status = "absent"]}
  <2>1. row \in [Host -> Row] BY DEF IPAMTypeInv, TypeOK
  <2>2. ASSUME NEW p \in Pool, DeletePool(p)
        PROVE  kept' = kept /\ \A a \in Host : row'[a] \in {row[a], [row[a] EXCEPT !.status = "absent"]}
    BY <2>2 DEF DeletePool, ghost
  <2>3. ASSUME NEW c \in Call, DeleteRow(c)
        PROVE  kept' = kept /\ \A a \in Host : row'[a] \in {row[a], [row[a] EXCEPT !.status = "absent"]}
    BY <2>1, <2>3 DEF DeleteRow, ghost
  <2> QED BY <2>2, <2>3
<1>2. \A a \in Host : /\ row'[a].id = row[a].id
                      /\ row'[a].status \in {row[a].status, "absent"}
  <2>1. \A a \in Host : row[a] \in Row BY DEF IPAMTypeInv, TypeOK
  <2>2. \A z \in Row : LET y == [z EXCEPT !.status = "absent"]
                      IN y.id = z.id /\ y.status = "absent"
    BY DEF Row
  <2> QED BY <1>1, <2>1, <2>2
<1>3. \A d \in Call : step'[d] = "take" => step[d] = "take" /\ job'[d] = job[d]
  <2>1. ASSUME NEW c \in Call, DeleteRow(c)
        PROVE  \A d \in Call : step'[d] = "take" => step[d] = "take" /\ job'[d] = job[d]
    <3>1. \E w, j : w # "take" /\ Goto(c, w, j)
      BY <2>1, WhereTo DEF RequestStep, DeleteRow, Pick
    <3> QED BY <3>1, NoneTakes
  <2> QED BY <2>1 DEF DeletePool
<1>4. ASSUME NEW b \in Host
      PROVE  /\ row[b].id <= row'[b].id
             /\ b \in kept' => row'[b].status \in {"reserved", "absent"}
             /\ row[b].id = row'[b].id /\ b \in kept' => b \in kept
  BY <1>1, <1>2, NumbersGrow DEF GatewayInv, GatewayKept
<1> QED BY <1>3, <1>4, GatewayFromRows

\* An insertion keeps the gateways: the row it makes has a new id.
LEMMA InsertionGateway ==
  ASSUME IPAMTypeInv, IPAMTypeInv', GatewayInv, NEW c \in Call, Insert(c) \/ Generate(c)
  PROVE  GatewayInv'
<1>1. \/ UNCHANGED <<row, kept>>
      \/ \E a \in Host, p \in Pool, status \in Statuses, server \in Server \union {None} :
           /\ CanInsert(a, p) /\ InsertRow(a, p, status, server)
           /\ \/ kept' = kept \ {a}
              \/ kept' = kept \union {a} /\ status = "reserved"
  <2>1. CASE Insert(c)
    <3> DEFINE r == job[c].req
    <3>1. r \in Request /\ r.op = "create"
      BY <2>1 DEF Insert, IPAMTypeInv, CallsKnown, KnownAt
    <3>2. r.addr \in Host /\ r.pool \in Pool /\ r.status \in Statuses /\ r.server \in Server \union {None}
      BY <3>1, RequestFields
    <3> QED BY <2>1, <3>2 DEF Insert
  <2>2. CASE Generate(c) /\ job[c].left # {}
    <3> DEFINE p == job[c].from
               a == Min(job[c].left)
               reserved == job[c].req.reserve /\ a = Gateway[p]
               status == IF reserved THEN "reserved" ELSE "available"
    <3>1. job[c] \in Job /\ KnownAt("generate", job[c])
      BY <2>2 DEF Generate, IPAMTypeInv, CallsKnown
    <3>2. a \in Host /\ p \in Pool
      BY <2>2, <3>1, FirstOf, NetworkAssumption DEF Job, KnownAt
    <3>3. \/ UNCHANGED <<row, kept>>
          \/ /\ CanInsert(a, p) /\ InsertRow(a, p, status, None)
             /\ kept' = IF reserved THEN kept \union {a} ELSE kept \ {a}
      BY <2>2 DEF Generate
    <3> HIDE DEF a, p, reserved
    <3> QED BY <3>2, <3>3 DEF Statuses
  <2>3. CASE Generate(c) /\ job[c].left = {}
    BY <2>3 DEF Generate
  <2> QED BY <2>1, <2>2, <2>3
<1>2. ASSUME NEW a \in Host, NEW p \in Pool, NEW status \in Statuses,
             NEW server \in Server \union {None},
             CanInsert(a, p), InsertRow(a, p, status, server),
             \/ kept' = kept \ {a}
             \/ kept' = kept \union {a} /\ status = "reserved",
             NEW b \in Host
      PROVE  /\ row[b].id <= row'[b].id
             /\ b \in kept' => row'[b].status \in {"reserved", "absent"}
             /\ row[b].id = row'[b].id /\ b \in kept' => b \in kept
  <2>1. row' = [row EXCEPT ![a] = [id |-> row[a].id + 1, pool |-> p, status |-> status,
                                   server |-> server]]
    BY <1>2 DEF InsertRow
  <2>2. b # a => row'[b] = row[b]
    BY <2>1 DEF IPAMTypeInv, TypeOK
  <2>3. row'[a].id = row[a].id + 1 /\ row'[a].status = status
    BY <2>1 DEF IPAMTypeInv, TypeOK
  <2> QED BY <1>2, <2>2, <2>3, NumbersGrow DEF GatewayInv, GatewayKept
<1>3. \A d \in Call : step'[d] = "take" => step[d] = "take" /\ job'[d] = job[d]
  <2>1. \E w, j : w # "take" /\ Goto(c, w, j)
    BY WhereTo DEF RequestStep, Insert, Generate, Pick
  <2> QED BY <2>1, NoneTakes
<1> QED BY <1>1, <1>2, <1>3, GatewayQuiet, GatewayFromRows

\* Every step keeps the gateways.
LEMMA GatewayStep ==
  ASSUME IPAMTypeInv, IPAMTypeInv', GatewayInv, [Next]_vars
  PROVE  GatewayInv'
<1>1. ASSUME NEW c \in Call, RequestStep(c) PROVE GatewayInv'
  <2>1. CASE ListPools(c) \/ ReadRow(c) \/ CountRows(c) \/ ReadPool(c) \/ ReadPorts(c)
             \/ AllocateVlan(c) \/ SavePort(c)
    <3>1. UNCHANGED <<row, kept>>
      BY <2>1 DEF ListPools, ReadRow, CountRows, ReadPool, ReadPorts, AllocateVlan, SavePort,
                  data, ghost
    <3>2. ~Pick(c)
      BY <2>1 DEF ListPools, ReadRow, CountRows, ReadPool, ReadPorts, AllocateVlan, SavePort, Pick
    <3> QED BY <1>1, <3>1, <3>2, WhereTo, NoneTakes, GatewayQuiet
  <2> QED BY <1>1, <2>1, PickGateway, TakeGateway, WriteRowGateway, DeletionGateway,
             InsertionGateway DEF RequestStep
<1>2. ASSUME NEW c \in Call, ClientGoes(c) \/ \E r \in Request : Begin(c, r) PROVE GatewayInv'
  <2>1. UNCHANGED <<row, kept>> BY <1>2 DEF ClientGoes, Begin, data
  <2>2. \E w, j : w # "take" /\ Goto(c, w, j)
    BY <1>2 DEF ClientGoes, Begin, Return, FirstStep
  <2> QED BY <2>1, <2>2, NoneTakes, GatewayQuiet
<1>3. ASSUME NEW p \in Pool, \E k \in Config : UpdatePool(p, k) PROVE GatewayInv'
  BY <1>3, GatewayQuiet DEF UpdatePool
<1>4. CASE UNCHANGED vars
  BY <1>4, GatewayQuiet DEF vars, data, ghost
<1> QED BY <1>1, <1>2, <1>3, <1>4, DeletionGateway DEF Next

\* A gateway that was generated as reserved is handed to no server, in any interleaving
\* of assignments, generations, creations and deletions of any number of goroutines, not
\* even by an assignment that read its address as available before its row was deleted
\* and generated again.
THEOREM GatewayNeverTaken == Spec => []GatewayKept
<1>1. Init => GatewayInv BY DEF Init, GatewayInv, GatewayKept, NoGateway
<1>2. IPAMTypeInv /\ GatewayInv /\ [Next]_vars => IPAMTypeInv' /\ GatewayInv'
  BY TypeStep, GatewayStep
<1>3. GatewayInv => GatewayKept BY DEF GatewayInv
<1> QED BY <1>1, <1>2, <1>3, TypeInit, PTL DEF Spec

-----------------------------------------------------------------------------
(* A request that nothing disturbs.                                        *)

\* It is the only one that runs, so what it read is still so.
Undisturbed(c) ==
  step[c] # "idle" /\ c \notin disturbed =>
    /\ Active = {c}
    /\ step[c] = "take" => row[job[c].addr] = job[c].got /\ job[c].got.status = "available"
    /\ step[c] = "pick" /\ job[c].req.op = "auto" => job[c].from \in Assignable

AloneInv == \A c \in Call : Undisturbed(c)

\* Who was disturbed stays so until its request is over.
LEMMA DisturbedStays ==
  ASSUME [Next]_vars, NEW c \in Call, step[c] # "idle", c \in disturbed
  PROVE  c \in disturbed'
<1>1. ASSUME NEW d \in Call, RequestStep(d) PROVE disturbed' = disturbed
  BY <1>1 DEF RequestStep, ListPools, Pick, Take, ReadRow, WriteRow, CountRows, DeleteRow, Insert,
              Generate, ReadPool, ReadPorts, AllocateVlan, SavePort, ghost
<1>2. ASSUME NEW d \in Call, NEW r \in Request, Begin(d, r) PROVE c \in disturbed'
  BY <1>2 DEF Begin
<1> QED BY <1>1, <1>2 DEF Next, ClientGoes, DeletePool, UpdatePool, vars, ghost

\* A goroutine that moves on moves no other.
LEMMA OthersStay ==
  ASSUME IPAMTypeInv, NEW c \in Call, \E w, j : Goto(c, w, j)
  PROVE  \A d \in Call \ {c} : step'[d] = step[d] /\ job'[d] = job[d]
BY DEF Goto, IPAMTypeInv, CallsKnown

\* A step of a goroutine leaves alone what is said of the others: either it is one of
\* several and they are disturbed, or there are none.
LEMMA AloneFromOwn ==
  ASSUME IPAMTypeInv, IPAMTypeInv', AloneInv, NEW c \in Call, step[c] # "idle",
         disturbed' = disturbed, \E w, j : Goto(c, w, j),
         step[c] # "idle" /\ c \notin disturbed /\ step'[c] # "idle" =>
           /\ step'[c] = "take" => row'[job'[c].addr] = job'[c].got /\ job'[c].got.status = "available"
           /\ step'[c] = "pick" /\ job'[c].req.op = "auto" => job'[c].from \in Assignable'
  PROVE  AloneInv'
<1>1. \A d \in Call \ {c} : step'[d] = step[d] /\ job'[d] = job[d] BY OthersStay
<1>2. ASSUME NEW d \in Call \ {c}, step'[d] # "idle" PROVE d \in disturbed'
  <2>1. step[d] # "idle" BY <1>1, <1>2
  <2>2. c \in Active /\ c # d BY DEF Active
  <2> QED BY <2>1, <2>2 DEF AloneInv, Undisturbed
<1>3. ASSUME c \notin disturbed', step'[c] # "idle" PROVE Active' = {c}
  <2>1. Active = {c} BY <1>3 DEF AloneInv, Undisturbed
  <2> QED BY <1>1, <1>3, <2>1 DEF Active
<1> QED BY <1>2, <1>3 DEF AloneInv, Undisturbed

\* Every step keeps what an undisturbed request read true.
LEMMA AloneStep ==
  ASSUME IPAMTypeInv, IPAMTypeInv', AloneInv, [Next]_vars
  PROVE  AloneInv'
<1>1. ASSUME NEW c \in Call, RequestStep(c) PROVE AloneInv'
  <2>1. disturbed' = disturbed /\ step[c] # "idle"
    BY <1>1 DEF RequestStep, ListPools, Pick, Take, ReadRow, WriteRow, CountRows, DeleteRow, Insert,
                Generate, ReadPool, ReadPorts, AllocateVlan, SavePort, ghost
  <2>2. \E w, j : Goto(c, w, j) BY <1>1, WhereTo
  <2>3. job[c] \in Job BY DEF IPAMTypeInv, CallsKnown
  <2>4. CASE ListPools(c)
    <3>1. Assignable' = Assignable
      BY <2>4 DEF ListPools, data, Assignable, Available
    <3>2. \/ Return(c)
          \/ \E p \in Assignable : Goto(c, "pick", [job[c] EXCEPT !.from = p])
      BY <2>4 DEF ListPools
    <3>3. ASSUME NEW p \in Assignable, Goto(c, "pick", [job[c] EXCEPT !.from = p])
          PROVE  step'[c] = "pick" /\ job'[c].from \in Assignable
      <4>1. step'[c] = "pick" /\ job'[c] = [job[c] EXCEPT !.from = p]
        BY <3>3 DEF Goto, IPAMTypeInv, CallsKnown
      <4> QED BY <2>3, <4>1 DEF Job
    <3>4. Return(c) => step'[c] = "idle" BY DEF Return, Goto, IPAMTypeInv, CallsKnown
    <3> QED BY <2>1, <2>2, <3>1, <3>2, <3>3, <3>4, AloneFromOwn
  <2>5. CASE Pick(c)
    <3> DEFINE a == NextAvailable(job[c].from)
               j == [job[c] EXCEPT !.addr = a, !.got = row[a]]
    <3>1. Return(c) \/ (Available(job[c].from) # {} /\ Goto(c, "take", j))
      BY <2>5 DEF Pick
    <3>2. ASSUME Available(job[c].from) # {}, Goto(c, "take", j)
          PROVE  /\ step'[c] = "take" /\ row'[job'[c].addr] = job'[c].got
                 /\ job'[c].got.status = "available"
      <4>1. row[a].status = "available"
        BY <3>2, FirstOf, NetworkAssumption DEF NextAvailable, Available
      <4> HIDE DEF a
      <4>2. step'[c] = "take" /\ job'[c] = j /\ j.addr = a /\ j.got = row[a]
        BY <2>3, <3>2 DEF Goto, IPAMTypeInv, CallsKnown, Job
      <4>3. row' = row BY <2>5 DEF Pick, data
      <4> QED BY <4>1, <4>2, <4>3
    <3>3. Return(c) => step'[c] = "idle" BY DEF Return, Goto, IPAMTypeInv, CallsKnown
    <3> QED BY <2>1, <2>2, <3>1, <3>2, <3>3, AloneFromOwn
  <2>6. CASE ~ListPools(c) /\ ~Pick(c)
    <3>1. step'[c] \notin {"take", "pick"}
      <4>1. \E w, j : w \notin {"take", "pick"} /\ Goto(c, w, j)
        BY <1>1, <2>6 DEF RequestStep, Take, ReadRow, WriteRow, CountRows, DeleteRow, Insert,
             Generate, ReadPool, ReadPorts, AllocateVlan, SavePort, Return, NextPort
      <4> QED BY <4>1 DEF Goto, IPAMTypeInv, CallsKnown
    <3> QED BY <2>1, <2>2, <3>1, AloneFromOwn
  <2> QED BY <2>4, <2>5, <2>6
<1>2. ASSUME NEW c \in Call, ClientGoes(c) PROVE AloneInv'
  <2>1. \E w, j : Goto(c, w, j) BY <1>2 DEF ClientGoes, Return
  <2>2. \A d \in Call \ {c} : step'[d] = step[d] BY <2>1, OthersStay
  <2>3. c \in Active /\ disturbed' = disturbed \union {c} BY <1>2 DEF ClientGoes, Active
  <2> QED BY <2>2, <2>3 DEF AloneInv, Undisturbed
<1>3. ASSUME NEW c \in Call, NEW r \in Request, Begin(c, r) PROVE AloneInv'
  <2>1. /\ \E w, j : Goto(c, w, j) /\ w = FirstStep(r)
        /\ step[c] = "idle"
        /\ disturbed' = IF Active = {} THEN disturbed \ {c} ELSE disturbed \union Active \union {c}
    BY <1>3 DEF Begin
  <2>2. \A d \in Call \ {c} : step'[d] = step[d] /\ job'[d] = job[d] BY <2>1, OthersStay
  <2>3. step'[c] = FirstStep(r) /\ job'[c].req = r
    <3> DEFINE j == [NoJob EXCEPT !.req = r,
                        !.from = IF r.op \in {"assign", "create", "generate"} THEN r.pool ELSE None,
                        !.addr = IF r.op \in {"update", "delete", "create"} THEN r.addr ELSE None,
                        !.got = IF r.op \in {"update", "delete"} THEN row[r.addr] ELSE None,
                        !.left = IF r.op = "generate" THEN Hosts[r.pool] ELSE {}]
    <3>1. Goto(c, FirstStep(r), j) BY <1>3 DEF Begin
    <3>2. j.req = r BY DEF NoJob
    <3> QED BY <3>1, <3>2 DEF Goto, IPAMTypeInv, CallsKnown
  <2>4. FirstStep(r) # "take" /\ (FirstStep(r) = "pick" => r.op # "auto")
    BY RequestFields DEF FirstStep
  <2>5. CASE Active = {}
    <3>1. \A d \in Call \ {c} : step'[d] = "idle" BY <2>2, <2>5 DEF Active
    <3>2. step'[c] # "idle" => Active' = {c} BY <3>1 DEF Active
    <3> QED BY <2>3, <2>4, <3>1, <3>2 DEF AloneInv, Undisturbed
  <2>6. CASE Active # {}
    <3>1. Active' \subseteq disturbed' BY <2>1, <2>2, <2>6 DEF Active
    <3> QED BY <3>1 DEF AloneInv, Undisturbed, Active
  <2> QED BY <2>5, <2>6
<1>4. ASSUME NEW p \in Pool, DeletePool(p) \/ \E k \in Config : UpdatePool(p, k) PROVE AloneInv'
  <2>1. step' = step /\ disturbed' = disturbed \union Active
    BY <1>4 DEF DeletePool, UpdatePool
  <2> QED BY <2>1 DEF AloneInv, Undisturbed, Active
<1>5. CASE UNCHANGED vars
  BY <1>5 DEF vars, data, ghost, AloneInv, Undisturbed, Active, Assignable, Available
<1> QED BY <1>1, <1>2, <1>3, <1>4, <1>5 DEF Next

TakesAvailable(c) ==
  step[c] = "take" /\ step'[c] # "take" =>
    row[job[c].addr] = job[c].got /\ row[job[c].addr].status = "available"

Refused(c) ==
  step[c] \in {"list", "pick"} /\ step'[c] = "idle" /\ job[c].req.op = "auto" =>
    Assignable \intersect job[c].req.pools = {}

Assigns == \A c \in Call : c \notin disturbed' =>
             /\ TakesAvailable(c)
             /\ Refused(c)

\* What was read being true, what is taken is available, and what is refused was exhausted.
LEMMA AloneActions ==
  ASSUME IPAMTypeInv, AloneInv, [Next]_vars
  PROVE  Assigns
<1>1. \A c \in Call : c \notin disturbed' => TakesAvailable(c)
  BY DisturbedStays DEF AloneInv, Undisturbed, TakesAvailable
<1>2. ASSUME NEW c \in Call, step[c] \in {"list", "pick"}, step'[c] = "idle",
             job[c].req.op = "auto", c \notin disturbed'
      PROVE  Assignable \intersect job[c].req.pools = {}
  <2>1. c \notin disturbed BY <1>2, DisturbedStays
  <2>2. RequestStep(c)
    <3>1. ~(UNCHANGED step) BY <1>2
    <3>2. \A d \in Call : (\E w, j : Goto(d, w, j)) => d = c
      BY <1>2, OthersStay
    <3>3. PICK d \in Call : RequestStep(d) \/ ClientGoes(d) \/ \E r \in Request : Begin(d, r)
      BY <3>1 DEF Next, vars, DeletePool, UpdatePool
    <3>4. d = c BY <3>2, <3>3, WhereTo DEF ClientGoes, Return, Begin
    <3> QED BY <1>2, <3>3, <3>4 DEF ClientGoes, Begin
  <2>3. CASE step[c] = "list"
    <3>1. ListPools(c)
      BY <2>2, <2>3 DEF RequestStep, ListPools, Pick, Take, ReadRow, WriteRow, CountRows, DeleteRow,
           Insert, Generate, ReadPool, ReadPorts, AllocateVlan, SavePort
    <3>2. \A j : ~Goto(c, "pick", j) BY <1>2 DEF Goto, IPAMTypeInv, CallsKnown
    <3> QED BY <3>1, <3>2 DEF ListPools
  <2>4. CASE step[c] = "pick"
    <3>1. Pick(c)
      BY <2>2, <2>4 DEF RequestStep, ListPools, Pick, Take, ReadRow, WriteRow, CountRows, DeleteRow,
           Insert, Generate, ReadPool, ReadPorts, AllocateVlan, SavePort
    <3>2. \A j : ~Goto(c, "take", j) BY <1>2 DEF Goto, IPAMTypeInv, CallsKnown
    <3>3. job[c].from \in Assignable BY <1>2, <2>1, <2>4 DEF AloneInv, Undisturbed
    <3> QED BY <3>1, <3>2, <3>3 DEF Pick, Assignable
  <2> QED BY <1>2, <2>3, <2>4
<1> QED BY <1>1, <1>2 DEF Assigns, Refused

\* An assignment that nothing disturbs writes the row it read, and that row is
\* available: it takes an address from no holder; and an auto-assignment is refused only
\* when no pool of its VRF has an available address.
THEOREM AssignmentsAlone == Spec => AssignsAlone
<1>1. Init => AloneInv BY DEF Init, AloneInv, Undisturbed
<1>2. IPAMTypeInv /\ AloneInv /\ [Next]_vars => IPAMTypeInv' /\ AloneInv' /\ [Assigns]_vars
  BY TypeStep, AloneStep, AloneActions
<1>3. Spec => [][Assigns]_vars
  BY <1>1, <1>2, TypeInit, PTL DEF Spec
<1> QED BY <1>3 DEF AssignsAlone, Assigns, TakesAvailable, Refused

-----------------------------------------------------------------------------
(* The ports follow the addresses.                                         *)

HoldsIn(s, p) == s # None /\ \E a \in HeldBy(s) : row[a].pool = p

\* What the property says of a port.
Follows(q, p) == IF HoldsIn(LinkedTo[q], p) THEN OnPool(port[q], pool[p]) ELSE port[q] = DefaultPort

Automatic == {p \in Pool : pool[p] # None /\ pool[p].automation}

\* The server whose ports goroutine c is about to configure, or may be.
Configured(c) == IF step[c] = "count" THEN job[c].got.server ELSE Target(c)

\* Goroutine c is on its way to port q, because of an address of pool p.
Pending(c, q, p) ==
  /\ job[c].from = p /\ LinkedTo[q] = Configured(c)
  /\ \/ step[c] \in {"pool", "ports"}
     \/ step[c] = "count" /\ job[c].req.op = "update"
     \/ step[c] \in {"vlan", "port"} /\ q \in DOMAIN job[c].todo

\* What a goroutine that runs alone knows of the tables, by where it is.
StageRow(c) ==
  LET j == job[c]
  IN /\ step[c] = "take" => row[j.addr].pool = j.from
     /\ step[c] = "write" => row[j.addr] = j.got /\ j.got.status # "absent"
     /\ step[c] = "count" /\ j.req.op = "delete" => row[j.addr] = j.got
     /\ step[c] = "count" => Assigned(j.got) /\ j.from = j.got.pool
     /\ step[c] = "delete" /\ j.revert =>
          /\ Assigned(j.got) /\ row[j.addr] = j.got /\ j.from = j.got.pool
          /\ \A a \in HeldBy(j.got.server) : row[a].pool = j.from => a = j.addr
     /\ step[c] = "delete" /\ ~j.revert /\ Exists(c) /\ Assigned(row[j.addr]) =>
          \E a \in HeldBy(row[j.addr].server) \ {j.addr} : row[a].pool = row[j.addr].pool

\* A port that is to go back to the default is still on its pool while the addresses
\* left to its server are counted.
StageCount(c) ==
  step[c] = "count" /\ job[c].req.op = "update" /\ Automatic = {job[c].from} =>
    \A q \in Port : LinkedTo[q] = job[c].got.server => OnPool(port[q], pool[job[c].from])

StagePorts(c) ==
  LET j == job[c]
  IN /\ step[c] \in {"pool", "ports", "vlan", "port"} =>
          IF j.revert THEN j.got.server # None /\ ~HoldsIn(j.got.server, j.from)
                      ELSE HoldsIn(j.req.server, j.from) /\ (j.req.op # "update" => ~j.req.preview)
     /\ step[c] \in {"ports", "vlan", "port"} => j.cfg = pool[j.from] /\ j.cfg.automation
     /\ step[c] \in {"vlan", "port"} => \A q \in DOMAIN j.todo : LinkedTo[q] = Target(c)
     /\ step[c] = "port" /\ ~j.revert /\ j.cfg.range # {} /\ j.cfg.mode # "trunk" =>
          j.vid \in j.cfg.range

\* The pools are as they were, requests run one at a time, and each port is as the
\* addresses of its server ask, or on a goroutine's way.
FollowInv ==
  followed =>
    /\ \A p \in Pool : pool[p] # None
    /\ \A c \in Active : Active = {c} /\ c \notin disturbed
    /\ \A c \in Active : StageRow(c) /\ StageCount(c) /\ StagePorts(c)
    /\ \A p \in Pool : Automatic = {p} =>
         \A q \in Port : Follows(q, p) \/ \E c \in Active : Pending(c, q, p)

\* The conclusion of the property, from the invariant.
LEMMA FollowInvImplies == FollowInv => PortsFollowAddresses
<1> SUFFICES ASSUME FollowInv, followed, Active = {}, NEW p \in Pool, Automatic = {p}, NEW q \in Port
             PROVE  IF LinkedTo[q] # None /\ \E a \in HeldBy(LinkedTo[q]) : row[a].pool = p
                    THEN OnPool(port[q], pool[p])
                    ELSE port[q] = DefaultPort
    BY DEF PortsFollowAddresses, Automatic
<1>1. Follows(q, p) BY DEF FollowInv
<1> QED BY <1>1 DEF Follows, HoldsIn

\* A step of a request that runs alone: the invariant follows from what the step leaves
\* to be said of its own goroutine and of the ports.
LEMMA FollowFromOwn ==
  ASSUME IPAMTypeInv, IPAMTypeInv', FollowInv, NEW c \in Call, step[c] # "idle",
         UNCHANGED <<pool, disturbed>>, followed' => followed, \E w, j : Goto(c, w, j),
         followed' =>
           /\ step'[c] # "idle" => StageRow(c)' /\ StageCount(c)' /\ StagePorts(c)'
           /\ \A p \in Pool : Automatic = {p} =>
                \A q \in Port : Follows(q, p)' \/ (step'[c] # "idle" /\ Pending(c, q, p)')
  PROVE  FollowInv'
<1> SUFFICES ASSUME followed' PROVE FollowInv'
    BY DEF FollowInv
<1>1. Active = {c} /\ c \notin disturbed BY DEF FollowInv, Active
<1>2. \A d \in Call \ {c} : step'[d] = step[d] BY OthersStay
<1>3. Active' = IF step'[c] = "idle" THEN {} ELSE {c} BY <1>1, <1>2 DEF Active
<1>4. Automatic' = Automatic BY DEF Automatic
<1>5. \A p \in Pool : pool'[p] # None BY DEF FollowInv
<1>6. \A d \in Active' : d = c /\ step'[c] # "idle" BY <1>3
<1>7. \A d \in Active' : StageRow(d)' /\ StageCount(d)' /\ StagePorts(d)' BY <1>6
<1>8. \A p \in Pool : Automatic' = {p} =>
        \A q \in Port : Follows(q, p)' \/ \E d \in Active' : Pending(d, q, p)'
  <2>1. step'[c] # "idle" => c \in Active' BY <1>3
  <2> QED BY <1>4, <2>1
<1> QED BY <1>1, <1>3, <1>5, <1>6, <1>7, <1>8 DEF FollowInv

\* Before the step: the ports, when the goroutine was not on its way to any.
LEMMA FollowBefore ==
  ASSUME FollowInv, followed, NEW c \in Call, step[c] # "idle"
  PROVE  /\ Active = {c} /\ c \notin disturbed
         /\ StageRow(c) /\ StageCount(c) /\ StagePorts(c)
         /\ \A p \in Pool : Automatic = {p} =>
              \A q \in Port : Follows(q, p) \/ Pending(c, q, p)
BY DEF FollowInv, Active

\* Where rows and ports are left alone, ports follow as they did.
LEMMA SameRows ==
  ASSUME UNCHANGED data
  PROVE  /\ \A s, p : HoldsIn(s, p)' <=> HoldsIn(s, p)
         /\ \A q \in Port, p \in Pool : Follows(q, p)' <=> Follows(q, p)
<1>1. pool' = pool /\ row' = row /\ port' = port BY DEF data
<1>2. \A s, p : HoldsIn(s, p)' <=> HoldsIn(s, p) BY <1>1 DEF HoldsIn, HeldBy, Holds
<1> QED BY <1>1, <1>2 DEF Follows

\* What a server holds, when one row is written.
LEMMA OneRow ==
  ASSUME NEW b \in Host, \A a \in Host \ {b} : row'[a] = row[a]
  PROVE  \A s, p :
           /\ HoldsIn(s, p) <=>
                /\ s # None
                /\ \/ \E a \in Host \ {b} : Holds(row[a], s) /\ row[a].pool = p
                   \/ Holds(row[b], s) /\ row[b].pool = p
           /\ HoldsIn(s, p)' <=>
                /\ s # None
                /\ \/ \E a \in Host \ {b} : Holds(row[a], s) /\ row[a].pool = p
                   \/ Holds(row'[b], s) /\ row'[b].pool = p
BY DEF HoldsIn, HeldBy, Holds

\* A port is judged by what its server holds and by what it carries.
LEMMA SameHolds ==
  ASSUME NEW q \in Port, NEW p \in Pool, pool' = pool, port'[q] = port[q],
         HoldsIn(LinkedTo[q], p)' <=> HoldsIn(LinkedTo[q], p)
  PROVE  Follows(q, p)' <=> Follows(q, p)
BY DEF Follows

\* Where goroutine c goes.
LEMMA Arrived ==
  ASSUME IPAMTypeInv, NEW c \in Call, NEW w, NEW j, Goto(c, w, j)
  PROVE  step'[c] = w /\ job'[c] = j
BY DEF Goto, IPAMTypeInv, CallsKnown

\* A request that returns is idle.
LEMMA Returned ==
  ASSUME IPAMTypeInv, NEW c \in Call, Return(c)
  PROVE  step'[c] = "idle"
BY DEF Return, Goto, IPAMTypeInv, CallsKnown

\* The listing of pools keeps FollowInv.
LEMMA ListPoolsFollow ==
  ASSUME IPAMTypeInv, IPAMTypeInv', FollowInv, NEW c \in Call, ListPools(c)
  PROVE  FollowInv'
<1>1. step[c] = "list" /\ UNCHANGED <<pool, disturbed, followed>> /\ UNCHANGED data
  BY DEF ListPools, data, ghost
<1>2. \E w, j : w \in {"idle", "pick"} /\ Goto(c, w, j)
  <2>1. \/ Return(c)
        \/ \E p \in Assignable : Goto(c, "pick", [job[c] EXCEPT !.from = p])
    BY DEF ListPools
  <2>2. CASE Return(c)
    <3> WITNESS "idle", NoJob
    <3> QED BY <2>2 DEF Return
  <2>3. ASSUME NEW p, Goto(c, "pick", [job[c] EXCEPT !.from = p])
        PROVE  \E w, j : w \in {"idle", "pick"} /\ Goto(c, w, j)
    <3> WITNESS "pick", [job[c] EXCEPT !.from = p]
    <3> QED BY <2>3
  <2> QED BY <2>1, <2>2, <2>3
<1>3. step'[c] \in {"idle", "pick"} BY <1>2, Arrived
<1>4. step'[c] # "idle" => StageRow(c)' /\ StageCount(c)' /\ StagePorts(c)'
  BY <1>3 DEF StageRow, StageCount, StagePorts
<1>5. ASSUME followed, NEW p \in Pool, Automatic = {p}, NEW q \in Port PROVE Follows(q, p)'
  BY <1>1, <1>5, FollowBefore, SameRows DEF Pending
<1> QED BY <1>1, <1>2, <1>4, <1>5, FollowFromOwn

\* The choice of an address keeps FollowInv.
LEMMA PickFollow ==
  ASSUME IPAMTypeInv, IPAMTypeInv', FollowInv, NEW c \in Call, Pick(c)
  PROVE  FollowInv'
<1> DEFINE a == NextAvailable(job[c].from)
           j == [job[c] EXCEPT !.addr = a, !.got = row[a]]
<1>1. step[c] = "pick" /\ UNCHANGED <<pool, disturbed, followed>> /\ UNCHANGED data
  BY DEF Pick, data, ghost
<1>2. Return(c) \/ (Available(job[c].from) # {} /\ Goto(c, "take", j)) BY DEF Pick
<1>3. step'[c] # "idle" => StageRow(c)' /\ StageCount(c)' /\ StagePorts(c)'
  <2>1. CASE Return(c) BY <2>1, Returned
  <2>2. CASE Available(job[c].from) # {} /\ Goto(c, "take", j)
    <3>1. row[a].pool = job[c].from
      BY <2>2, FirstOf, NetworkAssumption DEF NextAvailable, Available
    <3>2. job[c] \in Job BY DEF IPAMTypeInv, CallsKnown
    <3> HIDE DEF a
    <3>3. step'[c] = "take" /\ job'[c].addr = a /\ job'[c].from = job[c].from
      <4>1. j.addr = a /\ j.from = job[c].from BY <3>2 DEF Job
      <4> HIDE DEF j
      <4>2. step'[c] = "take" /\ job'[c] = j BY <2>2, Arrived
      <4> QED BY <4>1, <4>2
    <3>4. row' = row BY <1>1 DEF data
    <3> QED BY <3>1, <3>3, <3>4 DEF StageRow, StageCount, StagePorts
  <2> QED BY <1>2, <2>1, <2>2
<1>4. \E w, k : Goto(c, w, k) BY <1>2 DEF Return
<1>5. ASSUME followed, NEW p \in Pool, Automatic = {p}, NEW q \in Port PROVE Follows(q, p)'
  BY <1>1, <1>5, FollowBefore, SameRows DEF Pending
<1> QED BY <1>1, <1>3, <1>4, <1>5, FollowFromOwn

\* An address is taken: the ports of the server that took it are on the way.
LEMMA TakeFollow ==
  ASSUME IPAMTypeInv, IPAMTypeInv', AloneInv, FollowInv, NEW c \in Call, Take(c)
  PROVE  FollowInv'
<1> DEFINE a == job[c].addr
           s == job[c].req.server
<1>1. /\ step[c] = "take" /\ UNCHANGED <<pool, port, disturbed>> /\ Goto(c, "pool", job[c])
      /\ followed' => followed /\ ~job[c].req.preview
  BY DEF Take
<1>2. step'[c] = "pool" /\ job'[c] = job[c] BY <1>1, Arrived
<1>3. KnownAt("take", job[c]) BY <1>1 DEF IPAMTypeInv, CallsKnown
<1>4. a \in Host /\ s \in Server /\ s # None /\ job[c].from \in Pool /\ ~job[c].revert
      /\ job[c].req.op # "update"
  BY <1>3, RequestFields, NoneAssumption DEF KnownAt, HasRow
<1>5. SUFFICES ASSUME followed, followed' PROVE FollowInv'
  BY <1>1 DEF FollowInv
<1>6. row[a].status = "available" /\ row[a].pool = job[c].from /\ Exists(c)
  <2>1. c \notin disturbed BY <1>1, <1>5, FollowBefore
  <2>2. row[a] = job[c].got /\ job[c].got.status = "available"
    BY <1>1, <2>1 DEF AloneInv, Undisturbed
  <2>3. row[a].pool = job[c].from BY <1>1, <1>5, FollowBefore DEF StageRow
  <2> QED BY <2>2, <2>3 DEF Exists
<1>7. /\ \A b \in Host \ {a} : row'[b] = row[b]
      /\ row'[a].pool = job[c].from /\ row'[a].status = "assigned" /\ row'[a].server = s
  <2>1. Write(c, "assigned", s) BY DEF Take
  <2> QED BY <1>4, <1>6, <2>1, TypeParts, WriteType DEF Statuses
<1>8. \A z, p : HoldsIn(z, p)' <=> HoldsIn(z, p) \/ (z = s /\ p = job[c].from)
  BY <1>4, <1>6, <1>7, OneRow DEF Holds
<1>9. StageRow(c)' /\ StageCount(c)' /\ StagePorts(c)'
  BY <1>1, <1>2, <1>4, <1>5, <1>8 DEF StageRow, StageCount, StagePorts
<1>10. ASSUME NEW p \in Pool, Automatic = {p}, NEW q \in Port
       PROVE  Follows(q, p)' \/ Pending(c, q, p)'
  <2>1. Follows(q, p) BY <1>1, <1>5, <1>10, FollowBefore DEF Pending
  <2>2. CASE LinkedTo[q] = s /\ p = job[c].from
    BY <1>2, <1>4, <2>2 DEF Pending, Configured, Target
  <2>3. CASE ~(LinkedTo[q] = s /\ p = job[c].from)
    BY <1>1, <1>8, <2>1, <2>3, SameHolds
  <2> QED BY <2>2, <2>3
<1> QED BY <1>1, <1>2, <1>9, <1>10, FollowFromOwn

\* The reading of a row keeps FollowInv.
LEMMA ReadRowFollow ==
  ASSUME IPAMTypeInv, IPAMTypeInv', FollowInv, NEW c \in Call, ReadRow(c)
  PROVE  FollowInv'
<1> DEFINE a == job[c].addr
           got == row[a]
           j   == [job[c] EXCEPT !.got = got]
           k   == [job[c] EXCEPT !.got = got, !.from = got.pool]
<1>1. step[c] = "read" /\ UNCHANGED <<pool, disturbed, followed>> /\ UNCHANGED data /\ row' = row
  BY DEF ReadRow, data, ghost
<1>2. \/ Return(c)
      \/ got.status # "absent" /\ Goto(c, "write", j)
      \/ job[c].req.op # "update" /\ Assigned(got) /\ Goto(c, "count", k)
      \/ ~(Exists(c) /\ Assigned(got)) /\ Goto(c, "delete", job[c])
  BY DEF ReadRow, Exists
<1>3. job[c] \in Job /\ KnownAt("read", job[c]) BY <1>1 DEF IPAMTypeInv, CallsKnown
<1>4. ~job[c].revert BY <1>3 DEF KnownAt
<1>5. \E w, i : Goto(c, w, i) BY WhereTo DEF RequestStep
<1> HIDE DEF got
<1>6. /\ j.addr = a /\ j.got = got
      /\ k.addr = a /\ k.got = got /\ k.from = got.pool /\ k.req = job[c].req
  BY <1>3 DEF Job
<1>7. step'[c] # "idle" => StageRow(c)' /\ StageCount(c)' /\ StagePorts(c)'
  <2>1. CASE Return(c) BY <2>1, Returned
  <2>2. CASE got.status # "absent" /\ Goto(c, "write", j)
    <3>1. step'[c] = "write" /\ job'[c] = j BY <2>2, Arrived
    <3> HIDE DEF j
    <3> QED BY <1>1, <1>6, <2>2, <3>1 DEF StageRow, StageCount, StagePorts, got
  <2>3. CASE job[c].req.op # "update" /\ Assigned(got) /\ Goto(c, "count", k)
    <3>1. step'[c] = "count" /\ job'[c] = k BY <2>3, Arrived
    <3> HIDE DEF k
    <3> QED BY <1>1, <1>6, <2>3, <3>1 DEF StageRow, StageCount, StagePorts, got
  <2>4. CASE ~(Exists(c) /\ Assigned(got)) /\ Goto(c, "delete", job[c])
    <3>1. step'[c] = "delete" /\ job'[c] = job[c] BY <2>4, Arrived
    <3>2. Exists(c)' <=> Exists(c) BY <1>1, <3>1 DEF Exists
    <3> QED BY <1>1, <1>4, <2>4, <3>1, <3>2 DEF StageRow, StageCount, StagePorts, got
  <2> QED BY <1>2, <2>1, <2>2, <2>3, <2>4
<1>8. ASSUME followed, NEW p \in Pool, Automatic = {p}, NEW q \in Port PROVE Follows(q, p)'
  BY <1>1, <1>8, FollowBefore, SameRows DEF Pending
<1> QED BY <1>1, <1>5, <1>7, <1>8, FollowFromOwn

\* An update is written: the ports of the server that has the address now are on the
\* way, or those of the server that had it once the others it has are counted.
LEMMA WriteRowFollow ==
  ASSUME IPAMTypeInv, IPAMTypeInv', FollowInv, NEW c \in Call, WriteRow(c)
  PROVE  FollowInv'
<1> DEFINE a == job[c].addr
           old == job[c].got
           s == job[c].req.server
           status == IF job[c].req.status = None THEN old.status ELSE job[c].req.status
           new == [old EXCEPT !.status = IF job[c].req.status = None THEN @ ELSE job[c].req.status,
                              !.server = job[c].req.server]
           k == [job[c] EXCEPT !.from = old.pool]
<1>1. job[c] \in Job /\ KnownAt("write", job[c]) /\ step[c] = "write"
  BY DEF WriteRow, IPAMTypeInv, CallsKnown
<1>2. a \in Host /\ old \in Row /\ job[c].req.op = "update" /\ ~job[c].revert
  BY <1>1 DEF KnownAt, HasRow
<1>3. status \in Statuses \union {"absent"} /\ s \in Server \union {None}
  BY <1>1, <1>2, RequestFields DEF KnownAt, Row
<1>4. /\ UNCHANGED <<pool, port, disturbed>> /\ Write(c, status, s)
      /\ followed' => followed /\ (Assigned(old) /\ status = "assigned" => s = old.server)
      /\ \/ Assigned(old) /\ status # "assigned" /\ Goto(c, "count", k)
         \/ ~Assigned(old) /\ status = "assigned" /\ s # None /\ Goto(c, "pool", k)
         \/ /\ Assigned(old) => status = "assigned"
            /\ status = "assigned" /\ s # None => Assigned(old)
            /\ Return(c)
  <2>1. new.status = status /\ new.server = s BY <1>2 DEF Row
  <2> HIDE DEF new, status
  <2> QED BY <2>1 DEF WriteRow, Assigned, new, status
<1>5. SUFFICES ASSUME followed, followed' PROVE FollowInv'
  BY <1>4 DEF FollowInv
<1>6. row[a] = old /\ Exists(c)
  BY <1>1, <1>5, FollowBefore DEF StageRow, Exists
<1>7. k.from = old.pool /\ k.got = old /\ k.req = job[c].req /\ ~k.revert
  BY <1>1, <1>2 DEF Job
<1> HIDE DEF status, new, k
<1>8. /\ \A b \in Host \ {a} : row'[b] = row[b]
      /\ row'[a].pool = old.pool /\ row'[a].status = status /\ row'[a].server = s
  BY <1>2, <1>3, <1>4, <1>6, TypeParts, WriteType
<1> DEFINE Others(z, p) == \E b \in Host \ {a} : Holds(row[b], z) /\ row[b].pool = p
<1>9. \A z, p :
        /\ HoldsIn(z, p) <=> z # None /\ (Others(z, p) \/ (Holds(old, z) /\ p = old.pool))
        /\ HoldsIn(z, p)' <=>
             z # None /\ (Others(z, p) \/ (status = "assigned" /\ s = z /\ p = old.pool))
  BY <1>2, <1>6, <1>8, OneRow DEF Holds
<1> HIDE DEF Others
<1>10. ASSUME NEW p \in Pool, Automatic = {p}, NEW q \in Port PROVE Follows(q, p)
  BY <1>1, <1>5, <1>10, FollowBefore DEF Pending
<1>11. CASE Assigned(old) /\ status # "assigned" /\ Goto(c, "count", k)
  <2>1. step'[c] = "count" /\ job'[c] = k BY <1>11, Arrived
  <2>2. StageRow(c)' /\ StagePorts(c)'
    BY <1>2, <1>7, <1>11, <2>1 DEF StageRow, StagePorts
  <2>3. HoldsIn(old.server, old.pool) BY <1>9, <1>11 DEF Holds, Assigned
  <2>4. StageCount(c)'
    <3>1. SUFFICES ASSUME Automatic' = {old.pool}, NEW q \in Port, LinkedTo[q] = old.server
                   PROVE  OnPool(port'[q], pool'[old.pool])
      BY <1>7, <2>1 DEF StageCount
    <3>2. Automatic = {old.pool} /\ old.pool \in Pool BY <1>2, <1>4, <3>1 DEF Automatic, Row
    <3>3. Follows(q, old.pool) BY <1>10, <3>2
    <3> QED BY <1>4, <2>3, <3>1, <3>3 DEF Follows
  <2>5. ASSUME NEW p \in Pool, Automatic = {p}, NEW q \in Port
        PROVE  Follows(q, p)' \/ Pending(c, q, p)'
    <3>1. CASE p = old.pool /\ LinkedTo[q] = old.server
      BY <1>2, <1>7, <2>1, <3>1 DEF Pending, Configured
    <3>2. CASE ~(p = old.pool /\ LinkedTo[q] = old.server)
      <4>1. HoldsIn(LinkedTo[q], p)' <=> HoldsIn(LinkedTo[q], p)
        BY <1>9, <1>11, <3>2 DEF Holds
      <4>2. Follows(q, p) BY <1>10, <2>5
      <4> QED BY <1>4, <4>1, <4>2, SameHolds
    <3> QED BY <3>1, <3>2
  <2> QED BY <1>1, <1>4, <1>5, <1>11, <2>1, <2>2, <2>4, <2>5, FollowFromOwn
<1>12. CASE ~Assigned(old) /\ status = "assigned" /\ s # None /\ Goto(c, "pool", k)
  <2>1. step'[c] = "pool" /\ job'[c] = k BY <1>12, Arrived
  <2>2. \A z, p : HoldsIn(z, p)' <=> HoldsIn(z, p) \/ (z = s /\ p = old.pool)
    BY <1>9, <1>12 DEF Holds, Assigned
  <2>3. StageRow(c)' /\ StageCount(c)' /\ StagePorts(c)'
    BY <1>2, <1>7, <2>1, <2>2 DEF StageRow, StageCount, StagePorts
  <2>4. ASSUME NEW p \in Pool, Automatic = {p}, NEW q \in Port
        PROVE  Follows(q, p)' \/ Pending(c, q, p)'
    <3>1. CASE p = old.pool /\ LinkedTo[q] = s
      BY <1>2, <1>7, <2>1, <3>1 DEF Pending, Configured, Target
    <3>2. CASE ~(p = old.pool /\ LinkedTo[q] = s)
      <4>1. Follows(q, p) BY <1>10, <2>4
      <4> QED BY <1>4, <2>2, <3>2, <4>1, SameHolds
    <3> QED BY <3>1, <3>2
  <2> QED BY <1>1, <1>4, <1>5, <1>12, <2>1, <2>3, <2>4, FollowFromOwn
<1>13. CASE /\ Assigned(old) => status = "assigned"
            /\ status = "assigned" /\ s # None => Assigned(old)
            /\ Return(c)
  <2>1. step'[c] = "idle" BY <1>13, Returned
  <2>2. \A z, p : HoldsIn(z, p)' <=> HoldsIn(z, p)
    BY <1>4, <1>5, <1>9, <1>13 DEF Holds, Assigned
  <2>3. ASSUME NEW p \in Pool, Automatic = {p}, NEW q \in Port PROVE Follows(q, p)'
    <3>1. Follows(q, p) BY <1>10, <2>3
    <3> QED BY <1>4, <2>2, <3>1, SameHolds
  <2>4. \E w, j : Goto(c, w, j) BY <1>13 DEF Return
  <2> QED BY <1>1, <1>4, <1>5, <2>1, <2>3, <2>4, FollowFromOwn
<1> QED BY <1>4, <1>11, <1>12, <1>13

\* What a count of addresses says: there are none, or only the one that was read.
LEMMA CountOfRows ==
  ASSUME NEW S \in SUBSET Host
  PROVE  /\ Cardinality(S) = 0 <=> S = {}
         /\ \A a \in S : Cardinality(S) <= 1 <=> S = {a}
<1>1. IsFiniteSet(S) BY NetworkAssumption, FS_Subset
<1>2. ASSUME NEW a \in S PROVE Cardinality(S) <= 1 <=> S = {a}
  <2>1. IsFiniteSet(S \ {a}) /\ Cardinality(S \ {a}) = Cardinality(S) - 1
    BY <1>1, FS_RemoveElement
  <2>2. Cardinality(S) \in Nat /\ Cardinality(S \ {a}) \in Nat
    BY <1>1, <2>1, FS_CardinalityType
  <2>3. Cardinality(S \ {a}) = 0 <=> S \ {a} = {} BY <2>1, FS_EmptySet
  <2>4. S \ {a} = {} <=> S = {a} OBVIOUS
  <2> QED BY <2>1, <2>2, <2>3, <2>4
<1> QED BY <1>1, <1>2, FS_EmptySet

\* The addresses of the server are counted: its ports stay on the pool while it has one.
LEMMA CountRowsFollow ==
  ASSUME IPAMTypeInv, IPAMTypeInv', FollowInv, NEW c \in Call, CountRows(c)
  PROVE  FollowInv'
<1> DEFINE a == job[c].addr
           got == job[c].got
           S == {b \in HeldBy(got.server) : row[b].pool = job[c].from}
           few == Count(c) <= 1
           j == [job[c] EXCEPT !.revert = few]
           k == [job[c] EXCEPT !.revert = TRUE]
<1>1. job[c] \in Job /\ KnownAt("count", job[c]) /\ step[c] = "count"
  BY DEF CountRows, IPAMTypeInv, CallsKnown
<1>2. a \in Host /\ got \in Row /\ job[c].req.op \in {"update", "delete"} /\ ~job[c].revert
  BY <1>1 DEF KnownAt, HasRow
<1>3. UNCHANGED <<pool, disturbed, followed>> /\ UNCHANGED data /\ row' = row
  BY DEF CountRows, data, ghost
<1>4. \/ job[c].req.op = "delete" /\ Goto(c, "delete", j)
      \/ job[c].req.op = "update" /\ Count(c) = 0 /\ Goto(c, "pool", k)
      \/ job[c].req.op = "update" /\ Count(c) # 0 /\ Return(c)
  BY <1>2 DEF CountRows
<1>5. SUFFICES ASSUME followed PROVE FollowInv'
  BY <1>3 DEF FollowInv
<1>6. /\ Assigned(got) /\ job[c].from = got.pool
      /\ job[c].req.op = "delete" => row[a] = got
  BY <1>1, <1>5, <1>2, FollowBefore DEF StageRow
<1>7. /\ Count(c) = 0 <=> S = {}
      /\ \A b \in S : few <=> S = {b}
  <2>1. S \in SUBSET Host /\ Count(c) = Cardinality(S) BY DEF HeldBy, Count
  <2> QED BY <2>1, CountOfRows
<1>8. few \in BOOLEAN OBVIOUS
<1> HIDE DEF few
<1>9. /\ j.req = job[c].req /\ j.addr = a /\ j.got = got /\ j.from = job[c].from /\ j.revert = few
      /\ k.req = job[c].req /\ k.addr = a /\ k.got = got /\ k.from = job[c].from /\ k.revert
  BY <1>1, <1>8 DEF Job
<1> HIDE DEF j, k
<1>10. CASE job[c].req.op = "delete" /\ Goto(c, "delete", j)
  <2>1. step'[c] = "delete" /\ job'[c] = j BY <1>10, Arrived
  <2>2. a \in S
    <3>1. row[a] = got /\ got.status = "assigned" /\ got.pool = job[c].from
      BY <1>6, <1>10 DEF Assigned
    <3>2. a \in HeldBy(got.server) BY <1>2, <3>1 DEF HeldBy, Holds
    <3> QED BY <3>1, <3>2
  <2>3. \A z : HeldBy(z)' = HeldBy(z) BY <1>3 DEF HeldBy
  <2>4. StageRow(c)'
    <3>1. few => \A b \in HeldBy(got.server) : row[b].pool = job[c].from => b = a
      BY <1>7, <2>2
    <3>2. ~few => \E b \in HeldBy(got.server) \ {a} : row[b].pool = job[c].from
      BY <1>7, <2>2
    <3>3. row[a] = got BY <1>6, <1>10
    <3> QED BY <1>3, <1>6, <1>9, <2>1, <2>3, <3>1, <3>2, <3>3 DEF StageRow
  <2>5. StageCount(c)' /\ StagePorts(c)' BY <2>1 DEF StageCount, StagePorts
  <2>6. ASSUME NEW p \in Pool, Automatic = {p}, NEW q \in Port PROVE Follows(q, p)'
    BY <1>1, <1>3, <1>5, <1>10, <2>6, FollowBefore, SameRows DEF Pending
  <2> QED BY <1>1, <1>3, <1>10, <2>4, <2>5, <2>6, FollowFromOwn
<1>11. CASE job[c].req.op = "update" /\ Count(c) = 0 /\ Goto(c, "pool", k)
  <2>1. step'[c] = "pool" /\ job'[c] = k BY <1>11, Arrived
  <2>2. /\ ~HoldsIn(got.server, job[c].from)
        /\ \A z, p : HoldsIn(z, p)' <=> HoldsIn(z, p)
    BY <1>3, <1>7, <1>11, SameRows DEF HoldsIn
  <2>3. StageRow(c)' /\ StageCount(c)' /\ StagePorts(c)'
    BY <1>6, <1>9, <2>1, <2>2 DEF StageRow, StageCount, StagePorts, Assigned
  <2>4. ASSUME NEW p \in Pool, Automatic = {p}, NEW q \in Port
        PROVE  Follows(q, p)' \/ Pending(c, q, p)'
    <3>1. Follows(q, p) \/ Pending(c, q, p) BY <1>1, <1>5, <2>4, FollowBefore
    <3>2. Pending(c, q, p) => Pending(c, q, p)'
      BY <1>1, <1>9, <2>1 DEF Pending, Configured, Target
    <3> QED BY <1>3, <3>1, <3>2, SameRows
  <2> QED BY <1>1, <1>3, <1>11, <2>1, <2>3, <2>4, FollowFromOwn
<1>12. CASE job[c].req.op = "update" /\ Count(c) # 0 /\ Return(c)
  <2>1. step'[c] = "idle" BY <1>12, Returned
  <2>2. HoldsIn(got.server, job[c].from)
    BY <1>6, <1>7, <1>12 DEF HoldsIn, Assigned
  <2>3. ASSUME NEW p \in Pool, Automatic = {p}, NEW q \in Port PROVE Follows(q, p)'
    <3>1. Follows(q, p) \/ Pending(c, q, p) BY <1>1, <1>5, <2>3, FollowBefore
    <3>2. ASSUME Pending(c, q, p) PROVE Follows(q, p)
      <4>1. p = job[c].from /\ LinkedTo[q] = got.server
        BY <1>1, <3>2 DEF Pending, Configured
      <4>2. StageCount(c) BY <1>1, <1>5, FollowBefore
      <4>3. OnPool(port[q], pool[p]) BY <1>1, <1>12, <2>3, <4>1, <4>2 DEF StageCount
      <4> QED BY <2>2, <4>1, <4>3 DEF Follows
    <3> QED BY <1>3, <3>1, <3>2, SameRows
  <2>4. \E w, i : Goto(c, w, i) BY <1>12 DEF Return
  <2> QED BY <1>1, <1>3, <2>1, <2>3, <2>4, FollowFromOwn
<1> QED BY <1>4, <1>10, <1>11, <1>12

\* A row is deleted: the ports of the server that had it are on the way when it was the last.
LEMMA DeleteRowFollow ==
  ASSUME IPAMTypeInv, IPAMTypeInv', FollowInv, NEW c \in Call, DeleteRow(c)
  PROVE  FollowInv'
<1> DEFINE a == job[c].addr
           got == job[c].got
           gone == [row[a] EXCEPT !.status = "absent"]
<1>1. job[c] \in Job /\ KnownAt("delete", job[c]) /\ step[c] = "delete"
  BY DEF DeleteRow, IPAMTypeInv, CallsKnown
<1>2. a \in Host /\ got \in Row /\ job[c].req.op = "delete"
  BY <1>1 DEF KnownAt, HasRow
<1>3. /\ UNCHANGED <<pool, port, disturbed, followed>>
      /\ row' = IF Exists(c) THEN [row EXCEPT ![a] = gone] ELSE row
      /\ \/ job[c].revert /\ Goto(c, "pool", job[c])
         \/ ~job[c].revert /\ Return(c)
  BY DEF DeleteRow, ghost
<1>4. SUFFICES ASSUME followed PROVE FollowInv'
  BY <1>3 DEF FollowInv
<1>5. StageRow(c) BY <1>1, <1>4, FollowBefore
<1>6. \A b \in Host \ {a} : row'[b] = row[b]
  BY <1>3 DEF IPAMTypeInv, TypeOK
<1>7. Exists(c) => row'[a].status = "absent"
  <2>1. row[a] \in Row BY <1>2 DEF IPAMTypeInv, TypeOK
  <2>2. gone.status = "absent" BY <2>1 DEF Row
  <2> HIDE DEF gone
  <2> QED BY <1>2, <1>3, <2>2 DEF IPAMTypeInv, TypeOK
<1> HIDE DEF gone
<1> DEFINE Others(z, p) == \E b \in Host \ {a} : Holds(row[b], z) /\ row[b].pool = p
<1>8. \A z, p :
        /\ HoldsIn(z, p) <=> z # None /\ (Others(z, p) \/ (Holds(row[a], z) /\ p = row[a].pool))
        /\ Exists(c) => (HoldsIn(z, p)' <=> z # None /\ Others(z, p))
  BY <1>2, <1>6, <1>7, OneRow DEF Holds
<1>9. ASSUME NEW p \in Pool, Automatic = {p}, NEW q \in Port PROVE Follows(q, p)
  BY <1>1, <1>2, <1>4, <1>9, FollowBefore DEF Pending
<1>10. CASE job[c].revert /\ Goto(c, "pool", job[c])
  <2>1. step'[c] = "pool" /\ job'[c] = job[c] BY <1>10, Arrived
  <2>2. /\ Assigned(got) /\ row[a] = got /\ job[c].from = got.pool
        /\ \A b \in HeldBy(got.server) : row[b].pool = job[c].from => b = a
    BY <1>1, <1>5, <1>10 DEF StageRow
  <2>3. Exists(c) BY <2>2 DEF Exists, Assigned
  <2>4. ~Others(got.server, got.pool) BY <2>2 DEF HeldBy
  <2> HIDE DEF Others
  <2>5. \A z, p : HoldsIn(z, p)' <=> HoldsIn(z, p) /\ ~(z = got.server /\ p = got.pool)
    BY <1>8, <2>2, <2>3, <2>4 DEF Holds
  <2>6. StageRow(c)' /\ StageCount(c)' /\ StagePorts(c)'
    BY <1>10, <2>1, <2>2, <2>5 DEF StageRow, StageCount, StagePorts, Assigned
  <2>7. ASSUME NEW p \in Pool, Automatic = {p}, NEW q \in Port
        PROVE  Follows(q, p)' \/ Pending(c, q, p)'
    <3>1. CASE p = got.pool /\ LinkedTo[q] = got.server
      BY <1>10, <2>1, <2>2, <3>1 DEF Pending, Configured, Target
    <3>2. CASE ~(p = got.pool /\ LinkedTo[q] = got.server)
      <4>1. Follows(q, p) BY <1>9, <2>7
      <4> QED BY <1>3, <2>5, <3>2, <4>1, SameHolds
    <3> QED BY <3>1, <3>2
  <2> QED BY <1>1, <1>3, <1>10, <2>1, <2>6, <2>7, FollowFromOwn
<1>11. CASE ~job[c].revert /\ Return(c)
  <2>1. step'[c] = "idle" BY <1>11, Returned
  <2>2. \A z, p : HoldsIn(z, p)' <=> HoldsIn(z, p)
    <3>1. CASE ~Exists(c) BY <1>3, <3>1 DEF HoldsIn, HeldBy, Holds
    <3>2. CASE Exists(c)
      <4>1. Assigned(row[a]) => Others(row[a].server, row[a].pool)
        BY <1>1, <1>5, <1>11, <3>2 DEF StageRow, HeldBy
      <4> HIDE DEF Others
      <4> QED BY <1>8, <3>2, <4>1 DEF Holds, Assigned
    <3> QED BY <3>1, <3>2
  <2>3. ASSUME NEW p \in Pool, Automatic = {p}, NEW q \in Port PROVE Follows(q, p)'
    <3>1. Follows(q, p) BY <1>9, <2>3
    <3> QED BY <1>3, <2>2, <3>1, SameHolds
  <2>4. \E w, i : Goto(c, w, i) BY <1>11 DEF Return
  <2> QED BY <1>1, <1>3, <2>1, <2>3, <2>4, FollowFromOwn
<1> QED BY <1>3, <1>10, <1>11

\* A row is inserted that gives no server an address.
LEMMA InsertHolds ==
  ASSUME IPAMTypeInv, NEW a \in Host, NEW p0, NEW status, NEW s, row[a].status = "absent",
         InsertRow(a, p0, status, s), ~(status = "assigned" /\ s # None)
  PROVE  \A z, p : HoldsIn(z, p)' <=> HoldsIn(z, p)
<1>1. /\ \A b \in Host \ {a} : row'[b] = row[b]
      /\ row'[a].status = status /\ row'[a].server = s
  BY DEF InsertRow, IPAMTypeInv, TypeOK
<1> QED BY <1>1, OneRow DEF Holds

\* A step that puts no port on the way, and leaves what the servers hold.
LEMMA NothingPending ==
  ASSUME IPAMTypeInv, IPAMTypeInv', FollowInv, NEW c \in Call, step[c] \in {"insert", "generate"},
         step'[c] \in {"idle", "generate"}, \E w, j : Goto(c, w, j),
         UNCHANGED <<pool, port, disturbed>>, followed' => followed,
         followed' => \A z, p : HoldsIn(z, p)' <=> HoldsIn(z, p)
  PROVE  FollowInv'
<1>1. StageRow(c)' /\ StageCount(c)' /\ StagePorts(c)'
  BY DEF StageRow, StageCount, StagePorts
<1>2. ASSUME followed', NEW p \in Pool, Automatic = {p}, NEW q \in Port PROVE Follows(q, p)'
  <2>1. Follows(q, p) BY <1>2, FollowBefore DEF Pending
  <2> QED BY <1>2, <2>1, SameHolds
<1> QED BY <1>1, <1>2, FollowFromOwn

\* The creation of an address keeps FollowInv.
LEMMA InsertFollow ==
  ASSUME IPAMTypeInv, IPAMTypeInv', FollowInv, NEW c \in Call, Insert(c)
  PROVE  FollowInv'
<1> DEFINE r == job[c].req
<1>1. step[c] = "insert" /\ Return(c) /\ UNCHANGED <<pool, port, disturbed>>
  BY DEF Insert
<1>2. r \in Request /\ r.op = "create"
  BY <1>1 DEF IPAMTypeInv, CallsKnown, KnownAt
<1>3. \/ UNCHANGED <<row, followed>>
      \/ /\ row[r.addr].status = "absent" /\ InsertRow(r.addr, r.pool, r.status, r.server)
         /\ followed' => followed /\ ~(r.status = "assigned" /\ r.server # None)
  BY DEF Insert, CanInsert
<1>4. followed' => \A z, p : HoldsIn(z, p)' <=> HoldsIn(z, p)
  <2>1. CASE row' = row BY <2>1 DEF HoldsIn, HeldBy, Holds
  <2>2. r.addr \in Host BY <1>2, RequestFields
  <2> HIDE DEF r
  <2> QED BY <1>3, <2>1, <2>2, InsertHolds
<1>5. step'[c] = "idle" BY <1>1, Returned
<1>6. \E w, j : Goto(c, w, j) BY <1>1 DEF Return
<1>7. followed' => followed BY <1>3
<1> QED BY <1>1, <1>4, <1>5, <1>6, <1>7, NothingPending

\* The generation of an address keeps FollowInv.
LEMMA GenerateFollow ==
  ASSUME IPAMTypeInv, IPAMTypeInv', FollowInv, NEW c \in Call, Generate(c)
  PROVE  FollowInv'
<1> DEFINE a == Min(job[c].left)
           status == IF job[c].req.reserve /\ a = Gateway[job[c].from] THEN "reserved" ELSE "available"
           j == [job[c] EXCEPT !.left = @ \ {a}]
<1>1. step[c] = "generate" /\ UNCHANGED <<pool, port, disturbed, followed>>
  BY DEF Generate
<1>2. Return(c) \/ Goto(c, "generate", j)
  BY DEF Generate
<1>3. \/ row' = row
      \/ /\ job[c].left # {} /\ row[a].status = "absent"
         /\ InsertRow(a, job[c].from, status, None)
  BY DEF Generate, CanInsert
<1>4. status # "assigned" OBVIOUS
<1>5. job[c].left # {} => a \in Host
  BY FirstOf, NetworkAssumption DEF IPAMTypeInv, CallsKnown, Job
<1> HIDE DEF a, status, j
<1>6. \A z, p : HoldsIn(z, p)' <=> HoldsIn(z, p)
  <2>1. CASE row' = row BY <2>1 DEF HoldsIn, HeldBy, Holds
  <2> QED BY <1>3, <1>4, <1>5, <2>1, InsertHolds
<1>7. step'[c] \in {"idle", "generate"} BY <1>2, Returned, Arrived
<1>8. \E w, k : Goto(c, w, k) BY <1>2 DEF Return
<1> QED BY <1>1, <1>6, <1>7, <1>8, NothingPending

\* The pool's settings are read: a pool that does not automate the ports leaves them alone.
LEMMA ReadPoolFollow ==
  ASSUME IPAMTypeInv, IPAMTypeInv', FollowInv, NEW c \in Call, ReadPool(c)
  PROVE  FollowInv'
<1> DEFINE k == pool[job[c].from]
           j == [job[c] EXCEPT !.cfg = k]
<1>1. job[c] \in Job /\ KnownAt("pool", job[c]) /\ step[c] = "pool"
  BY DEF ReadPool, IPAMTypeInv, CallsKnown
<1>2. UNCHANGED <<pool, disturbed, followed>> /\ UNCHANGED data
  BY DEF ReadPool, data, ghost
<1>3. \/ (k = None \/ ~k.automation) /\ Return(c)
      \/ k # None /\ k.automation /\ Goto(c, "ports", j)
  BY DEF ReadPool
<1>4. SUFFICES ASSUME followed PROVE FollowInv'
  BY <1>2 DEF FollowInv
<1>5. ASSUME NEW p \in Pool, Automatic = {p}, NEW q \in Port
      PROVE  Follows(q, p)' \/ Pending(c, q, p)
  BY <1>1, <1>2, <1>4, <1>5, FollowBefore, SameRows
<1>6. CASE (k = None \/ ~k.automation) /\ Return(c)
  <2>1. step'[c] = "idle" BY <1>6, Returned
  <2>2. ASSUME NEW p \in Pool, Automatic = {p}, NEW q \in Port PROVE Follows(q, p)'
    BY <1>5, <1>6, <2>2 DEF Pending, Automatic
  <2>3. \E w, i : Goto(c, w, i) BY <1>6 DEF Return
  <2> QED BY <1>1, <1>2, <2>1, <2>2, <2>3, FollowFromOwn
<1>7. CASE k # None /\ k.automation /\ Goto(c, "ports", j)
  <2> HIDE DEF k
  <2>1. /\ j.req = job[c].req /\ j.from = job[c].from /\ j.revert = job[c].revert
        /\ j.got = job[c].got /\ j.cfg = k
    BY <1>1 DEF Job
  <2> HIDE DEF j
  <2>2. step'[c] = "ports" /\ job'[c] = j BY <1>7, Arrived
  <2>3. StagePorts(c) BY <1>1, <1>4, FollowBefore
  <2>4. StageRow(c)' /\ StageCount(c)' BY <2>2 DEF StageRow, StageCount
  <2>5. StagePorts(c)'
    BY <1>1, <1>2, <1>7, <2>1, <2>2, <2>3, SameRows DEF StagePorts, k
  <2>6. \A p \in Pool, q \in Port : Pending(c, q, p) => Pending(c, q, p)'
    BY <1>1, <2>1, <2>2 DEF Pending, Configured, Target
  <2> QED BY <1>1, <1>2, <1>5, <1>7, <2>2, <2>4, <2>5, <2>6, FollowFromOwn
<1> QED BY <1>3, <1>6, <1>7

\* The reading of the ports keeps FollowInv: all those of the server are to be written.
LEMMA ReadPortsFollow ==
  ASSUME IPAMTypeInv, IPAMTypeInv', FollowInv, NEW c \in Call, ReadPorts(c)
  PROVE  FollowInv'
<1> DEFINE qs == {q \in Port : LinkedTo[q] = Target(c)}
           t  == [q \in qs |-> port[q]]
           j  == [job[c] EXCEPT !.todo = t]
           w  == NextPort(job[c])
<1>1. job[c] \in Job /\ KnownAt("ports", job[c]) /\ step[c] = "ports"
  BY DEF ReadPorts, IPAMTypeInv, CallsKnown
<1>2. UNCHANGED <<pool, disturbed, followed>> /\ UNCHANGED data
  BY DEF ReadPorts, data, ghost
<1>3. \/ (qs = {} \/ Preview(c)) /\ Return(c)
      \/ Goto(c, w, j)
  BY DEF ReadPorts
<1>4. SUFFICES ASSUME followed PROVE FollowInv'
  BY <1>2 DEF FollowInv
<1>5. StagePorts(c) BY <1>1, <1>4, FollowBefore
<1>6. ASSUME NEW p \in Pool, Automatic = {p}, NEW q \in Port
      PROVE  Follows(q, p)' \/ Pending(c, q, p)
  BY <1>1, <1>2, <1>4, <1>6, FollowBefore, SameRows
<1>7. CASE (qs = {} \/ Preview(c)) /\ Return(c)
  <2>1. step'[c] = "idle" BY <1>7, Returned
  <2>2. ~Preview(c) BY <1>1, <1>5 DEF StagePorts, Preview
  <2>3. ASSUME NEW p \in Pool, Automatic = {p}, NEW q \in Port PROVE Follows(q, p)'
    BY <1>1, <1>6, <1>7, <2>2, <2>3 DEF Pending, Configured
  <2>4. \E v, i : Goto(c, v, i) BY <1>7 DEF Return
  <2> QED BY <1>1, <1>2, <2>1, <2>3, <2>4, FollowFromOwn
<1>8. CASE Goto(c, w, j)
  <2>1. DOMAIN t = qs OBVIOUS
  <2>2. w \in {"vlan", "port"} /\ (w = "port" =>
          job[c].revert \/ job[c].cfg.range = {} \/ job[c].cfg.mode = "trunk")
    BY DEF NextPort
  <2> HIDE DEF t, w
  <2>3. /\ j.req = job[c].req /\ j.from = job[c].from /\ j.revert = job[c].revert
        /\ j.got = job[c].got /\ j.cfg = job[c].cfg /\ j.todo = t
    BY <1>1 DEF Job
  <2> HIDE DEF j
  <2>4. step'[c] = w /\ job'[c] = j BY <1>8, Arrived
  <2>5. StageRow(c)' /\ StageCount(c)' BY <2>2, <2>4 DEF StageRow, StageCount
  <2>6. Target(c)' = Target(c) BY <2>3, <2>4 DEF Target
  <2>7. StagePorts(c)'
    BY <1>1, <1>2, <1>5, <2>1, <2>2, <2>3, <2>4, <2>6, SameRows DEF StagePorts
  <2>8. \A p \in Pool, q \in Port : Pending(c, q, p) => Pending(c, q, p)'
    BY <1>1, <2>1, <2>2, <2>3, <2>4, <2>6 DEF Pending, Configured
  <2> QED BY <1>1, <1>2, <1>6, <1>8, <2>2, <2>4, <2>5, <2>7, <2>8, FollowFromOwn
<1> QED BY <1>3, <1>7, <1>8

\* A VLAN is allocated: when there is one left, it is in the pool's range.
LEMMA AllocateVlanFollow ==
  ASSUME IPAMTypeInv, IPAMTypeInv', FollowInv, NEW c \in Call, AllocateVlan(c)
  PROVE  FollowInv'
<1> DEFINE free == job[c].cfg.range \ UsedVlans
           vid == IF free = {} THEN 0 ELSE Min(free)
           j == [job[c] EXCEPT !.vid = vid]
<1>1. job[c] \in Job /\ KnownAt("vlan", job[c]) /\ step[c] = "vlan"
  BY DEF AllocateVlan, IPAMTypeInv, CallsKnown
<1>2. /\ UNCHANGED <<pool, disturbed>> /\ UNCHANGED data /\ Goto(c, "port", j)
      /\ followed' => followed /\ free # {}
  BY DEF AllocateVlan, data
<1>3. SUFFICES ASSUME followed, followed' PROVE FollowInv'
  BY <1>2 DEF FollowInv
<1>4. vid \in job[c].cfg.range
  <2>1. free \subseteq Nat
    BY <1>1, ClientAssumption, PortAssumption DEF KnownAt
  <2>2. Min(free) \in free BY <1>2, <1>3, <2>1, FirstOf
  <2> QED BY <1>2, <1>3, <2>2
<1> HIDE DEF vid
<1>5. /\ j.req = job[c].req /\ j.from = job[c].from /\ j.revert = job[c].revert
      /\ j.got = job[c].got /\ j.cfg = job[c].cfg /\ j.todo = job[c].todo /\ j.vid = vid
  BY <1>1 DEF Job
<1> HIDE DEF j
<1>6. step'[c] = "port" /\ job'[c] = j BY <1>2, Arrived
<1>7. StageRow(c)' /\ StageCount(c)' BY <1>6 DEF StageRow, StageCount
<1>8. Target(c)' = Target(c) BY <1>5, <1>6 DEF Target
<1>9. StagePorts(c)'
  <2>1. StagePorts(c) BY <1>1, <1>3, FollowBefore
  <2> QED BY <1>1, <1>2, <1>4, <1>5, <1>6, <1>8, <2>1, SameRows DEF StagePorts
<1>10. ASSUME NEW p \in Pool, Automatic = {p}, NEW q \in Port
       PROVE  Follows(q, p)' \/ Pending(c, q, p)'
  <2>1. Follows(q, p)' \/ Pending(c, q, p)
    BY <1>1, <1>2, <1>3, <1>10, FollowBefore, SameRows
  <2>2. Pending(c, q, p) => Pending(c, q, p)'
    BY <1>1, <1>5, <1>6, <1>8 DEF Pending, Configured
  <2> QED BY <2>1, <2>2
<1> QED BY <1>1, <1>2, <1>6, <1>7, <1>9, <1>10, FollowFromOwn

\* What a port is given is of the pool, when a VLAN of the range was found.
LEMMA GivenOfPool ==
  ASSUME NEW k \in Config, NEW vid, NEW r, k.range # {} /\ k.mode # "trunk" => vid \in k.range
  PROVE  OnPool(NewPortRow(k, vid, r), k)
<1>1. k.mode \in Modes /\ k.range \subseteq Nat \ {0}
  BY ClientAssumption, PortAssumption
<1>2. k.range # {} /\ k.mode # "trunk" => vid > 0 BY <1>1
<1>3. CASE k.mode = "access" BY <1>2, <1>3 DEF OnPool, NewPortRow
<1>4. CASE k.mode = "trunk_native" BY <1>2, <1>4 DEF OnPool, NewPortRow
<1>5. CASE k.mode = "trunk" BY <1>5 DEF OnPool, NewPortRow
<1> QED BY <1>1, <1>3, <1>4, <1>5 DEF Modes

\* One port is written, and it is as the server's addresses ask; the others left stay on
\* the way.
LEMMA SavePortFollow ==
  ASSUME IPAMTypeInv, IPAMTypeInv', FollowInv, NEW c \in Call, SavePort(c)
  PROVE  FollowInv'
<1> DEFINE j == job[c]
           q0 == Min(DOMAIN j.todo)
           rest == DOMAIN j.todo \ {q0}
           r == IF j.revert THEN DefaultPort ELSE NewPortRow(j.cfg, j.vid, j.todo[q0])
           k == [j EXCEPT !.todo = Restrict(@, rest), !.vid = 0]
           w == NextPort(j)
<1>1. j \in Job /\ KnownAt("port", j) /\ step[c] = "port"
  BY DEF SavePort, IPAMTypeInv, CallsKnown
<1>2. /\ UNCHANGED <<pool, row, disturbed, followed>>
      /\ port' = [port EXCEPT ![q0] = r]
      /\ (rest = {} /\ Return(c)) \/ (rest # {} /\ Goto(c, w, k))
  BY DEF SavePort, ghost
<1>3. /\ DOMAIN j.todo \subseteq Port /\ q0 \in DOMAIN j.todo
      /\ k \in Job /\ DOMAIN k.todo = rest
  BY <1>1, NextTodo DEF KnownAt
<1>4. SUFFICES ASSUME followed PROVE FollowInv'
  BY <1>2 DEF FollowInv
<1>5. StagePorts(c) BY <1>1, <1>4, FollowBefore
<1>6. \A z, p : HoldsIn(z, p)' <=> HoldsIn(z, p)
  BY <1>2 DEF HoldsIn, HeldBy, Holds
<1>7. port'[q0] = r /\ \A q \in Port \ {q0} : port'[q] = port[q]
  BY <1>2, <1>3 DEF IPAMTypeInv, TypeOK
<1>8. ASSUME NEW p \in Pool, Automatic = {p}, NEW q \in Port, q = q0 PROVE Follows(q, p)'
  <2>1. j.cfg = pool[j.from] /\ j.cfg.automation /\ LinkedTo[q] = Target(c)
    BY <1>1, <1>3, <1>5, <1>8 DEF StagePorts
  <2>2. j.cfg \in Config /\ j.from \in Pool BY <1>1 DEF KnownAt
  <2>3. j.from = p
    <3>1. j.from \in Automatic BY <2>1, <2>2, NoneAssumption DEF Automatic
    <3> QED BY <1>8, <3>1
  <2>4. CASE j.revert
    <3>1. ~HoldsIn(LinkedTo[q], p) /\ r = DefaultPort
      BY <1>1, <1>5, <2>1, <2>3, <2>4 DEF StagePorts, Target
    <3> QED BY <1>6, <1>7, <1>8, <3>1 DEF Follows
  <2>5. CASE ~j.revert
    <3>1. HoldsIn(LinkedTo[q], p)
      BY <1>1, <1>5, <2>1, <2>3, <2>5 DEF StagePorts, Target
    <3>2. j.cfg.range # {} /\ j.cfg.mode # "trunk" => j.vid \in j.cfg.range
      BY <1>1, <1>5, <2>5 DEF StagePorts
    <3>3. OnPool(r, pool[p]) BY <2>1, <2>2, <2>3, <2>5, <3>2, GivenOfPool
    <3> QED BY <1>2, <1>6, <1>7, <1>8, <3>1, <3>3 DEF Follows
  <2> QED BY <2>4, <2>5
<1> HIDE DEF r, k
<1>9. ASSUME NEW p \in Pool, Automatic = {p}, NEW q \in Port
      PROVE  Follows(q, p)' \/ (q \in rest /\ Pending(c, q, p))
  <2>1. CASE q = q0 BY <1>8, <1>9, <2>1
  <2>2. CASE q # q0
    <3>1. Follows(q, p)' <=> Follows(q, p) BY <1>2, <1>6, <1>7, <2>2, SameHolds
    <3>2. Follows(q, p) \/ Pending(c, q, p) BY <1>1, <1>4, <1>9, FollowBefore
    <3>3. Pending(c, q, p) => q \in rest BY <1>1, <2>2 DEF Pending
    <3> QED BY <3>1, <3>2, <3>3
  <2> QED BY <2>1, <2>2
<1>10. CASE rest = {} /\ Return(c)
  <2>1. step'[c] = "idle" BY <1>10, Returned
  <2>2. \E v, i : Goto(c, v, i) BY <1>10 DEF Return
  <2> QED BY <1>1, <1>2, <1>9, <1>10, <2>1, <2>2, FollowFromOwn
<1>11. CASE rest # {} /\ Goto(c, w, k)
  <2>1. /\ k.req = j.req /\ k.from = j.from /\ k.revert = j.revert
        /\ k.got = j.got /\ k.cfg = j.cfg
    BY <1>1 DEF Job, k
  <2>2. w \in {"vlan", "port"} /\ (w = "port" =>
          j.revert \/ j.cfg.range = {} \/ j.cfg.mode = "trunk")
    BY DEF NextPort
  <2> HIDE DEF w
  <2>3. step'[c] = w /\ job'[c] = k BY <1>11, Arrived
  <2>4. StageRow(c)' /\ StageCount(c)' BY <2>2, <2>3 DEF StageRow, StageCount
  <2>5. Target(c)' = Target(c) BY <2>1, <2>3 DEF Target
  <2>6. \A q \in rest : LinkedTo[q] = Target(c) BY <1>1, <1>5 DEF StagePorts
  <2>7. StagePorts(c)'
    BY <1>1, <1>2, <1>3, <1>5, <1>6, <2>1, <2>2, <2>3, <2>5, <2>6 DEF StagePorts
  <2>8. \A p \in Pool, q \in rest : Pending(c, q, p) => Pending(c, q, p)'
    BY <1>1, <1>3, <2>1, <2>2, <2>3, <2>5 DEF Pending, Configured
  <2> QED BY <1>1, <1>2, <1>9, <1>11, <2>2, <2>3, <2>4, <2>7, <2>8, FollowFromOwn
<1> QED BY <1>2, <1>10, <1>11

\* A request begins, alone.
LEMMA BeginFollow ==
  ASSUME IPAMTypeInv, FollowInv, NEW c \in Call, NEW r \in Request, Begin(c, r)
  PROVE  FollowInv'
<1>1. /\ UNCHANGED data /\ pool' = pool
      /\ followed' => followed /\ Active = {}
      /\ Active = {} => c \notin disturbed'
  BY DEF Begin, data
<1>2. SUFFICES ASSUME followed, followed', Active = {} PROVE FollowInv'
  BY <1>1 DEF FollowInv
<1>3. step' = [step EXCEPT ![c] = FirstStep(r)] BY DEF Begin, Goto
<1>4. FirstStep(r) \in {"pick", "list", "insert", "generate", "read"} BY DEF FirstStep
<1>5. step'[c] = FirstStep(r) /\ \A d \in Call \ {c} : step'[d] = step[d]
  BY <1>3 DEF IPAMTypeInv, CallsKnown
<1>6. Active' = {c} BY <1>2, <1>4, <1>5 DEF Active
<1>7. StageRow(c)' /\ StageCount(c)' /\ StagePorts(c)'
  BY <1>4, <1>5 DEF StageRow, StageCount, StagePorts
<1>8. Automatic' = Automatic BY <1>1 DEF Automatic
<1>9. \A p \in Pool : Automatic = {p} => \A q \in Port : Follows(q, p)'
  BY <1>1, <1>2, SameRows DEF FollowInv
<1> QED BY <1>1, <1>2, <1>6, <1>7, <1>8, <1>9 DEF FollowInv

\* Every step keeps the ports as the addresses ask, or on their way there.
LEMMA FollowStep ==
  ASSUME IPAMTypeInv, IPAMTypeInv', AloneInv, FollowInv, [Next]_vars
  PROVE  FollowInv'
<1>1. ASSUME NEW c \in Call, RequestStep(c) PROVE FollowInv'
  BY <1>1, ListPoolsFollow, PickFollow, TakeFollow, ReadRowFollow, WriteRowFollow, CountRowsFollow,
     DeleteRowFollow, InsertFollow, GenerateFollow, ReadPoolFollow, ReadPortsFollow,
     AllocateVlanFollow, SavePortFollow DEF RequestStep
<1>2. CASE ~followed' BY <1>2 DEF FollowInv
<1>3. CASE UNCHANGED vars
  <2>1. /\ UNCHANGED data /\ UNCHANGED <<pool, row, port, step, job, disturbed, followed>>
    BY <1>3 DEF vars, data, ghost
  <2>2. \A c \in Call : (StageRow(c)' <=> StageRow(c)) /\ (StageCount(c)' <=> StageCount(c))
    BY <2>1 DEF StageRow, StageCount, Exists, HeldBy, Automatic
  <2>3. \A c \in Call : StagePorts(c)' <=> StagePorts(c)
    BY <2>1, SameRows DEF StagePorts, Target
  <2>4. \A c \in Call, q \in Port, p \in Pool : Pending(c, q, p)' <=> Pending(c, q, p)
    BY <2>1 DEF Pending, Configured, Target
  <2>5. Active' = Active /\ Automatic' = Automatic /\ Active \subseteq Call
    BY <2>1 DEF Active, Automatic
  <2> QED BY <2>1, <2>2, <2>3, <2>4, <2>5, SameRows DEF FollowInv
<1> QED BY <1>1, <1>2, <1>3, BeginFollow DEF Next, ClientGoes, DeletePool, UpdatePool

\* It holds at first.
LEMMA FollowInit == Init => FollowInv
<1> SUFFICES ASSUME Init PROVE FollowInv
    OBVIOUS
<1>1. Active = {} BY DEF Init, Active
<1>2. \A p \in Pool : pool[p] # None
  <2>1. pool \in [Pool -> Config] BY DEF Init
  <2> QED BY <2>1, NoneAssumption
<1>3. \A s, p : ~HoldsIn(s, p)
  BY DEF Init, HoldsIn, HeldBy, Holds
<1>4. \A q \in Port, p \in Pool : Follows(q, p) BY <1>3 DEF Init, Follows
<1> QED BY <1>1, <1>2, <1>4 DEF FollowInv

\* With one pool that automates the ports, and requests that keep their clients, run one
\* at a time and ask for what the ports follow: whatever the requests were, between two of
\* them every port of a server is on the pool's VLAN exactly while the server holds an
\* address of the pool, and on the default VLAN otherwise.
THEOREM PortsFollow == Spec => []PortsFollowAddresses
<1>1. Init => AloneInv BY DEF Init, AloneInv, Undisturbed
<1>2. IPAMTypeInv /\ AloneInv /\ FollowInv /\ [Next]_vars =>
        IPAMTypeInv' /\ AloneInv' /\ FollowInv'
  BY TypeStep, AloneStep, FollowStep
<1> QED BY <1>1, <1>2, TypeInit, FollowInit, FollowInvImplies, PTL DEF Spec
=============================================================================
