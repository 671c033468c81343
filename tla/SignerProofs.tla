---------------------------- MODULE SignerProofs ----------------------------
(***************************************************************************)
(* Signer requests that write one at a time never leave two active keys,   *)
(* and do not bring a retired one back, for any number of keys and any     *)
(* order of them.  Requests that find nothing to write may come at any time*)
(***************************************************************************)
EXTENDS OrchestratorSigners, TLAPS

Busy(t) == task[t].pc # "idle"

(* Every row, in the table or yet to be written, is of a configured key,   *)
(* and a request that goes on to write a status has one to write.          *)
Configured ==
    /\ TypeOK
    /\ \A k \in SigningKeys : signer[k] # NoRow => k \in Range(config)
    /\ \A t \in Requests : Busy(t) =>
          /\ task[t].key \in Range(config)
          /\ \A row \in task[t].rows : row[1] \in Range(config)
          /\ task[t].pc # "sync" => task[t].status \in Status

LEMMA Configuration ==
    ASSUME NEW keys \in Configurations
    PROVE  /\ keys \in Seq(SigningKeys) /\ Len(keys) \in Nat
           /\ Range(keys) = {keys[i] : i \in 1 .. Len(keys)}
           /\ keys[1] \in SigningKeys /\ Range(keys) \subseteq SigningKeys
<1>1. keys \in Seq(SigningKeys) /\ keys # <<>>
  BY SignerAssumption
<1>2. Len(keys) \in Nat /\ DOMAIN keys = 1 .. Len(keys) /\ 1 \in 1 .. Len(keys)
  BY <1>1
<1>3. \A i \in 1 .. Len(keys) : keys[i] \in SigningKeys
  BY <1>1
<1>4. Range(keys) = {keys[i] : i \in 1 .. Len(keys)}
  BY <1>2 DEF Range
<1>5. QED
  BY <1>1, <1>2, <1>3, <1>4

LEMMA PlaceIsNat ==
    ASSUME Configured, NEW k \in Range(config)
    PROVE  Place(k) \in Nat
<1>1. config \in Configurations
  BY DEF Configured, TypeOK
<1>2. \E i \in 1 .. Len(config) : config[i] = k
  BY <1>1, Configuration
<1>3. Place(k) \in 1 .. Len(config)
  BY <1>2 DEF Place
<1>4. QED
  BY <1>1, <1>3, Configuration

(* What a request in progress holds.                                       *)
LEMMA Holds ==
    ASSUME Configured, NEW t \in Requests, task[t] # NoTask
    PROVE  /\ Busy(t) /\ task[t].pc \in {"sync", "others", "set"}
           /\ task[t] \in [pc: {"sync", "others", "set"}, key: SigningKeys,
                           status: Status \cup {"any"}, rows: SUBSET (SigningKeys \X Status)]
           /\ task[t].rows \subseteq SigningKeys \X Status
           /\ task[t].status \in Status \cup {"any"}
           /\ task[t].key \in SigningKeys
BY DEF Configured, TypeOK, Busy

LEMMA Written ==
    ASSUME Configured, NEW k \in Range(config), NEW status \in Status, Upsert(k, status)
    PROVE  /\ k \in SigningKeys
           /\ signer'[k].status = status
           /\ \A l \in SigningKeys : l # k => signer'[l] = signer[l]
           /\ signer' \in [SigningKeys -> [status: Status, place: Nat] \cup {NoRow}]
<1>1. k \in SigningKeys
  BY Configuration DEF Configured, TypeOK
<1>2. [status |-> status, place |-> Place(k)] \in [status: Status, place: Nat]
  BY PlaceIsNat
<1>3. QED
  BY <1>1, <1>2 DEF Upsert, Configured, TypeOK

(* A request moves on by itself.                                           *)
LEMMA TaskMoves ==
    ASSUME Configured, NEW t \in Requests, NEW x, task' = [task EXCEPT ![t] = x]
    PROVE  task'[t] = x /\ \A u \in Requests : u # t => task'[u] = task[u]
BY DEF Configured, TypeOK

LEMMA ConfiguredFrame ==
    ASSUME Configured, UNCHANGED config, NEW t \in Requests, NEW x,
           task' = [task EXCEPT ![t] = x],
           signer' \in [SigningKeys -> [status: Status, place: Nat] \cup {NoRow}],
           \A k \in SigningKeys : signer'[k] # NoRow => k \in Range(config),
           \/ x = NoTask
           \/ /\ x \in [pc: {"sync", "others", "set"}, key: SigningKeys,
                        status: Status \cup {"any"}, rows: SUBSET (SigningKeys \X Status)]
              /\ x.key \in Range(config)
              /\ \A row \in x.rows : row[1] \in Range(config)
              /\ x.pc # "sync" => x.status \in Status
    PROVE  Configured'
<1>1. task'[t] = x /\ \A u \in Requests : u # t => task'[u] = task[u]
  BY TaskMoves
<1>2. TypeOK'
  BY DEF Configured, TypeOK
<1>3. ASSUME NEW u \in Requests, Busy(u)'
      PROVE  /\ task'[u].key \in Range(config)
             /\ \A row \in task'[u].rows : row[1] \in Range(config)
             /\ task'[u].pc # "sync" => task'[u].status \in Status
  <2>1. CASE u = t
    BY <1>1, <1>3, <2>1 DEF Busy, NoTask
  <2>2. CASE u # t
    BY <1>1, <1>3, <2>2 DEF Busy, Configured
  <2>3. QED
    BY <2>1, <2>2
<1>4. QED
  BY <1>2, <1>3 DEF Configured
-----------------------------------------------------------------------------
LEMMA InitConfigured == Init => Configured
<1> SUFFICES ASSUME Init PROVE Configured
  OBVIOUS
<1>1. TypeOK /\ \A k \in SigningKeys : signer[k] = NoRow
  BY DEF Init, TypeOK
<1>2. \A t \in Requests : ~Busy(t)
  BY DEF Init, Busy, NoTask
<1>3. QED
  BY <1>1, <1>2 DEF Configured

LEMMA BeginKeeps ==
    ASSUME Configured, NEW t \in Requests, Begin(t)
    PROVE  Configured'
<1>1. PICK key \in Range(config), status \in Status \cup {"any"} :
         task' = [task EXCEPT ![t] = [pc |-> "sync", key |-> key, status |-> status,
                                      rows |-> MissingRows]]
  BY DEF Begin
<1>2. Range(config) \subseteq SigningKeys
  BY Configuration DEF Configured, TypeOK
<1>3. /\ MissingRows \subseteq SigningKeys \X Status
      /\ \A row \in MissingRows : row[1] \in Range(config)
  BY <1>2 DEF MissingRows, Status
<1>4. [pc |-> "sync", key |-> key, status |-> status, rows |-> MissingRows]
         \in [pc: {"sync", "others", "set"}, key: SigningKeys,
              status: Status \cup {"any"}, rows: SUBSET (SigningKeys \X Status)]
  BY <1>2, <1>3
<1> DEFINE x == [pc |-> "sync", key |-> key, status |-> status, rows |-> MissingRows]
<1>5. x.key \in Range(config) /\ (\A row \in x.rows : row[1] \in Range(config)) /\ x.pc = "sync"
  BY <1>3
<1>6. task' = [task EXCEPT ![t] = x] /\ UNCHANGED <<config, signer>>
  BY <1>1 DEF Begin
<1> HIDE DEF x
<1>7. QED
  BY <1>4, <1>5, <1>6, ConfiguredFrame DEF Configured, TypeOK, x

LEMMA WriteRowKeeps ==
    ASSUME Configured, NEW t \in Requests, WriteRow(t)
    PROVE  Configured'
<1>1. PICK row \in task[t].rows :
         /\ Upsert(row[1], row[2])
         /\ task' = [task EXCEPT ![t].rows = @ \ {row}]
  BY DEF WriteRow
<1>2. /\ task[t] \in [pc: {"sync", "others", "set"}, key: SigningKeys,
                      status: Status \cup {"any"}, rows: SUBSET (SigningKeys \X Status)]
      /\ Busy(t)
  BY Holds DEF WriteRow
<1>3. row[1] \in Range(config) /\ row[2] \in Status
  BY <1>2 DEF Configured
<1>4. /\ signer' \in [SigningKeys -> [status: Status, place: Nat] \cup {NoRow}]
      /\ \A k \in SigningKeys : signer'[k] # NoRow => k \in Range(config)
  BY <1>1, <1>3, Written DEF Configured
<1> DEFINE y == [task[t] EXCEPT !.rows = task[t].rows \ {row}]
<1>5. task' = [task EXCEPT ![t] = y] /\ UNCHANGED config
  BY <1>1 DEF WriteRow, Configured, TypeOK
<1>6. /\ y \in [pc: {"sync", "others", "set"}, key: SigningKeys,
                status: Status \cup {"any"}, rows: SUBSET (SigningKeys \X Status)]
      /\ y.key = task[t].key /\ y.pc = task[t].pc /\ y.status = task[t].status
      /\ y.rows \subseteq task[t].rows
  BY <1>2
<1>7. /\ y.key \in Range(config)
      /\ \A r \in y.rows : r[1] \in Range(config)
      /\ y.pc # "sync" => y.status \in Status
  BY <1>2, <1>6 DEF Configured
<1> HIDE DEF y
<1>8. QED
  BY <1>4, <1>5, <1>6, <1>7, ConfiguredFrame

(* What a request does when the table is up to date.                       *)
LEMMA SyncedTo ==
    ASSUME Configured, NEW t \in Requests, Synced(t)
    PROVE  \E x : /\ task' = [task EXCEPT ![t] = x]
                  /\ \/ x = NoTask
                     \/ /\ task[t].status = "active"
                        /\ x = [pc |-> "others", key |-> task[t].key, status |-> "active",
                                rows |-> OtherRows(task[t].key)]
                     \/ /\ task[t].status \in {"staged", "retired"}
                        /\ x = [pc |-> "set", key |-> task[t].key, status |-> task[t].status,
                                rows |-> {}]
<1>1. task[t].pc = "sync" /\ task[t].rows = {}
  BY DEF Synced
<1>2. task[t] \in [pc: {"sync", "others", "set"}, key: SigningKeys,
                   status: Status \cup {"any"}, rows: SUBSET (SigningKeys \X Status)]
  BY <1>1, Holds DEF NoTask
<1>3. CASE task[t].status = "any"
  <2>1. task' = [task EXCEPT ![t] = NoTask]
    BY <1>2, <1>3 DEF Synced, Configured, TypeOK
  <2>2. QED
    BY <2>1
<1>4. CASE task[t].status = "active"
  <2>1. task' = [task EXCEPT ![t] =
                   [pc |-> "others", key |-> task[t].key, status |-> "active",
                    rows |-> OtherRows(task[t].key)]]
    BY <1>4 DEF Synced, Configured, TypeOK
  <2>2. QED
    BY <1>4, <2>1
<1>5. CASE task[t].status \in {"staged", "retired"}
  <2>1. task' = [task EXCEPT ![t] = [task[t] EXCEPT !.pc = "set"]]
    BY <1>5 DEF Synced, Configured, TypeOK
  <2>2. [task[t] EXCEPT !.pc = "set"] =
        [pc |-> "set", key |-> task[t].key, status |-> task[t].status, rows |-> {}]
    BY <1>1, <1>2
  <2>3. QED
    BY <1>5, <2>1, <2>2
<1>6. QED
  BY <1>2, <1>3, <1>4, <1>5 DEF Status

LEMMA SyncedKeeps ==
    ASSUME Configured, NEW t \in Requests, Synced(t)
    PROVE  Configured'
<1>1. PICK x : /\ task' = [task EXCEPT ![t] = x]
               /\ \/ x = NoTask
                  \/ /\ task[t].status = "active"
                     /\ x = [pc |-> "others", key |-> task[t].key, status |-> "active",
                             rows |-> OtherRows(task[t].key)]
                  \/ /\ task[t].status \in {"staged", "retired"}
                     /\ x = [pc |-> "set", key |-> task[t].key, status |-> task[t].status,
                             rows |-> {}]
  BY SyncedTo
<1>2. task[t].key \in Range(config) /\ task[t].key \in SigningKeys
  BY Holds DEF Synced, NoTask, Configured
<1>3. Range(config) \subseteq SigningKeys
  BY Configuration DEF Configured, TypeOK
<1>4. /\ OtherRows(task[t].key) \subseteq SigningKeys \X Status
      /\ \A row \in OtherRows(task[t].key) : row[1] \in Range(config)
  BY <1>3 DEF OtherRows, Status
<1>5. \/ x = NoTask
      \/ /\ x \in [pc: {"sync", "others", "set"}, key: SigningKeys,
                   status: Status \cup {"any"}, rows: SUBSET (SigningKeys \X Status)]
         /\ x.key \in Range(config)
         /\ \A row \in x.rows : row[1] \in Range(config)
         /\ x.pc # "sync" => x.status \in Status
  BY <1>1, <1>2, <1>4 DEF Status
<1>6. UNCHANGED <<config, signer>>
  BY DEF Synced
<1>7. QED
  BY <1>1, <1>5, <1>6, ConfiguredFrame DEF Configured, TypeOK

LEMMA SetStatusKeeps ==
    ASSUME Configured, NEW t \in Requests, SetStatus(t)
    PROVE  Configured'
<1>1. Busy(t) /\ task[t].pc # "sync"
  BY DEF SetStatus, Busy
<1>2. task[t].key \in Range(config) /\ task[t].status \in Status
  BY <1>1 DEF Configured
<1>3. /\ signer' \in [SigningKeys -> [status: Status, place: Nat] \cup {NoRow}]
      /\ \A k \in SigningKeys : signer'[k] # NoRow => k \in Range(config)
  BY <1>2, Written DEF SetStatus, Configured
<1>4. QED
  BY <1>3, ConfiguredFrame DEF SetStatus

LEMMA StepConfigured == Configured /\ [Next]_vars => Configured'
<1> SUFFICES ASSUME Configured, [Next]_vars PROVE Configured'
  OBVIOUS
<1>1. ASSUME NEW t \in Requests, GiveUp(t)
      PROVE  Configured'
  BY <1>1, ConfiguredFrame DEF GiveUp, Configured, TypeOK
<1>2. CASE Restart
  <2>1. TypeOK'
    BY <1>2 DEF Restart, Configured, TypeOK
  <2>2. \A t \in Requests : ~Busy(t)'
    BY <1>2 DEF Restart, Busy, NoTask
  <2>3. QED
    BY <1>2, <2>1, <2>2 DEF Restart, Configured
<1>3. CASE UNCHANGED vars
  BY <1>3 DEF vars, Configured, TypeOK, Busy
<1>4. QED
  BY <1>1, <1>2, <1>3, BeginKeeps, WriteRowKeeps, SyncedKeeps, SetStatusKeeps DEF Next

THEOREM SignersConfigured == Spec => []Configured
BY InitConfigured, StepConfigured, PTL DEF Spec

(* Every row has a status of the three and the place of a configured key,  *)
(* however many requests write the table at once.                          *)
THEOREM SignerTypes == Spec => []TypeOK
<1>1. Configured => TypeOK
  BY DEF Configured
<1>2. QED
  BY <1>1, SignersConfigured, PTL
-----------------------------------------------------------------------------
(* With one request at a time that has something to write, what it set out *)
(* to write is still right when it writes it.  The code leaves it to the   *)
(* operators (and to the first start, which fills the table): registrations*)
(* and listings that find every key in the table do not write.             *)
Writing(t) == task[t] # NoTask /\ (task[t].rows # {} \/ task[t].status # "any")
WritersInTurn == \A t, u \in Requests : Writing(t) /\ Writing(u) => t = u

SyncRight(t) ==
    /\ \A row \in task[t].rows : signer[row[1]] = NoRow
    /\ \A row, other \in task[t].rows : row[1] = other[1] => row = other
    /\ \A row \in task[t].rows :
          row[2] = "active" => row[1] = config[1] /\ WithStatus("active") = {}
OthersRight(t) ==
    /\ task[t].status = "active"
    /\ \A row \in task[t].rows :
          row[1] # task[t].key /\ row[2] = "staged" /\ ~KnownRetired(row[1])
    /\ \A k \in WithStatus("active") : k = task[t].key \/ <<k, "staged">> \in task[t].rows

TaskRight(t) ==
    /\ task[t].pc = "sync" => SyncRight(t)
    /\ task[t].pc = "others" => OthersRight(t)
    /\ task[t].pc = "set" => task[t].status # "active" /\ task[t].rows = {}

SignerInv ==
    /\ Configured
    /\ AtMostOneActive
    /\ \A t \in Requests : TaskRight(t)

LEMMA InitSigners == Init => SignerInv
<1> SUFFICES ASSUME Init PROVE SignerInv
  OBVIOUS
<1>1. \A t \in Requests : task[t].pc = "idle"
  BY DEF Init, NoTask
<1>2. WithStatus("active") = {}
  BY DEF Init, WithStatus, NoRow
<1>3. QED
  BY <1>1, <1>2, InitConfigured DEF SignerInv, TaskRight, AtMostOneActive

(* A step of one request: the others had nothing to write, or the table is *)
(* as it was.                                                              *)
LEMMA OneMoves ==
    ASSUME SignerInv, NEW t \in Requests, config' = config,
           \/ signer' = signer
           \/ WritersInTurn /\ Writing(t),
           \A u \in Requests : u # t => task'[u] = task[u],
           Configured', AtMostOneActive', TaskRight(t)'
    PROVE  SignerInv'
<1>1. ASSUME NEW u \in Requests, u # t PROVE TaskRight(u)'
  <2>1. task'[u] = task[u] /\ TaskRight(u)
    BY <1>1 DEF SignerInv
  <2>2. CASE signer' = signer
    BY <2>1, <2>2
       DEF TaskRight, SyncRight, OthersRight, WithStatus, KnownRetired, Place
  <2>3. CASE ~Writing(u)
    <3>1. CASE task[u] = NoTask
      BY <2>1, <3>1 DEF TaskRight, NoTask
    <3>2. CASE task[u].rows = {} /\ task[u].status = "any"
      BY <2>1, <3>2 DEF TaskRight, SyncRight, OthersRight
    <3>3. QED
      BY <2>3, <3>1, <3>2 DEF Writing
  <2>4. QED
    BY <1>1, <2>2, <2>3 DEF WritersInTurn
<1>2. QED
  BY <1>1 DEF SignerInv

LEMMA BeginRight ==
    ASSUME SignerInv, NEW t \in Requests, Begin(t)
    PROVE  SignerInv'
<1>1. PICK key, status :
         task' = [task EXCEPT ![t] = [pc |-> "sync", key |-> key, status |-> status,
                                      rows |-> MissingRows]]
  BY DEF Begin
<1>2. /\ task'[t].pc = "sync" /\ task'[t].rows = MissingRows
      /\ \A u \in Requests : u # t => task'[u] = task[u]
  BY <1>1 DEF SignerInv, Configured, TypeOK
<1>3. UNCHANGED <<config, signer>>
  BY DEF Begin
<1>4. /\ \A row \in MissingRows : signer[row[1]] = NoRow
      /\ \A row, other \in MissingRows : row[1] = other[1] => row = other
      /\ \A row \in MissingRows :
            row[2] = "active" => row[1] = config[1] /\ WithStatus("active") = {}
  BY DEF MissingRows
<1>5. SyncRight(t)'
  BY <1>2, <1>3, <1>4 DEF SyncRight, WithStatus
<1>6. Configured' /\ AtMostOneActive'
  BY <1>3, BeginKeeps DEF SignerInv, AtMostOneActive, WithStatus
<1>7. TaskRight(t)'
  BY <1>2, <1>5 DEF TaskRight
<1>8. QED
  BY <1>2, <1>3, <1>6, <1>7, OneMoves

LEMMA WriteRowRight ==
    ASSUME SignerInv, WritersInTurn, NEW t \in Requests, WriteRow(t)
    PROVE  SignerInv'
<1>1. PICK row \in task[t].rows :
         /\ Upsert(row[1], row[2])
         /\ task' = [task EXCEPT ![t].rows = @ \ {row}]
  BY DEF WriteRow
<1>2. /\ task[t] \in [pc: {"sync", "others", "set"}, key: SigningKeys,
                      status: Status \cup {"any"}, rows: SUBSET (SigningKeys \X Status)]
      /\ Busy(t) /\ config' = config
  BY Holds DEF WriteRow, SignerInv
<1> DEFINE k == row[1]
           s == row[2]
<1>3. k \in Range(config) /\ s \in Status /\ row = <<k, s>>
  BY <1>1, <1>2 DEF SignerInv, Configured
<1>4. /\ k \in SigningKeys /\ signer'[k].status = s
      /\ \A l \in SigningKeys : l # k => signer'[l] = signer[l]
  <2>1. Configured /\ Upsert(k, s)
    BY <1>1 DEF SignerInv
  <2> HIDE DEF k, s
  <2>2. QED
    BY <1>3, <2>1, Written
<1>5. /\ task'[t].pc = task[t].pc /\ task'[t].rows = task[t].rows \ {row}
      /\ task'[t].key = task[t].key /\ task'[t].status = task[t].status
      /\ \A u \in Requests : u # t => task'[u] = task[u]
  BY <1>1, <1>2 DEF SignerInv, Configured, TypeOK
<1>6. Configured'
  BY WriteRowKeeps DEF SignerInv
<1>7. \A l \in SigningKeys : l # k => (KnownRetired(l)' <=> KnownRetired(l))
  BY <1>2, <1>4 DEF KnownRetired, Place
<1> HIDE DEF k, s
<1> SUFFICES AtMostOneActive' /\ TaskRight(t)'
  <2>1. Writing(t)
    BY <1>1 DEF WriteRow, Writing
  <2>2. QED
    BY <1>2, <1>5, <1>6, <2>1, OneMoves
<1>8. CASE task[t].pc = "sync"
  <2>1. SyncRight(t)
    BY <1>8 DEF SignerInv, TaskRight
  <2>2. /\ \A other \in task'[t].rows :
              other[1] # k /\ other[1] \in SigningKeys /\ other \in task[t].rows
        /\ k = row[1] /\ s = row[2]
    BY <1>1, <1>2, <1>5, <2>1 DEF SyncRight, k, s
  <2>3. /\ \A other \in task'[t].rows : signer'[other[1]] = NoRow
        /\ \A other, another \in task'[t].rows : other[1] = another[1] => other = another
    BY <1>4, <2>1, <2>2 DEF SyncRight
  <2>4. CASE s = "active"
    <3>1. WithStatus("active") = {} /\ k = config[1]
      BY <1>1, <2>1, <2>2, <2>4 DEF SyncRight
    <3>2. \A other \in task'[t].rows : other[2] # "active"
      BY <2>1, <2>2, <3>1 DEF SyncRight
    <3>3. AtMostOneActive'
      BY <1>4, <3>1 DEF AtMostOneActive, WithStatus
    <3>4. SyncRight(t)'
      BY <2>3, <3>2 DEF SyncRight
    <3>5. QED
      BY <1>5, <1>8, <3>3, <3>4 DEF TaskRight
  <2>5. CASE s # "active"
    <3>1. WithStatus("active")' \subseteq WithStatus("active")
      BY <1>4, <2>5 DEF WithStatus
    <3>2. AtMostOneActive'
      BY <3>1 DEF AtMostOneActive, SignerInv
    <3>3. SyncRight(t)'
      BY <1>2, <2>1, <2>2, <2>3, <3>1 DEF SyncRight
    <3>4. QED
      BY <1>5, <1>8, <3>2, <3>3 DEF TaskRight
  <2>6. QED
    BY <2>4, <2>5
<1>9. CASE task[t].pc = "others"
  <2>1. OthersRight(t)
    BY <1>9 DEF SignerInv, TaskRight
  <2>2. s = "staged" /\ row = <<k, "staged">> /\ k # task[t].key
    BY <1>1, <1>3, <2>1 DEF OthersRight, k, s
  <2>3. \A other \in task'[t].rows :
           other[1] # k /\ other[1] \in SigningKeys /\ other \in task[t].rows
    BY <1>2, <1>5, <2>1, <2>2 DEF OthersRight
  <2>4. WithStatus("active")' \subseteq WithStatus("active") \ {k}
    BY <1>4, <2>2 DEF WithStatus
  <2>5. AtMostOneActive'
    BY <2>4 DEF AtMostOneActive, SignerInv
  <2>6. \A other \in task'[t].rows :
           other[1] # task[t].key /\ other[2] = "staged" /\ ~KnownRetired(other[1])'
    BY <1>7, <2>1, <2>3 DEF OthersRight
  <2>7. \A l \in WithStatus("active")' : l = task[t].key \/ <<l, "staged">> \in task'[t].rows
    BY <1>5, <2>1, <2>2, <2>4 DEF OthersRight
  <2>8. OthersRight(t)'
    BY <1>5, <2>1, <2>6, <2>7 DEF OthersRight
  <2>9. QED
    BY <1>5, <1>9, <2>5, <2>8 DEF TaskRight
<1>10. CASE task[t].pc = "set"
  BY <1>1, <1>10 DEF SignerInv, TaskRight
<1>11. QED
  BY <1>2, <1>8, <1>9, <1>10

LEMMA SyncedRight ==
    ASSUME SignerInv, NEW t \in Requests, Synced(t)
    PROVE  SignerInv'
<1>1. PICK x : /\ task' = [task EXCEPT ![t] = x]
               /\ \/ x = NoTask
                  \/ /\ task[t].status = "active"
                     /\ x = [pc |-> "others", key |-> task[t].key, status |-> "active",
                             rows |-> OtherRows(task[t].key)]
                  \/ /\ task[t].status \in {"staged", "retired"}
                     /\ x = [pc |-> "set", key |-> task[t].key, status |-> task[t].status,
                             rows |-> {}]
  BY SyncedTo DEF SignerInv
<1>2. /\ task'[t] = x /\ UNCHANGED <<config, signer>>
      /\ \A u \in Requests : u # t => task'[u] = task[u]
  <2>1. Configured /\ task' = [task EXCEPT ![t] = x]
    BY <1>1 DEF SignerInv
  <2>2. UNCHANGED <<config, signer>>
    BY DEF Synced
  <2>3. QED
    BY <2>1, <2>2, TaskMoves
<1>3. Configured' /\ AtMostOneActive'
  BY <1>2, SyncedKeeps DEF SignerInv, AtMostOneActive, WithStatus
<1>4. ASSUME x.pc = "others"
      PROVE  OthersRight(t)'
  <2>1. x = [pc |-> "others", key |-> task[t].key, status |-> "active",
             rows |-> OtherRows(task[t].key)]
    BY <1>1, <1>4 DEF NoTask
  <2>2. \A row \in OtherRows(task[t].key) :
           row[1] # task[t].key /\ row[2] = "staged" /\ ~KnownRetired(row[1])
    BY DEF OtherRows
  <2>3. \A k \in WithStatus("active") : k \in Range(config) /\ ~KnownRetired(k)
    BY DEF WithStatus, KnownRetired, SignerInv, Configured, NoRow
  <2>4. \A k \in WithStatus("active") :
           k = task[t].key \/ <<k, "staged">> \in OtherRows(task[t].key)
    BY <2>3 DEF OtherRows
  <2>5. QED
    BY <1>2, <2>1, <2>2, <2>4 DEF OthersRight, WithStatus, KnownRetired, Place
<1>5. x.pc # "sync" /\ (x.pc = "set" => x.status # "active" /\ x.rows = {})
  BY <1>1 DEF NoTask
<1>6. TaskRight(t)'
  BY <1>2, <1>4, <1>5 DEF TaskRight
<1>7. QED
  BY <1>2, <1>3, <1>6, OneMoves

LEMMA SetStatusRight ==
    ASSUME SignerInv, WritersInTurn, NEW t \in Requests, SetStatus(t)
    PROVE  SignerInv'
<1> DEFINE k == task[t].key
           s == task[t].status
<1>1. Busy(t) /\ task[t].pc \in {"set", "others"}
  BY DEF SetStatus, Busy
<1>2. k \in Range(config) /\ s \in Status
  BY <1>1 DEF SignerInv, Configured
<1>3. /\ k \in SigningKeys /\ signer'[k].status = s
      /\ \A l \in SigningKeys : l # k => signer'[l] = signer[l]
  <2>1. Configured /\ Upsert(k, s)
    BY DEF SetStatus, SignerInv
  <2> HIDE DEF k, s
  <2>2. QED
    BY <1>2, <2>1, Written
<1>4. /\ task'[t] = NoTask /\ Configured' /\ config' = config
      /\ \A u \in Requests : u # t => task'[u] = task[u]
  BY TaskMoves, SetStatusKeeps DEF SetStatus, SignerInv
<1>5. AtMostOneActive'
  <2>1. CASE task[t].pc = "others"
    <3>1. task[t].rows = {} /\ OthersRight(t)
      BY <2>1 DEF SetStatus, SignerInv, TaskRight
    <3>2. WithStatus("active") \subseteq {k}
      BY <3>1 DEF OthersRight
    <3>3. QED
      BY <1>3, <3>2 DEF AtMostOneActive, WithStatus
  <2>2. CASE task[t].pc = "set"
    <3>1. s # "active"
      BY <2>2 DEF SignerInv, TaskRight
    <3>2. WithStatus("active")' \subseteq WithStatus("active")
      BY <1>3, <3>1 DEF WithStatus
    <3>3. QED
      BY <3>2 DEF SignerInv, AtMostOneActive
  <2>3. QED
    BY <1>1, <2>1, <2>2
<1>6. TaskRight(t)'
  BY <1>4 DEF TaskRight, NoTask
<1>7. Writing(t)
  BY <1>1, <1>2 DEF Busy, Writing, Status, NoTask
<1>8. QED
  BY <1>4, <1>5, <1>6, <1>7, OneMoves

LEMMA StepSigners == SignerInv /\ WritersInTurn /\ [Next]_vars => SignerInv'
<1> SUFFICES ASSUME SignerInv, WritersInTurn, [Next]_vars PROVE SignerInv'
  OBVIOUS
<1>1. Configured'
  BY StepConfigured DEF SignerInv
<1>2. ASSUME NEW t \in Requests, GiveUp(t)
      PROVE  SignerInv'
  <2>1. /\ task'[t] = NoTask /\ UNCHANGED <<config, signer>>
        /\ \A u \in Requests : u # t => task'[u] = task[u]
    BY <1>2, TaskMoves DEF GiveUp, SignerInv
  <2>2. AtMostOneActive' /\ TaskRight(t)'
    BY <2>1 DEF SignerInv, TaskRight, NoTask, AtMostOneActive, WithStatus
  <2>3. QED
    BY <1>1, <2>1, <2>2, OneMoves
<1>3. CASE Restart
  <2>1. UNCHANGED signer /\ \A t \in Requests : task'[t].pc = "idle"
    BY <1>3 DEF Restart, NoTask
  <2>2. QED
    BY <1>1, <2>1 DEF SignerInv, TaskRight, AtMostOneActive, WithStatus
<1>4. CASE UNCHANGED vars
  BY <1>1, <1>4 DEF vars, SignerInv, TaskRight, AtMostOneActive, WithStatus, SyncRight, OthersRight,
                    KnownRetired, Place
<1>5. QED
  BY <1>2, <1>3, <1>4, BeginRight, WriteRowRight, SyncedRight, SetStatusRight DEF Next

(* No two keys are ever active, however many there are, whichever requests *)
(* stop half way and however a restart orders them (trust/mod.rs).         *)
THEOREM OneKeyActive ==
    Spec /\ []WritersInTurn => []AtMostOneActive
<1>1. SignerInv /\ WritersInTurn /\ [Next]_vars => SignerInv'
  BY StepSigners
<1>2. SignerInv => AtMostOneActive
  BY DEF SignerInv
<1>3. QED
  BY <1>1, <1>2, InitSigners, PTL DEF Spec

(* A retired key comes back only by an operator's request for it, while it *)
(* keeps its place in the configuration.                                   *)
THEOREM RetiredKeysStand ==
    Spec /\ []WritersInTurn => RetiredStands
<1>1. SignerInv /\ WritersInTurn /\ [Next]_vars => SignerInv'
  BY StepSigners
<1>2. ASSUME SignerInv, [Next]_vars, NEW k \in WithStatus("retired"),
             signer'[k].status # "retired"
      PROVE  \/ \E t \in Requests : /\ task[t] # NoTask
                                    /\ task[t].key = k
                                    /\ task[t].status \in {"staged", "active"}
             \/ signer[k].place # Place(k)
  <2>1. k \in SigningKeys /\ signer[k].status = "retired"
    BY <1>2 DEF WithStatus
  <2>2. ASSUME NEW t \in Requests, WriteRow(t)
        PROVE  signer[k].place # Place(k)
    <3>1. PICK row \in task[t].rows : Upsert(row[1], row[2])
      BY <2>2 DEF WriteRow
    <3>2. row[1] \in Range(config) /\ row[2] \in Status /\ Busy(t)
      BY <1>2, <2>2, Holds DEF WriteRow, SignerInv, Configured
    <3>3. row[1] = k
      BY <1>2, <2>1, <3>1, <3>2, Written DEF SignerInv
    <3>4. task[t].pc # "sync"
      BY <1>2, <2>1, <3>1, <3>3 DEF SignerInv, TaskRight, SyncRight, NoRow
    <3>5. task[t].pc = "others"
      BY <1>2, <2>2, <3>1, <3>4, Holds DEF WriteRow, SignerInv, TaskRight
    <3>6. signer[k] # [status |-> "retired", place |-> Place(k)]
      BY <1>2, <3>1, <3>3, <3>5 DEF SignerInv, TaskRight, OthersRight, KnownRetired
    <3>7. signer[k] \in [status: Status, place: Nat] \cup {NoRow}
      BY <1>2, <2>1 DEF SignerInv, Configured, TypeOK
    <3>8. QED
      BY <2>1, <3>6, <3>7 DEF NoRow
  <2>3. ASSUME NEW t \in Requests, SetStatus(t)
        PROVE  /\ task[t] # NoTask
               /\ task[t].key = k
               /\ task[t].status \in {"staged", "active"}
    <3>1. Busy(t) /\ task[t].pc # "sync" /\ task[t] # NoTask
      BY <2>3 DEF SetStatus, Busy, NoTask
    <3>2. task[t].key \in Range(config) /\ task[t].status \in Status
      BY <1>2, <3>1 DEF SignerInv, Configured
    <3>3. Upsert(task[t].key, task[t].status)
      BY <2>3 DEF SetStatus
    <3>4. Configured
      BY <1>2 DEF SignerInv
    <3>5. task[t].key = k
      BY <1>2, <2>1, <3>2, <3>3, <3>4, Written
    <3>6. signer'[k].status = task[t].status
      BY <3>2, <3>3, <3>4, <3>5, Written
    <3>7. QED
      BY <1>2, <3>1, <3>2, <3>5, <3>6 DEF Status
  <2>4. QED
    BY <1>2, <2>1, <2>2, <2>3 DEF Next, Begin, Synced, GiveUp, Restart, vars
<1>3. SignerInv /\ [Next]_vars =>
        [\A k \in WithStatus("retired") :
            signer'[k].status # "retired" =>
                \/ \E t \in Requests : /\ task[t] # NoTask
                                       /\ task[t].key = k
                                       /\ task[t].status \in {"staged", "active"}
                \/ signer[k].place # Place(k)]_vars
  BY <1>2
<1>4. QED
  BY <1>1, <1>3, InitSigners, PTL DEF Spec, RetiredStands
=============================================================================
