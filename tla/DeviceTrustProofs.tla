-------------------------- MODULE DeviceTrustProofs --------------------------
(***************************************************************************)
(* However the requests for a device overwrite each other's rows, a device *)
(* that may get jobs has a key that is not revoked for it: each row that   *)
(* some request is about to write is sound, because it was computed from a *)
(* sound one.                                                              *)
(***************************************************************************)
EXTENDS DeviceTrust, TLAPS

(* What the pure functions on trust metadata keep.                         *)
LEMMA DefaultSound == DefaultTrust \in Trust /\ Sound(DefaultTrust)
BY TrustAssumption DEF DefaultTrust, Trust, Status, MaybeKey, Sound, CurrentKey

LEMMA LegacySound ==
    ASSUME NEW key \in MaybeKey
    PROVE  /\ LegacyTrust(key) \in Trust
           /\ Sound(LegacyTrust(key))
           /\ LegacyTrust(key).status = "untrusted"
BY TrustAssumption
   DEF LegacyTrust, DefaultTrust, Trust, Status, MaybeKey, Sound, CurrentKey

(* Normalising makes the key explicit, for a row that is not revoked.      *)
LEMMA NormalizedSound ==
    ASSUME NEW m \in Trust, Sound(m)
    PROVE  /\ Normalized(m) \in Trust
           /\ Normalized(m).key = CurrentKey(m)
           /\ Normalized(m).revokedAt = m.revokedAt
           /\ Normalized(m).revokedKeys = m.revokedKeys
           /\ Sound(Normalized(m))
<1>1. CurrentKey(m) \in MaybeKey
  BY DEF CurrentKey, Trust
<1>2. Normalized(m) \in Trust
  BY <1>1 DEF Normalized, Trust, Status
<1>3. /\ Normalized(m).key = CurrentKey(m)
      /\ Normalized(m).revokedAt = m.revokedAt
      /\ Normalized(m).revokedKeys = m.revokedKeys
      /\ Normalized(m).legacyKey = m.legacyKey
  BY DEF Normalized, Trust
<1>4. CurrentKey(Normalized(m)) = CurrentKey(m)
  BY <1>3 DEF CurrentKey
<1>5. ~m.revokedAt /\ Normalized(m).status # "untrusted" => CurrentKey(m) # NoKey
  BY DEF Normalized, Sound, Trust
<1>6. QED
  BY <1>2, <1>3, <1>4, <1>5 DEF Sound

(* A row that is written has its key in place, and only that counts.       *)
LEMMA FinalizedSound ==
    ASSUME NEW m \in Trust,
           ~m.revokedAt => /\ m.key \notin m.revokedKeys
                           /\ m.status # "untrusted" => m.key # NoKey
    PROVE  /\ Finalized(m) \in Trust
           /\ Sound(Finalized(m))
           /\ Finalized(m).legacyKey = NoKey
<1>1. Finalized(m) \in Trust
  BY DEF Finalized, Stored, Trust, MaybeKey
<1>2. /\ Finalized(m).key = m.key /\ Finalized(m).legacyKey = NoKey
      /\ Finalized(m).status = m.status
      /\ Finalized(m).revokedAt = m.revokedAt
      /\ Finalized(m).revokedKeys = m.revokedKeys
  BY DEF Finalized, Stored, Trust
<1>3. CurrentKey(Finalized(m)) = m.key
  BY <1>2 DEF CurrentKey
<1>4. QED
  BY <1>1, <1>2, <1>3 DEF Sound

(* A probed row loses its legacy key, and with it its trust.               *)
LEMMA StoredSound ==
    ASSUME NEW m \in Trust, Sound(m), m.legacyKey # NoKey => m.status = "untrusted"
    PROVE  /\ Stored(m) \in Trust
           /\ Sound(Stored(m))
           /\ Stored(m).legacyKey = NoKey
<1>1. /\ Stored(m) \in Trust
      /\ Stored(m).key = m.key /\ Stored(m).legacyKey = NoKey
      /\ Stored(m).status = m.status
      /\ Stored(m).revokedAt = m.revokedAt
      /\ Stored(m).revokedKeys = m.revokedKeys
  BY DEF Stored, Trust, MaybeKey
<1>2. CurrentKey(Stored(m)) = m.key
  BY <1>1 DEF CurrentKey
<1>3. NoKey \notin m.revokedKeys
  BY TrustAssumption DEF Trust
<1>4. m.key = CurrentKey(m) \/ (m.key = NoKey /\ m.legacyKey # NoKey)
  BY DEF CurrentKey
<1>5. QED
  BY <1>1, <1>2, <1>3, <1>4 DEF Sound
-----------------------------------------------------------------------------
Inv == TypeOK /\ RowsSound

LEMMA LoadedSound ==
    ASSUME Inv, NEW v \in Devices
    PROVE  /\ Loaded(v) \in Trust
           /\ ~Loaded(v).revokedAt =>
                 /\ Loaded(v).key \notin Loaded(v).revokedKeys
                 /\ Loaded(v).status # "untrusted" => Loaded(v).key # NoKey
           /\ Loaded(v).revokedAt => row[v] # NoRow
<1>1. CASE row[v] = NoRow
  <2>1. Loaded(v) = DefaultTrust
    BY <1>1 DEF Loaded
  <2>2. /\ DefaultTrust.status = "untrusted" /\ DefaultTrust.revokedKeys = {}
        /\ DefaultTrust.revokedAt = FALSE
    BY DEF DefaultTrust
  <2>3. QED
    BY <2>1, <2>2, DefaultSound
<1>2. CASE row[v] # NoRow
  <2>1. row[v] \in Trust /\ Sound(row[v])
    BY <1>2 DEF Inv, TypeOK, RowsSound
  <2>2. Loaded(v) = Normalized(row[v])
    BY <1>2 DEF Loaded
  <2>3. /\ Loaded(v) \in Trust
        /\ Loaded(v).key = CurrentKey(row[v])
        /\ Loaded(v).revokedAt = row[v].revokedAt
        /\ Loaded(v).revokedKeys = row[v].revokedKeys
        /\ Sound(Loaded(v))
    BY <2>1, <2>2, NormalizedSound
  <2>4. Loaded(v).key # NoKey => CurrentKey(Loaded(v)) = Loaded(v).key
    BY DEF CurrentKey
  <2>5. Loaded(v).key = NoKey => /\ row[v].legacyKey = NoKey
                                 /\ Loaded(v).legacyKey = NoKey
    BY <2>1, <2>2, <2>3 DEF CurrentKey, Normalized, Trust
  <2>6. CurrentKey(Loaded(v)) = Loaded(v).key
    BY <2>4, <2>5 DEF CurrentKey
  <2>7. QED
    BY <1>2, <2>3, <2>6 DEF Sound
<1>3. QED
  BY <1>1, <1>2

LEMMA BeginKeepsInv ==
    ASSUME Inv, NEW t \in Requests, NEW op \in Operation, NEW v \in Devices,
           NEW next \in Trust, Sound(next), next.legacyKey = NoKey,
           Begin(t, op, v, next)
    PROVE  Inv'
<1>1. request' \in [Requests ->
          [op: Operation, device: Devices, next: Trust] \cup {NoRequest}]
  BY DEF Begin, Inv, TypeOK
<1>2. \A u \in Requests : request'[u] = IF u = t THEN [op |-> op, device |-> v, next |-> next]
                                                 ELSE request[u]
  BY DEF Begin, Inv, TypeOK
<1>3. QED
  BY <1>1, <1>2 DEF Begin, Inv, TypeOK, RowsSound

LEMMA WriteKeepsInv ==
    ASSUME Inv, NEW t \in Requests, Write(t)
    PROVE  Inv'
<1>1. PICK held \in [op: Operation, device: Devices, next: Trust] : request[t] = held
  BY DEF Write, Inv, TypeOK
<1>2. Sound(held.next) /\ held.next.legacyKey = NoKey
  BY <1>1 DEF Write, Inv, RowsSound
<1>3. row' = [row EXCEPT ![held.device] = held.next]
  BY <1>1 DEF Write
<1>4. row' \in [Devices -> Trust \cup {NoRow}] /\ \A v \in Devices :
          row'[v] = IF v = held.device THEN held.next ELSE row[v]
  BY <1>1, <1>3 DEF Inv, TypeOK
<1>5. /\ request' \in [Requests ->
             [op: Operation, device: Devices, next: Trust] \cup {NoRequest}]
      /\ \A u \in Requests : request'[u] # NoRequest => request'[u] = request[u]
  BY DEF Write, Inv, TypeOK
<1>6. unconfirmed' \in [Devices -> SUBSET MaybeKey]
  <2>1. unconfirmed \in [Devices -> SUBSET MaybeKey] /\ held.device \in Devices
    BY <1>1 DEF Inv, TypeOK
  <2>2. CASE request[t].op = "rotate"
    <3>1. unconfirmed' = [unconfirmed EXCEPT ![held.device] =
                            unconfirmed[held.device] \cup {held.next.key}]
      BY <1>1, <2>2 DEF Write
    <3>2. held.next.key \in MaybeKey
      BY DEF Trust
    <3>3. QED
      BY <2>1, <3>1, <3>2
  <2>3. QED
    BY <2>1, <2>2 DEF Write
<1>7. QED
  BY <1>2, <1>4, <1>5, <1>6 DEF Inv, TypeOK, RowsSound
-----------------------------------------------------------------------------
LEMMA InitSound == Init => Inv
<1> SUFFICES ASSUME Init PROVE Inv
  OBVIOUS
<1>1. \A v \in Devices : row[v] # NoRow =>
          row[v] \in Trust /\ Sound(row[v]) /\ row[v].status = "untrusted"
  <2> SUFFICES ASSUME NEW v \in Devices, row[v] # NoRow
               PROVE  row[v] \in Trust /\ Sound(row[v]) /\ row[v].status = "untrusted"
    OBVIOUS
  <2>1. PICK key \in MaybeKey : row[v] = LegacyTrust(key)
    BY DEF Init
  <2>2. QED
    BY <2>1, LegacySound
<1>2. row \in [Devices -> Trust \cup {NoRow}]
  BY LegacySound DEF Init
<1>3. QED
  BY <1>1, <1>2 DEF Init, Inv, TypeOK, RowsSound

(* Each request decides on a sound row.                                    *)
LEMMA DecisionsSound ==
    ASSUME Inv, NEW t \in Requests,
           \/ RegisterWithProof(t) \/ RegisterWithoutProof(t) \/ ProbeDevice(t)
           \/ RevokeTrust(t) \/ ConfirmRotation(t) \/ ResolveAttention(t)
           \/ ClearRevocation(t)
    PROVE  Inv'
<1>1. CASE RegisterWithProof(t)
  <2>1. PICK v \in Devices, proof \in Proof :
           /\ Accepts(Loaded(v), proof)
           /\ Begin(t, IF Rotates(Loaded(v), proof) THEN "rotate" ELSE "register", v,
                    Finalized(Proven(Loaded(v), proof)))
    BY <1>1 DEF RegisterWithProof
  <2> DEFINE m == Proven(Loaded(v), proof)
  <2>2. proof.key \in Keys
    BY DEF Proof
  <2>3. /\ m \in Trust /\ m.key = proof.key /\ m.revokedKeys = Loaded(v).revokedKeys
    BY <2>2, LoadedSound DEF Proven, Trust, MaybeKey, Status
  <2>4. m.key \notin m.revokedKeys /\ m.key # NoKey
    BY <2>1, <2>2, <2>3, TrustAssumption DEF Accepts
  <2>5. (IF Rotates(Loaded(v), proof) THEN "rotate" ELSE "register") \in Operation
    BY DEF Operation
  <2> HIDE DEF m
  <2>6. Finalized(m) \in Trust /\ Sound(Finalized(m)) /\ Finalized(m).legacyKey = NoKey
    BY <2>3, <2>4, FinalizedSound
  <2>7. QED
    BY <2>1, <2>5, <2>6, BeginKeepsInv DEF m
<1>2. CASE RegisterWithoutProof(t)
  <2>1. PICK v \in Devices : Begin(t, "register", v, Finalized(Unproven(Loaded(v))))
    BY <1>2 DEF RegisterWithoutProof
  <2> DEFINE m == Unproven(Loaded(v))
  <2>2. /\ m \in Trust /\ m.key = Loaded(v).key /\ m.revokedAt = Loaded(v).revokedAt
        /\ m.revokedKeys = Loaded(v).revokedKeys
        /\ m.key = NoKey /\ ~m.revokedAt => m.status = "untrusted"
    BY LoadedSound DEF Unproven, Trust, Status
  <2> HIDE DEF m
  <2>3. Finalized(m) \in Trust /\ Sound(Finalized(m)) /\ Finalized(m).legacyKey = NoKey
    BY <2>2, LoadedSound, FinalizedSound
  <2>4. QED
    BY <2>1, <2>3, BeginKeepsInv DEF m, Operation
<1>3. CASE ProbeDevice(t)
  <2>1. PICK v \in Devices : row[v] # NoRow /\ Begin(t, "probe", v, Stored(row[v]))
    BY <1>3 DEF ProbeDevice
  <2>2. /\ Stored(row[v]) \in Trust
        /\ Sound(Stored(row[v]))
        /\ Stored(row[v]).legacyKey = NoKey
    BY <2>1, StoredSound DEF Inv, TypeOK, RowsSound
  <2>3. QED
    BY <2>1, <2>2, BeginKeepsInv DEF Operation
<1>4. CASE RevokeTrust(t)
  <2>1. PICK v \in Devices, key \in Keys :
           Begin(t, "revoke", v,
                 Finalized([Loaded(v) EXCEPT !.revokedKeys = @ \cup {key},
                                             !.status = "revoked", !.revokedAt = TRUE]))
    BY <1>4 DEF RevokeTrust
  <2> DEFINE m == [Loaded(v) EXCEPT !.revokedKeys = @ \cup {key},
                                    !.status = "revoked", !.revokedAt = TRUE]
  <2>2. m \in Trust /\ m.revokedAt
    BY LoadedSound DEF Trust, Status
  <2> HIDE DEF m
  <2>3. Finalized(m) \in Trust /\ Sound(Finalized(m)) /\ Finalized(m).legacyKey = NoKey
    BY <2>2, FinalizedSound
  <2>4. QED
    BY <2>1, <2>3, BeginKeepsInv DEF m, Operation
<1>5. CASE ConfirmRotation(t) \/ ResolveAttention(t)
  <2>1. PICK v \in Devices, op \in {"confirm", "resolve"} :
           /\ Loaded(v).status \in {"rotated", "needs_attention"}
           /\ Begin(t, op, v, Finalized(MakeTrusted(Loaded(v))))
    BY <1>5 DEF ConfirmRotation, ResolveAttention, AdminAction
  <2> DEFINE m == MakeTrusted(Loaded(v))
  <2>2. ~Loaded(v).revokedAt
    <3>1. row[v] # NoRow => row[v] \in Trust
      BY DEF Inv, TypeOK
    <3>2. row[v] # NoRow /\ Loaded(v).revokedAt => Loaded(v).status = "revoked"
      BY <3>1 DEF Loaded, Normalized, Trust
    <3>3. QED
      BY <2>1, <3>2, LoadedSound
  <2>3. /\ m \in Trust /\ m.key = Loaded(v).key /\ m.revokedKeys = Loaded(v).revokedKeys
    BY LoadedSound DEF MakeTrusted, Trust, Status
  <2>4. m.key \notin m.revokedKeys /\ m.key # NoKey
    BY <2>1, <2>2, <2>3, LoadedSound
  <2> HIDE DEF m
  <2>5. Finalized(m) \in Trust /\ Sound(Finalized(m)) /\ Finalized(m).legacyKey = NoKey
    BY <2>3, <2>4, FinalizedSound
  <2>6. QED
    BY <2>1, <2>5, BeginKeepsInv DEF m, Operation
<1>6. CASE ClearRevocation(t)
  <2>1. PICK v \in Devices : Begin(t, "clear", v, Finalized(MakeUntrusted(Loaded(v))))
    BY <1>6 DEF ClearRevocation, AdminAction
  <2> DEFINE m == MakeUntrusted(Loaded(v))
  <2>2. m \in Trust /\ m.key = NoKey /\ m.status = "untrusted"
    BY LoadedSound DEF MakeUntrusted, Trust, Status, MaybeKey
  <2>3. NoKey \notin m.revokedKeys
    BY <2>2, TrustAssumption DEF Trust
  <2> HIDE DEF m
  <2>4. Finalized(m) \in Trust /\ Sound(Finalized(m)) /\ Finalized(m).legacyKey = NoKey
    BY <2>2, <2>3, FinalizedSound
  <2>5. QED
    BY <2>1, <2>4, BeginKeepsInv DEF m, Operation
<1>7. QED
  BY <1>1, <1>2, <1>3, <1>4, <1>5, <1>6

LEMMA StepSound == Inv /\ [Next]_vars => Inv'
<1> SUFFICES ASSUME Inv, [Next]_vars PROVE Inv'
  OBVIOUS
<1>1. ASSUME NEW t \in Requests, GiveUp(t) PROVE Inv'
  <2>1. \A u \in Requests : request'[u] # NoRequest => request'[u] = request[u]
    BY <1>1 DEF GiveUp, Inv, TypeOK
  <2>2. QED
    BY <1>1, <2>1 DEF GiveUp, Inv, TypeOK, RowsSound
<1>2. CASE UNCHANGED vars
  BY <1>2 DEF vars, Inv, TypeOK, RowsSound
<1>3. QED
  BY <1>1, <1>2, DecisionsSound, WriteKeepsInv DEF Next

(* Rows, requests and history keep their types.                            *)
THEOREM TrustTypeCorrect == Spec => []TypeOK
<1>1. Inv => TypeOK
  BY DEF Inv
<1>2. QED
  BY <1>1, InitSound, StepSound, PTL DEF Spec

(* Whichever of two requests writes a row last, the row is sound in itself.*)
THEOREM RowsStaySound == Spec => []RowsSound
<1>1. Inv => RowsSound
  BY DEF Inv
<1>2. QED
  BY <1>1, InitSound, StepSound, PTL DEF Spec

(* No interleaving of registrations, probes, revocations and operators'    *)
(* actions makes a device dispatchable without a key, or with one that is  *)
(* revoked for it.                                                         *)
THEOREM DispatchNeedsSoundKey == Spec => []DispatchableKeySound
<1>1. Inv => DispatchableKeySound
  <2> SUFFICES ASSUME Inv, NEW v \in Devices, Dispatchable(v)
               PROVE  CurrentKey(row[v]) \in Keys \ row[v].revokedKeys
    BY DEF DispatchableKeySound
  <2>1. row[v] \in Trust /\ Sound(row[v])
    BY DEF Dispatchable, Inv, TypeOK, RowsSound
  <2>2. ~row[v].revokedAt /\ (row[v].status = "untrusted" => CurrentKey(row[v]) # NoKey)
    BY <2>1 DEF Dispatchable, Normalized, Trust
  <2>3. CurrentKey(row[v]) \in MaybeKey
    BY <2>1 DEF CurrentKey, Trust
  <2>4. QED
    BY <2>1, <2>2, <2>3 DEF Sound, MaybeKey
<1>2. QED
  BY <1>1, InitSound, StepSound, PTL DEF Spec
-----------------------------------------------------------------------------
(* Requests for a device one at a time, which is up to the clients: the    *)
(* code keeps no two of them apart.  Then the row a request writes is      *)
(* decided on the row it replaces, which the invariant InTurn says of each *)
(* field that counts: Follows of the revocation, Awaits of the             *)
(* confirmation.                                                           *)

RequestsInTurn == \A t, u \in Requests :
    request[t] # NoRequest /\ request[u] # NoRequest
    /\ request[t].device = request[u].device => t = u

(* next may replace m, by a request op.                                    *)
Follows(op, m, next) == m # NoRow =>
    /\ m.revokedKeys \subseteq next.revokedKeys
    /\ m.revokedAt => op = "clear" \/ next.revokedAt

(* A key that is not confirmed is not trusted, and it is not forgotten that*)
(* it is not as long as the device has a key: where registrations have to  *)
(* be proven.                                                              *)
Awaits(m, keys) == RequireProof =>
    /\ m.key \in keys => m.status \in {"rotated", "revoked"}
    /\ m.key = NoKey => keys = {}
    /\ m.status = "revoked" => m.revokedAt

(* What is unconfirmed once a request op has written next.                 *)
UnconfirmedBy(op, next, keys) ==
    CASE op = "rotate" -> keys \cup {next.key}
      [] op \in {"confirm", "resolve"} -> keys \ {next.key}
      [] op = "clear" -> {}
      [] OTHER -> keys

InTurn ==
    /\ \A v \in Devices :
          /\ row[v] = NoRow => unconfirmed[v] = {}
          /\ row[v] # NoRow => Awaits(row[v], unconfirmed[v])
    /\ \A t \in Requests : request[t] # NoRequest =>
          LET q == request[t] IN
          /\ Follows(q.op, row[q.device], q.next)
          /\ Awaits(q.next, UnconfirmedBy(q.op, q.next, unconfirmed[q.device]))

LEMMA InitInTurn == Init => InTurn
<1> SUFFICES ASSUME Init PROVE InTurn
  OBVIOUS
<1>1. ASSUME NEW v \in Devices, row[v] # NoRow
      PROVE  Awaits(row[v], unconfirmed[v])
  <2>1. PICK key \in MaybeKey : row[v] = LegacyTrust(key)
    BY <1>1 DEF Init
  <2>2. row[v].status = "untrusted" /\ unconfirmed[v] = {}
    BY <2>1 DEF Init, LegacyTrust, DefaultTrust
  <2>3. QED
    BY <2>2 DEF Awaits
<1>2. \A t \in Requests : request[t] = NoRequest
  BY DEF Init
<1>3. QED
  BY <1>1, <1>2 DEF InTurn, Init

(* The row as a request works on it: like the row in the table.            *)
LEMMA LoadedInTurn ==
    ASSUME Inv, InTurn, NEW v \in Devices
    PROVE  /\ Follows("none", row[v], Loaded(v))
           /\ Awaits(Loaded(v), unconfirmed[v])
           /\ Loaded(v).revokedAt => Loaded(v).status = "revoked"
<1>1. CASE row[v] = NoRow
  <2>1. /\ Loaded(v).status = "untrusted" /\ ~Loaded(v).revokedAt
        /\ unconfirmed[v] = {}
    BY <1>1 DEF Loaded, DefaultTrust, InTurn
  <2>2. QED
    BY <1>1, <2>1 DEF Follows, Awaits
<1>2. CASE row[v] # NoRow
  <2>1. /\ row[v] \in Trust /\ Sound(row[v]) /\ Awaits(row[v], unconfirmed[v])
        /\ Loaded(v) = Normalized(row[v])
    BY <1>2 DEF Inv, TypeOK, RowsSound, InTurn, Loaded
  <2>2. /\ Loaded(v).key = CurrentKey(row[v])
        /\ Loaded(v).revokedAt = row[v].revokedAt
        /\ Loaded(v).revokedKeys = row[v].revokedKeys
    BY <2>1, NormalizedSound
  <2>3. /\ Loaded(v).revokedAt => Loaded(v).status = "revoked"
        /\ Loaded(v).status = "revoked" => row[v].revokedAt \/ row[v].status = "revoked"
        /\ row[v].status \in {"rotated", "revoked"} =>
              Loaded(v).status \in {"rotated", "revoked"}
    BY <2>1 DEF Normalized, Trust
  <2>4. RequireProof /\ Loaded(v).key \in unconfirmed[v] => row[v].key \in unconfirmed[v]
    BY <2>1, <2>2 DEF CurrentKey, Awaits
  <2>5. Loaded(v).key = NoKey => row[v].key = NoKey
    BY <2>2 DEF CurrentKey
  <2>6. QED
    BY <2>1, <2>2, <2>3, <2>4, <2>5 DEF Follows, Awaits
<1>3. QED
  BY <1>1, <1>2

LEMMA BeginInTurn ==
    ASSUME Inv, InTurn, NEW t \in Requests, NEW op \in Operation, NEW v \in Devices,
           NEW next \in Trust, Begin(t, op, v, next),
           Follows(op, row[v], next),
           Awaits(next, UnconfirmedBy(op, next, unconfirmed[v]))
    PROVE  InTurn'
<1>1. \A u \in Requests : request'[u] = IF u = t THEN [op |-> op, device |-> v, next |-> next]
                                                 ELSE request[u]
  BY DEF Begin, Inv, TypeOK
<1>2. row' = row /\ unconfirmed' = unconfirmed
  BY DEF Begin
<1>3. ASSUME NEW u \in Requests, request'[u] # NoRequest
      PROVE  LET q == request'[u] IN
             /\ Follows(q.op, row[q.device], q.next)
             /\ Awaits(q.next, UnconfirmedBy(q.op, q.next, unconfirmed[q.device]))
  <2>1. CASE u = t
    <3>1. request'[u] = [op |-> op, device |-> v, next |-> next]
      BY <1>1, <2>1
    <3>2. QED
      BY <3>1
  <2>2. CASE u # t
    <3>1. request'[u] = request[u]
      BY <1>1, <2>2
    <3>2. QED
      BY <1>3, <3>1 DEF InTurn
  <2>3. QED
    BY <2>1, <2>2
<1>4. QED
  BY <1>2, <1>3 DEF InTurn

(* What each request decides may replace the row it has loaded.            *)
LEMMA DecisionsInTurn ==
    ASSUME Inv, InTurn, NEW t \in Requests,
           \/ RegisterWithProof(t) \/ RegisterWithoutProof(t) \/ ProbeDevice(t)
           \/ RevokeTrust(t) \/ ConfirmRotation(t) \/ ResolveAttention(t)
           \/ ClearRevocation(t)
    PROVE  InTurn'
<1>1. CASE RegisterWithProof(t)
  <2>1. PICK v \in Devices, proof \in Proof :
           /\ Accepts(Loaded(v), proof)
           /\ Begin(t, IF Rotates(Loaded(v), proof) THEN "rotate" ELSE "register", v,
                    Finalized(Proven(Loaded(v), proof)))
    BY <1>1 DEF RegisterWithProof
  <2> DEFINE next == Finalized(Proven(Loaded(v), proof))
             op == IF Rotates(Loaded(v), proof) THEN "rotate" ELSE "register"
  <2>2. Loaded(v) \in Trust /\ proof.key \in Keys /\ proof.key # NoKey
    BY LoadedSound, TrustAssumption DEF Proof
  <2>3. /\ next \in Trust
        /\ next.key = proof.key /\ next.revokedKeys = Loaded(v).revokedKeys
        /\ next.status = IF \/ Rotates(Loaded(v), proof)
                            \/ Loaded(v).key # NoKey /\ Loaded(v).status = "rotated"
                         THEN "rotated" ELSE "trusted"
    BY <2>2 DEF Finalized, Stored, Proven, Trust, MaybeKey, Status
  <2>4. ~Loaded(v).revokedAt
    BY <2>1 DEF Accepts
  <2>5. Follows(op, row[v], next)
    BY <2>3, <2>4, LoadedInTurn DEF Follows
  <2>6. CASE Rotates(Loaded(v), proof)
    <3>1. op = "rotate" /\ next.status = "rotated"
      BY <2>3, <2>6
    <3>2. Awaits(next, UnconfirmedBy(op, next, unconfirmed[v]))
      BY <2>2, <2>3, <3>1 DEF Awaits, UnconfirmedBy
    <3>3. QED
      BY <2>1, <2>3, <2>5, <3>1, <3>2, BeginInTurn DEF Operation
  <2>7. CASE ~Rotates(Loaded(v), proof)
    <3>1. op = "register" /\ UnconfirmedBy(op, next, unconfirmed[v]) = unconfirmed[v]
      BY <2>7 DEF UnconfirmedBy
    <3>2. RequireProof /\ Loaded(v).key = NoKey => unconfirmed[v] = {}
      BY LoadedInTurn DEF Awaits
    <3>3. RequireProof /\ next.key \in unconfirmed[v] =>
             Loaded(v).status = "rotated" /\ Loaded(v).key # NoKey
      BY <2>3, <2>4, <2>7, <3>2, LoadedInTurn DEF Awaits, Rotates
    <3>4. Awaits(next, UnconfirmedBy(op, next, unconfirmed[v]))
      BY <2>2, <2>3, <3>1, <3>3 DEF Awaits
    <3>5. QED
      BY <2>1, <2>3, <2>5, <3>1, <3>4, BeginInTurn DEF Operation
  <2>8. QED
    BY <2>6, <2>7
<1>2. CASE RegisterWithoutProof(t)
  <2>1. PICK v \in Devices :
           ~RequireProof /\ Begin(t, "register", v, Finalized(Unproven(Loaded(v))))
    BY <1>2 DEF RegisterWithoutProof
  <2> DEFINE next == Finalized(Unproven(Loaded(v)))
  <2>2. /\ next \in Trust
        /\ next.revokedAt = Loaded(v).revokedAt /\ next.revokedKeys = Loaded(v).revokedKeys
    BY LoadedSound DEF Finalized, Stored, Unproven, Trust, MaybeKey, Status
  <2> HIDE DEF next
  <2>3. Awaits(next, UnconfirmedBy("register", next, unconfirmed[v]))
    BY <2>1 DEF Awaits
  <2>4. Follows("register", row[v], next)
    BY <2>2, LoadedInTurn DEF Follows
  <2>5. QED
    BY <2>1, <2>2, <2>3, <2>4, BeginInTurn DEF Operation, next
<1>3. CASE ProbeDevice(t)
  <2>1. PICK v \in Devices : row[v] # NoRow /\ Begin(t, "probe", v, Stored(row[v]))
    BY <1>3 DEF ProbeDevice
  <2> DEFINE next == Stored(row[v])
  <2>2. /\ next \in Trust
        /\ next.key = row[v].key /\ next.status = row[v].status
        /\ next.revokedAt = row[v].revokedAt /\ next.revokedKeys = row[v].revokedKeys
    BY <2>1 DEF Inv, TypeOK, Stored, Trust, MaybeKey
  <2>3. Awaits(row[v], unconfirmed[v])
    BY <2>1 DEF InTurn
  <2>4. Awaits(next, UnconfirmedBy("probe", next, unconfirmed[v]))
    BY <2>2, <2>3 DEF Awaits, UnconfirmedBy
  <2>5. Follows("probe", row[v], next)
    BY <2>2 DEF Follows
  <2> HIDE DEF next
  <2>6. QED
    BY <2>1, <2>2, <2>4, <2>5, BeginInTurn DEF Operation, next
<1>4. CASE RevokeTrust(t)
  <2>1. PICK v \in Devices, key \in Keys :
           Begin(t, "revoke", v,
                 Finalized([Loaded(v) EXCEPT !.revokedKeys = @ \cup {key},
                                             !.status = "revoked", !.revokedAt = TRUE]))
    BY <1>4 DEF RevokeTrust
  <2> DEFINE next == Finalized([Loaded(v) EXCEPT !.revokedKeys = @ \cup {key},
                                             !.status = "revoked", !.revokedAt = TRUE])
  <2>2. /\ next \in Trust /\ next.key = Loaded(v).key
        /\ next.revokedKeys = Loaded(v).revokedKeys \cup {key}
        /\ next.status = "revoked" /\ next.revokedAt
    BY LoadedSound DEF Finalized, Stored, Trust, MaybeKey, Status
  <2> HIDE DEF next
  <2>3. Awaits(next, UnconfirmedBy("revoke", next, unconfirmed[v]))
    BY <2>2, LoadedInTurn DEF Awaits, UnconfirmedBy
  <2>4. Follows("revoke", row[v], next)
    BY <2>2, LoadedInTurn DEF Follows
  <2>5. QED
    BY <2>1, <2>2, <2>3, <2>4, BeginInTurn DEF Operation, next
<1>5. CASE ConfirmRotation(t) \/ ResolveAttention(t)
  <2>1. PICK v \in Devices, op \in {"confirm", "resolve"} :
           /\ Loaded(v).status \in {"rotated", "needs_attention"}
           /\ Begin(t, op, v, Finalized(MakeTrusted(Loaded(v))))
    BY <1>5 DEF ConfirmRotation, ResolveAttention, AdminAction
  <2> DEFINE next == Finalized(MakeTrusted(Loaded(v)))
  <2>2. /\ next \in Trust /\ next.key = Loaded(v).key
        /\ next.revokedKeys = Loaded(v).revokedKeys /\ next.status = "trusted"
    BY LoadedSound DEF Finalized, Stored, MakeTrusted, Trust, MaybeKey, Status
  <2>3. ~Loaded(v).revokedAt
    BY <2>1, LoadedInTurn
  <2> HIDE DEF next
  <2>4. UnconfirmedBy(op, next, unconfirmed[v]) = unconfirmed[v] \ {next.key}
    BY <2>1 DEF UnconfirmedBy
  <2>5. Awaits(next, UnconfirmedBy(op, next, unconfirmed[v]))
    BY <2>2, <2>4, LoadedInTurn DEF Awaits
  <2>6. Follows(op, row[v], next)
    BY <2>2, <2>3, LoadedInTurn DEF Follows
  <2>7. QED
    BY <2>1, <2>2, <2>5, <2>6, BeginInTurn DEF Operation, next
<1>6. CASE ClearRevocation(t)
  <2>1. PICK v \in Devices : Begin(t, "clear", v, Finalized(MakeUntrusted(Loaded(v))))
    BY <1>6 DEF ClearRevocation, AdminAction
  <2> DEFINE next == Finalized(MakeUntrusted(Loaded(v)))
  <2>2. /\ next \in Trust /\ next.status = "untrusted"
        /\ next.revokedKeys = Loaded(v).revokedKeys
    BY LoadedSound DEF Finalized, Stored, MakeUntrusted, Trust, Status, MaybeKey
  <2> HIDE DEF next
  <2>3. Awaits(next, UnconfirmedBy("clear", next, unconfirmed[v]))
    BY <2>2 DEF Awaits, UnconfirmedBy
  <2>4. Follows("clear", row[v], next)
    BY <2>2, LoadedInTurn DEF Follows
  <2>5. QED
    BY <2>1, <2>2, <2>3, <2>4, BeginInTurn DEF Operation, next
<1>7. QED
  BY <1>1, <1>2, <1>3, <1>4, <1>5, <1>6

(* The write: the row is the one in hand, and no other request has one.    *)
LEMMA WriteInTurn ==
    ASSUME Inv, InTurn, RequestsInTurn, NEW t \in Requests, Write(t)
    PROVE  /\ InTurn'
           /\ \A v \in Devices : row[v] # NoRow => Follows(request[t].op, row[v], row'[v])
<1>1. PICK held \in [op: Operation, device: Devices, next: Trust] : request[t] = held
  BY DEF Write, Inv, TypeOK
<1>2. /\ Follows(held.op, row[held.device], held.next)
      /\ Awaits(held.next, UnconfirmedBy(held.op, held.next, unconfirmed[held.device]))
  BY <1>1 DEF Write, InTurn
<1>3. /\ held.next # NoRow
      /\ \A v \in Devices : row'[v] = IF v = held.device THEN held.next ELSE row[v]
  BY <1>1 DEF Write, Inv, TypeOK, Trust, NoRow
<1>4. \A u \in Requests : request'[u] # NoRequest =>
         request'[u] = request[u] /\ request[u].device # held.device
  BY <1>1 DEF Write, RequestsInTurn, Inv, TypeOK
<1>5. \A v \in Devices : unconfirmed'[v] =
          IF v = held.device THEN UnconfirmedBy(held.op, held.next, unconfirmed[v])
          ELSE unconfirmed[v]
  <2>1. unconfirmed' = [unconfirmed EXCEPT ![held.device] =
                          UnconfirmedBy(held.op, held.next, unconfirmed[held.device])]
    BY <1>1 DEF Write, UnconfirmedBy
  <2>2. QED
    BY <2>1 DEF Inv, TypeOK
<1>6. \A v \in Devices : row[v] # NoRow => Follows(held.op, row[v], row'[v])
  BY <1>2, <1>3 DEF Follows
<1>7. ASSUME NEW v \in Devices
      PROVE  /\ row'[v] = NoRow => unconfirmed'[v] = {}
             /\ row'[v] # NoRow => Awaits(row'[v], unconfirmed'[v])
  BY <1>2, <1>3, <1>5 DEF InTurn
<1>8. ASSUME NEW u \in Requests, request'[u] # NoRequest
      PROVE  LET q == request'[u] IN
             /\ Follows(q.op, row'[q.device], q.next)
             /\ Awaits(q.next, UnconfirmedBy(q.op, q.next, unconfirmed'[q.device]))
  <2>1. PICK q \in [op: Operation, device: Devices, next: Trust] :
           request[u] = q /\ request'[u] = q /\ q.device # held.device
    BY <1>4, <1>8 DEF Inv, TypeOK
  <2>2. row'[q.device] = row[q.device] /\ unconfirmed'[q.device] = unconfirmed[q.device]
    BY <1>3, <1>5, <2>1
  <2>3. /\ Follows(q.op, row[q.device], q.next)
        /\ Awaits(q.next, UnconfirmedBy(q.op, q.next, unconfirmed[q.device]))
    BY <1>8, <2>1 DEF InTurn
  <2>4. QED
    BY <2>1, <2>2, <2>3
<1>9. QED
  BY <1>1, <1>6, <1>7, <1>8 DEF InTurn

LEMMA StepInTurn ==
    RequestsInTurn /\ Inv /\ InTurn /\ [Next]_vars => InTurn'
<1> SUFFICES ASSUME RequestsInTurn, Inv, InTurn, [Next]_vars PROVE InTurn'
  OBVIOUS
<1>1. ASSUME NEW t \in Requests, GiveUp(t) PROVE InTurn'
  <2>1. \A u \in Requests : request'[u] # NoRequest => request'[u] = request[u]
    BY <1>1 DEF GiveUp, Inv, TypeOK
  <2>2. row' = row /\ unconfirmed' = unconfirmed
    BY <1>1 DEF GiveUp
  <2>3. QED
    BY <2>1, <2>2 DEF InTurn
<1>2. CASE UNCHANGED vars
  BY <1>2 DEF vars, InTurn
<1>3. QED
  BY <1>1, <1>2, DecisionsInTurn, WriteInTurn DEF Next

(* When registrations must be proven and requests for a device come one at *)
(* a time, a key that was rotated in gets no jobs before an operator let it*)
(* pass (ensure_device_trusted_for_dispatch).                              *)
THEOREM RotationNeedsConfirmation ==
    ASSUME RequireProof
    PROVE  Spec /\ []RequestsInTurn => []RotationConfirmed
<1>1. Init => Inv /\ InTurn
  BY InitSound, InitInTurn
<1>2. Inv /\ InTurn /\ RequestsInTurn /\ [Next]_vars => (Inv /\ InTurn)'
  BY StepSound, StepInTurn
<1>3. Inv /\ InTurn => RotationConfirmed
  <2> SUFFICES ASSUME Inv, InTurn, NEW v \in Devices, Dispatchable(v)
               PROVE  CurrentKey(row[v]) \notin unconfirmed[v]
    BY DEF RotationConfirmed
  <2>1. row[v] \in Trust /\ Awaits(row[v], unconfirmed[v])
    BY DEF Dispatchable, Inv, TypeOK, InTurn
  <2>2. row[v].status \notin {"rotated", "revoked"}
    BY <2>1 DEF Dispatchable, Normalized, Trust
  <2>3. QED
    BY <2>1, <2>2 DEF CurrentKey, Awaits
<1>4. QED
  BY <1>1, <1>2, <1>3, PTL DEF Spec

(* When requests for a device come one at a time, proven or not, only an   *)
(* operator's clear_device_trust_revocation ends its revocation, and the   *)
(* keys revoked for it stay so.                                            *)
THEOREM RevocationEndsByOperator == Spec /\ []RequestsInTurn => RevocationStands
<1> DEFINE Stands == \A v \in Devices : row[v] # NoRow /\ row[v].revokedAt =>
        /\ \/ row'[v].revokedAt
           \/ \E t \in Requests : request[t].op = "clear" /\ request'[t] = NoRequest
        /\ row[v].revokedKeys \subseteq row'[v].revokedKeys
<1>1. Init => Inv /\ InTurn
  BY InitSound, InitInTurn
<1>2. Inv /\ InTurn /\ RequestsInTurn /\ [Next]_vars => (Inv /\ InTurn)'
  BY StepSound, StepInTurn
<1>3. Inv /\ InTurn /\ RequestsInTurn /\ [Next]_vars => [Stands]_vars
  <2> SUFFICES ASSUME Inv, InTurn, RequestsInTurn, Next PROVE Stands
    OBVIOUS
  <2>1. ASSUME NEW t \in Requests, Write(t) PROVE Stands
    <3>1. request'[t] = NoRequest
      BY <2>1 DEF Write, Inv, TypeOK
    <3>2. QED
      BY <2>1, <3>1, WriteInTurn DEF Follows
  <2>2. ASSUME row' = row PROVE Stands
    BY <2>2
  <2> HIDE DEF Stands
  <2>3. QED
    BY <2>1, <2>2
       DEF Next, RegisterWithProof, RegisterWithoutProof, ProbeDevice, RevokeTrust,
           ConfirmRotation, ResolveAttention, ClearRevocation, AdminAction, Begin, GiveUp
<1>4. QED
  BY <1>1, <1>2, <1>3, PTL DEF Spec, RevocationStands
=============================================================================
