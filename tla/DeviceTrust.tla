----------------------------- MODULE DeviceTrust -----------------------------
(***************************************************************************)
(* routes/devices.rs: registrations, probes and the operators' trust       *)
(* actions on a device.  Each request loads the device's row, works on its *)
(* copy while it awaits, and then writes the whole row back, so that two   *)
(* requests for one device may each undo what the other did.               *)
(*                                                                         *)
(* A refused request changes nothing and is not a step.  The events that   *)
(* each write leaves in device_trust_events are display only.              *)
(***************************************************************************)
EXTENDS Naturals

CONSTANTS Devices,
          Keys, NoKey,      \* edge public keys
          ConfiguredRevoked,\* ELOWEN_REVOKED_EDGE_PUBLIC_KEYS
          RequireProof,     \* ELOWEN_REQUIRE_TRUSTED_EDGE_REGISTRATION
          Requests          \* bound: requests in progress at once

ASSUME TrustAssumption ==
    /\ NoKey \notin Keys
    /\ ConfiguredRevoked \subseteq Keys
    /\ RequireProof \in BOOLEAN

VARIABLES row,        \* the devices table, as far as trust goes
          request,    \* per request: the operation and the row it will write
          unconfirmed \* history: keys rotated in and not passed by an operator

vars == <<row, request, unconfirmed>>

Status == {"untrusted", "trusted", "rotated", "revoked", "needs_attention"}
MaybeKey == Keys \cup {NoKey}

(* DeviceTrustMetadata, and the key of rows older than it.  attention is   *)
(* requires_attention, and the negation of can_dispatch when that is set.  *)
Trust == [status: Status, key: MaybeKey, revokedKeys: SUBSET Keys,
          revokedAt: BOOLEAN, attention: BOOLEAN, legacyKey: MaybeKey]
NoRow == [status |-> "absent"]

DefaultTrust == [status |-> "untrusted", key |-> NoKey, revokedKeys |-> {},
                 revokedAt |-> FALSE, attention |-> FALSE, legacyKey |-> NoKey]
LegacyTrust(key) == [DefaultTrust EXCEPT !.legacyKey = key]

Operation == {"register", "rotate", "probe", "revoke", "confirm", "resolve", "clear"}
NoRequest == [op |-> "none"]

TypeOK ==
    /\ row \in [Devices -> Trust \cup {NoRow}]
    /\ request \in [Requests ->
           [op: Operation, device: Devices, next: Trust] \cup {NoRequest}]
    /\ unconfirmed \in [Devices -> SUBSET MaybeKey]

Init ==
    /\ row \in [Devices -> {NoRow} \cup {LegacyTrust(key) : key \in MaybeKey}]
    /\ request = [t \in Requests |-> NoRequest]
    /\ unconfirmed = [v \in Devices |-> {}]
-----------------------------------------------------------------------------
(* How trust metadata is read, decided on and written. *)

CurrentKey(m) == IF m.key = NoKey THEN m.legacyKey ELSE m.key

(* DeviceTrustMetadata::normalized. *)
Normalized(m) ==
    [m EXCEPT !.key = CurrentKey(m),
              !.status = IF m.revokedAt THEN "revoked"
                         ELSE IF m.status = "untrusted" /\ CurrentKey(m) # NoKey
                              THEN "trusted"
                              ELSE m.status]

(* The legacy key is read from old rows but never written (serde's         *)
(* skip_serializing): a row that is written back has lost it.              *)
Stored(m) == [m EXCEPT !.legacyKey = NoKey]

(* finalize_trust_metadata, on what is then stored.                        *)
Finalized(m) == [Stored(m) EXCEPT !.attention = m.status # "trusted"]

(* ensure_device_trusted_for_dispatch *)
Dispatchable(v) ==
    /\ row[v] # NoRow
    /\ ~row[v].attention
    /\ Normalized(row[v]).status = "trusted"

(* What verify_registration_trust lets through: a proof signed with the    *)
(* key, and with the previous key if it names one.  Rotation and           *)
(* re-enrolment are treated alike from here on.                            *)
Proof == [key: Keys \ ConfiguredRevoked, intent: {"enroll", "rotate"}, previous: MaybeKey]

Rotates(m, proof) == m.key \notin {NoKey, proof.key}

(* Mutants of Accepts: the keys revoked for the device are not looked at;  *)
(* the revocation of the device is not.                                    *)
AcceptsRevokedKey(m, proof) ==
    /\ ~m.revokedAt
    /\ Rotates(m, proof) => proof.intent = "rotate" /\ proof.previous = m.key
AcceptsRevokedDevice(m, proof) ==
    /\ proof.key \notin m.revokedKeys
    /\ Rotates(m, proof) => proof.intent = "rotate" /\ proof.previous = m.key

(* next_device_trust_state: which proofs are accepted, and what follows.   *)
Accepts(m, proof) ==
    /\ ~m.revokedAt
    /\ proof.key \notin m.revokedKeys
    /\ Rotates(m, proof) => proof.intent = "rotate" /\ proof.previous = m.key

(* Mutant of Proven: a heartbeat confirms the rotation it follows. *)
ProvenByHeartbeat(m, proof) ==
    [m EXCEPT !.key = proof.key, !.revokedAt = FALSE,
              !.status = IF Rotates(m, proof) THEN "rotated" ELSE "trusted"]

Proven(m, proof) ==
    [m EXCEPT !.key = proof.key, !.revokedAt = FALSE,
              !.status = IF Rotates(m, proof) \/ (m.key # NoKey /\ m.status = "rotated")
                         THEN "rotated" ELSE "trusted"]

(* Mutant of Unproven: the status is one nobody knows. *)
UnprovenUnknown(m) == [m EXCEPT !.status = "attention_required"]
Unproven(m) ==
    [m EXCEPT !.status = IF m.key # NoKey THEN "needs_attention"
                         ELSE IF m.revokedAt THEN m.status ELSE "untrusted"]
-----------------------------------------------------------------------------
(* The first half of each request: load the row, and decide what to write. *)

Begin(t, op, v, next) ==
    /\ request[t] = NoRequest
    /\ request' = [request EXCEPT ![t] = [op |-> op, device |-> v, next |-> next]]
    /\ UNCHANGED <<row, unconfirmed>>

Loaded(v) == IF row[v] = NoRow THEN DefaultTrust ELSE Normalized(row[v])

RegisterWithProof(t) == \E v \in Devices, proof \in Proof :
    /\ Accepts(Loaded(v), proof)
    /\ Begin(t, IF Rotates(Loaded(v), proof) THEN "rotate" ELSE "register", v,
             Finalized(Proven(Loaded(v), proof)))

RegisterWithoutProof(t) == \E v \in Devices :
    /\ ~RequireProof
    /\ Begin(t, "register", v, Finalized(Unproven(Loaded(v))))

(* probe_device: the loaded row itself is written back, five seconds later *)
(* at most, with the answer in it.  So an old row that is probed before it *)
(* is registered again ends up untrusted.                                  *)
ProbeDevice(t) == \E v \in Devices :
    /\ row[v] # NoRow
    /\ Begin(t, "probe", v, Stored(row[v]))

(* The named key, or the device's own, is revoked, and the device with it. *)
RevokeTrust(t) == \E v \in Devices, key \in Keys :
    /\ row[v] # NoRow
    /\ Begin(t, "revoke", v,
             Finalized([Loaded(v) EXCEPT !.revokedKeys = @ \cup {key},
                                         !.status = "revoked", !.revokedAt = TRUE]))

(* update_device_trust_admin_state, for its three callers.                 *)
AdminAction(t, op, v, expected, next) ==
    /\ row[v] # NoRow
    /\ Loaded(v).status = expected
    /\ Begin(t, op, v, Finalized(next))

MakeTrusted(m) == [m EXCEPT !.status = "trusted", !.revokedAt = FALSE]
MakeUntrusted(m) == [m EXCEPT !.status = "untrusted", !.key = NoKey, !.revokedAt = FALSE]

ConfirmRotation(t) == \E v \in Devices :
    AdminAction(t, "confirm", v, "rotated", MakeTrusted(Loaded(v)))
ResolveAttention(t) == \E v \in Devices :
    AdminAction(t, "resolve", v, "needs_attention", MakeTrusted(Loaded(v)))
ClearRevocation(t) == \E v \in Devices :
    AdminAction(t, "clear", v, "revoked", MakeUntrusted(Loaded(v)))
-----------------------------------------------------------------------------
(* The second half: upsert_device_row writes the whole row, whatever it is *)
(* by now.                                                                 *)
Write(t) ==
    /\ request[t] # NoRequest
    /\ row' = [row EXCEPT ![request[t].device] = request[t].next]
    /\ request' = [request EXCEPT ![t] = NoRequest]
    /\ unconfirmed' = [unconfirmed EXCEPT ![request[t].device] =
           CASE request[t].op = "rotate" -> @ \cup {request[t].next.key}
             [] request[t].op \in {"confirm", "resolve"} -> @ \ {request[t].next.key}
             [] request[t].op = "clear" -> {}
             [] OTHER -> @]

(* The probe is not answered in time, the client hangs up, a statement     *)
(* fails, or the process restarts.                                         *)
GiveUp(t) ==
    /\ request[t] # NoRequest
    /\ request' = [request EXCEPT ![t] = NoRequest]
    /\ UNCHANGED <<row, unconfirmed>>

Next == \E t \in Requests :
    \/ RegisterWithProof(t) \/ RegisterWithoutProof(t) \/ ProbeDevice(t)
    \/ RevokeTrust(t) \/ ConfirmRotation(t) \/ ResolveAttention(t) \/ ClearRevocation(t)
    \/ Write(t) \/ GiveUp(t)

Spec == Init /\ [][Next]_vars
-----------------------------------------------------------------------------
(* A device that may get jobs has a key, and not one revoked for it, even  *)
(* though requests overwrite each other's rows: whichever row is written   *)
(* last is sound in itself.                                                *)
DispatchableKeySound == \A v \in Devices : Dispatchable(v) =>
    CurrentKey(row[v]) \in Keys \ row[v].revokedKeys

(* Why: soundness of a row that is not revoked, in the table and in hand.  *)
Sound(m) == ~m.revokedAt =>
    /\ CurrentKey(m) \notin m.revokedKeys
    /\ m.status # "untrusted" => CurrentKey(m) # NoKey
RowsSound ==
    /\ \A v \in Devices : row[v] # NoRow =>
          Sound(row[v]) /\ (row[v].legacyKey # NoKey => row[v].status = "untrusted")
    /\ \A t \in Requests : request[t] # NoRequest =>
          Sound(request[t].next) /\ request[t].next.legacyKey = NoKey

(* "device trust has been revoked and cannot be re-enrolled without        *)
(* clearing revocation": the revocation of a device ends only by the       *)
(* operator's clear_device_trust_revocation, and the keys revoked for it   *)
(* stay revoked.                                                           *)
RevocationStands == [][\A v \in Devices :
    row[v] # NoRow /\ row[v].revokedAt =>
        /\ \/ row'[v].revokedAt
           \/ \E t \in Requests : request[t].op = "clear" /\ request'[t] = NoRequest
        /\ row[v].revokedKeys \subseteq row'[v].revokedKeys]_vars

(* "Edge key rotated; admin confirmation is required before dispatch": a   *)
(* key that was rotated in gets no jobs before an operator let it pass.    *)
RotationConfirmed == \A v \in Devices :
    Dispatchable(v) => CurrentKey(row[v]) \notin unconfirmed[v]
=============================================================================
