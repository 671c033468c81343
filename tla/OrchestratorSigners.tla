------------------------- MODULE OrchestratorSigners -------------------------
(***************************************************************************)
(* trust/mod.rs and routes/trust.rs: the keys the API signs registration   *)
(* challenges with.  They come from the configuration, in order; a table   *)
(* keeps which one is active.  Every use of the keys first brings the      *)
(* table up to date with the configuration, one statement per missing key, *)
(* and an operator's action then writes the other keys' rows and its own.  *)
(***************************************************************************)
EXTENDS Naturals, Sequences, Functions

CONSTANTS SigningKeys,
          Configurations, \* the orders of the keys the API may be started with
          Requests        \* bound: requests in progress at once

ASSUME SignerAssumption ==
    \A keys \in Configurations :
        keys \in Seq(SigningKeys) /\ keys # <<>> /\ IsInjective(keys)

VARIABLES config, \* ELOWEN_ORCHESTRATOR_SIGNING_KEYS of the running process
          signer, \* the table orchestrator_signer_states
          task    \* per request: what it is for, and the rows it has yet to write

vars == <<config, signer, task>>

Status == {"active", "staged", "retired"}

(* A key id is made of the key and its place in the configuration, and the *)
(* table keeps the id of the last write.                                   *)
NoRow == [status |-> "absent", place |-> 0]

NoTask == [pc |-> "idle"]

TypeOK ==
    /\ config \in Configurations
    /\ signer \in [SigningKeys -> [status: Status, place: Nat] \cup {NoRow}]
    /\ task \in [Requests ->
           [pc: {"sync", "others", "set"}, key: SigningKeys, status: Status \cup {"any"},
            rows: SUBSET (SigningKeys \X Status)] \cup {NoTask}]

Init ==
    /\ config \in Configurations
    /\ signer = [k \in SigningKeys |-> NoRow]
    /\ task = [t \in Requests |-> NoTask]
-----------------------------------------------------------------------------
Place(k) == CHOOSE i \in 1..Len(config) : config[i] = k
WithStatus(status) == {k \in SigningKeys : signer[k].status = status}

(* Mutant of MissingRows: a row is inserted without a status of the three. *)
MissingRowsUnset ==
    {<<k, "configured">> : k \in {c \in Range(config) : signer[c] = NoRow}}

(* sync_configured_signers: the rows it will insert, from one look at the  *)
(* table.                                                                  *)
MissingRows ==
    {<<k, IF WithStatus("active") = {} /\ k = config[1] THEN "active" ELSE "staged">> :
        k \in {c \in Range(config) : signer[c] = NoRow}}

(* set_orchestrator_signer_status, for "active": the other keys, but those *)
(* known to be retired under the id they have now.                         *)
KnownRetired(k) == signer[k] = [status |-> "retired", place |-> Place(k)]

(* Mutants of OtherRows: retired keys are staged again; none is staged.    *)
OtherRowsAll(key) == {<<k, "staged">> : k \in Range(config) \ {key}}
OtherRowsNone(key) == {}
OtherRows(key) ==
    {<<k, "staged">> : k \in {c \in Range(config) \ {key} : ~KnownRetired(c)}}

(* upsert_signer_state *)
Upsert(k, status) ==
    signer' = [signer EXCEPT ![k] = [status |-> status, place |-> Place(k)]]

(* A registration or a listing syncs and then reads; a stage, activate or  *)
(* retire of one configured key syncs and then writes.                     *)
Begin(t) ==
    /\ task[t] = NoTask
    /\ \E key \in Range(config), status \in Status \cup {"any"} :
          task' = [task EXCEPT ![t] = [pc |-> "sync", key |-> key, status |-> status,
                                      rows |-> MissingRows]]
    /\ UNCHANGED <<config, signer>>

(* The rows are written in the order of the configuration.                 *)
WriteRow(t) ==
    /\ task[t] # NoTask
    /\ \E row \in task[t].rows :
          /\ \A other \in task[t].rows : Place(row[1]) <= Place(other[1])
          /\ Upsert(row[1], row[2])
          /\ task' = [task EXCEPT ![t].rows = @ \ {row}]
    /\ UNCHANGED config

Synced(t) ==
    /\ task[t].pc = "sync" /\ task[t].rows = {}
    /\ task' = [task EXCEPT ![t] =
          CASE task[t].status = "any" -> NoTask
            [] task[t].status = "active" ->
                 [pc |-> "others", key |-> task[t].key, status |-> "active",
                  rows |-> OtherRows(task[t].key)]
            [] OTHER -> [@ EXCEPT !.pc = "set"]]
    /\ UNCHANGED <<config, signer>>

SetStatus(t) ==
    /\ \/ task[t].pc = "set"
       \/ task[t].pc = "others" /\ task[t].rows = {}
    /\ Upsert(task[t].key, task[t].status)
    /\ task' = [task EXCEPT ![t] = NoTask]
    /\ UNCHANGED config

(* A statement fails or the client hangs up: the rest is not written.      *)
GiveUp(t) ==
    /\ task[t] # NoTask
    /\ task' = [task EXCEPT ![t] = NoTask]
    /\ UNCHANGED <<config, signer>>

(* The process stops, at any point of its requests, and starts again with  *)
(* a configuration that may order the keys anew and name more of them.     *)
(* Bound: no key is taken out of the configuration.                        *)
Restart ==
    /\ config' \in {keys \in Configurations : Range(config) \subseteq Range(keys)}
    /\ task' = [t \in Requests |-> NoTask]
    /\ UNCHANGED signer

Next ==
    \/ \E t \in Requests :
          Begin(t) \/ WriteRow(t) \/ Synced(t) \/ SetStatus(t) \/ GiveUp(t)
    \/ Restart

Spec == Init /\ [][Next]_vars
-----------------------------------------------------------------------------
(* "deactivated by signer activation" (trust/mod.rs): with requests one at *)
(* a time, no two keys are ever both active, whichever requests stop half  *)
(* way and however the keys are ordered after a restart.                   *)
AtMostOneActive == \A k, l \in WithStatus("active") : k = l

(* set_orchestrator_signer_status passes over retired keys: a retired key  *)
(* comes back only when an operator stages or activates it, as long as its *)
(* place in the configuration is the one it was retired in (the look is by *)
(* key id: activating another key stages it again otherwise).              *)
RetiredStands == [][\A k \in WithStatus("retired") :
    signer'[k].status # "retired" =>
        \/ \E t \in Requests :
              /\ task[t] # NoTask
              /\ task[t].key = k
              /\ task[t].status \in {"staged", "active"}
        \/ signer[k].place # Place(k)]_vars
=============================================================================
