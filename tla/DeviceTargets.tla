---------------------------- MODULE DeviceTargets ----------------------------
(***************************************************************************)
(* DeviceConsole with a history of who said what a device serves: what     *)
(* dispatch lets a device run (ensure_target_allowed in services/jobs.rs)  *)
(* against what the holder of its key, or an operator, let stand.          *)
(***************************************************************************)
EXTENDS DeviceConsole

VARIABLE vouched \* history: per device and key, the targets said for them

targetVars == <<allVars, vouched>>

(* The targets of s were said for v when its key was key.                  *)
Said(v, key, s) == {key} \X Targets(s) \subseteq vouched[v]

(* An old row stands as it is.                                             *)
TargetsInit ==
    /\ ConsoleInit
    /\ vouched = [v \in Devices |->
           IF row[v] = NoRow THEN {} ELSE {CurrentKey(row[v])} \X Targets(scope[v])]

(* Who says it: a device that proves its key as it registers, an operator  *)
(* who lets a rotated or doubtful device pass with what its row says.      *)
Vouches(t) ==
    \/ request[t].op \in {"register", "rotate"}
       /\ request[t].next.status \in {"trusted", "rotated"}
    \/ request[t].op \in {"confirm", "resolve"}
Vouch(t) == vouched' = [vouched EXCEPT ![request[t].device] =
    IF Vouches(t) THEN @ \cup ({request[t].next.key} \X Targets(carried[t])) ELSE @]

(* Of the steps of DeviceConsole, those that concern a device's row.       *)
TargetsNext == \E t \in Requests :
    \/ WritesRow(t) /\ Vouch(t)
    \/ /\ Registers(t) \/ KeepsScope(t) \/ Tells(t) \/ Stops(t) \/ StopsUntold(t)
       /\ UNCHANGED vouched

TargetsSpec == TargetsInit /\ [][TargetsNext]_targetVars
-----------------------------------------------------------------------------
(* What a dispatch may name on a device that gets jobs was said to be      *)
(* served by the holder of the key the device has now, or let stand by an  *)
(* operator: never by a registration without a proof, however requests     *)
(* overwrite each other's rows.  (select_dispatch_device checks trust and  *)
(* scope of one row, and upsert_device_row writes both at once.)           *)
TargetsVouched == \A v \in Devices :
    Dispatchable(v) => Said(v, CurrentKey(row[v]), scope[v])
=============================================================================
