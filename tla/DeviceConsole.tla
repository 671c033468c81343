---------------------------- MODULE DeviceConsole ----------------------------
(***************************************************************************)
(* The requests of DeviceTrust with the rest of the row they write, and    *)
(* with the event each of them sends to the consoles once it has written.  *)
(* The row is written whole, so that what a device serves is written back  *)
(* from the copy that was loaded by every request but a registration.      *)
(***************************************************************************)
EXTENDS DeviceTrust, UiEvents, RepositoryScope

CONSTANT Advertised \* what a registration may say the device serves

ASSUME ConsoleAssumption ==
    /\ Devices \subseteq Resources
    /\ Advertised \subseteq Scope

VARIABLES scope,      \* the devices table, as far as what a device serves goes
          carried,    \* per request: the scope it will write
          written,    \* per request: what it wrote and has not told of
          registered, \* history: what the last registration that was written said
          untold      \* history: what was written by a request that then stopped

consoleVars == <<scope, carried, written, registered, untold>>
allVars == <<vars, listener, consoleVars>>

ConsoleTypeOK ==
    /\ TypeOK
    /\ EventsTypeOK
    /\ scope \in [Devices -> Scope]
    /\ registered \in [Devices -> Scope]
    /\ carried \in [Requests -> Scope]
    /\ written \in [Requests -> SUBSET Resources]
    /\ untold \subseteq Resources

ConsoleInit ==
    /\ Init
    /\ EventsInit
    /\ scope \in [Devices -> Advertised \cup {Unscoped}]
    /\ \A v \in Devices : row[v] = NoRow => scope[v] = Unscoped
    /\ registered = scope
    /\ carried = [t \in Requests |-> Unscoped]
    /\ written = [t \in Requests |-> {}]
    /\ untold = {}
-----------------------------------------------------------------------------
Load(t, s) ==
    /\ written[t] = {}
    /\ carried' = [carried EXCEPT ![t] = s]
    /\ UNCHANGED <<listener, scope, written, registered, untold>>

(* register_device says what the device serves; the others keep what they  *)
(* have loaded.                                                            *)
Registers(t) == \E s \in Advertised :
    (RegisterWithProof(t) \/ RegisterWithoutProof(t)) /\ Load(t, s)

(* Mutant of KeepsScope: the metadata is made anew.                        *)
KeepsNothing(t) ==
    /\ ProbeDevice(t) \/ RevokeTrust(t)
         \/ ConfirmRotation(t) \/ ResolveAttention(t) \/ ClearRevocation(t)
    /\ Load(t, Unscoped)
KeepsScope(t) ==
    /\ ProbeDevice(t) \/ RevokeTrust(t)
         \/ ConfirmRotation(t) \/ ResolveAttention(t) \/ ClearRevocation(t)
    /\ Load(t, scope[request'[t].device])

(* Mutant of WritesRow: what a device serves is written only when it       *)
(* registers, apart from the trust that other requests write.              *)
WritesScopeApart(t) ==
    /\ Write(t)
    /\ LET v == request[t].device IN
       /\ IF request[t].op \in {"register", "rotate"}
          THEN scope' = [scope EXCEPT ![v] = carried[t]] /\ registered' = scope'
          ELSE UNCHANGED <<scope, registered>>
       /\ written' = [written EXCEPT ![t] = {v}]
       /\ Changed(v)
    /\ UNCHANGED <<carried, untold>>
WritesRow(t) ==
    /\ Write(t)
    /\ LET v == request[t].device IN
       /\ scope' = [scope EXCEPT ![v] = carried[t]]
       /\ registered' = IF request[t].op \in {"register", "rotate"}
                        THEN [registered EXCEPT ![v] = carried[t]] ELSE registered
       /\ written' = [written EXCEPT ![t] = {v}]
       /\ Changed(v)
    /\ UNCHANGED <<carried, untold>>

(* Any request of the API that is not about a device: it writes the rows of*)
(* a thread or a job, and then tells the consoles as well.                 *)
WritesOther(t) ==
    /\ request[t] = NoRequest /\ written[t] = {}
    /\ \E x \in Resources \ Devices :
          Changed(x) /\ written' = [written EXCEPT ![t] = {x}]
    /\ UNCHANGED <<vars, scope, carried, registered, untold>>

Tells(t) == \E v \in written[t] :
    /\ PublishUiEvent(v)
    /\ written' = [written EXCEPT ![t] = {}]
    /\ UNCHANGED <<vars, scope, carried, registered, untold>>

(* Before the write; or after it, when the row of the trust history cannot *)
(* be inserted or the client has hung up: then nobody is told.             *)
Stops(t) ==
    /\ GiveUp(t)
    /\ UNCHANGED <<listener, consoleVars>>
StopsUntold(t) ==
    /\ written[t] # {}
    /\ written' = [written EXCEPT ![t] = {}]
    /\ untold' = untold \cup written[t]
    /\ UNCHANGED <<vars, listener, scope, carried, registered>>

ConsoleNext ==
    \/ \E t \in Requests :
          \/ Registers(t) \/ KeepsScope(t) \/ WritesRow(t) \/ WritesOther(t)
          \/ Tells(t) \/ Stops(t) \/ StopsUntold(t)
    \/ ListenerNext /\ UNCHANGED <<vars, consoleVars>>

ConsoleSpec == ConsoleInit /\ [][ConsoleNext]_allVars
-----------------------------------------------------------------------------
(* A console that has not fallen behind the channel shows each device as it*)
(* is, or is about to be told: by an event still to be read, or by the     *)
(* request that wrote the row.  The exception is the one the code makes: a *)
(* request that stops right after its write.                               *)
Pending == UNION {written[t] : t \in Requests}
Informed(l) ==
    listener[l].open /\ ~listener[l].behind /\ ~listener[l].missed =>
        listener[l].stale \subseteq Contents(listener[l].queue) \cup Pending \cup untold
ListenerInformed == \A l \in Listeners : Informed(l)

(* A device serves what it said when it last registered, and no probe or   *)
(* action of an operator, that writes the whole row, takes that back: as   *)
(* long as requests for it come one at a time.                             *)
ServesAsRegistered == \A v \in Devices : scope[v] = registered[v]

=============================================================================
