------------------------------ MODULE Sessions ------------------------------
(***************************************************************************)
(* routes/auth.rs and auth/mod.rs: logins, logouts, and the authorisation  *)
(* of every other request.  A request is let through on what it read from  *)
(* the session's row and from the accounts file, one after the other,      *)
(* while both may change; the role in the session's row is for display.    *)
(*                                                                         *)
(* Modelled with authentication on.  A shared password is the case of one  *)
(* account that never changes.                                             *)
(***************************************************************************)
EXTENDS Naturals

CONSTANTS Tokens,   \* session tokens: random, so that none is given out twice
          Accounts, \* user names
          NoAccount,
          Requests  \* bound: requests in progress at once

ASSUME SessionsAssumption == NoAccount \notin Accounts

VARIABLES
    session,  \* the table ui_sessions; a deleted row keeps its account as history
    accounts, \* the file of local accounts: each one's role
    request,  \* per request: next step, token, account and role read, role needed
    entitled  \* history, per request: the roles its session had since it began

vars == <<session, accounts, request, entitled>>

(* The ranks of viewer, operator and admin; 0 for an account that is       *)
(* disabled or not in the file.                                            *)
Role == 1..3
MaybeRole == 0..3
Allows(role, required) == role >= required

Session == [state: {"live", "expired", "deleted"}, account: Accounts, role: Role]
NoSession == [state |-> "unused", account |-> NoAccount, role |-> 0]
Live(k) == session[k].state = "live"

Pc == {"purge_login", "insert", "purge", "select", "resolve", "drop", "touch", "run"}
NoRequest == [pc |-> "idle"]

TypeOK ==
    /\ session \in [Tokens -> Session \cup {NoSession}]
    /\ accounts \in [Accounts -> MaybeRole]
    /\ request \in [Requests ->
           [pc: Pc, token: Tokens, account: Accounts \cup {NoAccount},
            role: MaybeRole, needs: MaybeRole] \cup {NoRequest}]
    /\ entitled \in [Requests -> SUBSET MaybeRole]

Init ==
    /\ session = [k \in Tokens |-> NoSession]
    /\ accounts \in [Accounts -> MaybeRole]
    /\ request = [t \in Requests |-> NoRequest]
    /\ entitled = [t \in Requests |-> {}]

At(t, pc) == request[t].pc = pc
Goto(t, pc) == request' = [request EXCEPT ![t].pc = pc]
Ends(t) ==
    /\ request' = [request EXCEPT ![t] = NoRequest]
    /\ entitled' = [entitled EXCEPT ![t] = {}]
DeleteSession(k) == session' = [session EXCEPT ![k].state = "deleted"]
Purged == [k \in Tokens |->
    IF session[k].state = "expired" THEN [session[k] EXCEPT !.state = "deleted"]
                                    ELSE session[k]]
-----------------------------------------------------------------------------
(* authenticate: the account is in the file, not disabled, and the password*)
(* is right.  Then expired sessions go, and the new one is inserted.       *)
Authenticate(t) ==
    /\ At(t, "idle")
    /\ \E k \in Tokens, a \in Accounts :
          /\ session[k] = NoSession /\ accounts[a] # 0
          /\ \A s \in Requests : request[s] # NoRequest => request[s].token # k
          /\ request' = [request EXCEPT ![t] =
                [pc |-> "purge_login", token |-> k, account |-> a,
                 role |-> accounts[a], needs |-> 0]]
    /\ UNCHANGED <<session, accounts, entitled>>

(* Mutant of InsertSession: account_username is left null. *)
InsertUnnamed(t) ==
    /\ At(t, "insert")
    /\ session' = [session EXCEPT ![request[t].token] =
          [state |-> "live", account |-> NoAccount, role |-> request[t].role]]
    /\ Ends(t)
    /\ UNCHANGED accounts

InsertSession(t) ==
    /\ At(t, "insert")
    /\ session' = [session EXCEPT ![request[t].token] =
          [state |-> "live", account |-> request[t].account, role |-> request[t].role]]
    /\ Ends(t)
    /\ UNCHANGED accounts

(* logout: one statement, whatever other requests of the session do.       *)
Logout(k) ==
    /\ session[k] # NoSession
    /\ DeleteSession(k)
    /\ UNCHANGED <<accounts, request, entitled>>
-----------------------------------------------------------------------------
(* authorize_request, with the role the route needs; get_auth_session is   *)
(* the same with none.                                                     *)
Arrives(t) ==
    /\ At(t, "idle")
    /\ \E k \in Tokens, needs \in MaybeRole :
          /\ session[k] # NoSession
          /\ request' = [request EXCEPT ![t] =
                [pc |-> "purge", token |-> k, account |-> NoAccount,
                 role |-> 0, needs |-> needs]]
          /\ entitled' = [entitled EXCEPT ![t] =
                IF Live(k) THEN {accounts[session[k].account]} ELSE {}]
    /\ UNCHANGED <<session, accounts>>

PurgeExpired(t) ==
    /\ \/ At(t, "purge_login") /\ Goto(t, "insert")
       \/ At(t, "purge") /\ Goto(t, "select")
    /\ session' = Purged
    /\ UNCHANGED <<accounts, entitled>>

SelectSession(t) ==
    /\ At(t, "select")
    /\ IF Live(request[t].token)
       THEN /\ request' = [request EXCEPT ![t].pc = "resolve",
                               ![t].account = session[request[t].token].account]
            /\ UNCHANGED entitled
       ELSE Ends(t)
    /\ UNCHANGED <<session, accounts>>

(* Mutant of ResolveActor: the role is taken from the session's row.       *)
ResolveStored(t) ==
    /\ At(t, "resolve")
    /\ request' = [request EXCEPT ![t].pc = "touch",
                                  ![t].role = session[request[t].token].role]
    /\ UNCHANGED <<session, accounts, entitled>>

(* resolve_actor reads the file anew.                                      *)
ResolveActor(t) ==
    /\ At(t, "resolve")
    /\ request' = [request EXCEPT ![t].role = accounts[request[t].account],
          ![t].pc = IF accounts[request[t].account] = 0 THEN "drop" ELSE "touch"]
    /\ UNCHANGED <<session, accounts, entitled>>

(* The account is gone, and so is the session.                             *)
DropSession(t) ==
    /\ At(t, "drop")
    /\ DeleteSession(request[t].token)
    /\ Ends(t)
    /\ UNCHANGED accounts

LetThrough(t) ==
    IF Allows(request[t].role, request[t].needs)
    THEN Goto(t, "run") /\ UNCHANGED entitled
    ELSE Ends(t)

(* Mutant of TouchSession: the row is inserted if it is not there.         *)
TouchUpserts(t) ==
    /\ At(t, "touch")
    /\ session' = [session EXCEPT ![request[t].token] =
          [state |-> "live", account |-> request[t].account, role |-> request[t].role]]
    /\ LetThrough(t)
    /\ UNCHANGED accounts

(* touch_session: an update, so a row that is gone by now stays so.  The   *)
(* request goes on all the same.                                           *)
TouchSession(t) ==
    /\ At(t, "touch")
    /\ session' = IF session[request[t].token].state = "deleted" THEN session
                  ELSE [session EXCEPT ![request[t].token].role = request[t].role]
    /\ LetThrough(t)
    /\ UNCHANGED accounts

(* The handler is done; or a statement fails, the file cannot be read, or  *)
(* the client hangs up.                                                    *)
RequestEnds(t) ==
    /\ ~At(t, "idle")
    /\ Ends(t)
    /\ UNCHANGED <<session, accounts>>
-----------------------------------------------------------------------------
Expires(k) ==
    /\ Live(k)
    /\ session' = [session EXCEPT ![k].state = "expired"]
    /\ UNCHANGED <<accounts, request, entitled>>

(* Somebody edits the accounts file.                                       *)
AccountChanges(a, role) ==
    /\ accounts' = [accounts EXCEPT ![a] = role]
    /\ entitled' = [t \in Requests |->
          IF /\ entitled[t] # {}
             /\ session[request[t].token].account = a
          THEN entitled[t] \cup {role}
          ELSE entitled[t]]
    /\ UNCHANGED <<session, request>>

RequestNext(t) ==
    \/ Authenticate(t) \/ InsertSession(t)
    \/ Arrives(t) \/ PurgeExpired(t) \/ SelectSession(t) \/ ResolveActor(t)
    \/ DropSession(t) \/ TouchSession(t) \/ RequestEnds(t)

Next ==
    \/ \E t \in Requests : RequestNext(t)
    \/ \E k \in Tokens : Logout(k) \/ Expires(k)
    \/ \E a \in Accounts, role \in MaybeRole : AccountChanges(a, role)

Spec == Init /\ [][Next]_vars
-----------------------------------------------------------------------------
(* A request that is let through has the role its route needs, its session *)
(* was still on when it arrived, and the account really had that role at   *)
(* some moment since: a logout, an expiry, a demotion or a removal is      *)
(* heeded by every request that arrives after it (authorize_request).      *)
EntitledOnly == \A t \in Requests : At(t, "run") =>
    /\ Allows(request[t].role, request[t].needs)
    /\ request[t].role \in entitled[t] \ {0}

(* A session that has ended never comes back, although requests that were  *)
(* let through before its end still write its row (touch_session).         *)
EndedStaysEnded == [][\A k \in Tokens :
    session[k].state \in {"expired", "deleted"} => ~(session'[k].state = "live")]_vars

(* Why the first holds: what a request has in hand comes from its session  *)
(* and from the file, both read since it arrived; and the token of a login *)
(* is nobody else's.                                                       *)
LogsIn(t) == request[t].pc \in {"purge_login", "insert"}

LoginAlone == \A t, s \in Requests :
    /\ LogsIn(t) /\ request[s] # NoRequest
    /\ request[s].token = request[t].token
    => s = t

HandSound(t) ==
    /\ LogsIn(t) =>
          /\ session[request[t].token] = NoSession
          /\ request[t].account # NoAccount /\ request[t].role # 0
    /\ request[t] # NoRequest /\ ~LogsIn(t) => session[request[t].token] # NoSession
    /\ request[t].pc \in {"purge", "select"} /\ Live(request[t].token) =>
          accounts[session[request[t].token].account] \in entitled[t]
    /\ request[t].pc \in {"resolve", "drop"} =>
          /\ request[t].account = session[request[t].token].account
          /\ accounts[request[t].account] \in entitled[t]
    /\ request[t].pc \in {"touch", "run"} => request[t].role \in entitled[t] \ {0}
    /\ request[t].pc = "run" => Allows(request[t].role, request[t].needs)

InHandEntitled == LoginAlone /\ \A t \in Requests : HandSound(t)
=============================================================================
