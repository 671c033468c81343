--------------------------- MODULE SessionProofs ---------------------------
(***************************************************************************)
(* A request that is let through was entitled to it, for any number of     *)
(* sessions, accounts and requests: whatever a request has in hand, other  *)
(* requests, logouts, expiries and edits of the accounts file leave true.  *)
(***************************************************************************)
EXTENDS Sessions, TLAPS

Hand == [pc: Pc, token: Tokens, account: Accounts \cup {NoAccount},
         role: MaybeRole, needs: MaybeRole]

(* A request in progress is one, and an idle one is not.                   *)
LEMMA HandOrIdle ==
    ASSUME TypeOK, NEW t \in Requests
    PROVE  /\ request[t] \in Hand \cup {NoRequest}
           /\ request[t] # NoRequest <=> request[t].pc # "idle"
           /\ request[t].pc # "idle" => request[t] \in Hand
BY DEF TypeOK, Hand, NoRequest, Pc

LEMMA NoSessionIsNone == NoSession \notin Session
BY SessionsAssumption DEF NoSession, Session

(* What every step but an insert does to a row: it stays of its account,   *)
(* and does not come back.                                                 *)
RowKept(k) ==
    /\ session[k] = NoSession => session'[k] = NoSession
    /\ session[k] # NoSession =>
          /\ session'[k] \in Session
          /\ session'[k].account = session[k].account
          /\ session'[k].state = "live" => session[k].state = "live"

LEMMA SameRow ==
    ASSUME TypeOK, NEW k \in Tokens, session'[k] = session[k]
    PROVE  RowKept(k)
BY DEF TypeOK, RowKept

LEMMA DeleteKeeps ==
    ASSUME TypeOK, NEW d \in Tokens, session[d] # NoSession, DeleteSession(d)
    PROVE  /\ session' \in [Tokens -> Session \cup {NoSession}]
           /\ \A k \in Tokens : RowKept(k)
<1>1. session[d] \in Session
  BY DEF TypeOK
<1>2. [session[d] EXCEPT !.state = "deleted"] \in Session
  BY <1>1 DEF Session
<1>3. session' = [session EXCEPT ![d] = [session[d] EXCEPT !.state = "deleted"]]
  BY DEF DeleteSession
<1>4. \A k \in Tokens : RowKept(k)
  <2> SUFFICES ASSUME NEW k \in Tokens PROVE RowKept(k)
    OBVIOUS
  <2>1. CASE k = d
    <3>1. session'[k] = [session[d] EXCEPT !.state = "deleted"]
      BY <1>3, <2>1 DEF TypeOK
    <3>2. /\ session'[k].account = session[k].account
          /\ session'[k].state = "deleted"
      BY <1>1, <2>1, <3>1 DEF Session
    <3>3. QED
      BY <1>2, <2>1, <3>1, <3>2 DEF RowKept
  <2>2. CASE k # d
    <3>1. session'[k] = session[k]
      BY <1>3, <2>2 DEF TypeOK
    <3>2. QED
      BY <3>1, SameRow
  <2>3. QED
    BY <2>1, <2>2
<1>5. session' \in [Tokens -> Session \cup {NoSession}]
  BY <1>2, <1>3 DEF TypeOK
<1>6. QED
  BY <1>4, <1>5

LEMMA PurgeKeeps ==
    ASSUME TypeOK, session' = Purged
    PROVE  /\ session' \in [Tokens -> Session \cup {NoSession}]
           /\ \A k \in Tokens : RowKept(k)
<1> SUFFICES ASSUME NEW k \in Tokens
             PROVE  session'[k] \in Session \cup {NoSession} /\ RowKept(k)
  BY DEF Purged
<1>1. CASE session[k].state = "expired"
  <2>1. session[k] \in Session
    BY <1>1 DEF TypeOK, NoSession
  <2>2. session'[k] = [session[k] EXCEPT !.state = "deleted"]
    BY <1>1 DEF Purged
  <2>3. /\ session'[k] \in Session
        /\ session'[k].account = session[k].account
        /\ session'[k].state = "deleted"
    BY <2>1, <2>2 DEF Session
  <2>4. QED
    BY <2>1, <2>3, NoSessionIsNone DEF RowKept
<1>2. CASE session[k].state # "expired"
  <2>1. session'[k] = session[k]
    BY <1>2 DEF Purged
  <2>2. QED
    BY <2>1, SameRow DEF TypeOK
<1>3. QED
  BY <1>1, <1>2
-----------------------------------------------------------------------------
Inv == TypeOK /\ InHandEntitled

(* A request stays sound when others act: its own record and history stay, *)
(* and so does the row of its session.                                     *)
LEMMA OthersStaySound ==
    ASSUME Inv, NEW s \in Requests,
           request'[s] = request[s], entitled'[s] = entitled[s], accounts' = accounts,
           request[s] # NoRequest => RowKept(request[s].token)
    PROVE  HandSound(s)'
<1>1. HandSound(s)
  BY DEF Inv, InHandEntitled
<1>2. CASE request[s] = NoRequest
  BY <1>2 DEF HandSound, LogsIn, NoRequest
<1>3. CASE request[s] # NoRequest
  <2>1. request[s] \in Hand /\ request[s].token \in Tokens
    BY <1>3, HandOrIdle DEF Inv, Hand
  <2>2. RowKept(request[s].token)
    BY <1>3
  <2>3. session[request[s].token] \in Session \cup {NoSession}
    BY <2>1 DEF Inv, TypeOK
  <2>4. session[request[s].token] # NoSession => session'[request[s].token] # NoSession
    BY <2>2, NoSessionIsNone DEF RowKept
  <2>5. QED
    BY <1>1, <1>3, <2>2, <2>4 DEF HandSound, LogsIn, Live, RowKept
<1>4. QED
  BY <1>2, <1>3

(* A step of one request, in which the others keep their rows, keeps the   *)
(* invariant if the request itself comes out of it sound, and with the     *)
(* token it had.                                                           *)
LEMMA RequestStep ==
    ASSUME Inv, NEW t \in Requests, NEW r, NEW e \in SUBSET MaybeRole,
           request' = [request EXCEPT ![t] = r],
           entitled' = [entitled EXCEPT ![t] = e],
           accounts' = accounts,
           session' \in [Tokens -> Session \cup {NoSession}],
           \A s \in Requests \ {t} : request[s] # NoRequest => RowKept(request[s].token),
           \/ r = NoRequest
           \/ /\ r \in Hand
              /\ \A s \in Requests \ {t} :
                    /\ request[s] # NoRequest /\ request[s].token = r.token
                    => /\ ~LogsIn(s)
                       /\ r.pc \notin {"purge_login", "insert"},
           HandSound(t)'
    PROVE  Inv'
<1>1. TypeOK'
  <2>1. request' \in [Requests -> Hand \cup {NoRequest}]
    BY DEF Inv, TypeOK, Hand
  <2>2. entitled' \in [Requests -> SUBSET MaybeRole]
    BY DEF Inv, TypeOK
  <2>3. QED
    BY <2>1, <2>2 DEF Inv, TypeOK, Hand
<1>2. request'[t] = r /\ \A s \in Requests \ {t} : /\ request'[s] = request[s]
                                                   /\ entitled'[s] = entitled[s]
  BY DEF Inv, TypeOK
<1>3. \A s \in Requests : HandSound(s)'
  <2> SUFFICES ASSUME NEW s \in Requests PROVE HandSound(s)'
    OBVIOUS
  <2>1. CASE s = t
    BY <2>1
  <2>2. CASE s # t
    BY <1>2, <2>2, OthersStaySound
  <2>3. QED
    BY <2>1, <2>2
<1>4. LoginAlone'
  <2> SUFFICES ASSUME NEW p \in Requests, NEW s \in Requests,
                      LogsIn(p)', request'[s] # NoRequest,
                      request'[s].token = request'[p].token, s # p
               PROVE  FALSE
    BY DEF LoginAlone
  <2>1. CASE p = t
    BY <1>2, <2>1 DEF LogsIn, NoRequest
  <2>2. CASE s = t
    BY <1>2, <2>2, HandOrIdle DEF Inv, LogsIn, NoRequest
  <2>3. CASE p # t /\ s # t
    BY <1>2, <2>3 DEF Inv, InHandEntitled, LoginAlone, LogsIn
  <2>4. QED
    BY <2>1, <2>2, <2>3
<1>5. QED
  BY <1>1, <1>3, <1>4 DEF Inv, InHandEntitled

(* A step of a request that keeps its token and does not begin a login.    *)
LEMMA GoesOn ==
    ASSUME Inv, NEW t \in Requests, NEW r \in Hand, NEW e \in SUBSET MaybeRole,
           request' = [request EXCEPT ![t] = r],
           entitled' = [entitled EXCEPT ![t] = e],
           accounts' = accounts,
           session' \in [Tokens -> Session \cup {NoSession}],
           \A k \in Tokens : RowKept(k),
           request[t] # NoRequest, r.token = request[t].token,
           r.pc \in {"purge_login", "insert"} => LogsIn(t),
           HandSound(t)'
    PROVE  Inv'
<1>1. \A s \in Requests \ {t} : request[s] # NoRequest => RowKept(request[s].token)
  BY HandOrIdle DEF Inv, Hand
<1>2. \A s \in Requests \ {t} :
         /\ request[s] # NoRequest /\ request[s].token = r.token
         => /\ ~LogsIn(s) /\ r.pc \notin {"purge_login", "insert"}
  BY DEF Inv, InHandEntitled, LoginAlone
<1>3. QED
  BY <1>1, <1>2, RequestStep

(* The end of a request, whatever it leaves behind.                        *)
LEMMA EndKeeps ==
    ASSUME Inv, NEW t \in Requests, Ends(t), accounts' = accounts,
           session' \in [Tokens -> Session \cup {NoSession}],
           \A s \in Requests \ {t} : request[s] # NoRequest => RowKept(request[s].token)
    PROVE  Inv'
<1>1. /\ request' = [request EXCEPT ![t] = NoRequest]
      /\ entitled' = [entitled EXCEPT ![t] = {}]
  BY DEF Ends
<1>2. request'[t] = NoRequest
  BY <1>1 DEF Inv, TypeOK
<1>3. HandSound(t)'
  BY <1>2 DEF HandSound, LogsIn, NoRequest
<1>4. {} \in SUBSET MaybeRole
  OBVIOUS
<1>5. QED
  BY <1>1, <1>3, <1>4, RequestStep
-----------------------------------------------------------------------------
(* The actions, one lemma each.                                            *)

LEMMA AuthenticateKeeps ==
    ASSUME Inv, NEW t \in Requests, Authenticate(t) PROVE Inv'
<1>1. PICK k \in Tokens, a \in Accounts :
         /\ session[k] = NoSession /\ accounts[a] # 0
         /\ \A s \in Requests : request[s] # NoRequest => request[s].token # k
         /\ request' = [request EXCEPT ![t] =
               [pc |-> "purge_login", token |-> k, account |-> a,
                role |-> accounts[a], needs |-> 0]]
  BY DEF Authenticate
<1> DEFINE r == [pc |-> "purge_login", token |-> k, account |-> a,
                 role |-> accounts[a], needs |-> 0]
<1>2. r \in Hand
  BY DEF Hand, Pc, MaybeRole, Inv, TypeOK
<1>3. entitled' = [entitled EXCEPT ![t] = entitled[t]] /\ entitled[t] \in SUBSET MaybeRole
  BY DEF Authenticate, Inv, TypeOK
<1>4. request'[t] = r /\ session' = session /\ accounts' = accounts
  BY <1>1 DEF Authenticate, Inv, TypeOK
<1>5. a # NoAccount
  BY SessionsAssumption
<1>6. HandSound(t)'
  BY <1>1, <1>4, <1>5 DEF HandSound, LogsIn
<1>7. \A s \in Requests \ {t} : request[s] # NoRequest => RowKept(request[s].token)
  BY <1>4, SameRow, HandOrIdle DEF Inv, Hand
<1>8. session' \in [Tokens -> Session \cup {NoSession}]
  BY <1>4 DEF Inv, TypeOK
<1>9. QED
  BY <1>1, <1>2, <1>3, <1>4, <1>6, <1>7, <1>8, RequestStep

LEMMA InsertKeeps ==
    ASSUME Inv, NEW t \in Requests, InsertSession(t) PROVE Inv'
<1>1. request[t] \in Hand /\ LogsIn(t)
  BY HandOrIdle DEF InsertSession, At, Inv, LogsIn
<1> DEFINE k == request[t].token
           new == [state |-> "live", account |-> request[t].account,
                   role |-> request[t].role]
<1>2. request[t].account # NoAccount /\ request[t].role # 0
  BY <1>1 DEF Inv, InHandEntitled, HandSound
<1>3. new \in Session
  BY <1>1, <1>2 DEF Session, Hand, Role, MaybeRole
<1>4. session' = [session EXCEPT ![k] = new] /\ Ends(t) /\ accounts' = accounts
  BY DEF InsertSession
<1>5. session' \in [Tokens -> Session \cup {NoSession}]
  BY <1>1, <1>3, <1>4 DEF Inv, TypeOK
<1>6. \A s \in Requests \ {t} : request[s] # NoRequest => RowKept(request[s].token)
  <2> SUFFICES ASSUME NEW s \in Requests \ {t}, request[s] # NoRequest
               PROVE  RowKept(request[s].token)
    OBVIOUS
  <2>1. request[s].token # k
    BY <1>1 DEF Inv, InHandEntitled, LoginAlone
  <2>2. request[s].token \in Tokens
    BY HandOrIdle DEF Inv, Hand
  <2>3. session'[request[s].token] = session[request[s].token]
    BY <1>4, <2>1, <2>2 DEF Inv, TypeOK
  <2>4. QED
    BY <2>2, <2>3, SameRow DEF Inv
<1>7. QED
  BY <1>4, <1>5, <1>6, EndKeeps

LEMMA ArrivesKeeps ==
    ASSUME Inv, NEW t \in Requests, Arrives(t) PROVE Inv'
<1>1. PICK k \in Tokens, needs \in MaybeRole :
         /\ session[k] # NoSession
         /\ request' = [request EXCEPT ![t] =
               [pc |-> "purge", token |-> k, account |-> NoAccount,
                role |-> 0, needs |-> needs]]
         /\ entitled' = [entitled EXCEPT ![t] =
               IF Live(k) THEN {accounts[session[k].account]} ELSE {}]
  BY DEF Arrives
<1> DEFINE r == [pc |-> "purge", token |-> k, account |-> NoAccount,
                 role |-> 0, needs |-> needs]
           e == IF Live(k) THEN {accounts[session[k].account]} ELSE {}
<1>2. r \in Hand
  BY DEF Hand, Pc, MaybeRole
<1>3. session[k] \in Session /\ session[k].account \in Accounts
  BY <1>1 DEF Inv, TypeOK, Session
<1>4. e \in SUBSET MaybeRole
  BY <1>3 DEF Inv, TypeOK
<1>5. session' = session /\ accounts' = accounts
  BY DEF Arrives
<1>6. request'[t] = r /\ entitled'[t] = e
  BY <1>1 DEF Inv, TypeOK
<1>7. HandSound(t)'
  BY <1>1, <1>5, <1>6 DEF HandSound, LogsIn, Live
<1>8. \A s \in Requests \ {t} :
         /\ request[s] # NoRequest /\ request[s].token = r.token
         => /\ ~LogsIn(s) /\ r.pc \notin {"purge_login", "insert"}
  BY <1>1 DEF Inv, InHandEntitled, HandSound
<1>9. \A s \in Requests \ {t} : request[s] # NoRequest => RowKept(request[s].token)
  BY <1>5, SameRow, HandOrIdle DEF Inv, Hand
<1>10. session' \in [Tokens -> Session \cup {NoSession}]
  BY <1>5 DEF Inv, TypeOK
<1>11. QED
  BY <1>1, <1>2, <1>4, <1>5, <1>7, <1>8, <1>9, <1>10, RequestStep

LEMMA PurgeStepKeeps ==
    ASSUME Inv, NEW t \in Requests, PurgeExpired(t) PROVE Inv'
<1>1. request[t] \in Hand /\ request[t] # NoRequest /\ request[t].token \in Tokens
  BY HandOrIdle DEF PurgeExpired, At, Inv, Hand
<1>2. PICK pc \in {"insert", "select"} :
         /\ \/ pc = "insert" /\ At(t, "purge_login")
            \/ pc = "select" /\ At(t, "purge")
         /\ Goto(t, pc)
  <2>1. CASE At(t, "purge_login") /\ Goto(t, "insert")
    BY <2>1
  <2>2. CASE At(t, "purge") /\ Goto(t, "select")
    BY <2>2
  <2>3. QED
    BY <2>1, <2>2 DEF PurgeExpired
<1> DEFINE r == [request[t] EXCEPT !.pc = pc]
<1>3. /\ r \in Hand /\ r.pc = pc /\ r.token = request[t].token
      /\ r.account = request[t].account /\ r.role = request[t].role
  BY <1>1 DEF Hand, Pc
<1>4. /\ session' \in [Tokens -> Session \cup {NoSession}]
      /\ \A k \in Tokens : RowKept(k)
  BY PurgeKeeps DEF PurgeExpired, Inv
<1>5. /\ request' = [request EXCEPT ![t] = r]
      /\ entitled' = [entitled EXCEPT ![t] = entitled[t]]
      /\ entitled[t] \in SUBSET MaybeRole /\ accounts' = accounts
      /\ request'[t] = r /\ entitled'[t] = entitled[t]
  BY <1>2 DEF Goto, PurgeExpired, Inv, TypeOK
<1>6. RowKept(request[t].token) /\ HandSound(t)
  BY <1>1, <1>4 DEF Inv, InHandEntitled
<1>7. HandSound(t)'
  BY <1>1, <1>2, <1>3, <1>5, <1>6, NoSessionIsNone
     DEF HandSound, LogsIn, At, Live, RowKept
<1>8. r.pc \in {"purge_login", "insert"} => LogsIn(t)
  BY <1>2, <1>3 DEF LogsIn, At
<1>9. QED
  BY <1>1, <1>3, <1>4, <1>5, <1>7, <1>8, GoesOn

LEMMA SelectKeeps ==
    ASSUME Inv, NEW t \in Requests, SelectSession(t) PROVE Inv'
<1>1. /\ request[t] \in Hand /\ request[t] # NoRequest /\ request[t].token \in Tokens
      /\ request[t].pc = "select"
  BY HandOrIdle DEF SelectSession, At, Inv, Hand
<1>2. /\ session' = session /\ accounts' = accounts
      /\ session' \in [Tokens -> Session \cup {NoSession}]
      /\ \A k \in Tokens : RowKept(k)
  BY SameRow DEF SelectSession, Inv, TypeOK
<1>3. CASE Live(request[t].token)
  <2> DEFINE account == session[request[t].token].account
             r == [request[t] EXCEPT !.pc = "resolve", !.account = account]
  <2>1. account \in Accounts
    BY <1>1, <1>3 DEF Inv, TypeOK, Session, Live, NoSession
  <2>2. /\ r \in Hand /\ r.pc = "resolve" /\ r.token = request[t].token
        /\ r.account = account
    BY <1>1, <2>1 DEF Hand, Pc
  <2>3. /\ request' = [request EXCEPT ![t] = r]
        /\ entitled' = [entitled EXCEPT ![t] = entitled[t]]
        /\ entitled[t] \in SUBSET MaybeRole
        /\ request'[t] = r /\ entitled'[t] = entitled[t]
    BY <1>3 DEF SelectSession, Inv, TypeOK
  <2>4. HandSound(t)
    BY DEF Inv, InHandEntitled
  <2>5. HandSound(t)'
    BY <1>1, <1>2, <1>3, <2>2, <2>3, <2>4 DEF HandSound, LogsIn
  <2>6. QED
    BY <1>1, <1>2, <2>2, <2>3, <2>5, GoesOn
<1>4. CASE ~Live(request[t].token)
  <2>1. Ends(t)
    BY <1>4 DEF SelectSession
  <2>2. QED
    BY <1>2, <2>1, EndKeeps, HandOrIdle DEF Inv, Hand
<1>5. QED
  BY <1>3, <1>4

LEMMA ResolveKeeps ==
    ASSUME Inv, NEW t \in Requests, ResolveActor(t) PROVE Inv'
<1>1. /\ request[t] \in Hand /\ request[t] # NoRequest /\ request[t].token \in Tokens
      /\ request[t].pc = "resolve"
  BY HandOrIdle DEF ResolveActor, At, Inv, Hand
<1>2. HandSound(t)
  BY DEF Inv, InHandEntitled
<1>3. /\ session[request[t].token] # NoSession
      /\ request[t].account = session[request[t].token].account
      /\ accounts[request[t].account] \in entitled[t]
  BY <1>1, <1>2 DEF HandSound, LogsIn
<1> DEFINE role == accounts[request[t].account]
           pc == IF role = 0 THEN "drop" ELSE "touch"
           r == [request[t] EXCEPT !.role = role, !.pc = pc]
<1>4. role \in MaybeRole
  BY <1>1, <1>3 DEF Inv, TypeOK, Session
<1>5. /\ r \in Hand /\ r.pc = pc /\ r.token = request[t].token
      /\ r.account = request[t].account /\ r.role = role
  BY <1>1, <1>4 DEF Hand, Pc
<1>6. /\ session' = session /\ accounts' = accounts
      /\ session' \in [Tokens -> Session \cup {NoSession}]
      /\ \A k \in Tokens : RowKept(k)
  BY SameRow DEF ResolveActor, Inv, TypeOK
<1>7. /\ request' = [request EXCEPT ![t] = r]
      /\ entitled' = [entitled EXCEPT ![t] = entitled[t]]
      /\ entitled[t] \in SUBSET MaybeRole
      /\ request'[t] = r /\ entitled'[t] = entitled[t]
  BY DEF ResolveActor, Inv, TypeOK
<1>8. pc \in {"drop", "touch"} /\ (pc = "touch" => role # 0)
  OBVIOUS
<1>9. HandSound(t)'
  <2>1. /\ request'[t].pc = pc /\ request'[t].token = request[t].token
        /\ request'[t].account = request[t].account /\ request'[t].role = role
    BY <1>5, <1>7
  <2> HIDE DEF pc, role, r
  <2>2. role \in entitled[t] /\ accounts'[request[t].account] \in entitled'[t]
    BY <1>3, <1>6, <1>7 DEF role
  <2>3. QED
    BY <1>3, <1>6, <1>7, <1>8, <2>1, <2>2 DEF HandSound, LogsIn
<1>10. r.pc \notin {"purge_login", "insert"}
  BY <1>5, <1>8
<1>11. QED
  <2> HIDE DEF pc, role, r
  <2>1. QED
    BY <1>1, <1>5, <1>6, <1>7, <1>9, <1>10, GoesOn

LEMMA DropKeeps ==
    ASSUME Inv, NEW t \in Requests, DropSession(t) PROVE Inv'
<1>1. /\ request[t] \in Hand /\ request[t].token \in Tokens
      /\ request[t].pc = "drop"
  BY HandOrIdle DEF DropSession, At, Inv, Hand
<1>2. session[request[t].token] # NoSession
  BY <1>1 DEF Inv, InHandEntitled, HandSound, LogsIn, NoRequest
<1>3. /\ session' \in [Tokens -> Session \cup {NoSession}]
      /\ \A k \in Tokens : RowKept(k)
  BY <1>1, <1>2, DeleteKeeps DEF DropSession, Inv
<1>4. \A s \in Requests \ {t} : request[s] # NoRequest => RowKept(request[s].token)
  BY <1>3, HandOrIdle DEF Inv, Hand
<1>5. QED
  BY <1>3, <1>4, EndKeeps DEF DropSession

LEMMA TouchKeeps ==
    ASSUME Inv, NEW t \in Requests, TouchSession(t) PROVE Inv'
<1>1. /\ request[t] \in Hand /\ request[t] # NoRequest /\ request[t].token \in Tokens
      /\ request[t].pc = "touch"
  BY HandOrIdle DEF TouchSession, At, Inv, Hand
<1> DEFINE k == request[t].token
<1>2. HandSound(t)
  BY DEF Inv, InHandEntitled
<1>3. session[k] \in Session /\ request[t].role \in entitled[t] \ {0}
  BY <1>1, <1>2 DEF HandSound, LogsIn, Inv, TypeOK
<1>4. request[t].role \in Role
  BY <1>1, <1>3 DEF Hand, Role, MaybeRole
<1> DEFINE row == [session[k] EXCEPT !.role = request[t].role]
<1>5. row \in Session /\ row.account = session[k].account /\ row.state = session[k].state
  BY <1>3, <1>4 DEF Session
<1>6. session' = session \/ session' = [session EXCEPT ![k] = row]
  BY DEF TouchSession
<1>7. session' \in [Tokens -> Session \cup {NoSession}]
  BY <1>5, <1>6 DEF Inv, TypeOK
<1>8. \A l \in Tokens : RowKept(l)
  <2> SUFFICES ASSUME NEW l \in Tokens PROVE RowKept(l)
    OBVIOUS
  <2>1. session'[l] = session[l] \/ (l = k /\ session'[l] = row)
    BY <1>6 DEF Inv, TypeOK
  <2>2. QED
    BY <1>3, <1>5, <2>1, SameRow, NoSessionIsNone DEF RowKept, Inv
<1>9. CASE Allows(request[t].role, request[t].needs)
  <2> DEFINE r == [request[t] EXCEPT !.pc = "run"]
  <2>1. /\ r \in Hand /\ r.pc = "run" /\ r.token = k
        /\ r.role = request[t].role /\ r.needs = request[t].needs
    BY <1>1 DEF Hand, Pc
  <2>2. /\ request' = [request EXCEPT ![t] = r]
        /\ entitled' = [entitled EXCEPT ![t] = entitled[t]]
        /\ entitled[t] \in SUBSET MaybeRole /\ accounts' = accounts
        /\ request'[t] = r /\ entitled'[t] = entitled[t]
    BY <1>9 DEF TouchSession, LetThrough, Goto, Inv, TypeOK
  <2>3. session'[k] # NoSession
    BY <1>1, <1>3, <1>8, NoSessionIsNone DEF RowKept
  <2>4. HandSound(t)'
    BY <1>3, <1>9, <2>1, <2>2, <2>3 DEF HandSound, LogsIn
  <2>5. QED
    BY <1>1, <1>7, <1>8, <2>1, <2>2, <2>4, GoesOn
<1>10. CASE ~Allows(request[t].role, request[t].needs)
  <2>1. Ends(t) /\ accounts' = accounts
    BY <1>10 DEF TouchSession, LetThrough
  <2>2. \A s \in Requests \ {t} : request[s] # NoRequest => RowKept(request[s].token)
    BY <1>8, HandOrIdle DEF Inv, Hand
  <2>3. QED
    BY <1>7, <2>1, <2>2, EndKeeps
<1>11. QED
  BY <1>9, <1>10

LEMMA RequestEndKeeps ==
    ASSUME Inv, NEW t \in Requests, RequestEnds(t) PROVE Inv'
<1>1. /\ session' \in [Tokens -> Session \cup {NoSession}]
      /\ \A k \in Tokens : RowKept(k)
  BY SameRow DEF RequestEnds, Inv, TypeOK
<1>2. \A s \in Requests \ {t} : request[s] # NoRequest => RowKept(request[s].token)
  BY <1>1, HandOrIdle DEF Inv, Hand
<1>3. QED
  BY <1>1, <1>2, EndKeeps DEF RequestEnds

(* A step that ends a session, whoever is using it.                        *)
LEMMA RowStepKeeps ==
    ASSUME Inv, session' \in [Tokens -> Session \cup {NoSession}],
           \A k \in Tokens : RowKept(k),
           accounts' = accounts, request' = request, entitled' = entitled
    PROVE  Inv'
<1>1. TypeOK'
  BY DEF Inv, TypeOK
<1>2. \A s \in Requests : HandSound(s)'
  <2> SUFFICES ASSUME NEW s \in Requests PROVE HandSound(s)'
    OBVIOUS
  <2>1. request[s] # NoRequest => RowKept(request[s].token)
    BY HandOrIdle DEF Inv, Hand
  <2>2. QED
    BY <2>1, OthersStaySound
<1>3. LoginAlone'
  BY DEF Inv, InHandEntitled, LoginAlone, LogsIn
<1>4. QED
  BY <1>1, <1>2, <1>3 DEF Inv, InHandEntitled

LEMMA LogoutKeeps ==
    ASSUME Inv, NEW d \in Tokens, Logout(d) PROVE Inv'
<1>1. /\ session' \in [Tokens -> Session \cup {NoSession}]
      /\ \A k \in Tokens : RowKept(k)
  BY DeleteKeeps DEF Logout, Inv
<1>2. QED
  BY <1>1, RowStepKeeps DEF Logout

LEMMA ExpiresKeeps ==
    ASSUME Inv, NEW d \in Tokens, Expires(d) PROVE Inv'
<1> DEFINE row == [session[d] EXCEPT !.state = "expired"]
<1>1. session[d] \in Session
  BY DEF Expires, Live, NoSession, Inv, TypeOK
<1>2. row \in Session /\ row.account = session[d].account /\ row.state = "expired"
  BY <1>1 DEF Session
<1>3. session' = [session EXCEPT ![d] = row]
  BY DEF Expires
<1>4. session' \in [Tokens -> Session \cup {NoSession}]
  BY <1>2, <1>3 DEF Inv, TypeOK
<1>5. \A k \in Tokens : RowKept(k)
  <2> SUFFICES ASSUME NEW k \in Tokens PROVE RowKept(k)
    OBVIOUS
  <2>1. CASE k = d
    BY <1>1, <1>2, <1>3, <2>1, NoSessionIsNone DEF RowKept, Inv, TypeOK
  <2>2. CASE k # d
    <3>1. session'[k] = session[k]
      BY <1>3, <2>2 DEF Inv, TypeOK
    <3>2. QED
      BY <3>1, SameRow DEF Inv
  <2>3. QED
    BY <2>1, <2>2
<1>6. QED
  BY <1>4, <1>5, RowStepKeeps DEF Expires

(* The history of a request follows its account, so that what the request  *)
(* has read, or will read, is in it.                                       *)
LEMMA AccountChangesKeeps ==
    ASSUME Inv, NEW a \in Accounts, NEW role \in MaybeRole, AccountChanges(a, role)
    PROVE  Inv'
<1>1. /\ session' = session /\ request' = request
      /\ accounts' = [accounts EXCEPT ![a] = role]
  BY DEF AccountChanges
<1>2. accounts' \in [Accounts -> MaybeRole]
  BY <1>1 DEF Inv, TypeOK
<1>3. \A s \in Requests :
         /\ entitled'[s] \in SUBSET MaybeRole
         /\ entitled[s] \subseteq entitled'[s]
         /\ entitled[s] # {} /\ session[request[s].token].account = a
            => role \in entitled'[s]
  BY DEF AccountChanges, Inv, TypeOK
<1>4. entitled' \in [Requests -> SUBSET MaybeRole]
  <2>1. entitled' = [s \in Requests |-> entitled'[s]]
    BY DEF AccountChanges
  <2>2. QED
    BY <1>3, <2>1
<1>5. TypeOK'
  BY <1>1, <1>2, <1>4 DEF Inv, TypeOK
<1>6. \A s \in Requests : HandSound(s)'
  <2> SUFFICES ASSUME NEW s \in Requests PROVE HandSound(s)'
    OBVIOUS
  <2>1. HandSound(s)
    BY DEF Inv, InHandEntitled
  <2> DEFINE account == session[request[s].token].account
  <2>2. ASSUME request[s] # NoRequest, session[request[s].token] # NoSession,
               accounts[account] \in entitled[s]
        PROVE  accounts'[account] \in entitled'[s]
    <3>1. request[s].token \in Tokens
      BY <2>2, HandOrIdle DEF Inv, Hand
    <3>2. account \in Accounts
      BY <2>2, <3>1 DEF Inv, TypeOK, Session
    <3>3. accounts'[account] = IF account = a THEN role ELSE accounts[account]
      BY <1>1, <3>2 DEF Inv, TypeOK
    <3>4. QED
      BY <1>3, <2>2, <3>3
  <2>3. CASE request[s] = NoRequest
    BY <1>1, <2>3 DEF HandSound, LogsIn, NoRequest
  <2>4. CASE request[s] # NoRequest
    BY <1>1, <1>3, <2>1, <2>2, <2>4 DEF HandSound, LogsIn, Live
  <2>5. QED
    BY <2>3, <2>4
<1>7. LoginAlone'
  BY <1>1 DEF Inv, InHandEntitled, LoginAlone, LogsIn
<1>8. QED
  BY <1>5, <1>6, <1>7 DEF Inv, InHandEntitled
-----------------------------------------------------------------------------
LEMMA InvInit == Init => Inv
<1> SUFFICES ASSUME Init PROVE Inv
  OBVIOUS
<1>1. TypeOK
  BY DEF Init, TypeOK
<1>2. \A t \in Requests : request[t] = NoRequest
  BY DEF Init
<1>3. InHandEntitled
  BY <1>2 DEF InHandEntitled, LoginAlone, HandSound, LogsIn, NoRequest
<1>4. QED
  BY <1>1, <1>3 DEF Inv

LEMMA InvNext == Inv /\ [Next]_vars => Inv'
<1> SUFFICES ASSUME Inv, [Next]_vars PROVE Inv'
  OBVIOUS
<1>1. ASSUME NEW t \in Requests, RequestNext(t) PROVE Inv'
  BY <1>1, AuthenticateKeeps, InsertKeeps, ArrivesKeeps, PurgeStepKeeps, SelectKeeps,
     ResolveKeeps, DropKeeps, TouchKeeps, RequestEndKeeps DEF RequestNext
<1>2. ASSUME NEW k \in Tokens, Logout(k) \/ Expires(k) PROVE Inv'
  BY <1>2, LogoutKeeps, ExpiresKeeps
<1>3. ASSUME NEW a \in Accounts, NEW role \in MaybeRole, AccountChanges(a, role) PROVE Inv'
  BY <1>3, AccountChangesKeeps
<1>4. CASE UNCHANGED vars
  BY <1>4 DEF vars, Inv, TypeOK, InHandEntitled, LoginAlone, HandSound, LogsIn, Live
<1>5. QED
  BY <1>1, <1>2, <1>3, <1>4 DEF Next

LEMMA InvAlways == Spec => []Inv
BY InvInit, InvNext, PTL DEF Spec

(* Sessions, accounts and requests in progress stay well typed, whatever   *)
(* routes/auth.rs does of several of them at once.                         *)
THEOREM SessionTypeCorrect == Spec => []TypeOK
<1>1. Inv => TypeOK
  BY DEF Inv
<1>2. QED
  BY <1>1, InvAlways, PTL

(* Each request holds, at every statement, no more than its account was    *)
(* entitled to since it arrived: what the proofs here rest on.             *)
THEOREM RequestsEntitled == Spec => []InHandEntitled
<1>1. Inv => InHandEntitled
  BY DEF Inv
<1>2. QED
  BY <1>1, InvAlways, PTL

(* authorize_request lets a request through only with a role its account   *)
(* had at some moment since it arrived, in a session that was on then.     *)
THEOREM LetThroughEntitled == Spec => []EntitledOnly
<1>1. Inv => EntitledOnly
  BY DEF Inv, InHandEntitled, HandSound, EntitledOnly, At
<1>2. QED
  BY <1>1, InvAlways, PTL
-----------------------------------------------------------------------------
(* No step brings a row back: an insert has a token of its own, a deletion *)
(* and a purge end sessions, a touch leaves a row as alive as it is.       *)
LEMMA NoRevival ==
    ASSUME Inv, [Next]_vars, NEW k \in Tokens, session[k].state \in {"expired", "deleted"}
    PROVE  session'[k].state # "live"
<1>1. session[k] # NoSession /\ session[k] \in Session
  BY DEF NoSession, Inv, TypeOK
<1>2. CASE RowKept(k)
  BY <1>1, <1>2 DEF RowKept
<1>3. CASE session' = session
  BY <1>3
<1>4. ASSUME NEW t \in Requests, RequestNext(t) PROVE session'[k].state # "live"
  <2>1. CASE InsertSession(t)
    <3>1. request[t] \in Hand /\ LogsIn(t)
      BY <2>1, HandOrIdle DEF InsertSession, At, Inv, LogsIn
    <3>2. session[request[t].token] = NoSession /\ request[t].token \in Tokens
      BY <3>1 DEF Inv, InHandEntitled, HandSound, Hand
    <3>3. session'[k] = session[k]
      BY <1>1, <2>1, <3>2 DEF InsertSession, Inv, TypeOK
    <3>4. QED
      BY <3>3
  <2>2. CASE PurgeExpired(t)
    BY <1>2, <2>2, PurgeKeeps DEF PurgeExpired, Inv
  <2>3. CASE DropSession(t)
    <3>1. request[t] \in Hand /\ request[t].token \in Tokens /\ request[t].pc = "drop"
      BY <2>3, HandOrIdle DEF DropSession, At, Inv, Hand
    <3>2. session[request[t].token] # NoSession
      BY <3>1 DEF Inv, InHandEntitled, HandSound, LogsIn, NoRequest
    <3>3. QED
      BY <1>2, <2>3, <3>1, <3>2, DeleteKeeps DEF DropSession, Inv
  <2>4. CASE TouchSession(t)
    <3>1. request[t].token \in Tokens
      BY <2>4, HandOrIdle DEF TouchSession, At, Inv, Hand
    <3>2. session'[k] = session[k] \/
          session'[k] = [session[k] EXCEPT !.role = request[t].role]
      BY <2>4, <3>1 DEF TouchSession, Inv, TypeOK
    <3>3. QED
      BY <1>1, <3>2 DEF Session
  <2>5. QED
    BY <1>3, <1>4, <2>1, <2>2, <2>3, <2>4
       DEF RequestNext, Authenticate, Arrives, SelectSession, ResolveActor, RequestEnds
<1>5. ASSUME NEW d \in Tokens, Logout(d) PROVE session'[k].state # "live"
  BY <1>2, <1>5, DeleteKeeps DEF Logout, Inv
<1>6. ASSUME NEW d \in Tokens, Expires(d) PROVE session'[k].state # "live"
  <2>1. session'[k] = session[k] \/ session'[k] = [session[k] EXCEPT !.state = "expired"]
    BY <1>6 DEF Expires, Inv, TypeOK
  <2>2. QED
    BY <1>1, <2>1 DEF Session
<1>7. QED
  BY <1>3, <1>4, <1>5, <1>6 DEF Next, AccountChanges, vars

(* A session that was logged out, has expired or was dropped never comes   *)
(* back, although requests let through before still write its row.         *)
THEOREM EndedForGood == Spec => EndedStaysEnded
<1>1. Inv /\ [Next]_vars => [\A k \in Tokens :
         session[k].state \in {"expired", "deleted"} => ~(session'[k].state = "live")]_vars
  BY NoRevival
<1>2. QED
  BY <1>1, InvAlways, PTL DEF Spec, EndedStaysEnded
=============================================================================
