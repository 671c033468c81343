----------------------------- MODULE ConsoleProofs -----------------------------
(***************************************************************************)
(* What holds of devices and their requests (DeviceTrustProofs) holds too  *)
(* with the rest of the row and with the consoles; a console that has not  *)
(* fallen behind is told of every write, and a device that may get jobs is *)
(* sent only what was said with its key or let stand by an operator,       *)
(* however many requests there are at once.                                *)
(***************************************************************************)
EXTENDS DeviceTargets, DeviceTrustProofs

LEMMA ConsoleStep ==
    ASSUME ConsoleNext
    PROVE  [Next]_vars
<1>1. ASSUME NEW t \in Requests,
             \/ Registers(t) \/ KeepsScope(t) \/ WritesRow(t) \/ WritesOther(t)
             \/ Tells(t) \/ Stops(t) \/ StopsUntold(t)
      PROVE  [Next]_vars
  BY <1>1 DEF Registers, KeepsScope, WritesRow, WritesOther, Tells, Stops, StopsUntold, Next
<1>2. QED
  BY <1>1 DEF ConsoleNext

(* The requests of DeviceConsole are those of DeviceTrust.                 *)
THEOREM ConsoleImplementsTrust == ConsoleSpec => Spec
<1>1. ConsoleInit => Init
  BY DEF ConsoleInit
<1>2. [ConsoleNext]_allVars => [Next]_vars
  BY ConsoleStep DEF allVars, vars
<1>3. QED
  BY <1>1, <1>2, PTL DEF ConsoleSpec, Spec
-----------------------------------------------------------------------------
(* Queues *)

LEMMA QueueKept ==
    ASSUME NEW queue \in Seq(Resources), NEW x \in Resources
    PROVE  /\ Append(queue, x) \in Seq(Resources)
           /\ Contents(Append(queue, x)) = Contents(queue) \cup {x}
           /\ queue # <<>> => /\ Tail(queue) \in Seq(Resources)
                              /\ Len(Tail(queue)) = Len(queue) - 1
                              /\ Contents(queue) = Contents(Tail(queue)) \cup {Head(queue)}
<1>1. /\ Append(queue, x) \in Seq(Resources)
      /\ DOMAIN Append(queue, x) = DOMAIN queue \cup {Len(queue) + 1}
      /\ Append(queue, x)[Len(queue) + 1] = x
      /\ \A i \in DOMAIN queue : Append(queue, x)[i] = queue[i]
  OBVIOUS
<1>2. Contents(Append(queue, x)) = Contents(queue) \cup {x}
  BY <1>1 DEF Contents
<1>3. ASSUME queue # <<>>
      PROVE  /\ Tail(queue) \in Seq(Resources)
             /\ Len(Tail(queue)) = Len(queue) - 1
             /\ Contents(queue) = Contents(Tail(queue)) \cup {Head(queue)}
  <2>1. /\ Tail(queue) \in Seq(Resources)
        /\ Len(queue) \in Nat /\ Len(queue) >= 1
        /\ Len(Tail(queue)) = Len(queue) - 1
        /\ DOMAIN queue = 1 .. Len(queue)
        /\ DOMAIN Tail(queue) = 1 .. (Len(queue) - 1)
        /\ Head(queue) = queue[1]
        /\ \A i \in 1 .. (Len(queue) - 1) : Tail(queue)[i] = queue[i + 1]
    BY <1>3
  <2>2. ASSUME NEW i \in DOMAIN queue
        PROVE  queue[i] \in Contents(Tail(queue)) \cup {Head(queue)}
    <3>1. CASE i = 1
      BY <2>1, <3>1
    <3>2. CASE i # 1
      <4>1. i - 1 \in DOMAIN Tail(queue) /\ Tail(queue)[i - 1] = queue[i]
        BY <2>1, <2>2, <3>2
      <4>2. QED
        BY <4>1 DEF Contents
    <3>3. QED
      BY <3>1, <3>2
  <2>3. ASSUME NEW i \in DOMAIN Tail(queue)
        PROVE  Tail(queue)[i] \in Contents(queue)
    <3>1. i + 1 \in DOMAIN queue /\ queue[i + 1] = Tail(queue)[i]
      BY <2>1
    <3>2. QED
      BY <3>1 DEF Contents
  <2>4. Head(queue) \in Contents(queue)
    BY <2>1 DEF Contents
  <2>5. QED
    BY <2>1, <2>2, <2>3, <2>4 DEF Contents
<1>4. QED
  BY <1>1, <1>2, <1>3

(* A reader that an event is sent to: bounded, and told of it unless it has*)
(* fallen behind.                                                          *)
LEMMA SentKept ==
    ASSUME NEW q \in Listener, Len(q.queue) <= Capacity, NEW x \in Resources
    PROVE  /\ Sent(q, x) \in Listener
           /\ Len(Sent(q, x).queue) <= Capacity
           /\ Sent(q, x).open = q.open /\ Sent(q, x).missed = q.missed
           /\ Sent(q, x).stale = q.stale
           /\ q.open /\ ~Sent(q, x).behind =>
                 /\ ~q.behind
                 /\ Contents(Sent(q, x).queue) = Contents(q.queue) \cup {x}
<1>1. q.queue \in Seq(Resources) /\ Len(q.queue) \in Nat
  BY DEF Listener
<1>2. CASE ~q.open
  BY <1>2 DEF Sent
<1>3. CASE q.open /\ Len(q.queue) < Capacity
  <2>1. Sent(q, x) = [q EXCEPT !.queue = Append(@, x)]
    BY <1>3 DEF Sent
  <2>2. Append(q.queue, x) \in Seq(Resources) /\ Len(Append(q.queue, x)) = Len(q.queue) + 1
    BY <1>1
  <2>3. /\ Sent(q, x) \in Listener /\ Sent(q, x).queue = Append(q.queue, x)
        /\ Sent(q, x).open = q.open /\ Sent(q, x).missed = q.missed
        /\ Sent(q, x).stale = q.stale /\ Sent(q, x).behind = q.behind
    BY <2>1, <2>2 DEF Listener
  <2>4. QED
    BY <1>1, <1>3, <2>2, <2>3, QueueKept, EventsAssumption
<1>4. CASE q.open /\ ~(Len(q.queue) < Capacity)
  <2>1. Sent(q, x) = [q EXCEPT !.queue = Append(Tail(@), x), !.behind = TRUE]
    BY <1>4 DEF Sent
  <2>2. q.queue # <<>>
    BY <1>1, <1>4, EventsAssumption
  <2>3. Tail(q.queue) \in Seq(Resources) /\ Len(Tail(q.queue)) = Len(q.queue) - 1
    BY <1>1, <2>2, QueueKept
  <2>4. /\ Append(Tail(q.queue), x) \in Seq(Resources)
        /\ Len(Append(Tail(q.queue), x)) = Len(q.queue)
    BY <1>1, <2>3
  <2>5. /\ Sent(q, x) \in Listener /\ Sent(q, x).queue = Append(Tail(q.queue), x)
        /\ Sent(q, x).open = q.open /\ Sent(q, x).missed = q.missed
        /\ Sent(q, x).stale = q.stale /\ Sent(q, x).behind
    BY <2>1, <2>4 DEF Listener
  <2>6. QED
    BY <1>4, <2>4, <2>5
<1>5. QED
  BY <1>2, <1>3, <1>4
-----------------------------------------------------------------------------
AtMostOne == {{}} \cup {{x} : x \in Resources}

ConsoleInv ==
    /\ Inv
    /\ EventsTypeOK
    /\ scope \in [Devices -> Scope]
    /\ registered \in [Devices -> Scope]
    /\ carried \in [Requests -> Scope]
    /\ written \in [Requests -> AtMostOne]
    /\ untold \subseteq Resources
    /\ \A t \in Requests : request[t] # NoRequest => written[t] = {}
    /\ ListenerInformed

LEMMA InitConsole == ConsoleInit => ConsoleInv
<1> SUFFICES ASSUME ConsoleInit PROVE ConsoleInv
  OBVIOUS
<1>1. Inv
  BY InitSound DEF ConsoleInit
<1>2. Unscoped \in Scope
  BY DEF Unscoped, Scope
<1>3. Closed \in Listener /\ Closed.queue = <<>> /\ ~Closed.open
  BY DEF Closed, Listener
<1>4. EventsTypeOK /\ ListenerInformed
  BY <1>3, EventsAssumption DEF ConsoleInit, EventsInit, EventsTypeOK, ListenerInformed, Informed
<1>5. scope \in [Devices -> Scope] /\ registered \in [Devices -> Scope]
  BY <1>2, ConsoleAssumption DEF ConsoleInit
<1>6. QED
  BY <1>1, <1>2, <1>4, <1>5 DEF ConsoleInit, ConsoleInv, AtMostOne

(* What the first half of each request does to the requests in hand.       *)
LEMMA DecidesOn ==
    ASSUME Inv, NEW t \in Requests,
           \/ RegisterWithProof(t) \/ RegisterWithoutProof(t) \/ ProbeDevice(t)
           \/ RevokeTrust(t) \/ ConfirmRotation(t) \/ ResolveAttention(t)
           \/ ClearRevocation(t)
    PROVE  /\ request'[t].device \in Devices
           /\ RegisterWithProof(t) \/ RegisterWithoutProof(t) =>
                 request'[t].op \in {"register", "rotate"}
           /\ row' = row
           /\ \A u \in Requests \ {t} : request'[u] = request[u]
<1>1. PICK op \in Operation, v \in Devices :
         /\ \E next : Begin(t, op, v, next)
         /\ RegisterWithProof(t) \/ RegisterWithoutProof(t) => op \in {"register", "rotate"}
  <2>1. CASE RegisterWithProof(t)
    BY <2>1 DEF RegisterWithProof, Operation
  <2>2. CASE RegisterWithoutProof(t)
    BY <2>2 DEF RegisterWithoutProof, Operation
  <2>3. CASE ProbeDevice(t) /\ ~RegisterWithProof(t) /\ ~RegisterWithoutProof(t)
    BY <2>3 DEF ProbeDevice, Operation
  <2>4. CASE RevokeTrust(t) /\ ~RegisterWithProof(t) /\ ~RegisterWithoutProof(t)
    BY <2>4 DEF RevokeTrust, Operation
  <2>5. CASE /\ ConfirmRotation(t) \/ ResolveAttention(t) \/ ClearRevocation(t)
             /\ ~RegisterWithProof(t) /\ ~RegisterWithoutProof(t)
    BY <2>5 DEF ConfirmRotation, ResolveAttention, ClearRevocation, AdminAction, Operation
  <2>6. QED
    BY <2>1, <2>2, <2>3, <2>4, <2>5
<1>2. PICK next : Begin(t, op, v, next)
  BY <1>1
<1>3. /\ row' = row
      /\ request' = [request EXCEPT ![t] = [op |-> op, device |-> v, next |-> next]]
  BY <1>2 DEF Begin
<1>4. /\ request'[t] = [op |-> op, device |-> v, next |-> next]
      /\ \A u \in Requests \ {t} : request'[u] = request[u]
  BY <1>3 DEF Inv, TypeOK
<1>5. QED
  BY <1>1, <1>3, <1>4

LEMMA LoadKeeps ==
    ASSUME ConsoleInv, Inv', NEW t \in Requests, NEW s \in Scope, Load(t, s),
           \A u \in Requests \ {t} : request'[u] = request[u]
    PROVE  ConsoleInv'
<1>1. carried' \in [Requests -> Scope] /\ written' = written /\ written[t] = {}
  BY DEF Load, ConsoleInv
<1>2. \A u \in Requests : request'[u] # NoRequest => written[u] = {}
  BY <1>1 DEF ConsoleInv
<1>3. QED
  BY <1>1, <1>2 DEF Load, ConsoleInv, EventsTypeOK, ListenerInformed, Informed, Pending

(* A write of x by t: from then on t has to tell of x.                     *)
LEMMA ChangedKeeps ==
    ASSUME ConsoleInv, NEW t \in Requests, NEW x \in Resources, written[t] = {},
           Changed(x), written' = [written EXCEPT ![t] = {x}], untold' = untold
    PROVE  /\ EventsTypeOK' /\ ListenerInformed'
           /\ written' \in [Requests -> AtMostOne]
           /\ \A u \in Requests : u # t => written'[u] = written[u]
<1>1. /\ written' \in [Requests -> AtMostOne] /\ written'[t] = {x}
      /\ \A u \in Requests : u # t => written'[u] = written[u]
  BY DEF ConsoleInv, AtMostOne
<1>2. Pending' = Pending \cup {x}
  BY <1>1 DEF Pending
<1>3. ASSUME NEW l \in Listeners
      PROVE  /\ listener'[l] \in Listener
             /\ listener'[l].queue = listener[l].queue
             /\ listener'[l].open = listener[l].open
             /\ listener'[l].behind = listener[l].behind
             /\ listener'[l].missed = listener[l].missed
             /\ listener'[l].stale \subseteq listener[l].stale \cup {x}
  <2>1. listener[l] \in Listener
    BY DEF ConsoleInv, EventsTypeOK
  <2>2. listener'[l] = IF listener[l].open THEN [listener[l] EXCEPT !.stale = @ \cup {x}]
                                           ELSE listener[l]
    BY DEF Changed
  <2>3. QED
    BY <2>1, <2>2 DEF Listener
<1>4. EventsTypeOK'
  BY <1>3 DEF Changed, ConsoleInv, EventsTypeOK
<1>5. ASSUME NEW l \in Listeners PROVE Informed(l)'
  <2>1. Informed(l)
    BY DEF ConsoleInv, ListenerInformed
  <2>2. Contents(listener'[l].queue) = Contents(listener[l].queue)
    BY <1>3
  <2>3. QED
    BY <1>2, <1>3, <2>1, <2>2 DEF Informed
<1>6. QED
  BY <1>1, <1>4, <1>5 DEF ListenerInformed

LEMMA TellsKeeps ==
    ASSUME ConsoleInv, NEW t \in Requests, Tells(t)
    PROVE  ConsoleInv'
<1>1. PICK x \in Resources :
         /\ x \in written[t] /\ PublishUiEvent(x)
         /\ written' = [written EXCEPT ![t] = {}]
         /\ UNCHANGED <<vars, scope, carried, registered, untold>>
  BY DEF Tells, ConsoleInv, AtMostOne
<1>3. written[t] = {x}
  BY <1>1 DEF ConsoleInv, AtMostOne
<1>4. /\ written' \in [Requests -> AtMostOne]
      /\ \A u \in Requests : written'[u] = IF u = t THEN {} ELSE written[u]
  BY <1>1 DEF ConsoleInv, AtMostOne
<1>5. Pending \subseteq Pending' \cup {x}
  BY <1>3, <1>4 DEF Pending
<1>6. ASSUME NEW l \in Listeners
      PROVE  /\ listener'[l] \in Listener /\ Len(listener'[l].queue) <= Capacity
             /\ Informed(l)'
  <2>1. /\ listener[l] \in Listener /\ Len(listener[l].queue) <= Capacity /\ Informed(l)
        /\ listener'[l] = Sent(listener[l], x)
    BY <1>1 DEF ConsoleInv, EventsTypeOK, ListenerInformed, PublishUiEvent
  <2>2. untold' = untold
    BY <1>1
  <2>3. QED
    BY <1>5, <2>1, <2>2, SentKept DEF Informed
<1>7. EventsTypeOK' /\ ListenerInformed'
  BY <1>1, <1>6 DEF PublishUiEvent, EventsTypeOK, ListenerInformed
<1>8. Inv'
  BY <1>1 DEF vars, ConsoleInv, Inv, TypeOK, RowsSound
<1>9. QED
  BY <1>1, <1>4, <1>7, <1>8 DEF vars, ConsoleInv

(* A reader's own steps concern no other reader.                           *)
LEMMA ReaderKeeps ==
    ASSUME ConsoleInv, NEW l \in Listeners, NEW q \in Listener,
           listener' = [listener EXCEPT ![l] = q], Len(q.queue) <= Capacity,
           q.open /\ ~q.behind /\ ~q.missed =>
               q.stale \subseteq Contents(q.queue) \cup Pending \cup untold,
           UNCHANGED <<vars, consoleVars>>
    PROVE  ConsoleInv'
<1>1. Pending' = Pending /\ untold' = untold
  BY DEF consoleVars, Pending
<1>2. ASSUME NEW k \in Listeners
      PROVE  /\ listener'[k] \in Listener /\ Len(listener'[k].queue) <= Capacity
             /\ Informed(k)'
  <2>1. /\ listener[k] \in Listener /\ Len(listener[k].queue) <= Capacity /\ Informed(k)
        /\ listener'[k] = IF k = l THEN q ELSE listener[k]
    BY DEF ConsoleInv, EventsTypeOK, ListenerInformed
  <2>2. CASE k = l
    BY <1>1, <2>1, <2>2 DEF Informed
  <2>3. CASE k # l
    BY <1>1, <2>1, <2>3 DEF Informed
  <2>4. QED
    BY <2>2, <2>3
<1>3. EventsTypeOK' /\ ListenerInformed'
  BY <1>2 DEF ConsoleInv, EventsTypeOK, ListenerInformed
<1>4. Inv'
  BY DEF vars, ConsoleInv, Inv, TypeOK, RowsSound
<1>5. QED
  BY <1>3, <1>4 DEF vars, consoleVars, ConsoleInv

LEMMA ListenersKeep ==
    ASSUME ConsoleInv, ListenerNext, UNCHANGED <<vars, consoleVars>>
    PROVE  ConsoleInv'
<1>1. PICK l \in Listeners : Connect(l) \/ Disconnect(l) \/ Receive(l) \/ Lagged(l)
  BY DEF ListenerNext
<1> DEFINE q == listener[l]
<1>2. q \in Listener /\ Len(q.queue) <= Capacity /\ Informed(l) /\ q.queue \in Seq(Resources)
  BY DEF ConsoleInv, EventsTypeOK, ListenerInformed, Listener
<1>3. CASE Connect(l) \/ Disconnect(l)
  <2>1. PICK next \in {Closed, [Closed EXCEPT !.open = TRUE]} :
           listener' = [listener EXCEPT ![l] = next]
    BY <1>3 DEF Connect, Disconnect
  <2>2. next \in Listener /\ next.queue = <<>> /\ next.stale = {}
    <3>1. Closed \in Listener /\ Closed.queue = <<>> /\ Closed.stale = {}
      BY DEF Closed, Listener
    <3>2. CASE next = [Closed EXCEPT !.open = TRUE]
      BY <3>1, <3>2 DEF Listener
    <3>3. QED
      BY <2>1, <3>1, <3>2
  <2>3. Len(next.queue) <= Capacity
    BY <2>2, EventsAssumption
  <2>4. QED
    BY <2>1, <2>2, <2>3, ReaderKeeps
<1>4. CASE Receive(l)
  <2> DEFINE next == [q EXCEPT !.queue = Tail(@), !.stale = @ \ {Head(q.queue)}]
  <2>1. /\ Tail(q.queue) \in Seq(Resources) /\ Len(Tail(q.queue)) = Len(q.queue) - 1
        /\ Contents(q.queue) = Contents(Tail(q.queue)) \cup {Head(q.queue)}
    <3>1. Head(q.queue) \in Resources
      BY <1>2, <1>4 DEF Receive
    <3>2. QED
      BY <1>2, <1>4, <3>1, QueueKept DEF Receive
  <2>2. listener' = [listener EXCEPT ![l] = next]
    BY <1>4 DEF Receive, ConsoleInv, EventsTypeOK
  <2>3. /\ next \in Listener
        /\ next.queue = Tail(q.queue) /\ next.stale = q.stale \ {Head(q.queue)}
        /\ next.open = q.open /\ next.behind = q.behind /\ next.missed = q.missed
    BY <1>2, <2>1 DEF Listener
  <2>4. Len(next.queue) <= Capacity
    <3>1. Len(q.queue) \in Nat
      BY <1>2
    <3>2. QED
      BY <1>2, <2>1, <2>3, <3>1, EventsAssumption
  <2> HIDE DEF next
  <2>5. next.open /\ ~next.behind /\ ~next.missed =>
            next.stale \subseteq Contents(next.queue) \cup Pending \cup untold
    BY <1>2, <2>1, <2>3 DEF Informed
  <2>6. QED
    BY <2>2, <2>3, <2>4, <2>5, ReaderKeeps
<1>5. CASE Lagged(l)
  <2> DEFINE next == [q EXCEPT !.behind = FALSE, !.missed = TRUE]
  <2>1. listener' = [listener EXCEPT ![l] = next]
    BY <1>5 DEF Lagged, ConsoleInv, EventsTypeOK
  <2>2. next \in Listener /\ next.queue = q.queue /\ next.missed
    BY <1>2 DEF Listener
  <2> HIDE DEF next
  <2>3. QED
    BY <1>2, <2>1, <2>2, ReaderKeeps
<1>6. QED
  BY <1>1, <1>3, <1>4, <1>5

LEMMA WritesKeep ==
    ASSUME ConsoleInv, NEW t \in Requests, WritesRow(t) \/ WritesOther(t)
    PROVE  ConsoleInv'
<1>1. CASE WritesRow(t)
  <2> DEFINE v == request[t].device
  <2>1. /\ Write(t) /\ written[t] = {} /\ v \in Devices /\ v \in Resources
    BY <1>1, ConsoleAssumption DEF WritesRow, Write, ConsoleInv, Inv, TypeOK
  <2>2. /\ Changed(v) /\ written' = [written EXCEPT ![t] = {v}] /\ untold' = untold
        /\ carried' = carried
        /\ scope' = [scope EXCEPT ![v] = carried[t]]
        /\ registered' \in {registered, [registered EXCEPT ![v] = carried[t]]}
    BY <1>1 DEF WritesRow
  <2> HIDE DEF v
  <2>3. Inv'
    BY <2>1, WriteKeepsInv DEF ConsoleInv
  <2>4. /\ scope' \in [Devices -> Scope] /\ registered' \in [Devices -> Scope]
    BY <2>1, <2>2 DEF ConsoleInv
  <2>5. \A u \in Requests : request'[u] # NoRequest => u # t /\ request'[u] = request[u]
    BY <2>1 DEF Write, ConsoleInv, Inv, TypeOK
  <2>6. QED
    BY <2>1, <2>2, <2>3, <2>4, <2>5, ChangedKeeps DEF ConsoleInv
<1>2. CASE WritesOther(t)
  <2>1. PICK x \in Resources : Changed(x) /\ written' = [written EXCEPT ![t] = {x}]
    BY <1>2 DEF WritesOther
  <2>2. /\ request[t] = NoRequest /\ written[t] = {}
        /\ UNCHANGED <<vars, scope, carried, registered, untold>>
    BY <1>2 DEF WritesOther
  <2>3. Inv'
    BY <2>2 DEF vars, ConsoleInv, Inv, TypeOK, RowsSound
  <2>4. QED
    BY <2>1, <2>2, <2>3, ChangedKeeps DEF vars, ConsoleInv
<1>3. QED
  BY <1>1, <1>2

LEMMA StopsKeep ==
    ASSUME ConsoleInv, NEW t \in Requests, Stops(t) \/ StopsUntold(t)
    PROVE  ConsoleInv'
<1>1. CASE Stops(t)
  <2>1. Inv'
    BY <1>1, StepSound DEF Stops, Next, ConsoleInv
  <2>2. \A u \in Requests : request'[u] # NoRequest => request'[u] = request[u]
    BY <1>1 DEF Stops, GiveUp, ConsoleInv, Inv, TypeOK
  <2>3. QED
    BY <1>1, <2>1, <2>2
       DEF Stops, consoleVars, ConsoleInv, EventsTypeOK, ListenerInformed, Informed, Pending
<1>2. CASE StopsUntold(t)
  <2>1. /\ written' \in [Requests -> AtMostOne]
        /\ \A u \in Requests : written'[u] = IF u = t THEN {} ELSE written[u]
        /\ untold' = untold \cup written[t] /\ untold' \subseteq Resources
        /\ UNCHANGED <<vars, listener, scope, carried, registered>>
    BY <1>2 DEF StopsUntold, ConsoleInv, AtMostOne
  <2>2. Pending \cup untold = Pending' \cup untold'
    BY <2>1 DEF Pending
  <2>3. Inv'
    BY <2>1 DEF vars, ConsoleInv, Inv, TypeOK, RowsSound
  <2>4. EventsTypeOK' /\ ListenerInformed'
    BY <2>1, <2>2 DEF ConsoleInv, EventsTypeOK, ListenerInformed, Informed
  <2>5. QED
    BY <2>1, <2>3, <2>4 DEF vars, ConsoleInv
<1>3. QED
  BY <1>1, <1>2

LEMMA ConsoleStepKeeps == ConsoleInv /\ [ConsoleNext]_allVars => ConsoleInv'
<1> SUFFICES ASSUME ConsoleInv, [ConsoleNext]_allVars PROVE ConsoleInv'
  OBVIOUS
<1>1. ASSUME NEW t \in Requests, Registers(t) PROVE ConsoleInv'
  <2>1. PICK s \in Scope : (RegisterWithProof(t) \/ RegisterWithoutProof(t)) /\ Load(t, s)
    BY <1>1, ConsoleAssumption DEF Registers
  <2>2. Inv'
    BY <2>1, DecisionsSound DEF ConsoleInv
  <2>3. \A u \in Requests \ {t} : request'[u] = request[u]
    BY <2>1, DecidesOn DEF ConsoleInv
  <2>4. QED
    BY <2>1, <2>2, <2>3, LoadKeeps
<1>2. ASSUME NEW t \in Requests, KeepsScope(t) PROVE ConsoleInv'
  <2>1. /\ \/ ProbeDevice(t) \/ RevokeTrust(t)
           \/ ConfirmRotation(t) \/ ResolveAttention(t) \/ ClearRevocation(t)
        /\ Load(t, scope[request'[t].device])
    BY <1>2 DEF KeepsScope
  <2>2. Inv'
    BY <2>1, DecisionsSound DEF ConsoleInv
  <2>3. /\ \A u \in Requests \ {t} : request'[u] = request[u]
        /\ scope[request'[t].device] \in Scope
    BY <2>1, DecidesOn DEF ConsoleInv
  <2>4. QED
    BY <2>1, <2>2, <2>3, LoadKeeps
<1>3. CASE UNCHANGED allVars
  <2>1. Inv'
    BY <1>3 DEF allVars, vars, ConsoleInv, Inv, TypeOK, RowsSound
  <2>2. QED
    BY <1>3, <2>1 DEF allVars, vars, consoleVars, ConsoleInv, EventsTypeOK,
                      ListenerInformed, Informed, Pending
<1>4. QED
  BY <1>1, <1>2, <1>3, TellsKeeps, ListenersKeep, WritesKeep, StopsKeep DEF ConsoleNext

LEMMA ConsoleInvAlways == ConsoleSpec => []ConsoleInv
BY InitConsole, ConsoleStepKeeps, PTL DEF ConsoleSpec

(* The rows, the requests, the events and what is still to be told keep    *)
(* their types, and no reader's queue grows past the channel's capacity.   *)
THEOREM ConsoleTypeCorrect == ConsoleSpec => []ConsoleTypeOK
<1>1. ConsoleInv => ConsoleTypeOK
  BY DEF ConsoleInv, ConsoleTypeOK, Inv, AtMostOne
<1>2. QED
  BY <1>1, ConsoleInvAlways, PTL

(* A console that has not fallen behind the channel knows of every write,  *)
(* or is about to be told, however many requests write and stop at once.   *)
THEOREM ConsolesInformed == ConsoleSpec => []ListenerInformed
<1>1. ConsoleInv => ListenerInformed
  BY DEF ConsoleInv
<1>2. QED
  BY <1>1, ConsoleInvAlways, PTL

-----------------------------------------------------------------------------
(* Requests for a device one at a time: what a request carries is what the *)
(* device serves already, unless it registers.                             *)
CarriedInTurn ==
    /\ scope = registered
    /\ \A t \in Requests :
          request[t] # NoRequest /\ request[t].op \notin {"register", "rotate"} =>
              carried[t] = scope[request[t].device]

LEMMA CarriedStep ==
    RequestsInTurn /\ ConsoleInv /\ CarriedInTurn /\ [ConsoleNext]_allVars
        => CarriedInTurn'
<1> SUFFICES ASSUME RequestsInTurn, ConsoleInv, CarriedInTurn, [ConsoleNext]_allVars
             PROVE  CarriedInTurn'
  OBVIOUS
<1>1. ASSUME NEW t \in Requests, Registers(t) \/ KeepsScope(t) PROVE CarriedInTurn'
  <2>1. PICK s : Load(t, s) /\ (KeepsScope(t) => s = scope[request'[t].device])
    BY <1>1 DEF Registers, KeepsScope
  <2>2. /\ carried' = [carried EXCEPT ![t] = s] /\ scope' = scope /\ registered' = registered
    BY <2>1 DEF Load
  <2>3. carried'[t] = s
    BY <2>2 DEF ConsoleInv
  <2>4. Registers(t) => request'[t].op \in {"register", "rotate"}
    BY DecidesOn DEF Registers, ConsoleInv
  <2>5. request'[t].op \notin {"register", "rotate"} => carried'[t] = scope'[request'[t].device]
    BY <1>1, <2>1, <2>2, <2>3, <2>4
  <2>6. \A u \in Requests : u # t => request'[u] = request[u] /\ carried'[u] = carried[u]
    BY <1>1, <2>2, DecidesOn DEF Registers, KeepsScope, ConsoleInv
  <2>7. QED
    BY <2>2, <2>5, <2>6 DEF CarriedInTurn
<1>2. ASSUME NEW t \in Requests, WritesRow(t) PROVE CarriedInTurn'
  <2> DEFINE v == request[t].device
  <2>1. /\ request[t] # NoRequest /\ v \in Devices
        /\ scope' = [scope EXCEPT ![v] = carried[t]]
        /\ registered' = IF request[t].op \in {"register", "rotate"}
                         THEN [registered EXCEPT ![v] = carried[t]] ELSE registered
    BY <1>2 DEF WritesRow, Write, ConsoleInv, Inv, TypeOK
  <2>2. scope' = registered'
    BY <2>1 DEF CarriedInTurn, ConsoleInv
  <2>3. \A u \in Requests : request'[u] # NoRequest =>
           request'[u] = request[u] /\ request[u].device # v
    BY <1>2 DEF WritesRow, Write, RequestsInTurn, ConsoleInv, Inv, TypeOK
  <2>4. carried' = carried
    BY <1>2 DEF WritesRow
  <2>5. \A w \in Devices : w # v => scope'[w] = scope[w]
    BY <2>1 DEF ConsoleInv
  <2>6. \A u \in Requests : request[u] # NoRequest => request[u].device \in Devices
    BY DEF ConsoleInv, Inv, TypeOK
  <2> HIDE DEF v
  <2>7. QED
    BY <2>2, <2>3, <2>4, <2>5, <2>6 DEF CarriedInTurn
<1>3. ASSUME NEW t \in Requests, Stops(t) PROVE CarriedInTurn'
  <2>1. \A u \in Requests : request'[u] # NoRequest => request'[u] = request[u]
    BY <1>3 DEF Stops, GiveUp, ConsoleInv, Inv, TypeOK
  <2>2. QED
    BY <1>3, <2>1 DEF Stops, consoleVars, CarriedInTurn
<1>4. ASSUME UNCHANGED <<vars, scope, carried, registered>> PROVE CarriedInTurn'
  BY <1>4 DEF vars, CarriedInTurn
<1>5. QED
  BY <1>1, <1>2, <1>3, <1>4
     DEF ConsoleNext, allVars, consoleVars, WritesOther, Tells, StopsUntold

(* A probe or an operator's action does not take back what a device has    *)
(* registered, as long as requests for it come one at a time               *)
(* (upsert_device_row writes the whole row).                               *)
THEOREM RegistrationsKept ==
    ConsoleSpec /\ []RequestsInTurn => []ServesAsRegistered
<1>1. ConsoleInit => CarriedInTurn
  BY DEF ConsoleInit, Init, CarriedInTurn
<1>2. RequestsInTurn /\ ConsoleInv /\ CarriedInTurn /\ [ConsoleNext]_allVars => CarriedInTurn'
  BY CarriedStep
<1>3. CarriedInTurn => ServesAsRegistered
  BY DEF CarriedInTurn, ServesAsRegistered
<1>4. QED
  BY <1>1, <1>2, <1>3, ConsoleInvAlways, PTL DEF ConsoleSpec
-----------------------------------------------------------------------------
(* A row that dispatch takes, and what each request may make of one. *)
Passes(m) == ~m.attention /\ Normalized(m).status = "trusted"

LEMMA FinalizedPasses ==
    ASSUME NEW m \in Trust, Passes(Finalized(m))
    PROVE  m.status = "trusted" /\ Finalized(m).status = "trusted"
BY DEF Passes, Finalized, Stored, Trust

LEMMA ProbedPasses ==
    ASSUME Inv, NEW v \in Devices, row[v] # NoRow, Passes(Stored(row[v]))
    PROVE  Dispatchable(v) /\ CurrentKey(row[v]) = Stored(row[v]).key
<1>1. PICK m \in Trust : m = row[v] /\ (m.legacyKey # NoKey => m.status = "untrusted")
  BY DEF Inv, TypeOK, RowsSound
<1>2. /\ Stored(m).key = m.key /\ Stored(m).legacyKey = NoKey
      /\ Stored(m).status = m.status /\ Stored(m).revokedAt = m.revokedAt
      /\ Stored(m).attention = m.attention
  BY DEF Stored, Trust
<1>3. CurrentKey(Stored(m)) = m.key
  BY <1>2 DEF CurrentKey
<1>4. ~m.attention /\ Normalized(Stored(m)).status = "trusted"
  BY <1>1, <1>2 DEF Passes
<1>5. ~m.revokedAt /\ (m.status = "trusted" \/ (m.status = "untrusted" /\ m.key # NoKey))
  <2>1. Stored(m) \in Trust
    BY DEF Stored, Trust, MaybeKey
  <2>2. Normalized(Stored(m)).status =
            IF m.revokedAt THEN "revoked"
            ELSE IF m.status = "untrusted" /\ m.key # NoKey THEN "trusted" ELSE m.status
    BY <1>2, <1>3, <2>1 DEF Normalized, Trust
  <2>3. QED
    BY <1>4, <2>2
<1>6. CurrentKey(m) = m.key
  BY <1>1, <1>5 DEF CurrentKey
<1>7. Normalized(m).status = "trusted"
  BY <1>5, <1>6 DEF Normalized, Trust
<1>8. QED
  BY <1>1, <1>2, <1>4, <1>6, <1>7 DEF Dispatchable

LEMMA UnprovenPasses ==
    ASSUME Inv, NEW v \in Devices
    PROVE  Unproven(Loaded(v)) \in Trust /\ Unproven(Loaded(v)).status # "trusted"
<1>1. Loaded(v) \in Trust
  BY LoadedSound
<1>2. Loaded(v).revokedAt => Loaded(v).status # "trusted"
  <2>1. CASE row[v] = NoRow
    BY <2>1 DEF Loaded, DefaultTrust
  <2>2. CASE row[v] # NoRow
    <3>1. row[v] \in Trust
      BY <2>2 DEF Inv, TypeOK
    <3>2. QED
      BY <2>2, <3>1 DEF Loaded, Normalized, Trust
  <2>3. QED
    BY <2>1, <2>2
<1>3. QED
  BY <1>1, <1>2 DEF Unproven, Trust, Status

(* Whatever is let through that was not said anew was let through before.  *)
LEMMA DecidesPassing ==
    ASSUME Inv, NEW t \in Requests,
           \/ RegisterWithProof(t) \/ RegisterWithoutProof(t) \/ ProbeDevice(t)
           \/ RevokeTrust(t) \/ ConfirmRotation(t) \/ ResolveAttention(t)
           \/ ClearRevocation(t),
           Passes(request'[t].next)
    PROVE  \/ Vouches(t)'
           \/ /\ ProbeDevice(t)
              /\ Dispatchable(request'[t].device)
              /\ CurrentKey(row[request'[t].device]) = request'[t].next.key
<1>1. CASE RegisterWithProof(t)
  <2>1. PICK v \in Devices, proof \in Proof, op \in {"register", "rotate"} :
           Begin(t, op, v, Finalized(Proven(Loaded(v), proof)))
    BY <1>1 DEF RegisterWithProof
  <2>2. /\ request'[t].op \in {"register", "rotate"}
        /\ request'[t].next = Finalized(Proven(Loaded(v), proof))
    BY <2>1 DEF Begin, Inv, TypeOK
  <2>3. Proven(Loaded(v), proof) \in Trust
    BY LoadedSound DEF Proven, Trust, Status, Proof, MaybeKey
  <2>4. request'[t].next.status = "trusted"
    BY <2>2, <2>3, FinalizedPasses
  <2>5. QED
    BY <2>2, <2>4 DEF Vouches
<1>2. CASE RegisterWithoutProof(t)
  <2>1. PICK v \in Devices : Begin(t, "register", v, Finalized(Unproven(Loaded(v))))
    BY <1>2 DEF RegisterWithoutProof
  <2>2. request'[t].next = Finalized(Unproven(Loaded(v)))
    BY <2>1 DEF Begin, Inv, TypeOK
  <2>3. QED
    BY <2>2, UnprovenPasses, FinalizedPasses
<1>3. CASE ProbeDevice(t)
  <2>1. PICK v \in Devices : row[v] # NoRow /\ Begin(t, "probe", v, Stored(row[v]))
    BY <1>3 DEF ProbeDevice
  <2>2. request'[t].device = v /\ request'[t].next = Stored(row[v])
    BY <2>1 DEF Begin, Inv, TypeOK
  <2>3. QED
    BY <1>3, <2>1, <2>2, ProbedPasses
<1>4. CASE RevokeTrust(t)
  <2>1. PICK v \in Devices, key \in Keys :
           Begin(t, "revoke", v,
                 Finalized([Loaded(v) EXCEPT !.revokedKeys = @ \cup {key},
                                             !.status = "revoked", !.revokedAt = TRUE]))
    BY <1>4 DEF RevokeTrust
  <2>2. PICK m : m = [Loaded(v) EXCEPT !.revokedKeys = @ \cup {key},
                                       !.status = "revoked", !.revokedAt = TRUE]
    OBVIOUS
  <2>3. m \in Trust /\ m.status = "revoked"
    BY <2>2, LoadedSound DEF Trust, Status
  <2>4. request'[t].next = Finalized(m)
    BY <2>1, <2>2 DEF Begin, Inv, TypeOK
  <2>5. QED
    BY <2>3, <2>4, FinalizedPasses
<1>5. CASE ConfirmRotation(t) \/ ResolveAttention(t)
  <2>1. PICK v \in Devices, op \in {"confirm", "resolve"} : \E next : Begin(t, op, v, next)
    BY <1>5 DEF ConfirmRotation, ResolveAttention, AdminAction
  <2>2. request'[t].op \in {"confirm", "resolve"}
    BY <2>1 DEF Begin, Inv, TypeOK
  <2>3. QED
    BY <2>2 DEF Vouches
<1>6. CASE ClearRevocation(t)
  <2>1. PICK v \in Devices : Begin(t, "clear", v, Finalized(MakeUntrusted(Loaded(v))))
    BY <1>6 DEF ClearRevocation, AdminAction
  <2>2. request'[t].next = Finalized(MakeUntrusted(Loaded(v)))
    BY <2>1 DEF Begin, Inv, TypeOK
  <2>3. /\ MakeUntrusted(Loaded(v)) \in Trust
        /\ MakeUntrusted(Loaded(v)).status = "untrusted"
    BY LoadedSound DEF MakeUntrusted, Trust, Status, MaybeKey
  <2>4. QED
    BY <2>2, <2>3, FinalizedPasses
<1>7. QED
  BY <1>1, <1>2, <1>3, <1>4, <1>5, <1>6

VouchedInv ==
    /\ DOMAIN vouched = Devices
    /\ \A v \in Devices : Dispatchable(v) => Said(v, CurrentKey(row[v]), scope[v])
    /\ \A t \in Requests : request[t] # NoRequest /\ Passes(request[t].next) =>
          Vouches(t) \/ Said(request[t].device, request[t].next.key, carried[t])

LEMMA InitVouched == TargetsInit => VouchedInv
<1> SUFFICES ASSUME TargetsInit PROVE VouchedInv
  OBVIOUS
<1>1. /\ DOMAIN vouched = Devices
      /\ \A v \in Devices : Dispatchable(v) => Said(v, CurrentKey(row[v]), scope[v])
  BY DEF TargetsInit, Dispatchable, Said
<1>2. \A t \in Requests : request[t] = NoRequest
  BY DEF TargetsInit, ConsoleInit, Init
<1>3. QED
  BY <1>1, <1>2 DEF VouchedInv

LEMMA BegunVouched ==
    ASSUME ConsoleInv, VouchedInv, NEW t \in Requests, Registers(t) \/ KeepsScope(t),
           UNCHANGED vouched
    PROVE  VouchedInv'
<1>1. PICK s : Load(t, s) /\ (KeepsScope(t) => s = scope[request'[t].device])
  BY DEF Registers, KeepsScope
<1>2. carried'[t] = s /\ scope' = scope /\ \A u \in Requests \ {t} : carried'[u] = carried[u]
  BY <1>1 DEF Load, ConsoleInv
<1>3. /\ row' = row /\ request'[t].device \in Devices
      /\ \A u \in Requests \ {t} : request'[u] = request[u]
      /\ RegisterWithProof(t) \/ RegisterWithoutProof(t) =>
            request'[t].op \in {"register", "rotate"}
  BY DecidesOn DEF Registers, KeepsScope, ConsoleInv
<1>4. ASSUME Passes(request'[t].next)
      PROVE  Vouches(t)' \/ Said(request'[t].device, request'[t].next.key, carried'[t])
  <2>1. CASE Vouches(t)'
    BY <2>1
  <2>2. CASE ~Vouches(t)'
    <3>1. /\ ProbeDevice(t)
          /\ Dispatchable(request'[t].device)
          /\ CurrentKey(row[request'[t].device]) = request'[t].next.key
      BY <1>4, <2>2, DecidesPassing DEF Registers, KeepsScope, ConsoleInv
    <3>2. KeepsScope(t)
      <4>1. request'[t].op = "probe"
        BY <3>1 DEF ProbeDevice, Begin, ConsoleInv, Inv, TypeOK
      <4>2. QED
        BY <1>3, <4>1 DEF Registers
    <3>3. QED
      BY <1>1, <1>2, <1>3, <3>1, <3>2 DEF VouchedInv
  <2>3. QED
    BY <2>1, <2>2
<1>5. \A u \in Requests \ {t} : request'[u] # NoRequest /\ Passes(request'[u].next) =>
         Vouches(u)' \/ Said(request'[u].device, request'[u].next.key, carried'[u])
  BY <1>2, <1>3 DEF VouchedInv, Vouches
<1>6. \A v \in Devices : Dispatchable(v)' => Said(v, CurrentKey(row[v]), scope[v])'
  BY <1>2, <1>3 DEF VouchedInv, Dispatchable, Said
<1>7. \A u \in Requests : request'[u] # NoRequest /\ Passes(request'[u].next) =>
         Vouches(u)' \/ Said(request'[u].device, request'[u].next.key, carried'[u])
  BY <1>4, <1>5
<1>8. QED
  BY <1>6, <1>7 DEF VouchedInv, Said

LEMMA WrittenVouched ==
    ASSUME ConsoleInv, VouchedInv, NEW t \in Requests, WritesRow(t), Vouch(t)
    PROVE  VouchedInv'
<1>1. PICK v \in Devices, next \in Trust :
         /\ request[t] # NoRequest /\ request[t].device = v /\ request[t].next = next
         /\ next.legacyKey = NoKey
  BY DEF WritesRow, Write, ConsoleInv, Inv, TypeOK, RowsSound
<1>2. /\ row'[v] = next /\ scope'[v] = carried[t] /\ carried' = carried
      /\ \A w \in Devices \ {v} : row'[w] = row[w] /\ scope'[w] = scope[w]
      /\ \A u \in Requests : request'[u] # NoRequest => u # t /\ request'[u] = request[u]
  BY <1>1 DEF WritesRow, Write, ConsoleInv, Inv, TypeOK
<1>3. /\ DOMAIN vouched' = Devices
      /\ \A w \in Devices : vouched[w] \subseteq vouched'[w]
      /\ Vouches(t) => Said(v, next.key, carried[t])'
  BY <1>1, <1>2 DEF Vouch, VouchedInv, Said
<1>4. CurrentKey(next) = next.key
  BY <1>1 DEF CurrentKey
<1>5. Dispatchable(v)' => Said(v, CurrentKey(row[v]), scope[v])'
  <2>1. Dispatchable(v)' => Passes(next)
    BY <1>2 DEF Dispatchable, Passes
  <2>2. Passes(next) => Vouches(t) \/ Said(v, next.key, carried[t])
    BY <1>1 DEF VouchedInv
  <2>3. Said(v, next.key, carried[t]) => Said(v, next.key, carried[t])'
    BY <1>2, <1>3 DEF Said
  <2>4. Said(v, next.key, carried[t])' => Said(v, CurrentKey(row[v]), scope[v])'
    BY <1>2, <1>4 DEF Said
  <2>5. QED
    BY <1>3, <2>1, <2>2, <2>3, <2>4
<1>6. \A w \in Devices \ {v} : Dispatchable(w)' => Said(w, CurrentKey(row[w]), scope[w])'
  BY <1>2, <1>3 DEF VouchedInv, Dispatchable, Said
<1>7. ASSUME NEW u \in Requests, request'[u] # NoRequest, Passes(request'[u].next)
      PROVE  Vouches(u)' \/ Said(request[u].device, request[u].next.key, carried[u])'
  <2>1. /\ request[u] # NoRequest /\ request'[u] = request[u] /\ carried'[u] = carried[u]
        /\ request[u].device \in Devices
    BY <1>2, <1>7 DEF ConsoleInv, Inv, TypeOK
  <2>2. Vouches(u) => Vouches(u)'
    BY <2>1 DEF Vouches
  <2>3. Vouches(u) \/ Said(request[u].device, request[u].next.key, carried[u])
    BY <1>7, <2>1 DEF VouchedInv
  <2>4. QED
    BY <1>3, <2>1, <2>2, <2>3 DEF Said
<1>8. QED
  BY <1>3, <1>5, <1>6, <1>7 DEF VouchedInv

LEMMA OthersVouched ==
    ASSUME ConsoleInv, VouchedInv, UNCHANGED <<row, scope, carried, vouched>>,
           \A u \in Requests : request'[u] # NoRequest => request'[u] = request[u]
    PROVE  VouchedInv'
BY DEF VouchedInv, Dispatchable, Said, Vouches

LEMMA VouchedStep == ConsoleInv /\ VouchedInv /\ [TargetsNext]_targetVars => VouchedInv'
<1> SUFFICES ASSUME ConsoleInv, VouchedInv, [TargetsNext]_targetVars PROVE VouchedInv'
  OBVIOUS
<1>1. ASSUME NEW t \in Requests, Tells(t) \/ Stops(t) \/ StopsUntold(t), UNCHANGED vouched
      PROVE  VouchedInv'
  <2>1. /\ UNCHANGED <<row, scope, carried>>
        /\ \A u \in Requests : request'[u] # NoRequest => request'[u] = request[u]
    BY <1>1 DEF Tells, Stops, StopsUntold, GiveUp, vars, consoleVars, ConsoleInv, Inv, TypeOK
  <2>2. QED
    BY <1>1, <2>1, OthersVouched
<1>2. CASE UNCHANGED targetVars
  BY <1>2, OthersVouched DEF targetVars, allVars, vars, consoleVars
<1>3. QED
  BY <1>1, <1>2, BegunVouched, WrittenVouched DEF TargetsNext

(* A device that gets jobs is let run only what the holder of its key, or  *)
(* an operator, let stand, however requests overwrite each other's rows    *)
(* (select_dispatch_device, ensure_target_allowed, upsert_device_row).     *)
THEOREM TargetsAreVouched == TargetsSpec => []TargetsVouched
<1>1. TargetsInit => ConsoleInit
  BY DEF TargetsInit
<1>2. [TargetsNext]_targetVars => [ConsoleNext]_allVars
  BY DEF TargetsNext, ConsoleNext, targetVars
<1>3. VouchedInv => TargetsVouched
  BY DEF VouchedInv, TargetsVouched
<1>4. QED
  BY <1>1, <1>2, <1>3, InitVouched, VouchedStep, ConsoleInvAlways, PTL
     DEF TargetsSpec, ConsoleSpec
=============================================================================
