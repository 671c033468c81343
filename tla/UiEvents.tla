------------------------------- MODULE UiEvents -------------------------------
(***************************************************************************)
(* services/ui_events.rs: a broadcast channel by which requests tell the   *)
(* consoles that are open which rows have changed.  A reader of the channel*)
(* has its own place in it, and what lies before it is its queue here.     *)
(*                                                                         *)
(* The console (not in this repository) loads everything when it connects, *)
(* and what an event names when it gets the event.                         *)
(***************************************************************************)
EXTENDS Naturals, Sequences

CONSTANTS Listeners, \* open event streams
          Resources, \* what events are about
          Capacity   \* of the channel: 256 in app/mod.rs

ASSUME EventsAssumption == Capacity \in Nat \ {0}

VARIABLE listener

(* behind: more than Capacity events were sent that it has not read.       *)
(* missed: it has gone on after events it never read (history).            *)
(* stale: what has changed since the console loaded it.                    *)
Listener == [open: BOOLEAN, queue: Seq(Resources), behind: BOOLEAN,
             missed: BOOLEAN, stale: SUBSET Resources]
Closed == [open |-> FALSE, queue |-> <<>>, behind |-> FALSE,
           missed |-> FALSE, stale |-> {}]

EventsTypeOK ==
    /\ listener \in [Listeners -> Listener]
    /\ \A l \in Listeners : Len(listener[l].queue) <= Capacity
EventsInit == listener = [l \in Listeners |-> Closed]

Contents(queue) == {queue[i] : i \in DOMAIN queue}
-----------------------------------------------------------------------------
(* What publish_ui_event does to one reader: the channel holds the newest  *)
(* Capacity events, and a send never waits for a reader.                   *)
(* Mutants of Sent: what does not fit is dropped, and nobody notices; the  *)
(* channel grows.                                                          *)
SentIfRoom(q, x) ==
    IF ~q.open \/ Len(q.queue) = Capacity THEN q
    ELSE [q EXCEPT !.queue = Append(@, x)]
SentUnbounded(q, x) ==
    IF ~q.open THEN q ELSE [q EXCEPT !.queue = Append(@, x)]
Sent(q, x) ==
    IF ~q.open THEN q
    ELSE IF Len(q.queue) < Capacity THEN [q EXCEPT !.queue = Append(@, x)]
    ELSE [q EXCEPT !.queue = Append(Tail(@), x), !.behind = TRUE]

PublishUiEvent(x) == listener' = [l \in Listeners |-> Sent(listener[l], x)]

(* Rows of x were written.                                                 *)
Changed(x) == listener' = [l \in Listeners |->
    IF listener[l].open THEN [listener[l] EXCEPT !.stale = @ \cup {x}] ELSE listener[l]]

(* stream_ui_events: the stream has what is sent from now on.              *)
Connect(l) ==
    /\ ~listener[l].open
    /\ listener' = [listener EXCEPT ![l] = [Closed EXCEPT !.open = TRUE]]

Disconnect(l) ==
    /\ listener[l].open
    /\ listener' = [listener EXCEPT ![l] = Closed]

(* stream_from_broadcast: an event is passed on, and the console reloads.  *)
Receive(l) ==
    /\ listener[l].queue # <<>> /\ ~listener[l].behind
    /\ listener' = [listener EXCEPT ![l].queue = Tail(@),
                                    ![l].stale = @ \ {Head(listener[l].queue)}]

(* RecvError::Lagged: the stream goes on with the oldest event there still *)
(* is.  The console is not told.                                           *)
Lagged(l) ==
    /\ listener[l].behind
    /\ listener' = [listener EXCEPT ![l].behind = FALSE, ![l].missed = TRUE]

ListenerNext == \E l \in Listeners : Connect(l) \/ Disconnect(l) \/ Receive(l) \/ Lagged(l)
=============================================================================
