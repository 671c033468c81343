------------------------------- MODULE EdgeBus -------------------------------
(***************************************************************************)
(* What the API talks to over NATS: the edges that run jobs and pushes.    *)
(* The edge program is not in this repository; it is modelled from the     *)
(* messages the API publishes and the lifecycle events it accepts.         *)
(*                                                                         *)
(* Core NATS delivers at most once: a command or an event may be lost, and *)
(* the events of the one subject the API consumes arrive in the order they *)
(* were published.                                                         *)
(***************************************************************************)
EXTENDS ApiTasks, Sequences

CONSTANTS Attempts, \* bound: dispatch commands ever published
          Outcomes, \* how an edge may end a run that needs no push
          Failures  \* the kinds of failure that may happen

AllOutcomes == {"completed", "completed_badly", "failed", "cancelled"}
AllFailures == {"crash",          \* the API process dies and restarts
                "abort",          \* a request is dropped, or a statement fails
                "db_error",       \* a statement of the lifecycle consumer fails
                "publish_error",  \* NATS refuses a publish
                "lose_command",   \* a published command never arrives
                "lose_event",     \* a lifecycle event never arrives
                "trust_change"}  \* a device is revoked, or trusted again

ASSUME BusAssumption == Outcomes \subseteq AllOutcomes /\ Failures \subseteq AllFailures

VARIABLES
    attempt,  \* per dispatch command published: its job and how far the edge got
    push,     \* per approval: push commands published, and how far the edge got
    lifecycle \* events on elowen.jobs.events the API has not taken yet

busVars == <<attempt, push, lifecycle>>

AttemptStage == {"sent", "lost", "running", "worked", "waiting", "over"}
Unused == [stage |-> "unused", job |-> NoJob]
PushStage == {"none", "sent", "lost", "pushing", "over"}

(* A lifecycle event, by what the consumer does with it: job.completed is  *)
(* split by its result and by push_required.                               *)
EventKind == AllOutcomes \cup {"started", "completed_for_push", "awaiting_approval",
                               "push_started", "push_completed"}
Event == [kind: EventKind, job: Jobs]

BusTypeOK ==
    /\ attempt \in [Attempts -> [stage: AttemptStage, job: Jobs] \cup {Unused}]
    /\ push \in [Approvals -> [stage: PushStage, sent: Nat]]
    /\ lifecycle \in Seq(Event)
    /\ \A a \in Approvals : push[a].stage # "none" => approval[a] # NoApprovalRow

BusInit ==
    /\ attempt = [n \in Attempts |-> Unused]
    /\ push = [a \in Approvals |-> [stage |-> "none", sent |-> 0]]
    /\ lifecycle = <<>>
-----------------------------------------------------------------------------
(* What the API does to the bus. *)

UnusedAttempts == {n \in Attempts : attempt[n].stage = "unused"}

PublishDispatch(j) ==
    \E n \in UnusedAttempts :
        attempt' = [attempt EXCEPT ![n] = [stage |-> "sent", job |-> j]]

PublishPush(a) ==
    push' = [push EXCEPT ![a] = [stage |-> "sent", sent |-> push[a].sent + 1]]
-----------------------------------------------------------------------------
(* What the edges do. *)

(* Published on elowen.jobs.events, and lost if the API is not listening.  *)
Emit(kind, j) ==
    \/ lifecycle' = Append(lifecycle, [kind |-> kind, job |-> j])
    \/ "lose_event" \in Failures /\ UNCHANGED lifecycle

Advance(n, from, to) ==
    /\ attempt[n].stage = from
    /\ attempt' = [attempt EXCEPT ![n] = [stage |-> to, job |-> attempt[n].job]]

EdgeStarts(n) ==
    /\ Advance(n, "sent", "running")
    /\ Emit("started", attempt[n].job)
    /\ UNCHANGED <<storeVars, push, taskVars>>

EdgeEnds(n) ==
    /\ Advance(n, "running", "over")
    /\ \E kind \in Outcomes : Emit(kind, attempt[n].job)
    /\ UNCHANGED <<storeVars, push, taskVars>>

(* A repository job that changed its branch reports completion first and   *)
(* asks for approval of the push in a second event.                        *)
EdgeCompletesForPush(n) ==
    /\ Advance(n, "running", "worked")
    /\ Emit("completed_for_push", attempt[n].job)
    /\ UNCHANGED <<storeVars, push, taskVars>>

EdgeAsksForApproval(n) ==
    /\ Advance(n, "worked", "waiting")
    /\ Emit("awaiting_approval", attempt[n].job)
    /\ UNCHANGED <<storeVars, push, taskVars>>

AdvancePush(a, from, to) ==
    /\ push[a].stage = from
    /\ push' = [push EXCEPT ![a] = [stage |-> to, sent |-> push[a].sent]]

EdgeStartsPush(a) ==
    /\ AdvancePush(a, "sent", "pushing")
    /\ Emit("push_started", approval[a].job)
    /\ UNCHANGED <<storeVars, attempt, taskVars>>

EdgeEndsPush(a) ==
    /\ AdvancePush(a, "pushing", "over")
    /\ \E kind \in {"push_completed", "failed"} : Emit(kind, approval[a].job)
    /\ UNCHANGED <<storeVars, attempt, taskVars>>

CommandLost ==
    /\ "lose_command" \in Failures
    /\ \/ \E n \in Attempts : Advance(n, "sent", "lost") /\ UNCHANGED push
       \/ \E a \in Approvals : AdvancePush(a, "sent", "lost") /\ UNCHANGED attempt
    /\ UNCHANGED <<storeVars, lifecycle, taskVars>>

EdgeNext ==
    \/ \E n \in Attempts :
          \/ EdgeStarts(n) \/ EdgeEnds(n)
          \/ EdgeCompletesForPush(n) \/ EdgeAsksForApproval(n)
    \/ \E a \in Approvals : EdgeStartsPush(a) \/ EdgeEndsPush(a)
    \/ CommandLost
=============================================================================
