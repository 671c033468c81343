---------------------------- MODULE Orchestrator ----------------------------
(***************************************************************************)
(* One API process: the create, retry and approval requests in progress,   *)
(* the lifecycle consumer beside them, the tables they share, and the      *)
(* edges they reach over NATS.                                             *)
(***************************************************************************)
EXTENDS JobDispatch, ApprovalRoute, JobLifecycle

vars == <<storeVars, busVars, taskVars>>

TypeOK ==
    /\ StoreTypeOK
    /\ BusTypeOK
    /\ DispatchTypeOK
    /\ ResolveTypeOK
    /\ ConsumerTypeOK

Init ==
    /\ StoreInit
    /\ BusInit
    /\ DispatchInit
    /\ ResolveInit
    /\ ConsumerInit
-----------------------------------------------------------------------------
(* An operator or a registration changes whether a device is trusted: what *)
(* the device routes do to the one fact dispatch reads.                    *)
TrustChanges ==
    /\ "trust_change" \in Failures
    /\ \E v \in Devices :
          trusted' = IF v \in trusted THEN trusted \ {v} ELSE trusted \cup {v}
    /\ UNCHANGED <<busVars, taskVars, job, approval, auditLog, replies, summaries>>

(* The process dies and starts again.  Tables and edges stay; requests,    *)
(* the event being folded and the events buffered in the subscription go.  *)
(* Commands buffered in the NATS client are lost by CommandLost, and events*)
(* published while the process is down by Emit.                            *)
Crash ==
    /\ "crash" \in Failures
    /\ dispatch' = [d \in Dispatchers |-> NoDispatch]
    /\ resolve' = [r \in Resolvers |-> NoResolve]
    /\ consumer' = ConsumerIdle
    /\ lifecycle' = <<>>
    /\ UNCHANGED <<storeVars, attempt, push>>

Next == DispatchNext \/ ResolveNext \/ ConsumerNext \/ EdgeNext \/ TrustChanges \/ Crash

Spec == Init /\ [][Next]_vars

(* Tokio runs every spawned task that can go on, and every await of a      *)
(* request ends: a probe after five seconds at the latest.  Nothing is     *)
(* assumed of operators, edges or the network.                             *)
Fairness ==
    /\ \A d \in Dispatchers : WF_vars(DispatchStep(d))
    /\ \A r \in Resolvers : WF_vars(ResolveStep(r))
    /\ WF_vars(ConsumerStep)

FairSpec == Spec /\ Fairness
-----------------------------------------------------------------------------
Published(j) == \E n \in Attempts : attempt[n].job = j
EdgeRan(j) == \E n \in Attempts :
    attempt[n].job = j /\ attempt[n].stage \in {"running", "worked", "waiting", "over"}
EdgeWaits(j) == \E n \in Attempts : attempt[n].job = j /\ attempt[n].stage = "waiting"

(* No status is invented: "dispatched" is written only once a command for  *)
(* the job was handed to NATS, and every status an edge reports only if an *)
(* edge really ran the job, however requests, events and crashes interleave*)
(* (the writes of services/jobs.rs, routes/approvals.rs and                *)
(* services/lifecycle.rs to the same row).                                 *)
StatusJustified == \A j \in Jobs :
    /\ job[j].status = "dispatched" => Published(j)
    /\ job[j].status \in {"running", "completed", "cancelled"} => EdgeRan(j)
    /\ job[j].status = "awaiting_approval" => EdgeWaits(j)
    /\ job[j].failureClass = "execution" => EdgeRan(j)

(* "Use Retry when an edge is online": a failed job is never beyond retry, *)
(* because the job.created row retry_job_dispatch reads its prompt from is *)
(* there.  The row and the job are inserted by two statements that a crash *)
(* may separate.                                                           *)
FailedIsRetryable == \A j \in Jobs :
    job[j].status = "failed" => Logged("job.created", j)

(* However many operators answer an approval at once, and however often a  *)
(* failed publish hands it back for another answer, at most one push       *)
(* command is ever published for it (resolve_approval, reset_approval...). *)
PushAtMostOnce == \A a \in Approvals : push[a].sent <= 1

(* Once its push command is out, an approval stays approved: no reset and  *)
(* no other operator's decision ever gets in behind the push.              *)
PushedStaysApproved == \A a \in Approvals :
    push[a].sent > 0 => approval[a].status = "approved"

(* The audit trail tells the truth: approval.approved is logged only after *)
(* the push went out, approval.rejected only if the rejection stands.      *)
AuditTruthful == \A a \in Approvals :
    /\ Logged("approval.approved", a) => push[a].sent > 0
    /\ Logged("approval.rejected", a) => approval[a].status = "rejected"

InHand(r) == resolve[r].pc \in {"check_device", "publish", "reset"}

(* Without a crash, an aborted request or a concurrent second dispatch of  *)
(* the job, no approval is left approved with no push and nobody to send   *)
(* it: a request that could not publish gives the approval back.           *)
ApprovedIsInHand == \A a \in Approvals :
    approval[a].status = "approved" /\ push[a].sent = 0 =>
        \E r \in Resolvers : InHand(r) /\ resolve[r].approval = a

(* Why the three hold: from the compare-and-set to the end of its publish  *)
(* or reset, an approved approval is in the hands of one request only, and *)
(* nothing has been pushed for it yet; after that the request's decision   *)
(* is final.                                                               *)
Decided(r) == resolve[r].pc \in {"log_decision", "complete_job"}

OneHandPerPush ==
    /\ PushAtMostOnce /\ PushedStaysApproved /\ AuditTruthful
    /\ \A r \in Resolvers : InHand(r) =>
          /\ resolve[r].decision = "approved"
          /\ approval[resolve[r].approval].status = "approved"
          /\ push[resolve[r].approval].sent = 0
    /\ \A r, s \in Resolvers :
          InHand(r) /\ InHand(s) /\ resolve[r].approval = resolve[s].approval => r = s
    /\ \A r \in Resolvers : Decided(r) =>
          IF resolve[r].decision = "approved"
          THEN push[resolve[r].approval].sent > 0
          ELSE approval[resolve[r].approval].status = "rejected"

(* What a dispatch of a job may still lead to: a run in progress, a report *)
(* of failure or a request for approval that is not folded in, an approval *)
(* that is open or whose push is under way, a rejection still to be        *)
(* written to the job's row.                                               *)
Leads(kind) == kind \in {"failed", "awaiting_approval"}
Runs(j) == {n \in Attempts :
    attempt[n].job = j /\ attempt[n].stage \in {"sent", "running", "worked"}}
Reports(j) == {i \in DOMAIN lifecycle : lifecycle[i].job = j}
LeadingReports(j) == {i \in Reports(j) : Leads(lifecycle[i].kind)}
Folding(j) == {e \in {consumer.event} : e.job = j /\ Leads(e.kind) /\
    consumer.pc \in {"update_state", "find_pending", "insert_approval"}}
OpenApprovals(j) == {a \in Approvals :
    /\ approval[a].job = j
    /\ approval[a].status \in {"pending", "approved"}
    /\ push[a].stage \in {"none", "sent", "pushing"}}
Rejections(j) == {r \in Resolvers :
    Decided(r) /\ resolve[r].decision = "rejected" /\ JobOf(r) = j}
Prospects(j) ==
    ({"run"} \X Runs(j)) \cup ({"report"} \X LeadingReports(j))
    \cup ({"fold"} \X Folding(j)) \cup ({"approval"} \X OpenApprovals(j))
    \cup ({"rejection"} \X Rejections(j))

Beginning(j) == \E d \in Dispatchers :
    dispatch[d].job = j /\ dispatch[d].pc # "mark_dispatched"
Quiet(j) ==
    /\ Prospects(j) = {} /\ Reports(j) = {}
    /\ ~(consumer.pc = "update_state" /\ consumer.event.job = j)

(* As long as a job's dispatch requests come one at a time, so do its      *)
(* lives: a dispatch begins only when nothing that an earlier one led to   *)
(* can still happen to the job, and nothing of it is left to be folded in. *)
(* So no late event is taken for one of the new run, no rejection ends it, *)
(* and no approval of the earlier one is in the way of a reset             *)
(* (retry_job_dispatch looks at the job's status only).                    *)
OneLifeAtATime == \A j \in Jobs :
    /\ \A x, y \in Prospects(j) : x = y
    /\ job[j].status \in {"absent", "pending", "failed"} \/ Beginning(j) => Quiet(j)

(* The condition: what the code leaves to its clients.                     *)
DispatchInTurn == \A d, e \in Dispatchers :
    dispatch[d].job = dispatch[e].job /\ dispatch[d].job # NoJob => d = e

(* A job that waits for approval can be answered: an approval of it is     *)
(* pending, or a request has it in hand and will push it or give it back,  *)
(* or its push is out; a rejection or the end of a push is about to end the*)
(* wait, or the consumer is about to record the request.  So no resolution,*)
(* failed publish, reset or retry, in whatever order they come, leaves a   *)
(* job waiting that no operator can see (routes/approvals.rs, and          *)
(* upsert_pending_push_approval in services/lifecycle.rs).                 *)
Answerable(a) ==
    \/ approval[a].status = "pending"
    \/ \E r \in Resolvers : InHand(r) /\ resolve[r].approval = a
    \/ push[a].stage \in {"sent", "lost", "pushing"}
EndsPush(kind) == kind \in {"push_completed", "failed"}
WaitEnds(j) ==
    \/ Rejections(j) # {}
    \/ \E i \in Reports(j) : EndsPush(lifecycle[i].kind)
    \/ /\ consumer.event.job = j
       /\ \/ consumer.pc = "update_state" /\ EndsPush(consumer.event.kind)
          \/ consumer.pc \in {"find_pending", "insert_approval"}
AwaitingIsAnswerable == \A j \in Jobs : job[j].status = "awaiting_approval" =>
    (\E a \in Approvals : approval[a].job = j /\ Answerable(a)) \/ WaitEnds(j)

(* While no statement fails, the summary a job points to is its newest,    *)
(* except between the two statements that store one.                       *)
SummaryCurrent == \A j \in Jobs :
    \/ summaries[j].current = summaries[j].latest
    \/ /\ consumer.pc = "point_to_summary" /\ consumer.event.job = j
       /\ summaries[j].latest = summaries[j].current + 1

(* The approval flow implements its promise. *)
Authorised == INSTANCE PushAuthorisation WITH
    Requests <- Approvals,
    decision <- [a \in Approvals |-> approval[a].status],
    pushes <- [a \in Approvals |-> push[a].sent]

AuthorisationKept == Authorised!Spec
(* "only failed or legacy pending jobs can be retried" (services/jobs.rs): *)
(* a job goes back to probing from no other status, so no run that is in   *)
(* progress or done is dispatched a second time.                           *)
RetryOnlyFailed == [][\A j \in Jobs :
    job[j].status \notin {"absent", "pending", "failed", "probing"} =>
        job'[j].status # "probing"]_vars

(* The API folds lifecycle events "back into thread and job state" (README)*)
(* and what an edge reported about a job is not undone by the request that *)
(* dispatched it.                                                          *)
FoldedStatusKept == [][\A j \in Jobs :
    job[j].status \in {"running", "awaiting_approval", "completed", "cancelled"} =>
        job'[j].status # "dispatched"]_vars
-----------------------------------------------------------------------------
(* As long as the process stays up and no request is aborted, a probing job*)
(* does not stay so: its probe ends, whatever the edge does.               *)
ProbingEnds == \A j \in Jobs :
    job[j].status = "probing" ~> job[j].status # "probing"

(* An approval taken by an operator ends in a push or is given back.       *)
ApprovedIsSettled == \A a \in Approvals :
    approval[a].status = "approved" ~>
        (push[a].sent > 0 \/ approval[a].status = "pending")

(* Each request for approval that reached the API is put before the        *)
(* operators, a retried job's second one too: while it is not recorded and *)
(* no approval of the job is pending, one is yet to be.  (Settled approvals*)
(* of earlier runs do not count, and by OneLifeAtATime none of them is     *)
(* pending by then.)                                                       *)
Requested(j) ==
    \/ \E i \in Reports(j) : lifecycle[i].kind = "awaiting_approval"
    \/ Folding(j) \cap {[kind |-> "awaiting_approval", job |-> j]} # {}
ApprovalRequestSeen == \A j \in Jobs :
    (Requested(j) /\ PendingFor(j) = {}) ~> PendingFor(j) # {}
=============================================================================
