---------------------------- MODULE JobLifecycle ----------------------------
(***************************************************************************)
(* services/lifecycle.rs: one task takes lifecycle events off the NATS     *)
(* subscription, one at a time, and folds each into the tables in a fixed  *)
(* order of statements.  When one of them fails the event is logged and    *)
(* dropped, with what was written so far left in place.                    *)
(***************************************************************************)
EXTENDS EdgeBus

ConsumerPc == {"idle", "update_state", "insert_summary", "point_to_summary",
               "find_pending", "insert_approval", "post_reply"}

NoEvent == [kind |-> "none", job |-> NoJob]
ConsumerIdle == [pc |-> "idle", event |-> NoEvent]

ConsumerTypeOK ==
    \/ consumer = ConsumerIdle
    \/ consumer \in [pc: ConsumerPc \ {"idle"}, event: Event]

ConsumerInit == consumer = ConsumerIdle

ConsumerAt(pc) == consumer.pc = pc
ConsumerGoto(pc) == consumer' = [pc |-> pc, event |-> consumer.event]
Kind == consumer.event.kind
EventJob == consumer.event.job
-----------------------------------------------------------------------------
(* What an event carries, by its kind.  A push_started event stands for    *)
(* those without a status: they leave the job's row alone.                 *)

CarriesStatus(kind) == kind # "push_started"

StatusOf(kind) ==
    CASE kind = "started" -> "running"
      [] kind = "awaiting_approval" -> "awaiting_approval"
      [] kind = "failed" -> "failed"
      [] kind = "cancelled" -> "cancelled"
      [] OTHER -> "completed"

ResultOf(kind) ==
    CASE kind \in {"completed", "completed_for_push", "awaiting_approval", "push_completed"}
            -> "success"
      [] kind \in {"completed_badly", "failed"} -> "failure"
      [] OTHER -> "none"

FailureClassOf(kind) == IF ResultOf(kind) = "failure" THEN "execution" ELSE "none"

CarriesSummary(kind) ==
    kind \in {"completed", "completed_badly", "completed_for_push", "failed"}

(* build_thread_assistant_reply: the marker of the reply to an event.      *)
(* Completion that leads to a push is answered by the approval request.    *)
HasReply(kind) == kind \notin {"completed_for_push", "cancelled"}
MarkerOf(kind) == IF kind = "completed_badly" THEN "completed" ELSE kind

(* Mutant of AfterReport: the approval request is answered, not recorded. *)
AfterReportReplies(kind) == "post_reply"

(* The step after the job's state, summary and report are written.         *)
AfterReport(kind) == IF kind = "awaiting_approval" THEN "find_pending" ELSE "post_reply"
AfterState(kind) == IF CarriesSummary(kind) THEN "insert_summary" ELSE AfterReport(kind)
-----------------------------------------------------------------------------
(* Take the next event and insert its job_events row. *)
TakeEvent ==
    /\ ConsumerAt("idle") /\ lifecycle # <<>>
    /\ consumer' = [pc |-> IF CarriesStatus(Head(lifecycle).kind)
                           THEN "update_state"
                           ELSE AfterState(Head(lifecycle).kind),
                    event |-> Head(lifecycle)]
    /\ lifecycle' = Tail(lifecycle)
    /\ UNCHANGED <<storeVars, attempt, push, dispatch, resolve>>

FoldState ==
    /\ ConsumerAt("update_state")
    /\ UpdateJobState(EventJob, StatusOf(Kind), ResultOf(Kind), FailureClassOf(Kind),
                      StatusOf(Kind) \in {"completed", "failed", "cancelled"})
    /\ ConsumerGoto(AfterState(Kind))
    /\ UNCHANGED <<busVars, dispatch, resolve>>

(* store_job_summary, in two steps; the execution report, which no         *)
(* property reads, is written with the second.                             *)
(* Mutant of StoreSummary: the job is left pointing to the older summary. *)
StoreSummaryUnlinked ==
    /\ ConsumerAt("insert_summary")
    /\ InsertSummary(EventJob)
    /\ ConsumerGoto(AfterReport(Kind))
    /\ UNCHANGED <<busVars, dispatch, resolve>>

StoreSummary ==
    /\ ConsumerAt("insert_summary")
    /\ InsertSummary(EventJob)
    /\ ConsumerGoto("point_to_summary")
    /\ UNCHANGED <<busVars, dispatch, resolve>>

PointJobToSummary ==
    /\ ConsumerAt("point_to_summary")
    /\ PointToSummary(EventJob)
    /\ ConsumerGoto(AfterReport(Kind))
    /\ UNCHANGED <<busVars, dispatch, resolve>>

(* Mutant of FindPending: an approval that was decided is taken for the one *)
(* that is asked for.                                                      *)
FindAnyApproval ==
    /\ ConsumerAt("find_pending")
    /\ ConsumerGoto(IF \E a \in Approvals : approval[a].job = EventJob
                    THEN "post_reply" ELSE "insert_approval")
    /\ UNCHANGED <<busVars, storeVars, dispatch, resolve>>

(* upsert_pending_push_approval: a select, then perhaps an insert.  The    *)
(* approval.requested row that follows either way is display only.         *)
FindPending ==
    /\ ConsumerAt("find_pending")
    /\ ConsumerGoto(IF PendingFor(EventJob) = {} THEN "insert_approval" ELSE "post_reply")
    /\ UNCHANGED <<busVars, storeVars, dispatch, resolve>>

(* Bound: the insert needs an unused approval id; there is one per attempt,*)
(* and an attempt asks at most once.                                       *)
InsertApproval ==
    /\ ConsumerAt("insert_approval") /\ PendingIndexFree(EventJob)
    /\ \E a \in Approvals :
          /\ approval[a].status = "absent"
          /\ InsertPendingApproval(a, EventJob)
    /\ ConsumerGoto("post_reply")
    /\ UNCHANGED <<busVars, dispatch, resolve>>

(* A reset made an approval of the job pending since the select: the index *)
(* refuses the insert and the event is dropped.                            *)
InsertApprovalRefused ==
    /\ ConsumerAt("insert_approval") /\ ~PendingIndexFree(EventJob)
    /\ consumer' = ConsumerIdle
    /\ UNCHANGED <<busVars, storeVars, dispatch, resolve>>

PostReply ==
    /\ ConsumerAt("post_reply")
    /\ IF HasReply(Kind) THEN PostReplyOnce(EventJob, MarkerOf(Kind))
                         ELSE UNCHANGED storeVars
    /\ consumer' = ConsumerIdle
    /\ UNCHANGED <<busVars, dispatch, resolve>>

ConsumerDropsEvent ==
    /\ ~ConsumerAt("idle") /\ "db_error" \in Failures
    /\ consumer' = ConsumerIdle
    /\ UNCHANGED <<busVars, storeVars, dispatch, resolve>>

ConsumerStep ==
    \/ TakeEvent \/ FoldState \/ StoreSummary \/ PointJobToSummary
    \/ FindPending \/ InsertApproval \/ InsertApprovalRefused \/ PostReply

ConsumerNext == ConsumerStep \/ ConsumerDropsEvent
=============================================================================
