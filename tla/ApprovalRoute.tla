---------------------------- MODULE ApprovalRoute ----------------------------
(***************************************************************************)
(* routes/approvals.rs: an operator approves or rejects a push.  The       *)
(* decision is taken by a compare-and-set on the approval row; what it     *)
(* entails (a push command, or the end of the job) follows in later steps. *)
(***************************************************************************)
EXTENDS EdgeBus

CONSTANTS Resolvers, \* bound: approval requests in progress at once
          NoApproval

ASSUME ResolveAssumption == NoApproval \notin Approvals

ResolvePc == {"resolve", "check_device", "publish", "reset",
              "log_decision", "complete_job"}
Decision == {"approved", "rejected"}

NoResolve == [pc |-> "idle", approval |-> NoApproval, decision |-> "none"]

ResolveTypeOK ==
    /\ resolve \in [Resolvers ->
           [pc: ResolvePc, approval: Approvals, decision: Decision] \cup {NoResolve}]
    /\ \A r \in Resolvers :
          resolve[r] # NoResolve => approval[resolve[r].approval] # NoApprovalRow

ResolveInit == resolve = [r \in Resolvers |-> NoResolve]

ResolveGoto(r, pc) ==
    resolve' = [resolve EXCEPT ![r] =
                  [pc |-> pc, approval |-> resolve[r].approval,
                   decision |-> resolve[r].decision]]
ResolveEnds(r) == resolve' = [resolve EXCEPT ![r] = NoResolve]
ResolveAt(r, pc) == resolve[r].pc = pc
JobOf(r) == approval[resolve[r].approval].job
-----------------------------------------------------------------------------
(* The approval and its job are loaded; only a pending approval passes.    *)
LoadPending(r) ==
    /\ ResolveAt(r, "idle")
    /\ \E a \in Approvals, decision \in Decision :
          /\ approval[a].status = "pending"
          /\ resolve' = [resolve EXCEPT ![r] =
                           [pc |-> "resolve", approval |-> a, decision |-> decision]]
    /\ UNCHANGED <<busVars, storeVars, dispatch, consumer>>

(* Mutant of Resolve: the push branch is not limited to approvals. *)
ResolveEither(r) ==
    /\ ResolveAt(r, "resolve")
    /\ CanResolve(resolve[r].approval)
    /\ SetApprovalStatus(resolve[r].approval, resolve[r].decision)
    /\ ResolveGoto(r, "check_device")
    /\ UNCHANGED <<busVars, dispatch, consumer>>

(* resolve_approval_record: the update finds the row pending, or nothing   *)
(* is updated and the request ends in a conflict.                          *)
Resolve(r) ==
    /\ ResolveAt(r, "resolve")
    /\ CanResolve(resolve[r].approval)
    /\ SetApprovalStatus(resolve[r].approval, resolve[r].decision)
    /\ ResolveGoto(r, IF resolve[r].decision = "approved" THEN "check_device"
                                                          ELSE "log_decision")
    /\ UNCHANGED <<busVars, dispatch, consumer>>

ResolveConflict(r) ==
    /\ ResolveAt(r, "resolve")
    /\ ~CanResolve(resolve[r].approval)
    /\ ResolveEnds(r)
    /\ UNCHANGED <<busVars, storeVars, dispatch, consumer>>

(* The job must name a device that is trusted now, and have a branch.      *)
Pushable(j) == job[j].device \in trusted /\ j \in RepositoryJobs

(* Mutant of CheckDevice: an unpushable approval is not given back. *)
CheckDeviceKeeps(r) ==
    /\ ResolveAt(r, "check_device")
    /\ IF Pushable(JobOf(r)) THEN ResolveGoto(r, "publish") ELSE ResolveEnds(r)
    /\ UNCHANGED <<busVars, storeVars, dispatch, consumer>>

CheckDevice(r) ==
    /\ ResolveAt(r, "check_device")
    /\ ResolveGoto(r, IF Pushable(JobOf(r)) THEN "publish" ELSE "reset")
    /\ UNCHANGED <<busVars, storeVars, dispatch, consumer>>

PublishApproved(r) ==
    /\ ResolveAt(r, "publish")
    /\ PublishPush(resolve[r].approval)
    /\ ResolveGoto(r, "log_decision")
    /\ UNCHANGED <<storeVars, attempt, lifecycle, dispatch, consumer>>

(* Mutants of PublishApprovedFails: the command went out all the same; the *)
(* error is ignored; the approval is not given back.                       *)
PublishedThenFails(r) ==
    /\ ResolveAt(r, "publish") /\ "publish_error" \in Failures
    /\ PublishPush(resolve[r].approval)
    /\ ResolveGoto(r, "reset")
    /\ UNCHANGED <<storeVars, attempt, lifecycle, dispatch, consumer>>

PublishFailureIgnored(r) ==
    /\ ResolveAt(r, "publish") /\ "publish_error" \in Failures
    /\ ResolveGoto(r, "log_decision")
    /\ UNCHANGED <<busVars, storeVars, dispatch, consumer>>

PublishFailureUnreset(r) ==
    /\ ResolveAt(r, "publish") /\ "publish_error" \in Failures
    /\ ResolveEnds(r)
    /\ UNCHANGED <<busVars, storeVars, dispatch, consumer>>

PublishApprovedFails(r) ==
    /\ ResolveAt(r, "publish") /\ "publish_error" \in Failures
    /\ ResolveGoto(r, "reset")
    /\ UNCHANGED <<busVars, storeVars, dispatch, consumer>>

(* reset_approval_to_pending: refused by the unique index when another     *)
(* approval of the job is pending; the request ends with an error either   *)
(* way.                                                                    *)
ResetToPending(r) ==
    /\ ResolveAt(r, "reset")
    /\ IF PendingIndexFree(JobOf(r))
       THEN SetApprovalStatus(resolve[r].approval, "pending")
       ELSE UNCHANGED storeVars
    /\ ResolveEnds(r)
    /\ UNCHANGED <<busVars, dispatch, consumer>>

LogDecision(r) ==
    /\ ResolveAt(r, "log_decision")
    /\ InsertJobEvent(IF resolve[r].decision = "approved" THEN "approval.approved"
                                                          ELSE "approval.rejected",
                      resolve[r].approval)
    /\ IF resolve[r].decision = "rejected" THEN ResolveGoto(r, "complete_job")
                                           ELSE ResolveEnds(r)
    /\ UNCHANGED <<busVars, dispatch, consumer>>

(* A rejected push ends the job, whatever status its row has by now.       *)
CompleteRejected(r) ==
    /\ ResolveAt(r, "complete_job")
    /\ UpdateJobStatusOnly(JobOf(r), "completed")
    /\ ResolveEnds(r)
    /\ UNCHANGED <<busVars, dispatch, consumer>>

ResolveAborts(r) ==
    /\ ~ResolveAt(r, "idle") /\ "abort" \in Failures
    /\ ResolveEnds(r)
    /\ UNCHANGED <<busVars, storeVars, dispatch, consumer>>

ResolveStep(r) ==
    \/ Resolve(r) \/ ResolveConflict(r) \/ CheckDevice(r)
    \/ PublishApproved(r) \/ PublishApprovedFails(r) \/ ResetToPending(r)
    \/ LogDecision(r) \/ CompleteRejected(r)

ResolveNext == \E r \in Resolvers : LoadPending(r) \/ ResolveStep(r) \/ ResolveAborts(r)
=============================================================================
