----------------------------- MODULE JobDispatch -----------------------------
(***************************************************************************)
(* services/jobs.rs: the requests that create a job and retry one, down to *)
(* the publication of the dispatch command.  Each request is a task that   *)
(* awaits after every statement, so any other task may run between two of  *)
(* its steps.                                                              *)
(*                                                                         *)
(* Inserts of display-only job_events rows are folded into the step beside *)
(* them: no statement reads them back.                                     *)
(***************************************************************************)
EXTENDS EdgeBus

CONSTANT Dispatchers \* bound: create and retry requests in progress at once

DispatchPc == {"log_created", "mark_probing", "probe", "mark_unavailable",
               "publish", "mark_publish_failed", "mark_dispatched"}

NoDispatch == [pc |-> "idle", job |-> NoJob, device |-> NoDevice]

DispatchTypeOK ==
    dispatch \in [Dispatchers ->
        [pc: DispatchPc, job: Jobs, device: Devices] \cup {NoDispatch}]

DispatchInit == dispatch = [d \in Dispatchers |-> NoDispatch]

DispatchGoto(d, pc) ==
    dispatch' = [dispatch EXCEPT ![d] =
                   [pc |-> pc, job |-> dispatch[d].job, device |-> dispatch[d].device]]
DispatchEnds(d) == dispatch' = [dispatch EXCEPT ![d] = NoDispatch]
At(d, pc) == dispatch[d].pc = pc

(* Bound: a request starts only while a command is left for it to publish. *)
AttemptLeft ==
    Cardinality(UnusedAttempts) >
        Cardinality({d \in Dispatchers : dispatch[d].pc \in
                        {"log_created", "mark_probing", "probe", "publish"}})

(* select_dispatch_device: the device the row names, or else any device    *)
(* that qualifies.  That a device serves the job's target is configuration *)
(* and taken as given; that it is trusted is checked here, and only here.  *)
SelectableDevices(requested) ==
    {v \in trusted : requested \in {v, NoDevice}}
-----------------------------------------------------------------------------
(* Mutant of CreateJob: dispatch goes on without the job.created row. *)
CreateJobUnlogged(d) ==
    /\ At(d, "idle") /\ AttemptLeft
    /\ \E j \in Jobs, v \in SelectableDevices(NoDevice) :
          /\ job[j].status = "absent"
          /\ InsertJob(j, v)
          /\ dispatch' = [dispatch EXCEPT ![d] =
                            [pc |-> "mark_probing", job |-> j, device |-> v]]
    /\ UNCHANGED <<busVars, resolve, consumer>>

(* create_job_record: select a device and insert the row, status probing.  *)
CreateJob(d) ==
    /\ At(d, "idle") /\ AttemptLeft
    /\ \E j \in Jobs, v \in SelectableDevices(NoDevice) :
          /\ job[j].status = "absent"
          /\ InsertJob(j, v)
          /\ dispatch' = [dispatch EXCEPT ![d] =
                            [pc |-> "log_created", job |-> j, device |-> v]]
    /\ UNCHANGED <<busVars, resolve, consumer>>

LogCreated(d) ==
    /\ At(d, "log_created")
    /\ InsertJobEvent("job.created", dispatch[d].job)
    /\ DispatchGoto(d, "mark_probing")
    /\ UNCHANGED <<busVars, resolve, consumer>>

(* Mutant of Retryable: a job may be sent again while nothing came of it. *)
RetryableUnanswered(j) == job[j].status \in {"failed", "pending", "dispatched"}

Retryable(j) == job[j].status \in {"failed", "pending"}

(* retry_job_dispatch: every check is a read, made before the first write. *)
RetryJob(d) ==
    /\ At(d, "idle") /\ AttemptLeft
    /\ \E j \in Jobs :
          /\ Retryable(j)
          /\ Logged("job.created", j)
          /\ \E v \in SelectableDevices(job[j].device) :
                dispatch' = [dispatch EXCEPT ![d] =
                               [pc |-> "mark_probing", job |-> j, device |-> v]]
    /\ UNCHANGED <<busVars, storeVars, resolve, consumer>>

(* attempt_job_dispatch, from its first statement on. *)
MarkProbing(d) ==
    /\ At(d, "mark_probing")
    /\ UpdateJobState(dispatch[d].job, "probing", "none", "none", FALSE)
    /\ DispatchGoto(d, "probe")
    /\ UNCHANGED <<busVars, resolve, consumer>>

(* The device answers within five seconds that it is available, or it      *)
(* answers that it is not, or with another probe's answer, or not at all.  *)
ProbeAnswered(d) ==
    /\ At(d, "probe")
    /\ DispatchGoto(d, "publish")
    /\ UNCHANGED <<busVars, storeVars, resolve, consumer>>

(* Mutant of ProbeFailed: a failed probe ends the request, nothing is marked. *)
ProbeFailedUnmarked(d) ==
    /\ At(d, "probe")
    /\ DispatchEnds(d)
    /\ UNCHANGED <<busVars, storeVars, resolve, consumer>>

ProbeFailed(d) ==
    /\ At(d, "probe")
    /\ DispatchGoto(d, "mark_unavailable")
    /\ UNCHANGED <<busVars, storeVars, resolve, consumer>>

MarkUnavailable(d) ==
    /\ At(d, "mark_unavailable")
    /\ UpdateJobState(dispatch[d].job, "failed", "failure", "edge_unavailable", TRUE)
    /\ DispatchEnds(d)
    /\ UNCHANGED <<busVars, resolve, consumer>>

Publish(d) ==
    /\ At(d, "publish")
    /\ PublishDispatch(dispatch[d].job)
    /\ DispatchGoto(d, "mark_dispatched")
    /\ UNCHANGED <<storeVars, push, lifecycle, resolve, consumer>>

(* Mutant of PublishFails: the publish error is ignored. *)
PublishFailsUnnoticed(d) ==
    /\ At(d, "publish") /\ "publish_error" \in Failures
    /\ DispatchGoto(d, "mark_dispatched")
    /\ UNCHANGED <<busVars, storeVars, resolve, consumer>>

PublishFails(d) ==
    /\ At(d, "publish") /\ "publish_error" \in Failures
    /\ DispatchGoto(d, "mark_publish_failed")
    /\ UNCHANGED <<busVars, storeVars, resolve, consumer>>

MarkPublishFailed(d) ==
    /\ At(d, "mark_publish_failed")
    /\ UpdateJobState(dispatch[d].job, "failed", "failure", "infrastructure", FALSE)
    /\ DispatchEnds(d)
    /\ UNCHANGED <<busVars, resolve, consumer>>

MarkDispatched(d) ==
    /\ At(d, "mark_dispatched")
    /\ UpdateJobState(dispatch[d].job, "dispatched", "none", "none", FALSE)
    /\ DispatchEnds(d)
    /\ UNCHANGED <<busVars, resolve, consumer>>

(* The client hangs up and the request's future is dropped at its await,   *)
(* or a statement fails and the handler returns the error.                 *)
DispatchAborts(d) ==
    /\ ~At(d, "idle") /\ "abort" \in Failures
    /\ DispatchEnds(d)
    /\ UNCHANGED <<busVars, storeVars, resolve, consumer>>

DispatchStep(d) ==
    \/ LogCreated(d) \/ MarkProbing(d)
    \/ ProbeAnswered(d) \/ ProbeFailed(d) \/ MarkUnavailable(d)
    \/ Publish(d) \/ PublishFails(d) \/ MarkPublishFailed(d) \/ MarkDispatched(d)

DispatchNext == \E d \in Dispatchers :
    CreateJob(d) \/ RetryJob(d) \/ DispatchStep(d) \/ DispatchAborts(d)
=============================================================================
