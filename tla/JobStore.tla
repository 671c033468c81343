------------------------------ MODULE JobStore ------------------------------
(***************************************************************************)
(* The Postgres tables behind jobs: jobs, approvals, job_events, the       *)
(* job-related messages of a thread, and summaries.  Every operator below  *)
(* is one SQL statement of src/db/: the API runs each of them on its own,  *)
(* without a transaction around several, so a statement is the unit of     *)
(* atomicity of every specification that uses this module.                 *)
(*                                                                         *)
(* A timestamp is reduced to whether it is set, an id to membership in a   *)
(* set, and a text column to the part some statement or property reads.    *)
(***************************************************************************)
EXTENDS Naturals, FiniteSets

CONSTANTS Jobs,            \* ids a job row may get
          Approvals,       \* ids an approval row may get
          Devices,         \* registered devices
          NoJob, NoDevice, \* SQL null in a job or device column
          RepositoryJobs,  \* jobs whose target is a repository: they have a branch
          LegacyJobs       \* jobs that may be rows from before dispatch: status "pending"

ASSUME StoreAssumption ==
    /\ NoJob \notin Jobs
    /\ NoDevice \notin Devices
    /\ RepositoryJobs \subseteq Jobs
    /\ LegacyJobs \subseteq Jobs

VARIABLES
    job,       \* the jobs table, a row per id ("absent" before the insert)
    approval,  \* the approvals table, likewise
    auditLog,  \* rows of job_events, as <<event type, subject>>
    replies,   \* how many messages carry each job_event marker
    summaries, \* per job: the newest summary version and the one the job points to
    trusted    \* devices ensure_device_trusted_for_dispatch accepts

storeVars == <<job, approval, auditLog, replies, summaries, trusted>>

JobStatus == {"absent", "pending", "probing", "dispatched", "running",
              "awaiting_approval", "completed", "failed", "cancelled"}
FailureClass == {"none", "edge_unavailable", "infrastructure", "execution"}

(* The event types some statement or property reads back from job_events.  *)
(* The others (job.probe_result, job.dispatched, ...) are display only.    *)
JobEvents == {"job.created"} \X Jobs
ApprovalEvents == {"approval.approved", "approval.rejected"} \X Approvals

(* The suffixes of the markers job_event:<job>:<suffix> that make an       *)
(* assistant reply recognisable as already posted.                         *)
Markers == {"started", "completed", "failed", "awaiting_approval",
            "push_started", "push_completed"}

JobRow == [status: JobStatus, result: {"none", "success", "failure"},
           failureClass: FailureClass, completedAt: BOOLEAN,
           device: Devices \cup {NoDevice}]
NoApprovalRow == [status |-> "absent", job |-> NoJob]
ApprovalRow == [status: {"pending", "approved", "rejected"}, job: Jobs]

StoreTypeOK ==
    /\ job \in [Jobs -> JobRow]
    /\ approval \in [Approvals -> ApprovalRow \cup {NoApprovalRow}]
    /\ auditLog \subseteq JobEvents \cup ApprovalEvents
    /\ replies \in [Jobs -> [Markers -> Nat]]
    /\ summaries \in [Jobs -> [latest: Nat, current: Nat]]
    /\ trusted \subseteq Devices

NewRow(status, device) ==
    [status |-> status, result |-> "none", failureClass |-> "none",
     completedAt |-> FALSE, device |-> device]

(* Legacy rows name no device, and their job.created event may be missing. *)
StoreInit ==
    /\ \E legacy \in SUBSET LegacyJobs :
          /\ job = [j \in Jobs |->
                       NewRow(IF j \in legacy THEN "pending" ELSE "absent", NoDevice)]
          /\ auditLog \in SUBSET ({"job.created"} \X legacy)
    /\ approval = [a \in Approvals |-> NoApprovalRow]
    /\ replies = [j \in Jobs |-> [m \in Markers |-> 0]]
    /\ summaries = [j \in Jobs |-> [latest |-> 0, current |-> 0]]
    /\ trusted = Devices
-----------------------------------------------------------------------------
(* Each statement writes one table. *)

JobsOnly == UNCHANGED <<approval, auditLog, replies, summaries, trusted>>
ApprovalsOnly == UNCHANGED <<job, auditLog, replies, summaries, trusted>>
EventsOnly == UNCHANGED <<job, approval, replies, summaries, trusted>>
MessagesOnly == UNCHANGED <<job, approval, auditLog, summaries, trusted>>
SummariesOnly == UNCHANGED <<job, approval, auditLog, replies, trusted>>

InsertJob(j, device) ==
    /\ job' = [job EXCEPT ![j] = NewRow("probing", device)]
    /\ JobsOnly

(* update_job_state: unconditional, whatever status the row has by now.    *)
UpdateJobState(j, status, result, failureClass, completedAt) ==
    /\ job' = [job EXCEPT ![j] =
                 [status |-> status, result |-> result, failureClass |-> failureClass,
                  completedAt |-> completedAt, device |-> job[j].device]]
    /\ JobsOnly

(* update_job_status_only: result, failure class and completed_at stay.    *)
UpdateJobStatusOnly(j, status) ==
    UpdateJobState(j, status, job[j].result, job[j].failureClass, job[j].completedAt)

InsertJobEvent(type, subject) ==
    /\ auditLog' = auditLog \cup {<<type, subject>>}
    /\ EventsOnly
Logged(type, subject) == <<type, subject>> \in auditLog

(* store_job_summary: the new version is one more than the newest; the     *)
(* job's current_summary_id is set by a second statement.                  *)
InsertSummary(j) ==
    /\ summaries' = [summaries EXCEPT ![j] =
                       [latest |-> summaries[j].latest + 1, current |-> summaries[j].current]]
    /\ SummariesOnly
PointToSummary(j) ==
    /\ summaries' = [summaries EXCEPT ![j] =
                       [latest |-> summaries[j].latest, current |-> summaries[j].latest]]
    /\ SummariesOnly

(* An assistant reply is posted only if its marker is not there.  Only the *)
(* consumer posts these, so the select and the insert are one step.        *)
AddReply(j, marker) ==
    /\ replies' = [replies EXCEPT ![j] =
                     [replies[j] EXCEPT ![marker] = replies[j][marker] + 1]]
    /\ MessagesOnly
PostReplyOnce(j, marker) ==
    IF replies[j][marker] = 0 THEN AddReply(j, marker) ELSE UNCHANGED storeVars

(* The partial unique index on (job_id, action_type) where pending.        *)
PendingFor(j) == {a \in Approvals : approval[a].status = "pending" /\ approval[a].job = j}
PendingIndexFree(j) == PendingFor(j) = {}

WriteApproval(a, status, j) ==
    /\ approval' = [approval EXCEPT ![a] = [status |-> status, job |-> j]]
    /\ ApprovalsOnly
InsertOpenApproval(a, j) == WriteApproval(a, "open", j) \* mutant: an unknown status
InsertPendingApproval(a, j) == WriteApproval(a, "pending", j)
SetApprovalStatus(a, status) == WriteApproval(a, status, approval[a].job)

(* resolve_approval_record: compare-and-set on status = 'pending'.         *)
CanResolveAny(a) == approval[a].status # "absent" \* mutant: no "and status = 'pending'"
CanResolve(a) == approval[a].status = "pending"
=============================================================================
