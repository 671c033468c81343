------------------------------ MODULE JobProofs ------------------------------
(***************************************************************************)
(* What a job's row says is so: whatever requests, events, failures and    *)
(* crashes do, each status has its cause and a failed job can be retried;  *)
(* and what stays in order while crashes or failures are left out.         *)
(***************************************************************************)
EXTENDS OrchestratorTypes

(* Over explicit tables: the commands published, at, and the event log, al.*)
RanStages == {"running", "worked", "waiting", "over"}
SentIn(at, j) == \E n \in Attempts : at[n].job = j
RanIn(at, j) == \E n \in Attempts : at[n].job = j /\ at[n].stage \in RanStages
WaitsIn(at, j) == \E n \in Attempts : at[n].job = j /\ at[n].stage = "waiting"
CreatedIn(al, j) == <<"job.created", j>> \in al

DispatchKnown(at, al, x) ==
    /\ x.pc \notin {"idle", "log_created"} => CreatedIn(al, x.job)
    /\ x.pc = "mark_dispatched" => SentIn(at, x.job)
EventTrue(at, e) ==
    /\ RanIn(at, e.job)
    /\ e.kind = "awaiting_approval" => WaitsIn(at, e.job)
ConsumerTrue(at, x) ==
    /\ x.pc # "idle" => EventTrue(at, x.event)
    /\ x.pc \in {"find_pending", "insert_approval"} => x.event.kind = "awaiting_approval"
RowJustified(at, al, row, j) ==
    /\ row.status = "dispatched" => SentIn(at, j)
    /\ row.status \in {"running", "completed", "cancelled"} => RanIn(at, j)
    /\ row.status = "awaiting_approval" => WaitsIn(at, j)
    /\ row.failureClass = "execution" => RanIn(at, j)
    /\ row.status = "failed" => CreatedIn(al, j)

(* A job is logged before any command is sent for it, and everything else  *)
(* is known of a job only once an edge has run it.                         *)
JobInv ==
    /\ \A n \in Attempts : attempt[n].stage # "unused" => CreatedIn(auditLog, attempt[n].job)
    /\ \A d \in Dispatchers : DispatchKnown(attempt, auditLog, dispatch[d])
    /\ \A i \in 1 .. Len(lifecycle) : EventTrue(attempt, lifecycle[i])
    /\ ConsumerTrue(attempt, consumer)
    /\ \A a \in Approvals : approval[a] # NoApprovalRow => WaitsIn(attempt, approval[a].job)
    /\ \A j \in Jobs : RowJustified(attempt, auditLog, job[j], j)

(* Nothing that was sent, run or logged is taken back.                     *)
Further(at, al, at2, al2) ==
    /\ al \subseteq al2
    /\ \A n \in Attempts :
          /\ at[n].stage # "unused" => at2[n].job = at[n].job /\ at2[n].stage # "unused"
          /\ at[n].stage \in RanStages => at2[n].stage \in RanStages
          /\ at[n].stage = "waiting" => at2[n].stage = "waiting"

AttemptsTyped(at) == at \in [Attempts -> [stage: AttemptStage, job: Jobs] \cup {Unused}]

LEMMA StaysKnown ==
    ASSUME NEW at, NEW al, NEW at2, NEW al2, AttemptsTyped(at), Further(at, al, at2, al2)
    PROVE  /\ \A j \in Jobs : SentIn(at, j) => SentIn(at2, j)
           /\ \A j \in Jobs : RanIn(at, j) => RanIn(at2, j)
           /\ \A j \in Jobs : WaitsIn(at, j) => WaitsIn(at2, j)
           /\ \A j : CreatedIn(al, j) => CreatedIn(al2, j)
<1>1. ASSUME NEW n \in Attempts, at[n].job \in Jobs
      PROVE  at[n].stage # "unused" /\ at2[n].job = at[n].job
  <2>1. at[n] \in [stage: AttemptStage, job: Jobs] \cup {Unused}
    BY DEF AttemptsTyped
  <2>2. at[n] # Unused
    BY <1>1, StoreAssumption DEF Unused
  <2>3. at[n].stage # "unused"
    BY <2>1, <2>2 DEF AttemptStage
  <2>4. QED
    BY <2>3 DEF Further
<1>2. QED
  BY <1>1 DEF Further, SentIn, RanIn, WaitsIn, CreatedIn

(* Whoever writes something writes what is known.                          *)
AttemptsLogged == \A n \in Attempts : \/ attempt'[n].stage = "unused"
                                      \/ attempt[n].stage # "unused"
                                      \/ CreatedIn(auditLog', attempt'[n].job)
DispatchersKnow == \A d \in Dispatchers : \/ dispatch'[d] = dispatch[d]
                                          \/ DispatchKnown(attempt', auditLog', dispatch'[d])
EventsStayTrue == \A i \in 1 .. Len(lifecycle') :
                     \/ \E k \in 1 .. Len(lifecycle) : lifecycle'[i] = lifecycle[k]
                     \/ EventTrue(attempt', lifecycle'[i])
ConsumerKnows == consumer' = consumer \/ ConsumerTrue(attempt', consumer')
ApprovalsAwaited == \A a \in Approvals : approval'[a] # NoApprovalRow =>
                       \/ approval[a] # NoApprovalRow /\ approval'[a].job = approval[a].job
                       \/ WaitsIn(attempt', approval'[a].job)
RowsFollow == \A j \in Jobs : \/ job'[j] = job[j]
                              \/ RowJustified(attempt', auditLog', job'[j], j)

LEMMA JobInvFrame ==
    ASSUME TypeOK, JobInv, Further(attempt, auditLog, attempt', auditLog'),
           AttemptsLogged, DispatchersKnow, EventsStayTrue, ConsumerKnows,
           ApprovalsAwaited, RowsFollow
    PROVE  JobInv'
<1>1. /\ AttemptsTyped(attempt) /\ lifecycle \in Seq(Event)
      /\ dispatch \in [Dispatchers ->
            [pc: DispatchPc, job: Jobs, device: Devices] \cup {NoDispatch}]
      /\ approval \in [Approvals -> ApprovalRow \cup {NoApprovalRow}]
      /\ consumer = ConsumerIdle \/ consumer \in [pc: ConsumerPc \ {"idle"}, event: Event]
  BY DEF TypeOK, BusTypeOK, StoreTypeOK, DispatchTypeOK, ConsumerTypeOK, AttemptsTyped
<1>2. /\ \A j \in Jobs : SentIn(attempt, j) => SentIn(attempt', j)
      /\ \A j \in Jobs : RanIn(attempt, j) => RanIn(attempt', j)
      /\ \A j \in Jobs : WaitsIn(attempt, j) => WaitsIn(attempt', j)
      /\ \A j : CreatedIn(auditLog, j) => CreatedIn(auditLog', j)
  BY <1>1, StaysKnown
<1>3. ASSUME NEW n \in Attempts, attempt'[n].stage # "unused"
      PROVE  CreatedIn(auditLog', attempt'[n].job)
  BY <1>2, <1>3 DEF JobInv, Further, AttemptsLogged
<1>4. ASSUME NEW d \in Dispatchers
      PROVE  DispatchKnown(attempt', auditLog', dispatch'[d])
  <2>1. CASE dispatch'[d] = dispatch[d]
    <3>1. dispatch[d].pc # "idle" => dispatch[d].job \in Jobs
      BY <1>1 DEF NoDispatch
    <3>2. QED
      BY <1>2, <2>1, <3>1 DEF JobInv, DispatchKnown
  <2>2. QED
    BY <2>1 DEF DispatchersKnow
<1>5. \A e \in Event : EventTrue(attempt, e) => EventTrue(attempt', e)
  BY <1>2 DEF EventTrue, Event
<1>6. ASSUME NEW i \in 1 .. Len(lifecycle')
      PROVE  EventTrue(attempt', lifecycle'[i])
  <2>1. ASSUME NEW k \in 1 .. Len(lifecycle), lifecycle'[i] = lifecycle[k]
        PROVE  EventTrue(attempt', lifecycle'[i])
    <3>1. lifecycle[k] \in Event
      BY <1>1
    <3>2. QED
      BY <1>5, <2>1, <3>1 DEF JobInv
  <2>2. QED
    BY <2>1 DEF EventsStayTrue
<1>7. ConsumerTrue(attempt', consumer')
  <2>1. consumer.pc # "idle" => consumer.event \in Event
    BY <1>1 DEF ConsumerIdle
  <2>2. QED
    BY <1>5, <2>1 DEF JobInv, ConsumerTrue, ConsumerKnows
<1>8. ASSUME NEW a \in Approvals, approval'[a] # NoApprovalRow
      PROVE  WaitsIn(attempt', approval'[a].job)
  <2>1. approval[a] # NoApprovalRow => approval[a].job \in Jobs
    BY <1>1 DEF ApprovalRow
  <2>2. QED
    BY <1>2, <1>8, <2>1 DEF JobInv, ApprovalsAwaited
<1>9. ASSUME NEW j \in Jobs
      PROVE  RowJustified(attempt', auditLog', job'[j], j)
  <2>1. CASE job'[j] = job[j]
    BY <1>2, <2>1 DEF JobInv, RowJustified
  <2>2. QED
    BY <2>1 DEF RowsFollow
<1>10. QED
  BY <1>3, <1>4, <1>6, <1>7, <1>8, <1>9 DEF JobInv

LEMMA NothingTakenBack ==
    ASSUME UNCHANGED attempt, auditLog \subseteq auditLog'
    PROVE  Further(attempt, auditLog, attempt', auditLog') /\ AttemptsLogged
BY DEF Further, AttemptsLogged

(* A step that only writes tables: it publishes and takes nothing.         *)
LEMMA TablesFrame ==
    ASSUME TypeOK, JobInv, UNCHANGED <<attempt, lifecycle, dispatch>>,
           auditLog \subseteq auditLog', ConsumerKnows, ApprovalsAwaited, RowsFollow
    PROVE  JobInv'
<1>1. Further(attempt, auditLog, attempt', auditLog') /\ AttemptsLogged
  BY NothingTakenBack
<1>2. DispatchersKnow /\ EventsStayTrue
  BY DEF DispatchersKnow, EventsStayTrue
<1>3. QED
  BY <1>1, <1>2, JobInvFrame

LEMMA UpdatedRow ==
    ASSUME TypeOK, NEW j \in Jobs, NEW s, NEW r, NEW f, NEW c, UpdateJobState(j, s, r, f, c)
    PROVE  /\ job'[j].status = s /\ job'[j].failureClass = f
           /\ \A k \in Jobs : k # j => job'[k] = job[k]
           /\ UNCHANGED <<approval, auditLog, replies, summaries>>
BY DEF UpdateJobState, JobsOnly, TypeOK, StoreTypeOK

LEMMA JobInvInit == Init => JobInv
<1> SUFFICES ASSUME Init PROVE JobInv
  OBVIOUS
<1>1. \A n \in Attempts : attempt[n].stage = "unused"
  BY DEF Init, BusInit, Unused
<1>2. \A d \in Dispatchers : dispatch[d].pc = "idle"
  BY DEF Init, DispatchInit, NoDispatch
<1>3. Len(lifecycle) = 0 /\ consumer.pc = "idle"
  BY DEF Init, BusInit, ConsumerInit, ConsumerIdle
<1>4. \A a \in Approvals : approval[a] = NoApprovalRow
  BY DEF Init, StoreInit
<1>5. \A j \in Jobs : job[j].status \in {"pending", "absent"} /\ job[j].failureClass = "none"
  BY DEF Init, StoreInit, NewRow
<1>6. QED
  BY <1>1, <1>2, <1>3, <1>4, <1>5 DEF JobInv, DispatchKnown, ConsumerTrue, RowJustified
-----------------------------------------------------------------------------
(* The dispatch of a job *)

LEMMA DispatchMoves ==
    ASSUME TypeOK, NEW d \in Dispatchers, NEW x,
           dispatch' = [dispatch EXCEPT ![d] = x]
    PROVE  \A e \in Dispatchers : dispatch'[e] = IF e = d THEN x ELSE dispatch[e]
BY DEF TypeOK, DispatchTypeOK

LEMMA DispatchKeepsJobs ==
    ASSUME TypeOK, JobInv, DispatchNext
    PROVE  JobInv'
<1> PICK d \in Dispatchers :
       CreateJob(d) \/ RetryJob(d) \/ DispatchStep(d) \/ DispatchAborts(d)
  BY DEF DispatchNext
<1> DEFINE j == dispatch[d].job
<1>1. ~At(d, "idle") => j \in Jobs
  BY DEF TypeOK, DispatchTypeOK, At, NoDispatch
<1>2. DispatchKnown(attempt, auditLog, dispatch[d])
  BY DEF JobInv
(* A step that writes no command and leaves job k's row justified.         *)
<1>3. ASSUME NEW x, dispatch' = [dispatch EXCEPT ![d] = x],
             UNCHANGED <<attempt, lifecycle, consumer, approval>>, auditLog \subseteq auditLog',
             DispatchKnown(attempt, auditLog', x), NEW k \in Jobs,
             RowJustified(attempt, auditLog', job'[k], k),
             \A i \in Jobs : i # k => job'[i] = job[i]
      PROVE  JobInv'
  <2>1. Further(attempt, auditLog, attempt', auditLog') /\ AttemptsLogged
    BY <1>3, NothingTakenBack
  <2>2. DispatchersKnow
    BY <1>3, DispatchMoves DEF DispatchersKnow
  <2>3. RowsFollow
    BY <1>3 DEF RowsFollow
  <2>4. EventsStayTrue /\ ConsumerKnows /\ ApprovalsAwaited
    BY <1>3 DEF EventsStayTrue, ConsumerKnows, ApprovalsAwaited
  <2>5. QED
    BY <2>1, <2>2, <2>3, <2>4, JobInvFrame
<1>4. NoDispatch.pc = "idle"
  BY DEF NoDispatch
<1>5. CASE CreateJob(d)
  <2>1. PICK k \in Jobs, v \in SelectableDevices(NoDevice) :
           /\ InsertJob(k, v)
           /\ dispatch' = [dispatch EXCEPT ![d] =
                             [pc |-> "log_created", job |-> k, device |-> v]]
    BY <1>5 DEF CreateJob
  <2>2. /\ job'[k].status = "probing" /\ job'[k].failureClass = "none"
        /\ \A i \in Jobs : i # k => job'[i] = job[i]
    BY <2>1 DEF InsertJob, NewRow, TypeOK, StoreTypeOK
  <2>3. UNCHANGED <<attempt, lifecycle, consumer, approval, auditLog>>
    BY <1>5, <2>1 DEF CreateJob, InsertJob, JobsOnly, busVars
  <2>4. QED
    BY <1>3, <2>1, <2>2, <2>3 DEF DispatchKnown, RowJustified
<1>6. CASE RetryJob(d)
  <2>1. PICK k \in Jobs, v \in trusted :
           /\ Logged("job.created", k)
           /\ dispatch' = [dispatch EXCEPT ![d] =
                             [pc |-> "mark_probing", job |-> k, device |-> v]]
    BY <1>6 DEF RetryJob, SelectableDevices
  <2>2. UNCHANGED <<attempt, lifecycle, consumer, approval, auditLog, job>>
    BY <1>6 DEF RetryJob, busVars, storeVars
  <2>3. RowJustified(attempt, auditLog, job[k], k)
    BY DEF JobInv
  <2>4. QED
    BY <1>3, <2>1, <2>2, <2>3 DEF DispatchKnown, Logged, CreatedIn
<1>7. CASE LogCreated(d)
  <2>1. /\ auditLog' = auditLog \cup {<<"job.created", j>>} /\ j \in Jobs
        /\ dispatch' = [dispatch EXCEPT ![d] =
                          [pc |-> "mark_probing", job |-> j, device |-> dispatch[d].device]]
        /\ UNCHANGED <<attempt, lifecycle, consumer, approval, job>>
    BY <1>1, <1>7 DEF LogCreated, InsertJobEvent, EventsOnly, DispatchGoto, busVars, At
  <2>2. RowJustified(attempt, auditLog', job[j], j)
    BY <2>1 DEF JobInv, RowJustified, CreatedIn
  <2>3. QED
    BY <1>3, <2>1, <2>2 DEF DispatchKnown, CreatedIn
(* A step that writes one row, or none, in the name of a logged job.       *)
<1>8. ASSUME ~At(d, "idle"), NEW pc, pc # "mark_dispatched" \/ SentIn(attempt, j),
             ~At(d, "log_created"),
             \/ DispatchGoto(d, pc) \/ DispatchEnds(d),
             UNCHANGED <<attempt, lifecycle, consumer>>,
             \/ UNCHANGED <<job, approval, auditLog>>
             \/ \E s, r, f, c : /\ UpdateJobState(j, s, r, f, c)
                                /\ f # "execution"
                                /\ s \in {"probing", "failed"} \/ (s = "dispatched"
                                                                  /\ SentIn(attempt, j))
      PROVE  JobInv'
  <2>1. j \in Jobs /\ CreatedIn(auditLog, j)
    BY <1>1, <1>2, <1>8 DEF DispatchKnown, At
  <2>2. PICK x : dispatch' = [dispatch EXCEPT ![d] = x] /\ DispatchKnown(attempt, auditLog, x)
    BY <1>4, <1>8, <2>1 DEF DispatchGoto, DispatchEnds, DispatchKnown
  <2>3. CASE UNCHANGED <<job, approval, auditLog>>
    <3>1. RowJustified(attempt, auditLog, job[j], j)
      BY <2>1 DEF JobInv
    <3>2. QED
      BY <1>3, <1>8, <2>1, <2>2, <2>3, <3>1
  <2>4. ASSUME NEW s, NEW r, NEW f, NEW c, UpdateJobState(j, s, r, f, c), f # "execution",
               s \in {"probing", "failed"} \/ (s = "dispatched" /\ SentIn(attempt, j))
        PROVE  JobInv'
    <3>1. /\ job'[j].status = s /\ job'[j].failureClass = f
          /\ \A k \in Jobs : k # j => job'[k] = job[k]
          /\ UNCHANGED <<approval, auditLog>>
      BY <2>1, <2>4, UpdatedRow
    <3>2. RowJustified(attempt, auditLog, job'[j], j)
      BY <2>1, <2>4, <3>1 DEF RowJustified
    <3>3. QED
      BY <1>3, <1>8, <2>1, <2>2, <3>1, <3>2
  <2>5. QED
    BY <1>8, <2>3, <2>4
<1>9. CASE MarkProbing(d)
  BY <1>8, <1>9 DEF MarkProbing, At, busVars
<1>10. CASE ProbeAnswered(d)
  BY <1>8, <1>10 DEF ProbeAnswered, At, busVars, storeVars
<1>11. CASE ProbeFailed(d)
  BY <1>8, <1>11 DEF ProbeFailed, At, busVars, storeVars
<1>12. CASE MarkUnavailable(d)
  BY <1>8, <1>12 DEF MarkUnavailable, At, busVars
<1>13. CASE PublishFails(d)
  BY <1>8, <1>13 DEF PublishFails, At, busVars, storeVars
<1>14. CASE MarkPublishFailed(d)
  BY <1>8, <1>14 DEF MarkPublishFailed, At, busVars
<1>15. CASE MarkDispatched(d)
  <2>1. SentIn(attempt, j)
    BY <1>2, <1>15 DEF MarkDispatched, DispatchKnown, At
  <2>2. QED
    BY <1>8, <1>15, <2>1 DEF MarkDispatched, At, busVars
<1>16. CASE DispatchAborts(d)
  <2>1. RowJustified(attempt, auditLog, job[j], j)
    BY <1>1, <1>16 DEF DispatchAborts, JobInv
  <2>2. QED
    BY <1>1, <1>3, <1>4, <1>16, <2>1
       DEF DispatchAborts, DispatchEnds, DispatchKnown, busVars, storeVars
<1>17. CASE Publish(d)
  <2>1. j \in Jobs /\ CreatedIn(auditLog, j)
    BY <1>1, <1>2, <1>17 DEF Publish, DispatchKnown, At
  <2>2. PICK n \in Attempts :
           /\ attempt[n].stage = "unused"
           /\ attempt' = [attempt EXCEPT ![n] = [stage |-> "sent", job |-> j]]
    BY <1>17 DEF Publish, PublishDispatch, UnusedAttempts
  <2>3. /\ attempt'[n].job = j /\ attempt'[n].stage = "sent"
        /\ \A m \in Attempts : m # n => attempt'[m] = attempt[m]
    BY <2>2 DEF TypeOK, BusTypeOK
  <2>4. UNCHANGED <<lifecycle, consumer, approval, auditLog, job>>
    BY <1>17 DEF Publish, storeVars
  <2>5. Further(attempt, auditLog, attempt', auditLog')
    BY <2>2, <2>3, <2>4 DEF Further, RanStages
  <2>6. SentIn(attempt', j)
    BY <2>3 DEF SentIn
  <2>7. DispatchersKnow
    <3>1. dispatch' = [dispatch EXCEPT ![d] =
                         [pc |-> "mark_dispatched", job |-> j, device |-> dispatch[d].device]]
      BY <1>17 DEF Publish, DispatchGoto
    <3>2. QED
      BY <2>1, <2>4, <2>6, <3>1, DispatchMoves DEF DispatchKnown, DispatchersKnow
  <2>8. AttemptsLogged
    BY <2>1, <2>3, <2>4 DEF AttemptsLogged
  <2>9. EventsStayTrue /\ ApprovalsAwaited /\ RowsFollow /\ ConsumerKnows
    BY <2>4 DEF EventsStayTrue, ApprovalsAwaited, RowsFollow, ConsumerKnows
  <2>10. QED
    BY <2>5, <2>7, <2>8, <2>9, JobInvFrame
<1>18. QED
  BY <1>5, <1>6, <1>7, <1>9, <1>10, <1>11, <1>12, <1>13, <1>14, <1>15, <1>16, <1>17
     DEF DispatchStep
-----------------------------------------------------------------------------
(* Approvals *)

LEMMA ResolveKeepsJobs ==
    ASSUME TypeOK, JobInv, ResolveNext
    PROVE  JobInv'
<1> PICK r \in Resolvers : LoadPending(r) \/ ResolveStep(r) \/ ResolveAborts(r)
  BY DEF ResolveNext
<1> DEFINE a == resolve[r].approval
<1>1. ~ResolveAt(r, "idle") =>
        a \in Approvals /\ approval[a] # NoApprovalRow /\ approval[a].job \in Jobs
  <2>1. approval \in [Approvals -> ApprovalRow \cup {NoApprovalRow}]
    BY DEF TypeOK, StoreTypeOK
  <2>2. ~ResolveAt(r, "idle") => a \in Approvals /\ approval[a] # NoApprovalRow
    BY DEF TypeOK, ResolveTypeOK, ResolveAt, NoResolve
  <2>3. QED
    BY <2>1, <2>2 DEF ApprovalRow
<1>2. ASSUME UNCHANGED storeVars, UNCHANGED <<attempt, lifecycle, dispatch, consumer>>
      PROVE  JobInv'
  BY <1>2, TablesFrame DEF storeVars, ConsumerKnows, ApprovalsAwaited, RowsFollow
<1>3. CASE \/ LoadPending(r) \/ ResolveConflict(r) \/ CheckDevice(r) \/ PublishApproved(r)
           \/ PublishApprovedFails(r) \/ ResolveAborts(r)
  BY <1>2, <1>3 DEF LoadPending, ResolveConflict, CheckDevice, PublishApproved,
                    PublishApprovedFails, ResolveAborts, busVars
<1>4. ASSUME NEW s, SetApprovalStatus(a, s), ~ResolveAt(r, "idle"),
             UNCHANGED <<attempt, lifecycle, dispatch, consumer>>
      PROVE  JobInv'
  <2>1. /\ approval' = [approval EXCEPT ![a] = [status |-> s, job |-> approval[a].job]]
        /\ UNCHANGED <<job, auditLog>>
    BY <1>4 DEF SetApprovalStatus, WriteApproval, ApprovalsOnly
  <2>2. ApprovalsAwaited
    BY <1>1, <1>4, <2>1 DEF TypeOK, StoreTypeOK, ApprovalsAwaited
  <2>3. QED
    BY <1>4, <2>1, <2>2, TablesFrame DEF ConsumerKnows, RowsFollow
<1>5. CASE Resolve(r)
  BY <1>4, <1>5 DEF Resolve, ResolveAt, busVars
<1>6. CASE ResetToPending(r)
  BY <1>2, <1>4, <1>6 DEF ResetToPending, ResolveAt, busVars
<1>7. CASE LogDecision(r)
  <2>1. /\ auditLog \subseteq auditLog' /\ UNCHANGED <<job, approval>>
        /\ UNCHANGED <<attempt, lifecycle, dispatch, consumer>>
    BY <1>7 DEF LogDecision, InsertJobEvent, EventsOnly, busVars
  <2>2. QED
    BY <2>1, TablesFrame DEF ConsumerKnows, ApprovalsAwaited, RowsFollow
<1>8. CASE CompleteRejected(r)
  <2> DEFINE j == approval[a].job
  <2>1. j \in Jobs /\ WaitsIn(attempt, j)
    BY <1>1, <1>8 DEF CompleteRejected, ResolveAt, JobInv
  <2>2. RanIn(attempt, j)
    BY <2>1 DEF WaitsIn, RanIn, RanStages
  <2>3. UpdateJobState(j, "completed", job[j].result, job[j].failureClass, job[j].completedAt)
        /\ UNCHANGED <<attempt, lifecycle, dispatch, consumer>>
    BY <1>8 DEF CompleteRejected, UpdateJobStatusOnly, JobOf, busVars
  <2> HIDE DEF j
  <2>4. /\ job'[j].status = "completed" /\ job'[j].failureClass = job[j].failureClass
        /\ \A k \in Jobs : k # j => job'[k] = job[k]
        /\ UNCHANGED <<approval, auditLog>>
    BY <2>1, <2>3, UpdatedRow
  <2>5. RowJustified(attempt, auditLog, job'[j], j)
    BY <2>1, <2>2, <2>4 DEF JobInv, RowJustified
  <2>6. RowsFollow
    BY <2>3, <2>4, <2>5 DEF RowsFollow
  <2>7. ApprovalsAwaited /\ ConsumerKnows
    BY <2>3, <2>4 DEF ApprovalsAwaited, ConsumerKnows
  <2>8. QED
    BY <2>3, <2>4, <2>6, <2>7, TablesFrame
<1>9. QED
  BY <1>3, <1>5, <1>6, <1>7, <1>8 DEF ResolveStep
-----------------------------------------------------------------------------
(* The lifecycle consumer *)

LEMMA EventOfLoggedJob ==
    ASSUME JobInv, NEW j, RanIn(attempt, j)
    PROVE  CreatedIn(auditLog, j)
BY DEF JobInv, RanIn, RanStages

LEMMA AfterStateTo ==
    ASSUME NEW kind
    PROVE  /\ AfterState(kind) \in {"insert_summary", "find_pending", "post_reply"}
           /\ AfterState(kind) = "find_pending" => kind = "awaiting_approval"
           /\ AfterReport(kind) \in {"find_pending", "post_reply"}
           /\ AfterReport(kind) = "find_pending" => kind = "awaiting_approval"
BY DEF AfterState, AfterReport

LEMMA ConsumerKeepsJobs ==
    ASSUME TypeOK, JobInv, ConsumerNext
    PROVE  JobInv'
<1> DEFINE j == consumer.event.job
<1>1. ~ConsumerAt("idle") => consumer.event \in Event /\ j \in Jobs
  BY DEF TypeOK, ConsumerTypeOK, ConsumerIdle, ConsumerAt, Event
<1>2. ConsumerTrue(attempt, consumer)
  BY DEF JobInv
<1>3. ConsumerTrue(attempt, ConsumerIdle)
  BY DEF ConsumerTrue, ConsumerIdle
(* A step within an event that leaves the jobs and approvals alone.        *)
<1>4. ASSUME UNCHANGED <<attempt, lifecycle, dispatch, auditLog>>,
             ConsumerTrue(attempt, consumer'), UNCHANGED <<job, approval>>
      PROVE  JobInv'
  <2>1. ConsumerKnows /\ ApprovalsAwaited /\ RowsFollow
    BY <1>4 DEF ConsumerKnows, ApprovalsAwaited, RowsFollow
  <2>2. QED
    BY <1>4, <2>1, TablesFrame
<1>5. ASSUME ~ConsumerAt("idle"), NEW pc, ConsumerGoto(pc), pc # "insert_approval",
             pc = "find_pending" => Kind = "awaiting_approval"
      PROVE  ConsumerTrue(attempt, consumer')
  BY <1>2, <1>5 DEF ConsumerTrue, ConsumerGoto, ConsumerAt, Kind
<1>6. CASE TakeEvent
  <2> DEFINE e == Head(lifecycle)
  <2>1. /\ lifecycle \in Seq(Event) /\ lifecycle # <<>> /\ lifecycle' = Tail(lifecycle)
        /\ UNCHANGED <<storeVars, attempt, dispatch>>
        /\ consumer' = [pc |-> IF CarriesStatus(e.kind) THEN "update_state"
                               ELSE AfterState(e.kind),
                        event |-> e]
    BY <1>6 DEF TakeEvent, TypeOK, BusTypeOK
  <2>2. EventTrue(attempt, e) /\ e \in Event
    <3>1. e = lifecycle[1] /\ 1 \in 1 .. Len(lifecycle)
      BY <2>1
    <3>2. QED
      BY <2>1, <3>1 DEF JobInv
  <2>3. EventsStayTrue
    <3>1. \A i \in 1 .. Len(lifecycle') :
             i + 1 \in 1 .. Len(lifecycle) /\ lifecycle'[i] = lifecycle[i + 1]
      BY <2>1
    <3>2. QED
      BY <3>1 DEF EventsStayTrue
  <2> HIDE DEF e
  <2>4. ConsumerKnows
    BY <2>1, <2>2, AfterStateTo DEF ConsumerTrue, ConsumerKnows
  <2>5. auditLog \subseteq auditLog' /\ DispatchersKnow /\ ApprovalsAwaited /\ RowsFollow
    BY <2>1 DEF storeVars, DispatchersKnow, ApprovalsAwaited, RowsFollow
  <2>6. Further(attempt, auditLog, attempt', auditLog') /\ AttemptsLogged
    BY <2>1, <2>5, NothingTakenBack
  <2>7. QED
    BY <2>3, <2>4, <2>5, <2>6, JobInvFrame
<1>7. CASE FoldState
  <2> DEFINE status == StatusOf(Kind)
             class == FailureClassOf(Kind)
  <2>1. /\ ConsumerAt("update_state") /\ ConsumerGoto(AfterState(Kind))
        /\ UpdateJobState(j, status, ResultOf(Kind), class,
                          status \in {"completed", "failed", "cancelled"})
        /\ UNCHANGED <<attempt, lifecycle, dispatch>>
    BY <1>7 DEF FoldState, EventJob, busVars
  <2>2. j \in Jobs /\ EventTrue(attempt, consumer.event)
    BY <1>1, <1>2, <2>1 DEF ConsumerAt, ConsumerTrue
  <2>3. /\ status \in {"running", "awaiting_approval", "failed", "cancelled", "completed"}
        /\ status = "awaiting_approval" => Kind = "awaiting_approval"
    BY DEF StatusOf
  <2>4. RanIn(attempt, j) /\ (Kind = "awaiting_approval" => WaitsIn(attempt, j))
    BY <2>2 DEF EventTrue, Kind
  <2>5. CreatedIn(auditLog, j)
    BY <2>4, EventOfLoggedJob
  <2> HIDE DEF j, status, class
  <2>6. /\ job'[j].status = status
        /\ \A k \in Jobs : k # j => job'[k] = job[k]
        /\ UNCHANGED <<approval, auditLog>>
    BY <2>1, <2>2, UpdatedRow
  <2>7. RowJustified(attempt, auditLog, job'[j], j)
    BY <2>3, <2>4, <2>5, <2>6 DEF RowJustified
  <2>8. ConsumerTrue(attempt, consumer')
    BY <1>5, <2>1, AfterStateTo DEF ConsumerAt
  <2>9. RowsFollow /\ ApprovalsAwaited /\ ConsumerKnows
    BY <2>1, <2>6, <2>7, <2>8 DEF RowsFollow, ApprovalsAwaited, ConsumerKnows
  <2>10. QED
    BY <2>1, <2>6, <2>9, TablesFrame
<1>8. CASE StoreSummary
  BY <1>4, <1>5, <1>8 DEF StoreSummary, InsertSummary, SummariesOnly, ConsumerAt, busVars
<1>9. CASE PointJobToSummary
  <2>1. ConsumerTrue(attempt, consumer')
    BY <1>5, <1>9, AfterStateTo DEF PointJobToSummary, ConsumerAt
  <2>2. QED
    BY <1>4, <1>9, <2>1 DEF PointJobToSummary, PointToSummary, SummariesOnly, busVars
<1>10. CASE FindPending
  <2>1. ConsumerTrue(attempt, consumer')
    BY <1>2, <1>10 DEF FindPending, ConsumerAt, ConsumerGoto, ConsumerTrue
  <2>2. QED
    BY <1>4, <1>10, <2>1 DEF FindPending, busVars, storeVars
<1>11. CASE InsertApproval
  <2>1. PICK a \in Approvals : /\ approval' = [approval EXCEPT ![a] =
                                                  [status |-> "pending", job |-> j]]
                               /\ UNCHANGED <<job, auditLog>>
    BY <1>11 DEF InsertApproval, InsertPendingApproval, WriteApproval, ApprovalsOnly, EventJob
  <2>2. WaitsIn(attempt, j)
    BY <1>2, <1>11 DEF InsertApproval, ConsumerAt, ConsumerTrue, EventTrue
  <2>3. UNCHANGED <<attempt, lifecycle, dispatch>> /\ ConsumerTrue(attempt, consumer')
    BY <1>5, <1>11 DEF InsertApproval, ConsumerAt, busVars
  <2>4. ApprovalsAwaited /\ RowsFollow /\ ConsumerKnows
    BY <2>1, <2>2, <2>3 DEF TypeOK, StoreTypeOK, ApprovalsAwaited, RowsFollow, ConsumerKnows
  <2>5. QED
    BY <2>1, <2>3, <2>4, TablesFrame
<1>12. CASE PostReply
  BY <1>3, <1>4, <1>12 DEF PostReply, PostReplyOnce, AddReply, MessagesOnly, storeVars, busVars
<1>13. CASE InsertApprovalRefused \/ ConsumerDropsEvent
  BY <1>3, <1>4, <1>13 DEF InsertApprovalRefused, ConsumerDropsEvent, storeVars, busVars
<1>14. QED
  BY <1>6, <1>7, <1>8, <1>9, <1>10, <1>11, <1>12, <1>13 DEF ConsumerNext, ConsumerStep
-----------------------------------------------------------------------------
(* The edges *)

LEMMA Emitted ==
    ASSUME TypeOK, NEW kind, NEW j, Emit(kind, j), NEW i \in 1 .. Len(lifecycle')
    PROVE  \/ \E k \in 1 .. Len(lifecycle) : lifecycle'[i] = lifecycle[k]
           \/ lifecycle'[i] = [kind |-> kind, job |-> j]
<1>1. CASE UNCHANGED lifecycle
  BY <1>1
<1>2. CASE lifecycle' = Append(lifecycle, [kind |-> kind, job |-> j])
  <2>1. lifecycle \in Seq(Event)
    BY DEF TypeOK, BusTypeOK
  <2>2. /\ Len(lifecycle) \in Nat /\ Len(lifecycle') = Len(lifecycle) + 1
        /\ lifecycle'[Len(lifecycle) + 1] = [kind |-> kind, job |-> j]
        /\ \A k \in 1 .. Len(lifecycle) : lifecycle'[k] = lifecycle[k]
    BY <1>2, <2>1
  <2>3. i = Len(lifecycle) + 1 \/ i \in 1 .. Len(lifecycle)
    BY <2>2
  <2>4. QED
    BY <2>2, <2>3
<1>3. QED
  BY <1>1, <1>2 DEF Emit

LEMMA EdgeFrameJobs ==
    ASSUME TypeOK, JobInv, Further(attempt, auditLog, attempt', auditLog'),
           AttemptsLogged, EventsStayTrue, UNCHANGED <<storeVars, taskVars>>
    PROVE  JobInv'
<1>1. DispatchersKnow /\ ConsumerKnows /\ ApprovalsAwaited /\ RowsFollow
  BY DEF storeVars, taskVars, DispatchersKnow, ConsumerKnows, ApprovalsAwaited, RowsFollow
<1>2. QED
  BY <1>1, JobInvFrame

LEMMA EdgeAdvances ==
    ASSUME TypeOK, JobInv, NEW n \in Attempts, NEW from, NEW to,
           from # "unused", to # "unused", from \in RanStages => to \in RanStages, from # "waiting",
           Advance(n, from, to), UNCHANGED storeVars
    PROVE  /\ Further(attempt, auditLog, attempt', auditLog')
           /\ AttemptsLogged
           /\ attempt'[n].job = attempt[n].job /\ attempt'[n].stage = to
<1>1. /\ attempt[n].stage = from
      /\ attempt' = [attempt EXCEPT ![n] = [stage |-> to, job |-> attempt[n].job]]
  BY DEF Advance
<1>2. /\ attempt'[n].job = attempt[n].job /\ attempt'[n].stage = to
      /\ \A m \in Attempts : m # n => attempt'[m] = attempt[m]
  BY <1>1 DEF TypeOK, BusTypeOK
<1>3. auditLog' = auditLog
  BY DEF storeVars
<1>4. ASSUME NEW m \in Attempts
      PROVE  /\ attempt[m].stage # "unused" =>
                   attempt'[m].job = attempt[m].job /\ attempt'[m].stage # "unused"
             /\ attempt[m].stage \in RanStages => attempt'[m].stage \in RanStages
             /\ attempt[m].stage = "waiting" => attempt'[m].stage = "waiting"
             /\ attempt'[m].stage = "unused" \/ attempt[m].stage # "unused"
  <2>1. CASE m = n
    BY <1>1, <1>2, <2>1
  <2>2. CASE m # n
    BY <1>2, <2>2
  <2>3. QED
    BY <2>1, <2>2
<1>5. QED
  BY <1>2, <1>3, <1>4 DEF Further, AttemptsLogged

LEMMA EdgeKeepsJobs ==
    ASSUME TypeOK, JobInv, EdgeNext
    PROVE  JobInv'
(* The event an attempt reports is true once the attempt has advanced.     *)
<1>1. ASSUME NEW n \in Attempts, NEW from, NEW to, NEW kind, from # "unused", from # "waiting",
             to \in RanStages, Advance(n, from, to), Emit(kind, attempt[n].job),
             kind = "awaiting_approval" => to = "waiting", UNCHANGED <<storeVars, taskVars>>
      PROVE  JobInv'
  <2>1. /\ Further(attempt, auditLog, attempt', auditLog') /\ AttemptsLogged
        /\ attempt'[n].job = attempt[n].job /\ attempt'[n].stage = to
    BY <1>1, EdgeAdvances DEF RanStages
  <2>2. EventTrue(attempt', [kind |-> kind, job |-> attempt[n].job])
    BY <1>1, <2>1 DEF EventTrue, RanIn, WaitsIn
  <2>3. EventsStayTrue
    BY <1>1, <2>2, Emitted DEF EventsStayTrue
  <2>4. QED
    BY <1>1, <2>1, <2>3, EdgeFrameJobs
(* The event of a push is about a job that waited for it.                  *)
<1>2. ASSUME NEW a \in Approvals, NEW kind, push[a].stage # "none",
             Emit(kind, approval[a].job), kind # "awaiting_approval",
             UNCHANGED <<storeVars, attempt, taskVars>>
      PROVE  JobInv'
  <2>1. approval[a] # NoApprovalRow
    BY <1>2 DEF TypeOK, BusTypeOK
  <2>2. WaitsIn(attempt, approval[a].job)
    BY <2>1 DEF JobInv
  <2>3. EventTrue(attempt', [kind |-> kind, job |-> approval[a].job])
    BY <1>2, <2>2 DEF EventTrue, WaitsIn, RanIn, RanStages
  <2>4. EventsStayTrue
    BY <1>2, <2>3, Emitted DEF EventsStayTrue
  <2>5. Further(attempt, auditLog, attempt', auditLog') /\ AttemptsLogged
    BY <1>2, NothingTakenBack DEF storeVars
  <2>6. QED
    BY <1>2, <2>4, <2>5, EdgeFrameJobs
<1>3. ASSUME NEW n \in Attempts, EdgeStarts(n)
      PROVE  JobInv'
  BY <1>1, <1>3 DEF EdgeStarts, RanStages
<1>4. ASSUME NEW n \in Attempts, EdgeEnds(n)
      PROVE  JobInv'
  <2>1. PICK kind \in Outcomes : Emit(kind, attempt[n].job)
    BY <1>4 DEF EdgeEnds
  <2>2. kind # "awaiting_approval"
    BY BusAssumption DEF AllOutcomes
  <2>3. QED
    BY <1>1, <1>4, <2>1, <2>2 DEF EdgeEnds, RanStages
<1>5. ASSUME NEW n \in Attempts, EdgeCompletesForPush(n)
      PROVE  JobInv'
  BY <1>1, <1>5 DEF EdgeCompletesForPush, RanStages
<1>6. ASSUME NEW n \in Attempts, EdgeAsksForApproval(n)
      PROVE  JobInv'
  BY <1>1, <1>6 DEF EdgeAsksForApproval, RanStages
<1>7. ASSUME NEW a \in Approvals, EdgeStartsPush(a)
      PROVE  JobInv'
  BY <1>2, <1>7 DEF EdgeStartsPush, AdvancePush
<1>8. ASSUME NEW a \in Approvals, EdgeEndsPush(a)
      PROVE  JobInv'
  <2>1. PICK kind \in {"push_completed", "failed"} : Emit(kind, approval[a].job)
    BY <1>8 DEF EdgeEndsPush
  <2>2. QED
    BY <1>2, <1>8, <2>1 DEF EdgeEndsPush, AdvancePush
<1>9. CASE CommandLost
  <2>1. EventsStayTrue /\ UNCHANGED <<storeVars, taskVars>>
    BY <1>9 DEF CommandLost, EventsStayTrue
  <2>2. Further(attempt, auditLog, attempt', auditLog') /\ AttemptsLogged
    <3>1. CASE UNCHANGED attempt
      BY <2>1, <3>1, NothingTakenBack DEF storeVars
    <3>2. ASSUME NEW n \in Attempts, Advance(n, "sent", "lost")
          PROVE  Further(attempt, auditLog, attempt', auditLog') /\ AttemptsLogged
      BY <2>1, <3>2, EdgeAdvances DEF RanStages
    <3>3. QED
      BY <1>9, <3>1, <3>2 DEF CommandLost
  <2>3. QED
    BY <2>1, <2>2, EdgeFrameJobs
<1>10. QED
  BY <1>3, <1>4, <1>5, <1>6, <1>7, <1>8, <1>9 DEF EdgeNext
-----------------------------------------------------------------------------
LEMMA StepKeepsJobs == TypeOK /\ JobInv /\ [Next]_vars => JobInv'
<1> SUFFICES ASSUME TypeOK, JobInv, [Next]_vars PROVE JobInv'
  OBVIOUS
<1>1. CASE TrustChanges \/ UNCHANGED vars
  <2>1. UNCHANGED <<job, approval, auditLog, attempt, lifecycle, dispatch, consumer>>
    BY <1>1 DEF TrustChanges, vars, storeVars, busVars, taskVars
  <2>2. ConsumerKnows /\ ApprovalsAwaited /\ RowsFollow
    BY <2>1 DEF ConsumerKnows, ApprovalsAwaited, RowsFollow
  <2>3. QED
    BY <2>1, <2>2, TablesFrame
<1>2. CASE Crash
  <2>1. /\ UNCHANGED <<job, approval, auditLog, attempt>> /\ Len(lifecycle') = 0
        /\ consumer' = ConsumerIdle /\ dispatch' = [d \in Dispatchers |-> NoDispatch]
    BY <1>2 DEF Crash, storeVars
  <2>2. /\ Further(attempt, auditLog, attempt', auditLog') /\ AttemptsLogged
        /\ EventsStayTrue /\ ApprovalsAwaited /\ RowsFollow
    BY <2>1, NothingTakenBack DEF EventsStayTrue, ApprovalsAwaited, RowsFollow
  <2>3. ConsumerKnows /\ DispatchersKnow
    BY <2>1 DEF ConsumerKnows, ConsumerTrue, ConsumerIdle, DispatchersKnow, DispatchKnown,
                NoDispatch
  <2>4. QED
    BY <2>2, <2>3, JobInvFrame
<1>3. QED
  BY <1>1, <1>2, DispatchKeepsJobs, ResolveKeepsJobs, ConsumerKeepsJobs, EdgeKeepsJobs DEF Next

THEOREM JobsKnown == Spec => []JobInv
<1>1. TypeOK /\ TypeOK' /\ JobInv /\ [Next]_vars => JobInv'
  BY StepKeepsJobs
<1>2. QED
  BY <1>1, JobInvInit, TypeCorrect, PTL DEF Spec

(* No status is invented, however many jobs, requests and edges there are  *)
(* and whatever fails: "dispatched" has a command behind it, and what an   *)
(* edge reports (services/lifecycle.rs) a run of that job.                 *)
THEOREM StatusesJustified == Spec => []StatusJustified
<1>1. JobInv => StatusJustified
  BY DEF JobInv, RowJustified, SentIn, RanIn, WaitsIn, RanStages,
         StatusJustified, Published, EdgeRan, EdgeWaits
<1>2. QED
  BY <1>1, JobsKnown, PTL

(* A failed job has the job.created row retry_job_dispatch reads its       *)
(* prompt from, wherever a crash separated the two inserts.                *)
THEOREM FailedJobsRetryable == Spec => []FailedIsRetryable
<1>1. JobInv => FailedIsRetryable
  BY DEF JobInv, RowJustified, CreatedIn, FailedIsRetryable, Logged
<1>2. QED
  BY <1>1, JobsKnown, PTL
-----------------------------------------------------------------------------
(* Summaries *)

(* Only the consumer stores summaries.                                     *)
LEMMA ConsumerWritesAlone ==
    ASSUME [Next]_vars, ~ConsumerNext
    PROVE  /\ UNCHANGED summaries
           /\ consumer' = consumer \/ ("crash" \in Failures /\ consumer' = ConsumerIdle)
<1>1. CASE DispatchNext
  BY <1>1 DEF DispatchNext, CreateJob, RetryJob, DispatchStep, DispatchAborts, DispatchGoto,
     DispatchEnds, LogCreated, MarkProbing, ProbeAnswered, ProbeFailed, MarkUnavailable, Publish,
     PublishFails, MarkPublishFailed, MarkDispatched, InsertJob, InsertJobEvent, EventsOnly,
     UpdateJobState, JobsOnly, storeVars, busVars
<1>2. CASE ResolveNext
  BY <1>2 DEF ResolveNext, LoadPending, ResolveStep, ResolveAborts, ResolveConflict, CheckDevice,
     PublishApproved, PublishApprovedFails, Resolve, ResetToPending, LogDecision,
     CompleteRejected, SetApprovalStatus, WriteApproval, ApprovalsOnly, InsertJobEvent,
     EventsOnly, UpdateJobStatusOnly, UpdateJobState, JobsOnly, storeVars, busVars
<1>3. CASE EdgeNext
  BY <1>3 DEF EdgeNext, EdgeStarts, EdgeEnds, EdgeCompletesForPush, EdgeAsksForApproval,
     EdgeStartsPush, EdgeEndsPush, CommandLost, storeVars, taskVars
<1>4. CASE TrustChanges \/ Crash \/ UNCHANGED vars
  BY <1>4 DEF TrustChanges, Crash, vars, storeVars, taskVars
<1>5. QED
  BY <1>1, <1>2, <1>3, <1>4 DEF Next

(* While the consumer neither crashes nor fails a statement, a job points  *)
(* to its newest summary, save between the two statements of               *)
(* store_job_summary.                                                      *)
THEOREM SummariesCurrent ==
    ASSUME Failures \cap {"crash", "db_error"} = {}
    PROVE  Spec => []SummaryCurrent
<1>1. Init => SummaryCurrent
  BY DEF Init, StoreInit, SummaryCurrent
<1>2. ASSUME TypeOK, SummaryCurrent, [Next]_vars
      PROVE  SummaryCurrent'
  <2>1. CASE UNCHANGED <<summaries, consumer>>
    BY <1>2, <2>1 DEF SummaryCurrent
  <2>2. \A j \in Jobs : summaries[j].latest \in Nat /\ summaries[j].current \in Nat
    BY <1>2 DEF TypeOK, StoreTypeOK
  <2>3. CASE StoreSummary
    <3> DEFINE i == EventJob
    <3>1. i \in Jobs /\ summaries[i].current = summaries[i].latest
      BY <1>2, <2>3, ConsumerHolds DEF StoreSummary, ConsumerAt, SummaryCurrent
    <3>2. /\ consumer'.pc = "point_to_summary" /\ consumer'.event.job = i
      BY <2>3 DEF StoreSummary, ConsumerGoto, EventJob
    <3>3. summaries' = [summaries EXCEPT ![i] =
               [latest |-> summaries[i].latest + 1, current |-> summaries[i].current]]
      BY <2>3 DEF StoreSummary, InsertSummary
    <3>4. \A j \in Jobs : j # i => summaries[j].current = summaries[j].latest
      BY <1>2, <2>3 DEF StoreSummary, ConsumerAt, SummaryCurrent
    <3> HIDE DEF i
    <3>5. /\ \A j \in Jobs : j # i => summaries'[j] = summaries[j]
          /\ summaries'[i].latest = summaries[i].latest + 1
          /\ summaries'[i].current = summaries[i].current
      BY <1>2, <3>1, <3>3 DEF TypeOK, StoreTypeOK
    <3>6. QED
      BY <2>2, <3>1, <3>2, <3>4, <3>5 DEF SummaryCurrent
  <2>4. CASE PointJobToSummary
    <3> DEFINE i == EventJob
    <3>1. \A j \in Jobs : j # i => summaries[j].current = summaries[j].latest
      BY <1>2, <2>4 DEF PointJobToSummary, SummaryCurrent, EventJob
    <3>2. summaries' = [summaries EXCEPT ![i] =
               [latest |-> summaries[i].latest, current |-> summaries[i].latest]]
      BY <2>4 DEF PointJobToSummary, PointToSummary
    <3> HIDE DEF i
    <3>3. \A j \in Jobs : summaries'[j].current = summaries'[j].latest
      BY <1>2, <3>1, <3>2 DEF TypeOK, StoreTypeOK
    <3>4. QED
      BY <3>3 DEF SummaryCurrent
  <2>5. CASE ConsumerNext /\ ~StoreSummary /\ ~PointJobToSummary
    <3>1. UNCHANGED summaries /\ ~ConsumerAt("point_to_summary")
      BY <2>5 DEF ConsumerNext, ConsumerStep, TakeEvent, FoldState, FindPending, InsertApproval,
         InsertApprovalRefused, PostReply, PostReplyOnce, AddReply, MessagesOnly,
         ConsumerDropsEvent, UpdateJobState, JobsOnly, InsertPendingApproval, WriteApproval,
         ApprovalsOnly, ConsumerAt, storeVars
    <3>2. QED
      BY <1>2, <3>1 DEF SummaryCurrent, ConsumerAt
  <2>6. QED
    BY <1>2, <2>1, <2>3, <2>4, <2>5, ConsumerWritesAlone
<1>3. QED
  BY <1>1, <1>2, TypeCorrect, PTL DEF Spec
-----------------------------------------------------------------------------
(* Probing *)

(* While no request is cut off, a job whose row says probing is in the     *)
(* hands of a request that is still to write what came of the probe        *)
(* (create_job_record, attempt_job_dispatch): ProbingEnds without its      *)
(* fairness.                                                               *)
ProbingIsInHand == \A j \in Jobs :
    job[j].status = "probing" => \E d \in Dispatchers : dispatch[d].job = j

(* Only dispatching requests write probing.                                *)
LEMMA OthersWriteNoProbing ==
    ASSUME TypeOK, [Next]_vars, ~DispatchNext, "crash" \notin Failures, NEW j \in Jobs
    PROVE  /\ dispatch' = dispatch
           /\ job'[j].status = "probing" => job[j].status = "probing"
<1>1. CASE ResolveNext
  <2>1. PICK r \in Resolvers : LoadPending(r) \/ ResolveStep(r) \/ ResolveAborts(r)
    BY <1>1 DEF ResolveNext
  <2>2. CASE CompleteRejected(r)
    <3>1. JobOf(r) \in Jobs
      BY <2>2, ResolveHolds DEF CompleteRejected, ResolveAt
    <3>2. dispatch' = dispatch /\ job'[JobOf(r)].status = "completed"
          /\ (\A k \in Jobs : k # JobOf(r) => job'[k] = job[k])
      BY <2>2, <3>1, UpdatedRow DEF CompleteRejected, UpdateJobStatusOnly
    <3>3. QED
      BY <3>2
  <2>3. CASE ~CompleteRejected(r)
    <3>1. UNCHANGED <<dispatch, job>>
      BY <2>1, <2>3
         DEF LoadPending, ResolveStep, ResolveAborts, ResolveConflict, CheckDevice,
             PublishApproved, PublishApprovedFails, Resolve, ResetToPending, LogDecision,
             SetApprovalStatus, WriteApproval, ApprovalsOnly, InsertJobEvent, EventsOnly,
             storeVars
    <3>2. QED
      BY <3>1
  <2>4. QED
    BY <2>2, <2>3
<1>2. CASE ConsumerNext
  <2>1. CASE FoldState
    <3>1. EventJob \in Jobs
      BY <2>1, ConsumerHolds DEF FoldState, ConsumerAt
    <3>2. dispatch' = dispatch /\ job'[EventJob].status = StatusOf(Kind)
          /\ (\A k \in Jobs : k # EventJob => job'[k] = job[k])
      BY <2>1, <3>1, UpdatedRow DEF FoldState
    <3>3. StatusOf(Kind) # "probing"
      BY DEF StatusOf
    <3>4. QED
      BY <3>2, <3>3
  <2>2. CASE ~FoldState
    <3>1. UNCHANGED <<dispatch, job>>
      BY <1>2, <2>2
         DEF ConsumerNext, ConsumerStep, TakeEvent, StoreSummary, PointJobToSummary,
             FindPending, InsertApproval, InsertApprovalRefused, PostReply, PostReplyOnce,
             AddReply, MessagesOnly, ConsumerDropsEvent, InsertPendingApproval, WriteApproval,
             ApprovalsOnly, InsertSummary, PointToSummary, SummariesOnly, storeVars
    <3>2. QED
      BY <3>1
  <2>3. QED
    BY <2>1, <2>2
<1>3. CASE EdgeNext
  BY <1>3 DEF EdgeNext, EdgeStarts, EdgeEnds, EdgeCompletesForPush, EdgeAsksForApproval,
     EdgeStartsPush, EdgeEndsPush, CommandLost, storeVars, taskVars
<1>4. CASE TrustChanges \/ Crash \/ UNCHANGED vars
  BY <1>4 DEF TrustChanges, Crash, vars, storeVars, taskVars
<1>5. QED
  BY <1>1, <1>2, <1>3, <1>4 DEF Next

LEMMA DispatchKeepsProbing ==
    ASSUME TypeOK, ProbingIsInHand, DispatchNext, "abort" \notin Failures
    PROVE  ProbingIsInHand'
<1> PICK d \in Dispatchers : CreateJob(d) \/ RetryJob(d) \/ DispatchStep(d)
  BY DEF DispatchNext, DispatchAborts
<1>1. NoDispatch.job \notin Jobs
  BY StoreAssumption DEF NoDispatch
<1>2. CASE CreateJob(d)
  <2>1. PICK k \in Jobs, v \in SelectableDevices(NoDevice) :
           /\ InsertJob(k, v)
           /\ dispatch' = [dispatch EXCEPT ![d] =
                             [pc |-> "log_created", job |-> k, device |-> v]]
    BY <1>2 DEF CreateJob
  <2>2. dispatch[d] = NoDispatch
    BY <1>2 DEF CreateJob, At, TypeOK, DispatchTypeOK, DispatchPc
  <2>3. \A j \in Jobs : j # k => job'[j] = job[j]
    BY <2>1 DEF InsertJob, TypeOK, StoreTypeOK
  <2>4. /\ dispatch'[d].job = k
        /\ \A e \in Dispatchers : e # d => dispatch'[e] = dispatch[e]
    <3>1. d \in DOMAIN dispatch /\ DOMAIN dispatch = Dispatchers
      BY DEF TypeOK, DispatchTypeOK
    <3>2. QED
      BY <2>1, <3>1
  <2>5. QED
    BY <1>1, <2>2, <2>3, <2>4 DEF ProbingIsInHand
<1>3. CASE RetryJob(d)
  <2>1. dispatch[d] = NoDispatch /\ job' = job
    BY <1>3 DEF RetryJob, At, TypeOK, DispatchTypeOK, DispatchPc, storeVars
  <2>2. \A e \in Dispatchers : e # d => dispatch'[e] = dispatch[e]
    BY <1>3, DispatchMoves DEF RetryJob
  <2>3. QED
    BY <1>1, <2>1, <2>2 DEF ProbingIsInHand
<1>4. CASE LogCreated(d) \/ MarkProbing(d) \/ ProbeAnswered(d) \/ ProbeFailed(d)
           \/ Publish(d) \/ PublishFails(d)
  <2>1. PICK next : DispatchGoto(d, next)
    BY <1>4 DEF LogCreated, MarkProbing, ProbeAnswered, ProbeFailed, Publish, PublishFails
  <2>2. \A e \in Dispatchers : dispatch'[e].job = dispatch[e].job
    BY <2>1, DispatchMoves DEF DispatchGoto
  <2>3. \A j \in Jobs : job'[j] # job[j] => dispatch[d].job = j
    BY <1>4 DEF LogCreated, MarkProbing, ProbeAnswered, ProbeFailed, Publish, PublishFails,
                InsertJobEvent, EventsOnly, UpdateJobState, storeVars, TypeOK, StoreTypeOK
  <2>4. QED
    BY <2>2, <2>3 DEF ProbingIsInHand
<1>5. CASE MarkUnavailable(d) \/ MarkPublishFailed(d) \/ MarkDispatched(d)
  <2>1. PICK k \in Jobs : k = dispatch[d].job
    BY <1>5, DispatchHolds DEF MarkUnavailable, MarkPublishFailed, MarkDispatched, At
  <2>2. PICK s \in {"failed", "dispatched"} : \E r, f, c : UpdateJobState(k, s, r, f, c)
    BY <1>5, <2>1 DEF MarkUnavailable, MarkPublishFailed, MarkDispatched
  <2>3. /\ job'[k].status # "probing"
        /\ \A j \in Jobs : j # k => job'[j] = job[j]
    BY <2>2, UpdatedRow
  <2>4. \A e \in Dispatchers : e # d => dispatch'[e] = dispatch[e]
    BY <1>5, DispatchMoves DEF MarkUnavailable, MarkPublishFailed, MarkDispatched, DispatchEnds
  <2>5. QED
    BY <2>1, <2>3, <2>4 DEF ProbingIsInHand
<1>6. QED
  BY <1>2, <1>3, <1>4, <1>5 DEF DispatchStep

(* Without crashes and requests cut off no job stays probing with nobody   *)
(* to write what came of its probe (attempt_job_dispatch marks the job on  *)
(* each of its ways out).                                                  *)
THEOREM ProbingStaysInHand ==
    ASSUME Failures \cap {"crash", "abort"} = {}
    PROVE  Spec => []ProbingIsInHand
<1>1. Init => ProbingIsInHand
  BY DEF Init, StoreInit, NewRow, ProbingIsInHand
<1>2. ASSUME TypeOK, ProbingIsInHand, [Next]_vars
      PROVE  ProbingIsInHand'
  <2>1. CASE DispatchNext
    BY <1>2, <2>1, DispatchKeepsProbing
  <2>2. CASE ~DispatchNext
    BY <1>2, <2>2, OthersWriteNoProbing DEF ProbingIsInHand
  <2>3. QED
    BY <2>1, <2>2
<1>3. QED
  BY <1>1, <1>2, TypeCorrect, PTL DEF Spec
=============================================================================
