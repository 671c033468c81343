-------------------------- MODULE OrchestratorTypes --------------------------
(***************************************************************************)
(* Type correctness of Orchestrator, with the references between rows,     *)
(* commands and requests that its other invariants rest on.                *)
(***************************************************************************)
EXTENDS Orchestrator, TLAPS

(* The statements keep the tables well-typed.                              *)
LEMMA JobStatements ==
    ASSUME StoreTypeOK, NEW j \in Jobs,
           NEW s \in JobStatus, NEW r \in {"none", "success", "failure"},
           NEW f \in FailureClass, NEW c \in BOOLEAN, UpdateJobState(j, s, r, f, c)
    PROVE  StoreTypeOK'
BY DEF StoreTypeOK, UpdateJobState, JobsOnly, JobRow

LEMMA JobStatusStatement ==
    ASSUME StoreTypeOK, NEW j \in Jobs, NEW s \in JobStatus, UpdateJobStatusOnly(j, s)
    PROVE  StoreTypeOK'
<1>1. job[j] \in JobRow
  BY DEF StoreTypeOK
<1>2. /\ job[j].result \in {"none", "success", "failure"}
      /\ job[j].failureClass \in FailureClass
      /\ job[j].completedAt \in BOOLEAN
  BY <1>1 DEF JobRow
<1>3. QED
  BY <1>2, JobStatements DEF UpdateJobStatusOnly

LEMMA EventStatement ==
    ASSUME StoreTypeOK, NEW e, NEW x, <<e, x>> \in JobEvents \cup ApprovalEvents,
           InsertJobEvent(e, x)
    PROVE  StoreTypeOK'
BY DEF StoreTypeOK, InsertJobEvent, EventsOnly

LEMMA ApprovalStatement ==
    ASSUME StoreTypeOK, NEW a \in Approvals, NEW j \in Jobs,
           NEW s \in {"pending", "approved", "rejected"}, WriteApproval(a, s, j)
    PROVE  /\ StoreTypeOK'
           /\ \A b \in Approvals : approval[b] # NoApprovalRow =>
                                   approval'[b] # NoApprovalRow
BY DEF StoreTypeOK, WriteApproval, ApprovalsOnly, ApprovalRow, NoApprovalRow

LEMMA ReplyStatement ==
    ASSUME StoreTypeOK, NEW j \in Jobs, NEW m \in Markers, PostReplyOnce(j, m)
    PROVE  StoreTypeOK'
<1>1. CASE UNCHANGED storeVars
  BY <1>1 DEF StoreTypeOK, storeVars
<1>2. CASE AddReply(j, m)
  <2>1. [replies[j] EXCEPT ![m] = replies[j][m] + 1] \in [Markers -> Nat]
    BY DEF StoreTypeOK
  <2>2. replies' \in [Jobs -> [Markers -> Nat]]
    BY <1>2, <2>1 DEF AddReply, StoreTypeOK
  <2>3. QED
    BY <1>2, <2>2 DEF AddReply, MessagesOnly, StoreTypeOK
<1>3. QED
  BY <1>1, <1>2 DEF PostReplyOnce

LEMMA SummaryStatements ==
    ASSUME StoreTypeOK, NEW j \in Jobs, InsertSummary(j) \/ PointToSummary(j)
    PROVE  StoreTypeOK'
<1>1. /\ summaries[j].latest \in Nat
      /\ summaries[j].latest + 1 \in Nat
      /\ summaries[j].current \in Nat
  BY DEF StoreTypeOK
<1>2. summaries' \in [Jobs -> [latest: Nat, current: Nat]]
  <2>1. CASE InsertSummary(j)
    BY <1>1, <2>1 DEF StoreTypeOK, InsertSummary
  <2>2. CASE PointToSummary(j)
    BY <1>1, <2>2 DEF StoreTypeOK, PointToSummary
  <2>3. QED
    BY <2>1, <2>2
<1>3. UNCHANGED <<job, approval, auditLog, replies, trusted>>
  BY DEF InsertSummary, PointToSummary, SummariesOnly
<1>4. QED
  BY <1>2, <1>3 DEF StoreTypeOK

(* What a request or the consumer holds while it is not idle.              *)
LEMMA DispatchHolds ==
    ASSUME TypeOK, NEW d \in Dispatchers, dispatch[d].pc # "idle"
    PROVE  dispatch[d] \in [pc: DispatchPc, job: Jobs, device: Devices]
BY DEF TypeOK, DispatchTypeOK, NoDispatch

LEMMA ResolveHolds ==
    ASSUME TypeOK, NEW r \in Resolvers, resolve[r].pc # "idle"
    PROVE  /\ resolve[r] \in [pc: ResolvePc, approval: Approvals, decision: Decision]
           /\ approval[resolve[r].approval] \in ApprovalRow
           /\ JobOf(r) \in Jobs
BY DEF TypeOK, ResolveTypeOK, NoResolve, StoreTypeOK, ApprovalRow, JobOf

LEMMA ConsumerHolds ==
    ASSUME TypeOK, consumer.pc # "idle"
    PROVE  /\ consumer \in [pc: ConsumerPc \ {"idle"}, event: Event]
           /\ Kind \in EventKind
           /\ EventJob \in Jobs
BY DEF TypeOK, ConsumerTypeOK, ConsumerIdle, Event, Kind, EventJob

LEMMA EventTypes ==
    ASSUME NEW kind \in EventKind
    PROVE  /\ StatusOf(kind) \in JobStatus
           /\ ResultOf(kind) \in {"none", "success", "failure"}
           /\ FailureClassOf(kind) \in FailureClass
           /\ HasReply(kind) => MarkerOf(kind) \in Markers
           /\ AfterReport(kind) \in ConsumerPc \ {"idle"}
           /\ AfterState(kind) \in ConsumerPc \ {"idle"}
BY DEF EventKind, AllOutcomes, StatusOf, ResultOf, FailureClassOf, HasReply, MarkerOf,
       AfterReport, AfterState, JobStatus, FailureClass, Markers, ConsumerPc
-----------------------------------------------------------------------------
LEMMA InitTypes == Init => TypeOK
<1> SUFFICES ASSUME Init PROVE TypeOK
  OBVIOUS
<1>1. StoreTypeOK
  <2>1. PICK legacy \in SUBSET LegacyJobs :
           /\ job = [j \in Jobs |->
                        NewRow(IF j \in legacy THEN "pending" ELSE "absent", NoDevice)]
           /\ auditLog \in SUBSET ({"job.created"} \X legacy)
    BY DEF Init, StoreInit
  <2>2. job \in [Jobs -> JobRow]
    BY <2>1 DEF NewRow, JobRow, JobStatus, FailureClass
  <2>3. auditLog \subseteq JobEvents
    BY <2>1, StoreAssumption DEF JobEvents
  <2>4. replies \in [Jobs -> [Markers -> Nat]]
    BY DEF Init, StoreInit
  <2>5. summaries \in [Jobs -> [latest: Nat, current: Nat]]
    BY DEF Init, StoreInit
  <2>6. QED
    BY <2>2, <2>3, <2>4, <2>5 DEF Init, StoreInit, StoreTypeOK
<1>2. BusTypeOK
  BY DEF Init, BusInit, BusTypeOK, PushStage
<1>3. QED
  BY <1>1, <1>2 DEF Init, TypeOK, DispatchInit, DispatchTypeOK, ResolveInit, ResolveTypeOK,
                    ConsumerInit, ConsumerTypeOK
-----------------------------------------------------------------------------
(* A request that creates or retries a job keeps the types.                *)
LEMMA DispatchGotoTypes ==
    ASSUME TypeOK, NEW d \in Dispatchers, dispatch[d].pc # "idle",
           \/ DispatchEnds(d)
           \/ \E pc \in DispatchPc : DispatchGoto(d, pc)
    PROVE  DispatchTypeOK'
<1>1. /\ dispatch[d].job \in Jobs
      /\ dispatch[d].device \in Devices
  BY DispatchHolds
<1>2. CASE DispatchEnds(d)
  BY <1>2 DEF DispatchEnds, TypeOK, DispatchTypeOK
<1>3. CASE \E pc \in DispatchPc : DispatchGoto(d, pc)
  BY <1>1, <1>3 DEF DispatchGoto, TypeOK, DispatchTypeOK
<1>4. QED
  BY <1>2, <1>3

LEMMA DispatchFrame ==
    ASSUME TypeOK, StoreTypeOK', DispatchTypeOK', UNCHANGED <<approval, resolve, consumer>>,
           UNCHANGED <<push, lifecycle>>,
           attempt' \in [Attempts -> [stage: AttemptStage, job: Jobs] \cup {Unused}]
    PROVE  TypeOK'
BY DEF TypeOK, BusTypeOK, ResolveTypeOK, ConsumerTypeOK

LEMMA DispatchNextTypes == TypeOK /\ DispatchNext => TypeOK'
<1> SUFFICES ASSUME TypeOK, NEW d \in Dispatchers,
                    CreateJob(d) \/ RetryJob(d) \/ DispatchStep(d) \/ DispatchAborts(d)
             PROVE  TypeOK'
  BY DEF DispatchNext
<1> USE DEF At
<1>1. attempt \in [Attempts -> [stage: AttemptStage, job: Jobs] \cup {Unused}]
  BY DEF TypeOK, BusTypeOK
<1>2. dispatch[d].pc # "idle" => dispatch[d].job \in Jobs
  BY DispatchHolds
<1>3. CASE CreateJob(d)
  <2>1. PICK j \in Jobs, v \in SelectableDevices(NoDevice) :
           /\ InsertJob(j, v)
           /\ dispatch' = [dispatch EXCEPT ![d] =
                             [pc |-> "log_created", job |-> j, device |-> v]]
    BY <1>3 DEF CreateJob
  <2>2. v \in Devices
    BY DEF SelectableDevices, TypeOK, StoreTypeOK
  <2>3. StoreTypeOK'
    BY <2>1, <2>2 DEF TypeOK, StoreTypeOK, InsertJob, NewRow, JobsOnly, JobRow,
                      JobStatus, FailureClass
  <2>4. DispatchTypeOK'
    BY <2>1, <2>2 DEF TypeOK, DispatchTypeOK, DispatchPc
  <2>5. QED
    BY <1>1, <1>3, <2>1, <2>3, <2>4, DispatchFrame DEF CreateJob, InsertJob, JobsOnly, busVars
<1>4. CASE RetryJob(d)
  <2>0. PICK j \in Jobs : \E v \in SelectableDevices(job[j].device) :
           dispatch' = [dispatch EXCEPT ![d] =
                          [pc |-> "mark_probing", job |-> j, device |-> v]]
    BY <1>4 DEF RetryJob
  <2>1. PICK v \in SelectableDevices(job[j].device) :
           dispatch' = [dispatch EXCEPT ![d] =
                          [pc |-> "mark_probing", job |-> j, device |-> v]]
    BY <2>0
  <2>2. v \in Devices
    BY DEF SelectableDevices, TypeOK, StoreTypeOK
  <2>3. DispatchTypeOK'
    BY <2>1, <2>2 DEF TypeOK, DispatchTypeOK, DispatchPc
  <2>4. StoreTypeOK'
    BY <1>4 DEF TypeOK, StoreTypeOK, RetryJob, storeVars
  <2>5. QED
    BY <1>1, <1>4, <2>3, <2>4, DispatchFrame DEF RetryJob, storeVars, busVars
<1>5. CASE LogCreated(d)
  <2>1. StoreTypeOK'
    BY <1>2, <1>5, EventStatement DEF LogCreated, JobEvents, TypeOK
  <2>2. DispatchTypeOK'
    BY <1>5, DispatchGotoTypes DEF LogCreated, DispatchPc
  <2>3. QED
    BY <1>1, <1>5, <2>1, <2>2, DispatchFrame DEF LogCreated, InsertJobEvent, EventsOnly, busVars
<1>6. CASE MarkProbing(d) \/ MarkUnavailable(d) \/ MarkPublishFailed(d) \/ MarkDispatched(d)
  <2>1. PICK s \in JobStatus, r \in {"none", "success", "failure"}, f \in FailureClass,
             c \in BOOLEAN : UpdateJobState(dispatch[d].job, s, r, f, c)
    BY <1>6 DEF MarkProbing, MarkUnavailable, MarkPublishFailed, MarkDispatched,
                JobStatus, FailureClass
  <2>2. StoreTypeOK'
    BY <1>2, <1>6, <2>1, JobStatements
       DEF TypeOK, MarkProbing, MarkUnavailable, MarkPublishFailed, MarkDispatched
  <2>3. DispatchTypeOK'
    BY <1>6, DispatchGotoTypes
       DEF MarkProbing, MarkUnavailable, MarkPublishFailed, MarkDispatched, DispatchPc
  <2>4. UNCHANGED <<busVars, resolve, consumer>>
    BY <1>6 DEF MarkProbing, MarkUnavailable, MarkPublishFailed, MarkDispatched
  <2>5. UNCHANGED approval
    BY <2>1 DEF UpdateJobState, JobsOnly
  <2>6. QED
    BY <1>1, <2>2, <2>3, <2>4, <2>5, DispatchFrame DEF busVars
<1>7. CASE ProbeAnswered(d) \/ ProbeFailed(d) \/ PublishFails(d) \/ DispatchAborts(d)
  <2>1. UNCHANGED <<busVars, storeVars, resolve, consumer>>
    BY <1>7 DEF ProbeAnswered, ProbeFailed, PublishFails, DispatchAborts
  <2>2. DispatchTypeOK'
    BY <1>7, DispatchGotoTypes
       DEF ProbeAnswered, ProbeFailed, PublishFails, DispatchAborts, DispatchPc
  <2>3. StoreTypeOK'
    BY <2>1 DEF storeVars, TypeOK, StoreTypeOK
  <2>4. QED
    BY <1>1, <2>1, <2>2, <2>3, DispatchFrame DEF storeVars, busVars
<1>8. CASE Publish(d)
  <2>1. attempt' \in [Attempts -> [stage: AttemptStage, job: Jobs] \cup {Unused}]
    <3>1. PICK n \in Attempts :
             attempt' = [attempt EXCEPT ![n] = [stage |-> "sent", job |-> dispatch[d].job]]
      BY <1>8 DEF Publish, PublishDispatch, UnusedAttempts
    <3>2. dispatch[d].job \in Jobs
      BY <1>2, <1>8 DEF Publish
    <3>3. QED
      BY <1>1, <3>1, <3>2 DEF AttemptStage
  <2>2. DispatchTypeOK'
    BY <1>8, DispatchGotoTypes DEF Publish, DispatchPc
  <2>3. StoreTypeOK'
    BY <1>8 DEF Publish, storeVars, TypeOK, StoreTypeOK
  <2>4. QED
    BY <1>8, <2>1, <2>2, <2>3, DispatchFrame DEF Publish, storeVars
<1>9. QED
  BY <1>3, <1>4, <1>5, <1>6, <1>7, <1>8 DEF DispatchStep
-----------------------------------------------------------------------------
(* An approval request keeps the types: only SetApprovalStatus touches what *)
(* it refers to, and it turns no row back into an absent one.               *)
LEMMA ResolveGotoTypes ==
    ASSUME TypeOK, NEW r \in Resolvers, resolve[r].pc # "idle",
           \/ ResolveEnds(r)
           \/ \E pc \in ResolvePc : ResolveGoto(r, pc),
           \A a \in Approvals : approval[a] # NoApprovalRow => approval'[a] # NoApprovalRow
    PROVE  ResolveTypeOK'
<1>1. /\ resolve[r].approval \in Approvals
      /\ resolve[r].decision \in Decision
      /\ approval[resolve[r].approval] # NoApprovalRow
  BY ResolveHolds DEF ApprovalRow, NoApprovalRow
<1>2. CASE ResolveEnds(r)
  <2>1. resolve' \in [Resolvers ->
            [pc: ResolvePc, approval: Approvals, decision: Decision] \cup {NoResolve}]
    BY <1>2 DEF ResolveEnds, TypeOK, ResolveTypeOK
  <2>2. \A s \in Resolvers : resolve'[s] # NoResolve =>
            resolve[s] # NoResolve /\ resolve'[s] = resolve[s]
    BY <1>2 DEF ResolveEnds, TypeOK, ResolveTypeOK
  <2>3. QED
    BY <2>1, <2>2 DEF TypeOK, ResolveTypeOK, NoResolve
<1>3. CASE \E pc \in ResolvePc : ResolveGoto(r, pc)
  <2>1. resolve' \in [Resolvers ->
            [pc: ResolvePc, approval: Approvals, decision: Decision] \cup {NoResolve}]
    BY <1>1, <1>3 DEF ResolveGoto, TypeOK, ResolveTypeOK
  <2>2. \A s \in Resolvers : resolve'[s].approval = resolve[s].approval
    BY <1>3 DEF ResolveGoto, TypeOK, ResolveTypeOK
  <2>3. \A s \in Resolvers : s # r => resolve'[s] = resolve[s]
    BY <1>3 DEF ResolveGoto, TypeOK, ResolveTypeOK
  <2>4. \A s \in Resolvers : resolve'[s] # NoResolve =>
            resolve[s].approval \in Approvals /\ approval[resolve[s].approval] # NoApprovalRow
    <3> SUFFICES ASSUME NEW s \in Resolvers, resolve'[s] # NoResolve
                 PROVE  resolve[s].approval \in Approvals
                        /\ approval[resolve[s].approval] # NoApprovalRow
      OBVIOUS
    <3>1. CASE s = r
      BY <1>1, <3>1
    <3>2. CASE s # r
      BY <2>3, <3>2 DEF TypeOK, ResolveTypeOK
    <3>3. QED
      BY <3>1, <3>2
  <2>5. QED
    BY <2>1, <2>2, <2>4 DEF ResolveTypeOK
<1>4. QED
  BY <1>2, <1>3

LEMMA ResolveFrame ==
    ASSUME TypeOK, StoreTypeOK', ResolveTypeOK', UNCHANGED <<dispatch, consumer>>,
           UNCHANGED <<attempt, lifecycle>>,
           push' \in [Approvals -> [stage: PushStage, sent: Nat]],
           \A a \in Approvals : push'[a].stage # "none" => approval'[a] # NoApprovalRow
    PROVE  TypeOK'
BY DEF TypeOK, BusTypeOK, DispatchTypeOK, ConsumerTypeOK

LEMMA ResolveNextTypes == TypeOK /\ ResolveNext => TypeOK'
<1> SUFFICES ASSUME TypeOK, NEW r \in Resolvers,
                    LoadPending(r) \/ ResolveStep(r) \/ ResolveAborts(r)
             PROVE  TypeOK'
  BY DEF ResolveNext
<1> USE DEF ResolveAt
<1>1. /\ push \in [Approvals -> [stage: PushStage, sent: Nat]]
      /\ \A a \in Approvals : push[a].stage # "none" => approval[a] # NoApprovalRow
  BY DEF TypeOK, BusTypeOK
<1>2. resolve[r].pc # "idle" => /\ resolve[r].approval \in Approvals
                                /\ resolve[r].decision \in Decision
                                /\ approval[resolve[r].approval] # NoApprovalRow
                                /\ JobOf(r) \in Jobs
  BY ResolveHolds DEF ApprovalRow, NoApprovalRow
<1>3. CASE LoadPending(r)
  <2>1. PICK a \in Approvals, decision \in Decision :
           /\ approval[a].status = "pending"
           /\ resolve' = [resolve EXCEPT ![r] =
                            [pc |-> "resolve", approval |-> a, decision |-> decision]]
    BY <1>3 DEF LoadPending
  <2>2. UNCHANGED <<busVars, storeVars, dispatch, consumer>>
    BY <1>3 DEF LoadPending
  <2>3. ResolveTypeOK'
    <3>1. resolve' \in [Resolvers ->
              [pc: ResolvePc, approval: Approvals, decision: Decision] \cup {NoResolve}]
      BY <2>1 DEF TypeOK, ResolveTypeOK, ResolvePc
    <3>2. approval[a] # NoApprovalRow
      BY <2>1 DEF NoApprovalRow
    <3>3. \A s \in Resolvers : s # r => resolve'[s] = resolve[s]
      BY <2>1 DEF TypeOK, ResolveTypeOK
    <3>4. resolve'[r].approval = a
      BY <2>1 DEF TypeOK, ResolveTypeOK
    <3>5. QED
      BY <2>2, <3>1, <3>2, <3>3, <3>4 DEF TypeOK, ResolveTypeOK, storeVars
  <2>4. StoreTypeOK'
    BY <2>2 DEF storeVars, TypeOK, StoreTypeOK
  <2>5. QED
    BY <1>1, <2>2, <2>3, <2>4, ResolveFrame DEF storeVars, busVars
<1>4. CASE ResolveConflict(r) \/ CheckDevice(r) \/ PublishApprovedFails(r) \/ ResolveAborts(r)
  <2>1. UNCHANGED <<busVars, storeVars, dispatch, consumer>>
    BY <1>4 DEF ResolveConflict, CheckDevice, PublishApprovedFails, ResolveAborts
  <2>2. StoreTypeOK' /\ approval' = approval
    BY <2>1 DEF storeVars, TypeOK, StoreTypeOK
  <2>3. ResolveTypeOK'
    BY <1>4, <2>2, ResolveGotoTypes
       DEF ResolveConflict, CheckDevice, PublishApprovedFails, ResolveAborts, ResolvePc
  <2>4. QED
    BY <1>1, <2>1, <2>2, <2>3, ResolveFrame DEF busVars
<1>5. CASE PublishApproved(r)
  <2>1. approval' = approval /\ StoreTypeOK'
    BY <1>5 DEF PublishApproved, storeVars, TypeOK, StoreTypeOK
  <2>2. ResolveTypeOK'
    BY <1>5, <2>1, ResolveGotoTypes DEF PublishApproved, ResolvePc
  <2>3. push' = [push EXCEPT ![resolve[r].approval] =
                    [stage |-> "sent", sent |-> push[resolve[r].approval].sent + 1]]
    BY <1>5 DEF PublishApproved, PublishPush
  <2>4. push[resolve[r].approval].sent + 1 \in Nat
    BY <1>1, <1>2, <1>5 DEF PublishApproved
  <2>5. push' \in [Approvals -> [stage: PushStage, sent: Nat]]
    BY <1>1, <2>3, <2>4 DEF PushStage
  <2>6. \A a \in Approvals : push'[a].stage # "none" => approval'[a] # NoApprovalRow
    <3>1. \A a \in Approvals : a # resolve[r].approval => push'[a] = push[a]
      BY <1>1, <2>3
    <3>2. approval[resolve[r].approval] # NoApprovalRow
      BY <1>2, <1>5 DEF PublishApproved
    <3>3. QED
      BY <1>1, <2>1, <3>1, <3>2
  <2>7. QED
    BY <1>5, <2>1, <2>2, <2>5, <2>6, ResolveFrame DEF PublishApproved
<1>6. ASSUME NEW s \in {"pending", "approved", "rejected"},
             SetApprovalStatus(resolve[r].approval, s), resolve[r].pc # "idle",
             \/ ResolveEnds(r)
             \/ \E pc \in ResolvePc : ResolveGoto(r, pc),
             UNCHANGED <<busVars, dispatch, consumer>>
      PROVE  TypeOK'
  <2>1. /\ StoreTypeOK'
        /\ \A a \in Approvals : approval[a] # NoApprovalRow => approval'[a] # NoApprovalRow
    BY <1>2, <1>6, ApprovalStatement DEF SetApprovalStatus, JobOf, TypeOK
  <2>2. ResolveTypeOK'
    BY <1>6, <2>1, ResolveGotoTypes
  <2>3. QED
    BY <1>1, <1>6, <2>1, <2>2, ResolveFrame DEF busVars
<1>7. CASE Resolve(r)
  BY <1>2, <1>6, <1>7 DEF Resolve, Decision, ResolvePc
<1>8. CASE ResetToPending(r)
  <2>1. CASE SetApprovalStatus(resolve[r].approval, "pending")
    BY <1>6, <1>8, <2>1 DEF ResetToPending
  <2>2. CASE UNCHANGED storeVars
    <3>1. approval' = approval /\ StoreTypeOK'
      BY <2>2 DEF storeVars, TypeOK, StoreTypeOK
    <3>2. ResolveTypeOK'
      BY <1>8, <3>1, ResolveGotoTypes DEF ResetToPending
    <3>3. QED
      BY <1>1, <1>8, <3>1, <3>2, ResolveFrame DEF ResetToPending, busVars
  <2>3. QED
    BY <1>8, <2>1, <2>2 DEF ResetToPending
<1>9. CASE LogDecision(r)
  <2>1. resolve[r].approval \in Approvals
    BY <1>2, <1>9 DEF LogDecision
  <2>2. StoreTypeOK' /\ approval' = approval
    BY <1>9, <2>1, EventStatement
       DEF LogDecision, ApprovalEvents, TypeOK, InsertJobEvent, EventsOnly
  <2>3. ResolveTypeOK'
    BY <1>9, <2>2, ResolveGotoTypes DEF LogDecision, ResolvePc
  <2>4. QED
    BY <1>1, <1>9, <2>2, <2>3, ResolveFrame DEF LogDecision, busVars
<1>10. CASE CompleteRejected(r)
  <2>1. StoreTypeOK' /\ approval' = approval
    BY <1>2, <1>10, JobStatusStatement
       DEF CompleteRejected, TypeOK, JobStatus, UpdateJobStatusOnly, UpdateJobState, JobsOnly
  <2>2. ResolveTypeOK'
    BY <1>10, <2>1, ResolveGotoTypes DEF CompleteRejected
  <2>3. QED
    BY <1>1, <1>10, <2>1, <2>2, ResolveFrame DEF CompleteRejected, busVars
<1>11. QED
  BY <1>3, <1>4, <1>5, <1>7, <1>8, <1>9, <1>10 DEF ResolveStep
-----------------------------------------------------------------------------
(* The lifecycle consumer keeps the types.                                 *)
LEMMA ConsumerFrame ==
    ASSUME TypeOK, StoreTypeOK', ConsumerTypeOK', UNCHANGED <<dispatch, resolve>>,
           UNCHANGED <<attempt, push>>, lifecycle' \in Seq(Event),
           \A a \in Approvals : approval[a] # NoApprovalRow => approval'[a] # NoApprovalRow
    PROVE  TypeOK'
BY DEF TypeOK, BusTypeOK, DispatchTypeOK, ResolveTypeOK

LEMMA ConsumerNextTypes == TypeOK /\ ConsumerNext => TypeOK'
<1> SUFFICES ASSUME TypeOK, ConsumerNext PROVE TypeOK'
  OBVIOUS
<1> USE DEF ConsumerAt
<1>1. lifecycle \in Seq(Event)
  BY DEF TypeOK, BusTypeOK
<1>2. consumer.pc # "idle" => EventJob \in Jobs /\ Kind \in EventKind
  BY ConsumerHolds
<1>3. ASSUME NEW pc \in ConsumerPc \ {"idle"}, ConsumerGoto(pc), consumer.pc # "idle"
      PROVE  ConsumerTypeOK'
  BY <1>3, ConsumerHolds DEF ConsumerGoto, ConsumerTypeOK
<1>4. consumer' = ConsumerIdle => ConsumerTypeOK'
  BY DEF ConsumerTypeOK
<1>5. CASE TakeEvent
  <2>1. Head(lifecycle) \in Event /\ Tail(lifecycle) \in Seq(Event)
    BY <1>1, <1>5 DEF TakeEvent
  <2>2. AfterState(Head(lifecycle).kind) \in ConsumerPc \ {"idle"}
    BY <2>1, EventTypes DEF Event
  <2>3. ConsumerTypeOK'
    BY <1>5, <2>1, <2>2 DEF TakeEvent, ConsumerTypeOK, ConsumerPc
  <2>4. StoreTypeOK' /\ approval' = approval
    BY <1>5 DEF TakeEvent, storeVars, TypeOK, StoreTypeOK
  <2>5. QED
    BY <1>5, <2>1, <2>3, <2>4, ConsumerFrame DEF TakeEvent
<1>6. CASE FoldState
  <2>1. /\ StatusOf(Kind) \in JobStatus
        /\ ResultOf(Kind) \in {"none", "success", "failure"}
        /\ FailureClassOf(Kind) \in FailureClass
        /\ AfterState(Kind) \in ConsumerPc \ {"idle"}
    BY <1>2, <1>6, EventTypes DEF FoldState
  <2>2. StoreTypeOK'
    <3> DEFINE ended == StatusOf(Kind) \in {"completed", "failed", "cancelled"}
    <3>1. ended \in BOOLEAN
      OBVIOUS
    <3>2. EventJob \in Jobs /\ StoreTypeOK
      BY <1>2, <1>6 DEF FoldState, TypeOK
    <3>3. UpdateJobState(EventJob, StatusOf(Kind), ResultOf(Kind), FailureClassOf(Kind), ended)
      BY <1>6, Zenon DEF FoldState
    <3> HIDE DEF ended
    <3>4. QED
      BY <2>1, <3>1, <3>2, <3>3, JobStatements
  <2>3. ConsumerTypeOK'
    BY <1>3, <1>6, <2>1 DEF FoldState
  <2>4. QED
    <3>1. UNCHANGED <<busVars, dispatch, resolve>>
      BY <1>6 DEF FoldState
    <3>2. UNCHANGED approval
      BY <1>6 DEF FoldState, UpdateJobState, JobsOnly
    <3>3. QED
      BY <1>1, <2>2, <2>3, <3>1, <3>2, ConsumerFrame DEF busVars
<1>7. CASE StoreSummary \/ PointJobToSummary
  <2>1. AfterReport(Kind) \in ConsumerPc \ {"idle"}
    BY <1>2, <1>7, EventTypes DEF StoreSummary, PointJobToSummary
  <2>2. StoreTypeOK' /\ approval' = approval
    BY <1>2, <1>7, SummaryStatements
       DEF StoreSummary, PointJobToSummary, TypeOK, InsertSummary, PointToSummary, SummariesOnly
  <2>3. ConsumerTypeOK'
    BY <1>3, <1>7, <2>1 DEF StoreSummary, PointJobToSummary, ConsumerPc
  <2>4. QED
    BY <1>1, <1>7, <2>2, <2>3, ConsumerFrame DEF StoreSummary, PointJobToSummary, busVars
<1>8. CASE FindPending \/ InsertApprovalRefused \/ ConsumerDropsEvent
  <2>1. UNCHANGED <<busVars, storeVars, dispatch, resolve>>
    BY <1>8 DEF FindPending, InsertApprovalRefused, ConsumerDropsEvent
  <2>2. StoreTypeOK' /\ approval' = approval
    BY <2>1 DEF storeVars, TypeOK, StoreTypeOK
  <2>3. ConsumerTypeOK'
    BY <1>3, <1>4, <1>8 DEF FindPending, InsertApprovalRefused, ConsumerDropsEvent, ConsumerPc
  <2>4. QED
    BY <1>1, <2>1, <2>2, <2>3, ConsumerFrame DEF busVars
<1>9. CASE InsertApproval
  <2>1. PICK a \in Approvals : InsertPendingApproval(a, EventJob)
    BY <1>9 DEF InsertApproval
  <2>2. /\ StoreTypeOK'
        /\ \A b \in Approvals : approval[b] # NoApprovalRow => approval'[b] # NoApprovalRow
    BY <1>2, <1>9, <2>1, ApprovalStatement DEF InsertApproval, InsertPendingApproval, TypeOK
  <2>3. ConsumerTypeOK'
    BY <1>3, <1>9 DEF InsertApproval, ConsumerPc
  <2>4. QED
    BY <1>1, <1>9, <2>2, <2>3, ConsumerFrame DEF InsertApproval, busVars
<1>10. CASE PostReply
  <2>1. CASE UNCHANGED storeVars
    <3>1. StoreTypeOK' /\ approval' = approval
      BY <2>1 DEF storeVars, TypeOK, StoreTypeOK
    <3>2. QED
      BY <1>1, <1>4, <1>10, <3>1, ConsumerFrame DEF PostReply, busVars
  <2>2. CASE HasReply(Kind) /\ PostReplyOnce(EventJob, MarkerOf(Kind))
    <3>1. MarkerOf(Kind) \in Markers
      BY <1>2, <1>10, <2>2, EventTypes DEF PostReply
    <3>2. StoreTypeOK'
      BY <1>2, <1>10, <2>2, <3>1, ReplyStatement DEF PostReply, TypeOK
    <3>3. approval' = approval
      BY <2>2 DEF PostReplyOnce, AddReply, MessagesOnly, storeVars
    <3>4. QED
      BY <1>1, <1>4, <1>10, <3>2, <3>3, ConsumerFrame DEF PostReply, busVars
  <2>3. QED
    BY <1>10, <2>1, <2>2 DEF PostReply
<1>11. QED
  BY <1>5, <1>6, <1>7, <1>8, <1>9, <1>10 DEF ConsumerNext, ConsumerStep
-----------------------------------------------------------------------------
(* The edges keep the types.                                               *)
LEMMA EdgeFrame ==
    ASSUME TypeOK, UNCHANGED <<storeVars, taskVars>>, lifecycle' \in Seq(Event),
           attempt' \in [Attempts -> [stage: AttemptStage, job: Jobs] \cup {Unused}],
           push' \in [Approvals -> [stage: PushStage, sent: Nat]],
           \A a \in Approvals : push'[a].stage # "none" => push[a].stage # "none"
    PROVE  TypeOK'
BY DEF TypeOK, StoreTypeOK, BusTypeOK, DispatchTypeOK, ResolveTypeOK, ConsumerTypeOK,
       storeVars, taskVars

LEMMA AdvanceTypes ==
    ASSUME TypeOK, NEW n \in Attempts, NEW from, from # "unused",
           NEW to \in AttemptStage, Advance(n, from, to)
    PROVE  /\ attempt[n].job \in Jobs
           /\ attempt' \in [Attempts -> [stage: AttemptStage, job: Jobs] \cup {Unused}]
<1>1. attempt \in [Attempts -> [stage: AttemptStage, job: Jobs] \cup {Unused}]
  BY DEF TypeOK, BusTypeOK
<1>2. attempt[n].job \in Jobs
  BY <1>1 DEF Advance, Unused
<1>3. QED
  BY <1>1, <1>2 DEF Advance

LEMMA AdvancePushTypes ==
    ASSUME TypeOK, NEW a \in Approvals, NEW from, from # "none",
           NEW to \in PushStage, AdvancePush(a, from, to)
    PROVE  /\ approval[a].job \in Jobs
           /\ push' \in [Approvals -> [stage: PushStage, sent: Nat]]
           /\ \A b \in Approvals : push'[b].stage # "none" => push[b].stage # "none"
<1>1. /\ push \in [Approvals -> [stage: PushStage, sent: Nat]]
      /\ \A b \in Approvals : push[b].stage # "none" => approval[b] # NoApprovalRow
  BY DEF TypeOK, BusTypeOK
<1>2. approval[a].job \in Jobs
  BY <1>1 DEF AdvancePush, TypeOK, StoreTypeOK, ApprovalRow
<1>3. push[a].sent \in Nat /\ push[a].stage # "none"
  BY <1>1 DEF AdvancePush
<1>4. push' \in [Approvals -> [stage: PushStage, sent: Nat]]
  BY <1>1, <1>3 DEF AdvancePush
<1>5. \A b \in Approvals : push'[b].stage # "none" => push[b].stage # "none"
  BY <1>1, <1>3 DEF AdvancePush
<1>6. QED
  BY <1>2, <1>4, <1>5

LEMMA EmitTypes ==
    ASSUME TypeOK, NEW kind \in EventKind, NEW j \in Jobs, Emit(kind, j)
    PROVE  lifecycle' \in Seq(Event)
<1>1. lifecycle \in Seq(Event)
  BY DEF TypeOK, BusTypeOK
<1>2. [kind |-> kind, job |-> j] \in Event
  BY DEF Event
<1>3. QED
  BY <1>1, <1>2 DEF Emit

LEMMA EdgeNextTypes == TypeOK /\ EdgeNext => TypeOK'
<1> SUFFICES ASSUME TypeOK, EdgeNext PROVE TypeOK'
  OBVIOUS
<1>1. /\ attempt \in [Attempts -> [stage: AttemptStage, job: Jobs] \cup {Unused}]
      /\ push \in [Approvals -> [stage: PushStage, sent: Nat]]
      /\ lifecycle \in Seq(Event)
  BY DEF TypeOK, BusTypeOK
<1>2. ASSUME NEW n \in Attempts, NEW from, from # "unused", NEW to \in AttemptStage,
             Advance(n, from, to), NEW kind \in EventKind, Emit(kind, attempt[n].job),
             UNCHANGED <<storeVars, push, taskVars>>
      PROVE  TypeOK'
  <2>1. /\ attempt[n].job \in Jobs
        /\ attempt' \in [Attempts -> [stage: AttemptStage, job: Jobs] \cup {Unused}]
    BY <1>2, AdvanceTypes
  <2>2. lifecycle' \in Seq(Event)
    BY <1>2, <2>1, EmitTypes
  <2>3. QED
    BY <1>1, <1>2, <2>1, <2>2, EdgeFrame
<1>3. ASSUME NEW n \in Attempts,
             EdgeStarts(n) \/ EdgeEnds(n) \/ EdgeCompletesForPush(n) \/ EdgeAsksForApproval(n)
      PROVE  TypeOK'
  <2>1. CASE EdgeStarts(n)
    BY <1>2, <2>1 DEF EdgeStarts, AttemptStage, EventKind
  <2>2. CASE EdgeEnds(n)
    <3>1. PICK kind \in Outcomes : Emit(kind, attempt[n].job)
      BY <2>2 DEF EdgeEnds
    <3>2. kind \in EventKind
      BY BusAssumption DEF EventKind
    <3>3. QED
      BY <1>2, <2>2, <3>1, <3>2 DEF EdgeEnds, AttemptStage
  <2>3. CASE EdgeCompletesForPush(n)
    BY <1>2, <2>3 DEF EdgeCompletesForPush, AttemptStage, EventKind
  <2>4. CASE EdgeAsksForApproval(n)
    BY <1>2, <2>4 DEF EdgeAsksForApproval, AttemptStage, EventKind
  <2>5. QED
    BY <1>3, <2>1, <2>2, <2>3, <2>4
<1>4. ASSUME NEW a \in Approvals, NEW from, from # "none", NEW to \in PushStage,
             AdvancePush(a, from, to), NEW kind \in EventKind, Emit(kind, approval[a].job),
             UNCHANGED <<storeVars, attempt, taskVars>>
      PROVE  TypeOK'
  <2>1. /\ approval[a].job \in Jobs
        /\ push' \in [Approvals -> [stage: PushStage, sent: Nat]]
        /\ \A b \in Approvals : push'[b].stage # "none" => push[b].stage # "none"
    BY <1>4, AdvancePushTypes
  <2>2. lifecycle' \in Seq(Event)
    BY <1>4, <2>1, EmitTypes
  <2>3. QED
    BY <1>1, <1>4, <2>1, <2>2, EdgeFrame
<1>5. ASSUME NEW a \in Approvals, EdgeStartsPush(a) \/ EdgeEndsPush(a)
      PROVE  TypeOK'
  <2>1. CASE EdgeStartsPush(a)
    BY <1>4, <2>1 DEF EdgeStartsPush, PushStage, EventKind
  <2>2. CASE EdgeEndsPush(a)
    BY <1>4, <2>2 DEF EdgeEndsPush, PushStage, EventKind, AllOutcomes
  <2>3. QED
    BY <1>5, <2>1, <2>2
<1>6. CASE CommandLost
  <2>1. CASE \E n \in Attempts : Advance(n, "sent", "lost") /\ UNCHANGED push
    <3>1. attempt' \in [Attempts -> [stage: AttemptStage, job: Jobs] \cup {Unused}]
      BY <2>1, AdvanceTypes DEF AttemptStage
    <3>2. QED
      BY <1>1, <1>6, <2>1, <3>1, EdgeFrame DEF CommandLost
  <2>2. CASE \E a \in Approvals : AdvancePush(a, "sent", "lost") /\ UNCHANGED attempt
    <3>1. /\ push' \in [Approvals -> [stage: PushStage, sent: Nat]]
          /\ \A b \in Approvals : push'[b].stage # "none" => push[b].stage # "none"
      BY <2>2, AdvancePushTypes DEF PushStage
    <3>2. QED
      BY <1>1, <1>6, <2>2, <3>1, EdgeFrame DEF CommandLost
  <2>3. QED
    BY <1>6, <2>1, <2>2 DEF CommandLost
<1>7. QED
  BY <1>3, <1>5, <1>6 DEF EdgeNext
-----------------------------------------------------------------------------
LEMMA StepTypes == TypeOK /\ [Next]_vars => TypeOK'
<1> SUFFICES ASSUME TypeOK, [Next]_vars PROVE TypeOK'
  OBVIOUS
<1>1. CASE TrustChanges
  <2>1. trusted' \subseteq Devices
    BY <1>1 DEF TrustChanges, TypeOK, StoreTypeOK
  <2>2. QED
    BY <1>1, <2>1 DEF TrustChanges, TypeOK, StoreTypeOK, BusTypeOK, DispatchTypeOK,
                      ResolveTypeOK, ConsumerTypeOK, busVars, taskVars
<1>2. CASE Crash
  <2>1. StoreTypeOK' /\ BusTypeOK'
    BY <1>2 DEF Crash, TypeOK, StoreTypeOK, BusTypeOK, storeVars
  <2>2. DispatchTypeOK' /\ ResolveTypeOK' /\ ConsumerTypeOK'
    BY <1>2 DEF Crash, DispatchTypeOK, ResolveTypeOK, ConsumerTypeOK
  <2>3. QED
    BY <2>1, <2>2 DEF TypeOK
<1>3. CASE UNCHANGED vars
  BY <1>3 DEF vars, storeVars, busVars, taskVars, TypeOK, StoreTypeOK, BusTypeOK,
              DispatchTypeOK, ResolveTypeOK, ConsumerTypeOK
<1>4. QED
  BY <1>1, <1>2, <1>3, DispatchNextTypes, ResolveNextTypes, ConsumerNextTypes, EdgeNextTypes
     DEF Next

(* Every table, command, event and task keeps its type, no push exists for *)
(* an approval that is not a row, and no request holds one that is not.    *)
THEOREM TypeCorrect == Spec => []TypeOK
BY InitTypes, StepTypes, PTL DEF Spec
=============================================================================
