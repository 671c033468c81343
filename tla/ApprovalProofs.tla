---------------------------- MODULE ApprovalProofs ----------------------------
(***************************************************************************)
(* Whatever requests, edges, failures and crashes do, an approval is       *)
(* pushed at most once and its row and audit trail agree with the push.    *)
(* OneHandPerPush is inductive; the properties are its conjuncts, and with *)
(* it every step is one of PushAuthorisation's, or none.                   *)
(* The second half is about jobs whose retries take turns: a job then has  *)
(* one life at a time (LifeInv), a retry begins from a failed job only,    *)
(* and an approved approval is pushed or stays in a request's hands.  Last,*)
(* a job that waits for an approval has one that can be answered.          *)
(***************************************************************************)
EXTENDS OrchestratorTypes

(* What OneHandPerPush depends on.                                         *)
LEMMA UntouchedStaysInOneHand ==
    ASSUME OneHandPerPush, UNCHANGED <<approval, push, resolve>>,
           \A a \in Approvals, e \in {"approval.approved", "approval.rejected"} :
               Logged(e, a)' => Logged(e, a)
    PROVE  OneHandPerPush'
BY DEF OneHandPerPush, PushAtMostOnce, PushedStaysApproved, AuditTruthful, InHand, Decided

LEMMA InitInOneHand == Init => OneHandPerPush
<1> SUFFICES ASSUME Init PROVE OneHandPerPush
  OBVIOUS
<1>1. \A a \in Approvals : push[a].sent = 0
  BY DEF Init, BusInit
<1>2. \A a \in Approvals, e \in {"approval.approved", "approval.rejected"} : ~Logged(e, a)
  BY DEF Init, StoreInit, Logged
<1>3. \A r \in Resolvers : resolve[r].pc = "idle"
  BY DEF Init, ResolveInit, NoResolve
<1>4. QED
  BY <1>1, <1>2, <1>3
     DEF OneHandPerPush, PushAtMostOnce, PushedStaysApproved, AuditTruthful, InHand, Decided
-----------------------------------------------------------------------------
(* The other tasks and the edges leave approvals and pushes alone, but for *)
(* the consumer, which adds pending approvals.                             *)
LEMMA DispatchLeavesApprovals ==
    OneHandPerPush /\ DispatchNext => OneHandPerPush' /\ UNCHANGED <<approval, push>>
<1> SUFFICES ASSUME OneHandPerPush, NEW d \in Dispatchers,
                    CreateJob(d) \/ RetryJob(d) \/ DispatchStep(d) \/ DispatchAborts(d)
             PROVE  OneHandPerPush' /\ UNCHANGED <<approval, push>>
  BY DEF DispatchNext
<1>1. UNCHANGED <<approval, push, resolve>>
  BY DEF CreateJob, RetryJob, DispatchStep, DispatchAborts, LogCreated, MarkProbing,
         ProbeAnswered, ProbeFailed, MarkUnavailable, Publish, PublishFails,
         MarkPublishFailed, MarkDispatched, InsertJob, InsertJobEvent, UpdateJobState,
         JobsOnly, EventsOnly, storeVars, busVars
<1>2. auditLog' = auditLog \/ \E j \in {dispatch[d].job} : InsertJobEvent("job.created", j)
  BY DEF CreateJob, RetryJob, DispatchStep, DispatchAborts, LogCreated, MarkProbing,
         ProbeAnswered, ProbeFailed, MarkUnavailable, Publish, PublishFails,
         MarkPublishFailed, MarkDispatched, InsertJob, UpdateJobState,
         JobsOnly, storeVars
<1>3. \A a \in Approvals, e \in {"approval.approved", "approval.rejected"} :
          Logged(e, a)' => Logged(e, a)
  BY <1>2 DEF InsertJobEvent, Logged
<1>4. QED
  BY <1>1, <1>3, UntouchedStaysInOneHand

(* Which rows a statement on one approval leaves as they were.             *)
LEMMA WriteApprovalRows ==
    ASSUME TypeOK, NEW a \in Approvals, NEW s, NEW j, WriteApproval(a, s, j)
    PROVE  /\ approval'[a] = [status |-> s, job |-> j]
           /\ \A b \in Approvals : b # a => approval'[b] = approval[b]
BY DEF WriteApproval, TypeOK, StoreTypeOK

LEMMA InsertKeepsOneHand ==
    ASSUME TypeOK, OneHandPerPush, InsertApproval
    PROVE  OneHandPerPush'
<1>1. PICK a \in Approvals : /\ approval[a].status = "absent"
                             /\ WriteApproval(a, "pending", EventJob)
  BY DEF InsertApproval, InsertPendingApproval
<1>2. UNCHANGED <<auditLog, push, resolve>>
  BY <1>1 DEF InsertApproval, WriteApproval, ApprovalsOnly, busVars
<1>3. \A b \in Approvals : b # a => approval'[b] = approval[b]
  BY <1>1, WriteApprovalRows
<1>4. push[a].sent = 0
  BY <1>1 DEF OneHandPerPush, PushedStaysApproved, TypeOK, BusTypeOK
<1>5. /\ ~Logged("approval.approved", a)
      /\ ~Logged("approval.rejected", a)
  BY <1>1, <1>4 DEF OneHandPerPush, AuditTruthful
<1>6. \A r \in Resolvers : InHand(r) \/ Decided(r) => /\ resolve[r].approval \in Approvals
                                                      /\ resolve[r].approval # a
  BY <1>1, ResolveHolds DEF InHand, Decided, ApprovalRow
<1>7. PushAtMostOnce' /\ PushedStaysApproved' /\ AuditTruthful'
  BY <1>2, <1>3, <1>4, <1>5
     DEF OneHandPerPush, PushAtMostOnce, PushedStaysApproved, AuditTruthful, Logged
<1>8. QED
  BY <1>2, <1>3, <1>6, <1>7 DEF OneHandPerPush, InHand, Decided

LEMMA ConsumerKeepsOneHand == TypeOK /\ OneHandPerPush /\ ConsumerNext => OneHandPerPush'
<1> SUFFICES ASSUME TypeOK, OneHandPerPush, ConsumerNext, ~InsertApproval
             PROVE  OneHandPerPush' /\ UNCHANGED <<approval, push>>
  BY InsertKeepsOneHand
<1>1. UNCHANGED <<approval, push, resolve, auditLog>>
  BY DEF ConsumerNext, ConsumerStep, TakeEvent, FoldState, StoreSummary, PointJobToSummary,
         FindPending, InsertApprovalRefused, PostReply, ConsumerDropsEvent, UpdateJobState,
         InsertSummary, PointToSummary, PostReplyOnce, AddReply, JobsOnly, SummariesOnly,
         MessagesOnly, storeVars, busVars
<1>2. QED
  BY <1>1, UntouchedStaysInOneHand DEF Logged

LEMMA EdgeLeavesSent ==
    ASSUME TypeOK, EdgeNext
    PROVE  /\ UNCHANGED <<storeVars, resolve>>
           /\ \A a \in Approvals : push'[a].sent = push[a].sent
<1>1. UNCHANGED <<storeVars, resolve>>
  BY DEF EdgeNext, EdgeStarts, EdgeEnds, EdgeCompletesForPush, EdgeAsksForApproval,
         EdgeStartsPush, EdgeEndsPush, CommandLost, taskVars
<1>2. UNCHANGED push \/ \E a \in Approvals, from, to \in PushStage : AdvancePush(a, from, to)
  BY DEF EdgeNext, EdgeStarts, EdgeEnds, EdgeCompletesForPush, EdgeAsksForApproval,
         EdgeStartsPush, EdgeEndsPush, CommandLost, PushStage
<1>3. ASSUME NEW a \in Approvals, NEW from, NEW to, AdvancePush(a, from, to)
      PROVE  \A b \in Approvals : push'[b].sent = push[b].sent
  BY <1>3 DEF AdvancePush, TypeOK, BusTypeOK
<1>4. QED
  BY <1>1, <1>2, <1>3
-----------------------------------------------------------------------------
(* What a step of one approval request leaves and moves.                   *)
LEMMA ResolveMoves ==
    ASSUME TypeOK, NEW r \in Resolvers,
           NEW next, resolve' = [resolve EXCEPT ![r] = next]
    PROVE  /\ resolve'[r] = next
           /\ \A s \in Resolvers : s # r => resolve'[s] = resolve[s]
BY DEF TypeOK, ResolveTypeOK

(* A request that lets go, or only moves on with what it holds.            *)
LEMMA LettingGoKeepsOneHand ==
    ASSUME TypeOK, OneHandPerPush, UNCHANGED <<approval, push, auditLog>>,
           NEW r \in Resolvers, NEW next, resolve' = [resolve EXCEPT ![r] = next],
           \/ next.pc \in {"idle", "resolve"}
           \/ /\ InHand(r)
              /\ next.pc \in {"check_device", "publish", "reset"}
              /\ next.approval = resolve[r].approval
              /\ next.decision = resolve[r].decision
    PROVE  OneHandPerPush'
<1>1. /\ resolve'[r] = next
      /\ \A s \in Resolvers : s # r => resolve'[s] = resolve[s]
  BY ResolveMoves
<1>2. \A s \in Resolvers :
          /\ InHand(s)' => /\ InHand(s)
                           /\ resolve'[s].approval = resolve[s].approval
                           /\ resolve'[s].decision = resolve[s].decision
          /\ Decided(s)' => Decided(s) /\ resolve'[s] = resolve[s]
  BY <1>1 DEF InHand, Decided
<1>3. PushAtMostOnce' /\ PushedStaysApproved' /\ AuditTruthful'
  BY DEF OneHandPerPush, PushAtMostOnce, PushedStaysApproved, AuditTruthful, Logged
<1>4. \A s \in Resolvers : InHand(s)' =>
          /\ resolve'[s].decision = "approved"
          /\ approval'[resolve'[s].approval].status = "approved"
          /\ push'[resolve'[s].approval].sent = 0
  BY <1>2 DEF OneHandPerPush
<1>5. \A s, t \in Resolvers :
          InHand(s)' /\ InHand(t)' /\ resolve'[s].approval = resolve'[t].approval => s = t
  BY <1>2 DEF OneHandPerPush
<1>6. \A s \in Resolvers : Decided(s)' =>
          IF resolve'[s].decision = "approved"
          THEN push'[resolve'[s].approval].sent > 0
          ELSE approval'[resolve'[s].approval].status = "rejected"
  BY <1>2 DEF OneHandPerPush
<1>7. QED
  BY <1>3, <1>4, <1>5, <1>6 DEF OneHandPerPush, InHand, Decided

(* The compare-and-set takes an approval nobody else has in hand, because  *)
(* those that are in hand or decided are no longer pending.                *)
LEMMA ResolveKeepsOneHand ==
    ASSUME TypeOK, OneHandPerPush, NEW r \in Resolvers, Resolve(r)
    PROVE  OneHandPerPush'
<1> DEFINE a == resolve[r].approval
           v == resolve[r].decision
<1>1. a \in Approvals /\ v \in Decision
  BY ResolveHolds DEF Resolve, ResolveAt
<1>2. /\ approval[a].status = "pending"
      /\ WriteApproval(a, v, approval[a].job)
      /\ UNCHANGED <<push, auditLog>>
  BY DEF Resolve, CanResolve, SetApprovalStatus, WriteApproval, ApprovalsOnly, busVars
<1>3. /\ approval'[a].status = v
      /\ \A b \in Approvals : b # a => approval'[b] = approval[b]
  <2> HIDE DEF a, v
  <2>1. /\ approval'[a] = [status |-> v, job |-> approval[a].job]
        /\ \A b \in Approvals : b # a => approval'[b] = approval[b]
    BY <1>1, <1>2, WriteApprovalRows
  <2>2. QED
    BY <2>1
<1>4. push[a].sent = 0
  BY <1>1, <1>2 DEF OneHandPerPush, PushedStaysApproved, TypeOK, BusTypeOK
<1>5. /\ ~Logged("approval.approved", a)
      /\ ~Logged("approval.rejected", a)
  BY <1>1, <1>2, <1>4 DEF OneHandPerPush, AuditTruthful
<1>6. /\ resolve'[r] = [pc |-> IF v = "approved" THEN "check_device" ELSE "log_decision",
                        approval |-> a, decision |-> v]
      /\ \A s \in Resolvers : s # r => resolve'[s] = resolve[s]
  BY ResolveMoves DEF Resolve, ResolveGoto
<1>7. \A s \in Resolvers : InHand(s) \/ Decided(s) => /\ resolve[s].approval \in Approvals
                                                      /\ resolve[s].approval # a
  <2> SUFFICES ASSUME NEW s \in Resolvers, InHand(s) \/ Decided(s)
               PROVE  resolve[s].approval \in Approvals /\ resolve[s].approval # a
    OBVIOUS
  <2>1. resolve[s] \in [pc: ResolvePc, approval: Approvals, decision: Decision]
    BY ResolveHolds DEF InHand, Decided
  <2>2. QED
    BY <1>2, <1>4, <2>1 DEF OneHandPerPush, Decision
<1> HIDE DEF a, v
<1>8. PushAtMostOnce' /\ PushedStaysApproved' /\ AuditTruthful'
  BY <1>2, <1>3, <1>4, <1>5
     DEF OneHandPerPush, PushAtMostOnce, PushedStaysApproved, AuditTruthful, Logged
<1>9. ASSUME NEW s \in Resolvers, s # r
      PROVE  /\ InHand(s)' => InHand(s) /\ approval'[resolve[s].approval]
                                             = approval[resolve[s].approval]
             /\ Decided(s)' => Decided(s) /\ approval'[resolve[s].approval]
                                             = approval[resolve[s].approval]
  BY <1>3, <1>6, <1>7, <1>9 DEF InHand, Decided
<1>10. \A s \in Resolvers : InHand(s)' =>
           /\ resolve'[s].decision = "approved"
           /\ approval'[resolve'[s].approval].status = "approved"
           /\ push'[resolve'[s].approval].sent = 0
  BY <1>2, <1>3, <1>4, <1>6, <1>9 DEF OneHandPerPush, InHand
<1>11. \A s, t \in Resolvers :
           InHand(s)' /\ InHand(t)' /\ resolve'[s].approval = resolve'[t].approval => s = t
  BY <1>6, <1>7, <1>9 DEF OneHandPerPush
<1>12. \A s \in Resolvers : Decided(s)' =>
           IF resolve'[s].decision = "approved"
           THEN push'[resolve'[s].approval].sent > 0
           ELSE approval'[resolve'[s].approval].status = "rejected"
  BY <1>1, <1>2, <1>3, <1>6, <1>9 DEF OneHandPerPush, Decided, Decision
<1>13. QED
  BY <1>8, <1>10, <1>11, <1>12 DEF OneHandPerPush

(* The one push: the request that has the approval in hand sends it and    *)
(* lets go of it.                                                          *)
LEMMA PublishKeepsOneHand ==
    ASSUME TypeOK, OneHandPerPush, NEW r \in Resolvers, PublishApproved(r)
    PROVE  OneHandPerPush'
<1> DEFINE a == resolve[r].approval
<1>1. a \in Approvals /\ InHand(r)
  BY ResolveHolds DEF PublishApproved, ResolveAt, InHand
<1>2. approval[a].status = "approved" /\ push[a].sent = 0 /\ resolve[r].decision = "approved"
  BY <1>1 DEF OneHandPerPush
<1>3. UNCHANGED <<approval, auditLog>>
  BY DEF PublishApproved, storeVars
<1>4. /\ push'[a].sent = 1
      /\ \A b \in Approvals : b # a => push'[b] = push[b]
  <2>1. push' = [push EXCEPT ![a] = [stage |-> "sent", sent |-> push[a].sent + 1]]
    BY DEF PublishApproved, PublishPush
  <2>2. QED
    BY <1>1, <1>2, <2>1 DEF TypeOK, BusTypeOK
<1>5. /\ resolve'[r] = [pc |-> "log_decision", approval |-> a, decision |-> "approved"]
      /\ \A s \in Resolvers : s # r => resolve'[s] = resolve[s]
  BY <1>2, ResolveMoves DEF PublishApproved, ResolveGoto
<1>6. \A s \in Resolvers : InHand(s) \/ Decided(s) => resolve[s].approval \in Approvals
  BY ResolveHolds DEF InHand, Decided
<1>7. \A s \in Resolvers : InHand(s) /\ s # r => resolve[s].approval # a
  BY <1>1 DEF OneHandPerPush
<1>8. \A b \in Approvals : push[b].sent \in Nat
  BY DEF TypeOK, BusTypeOK
<1> HIDE DEF a
<1>9. PushAtMostOnce' /\ PushedStaysApproved' /\ AuditTruthful'
  BY <1>2, <1>3, <1>4
     DEF OneHandPerPush, PushAtMostOnce, PushedStaysApproved, AuditTruthful, Logged
<1>10. ASSUME NEW s \in Resolvers, s # r
       PROVE  /\ InHand(s)' => InHand(s) /\ push'[resolve[s].approval] = push[resolve[s].approval]
              /\ Decided(s)' => /\ Decided(s)
                                /\ push[resolve[s].approval].sent > 0 =>
                                       push'[resolve[s].approval].sent > 0
  BY <1>4, <1>5, <1>6, <1>7, <1>10 DEF InHand, Decided
<1>11. ~InHand(r)' /\ Decided(r)'
  BY <1>5 DEF InHand, Decided
<1>12. \A s \in Resolvers : InHand(s)' =>
           /\ resolve'[s].decision = "approved"
           /\ approval'[resolve'[s].approval].status = "approved"
           /\ push'[resolve'[s].approval].sent = 0
  BY <1>3, <1>5, <1>10, <1>11 DEF OneHandPerPush
<1>13. \A s, t \in Resolvers :
           InHand(s)' /\ InHand(t)' /\ resolve'[s].approval = resolve'[t].approval => s = t
  BY <1>5, <1>10, <1>11 DEF OneHandPerPush
<1>14. \A s \in Resolvers : Decided(s)' =>
           IF resolve'[s].decision = "approved"
           THEN push'[resolve'[s].approval].sent > 0
           ELSE approval'[resolve'[s].approval].status = "rejected"
  BY <1>3, <1>4, <1>5, <1>10 DEF OneHandPerPush
<1>15. QED
  BY <1>9, <1>12, <1>13, <1>14 DEF OneHandPerPush

(* A reset makes an approval pending again that is in this hand alone.     *)
LEMMA ResetKeepsOneHand ==
    ASSUME TypeOK, OneHandPerPush, NEW r \in Resolvers, ResetToPending(r)
    PROVE  OneHandPerPush'
<1> DEFINE a == resolve[r].approval
<1>1. a \in Approvals /\ InHand(r)
  BY ResolveHolds DEF ResetToPending, ResolveAt, InHand
<1>2. approval[a].status = "approved" /\ push[a].sent = 0
  BY <1>1 DEF OneHandPerPush
<1>3. resolve' = [resolve EXCEPT ![r] = NoResolve] /\ UNCHANGED push
  BY DEF ResetToPending, ResolveEnds, busVars
<1>4. CASE UNCHANGED storeVars
  BY <1>3, <1>4, LettingGoKeepsOneHand DEF storeVars, NoResolve
<1>5. CASE WriteApproval(a, "pending", approval[a].job)
  <2>1. /\ \A b \in Approvals : b # a => approval'[b] = approval[b]
        /\ UNCHANGED auditLog
    BY <1>1, <1>5, WriteApprovalRows DEF WriteApproval, ApprovalsOnly
  <2>2. /\ resolve'[r].pc = "idle"
        /\ \A s \in Resolvers : s # r => resolve'[s] = resolve[s]
    <3>1. /\ resolve'[r] = NoResolve
          /\ \A s \in Resolvers : s # r => resolve'[s] = resolve[s]
      BY <1>3, ResolveMoves
    <3>2. QED
      BY <3>1 DEF NoResolve
  <2>3. /\ ~Logged("approval.approved", a)
        /\ ~Logged("approval.rejected", a)
    BY <1>1, <1>2 DEF OneHandPerPush, AuditTruthful
  <2>4. \A s \in Resolvers : s # r /\ (InHand(s) \/ Decided(s)) =>
            resolve[s].approval \in Approvals /\ resolve[s].approval # a
    <3> SUFFICES ASSUME NEW s \in Resolvers, s # r, InHand(s) \/ Decided(s)
                 PROVE  resolve[s].approval \in Approvals /\ resolve[s].approval # a
      OBVIOUS
    <3>1. resolve[s].approval \in Approvals
      BY ResolveHolds DEF InHand, Decided
    <3>2. QED
      BY <1>1, <1>2, <3>1 DEF OneHandPerPush
  <2> HIDE DEF a
  <2>5. PushAtMostOnce' /\ PushedStaysApproved' /\ AuditTruthful'
    BY <1>2, <1>3, <2>1, <2>3
       DEF OneHandPerPush, PushAtMostOnce, PushedStaysApproved, AuditTruthful, Logged
  <2>6. \A s \in Resolvers :
            /\ InHand(s)' => InHand(s) /\ resolve'[s] = resolve[s] /\
                             approval'[resolve[s].approval] = approval[resolve[s].approval]
            /\ Decided(s)' => Decided(s) /\ resolve'[s] = resolve[s] /\
                              approval'[resolve[s].approval] = approval[resolve[s].approval]
    BY <2>1, <2>2, <2>4 DEF InHand, Decided
  <2>7. QED
    BY <1>3, <2>5, <2>6 DEF OneHandPerPush
<1>6. QED
  BY <1>4, <1>5 DEF ResetToPending, SetApprovalStatus

(* A decision is logged when it is final.                                  *)
LEMMA LogKeepsOneHand ==
    ASSUME TypeOK, OneHandPerPush, NEW r \in Resolvers, LogDecision(r)
    PROVE  OneHandPerPush'
<1> DEFINE a == resolve[r].approval
<1>1. a \in Approvals /\ Decided(r) /\ resolve[r].decision \in Decision
  BY ResolveHolds DEF LogDecision, ResolveAt, Decided
<1>2. UNCHANGED <<approval, push>>
  BY DEF LogDecision, InsertJobEvent, EventsOnly, busVars
<1>3. \/ resolve' = [resolve EXCEPT ![r] = NoResolve]
      \/ resolve' = [resolve EXCEPT ![r] =
                       [pc |-> "complete_job", approval |-> a,
                        decision |-> resolve[r].decision]]
  BY DEF LogDecision, ResolveEnds, ResolveGoto
<1>4. \A s \in Resolvers :
          /\ InHand(s)' => InHand(s) /\ resolve'[s] = resolve[s]
          /\ Decided(s)' => /\ Decided(s)
                            /\ resolve'[s].approval = resolve[s].approval
                            /\ resolve'[s].decision = resolve[s].decision
  BY <1>1, <1>3, ResolveMoves DEF InHand, Decided, NoResolve
<1>5. AuditTruthful'
  <2>1. CASE resolve[r].decision = "approved"
    <3>1. InsertJobEvent("approval.approved", a) /\ push[a].sent > 0
      BY <1>1, <2>1 DEF LogDecision, OneHandPerPush
    <3>2. QED
      BY <1>2, <3>1 DEF OneHandPerPush, AuditTruthful, InsertJobEvent, Logged
  <2>2. CASE resolve[r].decision = "rejected"
    <3>1. InsertJobEvent("approval.rejected", a) /\ approval[a].status = "rejected"
      BY <1>1, <2>2 DEF LogDecision, OneHandPerPush
    <3>2. QED
      BY <1>2, <3>1 DEF OneHandPerPush, AuditTruthful, InsertJobEvent, Logged
  <2>3. QED
    BY <1>1, <2>1, <2>2 DEF Decision
<1>6. PushAtMostOnce' /\ PushedStaysApproved'
  BY <1>2 DEF OneHandPerPush, PushAtMostOnce, PushedStaysApproved
<1>7. QED
  BY <1>2, <1>4, <1>5, <1>6 DEF OneHandPerPush

LEMMA RequestsKeepOneHand == TypeOK /\ OneHandPerPush /\ ResolveNext => OneHandPerPush'
<1> SUFFICES ASSUME TypeOK, OneHandPerPush, NEW r \in Resolvers,
                    LoadPending(r) \/ ResolveStep(r) \/ ResolveAborts(r)
             PROVE  OneHandPerPush'
  BY DEF ResolveNext
<1>1. CASE LoadPending(r)
  <2>1. PICK a \in Approvals, decision \in Decision :
           resolve' = [resolve EXCEPT ![r] =
                         [pc |-> "resolve", approval |-> a, decision |-> decision]]
    BY <1>1 DEF LoadPending
  <2>2. UNCHANGED <<approval, push, auditLog>>
    BY <1>1 DEF LoadPending, storeVars, busVars
  <2>3. QED
    BY <2>1, <2>2, LettingGoKeepsOneHand
<1>2. CASE ResolveConflict(r) \/ ResolveAborts(r) \/ CompleteRejected(r)
  <2>1. resolve' = [resolve EXCEPT ![r] = NoResolve]
    BY <1>2 DEF ResolveConflict, ResolveAborts, CompleteRejected, ResolveEnds
  <2>2. UNCHANGED <<approval, push, auditLog>>
    BY <1>2 DEF ResolveConflict, ResolveAborts, CompleteRejected, UpdateJobStatusOnly,
                UpdateJobState, JobsOnly, storeVars, busVars
  <2>3. NoResolve.pc = "idle"
    BY DEF NoResolve
  <2>4. QED
    BY <2>1, <2>2, <2>3, LettingGoKeepsOneHand
<1>3. CASE CheckDevice(r) \/ PublishApprovedFails(r)
  <2>1. PICK pc \in {"publish", "reset"} :
           resolve' = [resolve EXCEPT ![r] =
                         [pc |-> pc, approval |-> resolve[r].approval,
                          decision |-> resolve[r].decision]]
    BY <1>3 DEF CheckDevice, PublishApprovedFails, ResolveGoto
  <2>2. UNCHANGED <<approval, push, auditLog>> /\ InHand(r)
    BY <1>3 DEF CheckDevice, PublishApprovedFails, ResolveAt, InHand, storeVars, busVars
  <2>3. QED
    BY <2>1, <2>2, LettingGoKeepsOneHand
<1>4. QED
  BY <1>1, <1>2, <1>3, ResolveKeepsOneHand, PublishKeepsOneHand, ResetKeepsOneHand,
     LogKeepsOneHand DEF ResolveStep

LEMMA StepInOneHand == TypeOK /\ OneHandPerPush /\ [Next]_vars => OneHandPerPush'
<1> SUFFICES ASSUME TypeOK, OneHandPerPush, [Next]_vars PROVE OneHandPerPush'
  OBVIOUS
<1>1. CASE EdgeNext
  <2>1. /\ UNCHANGED <<approval, auditLog, resolve>>
        /\ \A a \in Approvals : push'[a].sent = push[a].sent
    BY <1>1, EdgeLeavesSent DEF storeVars
  <2>2. \A r \in Resolvers : InHand(r) \/ Decided(r) => resolve[r].approval \in Approvals
    BY ResolveHolds DEF InHand, Decided
  <2>3. PushAtMostOnce' /\ PushedStaysApproved' /\ AuditTruthful'
    BY <2>1 DEF OneHandPerPush, PushAtMostOnce, PushedStaysApproved, AuditTruthful, Logged
  <2>4. QED
    BY <2>1, <2>2, <2>3 DEF OneHandPerPush, InHand, Decided
<1>2. CASE Crash
  <2>1. \A r \in Resolvers : resolve'[r].pc = "idle"
    BY <1>2 DEF Crash, NoResolve
  <2>2. UNCHANGED <<approval, auditLog, push>>
    BY <1>2 DEF Crash, storeVars
  <2>3. PushAtMostOnce' /\ PushedStaysApproved' /\ AuditTruthful'
    BY <2>2 DEF OneHandPerPush, PushAtMostOnce, PushedStaysApproved, AuditTruthful, Logged
  <2>4. QED
    BY <2>1, <2>3 DEF OneHandPerPush, InHand, Decided
<1>3. CASE TrustChanges \/ UNCHANGED vars
  <2>1. UNCHANGED <<approval, auditLog, push, resolve>>
    BY <1>3 DEF TrustChanges, vars, storeVars, busVars, taskVars
  <2>2. QED
    BY <2>1, UntouchedStaysInOneHand DEF Logged
<1>4. QED
  BY <1>1, <1>2, <1>3, DispatchLeavesApprovals, RequestsKeepOneHand, ConsumerKeepsOneHand
     DEF Next

(* At most one request has an approved approval in hand, and none once its *)
(* push is out: the invariant behind the next three theorems.              *)
THEOREM ApprovalInOneHand == Spec => []OneHandPerPush
BY InitInOneHand, StepInOneHand, InitTypes, StepTypes, PTL DEF Spec

(* No approval is pushed twice, however many operators approve it at once, *)
(* retry after a failed publish, or do so around a crash.                  *)
THEOREM PushOnce == Spec => []PushAtMostOnce
<1>1. OneHandPerPush => PushAtMostOnce
  BY DEF OneHandPerPush
<1>2. QED
  BY <1>1, ApprovalInOneHand, PTL

(* What was pushed stays approved in the table.                            *)
THEOREM PushedIsApproved == Spec => []PushedStaysApproved
<1>1. OneHandPerPush => PushedStaysApproved
  BY DEF OneHandPerPush
<1>2. QED
  BY <1>1, ApprovalInOneHand, PTL

(* The audit trail says approved only of pushes, and rejected only of      *)
(* approvals that stay rejected.                                           *)
THEOREM AuditTellsTheTruth == Spec => []AuditTruthful
<1>1. OneHandPerPush => AuditTruthful
  BY DEF OneHandPerPush
<1>2. QED
  BY <1>1, ApprovalInOneHand, PTL
-----------------------------------------------------------------------------
(* Every step is a step of PushAuthorisation or leaves what it sees alone. *)
Decisions == [a \in Approvals |-> approval[a].status]
Sent == [a \in Approvals |-> push[a].sent]

LEMMA InitAuthorised == Init => Authorised!Init
<1> SUFFICES ASSUME Init PROVE Authorised!Init
  OBVIOUS
<1>1. Decisions = [a \in Approvals |-> "absent"]
  BY DEF Init, StoreInit, NoApprovalRow, Decisions
<1>2. Sent = [a \in Approvals |-> 0]
  BY DEF Init, BusInit, Sent
<1>3. QED
  BY <1>1, <1>2 DEF Authorised!Init, Decisions, Sent

(* A statement on one approval, seen from PushAuthorisation.               *)
LEMMA WriteIsSeen ==
    ASSUME TypeOK, NEW a \in Approvals, NEW s, NEW j, WriteApproval(a, s, j)
    PROVE  Decisions' = [Decisions EXCEPT ![a] = s]
<1>1. /\ approval'[a] = [status |-> s, job |-> j]
      /\ \A b \in Approvals : b # a => approval'[b] = approval[b]
  BY WriteApprovalRows
<1>2. \A b \in Approvals : approval'[b].status = IF b = a THEN s ELSE approval[b].status
  BY <1>1
<1>3. QED
  BY <1>2 DEF Decisions

LEMMA AuthorisedSteps ==
    ASSUME NEW a \in Approvals,
           \/ Authorised!Request(a) \/ Authorised!Withdraw(a) \/ Authorised!Push(a)
           \/ \E verdict \in {"approved", "rejected"} : Authorised!Decide(a, verdict)
    PROVE  Authorised!Next
BY DEF Authorised!Next

LEMMA ResolveIsAuthorised ==
    ASSUME TypeOK, OneHandPerPush, NEW r \in Resolvers,
           LoadPending(r) \/ ResolveStep(r) \/ ResolveAborts(r)
    PROVE  Authorised!Next \/ UNCHANGED <<Decisions, Sent>>
<1> SUFFICES ASSUME resolve[r].pc # "idle"
             PROVE  Authorised!Next \/ UNCHANGED <<Decisions, Sent>>
  BY DEF LoadPending, ResolveStep, ResolveAborts, Resolve, ResolveConflict, CheckDevice,
         PublishApproved, PublishApprovedFails, ResetToPending, LogDecision,
         CompleteRejected, ResolveAt, storeVars, busVars, Decisions, Sent
<1> PICK a \in Approvals, verdict \in Decision :
        a = resolve[r].approval /\ verdict = resolve[r].decision
  BY ResolveHolds
<1>2. CASE Resolve(r)
  <2>1. /\ approval[a].status = "pending" /\ UNCHANGED push
        /\ WriteApproval(a, verdict, approval[a].job)
    BY <1>2 DEF Resolve, ResolveAt, CanResolve, SetApprovalStatus, busVars
  <2>2. Decisions' = [Decisions EXCEPT ![a] = verdict] /\ Sent' = Sent
    BY <2>1, WriteIsSeen DEF Sent
  <2>3. Authorised!Decide(a, verdict)
    BY <2>1, <2>2 DEF Authorised!Decide, Decisions, Sent
  <2>4. QED
    BY <2>1, <2>3, AuthorisedSteps DEF Decision
<1>3. CASE PublishApproved(r)
  <2>1. approval[a].status = "approved" /\ push[a].sent = 0
    BY <1>3 DEF PublishApproved, ResolveAt, OneHandPerPush, InHand
  <2>2. push' = [push EXCEPT ![a] = [stage |-> "sent", sent |-> push[a].sent + 1]]
    BY <1>3 DEF PublishApproved, PublishPush
  <2>3. Sent' = [Sent EXCEPT ![a] = 1] /\ Decisions' = Decisions
    <3>1. /\ push'[a].sent = 1
          /\ \A b \in Approvals : b # a => push'[b] = push[b]
      BY <2>1, <2>2 DEF TypeOK, BusTypeOK
    <3>2. UNCHANGED approval
      BY <1>3 DEF PublishApproved, storeVars
    <3>3. QED
      BY <3>1, <3>2 DEF Sent, Decisions
  <2>4. Authorised!Push(a)
    BY <2>1, <2>3 DEF Authorised!Push, Decisions, Sent
  <2>5. QED
    BY <2>1, <2>4, AuthorisedSteps
<1>4. CASE ResetToPending(r)
  <2>1. approval[a].status = "approved" /\ push[a].sent = 0
    BY <1>4 DEF ResetToPending, ResolveAt, OneHandPerPush, InHand
  <2>2. UNCHANGED push
    BY <1>4 DEF ResetToPending, busVars
  <2>3. CASE UNCHANGED storeVars
    BY <2>2, <2>3 DEF storeVars, Decisions, Sent
  <2>4. CASE WriteApproval(a, "pending", approval[a].job)
    <3>1. Decisions' = [Decisions EXCEPT ![a] = "pending"] /\ Sent' = Sent
      BY <2>1, <2>2, <2>4, WriteIsSeen DEF Sent
    <3>2. Authorised!Withdraw(a)
      BY <2>1, <3>1 DEF Authorised!Withdraw, Decisions, Sent
    <3>3. QED
      BY <2>1, <3>2, AuthorisedSteps
  <2>5. QED
    BY <1>4, <2>3, <2>4 DEF ResetToPending, SetApprovalStatus
<1>5. ASSUME ~Resolve(r), ~PublishApproved(r), ~ResetToPending(r)
      PROVE  UNCHANGED <<approval, push>>
  BY <1>5 DEF LoadPending, ResolveStep, ResolveAborts, ResolveConflict, CheckDevice,
              PublishApprovedFails, LogDecision, CompleteRejected, InsertJobEvent, EventsOnly,
              UpdateJobStatusOnly, UpdateJobState, JobsOnly, storeVars, busVars
<1>6. QED
  BY <1>2, <1>3, <1>4, <1>5 DEF Decisions, Sent

LEMMA ConsumerIsAuthorised ==
    ASSUME TypeOK, ConsumerNext
    PROVE  Authorised!Next \/ UNCHANGED <<Decisions, Sent>>
<1>1. CASE InsertApproval
  <2>1. PICK a \in Approvals : /\ approval[a].status = "absent"
                               /\ WriteApproval(a, "pending", EventJob)
    BY <1>1 DEF InsertApproval, InsertPendingApproval
  <2>2. Decisions' = [Decisions EXCEPT ![a] = "pending"] /\ Sent' = Sent
    BY <1>1, <2>1, WriteIsSeen DEF Sent, InsertApproval, busVars
  <2>3. Authorised!Request(a)
    BY <2>1, <2>2 DEF Authorised!Request, Decisions, Sent
  <2>4. QED
    BY <2>1, <2>3, AuthorisedSteps
<1>2. ASSUME ~InsertApproval
      PROVE  UNCHANGED <<approval, push>>
  BY <1>2
     DEF ConsumerNext, ConsumerStep, TakeEvent, FoldState, StoreSummary, PointJobToSummary,
         FindPending, InsertApprovalRefused, PostReply, ConsumerDropsEvent, UpdateJobState,
         InsertSummary, PointToSummary, PostReplyOnce, AddReply, JobsOnly, SummariesOnly,
         MessagesOnly, storeVars, busVars
<1>3. QED
  BY <1>1, <1>2 DEF Decisions, Sent

LEMMA StepAuthorised ==
    TypeOK /\ OneHandPerPush /\ [Next]_vars => [Authorised!Next]_(Authorised!authVars)
<1> SUFFICES ASSUME TypeOK, OneHandPerPush, [Next]_vars
             PROVE  Authorised!Next \/ UNCHANGED <<Decisions, Sent>>
  BY DEF Authorised!authVars, Decisions, Sent
<1>1. CASE DispatchNext
  BY <1>1, DispatchLeavesApprovals DEF Decisions, Sent
<1>2. CASE ResolveNext
  BY <1>2, ResolveIsAuthorised DEF ResolveNext
<1>3. CASE ConsumerNext
  BY <1>3, ConsumerIsAuthorised
<1>4. CASE EdgeNext
  BY <1>4, EdgeLeavesSent DEF Decisions, Sent, storeVars
<1>5. CASE TrustChanges \/ Crash \/ UNCHANGED vars
  BY <1>5 DEF TrustChanges, Crash, vars, storeVars, busVars, Decisions, Sent
<1>6. QED
  BY <1>1, <1>2, <1>3, <1>4, <1>5 DEF Next

(* The approval flow with its requests, failures and crashes implements    *)
(* PushAuthorisation: a push follows an approval that stands, a rejection  *)
(* is final, and an approval is withdrawn only while nothing was pushed.   *)
THEOREM ImplementsAuthorisation == Spec => AuthorisationKept
BY InitAuthorised, StepAuthorised, InitTypes, StepTypes, InitInOneHand, StepInOneHand, PTL
   DEF Spec, AuthorisationKept, Authorised!Spec
-----------------------------------------------------------------------------
(* One life of a job at a time.  The five kinds of prospect, at most one   *)
(* in all: at most one of a kind, and kinds that exclude one another.      *)
Alone(R, L, F, A, X) ==
    /\ \A x, y \in R : x = y
    /\ \A x, y \in L : x = y
    /\ \A x, y \in F : x = y
    /\ \A x, y \in A : x = y
    /\ \A x, y \in X : x = y
    /\ R # {} => L = {} /\ F = {} /\ A = {} /\ X = {}
    /\ L # {} => F = {} /\ A = {} /\ X = {}
    /\ F # {} => A = {} /\ X = {}
    /\ A # {} => X = {}

Tagged(R, L, F, A, X) ==
    ({"run"} \X R) \cup ({"report"} \X L) \cup ({"fold"} \X F)
    \cup ({"approval"} \X A) \cup ({"rejection"} \X X)

LEMMA TaggedHas ==
    ASSUME NEW R, NEW L, NEW F, NEW A, NEW X
    PROVE  /\ \A x \in R : <<"run", x>> \in Tagged(R, L, F, A, X)
           /\ \A x \in L : <<"report", x>> \in Tagged(R, L, F, A, X)
           /\ \A x \in F : <<"fold", x>> \in Tagged(R, L, F, A, X)
           /\ \A x \in A : <<"approval", x>> \in Tagged(R, L, F, A, X)
           /\ \A x \in X : <<"rejection", x>> \in Tagged(R, L, F, A, X)
BY DEF Tagged

LEMMA AloneIsOne ==
    ASSUME NEW R, NEW L, NEW F, NEW A, NEW X
    PROVE  (\A x, y \in Tagged(R, L, F, A, X) : x = y) <=> Alone(R, L, F, A, X)
<1> DEFINE T == Tagged(R, L, F, A, X)
<1>1. ASSUME \A x, y \in T : x = y
      PROVE  Alone(R, L, F, A, X)
  <2>1. /\ \A x \in R : <<"run", x>> \in T
        /\ \A x \in L : <<"report", x>> \in T
        /\ \A x \in F : <<"fold", x>> \in T
        /\ \A x \in A : <<"approval", x>> \in T
        /\ \A x \in X : <<"rejection", x>> \in T
    BY TaggedHas
  <2> HIDE DEF T
  <2>2. /\ \A x, y \in R : <<"run", x>> = <<"run", y>>
        /\ \A x, y \in L : <<"report", x>> = <<"report", y>>
        /\ \A x, y \in F : <<"fold", x>> = <<"fold", y>>
        /\ \A x, y \in A : <<"approval", x>> = <<"approval", y>>
        /\ \A x, y \in X : <<"rejection", x>> = <<"rejection", y>>
    BY <1>1, <2>1, Zenon
  <2>3. ASSUME NEW x \in R
        PROVE  L = {} /\ F = {} /\ A = {} /\ X = {}
    <3>1. \A z \in T : z = <<"run", x>>
      BY <1>1, <2>1, Zenon
    <3>2. QED
      BY <2>1, <3>1
  <2>4. ASSUME NEW x \in L
        PROVE  F = {} /\ A = {} /\ X = {}
    <3>1. \A z \in T : z = <<"report", x>>
      BY <1>1, <2>1, Zenon
    <3>2. QED
      BY <2>1, <3>1
  <2>5. ASSUME NEW x \in F
        PROVE  A = {} /\ X = {}
    <3>1. \A z \in T : z = <<"fold", x>>
      BY <1>1, <2>1, Zenon
    <3>2. QED
      BY <2>1, <3>1
  <2>6. ASSUME NEW x \in A
        PROVE  X = {}
    <3>1. \A z \in T : z = <<"approval", x>>
      BY <1>1, <2>1, Zenon
    <3>2. QED
      BY <2>1, <3>1
  <2>7. QED
    BY <2>2, <2>3, <2>4, <2>5, <2>6 DEF Alone
<1>2. ASSUME Alone(R, L, F, A, X), NEW x \in T, NEW y \in T
      PROVE  x = y
  <2>1. CASE x \in {"run"} \X R
    BY <1>2, <2>1 DEF Alone, Tagged
  <2>2. CASE x \in {"report"} \X L
    BY <1>2, <2>2 DEF Alone, Tagged
  <2>3. CASE x \in {"fold"} \X F
    BY <1>2, <2>3 DEF Alone, Tagged
  <2>4. CASE x \in {"approval"} \X A
    BY <1>2, <2>4 DEF Alone, Tagged
  <2>5. CASE x \in {"rejection"} \X X
    BY <1>2, <2>5 DEF Alone, Tagged
  <2>6. QED
    BY <2>1, <2>2, <2>3, <2>4, <2>5 DEF Tagged
<1>3. QED
  BY <1>1, <1>2

LEMMA TaggedNone ==
    ASSUME NEW R, NEW L, NEW F, NEW A, NEW X
    PROVE  Tagged(R, L, F, A, X) = {} <=>
               R = {} /\ L = {} /\ F = {} /\ A = {} /\ X = {}
<1>1. Tagged(R, L, F, A, X) = {} => R = {} /\ L = {} /\ F = {} /\ A = {} /\ X = {}
  BY TaggedHas
<1>2. R = {} /\ L = {} /\ F = {} /\ A = {} /\ X = {} => Tagged(R, L, F, A, X) = {}
  BY DEF Tagged
<1>3. QED
  BY <1>1, <1>2

LEMMA FewerAlone ==
    ASSUME NEW R, NEW L, NEW F, NEW A, NEW X, Alone(R, L, F, A, X),
           NEW R2 \in SUBSET R, NEW L2 \in SUBSET L, NEW F2 \in SUBSET F,
           NEW A2 \in SUBSET A, NEW X2 \in SUBSET X
    PROVE  Alone(R2, L2, F2, A2, X2)
BY DEF Alone

(* The same of one job: its prospects exclude one another, and there are   *)
(* none, nor reports, where a dispatch may begin or has.                   *)
OneAlone(j) == Alone(Runs(j), LeadingReports(j), Folding(j), OpenApprovals(j), Rejections(j))
MayBegin(j) == job[j].status \in {"absent", "pending", "failed"} \/ Beginning(j)
Life(j) == OneAlone(j) /\ (MayBegin(j) => Quiet(j))

NoProspects(j) ==
    /\ Runs(j) = {} /\ LeadingReports(j) = {} /\ Folding(j) = {}
    /\ OpenApprovals(j) = {} /\ Rejections(j) = {}
StillQuiet(j) ==
    /\ NoProspects(j) /\ Reports(j) = {}
    /\ ~(consumer.pc = "update_state" /\ consumer.event.job = j)

LEMMA QuietIs ==
    ASSUME NEW j \in Jobs
    PROVE  (Quiet(j) <=> StillQuiet(j)) /\ (Quiet(j) <=> StillQuiet(j))'
<1>1. Prospects(j) =
         Tagged(Runs(j), LeadingReports(j), Folding(j), OpenApprovals(j), Rejections(j))
  BY DEF Prospects, Tagged
<1>2. Prospects(j)' =
         Tagged(Runs(j)', LeadingReports(j)', Folding(j)', OpenApprovals(j)', Rejections(j)')
  BY DEF Prospects, Tagged
<1>3. (Prospects(j) = {} <=> NoProspects(j)) /\ (Prospects(j) = {} <=> NoProspects(j))'
  BY <1>1, <1>2, TaggedNone DEF NoProspects
<1>4. QED
  BY <1>3 DEF Quiet, StillQuiet

LEMMA LivesAre == OneLifeAtATime <=> \A j \in Jobs : Life(j)
<1>1. \A j \in Jobs : Prospects(j) =
         Tagged(Runs(j), LeadingReports(j), Folding(j), OpenApprovals(j), Rejections(j))
  BY DEF Prospects, Tagged
<1>2. \A j \in Jobs : (\A x, y \in Prospects(j) : x = y) <=> OneAlone(j)
  BY <1>1, AloneIsOne DEF OneAlone
<1>3. QED
  BY <1>2 DEF OneLifeAtATime, Life, MayBegin
-----------------------------------------------------------------------------
(* What keeps them apart: a push has a stage once it was sent; nothing of  *)
(* a job follows a report of its failure; a job whose dispatch has begun   *)
(* stays probing until the request itself goes on; and neither consumer    *)
(* nor approval request is at a step its event or decision leads not to.   *)
PushStages == \A a \in Approvals : push[a].stage = "none" <=> push[a].sent = 0
FailuresLast == \A i, k \in DOMAIN lifecycle :
    lifecycle[i].kind = "failed" /\ lifecycle[k].job = lifecycle[i].job => k <= i
FailureFolded == consumer.pc = "update_state" /\ Kind = "failed" => Reports(EventJob) = {}
Begun == {"log_created", "probe", "publish", "mark_unavailable", "mark_publish_failed"}
BegunProbing == \A d \in Dispatchers :
    /\ dispatch[d].pc \in Begun => job[dispatch[d].job].status = "probing"
    /\ dispatch[d].pc = "mark_probing" =>
           job[dispatch[d].job].status \in {"pending", "failed", "probing"}

StepFitsEvent ==
    /\ consumer.pc \in {"insert_summary", "point_to_summary"} => CarriesSummary(Kind)
    /\ consumer.pc \in {"find_pending", "insert_approval"} => Kind = "awaiting_approval"

RejectedCompletes == \A r \in Resolvers :
    resolve[r].pc = "complete_job" => resolve[r].decision = "rejected"

LifeInv ==
    /\ \A j \in Jobs : Life(j)
    /\ PushStages /\ FailuresLast /\ FailureFolded /\ BegunProbing
    /\ StepFitsEvent /\ RejectedCompletes

LEMMA InitLife == Init => LifeInv
<1> SUFFICES ASSUME Init PROVE LifeInv
  OBVIOUS
<1>1. /\ \A n \in Attempts : attempt[n].stage = "unused"
      /\ lifecycle = <<>>
      /\ \A a \in Approvals : push[a].stage = "none" /\ push[a].sent = 0
  BY DEF Init, BusInit, Unused
<1>2. \A a \in Approvals : approval[a].status = "absent"
  BY DEF Init, StoreInit, NoApprovalRow
<1>3. /\ \A d \in Dispatchers : dispatch[d].pc = "idle"
      /\ \A r \in Resolvers : resolve[r].pc = "idle"
      /\ consumer.pc = "idle"
  BY DEF Init, DispatchInit, NoDispatch, ResolveInit, NoResolve, ConsumerInit, ConsumerIdle
<1>4. \A j \in Jobs : StillQuiet(j)
  BY <1>1, <1>2, <1>3 DEF StillQuiet, NoProspects, Runs, Reports, LeadingReports, Folding,
                          OpenApprovals, Rejections, Decided
<1>5. \A j \in Jobs : Life(j)
  BY <1>4, QuietIs DEF Life, OneAlone, Alone, StillQuiet, NoProspects
<1>6. FailuresLast
  BY <1>1 DEF FailuresLast
<1>7. QED
  BY <1>1, <1>3, <1>5, <1>6
     DEF LifeInv, PushStages, FailureFolded, BegunProbing, Begun, StepFitsEvent,
         RejectedCompletes
-----------------------------------------------------------------------------
(* What the parts of Life depend on.                                       *)
LEMMA LifeFrames ==
    ASSUME NEW j \in Jobs
    PROVE  /\ UNCHANGED attempt => Runs(j)' = Runs(j)
           /\ UNCHANGED lifecycle => /\ Reports(j)' = Reports(j)
                                     /\ LeadingReports(j)' = LeadingReports(j)
           /\ UNCHANGED consumer => Folding(j)' = Folding(j)
           /\ UNCHANGED <<approval, push>> => OpenApprovals(j)' = OpenApprovals(j)
           /\ UNCHANGED <<approval, resolve>> => Rejections(j)' = Rejections(j)
           /\ UNCHANGED <<job, dispatch>> => MayBegin(j)' = MayBegin(j)
<1>1. UNCHANGED attempt => Runs(j)' = Runs(j)
  BY DEF Runs
<1>2. UNCHANGED lifecycle => /\ Reports(j)' = Reports(j)
                             /\ LeadingReports(j)' = LeadingReports(j)
  BY DEF Reports, LeadingReports
<1>3. UNCHANGED consumer => Folding(j)' = Folding(j)
  BY DEF Folding
<1>4. UNCHANGED <<approval, push>> => OpenApprovals(j)' = OpenApprovals(j)
  BY DEF OpenApprovals
<1>5. UNCHANGED <<approval, resolve>> => Rejections(j)' = Rejections(j)
  BY DEF Rejections, Decided, JobOf
<1>6. UNCHANGED <<job, dispatch>> => MayBegin(j)' = MayBegin(j)
  BY DEF MayBegin, Beginning
<1>7. QED
  BY <1>1, <1>2, <1>3, <1>4, <1>5, <1>6

FoldsState(j) == consumer.pc = "update_state" /\ consumer.event.job = j

LEMMA LifeKeeps ==
    ASSUME NEW j \in Jobs, Life(j),
           Runs(j)' \subseteq Runs(j), LeadingReports(j)' \subseteq LeadingReports(j),
           Folding(j)' \subseteq Folding(j), OpenApprovals(j)' \subseteq OpenApprovals(j),
           Rejections(j)' \subseteq Rejections(j), Reports(j)' \subseteq Reports(j),
           FoldsState(j)' => FoldsState(j), MayBegin(j)' => MayBegin(j)
    PROVE  Life(j)'
<1>1. OneAlone(j)'
  BY FewerAlone DEF Life, OneAlone
<1>2. ASSUME StillQuiet(j)
      PROVE  StillQuiet(j)'
  BY <1>2 DEF StillQuiet, NoProspects, FoldsState
<1>3. QED
  BY <1>1, <1>2, QuietIs DEF Life

(* Where something may still happen to a job, no dispatch begins.          *)
LEMMA BusyBeginsNot ==
    ASSUME NEW j \in Jobs, Life(j), ~NoProspects(j) \/ Reports(j) # {} \/ FoldsState(j)
    PROVE  ~MayBegin(j)
BY QuietIs DEF Life, StillQuiet, FoldsState
-----------------------------------------------------------------------------
(* The dispatch requests.                                                  *)
LEMMA DispatchMovesOne ==
    ASSUME TypeOK, NEW d \in Dispatchers, NEW next, dispatch' = [dispatch EXCEPT ![d] = next]
    PROVE  /\ dispatch'[d] = next
           /\ \A e \in Dispatchers : e # d => dispatch'[e] = dispatch[e]
BY DEF TypeOK, DispatchTypeOK

LEMMA WriteJobRow ==
    ASSUME TypeOK, NEW j \in Jobs, NEW row, job' = [job EXCEPT ![j] = row]
    PROVE  /\ job'[j] = row
           /\ \A k \in Jobs : k # j => job'[k] = job[k]
BY DEF TypeOK, StoreTypeOK

LEMMA DispatchOnly ==
    ASSUME LifeInv, UNCHANGED <<busVars, approval, resolve, consumer>>,
           \A j \in Jobs : MayBegin(j)' => MayBegin(j), BegunProbing'
    PROVE  LifeInv'
<1>1. UNCHANGED <<attempt, push, lifecycle>>
  BY DEF busVars
<1>2. ASSUME NEW j \in Jobs PROVE Life(j)'
  <2>1. Life(j) /\ (FoldsState(j)' => FoldsState(j))
    BY DEF LifeInv, FoldsState
  <2>2. QED
    BY <1>1, <2>1, LifeFrames, LifeKeeps
<1>3. PushStages' /\ FailuresLast' /\ FailureFolded' /\ StepFitsEvent' /\ RejectedCompletes'
  BY <1>1 DEF LifeInv, PushStages, FailuresLast, FailureFolded, StepFitsEvent, Kind,
              EventJob, Reports, RejectedCompletes
<1>4. QED
  BY <1>2, <1>3 DEF LifeInv

(* A request that goes on from one step to the next, or ends, with its job *)
(* written or not: the requests of other jobs see nothing of it.           *)
LEMMA RequestGoesOn ==
    ASSUME TypeOK, LifeInv, DispatchInTurn, NEW d \in Dispatchers, dispatch[d].pc # "idle",
           NEW next, dispatch' = [dispatch EXCEPT ![d] = next],
           next = NoDispatch \/ next.job = dispatch[d].job,
           \A j \in Jobs : j # dispatch[d].job => job'[j] = job[j],
           LET row == job'[dispatch[d].job] IN
           /\ row.status \in {"absent", "pending", "failed"} =>
                  \/ dispatch[d].pc # "mark_dispatched"
                  \/ row.status = job[dispatch[d].job].status
           /\ next.pc \in Begun => row.status = "probing"
           /\ next.pc = "mark_probing" => row.status \in {"pending", "failed", "probing"},
           next.job = dispatch[d].job /\ next.pc # "mark_dispatched" =>
               dispatch[d].pc # "mark_dispatched"
    PROVE  /\ \A j \in Jobs : MayBegin(j)' => MayBegin(j)
           /\ BegunProbing'
<1> DEFINE k == dispatch[d].job
<1>1. /\ dispatch'[d] = next
      /\ \A e \in Dispatchers : e # d => dispatch'[e] = dispatch[e]
  BY DispatchMovesOne
<1>2. k \in Jobs /\ k # NoJob
  BY DispatchHolds, StoreAssumption
<1>3. \A e \in Dispatchers : e # d => dispatch[e].job # k
  BY <1>2 DEF DispatchInTurn
<1>4. \A e \in Dispatchers : dispatch[e].pc # "idle" => dispatch[e].job \in Jobs
  BY DispatchHolds
<1> HIDE DEF k
<1>5. ASSUME NEW j \in Jobs, MayBegin(j)'
      PROVE  MayBegin(j)
  <2>1. CASE job'[j].status \in {"absent", "pending", "failed"} /\ job'[j].status = job[j].status
    BY <2>1 DEF MayBegin
  <2>2. CASE job'[j].status \in {"absent", "pending", "failed"} /\ job'[j].status # job[j].status
    <3>1. j = k /\ dispatch[d].pc # "mark_dispatched"
      BY <2>2 DEF k
    <3>2. QED
      BY <3>1 DEF MayBegin, Beginning, k
  <2>3. CASE Beginning(j)'
    <3>1. PICK e \in Dispatchers : dispatch'[e].job = j /\ dispatch'[e].pc # "mark_dispatched"
      BY <2>3 DEF Beginning
    <3>2. CASE e # d
      BY <1>1, <3>1, <3>2 DEF MayBegin, Beginning
    <3>3. CASE e = d
      <4>1. next.job = k /\ next.job = j
        BY <1>1, <3>1, <3>3, StoreAssumption DEF k, NoDispatch
      <4>2. QED
        BY <1>1, <3>1, <3>3, <4>1 DEF MayBegin, Beginning, k
    <3>4. QED
      BY <3>2, <3>3
  <2>4. QED
    BY <1>5, <2>1, <2>2, <2>3 DEF MayBegin
<1>6. ASSUME NEW e \in Dispatchers
      PROVE  /\ dispatch'[e].pc \in Begun => job'[dispatch'[e].job].status = "probing"
             /\ dispatch'[e].pc = "mark_probing" =>
                    job'[dispatch'[e].job].status \in {"pending", "failed", "probing"}
  <2>1. CASE e # d
    <3>1. dispatch[e].pc # "idle" => job'[dispatch[e].job] = job[dispatch[e].job]
      BY <1>3, <1>4, <2>1 DEF k
    <3>2. QED
      BY <1>1, <2>1, <3>1 DEF LifeInv, BegunProbing, Begun
  <2>2. CASE e = d
    <3>1. next.pc \in Begun \cup {"mark_probing"} => next.job = k
      BY DEF NoDispatch, Begun, k
    <3>2. QED
      BY <1>1, <2>2, <3>1 DEF k
  <2>3. QED
    BY <2>1, <2>2
<1>7. QED
  BY <1>5, <1>6 DEF BegunProbing

(* A request that begins: its job is one nothing may still happen to.      *)
LEMMA RequestBegins ==
    ASSUME TypeOK, LifeInv, NEW d \in Dispatchers, NEW k \in Jobs,
           NEW next, dispatch' = [dispatch EXCEPT ![d] = next], next.job = k,
           job[k].status \in {"absent", "pending", "failed"},
           \/ /\ next.pc = "log_created" /\ job[k].status = "absent"
              /\ job'[k].status = "probing"
              /\ \A j \in Jobs : j # k => job'[j] = job[j]
           \/ /\ next.pc = "mark_probing" /\ job[k].status # "absent"
              /\ UNCHANGED job
    PROVE  /\ \A j \in Jobs : MayBegin(j)' => MayBegin(j)
           /\ BegunProbing'
<1>1. /\ dispatch'[d] = next
      /\ \A e \in Dispatchers : e # d => dispatch'[e] = dispatch[e]
  BY DispatchMovesOne
<1>2. ASSUME NEW j \in Jobs, j # k
      PROVE  MayBegin(j)' => MayBegin(j)
  BY <1>1, <1>2 DEF MayBegin, Beginning
<1>3. MayBegin(k)
  BY DEF MayBegin
<1>4. \A e \in Dispatchers : dispatch[e].pc # "idle" => dispatch[e].job \in Jobs
  BY DispatchHolds
<1>5. \A e \in Dispatchers : e # d => /\ dispatch[e].pc \in Begun => dispatch[e].job \in Jobs
                                      /\ dispatch[e].pc = "mark_probing" => dispatch[e].job \in Jobs
  BY <1>4 DEF Begun
<1>6. BegunProbing'
  BY <1>1, <1>5 DEF LifeInv, BegunProbing, Begun
<1>7. QED
  BY <1>2, <1>3, <1>6

LEMMA DispatchKeepsLife ==
    ASSUME TypeOK, LifeInv, DispatchInTurn, NEW d \in Dispatchers,
           CreateJob(d) \/ RetryJob(d) \/ DispatchStep(d) \/ DispatchAborts(d), ~Publish(d)
    PROVE  LifeInv'
<1> USE DEF At
<1>1. UNCHANGED <<busVars, approval, resolve, consumer>>
  BY DEF CreateJob, RetryJob, DispatchStep, DispatchAborts, LogCreated, MarkProbing,
         ProbeAnswered, ProbeFailed, MarkUnavailable, PublishFails, MarkPublishFailed,
         MarkDispatched, InsertJob, InsertJobEvent, UpdateJobState, JobsOnly, EventsOnly,
         storeVars
<1> SUFFICES (\A j \in Jobs : MayBegin(j)' => MayBegin(j)) /\ BegunProbing'
  BY <1>1, DispatchOnly
<1>2. CASE CreateJob(d)
  <2>1. PICK j \in Jobs, v \in SelectableDevices(NoDevice) :
           /\ job[j].status = "absent"
           /\ InsertJob(j, v)
           /\ dispatch' = [dispatch EXCEPT ![d] =
                             [pc |-> "log_created", job |-> j, device |-> v]]
    BY <1>2 DEF CreateJob
  <2>2. /\ job'[j] = NewRow("probing", v)
        /\ \A k \in Jobs : k # j => job'[k] = job[k]
    BY <2>1, WriteJobRow DEF InsertJob
  <2>3. PICK next : /\ next.pc = "log_created" /\ next.job = j
                    /\ dispatch' = [dispatch EXCEPT ![d] = next]
    BY <2>1
  <2>4. job[j].status = "absent" /\ job'[j].status = "probing"
    BY <2>1, <2>2 DEF NewRow
  <2>5. QED
    BY <2>2, <2>3, <2>4, RequestBegins
<1>3. CASE RetryJob(d)
  <2>1. PICK j \in Jobs :
           /\ Retryable(j)
           /\ \E v \in SelectableDevices(job[j].device) :
                 dispatch' = [dispatch EXCEPT ![d] =
                                [pc |-> "mark_probing", job |-> j, device |-> v]]
    BY <1>3 DEF RetryJob
  <2>2. PICK v \in SelectableDevices(job[j].device) :
           dispatch' = [dispatch EXCEPT ![d] =
                          [pc |-> "mark_probing", job |-> j, device |-> v]]
    BY <2>1
  <2>3. UNCHANGED job /\ job[j].status \in {"failed", "pending"}
    BY <1>3, <2>1 DEF RetryJob, Retryable, storeVars
  <2>4. PICK next : /\ next.pc = "mark_probing" /\ next.job = j
                    /\ dispatch' = [dispatch EXCEPT ![d] = next]
    BY <2>2
  <2>5. QED
    BY <2>3, <2>4, RequestBegins
<1>4. /\ dispatch[d].pc # "idle" => dispatch[d].job \in Jobs /\ dispatch[d].job # NoJob
      /\ NoDispatch.pc = "idle" /\ NoDispatch.job = NoJob
  BY DispatchHolds, StoreAssumption DEF NoDispatch
<1>5. /\ dispatch[d].pc \in Begun => job[dispatch[d].job].status = "probing"
      /\ dispatch[d].pc = "mark_probing" =>
             job[dispatch[d].job].status \in {"pending", "failed", "probing"}
  BY DEF LifeInv, BegunProbing
<1>6. CASE MarkProbing(d) \/ MarkUnavailable(d) \/ MarkPublishFailed(d) \/ MarkDispatched(d)
  <2>1. PICK s, r, f, c : UpdateJobState(dispatch[d].job, s, r, f, c) /\
                          \/ MarkProbing(d) /\ s = "probing"
                          \/ (MarkUnavailable(d) \/ MarkPublishFailed(d)) /\ s = "failed"
                          \/ MarkDispatched(d) /\ s = "dispatched"
    BY <1>6 DEF MarkProbing, MarkUnavailable, MarkPublishFailed, MarkDispatched
  <2>2. dispatch[d].job \in Jobs
    BY <1>4, <1>6 DEF MarkProbing, MarkUnavailable, MarkPublishFailed, MarkDispatched
  <2>3. /\ job'[dispatch[d].job].status = s
        /\ \A k \in Jobs : k # dispatch[d].job => job'[k] = job[k]
    <3>1. PICK row : row.status = s /\ job' = [job EXCEPT ![dispatch[d].job] = row]
      BY <2>1 DEF UpdateJobState
    <3>2. QED
      BY <2>2, <3>1, WriteJobRow
  <2>4. CASE MarkProbing(d)
    <3>1. dispatch' = [dispatch EXCEPT ![d] =
             [pc |-> "probe", job |-> dispatch[d].job, device |-> dispatch[d].device]]
      BY <2>4 DEF MarkProbing, DispatchGoto
    <3>2. s = "probing" /\ dispatch[d].pc = "mark_probing"
      BY <2>1, <2>4 DEF MarkProbing, MarkUnavailable, MarkPublishFailed, MarkDispatched
    <3>3. QED
      BY <2>3, <3>1, <3>2, RequestGoesOn DEF Begun
  <2>5. CASE ~MarkProbing(d)
    <3>1. dispatch' = [dispatch EXCEPT ![d] = NoDispatch]
      BY <1>6, <2>5 DEF MarkUnavailable, MarkPublishFailed, MarkDispatched, DispatchEnds
    <3>2. /\ dispatch[d].pc # "idle"
          /\ s \in {"absent", "pending", "failed"} => dispatch[d].pc # "mark_dispatched"
      BY <2>1, <2>5 DEF MarkUnavailable, MarkPublishFailed, MarkDispatched
    <3>3. QED
      BY <1>4, <2>3, <3>1, <3>2, RequestGoesOn DEF Begun
  <2>6. QED
    BY <2>4, <2>5
<1>7. CASE LogCreated(d) \/ ProbeAnswered(d) \/ ProbeFailed(d) \/ PublishFails(d)
  <2>1. PICK pc \in {"mark_probing", "publish", "mark_unavailable", "mark_publish_failed"} :
           DispatchGoto(d, pc)
    BY <1>7 DEF LogCreated, ProbeAnswered, ProbeFailed, PublishFails
  <2>2. dispatch[d].pc \in Begun /\ UNCHANGED job
    BY <1>7 DEF LogCreated, ProbeAnswered, ProbeFailed, PublishFails, InsertJobEvent,
                EventsOnly, storeVars, Begun
  <2>3. job[dispatch[d].job].status = "probing" /\ dispatch[d].pc \notin {"idle", "mark_dispatched"}
    BY <1>5, <2>2 DEF Begun
  <2>4. QED
    BY <2>1, <2>2, <2>3, RequestGoesOn DEF DispatchGoto, Begun
<1>8. CASE DispatchAborts(d)
  <2>1. UNCHANGED job /\ dispatch[d].pc # "idle" /\ dispatch' = [dispatch EXCEPT ![d] = NoDispatch]
    BY <1>8 DEF DispatchAborts, DispatchEnds, storeVars
  <2>2. QED
    BY <1>4, <2>1, RequestGoesOn DEF Begun
<1>9. QED
  BY <1>2, <1>3, <1>6, <1>7, <1>8 DEF DispatchStep

(* The publish begins the new life: nothing may still happen to the job,   *)
(* and the request in hand is the only one of the job.                     *)
LEMMA PublishBeginsLife ==
    ASSUME TypeOK, LifeInv, DispatchInTurn, NEW d \in Dispatchers, Publish(d)
    PROVE  LifeInv'
<1> PICK k \in Jobs : k = dispatch[d].job
  BY DispatchHolds DEF Publish, At
<1>1. /\ dispatch[d].pc = "publish" /\ k # NoJob
      /\ job[k].status = "probing"
  BY StoreAssumption DEF Publish, At, LifeInv, BegunProbing, Begun
<1>2. UNCHANGED <<storeVars, push, lifecycle, resolve, consumer>>
  BY DEF Publish
<1>3. PICK n \in Attempts :
         /\ attempt[n].stage = "unused"
         /\ attempt' = [attempt EXCEPT ![n] = [stage |-> "sent", job |-> k]]
  BY DEF Publish, PublishDispatch, UnusedAttempts
<1>4. /\ dispatch'[d].pc = "mark_dispatched"
      /\ dispatch'[d].job = k
      /\ \A e \in Dispatchers : e # d => dispatch'[e] = dispatch[e]
  <2>1. PICK next : /\ next.pc = "mark_dispatched" /\ next.job = k
                    /\ dispatch' = [dispatch EXCEPT ![d] = next]
    BY DEF Publish, DispatchGoto
  <2>2. QED
    BY <2>1, DispatchMovesOne
<1>5. /\ attempt'[n].job = k /\ attempt'[n].stage = "sent"
      /\ \A m \in Attempts : m # n => attempt'[m] = attempt[m]
  BY <1>3 DEF TypeOK, BusTypeOK
<1>6. StillQuiet(k)
  <2>1. Beginning(k)
    BY <1>1 DEF Beginning
  <2>2. QED
    BY <1>1, <2>1, QuietIs DEF LifeInv, Life, MayBegin
<1>7. ~Beginning(k)'
  BY <1>1, <1>4 DEF Beginning, DispatchInTurn
<1>8. ASSUME NEW j \in Jobs
      PROVE  /\ LeadingReports(j)' = LeadingReports(j) /\ Folding(j)' = Folding(j)
             /\ OpenApprovals(j)' = OpenApprovals(j) /\ Rejections(j)' = Rejections(j)
             /\ Reports(j)' = Reports(j) /\ FoldsState(j)' = FoldsState(j)
  BY <1>2, LifeFrames DEF storeVars, FoldsState
<1>9. Life(k)'
  <2>1. Runs(k)' \subseteq {n}
    BY <1>5, <1>6 DEF Runs, StillQuiet, NoProspects
  <2>2. OneAlone(k)'
    BY <1>1, <1>6, <1>8, <2>1 DEF OneAlone, Alone, StillQuiet, NoProspects
  <2>3. ~MayBegin(k)'
    BY <1>1, <1>2, <1>7 DEF MayBegin, storeVars
  <2>4. QED
    BY <2>2, <2>3 DEF Life
<1>10. ASSUME NEW j \in Jobs, j # k
       PROVE  Life(j)'
  <2>1. Runs(j)' \subseteq Runs(j)
    BY <1>5, <1>10 DEF Runs
  <2>2. MayBegin(j)' => MayBegin(j)
    BY <1>2, <1>4, <1>10 DEF MayBegin, Beginning, storeVars
  <2>3. QED
    BY <1>8, <2>1, <2>2, LifeKeeps DEF LifeInv
<1>11. BegunProbing'
  BY <1>2, <1>4 DEF LifeInv, BegunProbing, Begun, storeVars
<1>12. PushStages' /\ FailuresLast' /\ FailureFolded' /\ StepFitsEvent' /\ RejectedCompletes'
  BY <1>2 DEF LifeInv, PushStages, FailuresLast, FailureFolded, StepFitsEvent, Kind,
              EventJob, Reports, RejectedCompletes
<1>13. QED
  BY <1>9, <1>10, <1>11, <1>12 DEF LifeInv
-----------------------------------------------------------------------------
(* The lifecycle consumer.  It leaves runs and requests alone.             *)
LEMMA ConsumerLeaves ==
    ASSUME ConsumerNext, NEW j \in Jobs
    PROVE  /\ Runs(j)' = Runs(j)
           /\ UNCHANGED <<attempt, push, dispatch, resolve>>
           /\ ~InsertApproval => /\ UNCHANGED approval
                                 /\ OpenApprovals(j)' = OpenApprovals(j)
                                 /\ Rejections(j)' = Rejections(j)
           /\ ~FoldState => UNCHANGED job /\ MayBegin(j)' = MayBegin(j)
           /\ ~TakeEvent => /\ UNCHANGED lifecycle
                            /\ Reports(j)' = Reports(j)
                            /\ LeadingReports(j)' = LeadingReports(j)
<1> USE DEF ConsumerNext, ConsumerStep, TakeEvent, FoldState, StoreSummary, PointJobToSummary,
            FindPending, InsertApproval, InsertApprovalRefused, PostReply,
            ConsumerDropsEvent, busVars
<1>1. UNCHANGED <<attempt, push, dispatch, resolve>>
  OBVIOUS
<1>2. ~TakeEvent => UNCHANGED lifecycle
  OBVIOUS
<1>3. ~InsertApproval => UNCHANGED approval
  BY DEF UpdateJobState, InsertSummary, PointToSummary, PostReplyOnce, AddReply, JobsOnly,
         SummariesOnly, MessagesOnly, storeVars
<1>4. ~FoldState => UNCHANGED job
  BY DEF InsertPendingApproval, WriteApproval, ApprovalsOnly, InsertSummary, PointToSummary,
         PostReplyOnce, AddReply, SummariesOnly, MessagesOnly, storeVars
<1>5. QED
  BY <1>1, <1>2, <1>3, <1>4, LifeFrames

LEMMA EventAfter ==
    ASSUME NEW kind
    PROVE  /\ AfterReport(kind) \in {"find_pending", "post_reply"}
           /\ AfterState(kind) \in {"insert_summary", "find_pending", "post_reply"}
           /\ AfterState(kind) = "insert_summary" => CarriesSummary(kind)
           /\ AfterReport(kind) = "find_pending" => kind = "awaiting_approval"
           /\ AfterState(kind) = "find_pending" => kind = "awaiting_approval"
           /\ CarriesSummary(kind) => AfterReport(kind) = "post_reply"
           /\ kind = "failed" => AfterState(kind) = "insert_summary"
           /\ kind = "push_started" => AfterState(kind) = "post_reply"
BY DEF AfterState, AfterReport, CarriesSummary

(* An event is taken: the reports move up, the first of them is the fold.  *)
LEMMA TakeKeepsLife ==
    ASSUME TypeOK, LifeInv, TakeEvent
    PROVE  LifeInv'
<1> PICK e \in Event : e = Head(lifecycle) /\ lifecycle \in Seq(Event) /\ lifecycle # <<>>
  BY DEF TakeEvent, TypeOK, BusTypeOK
<1>1. /\ lifecycle \in Seq(Event) /\ lifecycle # <<>>
      /\ lifecycle' = Tail(lifecycle)
      /\ consumer.pc = "idle"
  BY DEF TakeEvent, ConsumerAt, TypeOK, BusTypeOK
<1>2. /\ e \in Event /\ e = lifecycle[1] /\ 1 \in DOMAIN lifecycle
      /\ \A i : i \in DOMAIN lifecycle' <=> i \in Nat \ {0} /\ i + 1 \in DOMAIN lifecycle
      /\ \A i \in DOMAIN lifecycle' : lifecycle'[i] = lifecycle[i + 1]
      /\ \A i \in DOMAIN lifecycle : i \in Nat \ {0}
  BY <1>1
<1>3. /\ consumer'.event = e
      /\ consumer'.pc = "update_state" \/ ~Leads(e.kind)
      /\ consumer'.pc \in {"update_state", "post_reply"}
  BY EventAfter DEF TakeEvent, CarriesStatus, Leads
<1>4. UNCHANGED <<storeVars, attempt, push, dispatch, resolve>>
  BY DEF TakeEvent
<1>5. ASSUME NEW j \in Jobs
      PROVE  /\ Runs(j)' = Runs(j) /\ OpenApprovals(j)' = OpenApprovals(j)
             /\ Rejections(j)' = Rejections(j) /\ MayBegin(j)' = MayBegin(j)
             /\ Folding(j) = {}
  BY <1>1, <1>4, LifeFrames DEF storeVars, Folding
<1>6. ASSUME NEW j \in Jobs
      PROVE  /\ \A i \in Reports(j)' : i + 1 \in Reports(j)
             /\ \A i \in LeadingReports(j)' : i + 1 \in LeadingReports(j)
  BY <1>2 DEF Reports, LeadingReports
<1>7. ASSUME NEW j \in Jobs, e.job # j
      PROVE  Life(j)'
  <2>1. Folding(j)' = {} /\ ~FoldsState(j)'
    BY <1>3, <1>7 DEF Folding, FoldsState
  <2>2. Life(j)
    BY DEF LifeInv
  <2>3. OneAlone(j)'
    <3>1. \A x, y \in LeadingReports(j)' : x = y
      <4>1. \A x, y \in LeadingReports(j) : x = y
        BY <2>2 DEF Life, OneAlone, Alone
      <4>2. \A x \in LeadingReports(j)' : x \in Nat
        BY <1>2 DEF Reports, LeadingReports
      <4>3. QED
        BY <1>6, <4>1, <4>2
    <3>2. LeadingReports(j) = {} => LeadingReports(j)' = {}
      BY <1>6
    <3>3. QED
      BY <1>5, <2>1, <2>2, <3>1, <3>2 DEF Life, OneAlone, Alone
  <2>4. ASSUME StillQuiet(j)
        PROVE  StillQuiet(j)'
    BY <1>5, <1>6, <2>1, <2>4 DEF StillQuiet, NoProspects, FoldsState
  <2>5. QED
    BY <1>5, <2>2, <2>3, <2>4, QuietIs DEF Life
<1>8. ASSUME NEW j \in Jobs, e.job = j
      PROVE  Life(j)'
  <2>1. 1 \in Reports(j) /\ (Leads(e.kind) => 1 \in LeadingReports(j))
    BY <1>2, <1>8 DEF Reports, LeadingReports
  <2>2. ~MayBegin(j)' /\ Life(j)
    BY <1>5, <2>1, BusyBeginsNot DEF LifeInv
  <2>3. /\ Folding(j)' \subseteq {e}
        /\ ~Leads(e.kind) => Folding(j)' = {}
    BY <1>3 DEF Folding
  <2>4. \A x, y \in LeadingReports(j) : x = y
    BY <2>2 DEF Life, OneAlone, Alone
  <2>5. \A x \in LeadingReports(j)' : x \in Nat \ {0}
    BY <1>2 DEF Reports, LeadingReports
  <2>6. CASE Leads(e.kind)
    <3>1. LeadingReports(j)' = {}
      <4>1. \A x \in LeadingReports(j)' : x + 1 = 1
        BY <1>6, <2>1, <2>4, <2>6
      <4>2. QED
        BY <2>5, <4>1
    <3>2. /\ Runs(j) = {} /\ OpenApprovals(j) = {} /\ Rejections(j) = {}
      BY <2>1, <2>2, <2>6 DEF Life, OneAlone, Alone
    <3>3. OneAlone(j)'
      BY <1>5, <2>3, <3>1, <3>2 DEF OneAlone, Alone
    <3>4. QED
      BY <2>2, <3>3 DEF Life
  <2>7. CASE ~Leads(e.kind)
    <3>1. \A x, y \in LeadingReports(j)' : x = y
      BY <1>6, <2>4, <2>5
    <3>2. LeadingReports(j) = {} => LeadingReports(j)' = {}
      BY <1>6
    <3>3. OneAlone(j)'
      BY <1>5, <2>2, <2>3, <2>7, <3>1, <3>2 DEF Life, OneAlone, Alone
    <3>4. QED
      BY <2>2, <3>3 DEF Life
  <2>8. QED
    BY <2>6, <2>7
<1>9. FailuresLast'
  BY <1>2 DEF LifeInv, FailuresLast
<1>10. FailureFolded'
  <2>1. ASSUME consumer'.pc = "update_state", e.kind = "failed", NEW i \in Reports(e.job)'
        PROVE  FALSE
    <3>1. i \in Nat \ {0} /\ i + 1 \in DOMAIN lifecycle /\ lifecycle[i + 1].job = e.job
      BY <1>2, <2>1 DEF Reports
    <3>2. i + 1 <= 1
      BY <1>2, <2>1, <3>1 DEF LifeInv, FailuresLast
    <3>3. QED
      BY <3>1, <3>2
  <2>2. QED
    BY <1>3, <2>1 DEF FailureFolded, Kind, EventJob
<1>11. PushStages' /\ BegunProbing' /\ StepFitsEvent' /\ RejectedCompletes'
  BY <1>3, <1>4 DEF LifeInv, PushStages, BegunProbing, StepFitsEvent, RejectedCompletes,
                    storeVars
<1>12. QED
  BY <1>7, <1>8, <1>9, <1>10, <1>11 DEF LifeInv

(* A status is folded in.  If it is a failure, nothing else may happen to  *)
(* the job; if it is another, the job may not begin again.                 *)
LEMMA FoldKeepsLife ==
    ASSUME TypeOK, LifeInv, FoldState
    PROVE  LifeInv'
<1> PICK k \in Jobs : k = EventJob
  BY ConsumerHolds DEF FoldState, ConsumerAt
<1>1. /\ consumer.pc = "update_state" /\ consumer.event.job = k
      /\ consumer'.event = consumer.event /\ consumer'.pc = AfterState(Kind)
      /\ consumer'.pc \in {"insert_summary", "find_pending", "post_reply"}
      /\ UNCHANGED <<busVars, dispatch, resolve>>
  BY EventAfter DEF FoldState, ConsumerAt, ConsumerGoto, EventJob
<1>2. /\ job'[k].status = StatusOf(Kind)
      /\ \A j \in Jobs : j # k => job'[j] = job[j]
      /\ UNCHANGED approval
  <2>1. PICK s, r, f, c : UpdateJobState(k, s, r, f, c) /\ s = StatusOf(Kind)
    BY DEF FoldState
  <2>2. PICK row : row.status = s /\ job' = [job EXCEPT ![k] = row]
    BY <2>1 DEF UpdateJobState
  <2>3. job'[k] = row /\ \A j \in Jobs : j # k => job'[j] = job[j]
    BY <2>2, WriteJobRow
  <2>4. UNCHANGED approval
    BY <2>1 DEF UpdateJobState, JobsOnly
  <2>5. QED
    BY <2>1, <2>2, <2>3, <2>4
<1>3. StatusOf(Kind) \in {"absent", "pending", "failed"} => Kind = "failed"
  BY DEF StatusOf
<1>4. Kind = consumer.event.kind /\ EventJob = consumer.event.job
  BY DEF Kind, EventJob
<1>5. ASSUME NEW j \in Jobs
      PROVE  /\ Runs(j)' = Runs(j) /\ OpenApprovals(j)' = OpenApprovals(j)
             /\ Rejections(j)' = Rejections(j) /\ LeadingReports(j)' = LeadingReports(j)
             /\ Reports(j)' = Reports(j) /\ ~FoldsState(j)'
             /\ Beginning(j)' = Beginning(j)
             /\ Folding(j)' \subseteq Folding(j)
             /\ Kind = "failed" => Folding(j)' = {}
  <2>1. Beginning(j)' = Beginning(j) /\ ~FoldsState(j)'
    BY <1>1 DEF Beginning, FoldsState
  <2>2. Folding(j)' \subseteq Folding(j)
    BY <1>1 DEF Folding
  <2>3. Kind = "failed" => Folding(j)' = {}
    BY <1>1, EventAfter DEF Folding
  <2>4. QED
    BY <1>1, <1>2, <2>1, <2>2, <2>3, LifeFrames DEF busVars
<1>6. ~MayBegin(k) /\ Life(k) /\ ~Beginning(k)
  BY <1>1, BusyBeginsNot DEF LifeInv, FoldsState, MayBegin
<1>7. Life(k)'
  <2>1. OneAlone(k)'
    BY <1>5, <1>6, FewerAlone DEF Life, OneAlone
  <2>2. CASE Kind = "failed"
    <3>1. consumer.event \in Folding(k)
      BY <1>1, <1>4, <2>2 DEF Folding, Leads
    <3>2. Runs(k) = {} /\ LeadingReports(k) = {} /\ OpenApprovals(k) = {} /\ Rejections(k) = {}
      BY <1>6, <3>1 DEF Life, OneAlone, Alone
    <3>3. Reports(k) = {}
      BY <1>1, <1>4, <2>2 DEF LifeInv, FailureFolded
    <3>4. StillQuiet(k)'
      BY <1>5, <2>2, <3>2, <3>3 DEF StillQuiet, NoProspects, FoldsState
    <3>5. QED
      BY <2>1, <3>4, QuietIs DEF Life
  <2>3. CASE Kind # "failed"
    BY <1>2, <1>3, <1>5, <1>6, <2>1, <2>3 DEF Life, MayBegin
  <2>4. QED
    BY <2>2, <2>3
<1>8. ASSUME NEW j \in Jobs, j # k
      PROVE  Life(j)'
  <2>1. MayBegin(j)' => MayBegin(j)
    BY <1>2, <1>5, <1>8 DEF MayBegin
  <2>2. QED
    BY <1>5, <2>1, LifeKeeps DEF LifeInv
<1>9. BegunProbing'
  <2>1. ASSUME NEW d \in Dispatchers, dispatch[d].pc \in Begun \cup {"mark_probing"}
        PROVE  dispatch[d].job \in Jobs /\ dispatch[d].job # k
    BY <1>6, <2>1, DispatchHolds DEF Beginning, Begun
  <2>2. QED
    BY <1>1, <1>2, <2>1 DEF LifeInv, BegunProbing
<1>10. PushStages' /\ FailuresLast' /\ FailureFolded' /\ RejectedCompletes'
  BY <1>1 DEF LifeInv, PushStages, FailuresLast, FailureFolded, RejectedCompletes, busVars
<1>11. StepFitsEvent'
  <2>1. Kind' = Kind
    BY <1>1 DEF Kind
  <2>2. QED
    BY <1>1, <2>1, EventAfter DEF StepFitsEvent
<1>12. QED
  BY <1>7, <1>8, <1>9, <1>10, <1>11 DEF LifeInv

(* A request for approval becomes an open approval.                        *)
LEMMA InsertKeepsLife ==
    ASSUME TypeOK, LifeInv, InsertApproval
    PROVE  LifeInv'
<1> PICK k \in Jobs : k = EventJob
  BY ConsumerHolds DEF InsertApproval, ConsumerAt
<1>1. PICK a \in Approvals : /\ approval[a].status = "absent"
                             /\ WriteApproval(a, "pending", k)
  BY DEF InsertApproval, InsertPendingApproval
<1>2. /\ approval'[a] = [status |-> "pending", job |-> k]
      /\ \A b \in Approvals : b # a => approval'[b] = approval[b]
      /\ UNCHANGED job
  <2>1. UNCHANGED job
    BY <1>1 DEF WriteApproval, ApprovalsOnly
  <2>2. QED
    BY <1>1, <2>1, WriteApprovalRows
<1>3. /\ consumer.pc = "insert_approval" /\ consumer.event.job = k
      /\ consumer'.pc = "post_reply" /\ consumer'.event = consumer.event
      /\ UNCHANGED <<attempt, push, lifecycle, dispatch, resolve>>
  BY DEF InsertApproval, ConsumerAt, ConsumerGoto, EventJob, busVars
<1>4. ASSUME NEW j \in Jobs
      PROVE  /\ Runs(j)' = Runs(j) /\ LeadingReports(j)' = LeadingReports(j)
             /\ Reports(j)' = Reports(j) /\ MayBegin(j)' = MayBegin(j)
             /\ Folding(j)' = {} /\ ~FoldsState(j)'
  BY <1>2, <1>3, LifeFrames DEF Folding, FoldsState
<1>5. \A r \in Resolvers : Decided(r) => resolve[r].approval \in Approvals \ {a}
  BY <1>1, ResolveHolds DEF Decided, ApprovalRow
<1>6. ASSUME NEW j \in Jobs
      PROVE  Rejections(j)' = Rejections(j)
  BY <1>2, <1>3, <1>5 DEF Rejections, Decided, JobOf
<1>7. ASSUME NEW j \in Jobs, j # k
      PROVE  Life(j)'
  <2>1. OpenApprovals(j)' \subseteq OpenApprovals(j)
    BY <1>2, <1>3, <1>7 DEF OpenApprovals
  <2>2. QED
    BY <1>4, <1>6, <2>1, LifeKeeps DEF LifeInv
<1>8. Life(k)'
  <2>1. consumer.event \in Folding(k)
    BY <1>3 DEF Folding, LifeInv, StepFitsEvent, Kind, Leads
  <2>2. Life(k)
    BY DEF LifeInv
  <2>3. /\ Runs(k) = {} /\ LeadingReports(k) = {}
        /\ OpenApprovals(k) = {} /\ Rejections(k) = {}
    BY <2>1, <2>2 DEF Life, OneAlone, Alone
  <2>4. OpenApprovals(k)' \subseteq {a}
    BY <1>2, <1>3, <2>3 DEF OpenApprovals
  <2>5. OneAlone(k)'
    BY <1>4, <1>6, <2>3, <2>4 DEF OneAlone, Alone
  <2>6. ~MayBegin(k)'
    BY <1>4, <2>1, <2>2, BusyBeginsNot DEF NoProspects
  <2>7. QED
    BY <2>5, <2>6 DEF Life
<1>9. /\ PushStages' /\ FailuresLast' /\ FailureFolded' /\ BegunProbing'
      /\ StepFitsEvent' /\ RejectedCompletes'
  BY <1>2, <1>3 DEF LifeInv, PushStages, FailuresLast, FailureFolded, StepFitsEvent,
                    BegunProbing, RejectedCompletes
<1>10. QED
  BY <1>7, <1>8, <1>9 DEF LifeInv

LEMMA ConsumerKeepsLife == TypeOK /\ LifeInv /\ ConsumerNext => LifeInv'
<1> SUFFICES ASSUME TypeOK, LifeInv, ConsumerNext,
                    ~TakeEvent, ~FoldState, ~InsertApproval
             PROVE  LifeInv'
  BY TakeKeepsLife, FoldKeepsLife, InsertKeepsLife
<1>1. /\ UNCHANGED <<attempt, push, lifecycle, dispatch, resolve, job>>
      /\ \A j \in Jobs : /\ Runs(j)' = Runs(j) /\ LeadingReports(j)' = LeadingReports(j)
                         /\ OpenApprovals(j)' = OpenApprovals(j)
                         /\ Rejections(j)' = Rejections(j)
                         /\ Reports(j)' = Reports(j) /\ MayBegin(j)' = MayBegin(j)
  <2>1. UNCHANGED <<attempt, push, lifecycle, dispatch, resolve, job>>
    BY DEF ConsumerNext, ConsumerStep, StoreSummary, PointJobToSummary, FindPending,
           InsertApprovalRefused, PostReply, ConsumerDropsEvent, InsertSummary,
           PointToSummary, PostReplyOnce, AddReply, SummariesOnly, MessagesOnly, storeVars,
           busVars
  <2>2. QED
    BY <2>1, ConsumerLeaves
<1>2. \/ consumer'.pc \in {"idle", "post_reply"}
      \/ /\ consumer.pc = "insert_summary" /\ consumer'.pc = "point_to_summary"
         /\ consumer'.event = consumer.event
      \/ /\ consumer.pc = "find_pending" /\ consumer'.pc = "insert_approval"
         /\ consumer'.event = consumer.event
  BY EventAfter
     DEF ConsumerNext, ConsumerStep, StoreSummary, PointJobToSummary, FindPending,
         InsertApprovalRefused, PostReply, ConsumerDropsEvent, ConsumerAt, ConsumerGoto,
         ConsumerIdle, LifeInv, StepFitsEvent
<1>3. ASSUME NEW j \in Jobs
      PROVE  Life(j)'
  <2>1. Folding(j)' \subseteq Folding(j) /\ ~FoldsState(j)'
    BY <1>2 DEF Folding, FoldsState
  <2>2. QED
    BY <1>1, <2>1, LifeKeeps DEF LifeInv
<1>4. StepFitsEvent'
  BY <1>2 DEF LifeInv, StepFitsEvent, Kind
<1>5. PushStages' /\ FailuresLast' /\ FailureFolded' /\ BegunProbing' /\ RejectedCompletes'
  BY <1>1, <1>2 DEF LifeInv, PushStages, FailuresLast, FailureFolded, BegunProbing,
                    RejectedCompletes
<1>6. QED
  BY <1>3, <1>4, <1>5 DEF LifeInv
-----------------------------------------------------------------------------
(* The approval requests.                                                  *)
LEMMA RejectionsStay ==
    ASSUME TypeOK, NEW j \in Jobs,
           \A a \in Approvals : approval'[a].job = approval[a].job,
           \A s \in Resolvers : Decided(s)' =>
               /\ Decided(s) /\ resolve'[s].approval = resolve[s].approval
               /\ resolve'[s].decision = resolve[s].decision
    PROVE  Rejections(j)' \subseteq Rejections(j)
<1>1. \A s \in Resolvers : Decided(s) => resolve[s].approval \in Approvals
  BY ResolveHolds DEF Decided
<1>2. QED
  BY <1>1 DEF Rejections, JobOf

LEMMA ResolveOnly ==
    ASSUME TypeOK, LifeInv, UNCHANGED <<job, attempt, lifecycle, dispatch, consumer>>,
           \A j \in Jobs : /\ OpenApprovals(j)' \subseteq OpenApprovals(j)
                           /\ Rejections(j)' \subseteq Rejections(j),
           PushStages', RejectedCompletes'
    PROVE  LifeInv'
<1>1. ASSUME NEW j \in Jobs PROVE Life(j)'
  <2>1. Life(j) /\ FoldsState(j)' = FoldsState(j)
    BY DEF LifeInv, FoldsState
  <2>2. QED
    BY <2>1, LifeFrames, LifeKeeps
<1>2. FailuresLast' /\ FailureFolded' /\ BegunProbing' /\ StepFitsEvent'
  BY DEF LifeInv, FailuresLast, FailureFolded, BegunProbing, StepFitsEvent, Kind, EventJob,
         Reports
<1>3. QED
  BY <1>1, <1>2 DEF LifeInv

(* A rejection takes the place of the open approval it rejects.            *)
LEMMA RejectKeepsLife ==
    ASSUME TypeOK, OneHandPerPush, LifeInv, NEW r \in Resolvers, Resolve(r),
           resolve[r].decision = "rejected"
    PROVE  LifeInv'
<1> PICK a \in Approvals : a = resolve[r].approval
  BY ResolveHolds DEF Resolve, ResolveAt
<1> PICK k \in Jobs : k = approval[a].job
  BY ResolveHolds DEF Resolve, ResolveAt, JobOf
<1>1. /\ approval[a].status = "pending" /\ WriteApproval(a, "rejected", k)
      /\ UNCHANGED <<attempt, push, lifecycle, dispatch, consumer>>
  BY DEF Resolve, CanResolve, SetApprovalStatus, busVars
<1>2. /\ approval'[a] = [status |-> "rejected", job |-> k]
      /\ \A b \in Approvals : b # a => approval'[b] = approval[b]
  BY <1>1, WriteApprovalRows
<1>3. UNCHANGED job
  BY <1>1 DEF WriteApproval, ApprovalsOnly
<1>4. /\ resolve'[r].pc = "log_decision" /\ resolve'[r].approval = a
      /\ \A s \in Resolvers : s # r => resolve'[s] = resolve[s]
  <2>1. resolve' = [resolve EXCEPT ![r] =
                      [pc |-> "log_decision", approval |-> a, decision |-> "rejected"]]
    BY DEF Resolve, ResolveGoto
  <2>2. resolve'[r] = [pc |-> "log_decision", approval |-> a, decision |-> "rejected"]
    BY <2>1 DEF TypeOK, ResolveTypeOK
  <2>3. \A s \in Resolvers : s # r => resolve'[s] = resolve[s]
    BY <2>1 DEF TypeOK, ResolveTypeOK
  <2>4. QED
    BY <2>2, <2>3
<1>5. a \in OpenApprovals(k)
  <2>1. push[a].sent = 0
    BY <1>1 DEF OneHandPerPush, PushedStaysApproved, TypeOK, BusTypeOK
  <2>2. QED
    BY <1>1, <2>1 DEF OpenApprovals, LifeInv, PushStages
<1>6. \A s \in Resolvers : Decided(s) => resolve[s].approval \in Approvals
  BY ResolveHolds DEF Decided
<1>7. \A b \in Approvals : approval'[b].job = approval[b].job
  BY <1>2
<1>8. ASSUME NEW j \in Jobs
      PROVE  /\ OpenApprovals(j)' \subseteq OpenApprovals(j) \ {a}
             /\ Rejections(j)' \subseteq Rejections(j) \cup {r}
             /\ j # k => Rejections(j)' \subseteq Rejections(j)
             /\ Runs(j)' = Runs(j) /\ LeadingReports(j)' = LeadingReports(j)
             /\ Reports(j)' = Reports(j) /\ MayBegin(j)' = MayBegin(j)
             /\ Folding(j)' = Folding(j) /\ FoldsState(j)' = FoldsState(j)
  <2>1. OpenApprovals(j)' \subseteq OpenApprovals(j) \ {a}
    BY <1>1, <1>2 DEF OpenApprovals
  <2>2. /\ Rejections(j)' \subseteq Rejections(j) \cup {r}
        /\ j # k => Rejections(j)' \subseteq Rejections(j)
    <3>1. ASSUME NEW s \in Rejections(j)', s # r
          PROVE  s \in Rejections(j)
      BY <1>4, <1>6, <1>7, <3>1 DEF Rejections, Decided, JobOf
    <3>2. r \in Rejections(j)' => j = k
      BY <1>2, <1>4 DEF Rejections, JobOf
    <3>3. QED
      BY <3>1, <3>2
  <2>3. QED
    BY <1>1, <1>3, <2>1, <2>2, LifeFrames DEF FoldsState
<1>9. ASSUME NEW j \in Jobs, j # k
      PROVE  Life(j)'
  BY <1>8, <1>9, LifeKeeps DEF LifeInv
<1>10. Life(k)'
  <2>1. Life(k)
    BY DEF LifeInv
  <2>2. /\ Runs(k) = {} /\ LeadingReports(k) = {} /\ Folding(k) = {} /\ Rejections(k) = {}
        /\ OpenApprovals(k)' = {}
    BY <1>5, <1>8, <2>1 DEF Life, OneAlone, Alone
  <2>3. ~MayBegin(k)'
    BY <1>5, <1>8, <2>1, BusyBeginsNot DEF NoProspects
  <2>4. OneAlone(k)'
    BY <1>8, <2>2 DEF OneAlone, Alone
  <2>5. QED
    BY <2>3, <2>4 DEF Life
<1>11. /\ PushStages' /\ FailuresLast' /\ FailureFolded' /\ BegunProbing'
       /\ StepFitsEvent' /\ RejectedCompletes'
  BY <1>1, <1>3, <1>4 DEF LifeInv, PushStages, FailuresLast, FailureFolded, BegunProbing,
     StepFitsEvent, RejectedCompletes, Kind, EventJob, Reports
<1>12. QED
  BY <1>9, <1>10, <1>11 DEF LifeInv

(* An approval that is approved, pushed or given back stays the open one.  *)
LEMMA ApprovedKeepsLife ==
    ASSUME TypeOK, OneHandPerPush, LifeInv, NEW r \in Resolvers,
           \/ Resolve(r) /\ resolve[r].decision = "approved"
           \/ PublishApproved(r)
           \/ ResetToPending(r)
    PROVE  LifeInv'
<1> PICK a \in Approvals : a = resolve[r].approval
  BY ResolveHolds DEF Resolve, PublishApproved, ResetToPending, ResolveAt
<1>1. push[a].sent = 0 /\ push[a].stage = "none" /\ approval[a].status \in {"pending", "approved"}
  <2>1. CASE Resolve(r)
    BY <2>1 DEF Resolve, CanResolve, OneHandPerPush, PushedStaysApproved, TypeOK, BusTypeOK,
                LifeInv, PushStages
  <2>2. CASE InHand(r)
    BY <2>2 DEF OneHandPerPush, LifeInv, PushStages
  <2>3. QED
    BY <2>1, <2>2 DEF PublishApproved, ResetToPending, ResolveAt, InHand
<1>2. /\ UNCHANGED <<job, attempt, lifecycle, dispatch, consumer>>
      /\ UNCHANGED approval \/ \E s \in {"pending", "approved"} :
                                   WriteApproval(a, s, approval[a].job)
      /\ UNCHANGED push \/ push' = [push EXCEPT ![a] = [stage |-> "sent", sent |-> 1]]
  <2>1. CASE Resolve(r) /\ resolve[r].decision = "approved"
    <3>1. WriteApproval(a, "approved", approval[a].job)
      BY <2>1 DEF Resolve, SetApprovalStatus
    <3>2. UNCHANGED <<busVars, dispatch, consumer>>
      BY <2>1 DEF Resolve
    <3>3. UNCHANGED job
      BY <3>1 DEF WriteApproval, ApprovalsOnly
    <3>4. QED
      BY <3>1, <3>2, <3>3 DEF busVars
  <2>2. CASE PublishApproved(r)
    BY <2>2, <1>1 DEF PublishApproved, PublishPush, storeVars
  <2>3. CASE ResetToPending(r)
    BY <2>3, <1>1 DEF ResetToPending, SetApprovalStatus, WriteApproval, ApprovalsOnly,
                      storeVars, busVars
  <2>4. QED
    BY <2>1, <2>2, <2>3
<1>3. /\ approval'[a].status \in {"pending", "approved", approval[a].status}
      /\ approval'[a].job = approval[a].job
      /\ \A b \in Approvals : b # a => approval'[b] = approval[b]
  <2>1. CASE UNCHANGED approval
    BY <2>1
  <2>2. ASSUME NEW s \in {"pending", "approved"}, WriteApproval(a, s, approval[a].job)
        PROVE  /\ approval'[a].status = s /\ approval'[a].job = approval[a].job
               /\ \A b \in Approvals : b # a => approval'[b] = approval[b]
    <3>1. approval'[a] = [status |-> s, job |-> approval[a].job]
      BY <2>2, WriteApprovalRows
    <3>2. \A b \in Approvals : b # a => approval'[b] = approval[b]
      BY <2>2, WriteApprovalRows
    <3>3. QED
      BY <3>1, <3>2
  <2>3. QED
    BY <1>2, <2>1, <2>2
<1>4. /\ \A b \in Approvals : b # a => push'[b] = push[b]
      /\ push'[a] = push[a] \/ (push'[a].stage = "sent" /\ push'[a].sent = 1)
  <2>1. push \in [Approvals -> [stage: PushStage, sent: Nat]]
    BY DEF TypeOK, BusTypeOK
  <2>2. CASE push' = push
    BY <2>2
  <2>3. CASE push' = [push EXCEPT ![a] = [stage |-> "sent", sent |-> 1]]
    BY <2>1, <2>3
  <2>4. QED
    BY <1>2, <2>2, <2>3
<1>5. ASSUME NEW j \in Jobs
      PROVE  OpenApprovals(j)' \subseteq OpenApprovals(j)
  BY <1>1, <1>3, <1>4 DEF OpenApprovals
<1>6. PushStages'
  BY <1>4 DEF LifeInv, PushStages
<1>7. \A s \in Resolvers : s # r => resolve'[s] = resolve[s]
  <2>1. PICK next : resolve' = [resolve EXCEPT ![r] = next]
    BY DEF Resolve, PublishApproved, ResetToPending, ResolveGoto, ResolveEnds
  <2>2. QED
    BY <2>1, ResolveMoves
<1>8. /\ resolve'[r].pc # "complete_job"
      /\ Decided(r)' => resolve'[r].decision = "approved"
  <2>1. PICK next : /\ resolve' = [resolve EXCEPT ![r] = next]
                    /\ next.pc # "complete_job"
                    /\ next.pc = "log_decision" => next.decision = "approved"
    BY DEF Resolve, PublishApproved, ResetToPending, ResolveGoto, ResolveEnds, NoResolve,
           OneHandPerPush, InHand, ResolveAt
  <2>2. QED
    BY <2>1, ResolveMoves DEF Decided
<1>9. ASSUME NEW j \in Jobs
      PROVE  Rejections(j)' \subseteq Rejections(j)
  <2>1. \A b \in Approvals : approval'[b].job = approval[b].job
    BY <1>3
  <2>2. \A s \in Resolvers : Decided(s) => resolve[s].approval \in Approvals
    BY ResolveHolds DEF Decided
  <2>3. QED
    BY <1>7, <1>8, <2>1, <2>2 DEF Rejections, Decided, JobOf
<1>10. RejectedCompletes'
  BY <1>7, <1>8 DEF LifeInv, RejectedCompletes
<1>11. QED
  BY <1>2, <1>5, <1>6, <1>9, <1>10, ResolveOnly

(* The job of a rejection that is carried out began nothing meanwhile.     *)
LEMMA CompleteKeepsLife ==
    ASSUME TypeOK, LifeInv, NEW r \in Resolvers, CompleteRejected(r)
    PROVE  LifeInv'
<1> PICK k \in Jobs : k = JobOf(r)
  BY ResolveHolds DEF CompleteRejected, ResolveAt
<1>1. r \in Rejections(k)
  BY DEF Rejections, Decided, CompleteRejected, ResolveAt, LifeInv, RejectedCompletes
<1>2. ~MayBegin(k) /\ ~Beginning(k)
  BY <1>1, BusyBeginsNot DEF LifeInv, NoProspects, MayBegin
<1>3. UNCHANGED <<attempt, push, lifecycle, dispatch, consumer, approval>>
  BY DEF CompleteRejected, UpdateJobStatusOnly, UpdateJobState, JobsOnly, busVars
<1>4. /\ job'[k].status = "completed"
      /\ \A j \in Jobs : j # k => job'[j] = job[j]
  <2>1. PICK row : row.status = "completed" /\ job' = [job EXCEPT ![k] = row]
    BY DEF CompleteRejected, UpdateJobStatusOnly, UpdateJobState
  <2>2. QED
    BY <2>1, WriteJobRow
<1>5. /\ resolve'[r].pc = "idle"
      /\ \A s \in Resolvers : s # r => resolve'[s] = resolve[s]
  <2>1. resolve' = [resolve EXCEPT ![r] = NoResolve] /\ NoResolve.pc = "idle"
    BY DEF CompleteRejected, ResolveEnds, NoResolve
  <2>2. QED
    BY <2>1, ResolveMoves
<1>6. ASSUME NEW j \in Jobs
      PROVE  Life(j)'
  <2>1. Rejections(j)' \subseteq Rejections(j)
    BY <1>3, <1>5, RejectionsStay DEF Decided
  <2>2. MayBegin(j)' => MayBegin(j)
    BY <1>2, <1>3, <1>4 DEF MayBegin, Beginning
  <2>3. FoldsState(j)' = FoldsState(j)
    BY <1>3 DEF FoldsState
  <2>4. QED
    BY <1>3, <2>1, <2>2, <2>3, LifeFrames, LifeKeeps DEF LifeInv
<1>7. BegunProbing'
  <2>1. ASSUME NEW d \in Dispatchers, dispatch[d].pc \in Begun \cup {"mark_probing"}
        PROVE  dispatch[d].job \in Jobs /\ dispatch[d].job # k
    BY <1>2, <2>1, DispatchHolds DEF Beginning, Begun
  <2>2. QED
    BY <1>3, <1>4, <2>1 DEF LifeInv, BegunProbing
<1>8. PushStages' /\ FailuresLast' /\ FailureFolded' /\ StepFitsEvent' /\ RejectedCompletes'
  BY <1>3, <1>5 DEF LifeInv, PushStages, FailuresLast, FailureFolded, StepFitsEvent,
                    RejectedCompletes, Kind, EventJob, Reports
<1>9. QED
  BY <1>6, <1>7, <1>8 DEF LifeInv

LEMMA RequestsKeepLife ==
    ASSUME TypeOK, OneHandPerPush, LifeInv, ResolveNext
    PROVE  LifeInv'
<1> PICK r \in Resolvers : LoadPending(r) \/ ResolveStep(r) \/ ResolveAborts(r)
  BY DEF ResolveNext
<1> USE DEF ResolveAt
<1>1. ASSUME UNCHANGED <<job, busVars, dispatch, consumer, approval>>,
             NEW next, resolve' = [resolve EXCEPT ![r] = next],
             \/ next.pc \notin {"log_decision", "complete_job"}
             \/ /\ Decided(r) /\ next.approval = resolve[r].approval
                /\ next.decision = resolve[r].decision /\ next.decision = "rejected"
      PROVE  LifeInv'
  <2>1. /\ resolve'[r] = next
        /\ \A s \in Resolvers : s # r => resolve'[s] = resolve[s]
    BY <1>1, ResolveMoves
  <2>2. RejectedCompletes'
    BY <1>1, <2>1 DEF LifeInv, RejectedCompletes
  <2>3. PushStages' /\ UNCHANGED <<attempt, lifecycle, push>>
    BY <1>1 DEF LifeInv, PushStages, busVars
  <2>4. ASSUME NEW j \in Jobs
        PROVE  OpenApprovals(j)' \subseteq OpenApprovals(j) /\ Rejections(j)' \subseteq Rejections(j)
    BY <1>1, <2>1, <2>3, LifeFrames, RejectionsStay DEF Decided
  <2>5. QED
    BY <1>1, <2>2, <2>3, <2>4, ResolveOnly
<1>2. CASE LoadPending(r)
  <2>1. UNCHANGED <<job, busVars, dispatch, consumer, approval>>
    BY <1>2 DEF LoadPending, storeVars
  <2>2. PICK b \in Approvals, v \in Decision :
           resolve' = [resolve EXCEPT ![r] = [pc |-> "resolve", approval |-> b, decision |-> v]]
    BY <1>2 DEF LoadPending
  <2>3. QED
    BY <1>1, <2>1, <2>2
<1>3. CASE ResolveConflict(r) \/ CheckDevice(r) \/ PublishApprovedFails(r) \/ ResolveAborts(r)
  <2>1. UNCHANGED <<job, busVars, dispatch, consumer, approval>>
    BY <1>3 DEF ResolveConflict, CheckDevice, PublishApprovedFails, ResolveAborts, storeVars
  <2>2. \/ resolve' = [resolve EXCEPT ![r] = NoResolve]
        \/ \E pc \in {"publish", "reset"} :
               resolve' = [resolve EXCEPT ![r] =
                             [pc |-> pc, approval |-> resolve[r].approval,
                              decision |-> resolve[r].decision]]
    BY <1>3 DEF ResolveConflict, CheckDevice, PublishApprovedFails, ResolveAborts,
                ResolveGoto, ResolveEnds
  <2>3. NoResolve.pc = "idle"
    BY DEF NoResolve
  <2>4. QED
    BY <1>1, <2>1, <2>2, <2>3
<1>4. CASE LogDecision(r)
  <2>1. UNCHANGED <<job, busVars, dispatch, consumer, approval>>
    BY <1>4 DEF LogDecision, InsertJobEvent, EventsOnly
  <2>2. PICK next : /\ resolve' = [resolve EXCEPT ![r] = next]
                    /\ \/ next.pc \notin {"log_decision", "complete_job"}
                       \/ /\ next.approval = resolve[r].approval
                          /\ next.decision = resolve[r].decision /\ next.decision = "rejected"
    BY <1>4 DEF LogDecision, ResolveGoto, ResolveEnds, NoResolve
  <2>3. Decided(r)
    BY <1>4 DEF LogDecision, Decided
  <2>4. QED
    BY <1>1, <2>1, <2>2, <2>3
<1>5. CASE Resolve(r)
  <2>1. resolve[r].decision \in {"approved", "rejected"}
    BY <1>5, ResolveHolds DEF Resolve, Decision
  <2>2. QED
    BY <1>5, <2>1, RejectKeepsLife, ApprovedKeepsLife
<1>6. QED
  BY <1>2, <1>3, <1>4, <1>5, ApprovedKeepsLife, CompleteKeepsLife DEF ResolveStep
-----------------------------------------------------------------------------
(* The edges.                                                              *)
LEMMA EmitReports ==
    ASSUME TypeOK, NEW kind, NEW k \in Jobs, Emit(kind, k)
    PROVE  /\ \A j \in Jobs : \A i \in Reports(j)' :
                  \/ i \in Reports(j)
                  \/ j = k /\ i = Len(lifecycle) + 1
           /\ \A j \in Jobs : \A i \in LeadingReports(j)' :
                  \/ i \in LeadingReports(j)
                  \/ j = k /\ i = Len(lifecycle) + 1 /\ Leads(kind)
           /\ FailuresLast /\ LeadingReports(k) = {} => FailuresLast'
<1>1. CASE UNCHANGED lifecycle
  BY <1>1 DEF Reports, LeadingReports, FailuresLast
<1>2. CASE lifecycle' = Append(lifecycle, [kind |-> kind, job |-> k])
  <2>1. lifecycle \in Seq(Event)
    BY DEF TypeOK, BusTypeOK
  <2>2. PICK n \in Nat : n = Len(lifecycle)
    BY <2>1
  <2>3. /\ DOMAIN lifecycle = 1 .. n /\ DOMAIN lifecycle' = 1 .. n + 1
        /\ lifecycle'[n + 1] = [kind |-> kind, job |-> k]
        /\ \A i \in 1 .. n : lifecycle'[i] = lifecycle[i]
    BY <1>2, <2>1, <2>2
  <2>4. \A i \in 1 .. n + 1 : i \in 1 .. n \/ i = n + 1
    BY <2>2
  <2>5. \A j \in Jobs : \A i \in Reports(j)' :
            \/ i \in Reports(j)
            \/ j = k /\ i = Len(lifecycle) + 1
    BY <2>2, <2>3, <2>4 DEF Reports
  <2>6. \A j \in Jobs : \A i \in LeadingReports(j)' :
            \/ i \in LeadingReports(j)
            \/ j = k /\ i = Len(lifecycle) + 1 /\ Leads(kind)
    BY <2>2, <2>3, <2>4 DEF Reports, LeadingReports
  <2>7. ASSUME FailuresLast, LeadingReports(k) = {},
               NEW i \in 1 .. n + 1, NEW m \in 1 .. n + 1,
               lifecycle'[i].kind = "failed", lifecycle'[m].job = lifecycle'[i].job
        PROVE  m <= i
    <3>1. CASE i \in 1 .. n /\ m \in 1 .. n
      BY <2>3, <2>7, <3>1 DEF FailuresLast
    <3>2. CASE i \in 1 .. n /\ m = n + 1
      <4>1. i \in LeadingReports(k)
        BY <2>3, <2>7, <3>2 DEF LeadingReports, Reports, Leads
      <4>2. QED
        BY <2>7, <4>1
    <3>3. CASE i = n + 1
      BY <2>2, <2>7, <3>3
    <3>4. QED
      BY <2>4, <3>1, <3>2, <3>3
  <2>8. QED
    BY <2>3, <2>5, <2>6, <2>7 DEF FailuresLast
<1>3. QED
  BY <1>1, <1>2 DEF Emit

(* An edge reports of a job that has a run or an open approval, and one    *)
(* that reports what leads further has ended the run, or the push.         *)
LEMMA EdgeReportKeepsLife ==
    ASSUME TypeOK, LifeInv, NEW k \in Jobs, NEW kind, Emit(kind, k),
           UNCHANGED <<storeVars, taskVars>>, PushStages',
           \A j \in Jobs : /\ Runs(j)' \subseteq Runs(j)
                           /\ OpenApprovals(j)' \subseteq OpenApprovals(j),
           Runs(k) # {} \/ OpenApprovals(k) # {},
           Leads(kind) => Runs(k)' = {} /\ OpenApprovals(k)' = {}
    PROVE  LifeInv'
<1>1. /\ Life(k)
      /\ LeadingReports(k) = {} /\ Folding(k) = {} /\ Rejections(k) = {}
  BY DEF LifeInv, Life, OneAlone, Alone
<1>2. ASSUME NEW j \in Jobs
      PROVE  /\ Folding(j)' = Folding(j) /\ Rejections(j)' = Rejections(j)
             /\ MayBegin(j)' = MayBegin(j) /\ FoldsState(j)' = FoldsState(j)
  BY LifeFrames DEF storeVars, taskVars, FoldsState
<1>3. ASSUME NEW j \in Jobs, j # k
      PROVE  Life(j)'
  <2>1. Reports(j)' \subseteq Reports(j) /\ LeadingReports(j)' \subseteq LeadingReports(j)
    BY <1>3, EmitReports
  <2>2. QED
    BY <1>2, <2>1, LifeKeeps DEF LifeInv
<1>4. Life(k)'
  <2>1. LeadingReports(k)' \subseteq IF Leads(kind) THEN {Len(lifecycle) + 1} ELSE {}
    BY <1>1, EmitReports
  <2>2. ~MayBegin(k)'
    BY <1>1, <1>2, BusyBeginsNot DEF NoProspects
  <2>3. CASE Leads(kind)
    <3>1. OneAlone(k)'
      BY <1>1, <1>2, <2>1, <2>3 DEF OneAlone, Alone
    <3>2. QED
      BY <2>2, <3>1 DEF Life
  <2>4. CASE ~Leads(kind)
    <3>1. OneAlone(k)'
      BY <1>1, <1>2, <2>1, <2>4, FewerAlone DEF Life, OneAlone
    <3>2. QED
      BY <2>2, <3>1 DEF Life
  <2>5. QED
    BY <2>3, <2>4
<1>5. FailureFolded'
  <2>1. SUFFICES ASSUME consumer.pc = "update_state", Kind = "failed"
                 PROVE  Reports(EventJob)' = {}
    BY DEF FailureFolded, taskVars, Kind, EventJob, Reports
  <2>2. EventJob \in Jobs /\ Reports(EventJob) = {}
    BY <2>1, ConsumerHolds DEF LifeInv, FailureFolded
  <2>3. EventJob # k
    BY <1>1, <2>1 DEF Folding, Leads, Kind, EventJob
  <2>4. PICK j \in Jobs : j = EventJob
    BY <2>2
  <2>5. Reports(j)' = {}
    BY <2>2, <2>3, <2>4, EmitReports
  <2>6. QED
    BY <2>4, <2>5 DEF EventJob, taskVars, Reports
<1>6. FailuresLast'
  BY <1>1, EmitReports DEF LifeInv
<1>7. BegunProbing' /\ StepFitsEvent' /\ RejectedCompletes'
  BY DEF LifeInv, BegunProbing, StepFitsEvent, RejectedCompletes, Kind, storeVars, taskVars
<1>8. QED
  BY <1>3, <1>4, <1>5, <1>6, <1>7 DEF LifeInv

Going == {"sent", "running", "worked"}

LEMMA RunGoesOn ==
    ASSUME TypeOK, LifeInv, NEW n \in Attempts, NEW from \in Going, NEW to \in AttemptStage,
           Advance(n, from, to)
    PROVE  /\ attempt[n].job \in Jobs /\ Runs(attempt[n].job) # {}
           /\ \A j \in Jobs : Runs(j)' \subseteq Runs(j)
           /\ to \notin Going => Runs(attempt[n].job)' = {}
<1>1. PICK k \in Jobs : k = attempt[n].job
  BY AdvanceTypes DEF Going
<1>2. /\ attempt[n].stage = from /\ attempt'[n].stage = to /\ attempt'[n].job = k
      /\ \A m \in Attempts : m # n => attempt'[m] = attempt[m]
  BY <1>1 DEF Advance, TypeOK, BusTypeOK
<1>3. n \in Runs(k)
  BY <1>1, <1>2 DEF Runs, Going
<1>4. \A m \in Runs(k) : m = n
  BY <1>3 DEF LifeInv, Life, OneAlone, Alone
<1>5. \A j \in Jobs : Runs(j)' \subseteq Runs(j)
  BY <1>1, <1>2 DEF Runs, Going
<1>6. to \notin Going => Runs(k)' = {}
  <2>1. to \notin Going => n \notin Runs(k)'
    BY <1>2 DEF Runs, Going
  <2>2. QED
    BY <1>4, <1>5, <2>1
<1>7. Runs(k)' = {m \in Attempts : attempt'[m].job = k /\ attempt'[m].stage \in Going}
  BY DEF Runs, Going
<1>8. Runs(attempt[n].job)' = {m \in Attempts : attempt'[m].job = k /\ attempt'[m].stage \in Going}
  BY <1>1, <1>2 DEF Runs, Going
<1>9. QED
  BY <1>1, <1>3, <1>5, <1>6, <1>7, <1>8

LEMMA PushGoesOn ==
    ASSUME TypeOK, OneHandPerPush, LifeInv, NEW a \in Approvals, NEW from \in {"sent", "pushing"},
           NEW to \in {"pushing", "over", "lost"}, AdvancePush(a, from, to), UNCHANGED approval
    PROVE  /\ approval[a].job \in Jobs /\ OpenApprovals(approval[a].job) # {}
           /\ \A j \in Jobs : OpenApprovals(j)' \subseteq OpenApprovals(j)
           /\ to # "pushing" => OpenApprovals(approval[a].job)' = {}
           /\ PushStages'
<1>1. PICK k \in Jobs : k = approval[a].job
  BY AdvancePushTypes DEF PushStage
<1>2. /\ push[a].stage = from /\ push'[a].stage = to /\ push'[a].sent = push[a].sent
      /\ \A b \in Approvals : b # a => push'[b] = push[b]
  BY DEF AdvancePush, TypeOK, BusTypeOK
<1>3. approval[a].status = "approved"
  BY <1>2 DEF OneHandPerPush, PushedStaysApproved, LifeInv, PushStages, TypeOK, BusTypeOK
<1>4. a \in OpenApprovals(k)
  BY <1>1, <1>2, <1>3 DEF OpenApprovals
<1>5. \A b \in OpenApprovals(k) : b = a
  BY <1>4 DEF LifeInv, Life, OneAlone, Alone
<1>6. \A j \in Jobs : OpenApprovals(j)' \subseteq OpenApprovals(j)
  BY <1>1, <1>2, <1>3 DEF OpenApprovals
<1>7. to # "pushing" => OpenApprovals(k)' = {}
  <2>1. to # "pushing" => a \notin OpenApprovals(k)'
    BY <1>2 DEF OpenApprovals
  <2>2. QED
    BY <1>5, <1>6, <2>1
<1>8. PushStages'
  BY <1>2 DEF LifeInv, PushStages
<1>9. OpenApprovals(approval[a].job)' = OpenApprovals(k)'
  BY <1>1 DEF OpenApprovals
<1>10. QED
  BY <1>1, <1>4, <1>6, <1>7, <1>8, <1>9

LEMMA EdgesKeepLife ==
    ASSUME TypeOK, OneHandPerPush, LifeInv, EdgeNext
    PROVE  LifeInv'
<1>1. ASSUME NEW n \in Attempts, NEW from \in Going, NEW to \in AttemptStage,
             Advance(n, from, to), NEW kind, Emit(kind, attempt[n].job),
             Leads(kind) => to \notin Going, UNCHANGED <<storeVars, push, taskVars>>
      PROVE  LifeInv'
  <2>1. PICK k \in Jobs : k = attempt[n].job
    BY <1>1, RunGoesOn
  <2>2. /\ Runs(k) # {} /\ \A j \in Jobs : Runs(j)' \subseteq Runs(j)
        /\ to \notin Going => Runs(k)' = {}
    <3>1. Runs(attempt[n].job)' = Runs(k)'
      <4>1. attempt'[n].job = k
        BY <1>1, <2>1 DEF Advance, TypeOK, BusTypeOK
      <4>2. QED
        BY <2>1, <4>1 DEF Runs
    <3>2. QED
      BY <1>1, <2>1, <3>1, RunGoesOn
  <2>3. \A j \in Jobs : OpenApprovals(j)' = OpenApprovals(j)
    BY <1>1, LifeFrames DEF storeVars
  <2>4. OpenApprovals(k) = {} /\ PushStages'
    BY <1>1, <2>2 DEF LifeInv, Life, OneAlone, Alone, PushStages
  <2>5. QED
    BY <1>1, <2>1, <2>2, <2>3, <2>4, EdgeReportKeepsLife
<1>2. ASSUME NEW a \in Approvals, NEW from \in {"sent", "pushing"},
             NEW to \in {"pushing", "over"}, AdvancePush(a, from, to),
             NEW kind, Emit(kind, approval[a].job), Leads(kind) => to # "pushing",
             UNCHANGED <<storeVars, attempt, taskVars>>
      PROVE  LifeInv'
  <2>1. UNCHANGED approval
    BY <1>2 DEF storeVars
  <2>2. PICK k \in Jobs : k = approval[a].job
    BY <1>2, <2>1, PushGoesOn
  <2>3. /\ OpenApprovals(k) # {} /\ PushStages'
        /\ \A j \in Jobs : OpenApprovals(j)' \subseteq OpenApprovals(j)
        /\ to # "pushing" => OpenApprovals(k)' = {}
    <3>1. OpenApprovals(approval[a].job)' = OpenApprovals(k)'
      BY <2>1, <2>2 DEF OpenApprovals
    <3>2. QED
      BY <1>2, <2>1, <2>2, <3>1, PushGoesOn
  <2>4. \A j \in Jobs : Runs(j)' = Runs(j)
    BY <1>2, LifeFrames
  <2>5. Runs(k) = {}
    BY <2>3 DEF LifeInv, Life, OneAlone, Alone
  <2>6. QED
    BY <1>2, <2>2, <2>3, <2>4, <2>5, EdgeReportKeepsLife
<1>3. ASSUME NEW n \in Attempts,
             EdgeStarts(n) \/ EdgeEnds(n) \/ EdgeCompletesForPush(n) \/ EdgeAsksForApproval(n)
      PROVE  LifeInv'
  <2>1. CASE EdgeStarts(n)
    BY <1>1, <2>1 DEF EdgeStarts, AttemptStage, Going, Leads
  <2>2. CASE EdgeEnds(n)
    <3>1. PICK kind \in Outcomes : Emit(kind, attempt[n].job)
      BY <2>2 DEF EdgeEnds
    <3>2. QED
      BY <1>1, <2>2, <3>1 DEF EdgeEnds, AttemptStage, Going
  <2>3. CASE EdgeCompletesForPush(n)
    BY <1>1, <2>3 DEF EdgeCompletesForPush, AttemptStage, Going, Leads
  <2>4. CASE EdgeAsksForApproval(n)
    BY <1>1, <2>4 DEF EdgeAsksForApproval, AttemptStage, Going
  <2>5. QED
    BY <1>3, <2>1, <2>2, <2>3, <2>4
<1>4. ASSUME NEW a \in Approvals, EdgeStartsPush(a) \/ EdgeEndsPush(a)
      PROVE  LifeInv'
  <2>1. CASE EdgeStartsPush(a)
    BY <1>2, <2>1 DEF EdgeStartsPush, Leads
  <2>2. CASE EdgeEndsPush(a)
    BY <1>2, <2>2 DEF EdgeEndsPush
  <2>3. QED
    BY <1>4, <2>1, <2>2
<1>5. CASE CommandLost
  <2>1. /\ UNCHANGED <<storeVars, lifecycle, taskVars>>
        /\ PushStages'
        /\ \A j \in Jobs : Runs(j)' \subseteq Runs(j) /\ OpenApprovals(j)' \subseteq OpenApprovals(j)
    <3>1. CASE \E n \in Attempts : Advance(n, "sent", "lost") /\ UNCHANGED push
      <4>1. PushStages'
        BY <3>1 DEF LifeInv, PushStages
      <4>2. \A j \in Jobs : Runs(j)' \subseteq Runs(j)
        BY <3>1, RunGoesOn DEF Going, AttemptStage
      <4>3. QED
        BY <1>5, <3>1, <4>1, <4>2, LifeFrames DEF CommandLost, storeVars
    <3>2. CASE \E a \in Approvals : AdvancePush(a, "sent", "lost") /\ UNCHANGED attempt
      <4>1. UNCHANGED approval
        BY <1>5 DEF CommandLost, storeVars
      <4>2. PushStages' /\ \A j \in Jobs : OpenApprovals(j)' \subseteq OpenApprovals(j)
        BY <3>2, <4>1, PushGoesOn
      <4>3. QED
        BY <1>5, <3>2, <4>2, LifeFrames DEF CommandLost
    <3>3. QED
      BY <1>5, <3>1, <3>2 DEF CommandLost
  <2>2. ASSUME NEW j \in Jobs
        PROVE  Life(j)'
    <3>1. /\ Folding(j)' = Folding(j) /\ Rejections(j)' = Rejections(j)
          /\ Reports(j)' = Reports(j) /\ LeadingReports(j)' = LeadingReports(j)
          /\ MayBegin(j)' = MayBegin(j) /\ FoldsState(j)' = FoldsState(j)
      BY <2>1, LifeFrames DEF storeVars, taskVars, FoldsState
    <3>2. QED
      BY <2>1, <3>1, LifeKeeps DEF LifeInv
  <2>3. /\ FailuresLast' /\ FailureFolded' /\ BegunProbing'
        /\ StepFitsEvent' /\ RejectedCompletes'
    BY <2>1 DEF LifeInv, FailuresLast, FailureFolded, BegunProbing, StepFitsEvent,
                RejectedCompletes, Kind, EventJob, Reports, storeVars, taskVars
  <2>4. QED
    BY <2>1, <2>2, <2>3 DEF LifeInv
<1>6. QED
  BY <1>3, <1>4, <1>5 DEF EdgeNext
-----------------------------------------------------------------------------
LEMMA StepKeepsLife ==
    TypeOK /\ OneHandPerPush /\ DispatchInTurn /\ LifeInv /\ [Next]_vars => LifeInv'
<1> SUFFICES ASSUME TypeOK, OneHandPerPush, DispatchInTurn, LifeInv, [Next]_vars
             PROVE  LifeInv'
  OBVIOUS
<1>1. CASE DispatchNext
  BY <1>1, DispatchKeepsLife, PublishBeginsLife DEF DispatchNext
<1>2. CASE TrustChanges \/ UNCHANGED vars
  <2>1. UNCHANGED <<busVars, taskVars, job, approval>>
    BY <1>2 DEF TrustChanges, vars, storeVars
  <2>2. ASSUME NEW j \in Jobs
        PROVE  Life(j)'
    <3>1. FoldsState(j)' = FoldsState(j)
      BY <2>1 DEF taskVars, FoldsState
    <3>2. QED
      BY <2>1, <3>1, LifeFrames, LifeKeeps DEF LifeInv, busVars, taskVars
  <2>3. /\ PushStages' /\ FailuresLast' /\ FailureFolded' /\ BegunProbing'
        /\ StepFitsEvent' /\ RejectedCompletes'
    BY <2>1 DEF LifeInv, PushStages, FailuresLast, FailureFolded, BegunProbing, StepFitsEvent,
                RejectedCompletes, Kind, EventJob, Reports, busVars, taskVars
  <2>4. QED
    BY <2>2, <2>3 DEF LifeInv
<1>3. CASE Crash
  <2>1. /\ UNCHANGED <<job, approval, attempt, push>> /\ lifecycle' = <<>>
        /\ consumer'.pc = "idle"
        /\ \A d \in Dispatchers : dispatch'[d].pc = "idle" /\ dispatch'[d].job = NoJob
        /\ \A r \in Resolvers : resolve'[r].pc = "idle"
    BY <1>3 DEF Crash, storeVars, ConsumerIdle, NoDispatch, NoResolve
  <2>2. ASSUME NEW j \in Jobs
        PROVE  Life(j)'
    <3>1. /\ Runs(j)' = Runs(j) /\ OpenApprovals(j)' = OpenApprovals(j)
      BY <2>1, LifeFrames
    <3>2. /\ Reports(j)' = {} /\ LeadingReports(j)' = {} /\ Folding(j)' = {}
          /\ Rejections(j)' = {} /\ ~FoldsState(j)'
      BY <2>1 DEF Reports, LeadingReports, Folding, Rejections, Decided, FoldsState
    <3>3. MayBegin(j)' => MayBegin(j)
      BY <2>1, StoreAssumption DEF MayBegin, Beginning
    <3>4. QED
      BY <3>1, <3>2, <3>3, LifeKeeps DEF LifeInv
  <2>3. /\ PushStages' /\ FailuresLast' /\ FailureFolded' /\ BegunProbing'
        /\ StepFitsEvent' /\ RejectedCompletes'
    BY <2>1 DEF LifeInv, PushStages, FailuresLast, FailureFolded, BegunProbing, Begun,
                StepFitsEvent, RejectedCompletes
  <2>4. QED
    BY <2>2, <2>3 DEF LifeInv
<1>4. QED
  BY <1>1, <1>2, <1>3, RequestsKeepLife, ConsumerKeepsLife, EdgesKeepLife DEF Next

(* While the dispatch requests of each job come one at a time, nothing of  *)
(* an earlier dispatch can still happen to a job that begins a new one:    *)
(* the invariant behind the next two theorems.                             *)
THEOREM OneLife == Spec /\ []DispatchInTurn => []OneLifeAtATime
<1>1. LifeInv => OneLifeAtATime
  BY LivesAre DEF LifeInv
<1>2. QED
  BY <1>1, InitLife, StepKeepsLife, InitTypes, StepTypes, InitInOneHand, StepInOneHand, PTL
     DEF Spec

(* A job is written probing by the insert of its row, or by a request that *)
(* found it failed or legacy pending and has it in hand.                   *)
LEMMA ProbingFromFailed ==
    ASSUME TypeOK, LifeInv, [Next]_vars, NEW j \in Jobs,
           job[j].status \notin {"absent", "pending", "failed", "probing"}
    PROVE  job'[j].status # "probing"
<1>1. ASSUME NEW k \in Jobs, NEW row, job' = [job EXCEPT ![k] = row],
             \/ row.status # "probing"
             \/ job[k].status \in {"absent", "pending", "failed", "probing"}
      PROVE  job'[j].status # "probing"
  <2>1. job'[k] = row /\ (j # k => job'[j] = job[j])
    BY <1>1, WriteJobRow
  <2>2. QED
    BY <1>1, <2>1
<1>2. UNCHANGED job => job'[j].status # "probing"
  OBVIOUS
<1>3. ASSUME NEW d \in Dispatchers,
             CreateJob(d) \/ RetryJob(d) \/ DispatchStep(d) \/ DispatchAborts(d)
      PROVE  job'[j].status # "probing"
  <2> USE DEF At
  <2>1. CASE CreateJob(d)
    <3>1. PICK k \in Jobs, v \in SelectableDevices(NoDevice) :
             job[k].status = "absent" /\ InsertJob(k, v)
      BY <2>1 DEF CreateJob
    <3>2. QED
      BY <1>1, <3>1 DEF InsertJob
  <2>2. CASE MarkProbing(d) \/ MarkUnavailable(d) \/ MarkPublishFailed(d) \/ MarkDispatched(d)
    <3>1. dispatch[d].job \in Jobs
      BY <2>2, DispatchHolds DEF MarkProbing, MarkUnavailable, MarkPublishFailed, MarkDispatched
    <3>2. PICK row : /\ job' = [job EXCEPT ![dispatch[d].job] = row]
                     /\ row.status = "probing" => dispatch[d].pc = "mark_probing"
      BY <2>2 DEF MarkProbing, MarkUnavailable, MarkPublishFailed, MarkDispatched, UpdateJobState
    <3>3. dispatch[d].pc = "mark_probing" =>
              job[dispatch[d].job].status \in {"pending", "failed", "probing"}
      BY DEF LifeInv, BegunProbing
    <3>4. QED
      BY <1>1, <3>1, <3>2, <3>3
  <2>3. CASE ~CreateJob(d) /\ ~(MarkProbing(d) \/ MarkUnavailable(d) \/ MarkPublishFailed(d)
                                \/ MarkDispatched(d))
    <3>1. UNCHANGED job
      BY <1>3, <2>3 DEF RetryJob, DispatchStep, DispatchAborts, LogCreated, ProbeAnswered,
         ProbeFailed, Publish, PublishFails, InsertJobEvent, EventsOnly, storeVars
    <3>2. QED
      BY <1>2, <3>1
  <2>4. QED
    BY <2>1, <2>2, <2>3
<1>4. ASSUME NEW r \in Resolvers, LoadPending(r) \/ ResolveStep(r) \/ ResolveAborts(r)
      PROVE  job'[j].status # "probing"
  <2>1. CASE CompleteRejected(r)
    <3>1. JobOf(r) \in Jobs
      BY <2>1, ResolveHolds DEF CompleteRejected, ResolveAt
    <3>2. PICK row : row.status = "completed" /\ job' = [job EXCEPT ![JobOf(r)] = row]
      BY <2>1 DEF CompleteRejected, UpdateJobStatusOnly, UpdateJobState
    <3>3. QED
      BY <1>1, <3>1, <3>2
  <2>2. CASE ~CompleteRejected(r)
    <3>1. UNCHANGED job
      BY <1>4, <2>2 DEF LoadPending, ResolveStep, ResolveAborts, Resolve, ResolveConflict,
         CheckDevice, PublishApproved, PublishApprovedFails, ResetToPending, LogDecision,
         SetApprovalStatus, WriteApproval, ApprovalsOnly, InsertJobEvent, EventsOnly, storeVars
    <3>2. QED
      BY <1>2, <3>1
  <2>3. QED
    BY <2>1, <2>2
<1>5. CASE FoldState
  <2>1. EventJob \in Jobs
    BY <1>5, ConsumerHolds DEF FoldState, ConsumerAt
  <2>2. PICK row : row.status = StatusOf(Kind) /\ job' = [job EXCEPT ![EventJob] = row]
    BY <1>5 DEF FoldState, UpdateJobState
  <2>3. StatusOf(Kind) # "probing"
    BY DEF StatusOf
  <2>4. QED
    BY <1>1, <2>1, <2>2, <2>3
<1>6. CASE ConsumerNext /\ ~FoldState
  BY <1>2, <1>6, ConsumerLeaves
<1>7. CASE EdgeNext \/ TrustChanges \/ Crash \/ UNCHANGED vars
  BY <1>2, <1>7, EdgeLeavesSent DEF TrustChanges, Crash, vars, storeVars
<1>8. QED
  BY <1>3, <1>4, <1>5, <1>6, <1>7 DEF Next, DispatchNext, ResolveNext

(* Under the same condition no run in progress or done is dispatched a     *)
(* second time, whatever else fails: the race of two retries is the only   *)
(* way to break what retry_job_dispatch promises.                          *)
THEOREM RetriesInTurn == Spec /\ []DispatchInTurn => RetryOnlyFailed
<1>1. ASSUME TypeOK, LifeInv, [Next]_vars
      PROVE  [\A j \in Jobs : job[j].status \notin {"absent", "pending", "failed", "probing"} =>
                  job'[j].status # "probing"]_vars
  BY <1>1, ProbingFromFailed
<1>2. QED
  BY <1>1, InitLife, StepKeepsLife, InitTypes, StepTypes, InitInOneHand, StepInOneHand, PTL
     DEF Spec, RetryOnlyFailed
-----------------------------------------------------------------------------
(* While requests run to their end, an approval that is approved and not   *)
(* pushed is in some request's hands: those who let go of it push it or    *)
(* give it back, and giving back meets no other pending approval, which    *)
(* would be a second prospect of the job.                                  *)
Taken(a) == approval[a].status = "approved" /\ push[a].sent = 0
Held(a) == \E r \in Resolvers : InHand(r) /\ resolve[r].approval = a

LEMMA ResetIsFree ==
    ASSUME TypeOK, OneHandPerPush, LifeInv, NEW r \in Resolvers, ResetToPending(r)
    PROVE  PendingIndexFree(JobOf(r))
<1> PICK a \in Approvals : a = resolve[r].approval
  BY ResolveHolds DEF ResetToPending, ResolveAt
<1> PICK k \in Jobs : k = JobOf(r)
  BY ResolveHolds DEF ResetToPending, ResolveAt
<1>1. approval[a].status = "approved" /\ push[a].sent = 0 /\ approval[a].job = k
  BY DEF ResetToPending, ResolveAt, OneHandPerPush, InHand, JobOf
<1>2. a \in OpenApprovals(k)
  BY <1>1 DEF OpenApprovals, LifeInv, PushStages
<1>3. ASSUME NEW b \in Approvals, approval[b].status = "pending", approval[b].job = k
      PROVE  FALSE
  <2>1. push[b].sent = 0
    BY <1>3 DEF OneHandPerPush, PushedStaysApproved, TypeOK, BusTypeOK
  <2>2. b \in OpenApprovals(k)
    BY <1>3, <2>1 DEF OpenApprovals, LifeInv, PushStages
  <2>3. b = a
    BY <1>2, <2>2 DEF LifeInv, Life, OneAlone, Alone
  <2>4. QED
    BY <1>1, <1>3, <2>3
<1>4. QED
  BY <1>3 DEF PendingIndexFree, PendingFor

LEMMA StaysHeld ==
    ASSUME TypeOK, ApprovedIsInHand, NEW r \in Resolvers,
           NEW next, resolve' = [resolve EXCEPT ![r] = next],
           \A a \in Approvals : Taken(a)' =>
               \/ InHand(r)' /\ resolve'[r].approval = a
               \/ Taken(a) /\ ~(InHand(r) /\ resolve[r].approval = a)
    PROVE  ApprovedIsInHand'
<1>1. \A s \in Resolvers : s # r => resolve'[s] = resolve[s]
  BY ResolveMoves
<1>2. SUFFICES ASSUME NEW a \in Approvals, Taken(a)'
               PROVE  Held(a)'
  BY DEF ApprovedIsInHand, Taken, Held
<1>3. CASE InHand(r)' /\ resolve'[r].approval = a
  BY <1>3 DEF Held
<1>4. CASE Taken(a) /\ ~(InHand(r) /\ resolve[r].approval = a)
  <2>1. PICK s \in Resolvers : InHand(s) /\ resolve[s].approval = a
    BY <1>4 DEF ApprovedIsInHand, Taken
  <2>2. resolve'[s] = resolve[s]
    BY <1>1, <1>4, <2>1
  <2>3. QED
    BY <2>1, <2>2 DEF Held, InHand
<1>5. QED
  BY <1>2, <1>3, <1>4

LEMMA RequestsHoldOn ==
    ASSUME TypeOK, OneHandPerPush, LifeInv, ApprovedIsInHand, "abort" \notin Failures,
           NEW r \in Resolvers, LoadPending(r) \/ ResolveStep(r) \/ ResolveAborts(r)
    PROVE  ApprovedIsInHand'
<1> USE DEF ResolveAt
<1>1. ~ResolveAborts(r)
  BY DEF ResolveAborts
<1>2. CASE LoadPending(r)
  <2>1. PICK b \in Approvals, v \in Decision :
           resolve' = [resolve EXCEPT ![r] = [pc |-> "resolve", approval |-> b, decision |-> v]]
    BY <1>2 DEF LoadPending
  <2>2. UNCHANGED <<approval, push>> /\ ~InHand(r)
    BY <1>2 DEF LoadPending, storeVars, busVars, InHand
  <2>3. QED
    BY <2>1, <2>2, StaysHeld DEF Taken
<1>3. CASE ResolveConflict(r) \/ LogDecision(r) \/ CompleteRejected(r)
  <2>1. PICK next : resolve' = [resolve EXCEPT ![r] = next]
    BY <1>3 DEF ResolveConflict, LogDecision, CompleteRejected, ResolveEnds, ResolveGoto
  <2>2. UNCHANGED <<approval, push>> /\ ~InHand(r)
    BY <1>3 DEF ResolveConflict, LogDecision, CompleteRejected, InsertJobEvent, EventsOnly,
                UpdateJobStatusOnly, UpdateJobState, JobsOnly, storeVars, busVars, InHand
  <2>3. QED
    BY <2>1, <2>2, StaysHeld DEF Taken
<1>4. CASE CheckDevice(r) \/ PublishApprovedFails(r)
  <2>1. PICK pc \in {"publish", "reset"} :
           resolve' = [resolve EXCEPT ![r] =
                         [pc |-> pc, approval |-> resolve[r].approval,
                          decision |-> resolve[r].decision]]
    BY <1>4 DEF CheckDevice, PublishApprovedFails, ResolveGoto
  <2>2. UNCHANGED <<approval, push>>
    BY <1>4 DEF CheckDevice, PublishApprovedFails, storeVars, busVars
  <2>3. resolve'[r].pc = pc /\ resolve'[r].approval = resolve[r].approval
    BY <2>1 DEF TypeOK, ResolveTypeOK
  <2>4. QED
    BY <2>1, <2>2, <2>3, StaysHeld DEF Taken, InHand
<1> PICK a : a = resolve[r].approval
  OBVIOUS
<1>5. resolve[r].pc # "idle" => a \in Approvals
  BY ResolveHolds
<1>6. CASE Resolve(r)
  <2>1. /\ \A b \in Approvals : b # a => approval'[b] = approval[b]
        /\ approval'[a].status = resolve[r].decision
    <3>1. WriteApproval(a, resolve[r].decision, approval[a].job)
      BY <1>6 DEF Resolve, SetApprovalStatus
    <3>2. approval'[a] = [status |-> resolve[r].decision, job |-> approval[a].job]
      BY <1>5, <1>6, <3>1, WriteApprovalRows DEF Resolve
    <3>3. QED
      BY <1>5, <1>6, <3>1, <3>2, WriteApprovalRows DEF Resolve
  <2>2. UNCHANGED push /\ ~InHand(r)
    BY <1>6 DEF Resolve, busVars, InHand
  <2>3. PICK pc : /\ resolve' = [resolve EXCEPT ![r] =
                                   [pc |-> pc, approval |-> a, decision |-> resolve[r].decision]]
                  /\ resolve[r].decision = "approved" => pc = "check_device"
    BY <1>6 DEF Resolve, ResolveGoto
  <2>4. resolve'[r].pc = pc /\ resolve'[r].approval = a
    BY <2>3 DEF TypeOK, ResolveTypeOK
  <2>5. \A b \in Approvals : Taken(b)' => Taken(b) \/ (InHand(r)' /\ resolve'[r].approval = b)
    BY <2>1, <2>2, <2>3, <2>4 DEF Taken, InHand
  <2>6. QED
    BY <2>2, <2>3, <2>5, StaysHeld
<1>7. CASE PublishApproved(r)
  <2>1. UNCHANGED approval /\ InHand(r)
    BY <1>7 DEF PublishApproved, storeVars, InHand
  <2>2. push[a].sent = 0
    BY <2>1 DEF OneHandPerPush
  <2>3. /\ \A b \in Approvals : b # a => push'[b] = push[b]
        /\ push'[a].sent = 1
    <3>1. push' = [push EXCEPT ![a] = [stage |-> "sent", sent |-> push[a].sent + 1]]
      BY <1>7 DEF PublishApproved, PublishPush
    <3>2. QED
      BY <1>5, <1>7, <2>2, <3>1 DEF PublishApproved, TypeOK, BusTypeOK
  <2>4. PICK next : resolve' = [resolve EXCEPT ![r] = next]
    BY <1>7 DEF PublishApproved, ResolveGoto
  <2>5. \A b \in Approvals : Taken(b)' => Taken(b) /\ b # a
    BY <2>1, <2>3 DEF Taken
  <2>6. QED
    BY <2>4, <2>5, StaysHeld
<1>8. CASE ResetToPending(r)
  <2>1. WriteApproval(a, "pending", approval[a].job) /\ UNCHANGED push
    BY <1>8, ResetIsFree DEF ResetToPending, SetApprovalStatus, busVars
  <2>2. /\ \A b \in Approvals : b # a => approval'[b] = approval[b]
        /\ approval'[a].status = "pending"
    <3>1. approval'[a] = [status |-> "pending", job |-> approval[a].job]
      BY <1>5, <1>8, <2>1, WriteApprovalRows DEF ResetToPending
    <3>2. QED
      BY <1>5, <1>8, <2>1, <3>1, WriteApprovalRows DEF ResetToPending
  <2>3. resolve' = [resolve EXCEPT ![r] = NoResolve]
    BY <1>8 DEF ResetToPending, ResolveEnds
  <2>4. \A b \in Approvals : Taken(b)' => Taken(b) /\ b # a
    BY <2>1, <2>2 DEF Taken
  <2>5. QED
    BY <2>3, <2>4, StaysHeld
<1>9. QED
  BY <1>1, <1>2, <1>3, <1>4, <1>6, <1>7, <1>8 DEF ResolveStep

LEMMA StepHoldsOn ==
    ASSUME TypeOK, OneHandPerPush, LifeInv, ApprovedIsInHand, [Next]_vars,
           "crash" \notin Failures, "abort" \notin Failures
    PROVE  ApprovedIsInHand'
<1>1. CASE ResolveNext
  BY <1>1, RequestsHoldOn DEF ResolveNext
<1>2. ASSUME UNCHANGED resolve, \A a \in Approvals : Taken(a)' => Taken(a)
      PROVE  ApprovedIsInHand'
  BY <1>2 DEF ApprovedIsInHand, Taken, InHand
<1>3. CASE DispatchNext
  <2>1. UNCHANGED resolve
    BY <1>3 DEF DispatchNext, CreateJob, RetryJob, DispatchStep, DispatchAborts, LogCreated,
       MarkProbing, ProbeAnswered, ProbeFailed, MarkUnavailable, Publish, PublishFails,
       MarkPublishFailed, MarkDispatched
  <2>2. QED
    BY <1>2, <1>3, <2>1, DispatchLeavesApprovals DEF Taken
<1>4. CASE ConsumerNext
  <2>1. CASE InsertApproval
    <3>1. PICK a \in Approvals : WriteApproval(a, "pending", EventJob)
      BY <2>1 DEF InsertApproval, InsertPendingApproval
    <3>2. UNCHANGED <<push, resolve>>
      BY <2>1 DEF InsertApproval, busVars
    <3>3. approval'[a] = [status |-> "pending", job |-> EventJob]
      BY <3>1, WriteApprovalRows
    <3>4. \A b \in Approvals : b # a => approval'[b] = approval[b]
      BY <3>1, WriteApprovalRows
    <3>5. QED
      BY <1>2, <3>2, <3>3, <3>4 DEF Taken
  <2>2. CASE ~InsertApproval
    <3>1. UNCHANGED <<approval, push, resolve>>
      BY <1>4, <2>2 DEF ConsumerNext, ConsumerStep, TakeEvent, FoldState, StoreSummary,
         PointJobToSummary, FindPending, InsertApprovalRefused, PostReply, ConsumerDropsEvent,
         UpdateJobState, InsertSummary, PointToSummary, PostReplyOnce, AddReply, JobsOnly,
         SummariesOnly, MessagesOnly, storeVars, busVars
    <3>2. QED
      BY <1>2, <3>1 DEF Taken
  <2>3. QED
    BY <2>1, <2>2
<1>5. CASE EdgeNext
  BY <1>2, <1>5, EdgeLeavesSent DEF Taken, storeVars
<1>6. CASE TrustChanges \/ UNCHANGED vars
  BY <1>2, <1>6 DEF TrustChanges, vars, storeVars, busVars, taskVars, Taken
<1>7. QED
  BY <1>1, <1>3, <1>4, <1>5, <1>6 DEF Next, Crash

(* While the process stays up, no request is aborted and the dispatches of *)
(* each job come one at a time, no approval is left approved with no push  *)
(* and nobody to send it, however many operators answer it and whatever    *)
(* publish, edge or statement of the consumer fails.                       *)
THEOREM ApprovalsStayInHand ==
    ASSUME "crash" \notin Failures, "abort" \notin Failures
    PROVE  Spec /\ []DispatchInTurn => []ApprovedIsInHand
<1>1. Init => ApprovedIsInHand
  BY DEF Init, StoreInit, NoApprovalRow, ApprovedIsInHand
<1>2. TypeOK /\ OneHandPerPush /\ LifeInv /\ ApprovedIsInHand /\ [Next]_vars => ApprovedIsInHand'
  BY StepHoldsOn
<1>3. QED
  BY <1>1, <1>2, InitLife, StepKeepsLife, InitTypes, StepTypes, InitInOneHand, StepInOneHand,
     PTL DEF Spec
-----------------------------------------------------------------------------
(* Jobs that wait for approval *)

Waits(j) ==
    \/ \E a \in Approvals : approval[a].job = j /\ Answerable(a)
    \/ WaitEnds(j)

(* What the wait of a job depends on.                                      *)
LEMMA WaitsOn ==
    ASSUME NEW j \in Jobs, UNCHANGED <<approval, push, lifecycle, resolve, consumer>>
    PROVE  Waits(j)' = Waits(j)
BY DEF Waits, Answerable, InHand, WaitEnds, Rejections, Decided, JobOf, Reports

LEMMA OtherStatusWritten ==
    ASSUME TypeOK, NEW k \in Jobs, NEW status, NEW result, NEW failureClass, NEW completedAt,
           UpdateJobState(k, status, result, failureClass, completedAt)
    PROVE  /\ job'[k].status = status
           /\ \A j \in Jobs : j # k => job'[j] = job[j]
BY DEF UpdateJobState, TypeOK, StoreTypeOK

(* Nobody but the consumer, folding a request in, makes a job wait.        *)
LEMMA OthersMakeNoneWait ==
    ASSUME TypeOK, [Next]_vars, ~ConsumerNext, NEW j \in Jobs,
           job'[j].status = "awaiting_approval"
    PROVE  job[j].status = "awaiting_approval"
<1>1. CASE DispatchNext
  <2>1. PICK d \in Dispatchers :
           CreateJob(d) \/ RetryJob(d) \/ DispatchStep(d) \/ DispatchAborts(d)
    BY <1>1 DEF DispatchNext
  <2>2. CASE CreateJob(d)
    <3>1. PICK k \in Jobs : \E v : job' = [job EXCEPT ![k] = NewRow("probing", v)]
      BY <2>2 DEF CreateJob, InsertJob
    <3>2. PICK v : job' = [job EXCEPT ![k] = NewRow("probing", v)]
      BY <3>1
    <3>3. QED
      BY <3>2, WriteJobRow DEF NewRow
  <2>3. CASE RetryJob(d) \/ LogCreated(d) \/ ProbeAnswered(d) \/ ProbeFailed(d)
               \/ Publish(d) \/ PublishFails(d) \/ DispatchAborts(d)
    BY <2>3 DEF RetryJob, LogCreated, ProbeAnswered, ProbeFailed, Publish, PublishFails,
       DispatchAborts, InsertJobEvent, EventsOnly, storeVars
  <2>4. CASE MarkProbing(d) \/ MarkUnavailable(d) \/ MarkPublishFailed(d) \/ MarkDispatched(d)
    <3>1. PICK k \in Jobs : k = dispatch[d].job
      BY <2>4, DispatchHolds DEF MarkProbing, MarkUnavailable, MarkPublishFailed,
         MarkDispatched, At
    <3>2. PICK s \in {"probing", "failed", "dispatched"} :
             \E result, failureClass, completedAt :
                UpdateJobState(k, s, result, failureClass, completedAt)
      BY <2>4, <3>1 DEF MarkProbing, MarkUnavailable, MarkPublishFailed, MarkDispatched
    <3>3. QED
      BY <3>2, OtherStatusWritten
  <2>5. QED
    BY <2>1, <2>2, <2>3, <2>4 DEF DispatchStep
<1>2. CASE ResolveNext
  <2>1. PICK r \in Resolvers : LoadPending(r) \/ ResolveStep(r) \/ ResolveAborts(r)
    BY <1>2 DEF ResolveNext
  <2>2. CASE CompleteRejected(r)
    <3>1. PICK k \in Jobs : k = JobOf(r)
      BY <2>2, ResolveHolds DEF CompleteRejected, ResolveAt
    <3>2. UpdateJobState(k, "completed", job[k].result, job[k].failureClass, job[k].completedAt)
      BY <2>2, <3>1 DEF CompleteRejected, UpdateJobStatusOnly
    <3>3. QED
      BY <3>2, OtherStatusWritten
  <2>3. CASE ~CompleteRejected(r)
    BY <2>1, <2>3 DEF LoadPending, ResolveStep, ResolveAborts, Resolve, ResolveConflict,
       CheckDevice, PublishApproved, PublishApprovedFails, ResetToPending, LogDecision,
       SetApprovalStatus, WriteApproval, ApprovalsOnly, InsertJobEvent, EventsOnly, storeVars
  <2>4. QED
    BY <2>2, <2>3
<1>3. CASE EdgeNext
  BY <1>3, EdgeLeavesSent DEF storeVars
<1>4. CASE TrustChanges \/ Crash \/ UNCHANGED vars
  BY <1>4 DEF TrustChanges, Crash, vars, storeVars
<1>5. QED
  BY <1>1, <1>2, <1>3, <1>4 DEF Next

LEMMA ConsumerKeepsWaits ==
    ASSUME TypeOK, AwaitingIsAnswerable, ConsumerStep
    PROVE  AwaitingIsAnswerable'
<1>1. UNCHANGED <<push, resolve>>
  BY DEF ConsumerStep, TakeEvent, FoldState, StoreSummary, PointJobToSummary, FindPending,
     InsertApproval, InsertApprovalRefused, PostReply, busVars
<1>2. SUFFICES ASSUME NEW j \in Jobs, job'[j].status = "awaiting_approval"
               PROVE  Waits(j)'
  BY DEF AwaitingIsAnswerable, Waits
<1>3. CASE FoldState
  <2>1. PICK k \in Jobs : k = EventJob
    BY <1>3, ConsumerHolds DEF FoldState, ConsumerAt
  <2>2. /\ job'[k].status = StatusOf(Kind)
        /\ \A i \in Jobs : i # k => job'[i] = job[i]
    BY <1>3, <2>1, OtherStatusWritten DEF FoldState
  <2>3. UNCHANGED <<approval, lifecycle>> /\ consumer' = [pc |-> AfterState(Kind), event |-> consumer.event]
    BY <1>3 DEF FoldState, UpdateJobState, JobsOnly, ConsumerGoto, busVars
  <2>4. CASE j = k
    <3>1. Kind = "awaiting_approval"
      BY <1>2, <2>2, <2>4 DEF StatusOf
    <3>2. consumer'.pc = "find_pending" /\ consumer'.event.job = j
      BY <2>1, <2>3, <2>4, <3>1 DEF AfterState, AfterReport, CarriesSummary, EventJob
    <3>3. QED
      BY <3>2 DEF Waits, WaitEnds
  <2>5. CASE j # k
    <3>1. Waits(j) /\ consumer.event.job # j
      BY <1>2, <2>1, <2>2, <2>5 DEF AwaitingIsAnswerable, Waits, EventJob
    <3>2. QED
      BY <1>1, <2>3, <3>1 DEF Waits, Answerable, InHand, WaitEnds, Rejections, Decided, JobOf, Reports
  <2>6. QED
    BY <2>4, <2>5
<1>4. ~FoldState => UNCHANGED job
  BY DEF ConsumerStep, TakeEvent, StoreSummary, PointJobToSummary, FindPending, InsertApproval,
     InsertApprovalRefused, PostReply, InsertPendingApproval, WriteApproval, ApprovalsOnly,
     InsertSummary, PointToSummary, PostReplyOnce, AddReply, SummariesOnly, MessagesOnly, storeVars
<1>5. ~FoldState => Waits(j)
  BY <1>2, <1>4 DEF AwaitingIsAnswerable, Waits
<1>6. CASE TakeEvent
  <2>1. /\ lifecycle \in Seq(Event) /\ lifecycle # <<>>
        /\ lifecycle' = Tail(lifecycle)
        /\ consumer'.event = lifecycle[1]
        /\ CarriesStatus(lifecycle[1].kind) => consumer'.pc = "update_state"
        /\ consumer.pc = "idle"
    BY <1>6 DEF TakeEvent, ConsumerAt, TypeOK, BusTypeOK
  <2>2. UNCHANGED approval
    BY <1>6 DEF TakeEvent, storeVars
  <2>3. ASSUME NEW i \in Reports(j), EndsPush(lifecycle[i].kind)
        PROVE  WaitEnds(j)'
    <3>1. i \in DOMAIN lifecycle /\ lifecycle[i].job = j
      BY DEF Reports
    <3>2. CASE i = 1
      BY <2>1, <2>3, <3>1, <3>2 DEF WaitEnds, EndsPush, CarriesStatus
    <3>3. CASE i # 1
      <4>1. i - 1 \in DOMAIN lifecycle' /\ lifecycle'[i - 1] = lifecycle[i]
        BY <2>1, <3>1, <3>3
      <4>2. i - 1 \in Reports(j)' /\ EndsPush(lifecycle'[i - 1].kind)
        BY <2>3, <3>1, <4>1 DEF Reports
      <4>3. QED
        BY <4>2 DEF WaitEnds
    <3>4. QED
      BY <3>2, <3>3
  <2>4. Rejections(j) # {} => WaitEnds(j)'
    BY <1>1, <2>2 DEF WaitEnds, Rejections, Decided, JobOf
  <2>5. \A a \in Approvals : approval[a].job = j /\ Answerable(a) => Waits(j)'
    BY <1>1, <2>2 DEF Waits, Answerable, InHand
  <2>6. WaitEnds(j) => WaitEnds(j)'
    BY <2>1, <2>3, <2>4 DEF WaitEnds
  <2>7. QED
    BY <1>5, <1>6, <2>1, <2>5, <2>6 DEF Waits, FoldState, ConsumerAt
<1>7. CASE FindPending
  <2>1. UNCHANGED <<approval, lifecycle>> /\ ~FoldState
    BY <1>7 DEF FindPending, FoldState, ConsumerAt, storeVars, busVars
  <2>2. consumer' = [pc |-> IF PendingFor(EventJob) = {} THEN "insert_approval" ELSE "post_reply",
                     event |-> consumer.event]
    BY <1>7 DEF FindPending, ConsumerGoto
  <2>3. CASE EventJob = j /\ PendingFor(EventJob) = {}
    BY <2>2, <2>3 DEF Waits, WaitEnds, EventJob
  <2>4. CASE EventJob = j /\ PendingFor(EventJob) # {}
    <3>1. PICK a \in Approvals : approval[a].status = "pending" /\ approval[a].job = j
      BY <2>4 DEF PendingFor
    <3>2. QED
      BY <2>1, <3>1 DEF Waits, Answerable
  <2>5. CASE EventJob # j
    BY <1>1, <1>5, <2>1, <2>5 DEF Waits, Answerable, InHand, WaitEnds, Rejections, Decided,
       JobOf, Reports, EventJob
  <2>6. QED
    BY <2>3, <2>4, <2>5
<1>8. CASE InsertApproval
  <2>1. PICK b \in Approvals : approval[b].status = "absent" /\ WriteApproval(b, "pending", EventJob)
    BY <1>8 DEF InsertApproval, InsertPendingApproval
  <2>2. /\ approval'[b].status = "pending" /\ approval'[b].job = EventJob
        /\ \A a \in Approvals : a # b => approval'[a] = approval[a]
    <3>1. approval'[b] = [status |-> "pending", job |-> EventJob]
      BY <2>1, WriteApprovalRows
    <3>2. QED
      BY <2>1, <3>1, WriteApprovalRows
  <2>3. UNCHANGED lifecycle /\ ~FoldState
    BY <1>8 DEF InsertApproval, FoldState, ConsumerAt, busVars
  <2>4. CASE EventJob = j
    BY <2>2, <2>4 DEF Waits, Answerable
  <2>5. CASE EventJob # j
    <3>1. approval[b].job # j
      BY <2>1, StoreAssumption DEF TypeOK, StoreTypeOK, ApprovalRow, NoApprovalRow
    <3>2. \A a \in Approvals : approval[a].job = j /\ Answerable(a) => Waits(j)'
      BY <1>1, <2>2, <3>1 DEF Waits, Answerable, InHand
    <3>3. Rejections(j) \subseteq Rejections(j)'
      <4>1. \A r \in Resolvers : Decided(r) => resolve[r].approval \in Approvals
        BY ResolveHolds DEF Decided
      <4>2. QED
        BY <1>1, <2>2, <3>1, <4>1 DEF Rejections, Decided, JobOf
    <3>4. WaitEnds(j) => WaitEnds(j)'
      BY <2>3, <2>5, <3>3 DEF WaitEnds, Reports, EventJob
    <3>5. QED
      BY <1>5, <2>3, <3>2, <3>4 DEF Waits
  <2>6. QED
    BY <2>4, <2>5
<1>9. CASE InsertApprovalRefused
  <2>1. UNCHANGED <<approval, lifecycle>> /\ ~FoldState
    BY <1>9 DEF InsertApprovalRefused, FoldState, ConsumerAt, storeVars, busVars
  <2>2. PICK a \in Approvals : approval[a].status = "pending" /\ approval[a].job = EventJob
    BY <1>9 DEF InsertApprovalRefused, PendingIndexFree, PendingFor
  <2>3. CASE EventJob = j
    BY <2>1, <2>2, <2>3 DEF Waits, Answerable
  <2>4. CASE EventJob # j
    BY <1>1, <1>5, <2>1, <2>4 DEF Waits, Answerable, InHand, WaitEnds, Rejections, Decided,
       JobOf, Reports, EventJob
  <2>5. QED
    BY <2>3, <2>4
<1>10. CASE StoreSummary \/ PointJobToSummary \/ PostReply
  <2>1. UNCHANGED <<approval, lifecycle>> /\ ~FoldState
    BY <1>10 DEF StoreSummary, PointJobToSummary, PostReply, FoldState, ConsumerAt, busVars,
       InsertSummary, PointToSummary, PostReplyOnce, AddReply, SummariesOnly, MessagesOnly,
       storeVars
  <2>2. consumer.pc \in {"insert_summary", "point_to_summary", "post_reply"}
    BY <1>10 DEF StoreSummary, PointJobToSummary, PostReply, ConsumerAt
  <2>3. QED
    BY <1>1, <1>5, <2>1, <2>2 DEF Waits, Answerable, InHand, WaitEnds, Rejections, Decided,
       JobOf, Reports
<1>11. QED
  BY <1>3, <1>6, <1>7, <1>8, <1>9, <1>10 DEF ConsumerStep

(* An approval that a request does not touch, or keeps in hand, stays one  *)
(* that is answered.                                                       *)
LEMMA AnswerStays ==
    ASSUME TypeOK, NEW r \in Resolvers, NEW next, resolve' = [resolve EXCEPT ![r] = next],
           NEW a \in Approvals, Answerable(a), UNCHANGED <<approval[a].status, push[a].stage>>,
           \/ ~(InHand(r) /\ resolve[r].approval = a)
           \/ InHand(r)' /\ resolve'[r].approval = a
    PROVE  Answerable(a)'
<1>1. \A s \in Resolvers : s # r => resolve'[s] = resolve[s]
  BY ResolveMoves
<1>2. ASSUME NEW s \in Resolvers, InHand(s), resolve[s].approval = a
      PROVE  \E q \in Resolvers : InHand(q)' /\ resolve'[q].approval = a
  BY <1>1, <1>2 DEF InHand
<1>3. QED
  BY <1>2 DEF Answerable

LEMMA RequestKeepsWaits ==
    ASSUME TypeOK, "abort" \notin Failures, NEW r \in Resolvers,
           LoadPending(r) \/ ResolveStep(r) \/ ResolveAborts(r),
           NEW j \in Jobs, Waits(j), job'[j].status = "awaiting_approval"
    PROVE  Waits(j)'
<1> USE DEF ResolveAt
<1>1. ~ResolveAborts(r)
  BY DEF ResolveAborts
<1>2. UNCHANGED <<lifecycle, consumer>>
  BY <1>1 DEF LoadPending, ResolveStep, Resolve, ResolveConflict, CheckDevice, PublishApproved,
     PublishApprovedFails, ResetToPending, LogDecision, CompleteRejected, busVars
<1>3. SUFFICES ASSUME Rejections(j) # {} \/ \E a \in Approvals : approval[a].job = j /\ Answerable(a)
               PROVE  Waits(j)'
  BY <1>2 DEF Waits, WaitEnds, Reports
<1>4. PICK next : resolve' = [resolve EXCEPT ![r] = next]
  BY <1>1 DEF LoadPending, ResolveStep, Resolve, ResolveConflict, CheckDevice, PublishApproved,
     PublishApprovedFails, ResetToPending, LogDecision, CompleteRejected, ResolveGoto, ResolveEnds
<1>5. \A s \in Resolvers : s # r => resolve'[s] = resolve[s]
  BY <1>4, ResolveMoves
<1>6. \A a \in Approvals : approval'[a].job = approval[a].job
  <2>1. CASE UNCHANGED approval
    BY <2>1
  <2>2. CASE ~UNCHANGED approval
    <3>1. Resolve(r) \/ ResetToPending(r)
      BY <1>1, <2>2 DEF LoadPending, ResolveStep, ResolveConflict, CheckDevice, PublishApproved,
         PublishApprovedFails, LogDecision, CompleteRejected, InsertJobEvent, EventsOnly,
         UpdateJobStatusOnly, UpdateJobState, JobsOnly, storeVars
    <3>2. PICK a \in Approvals : a = resolve[r].approval
      BY <3>1, ResolveHolds DEF Resolve, ResetToPending
    <3>3. PICK s : WriteApproval(a, s, approval[a].job)
      BY <2>2, <3>1, <3>2 DEF Resolve, ResetToPending, SetApprovalStatus, storeVars
    <3>4. approval'[a] = [status |-> s, job |-> approval[a].job]
      BY <3>3, WriteApprovalRows
    <3>5. QED
      BY <3>3, <3>4, WriteApprovalRows
  <2>3. QED
    BY <2>1, <2>2
<1>7. ASSUME NEW s \in Resolvers, s \in Rejections(j)
      PROVE  Waits(j)'
  <2>1. Decided(s) /\ resolve[s].decision = "rejected" /\ JobOf(s) = j
    BY <1>7 DEF Rejections
  <2>2. resolve[s].approval \in Approvals
    BY <2>1, ResolveHolds DEF Decided
  <2>3. CASE Decided(s)' /\ resolve'[s].decision = "rejected" /\ resolve'[s].approval = resolve[s].approval
    <3>1. JobOf(s)' = j
      BY <1>6, <2>1, <2>2, <2>3 DEF JobOf
    <3>2. s \in Rejections(j)'
      BY <2>3, <3>1 DEF Rejections
    <3>3. QED
      BY <3>2 DEF Waits, WaitEnds
  <2>4. CASE s # r
    BY <1>5, <2>1, <2>3, <2>4 DEF Decided
  <2>5. CASE s = r /\ LogDecision(r)
    <3>1. resolve'[r] = [pc |-> "complete_job", approval |-> resolve[r].approval,
                         decision |-> resolve[r].decision]
      BY <2>1, <2>5, ResolveMoves DEF LogDecision, ResolveGoto
    <3>2. QED
      BY <2>1, <2>3, <2>5, <3>1 DEF Decided
  <2>6. CASE s = r /\ CompleteRejected(r)
    BY <1>3, <2>1, <2>6, OtherStatusWritten DEF CompleteRejected, UpdateJobStatusOnly
  <2>7. QED
    BY <1>1, <2>1, <2>4, <2>5, <2>6 DEF Decided, LoadPending, ResolveStep, Resolve,
       ResolveConflict, CheckDevice, PublishApproved, PublishApprovedFails, ResetToPending,
       NoResolve
<1>8. ASSUME NEW a \in Approvals, approval[a].job = j, Answerable(a)
      PROVE  Waits(j)'
  <2>1. CASE Answerable(a)'
    BY <1>6, <1>8, <2>1 DEF Waits
  <2>2. CASE LoadPending(r) \/ ResolveConflict(r) \/ LogDecision(r) \/ CompleteRejected(r)
    <3>1. UNCHANGED <<approval, push>> /\ ~InHand(r)
      BY <2>2 DEF LoadPending, ResolveConflict, LogDecision, CompleteRejected, InsertJobEvent,
         EventsOnly, UpdateJobStatusOnly, UpdateJobState, JobsOnly, storeVars, busVars, InHand
    <3>2. QED
      BY <1>4, <1>8, <2>1, <3>1, AnswerStays
  <2>3. CASE CheckDevice(r) \/ PublishApprovedFails(r)
    <3>1. UNCHANGED <<approval, push>> /\ InHand(r)' /\ resolve'[r].approval = resolve[r].approval
      <4>1. UNCHANGED <<approval, push>>
        BY <2>3 DEF CheckDevice, PublishApprovedFails, storeVars, busVars
      <4>2. PICK pc \in {"publish", "reset"} : ResolveGoto(r, pc)
        BY <2>3 DEF CheckDevice, PublishApprovedFails
      <4>3. resolve'[r] = [pc |-> pc, approval |-> resolve[r].approval,
                           decision |-> resolve[r].decision]
        BY <4>2, ResolveMoves DEF ResolveGoto
      <4>4. QED
        BY <4>1, <4>3 DEF InHand
    <3>2. QED
      BY <1>4, <1>8, <2>1, <3>1, AnswerStays
  <2>4. ASSUME resolve[r].approval # a, Resolve(r) \/ PublishApproved(r) \/ ResetToPending(r)
        PROVE  Waits(j)'
    <3>1. PICK b \in Approvals : b = resolve[r].approval
      BY <2>4, ResolveHolds DEF Resolve, PublishApproved, ResetToPending
    <3>2. UNCHANGED <<approval[a].status, push[a].stage>>
      <4>1. CASE Resolve(r) \/ ResetToPending(r)
        <5>1. UNCHANGED push
          BY <4>1 DEF Resolve, ResetToPending, busVars
        <5>2. UNCHANGED approval \/ \E s : WriteApproval(b, s, approval[b].job)
          BY <3>1, <4>1 DEF Resolve, ResetToPending, SetApprovalStatus, storeVars
        <5>3. QED
          BY <2>4, <3>1, <5>1, <5>2, WriteApprovalRows
      <4>2. CASE PublishApproved(r)
        BY <2>4, <3>1, <4>2 DEF PublishApproved, PublishPush, storeVars, TypeOK, BusTypeOK
      <4>3. QED
        BY <2>4, <4>1, <4>2
    <3>3. QED
      BY <1>4, <1>8, <2>1, <2>4, <3>2, AnswerStays
  <2>5. CASE resolve[r].approval = a /\ Resolve(r)
    <3>1. resolve'[r] = [pc |-> IF resolve[r].decision = "approved" THEN "check_device"
                                                                    ELSE "log_decision",
                         approval |-> a, decision |-> resolve[r].decision]
      <4>1. PICK pc : /\ pc = IF resolve[r].decision = "approved" THEN "check_device"
                                                                 ELSE "log_decision"
                      /\ ResolveGoto(r, pc)
        BY <2>5 DEF Resolve
      <4>2. resolve'[r] = [pc |-> pc, approval |-> resolve[r].approval,
                           decision |-> resolve[r].decision]
        BY <4>1, ResolveMoves DEF ResolveGoto
      <4>3. QED
        BY <2>5, <4>1, <4>2
    <3>2. CASE resolve[r].decision = "approved"
      BY <2>1, <3>1, <3>2 DEF InHand, Answerable
    <3>3. CASE resolve[r].decision # "approved"
      <4>1. resolve[r].decision = "rejected"
        BY <2>5, <3>3, ResolveHolds DEF Resolve, Decision
      <4>2. r \in Rejections(j)'
        BY <1>6, <1>8, <3>1, <3>3, <4>1 DEF Rejections, Decided, JobOf
      <4>3. QED
        BY <4>2 DEF Waits, WaitEnds
    <3>4. QED
      BY <3>2, <3>3
  <2>6. CASE resolve[r].approval = a /\ PublishApproved(r)
    <3>1. push'[a].stage = "sent"
      BY <2>6 DEF PublishApproved, PublishPush, TypeOK, BusTypeOK
    <3>2. QED
      BY <2>1, <3>1 DEF Answerable
  <2>7. CASE resolve[r].approval = a /\ ResetToPending(r) /\ PendingIndexFree(JobOf(r))
    <3>1. WriteApproval(a, "pending", approval[a].job)
      BY <2>7 DEF ResetToPending, SetApprovalStatus
    <3>2. approval'[a] = [status |-> "pending", job |-> approval[a].job]
      BY <3>1, WriteApprovalRows
    <3>3. QED
      BY <2>1, <3>2 DEF Answerable
  <2>8. CASE resolve[r].approval = a /\ ResetToPending(r) /\ ~PendingIndexFree(JobOf(r))
    <3>1. PICK b \in Approvals : approval[b].status = "pending" /\ approval[b].job = j
      BY <1>8, <2>8 DEF PendingIndexFree, PendingFor, JobOf
    <3>2. UNCHANGED approval
      BY <2>8 DEF ResetToPending, storeVars
    <3>3. QED
      BY <3>1, <3>2 DEF Waits, Answerable
  <2>9. QED
    BY <1>1, <2>2, <2>3, <2>4, <2>5, <2>6, <2>7, <2>8 DEF ResolveStep
<1>9. QED
  BY <1>3, <1>7, <1>8 DEF Rejections

(* While no event is lost, a report is still there after the next one.     *)
LEMMA EmitKeepsReports ==
    ASSUME TypeOK, "lose_event" \notin Failures, NEW kind, NEW k, Emit(kind, k)
    PROVE  /\ \A i \in DOMAIN lifecycle : i \in DOMAIN lifecycle' /\ lifecycle'[i] = lifecycle[i]
           /\ \E i \in DOMAIN lifecycle' : lifecycle'[i] = [kind |-> kind, job |-> k]
<1>1. lifecycle \in Seq(Event) /\ lifecycle' = Append(lifecycle, [kind |-> kind, job |-> k])
  BY DEF Emit, TypeOK, BusTypeOK
<1>2. Len(lifecycle) + 1 \in DOMAIN lifecycle'
      /\ lifecycle'[Len(lifecycle) + 1] = [kind |-> kind, job |-> k]
  BY <1>1
<1>3. \A i \in DOMAIN lifecycle : i \in DOMAIN lifecycle' /\ lifecycle'[i] = lifecycle[i]
  BY <1>1
<1>4. QED
  BY <1>2, <1>3

LEMMA EdgeKeepsWaits ==
    ASSUME TypeOK, "lose_event" \notin Failures, EdgeNext, NEW j \in Jobs, Waits(j)
    PROVE  Waits(j)'
<1>1. UNCHANGED <<approval, resolve, consumer>>
  BY DEF EdgeNext, EdgeStarts, EdgeEnds, EdgeCompletesForPush, EdgeAsksForApproval,
     EdgeStartsPush, EdgeEndsPush, CommandLost, storeVars, taskVars
<1>2. UNCHANGED lifecycle \/ \E kind, k : Emit(kind, k)
  BY DEF EdgeNext, EdgeStarts, EdgeEnds, EdgeCompletesForPush, EdgeAsksForApproval,
     EdgeStartsPush, EdgeEndsPush, CommandLost
<1>3. \A i \in DOMAIN lifecycle : i \in DOMAIN lifecycle' /\ lifecycle'[i] = lifecycle[i]
  BY <1>2, EmitKeepsReports
<1>4. WaitEnds(j) => WaitEnds(j)'
  BY <1>1, <1>3 DEF WaitEnds, Rejections, Decided, JobOf, Reports
<1>5. ASSUME NEW a \in Approvals, approval[a].job = j, Answerable(a)
      PROVE  Waits(j)'
  <2>1. CASE approval[a].status = "pending"
    BY <1>1, <1>5, <2>1 DEF Waits, Answerable
  <2>2. CASE \E r \in Resolvers : InHand(r) /\ resolve[r].approval = a
    BY <1>1, <1>5, <2>2 DEF Waits, Answerable, InHand
  <2>3. CASE EdgeEndsPush(a)
    <3>1. PICK kind \in {"push_completed", "failed"} : Emit(kind, j)
      BY <1>5, <2>3 DEF EdgeEndsPush
    <3>2. PICK i \in DOMAIN lifecycle' : lifecycle'[i] = [kind |-> kind, job |-> j]
      BY <3>1, EmitKeepsReports
    <3>3. i \in Reports(j)' /\ EndsPush(lifecycle'[i].kind)
      BY <3>2 DEF Reports, EndsPush
    <3>4. QED
      BY <3>3 DEF Waits, WaitEnds
  <2>4. CASE ~EdgeEndsPush(a) /\ push[a].stage \in {"sent", "lost", "pushing"}
    <3>1. push'[a].stage \in {"sent", "lost", "pushing"}
      <4>1. CASE UNCHANGED push
        BY <2>4, <4>1
      <4>2. CASE \E b \in Approvals : EdgeEndsPush(b)
        BY <2>4, <4>2 DEF EdgeEndsPush, AdvancePush, TypeOK, BusTypeOK
      <4>3. CASE \E b \in Approvals : AdvancePush(b, "sent", "pushing") \/ AdvancePush(b, "sent", "lost")
        BY <2>4, <4>3 DEF AdvancePush, TypeOK, BusTypeOK
      <4>4. QED
        BY <4>1, <4>2, <4>3 DEF EdgeNext, EdgeStarts, EdgeEnds, EdgeCompletesForPush,
           EdgeAsksForApproval, EdgeStartsPush, CommandLost
    <3>2. QED
      BY <1>1, <1>5, <3>1 DEF Waits, Answerable
  <2>5. QED
    BY <1>5, <2>1, <2>2, <2>3, <2>4 DEF Answerable
<1>6. QED
  BY <1>4, <1>5 DEF Waits

(* While the process stays up, no request is aborted, no statement of the  *)
(* consumer fails and no event is lost, a job that waits for approval can  *)
(* be answered, for any number of operators, runs and retries, also at     *)
(* once, and whatever publish fails and command is lost.                   *)
THEOREM AwaitingJobsAnswerable ==
    ASSUME Failures \cap {"crash", "abort", "db_error", "lose_event"} = {}
    PROVE  Spec => []AwaitingIsAnswerable
<1>1. Init => AwaitingIsAnswerable
  BY DEF Init, StoreInit, NewRow, AwaitingIsAnswerable
<1>2. ASSUME TypeOK, AwaitingIsAnswerable, [Next]_vars
      PROVE  AwaitingIsAnswerable'
  <2>1. CASE ConsumerNext
    BY <1>2, <2>1, ConsumerKeepsWaits DEF ConsumerNext, ConsumerDropsEvent
  <2>2. CASE ~ConsumerNext
    <3>1. SUFFICES ASSUME NEW j \in Jobs, job'[j].status = "awaiting_approval"
                   PROVE  Waits(j)'
      BY DEF AwaitingIsAnswerable, Waits
    <3>2. Waits(j)
      BY <1>2, <2>2, <3>1, OthersMakeNoneWait DEF AwaitingIsAnswerable, Waits
    <3>3. CASE DispatchNext
      <4>1. UNCHANGED <<approval, push, lifecycle, resolve, consumer>>
        BY <3>3 DEF DispatchNext, CreateJob, RetryJob, DispatchStep, DispatchAborts, LogCreated,
           MarkProbing, ProbeAnswered, ProbeFailed, MarkUnavailable, Publish, PublishFails,
           MarkPublishFailed, MarkDispatched, InsertJob, InsertJobEvent, UpdateJobState,
           JobsOnly, EventsOnly, storeVars, busVars
      <4>2. QED
        BY <3>2, <4>1, WaitsOn
    <3>4. CASE ResolveNext
      BY <1>2, <3>1, <3>2, <3>4, RequestKeepsWaits DEF ResolveNext
    <3>5. CASE EdgeNext
      BY <1>2, <3>2, <3>5, EdgeKeepsWaits
    <3>6. CASE TrustChanges \/ UNCHANGED vars
      <4>1. UNCHANGED <<approval, push, lifecycle, resolve, consumer>>
        BY <3>6 DEF TrustChanges, vars, storeVars, busVars, taskVars
      <4>2. QED
        BY <3>2, <4>1, WaitsOn
    <3>7. QED
      BY <1>2, <2>2, <3>3, <3>4, <3>5, <3>6 DEF Next, Crash
  <2>3. QED
    BY <2>1, <2>2
<1>3. QED
  BY <1>1, <1>2, TypeCorrect, PTL DEF Spec
=============================================================================
