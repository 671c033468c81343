# A verification of elowen-api

elowen-api is the orchestrator of a small fleet of coding agents: it keeps
threads, jobs, approvals and devices in Postgres, sends jobs and pushes to the
devices ("edges") over NATS, and folds what the edges report back into the
tables. It is one async process. Every request handler is a task that awaits at
each SQL statement and at each message, there is next to no transaction around
several statements, and one more task consumes the edges' lifecycle events. What
is hard about it is therefore what happens *between* two statements: another
request, an event, a crash, a dropped request, a failed publish.

This directory holds TLA+ modules of that behaviour, TLC configurations that
check it on small instances, and TLAPS proofs for instances of any size.
`PROJECT.json` lists the parts, the runs, the map from definitions to source
lines, the hazards, the findings and the theorems.

    tlc -config Approving.cfg MCOrchestrator.tla
    tlapm ApprovalProofs.tla

Paths below are relative to the repository's `src/`.

## Inventory

| Part | State | Operations | Hard behaviour | Right when |
|---|---|---|---|---|
| Job tables (`db/jobs.rs`, `db/approvals.rs`, `db/threads.rs`) | rows of jobs, approvals, job_events, messages, summaries | single statements; a compare-and-set on a pending approval; a unique index on pending approvals | every write of a job's status is unconditional | summaries are current; replies are posted once per job and outcome |
| Dispatch (`services/jobs.rs`, `routes/jobs.rs`) | what a request carries: job, device, step | create, retry, probe (5 s), publish | a check long before its write; events that overtake the request; crashes | no invented status; failed jobs can be retried; no second dispatch |
| Approvals (`routes/approvals.rs`) | what a request carries: approval, decision, step | approve, reject, give back | two operators; publish after commit; crashes | one push per approval, decision and audit agree with it; a job that waits can be answered |
| Lifecycle consumer (`services/lifecycle.rs`) | the event being folded | fold an event in up to eight statements | a statement fails half way; events lost or late | tables agree with what edges did |
| Devices and trust (`routes/devices.rs`, `trust/mod.rs`) | one row per device with its trust metadata | register, probe, revoke, confirm, resolve, clear | every one loads the whole row and writes it back later | a device that gets jobs has a sound key; revocations stand; rotations are confirmed |
| Orchestrator signers (`trust/mod.rs`, `routes/trust.rs`) | a status per signing key | sync with the configuration, stage, activate, retire | several statements per action; keys reordered at a restart | one active key; retired keys stay so |
| API process (`app/mod.rs`) | the tasks | start, stop | a crash loses every task and buffered event | see above |
| Edges and NATS (not in this repository) | runs and pushes | report events | at-most-once delivery | - |
| Sessions and roles (`routes/auth.rs`, `auth/mod.rs`) | session rows, accounts file | login, authorise, logout, purge | expiry and logout beside requests; accounts change | no request without a session and the role it needs |
| UI events (`services/ui_events.rs`) | a broadcast channel of 256 | publish, connect, stream | slow listeners; requests that stop between the write and the event | a console that keeps up misses no write |
| Threads and chat (`routes/threads.rs`, `services/conversation.rs`) | messages with drafts, jobs | post, chat, dispatch a draft, a message or a job | two chats at once; refinements that fall back on older drafts; a request fails half way | replies and drafts are made of what was said; read-only stays so; the job is what the draft showed, acknowledged once |
| Repository selection (`services/jobs.rs`, `routes/devices.rs`) | what a device serves, in its row | what to offer, what to allow | whole-row writes of an old copy | what a trusted device may be sent was said by the holder of its key; no write takes a registration back |
| Notes (`services/notes.rs`, `routes/notes.rs`) | none of its own | search and merge, promote a job's summary | retries after lost answers; several searches find one note | every note once, in its best role; one note per job |

How they interact: dispatch, approval requests and the consumer share the job
tables and nothing else; dispatch and approvals read the device rows that the
device routes write; dispatch and approvals publish to the edges and the consumer
hears from them; device registration uses the signers; every request that writes a
row tells the open consoles of it; a chat or a draft ends in the same dispatch.

## The modules

| Module | Models | Kind |
|---|---|---|
| `JobStore` | the tables, one operator per SQL statement | shared state |
| `ApiTasks` | the variables of the tasks | shared state |
| `EdgeBus` | the edges and NATS (external) | environment |
| `JobDispatch` | create and retry requests | component |
| `ApprovalRoute` | approval requests | component |
| `JobLifecycle` | the consumer | component |
| `Orchestrator` | all of the above in one process, crashes, trust changes; the properties | composition |
| `PushAuthorisation` | what the approval flow promises | abstract specification |
| `DeviceTrust` | the requests that write device rows | component |
| `OrchestratorSigners` | the requests that write signer rows | component |
| `Sessions` | logins, logouts and the authorisation of requests | component |
| `UiEvents` | the broadcast channel and its readers | component |
| `RepositoryScope` | what a device offers and what it may run | operators |
| `DeviceConsole` | `DeviceTrust` with the rest of the row it writes, and the consoles it tells | composition |
| `DeviceTargets` | `DeviceConsole` with a history of who said what a device serves | property of a composition |
| `ExecutionDraft` | how a draft is made of a message and the draft before it | operators |
| `Threads` | the requests that write to a thread | component |
| `Notes` | searches and their merge, promotion | component |
| `ThreadRoutes` | a thread's messages, jobs and notes together | composition |
| `MCOrchestrator`, `MCDeviceTrust`, `MCDeviceConsole`, `MCDeviceTargets`, `MCOrchestratorSigners`, `MCSessions`, `MCThreads` | instances for TLC | model checking |
| `OrchestratorTypes`, `ApprovalProofs`, `JobProofs`, `DeviceTrustProofs`, `ConsoleProofs`, `SignerProofs`, `SessionProofs`, `ThreadProofs` | theorems | proofs |

`JobStore` is the unit of atomicity: a statement is a step. A request is a record
of its next step (`pc`) and what it holds in memory (`dispatch[d]`,
`resolve[r]`, `consumer`). `JobDispatch` follows `create_job_record`,
`retry_job_dispatch` and `attempt_job_dispatch` statement by statement,
`ApprovalRoute` follows `resolve_approval`, `JobLifecycle` follows
`persist_job_lifecycle_event`. Where the code has a `?`, the model has
`DispatchAborts`, `ResolveAborts` or `ConsumerDropsEvent`, which stop the request
or the event with what it wrote so far in place; the same actions stand for a
client that hangs up, upon which the request's future is dropped at its await.

What is abstracted:

- Timestamps are set or not, ids are model values, texts are left out.
- Inserts of display-only rows (most of `job_events`, `device_trust_events`) are
  folded into the step beside them: no statement reads them back. The rows that
  are read back, or that a property is about (`job.created`, `approval.*`), are
  steps of their own.
- A lifecycle event is its kind. `job.completed` comes in three: well, badly, and
  with a push to follow. `push_started` stands for the events without a status.
- Whether a device serves a job's target is configuration and taken as given;
  whether it is trusted is state. The trust of a device is one bit in
  `Orchestrator` (`trusted`) and its row in `DeviceTrust`.
- A crash and the restart after it are one step; what is lost while the process
  is down is lost by `CommandLost` and `Emit`.
- In `DeviceTrust` a refused request is no step, rotation and re-enrolment are
  treated alike from the acceptance on, and the list of previous keys is left
  out. The legacy key of old rows is there, because it is read and never written
  (`skip_serializing`): a probe of such a device loses its key.
- A thread's messages are in the order of their inserts, which is that of
  `created_at`; one thread stands for all. A text is a model value, and `Reading`
  says what the phrase tables of `services/conversation.rs` find in it: whether it
  asks for execution, refines, is read-only, which repository and branch it names.
  How a draft follows from these, field by field, is `ExecutionDraft`. The language
  model's answer is any reply. The dispatch of a job is one step in `Threads` with
  the outcomes that `JobDispatch` has in detail.
- The notes service is external: a search answers with any small result, a call
  fails at any point, and a POST may take effect after its request has gone. The
  merge of what was found is a step per candidate, as the loop in
  `merge_related_note_contexts` goes; scores are integers, where the code has floats. The
  reading for a job is the reading for a thread without its first search.
- The console is not in this repository: it is taken to load everything when it
  connects, and what an event names when it gets it. In `DeviceConsole` a request
  of another part of the API is one that writes a row and tells the consoles.
- In `DeviceTargets` readers of events and requests about other things are left out
  of the next-state relation: they change no device's row.
- In `RepositoryScope` names are model values: trimming, sorting and the count of
  devices per repository (display only) are left out.
- In `OrchestratorSigners` no key is ever taken out of the configuration, which
  may otherwise gain keys and change their order at each restart.
- In `Sessions` time is the action `Expires`, passwords and cookies are left out,
  and a deleted row keeps its account, as history. A handler is the step `run`.
  `entitled` is history too: the roles the session's account has had since a
  request arrived.

## What is checked

Kinds of failure are switched on by `Failures`, so that each run can have those its
question allows.

| Run | Question | Bounds |
|---|---|---|
| `Retries` | `StatusJustified`, `FailedIsRetryable`, `TypeOK`: is every status true and every failed job retryable, whatever interleaves and crashes? | 1 job, perhaps legacy, that runs twice, 2 dispatchers, 1 resolver, 3 outcomes; crash, publish and statement errors, lost events (1.2 million states) |
| `Approving` | `PushAtMostOnce`, `PushedStaysApproved`, `AuditTruthful`, `OneHandPerPush`, refinement of `PushAuthorisation` | 2 approvals of one job, 2 operators, 2 dispatchers; aborts, publish errors |
| `Settling` | `ProbingEnds`, `ApprovedIsSettled`, `ApprovalRequestSeen`, `ApprovedIsInHand`, `SummaryCurrent`: does what was begun end? `AwaitingIsAnswerable`: can somebody answer what a job waits for? `OneLifeAtATime`: has it, before a job begins anew? | 2 operators, 1 dispatcher, legacy job; publish errors, lost commands, trust changes |
| `TrustRaces` | `DispatchableKeySound`, `RowsSound`, `TypeOK`: are rows sound when requests overwrite each other? `TargetsVouched`: is what a trusted device may be sent what the holder of its key said? | `DeviceTargets`: 1 device, 2 keys, 1 target, 2 requests at once, proofs optional (315 thousand states) |
| `TrustInTurn` | `RevocationStands`, `RotationConfirmed`, `ServesAsRegistered`: are decisions and registrations kept when requests come one at a time? `ListenerInformed`: are consoles told of every write? | `DeviceConsole`: 1 device, 3 keys (1 revoked by configuration), 1 request, proofs required, 2 scopes, a job's row, 1 console, a channel of 2 (275 thousand states) |
| `SignersInTurn` | `AtMostOneActive`, `RetiredStands`, `TypeOK` | 3 keys in every order, 1 request, stops anywhere |
| `SessionsEnd` | `EntitledOnly`, `InHandEntitled`, `EndedStaysEnded`, `TypeOK`: does a logout, an expiry, a demotion count for every request that arrives after it? | 1 session, 1 account, 2 requests at once, every role |
| `Threads` | `RepliesInformed`, `ReadOnlyKept`, `RefinementKeeps`, `JobAsShown`, `HandoffAcknowledged`: do chats, drafts and jobs follow from what was said and shown? `MemoryMerged`, `PromotedFirst`, `OneNoteInTurn`: is every note told once, in its best role, and is a job's note revised and not repeated? | 2 clients, 3 requests, 1 job, 6 kinds of message, 3 kinds of order; 2 promoters, 2 notes (817 thousand states) |
| `RetryRace`, `DispatchRace`, `RevocationRace`, `RotationSlips` | findings, below | as small as the trace allows |

Why the bounds are enough to be worth it: the tables' rows of different jobs are
never related by any statement, so one job stands for all; two requests of a kind
are what a race needs; two commands give a job a second life, with late events of
the first; two approvals are what the unique index and the reset can disagree
about. Three keys are one to have, one to rotate to and one that the configuration
revokes. `TrustRaces` has two keys, so that a rotation or a revoked key may be undone by
a copy of the row, and one target, which a device serves or does not: no target has
to do with another. Its VIEW leaves out the histories that no step reads. Three requests on a thread are a draft, its refinement and its dispatch, or
two chats that cross and a dispatch; the messages of `MCThreads` are chosen so that
every branch of the draft is taken. A channel of two overflows at the third event.
Two notes are what a ranking needs. The theorems remove the bounds for what is proved. Symmetry is used only
where ids of one kind are interchangeable, and in no run with a liveness property.
Deadlock checking is off in the runs of `MCOrchestrator` and `MCThreads`, since the
bounds on commands, requests and notes end every behaviour; it is on in the others.

Fairness, in `Settling` only: the steps of each request in progress and of the
consumer are weakly fair, because tokio runs a task that can go on, a statement
and a publish return, and the probe returns after five seconds at the latest
(`probe_device_via_nats`). Nothing is assumed of operators, edges, the network or
new requests. The liveness properties are checked without crashes and aborts
because the code has no recovery for those: a crash while a job is probing leaves
it so for good, and one between the compare-and-set and the publish of an approval
leaves it approved with no push. Both are listed as hazards.

Every checked property has a mutant in `PROJECT.json`: a change of one definition,
as a plausible bug would make it, under which TLC finds the property violated.

## Findings

1. `DispatchRace` (`services/jobs.rs:315`): "dispatched" is written after the
   publish, unconditionally, and overwrites what the edge reported in between.
2. `RetryRace` (`services/jobs.rs:388`): two retries at once both find the job
   failed; it is dispatched twice.
3. `RevocationRace` (`routes/devices.rs:811`): a probe or a registration writes
   back a row it loaded before a revocation.
4. `RotationSlips` (`routes/devices.rs:521`): an unsigned registration turns
   "rotated" into "needs attention", and the next signed heartbeat into "trusted".

Seen on the way, and stated by nothing in the repository either way:

- `extract_keyword_value` searches a keyword anywhere in a word: "report" names the
  repository "rt" (`services/conversation.rs:734`). `MCThreads` has such a message.
- "Dispatch it" and "run it" are refinements and requests to execute at once, so a
  read-only draft starts over as a workspace change upon them
  (`services/conversation.rs:649`). `ReadOnlyKept` and `RefinementKeeps` except such
  messages.
- A capability request takes over the name of the draft before it, a repository's
  too (`services/conversation.rs:628`).
- A device that only lists repositories, or hides some, counts as unscoped
  (`services/jobs.rs:563`): it is allowed any repository.
- A reply is marked with its job and not with the attempt (`services/lifecycle.rs:412`),
  so when a retried job fails again the thread is not told.

## What is proved

All theorems are of the specifications as TLC checks them, for every value of the
constants that satisfies the modules' named assumptions (`StoreAssumption`,
`BusAssumption`, `ResolveAssumption`, `TrustAssumption`, `SessionsAssumption`,
`SignerAssumption`, `EventsAssumption`, `ConsoleAssumption`, `ThreadAssumption`,
`NotesAssumption` and so on). No finiteness of the sets is assumed. Where a theorem
needs more of the constants, its statement says so in an ASSUME: proofs required, no
failure of a certain kind, scores within a certain distance. Where it needs more of a
behaviour, the statement has it beside `Spec`: `Spec /\ []DispatchInTurn => ...` is of
every behaviour in which the dispatch requests of one job never overlap, while those of
other jobs do as they like. `DispatchInTurn`, `RequestsInTurn` (the requests for one
device) and `WritersInTurn` (the signer requests that have something to write) are
nothing the code enforces: they say what it leaves to its clients, and the runs that
find violations, or `TrustRaces`, show what may happen without.

- `OrchestratorTypes!TypeCorrect`: `Spec => []TypeOK`. Each statement of `JobStore`
  keeps the tables typed; each action is one such statement or none. Two conjuncts
  are more than types, and needed later: a request in hand and a push refer to
  approvals that exist.
- `JobProofs`: `StatusJustified` and `FailedIsRetryable` are not inductive: a status
  is written long after its cause, by a request or an event that must be known to
  have one. `JobInv` says so of each: a request past the insert has its job.created
  row, one that is to mark a job dispatched has published for it, an event in the
  queue or in hand tells of a run, an approval of an attempt that waits. What was
  sent, run and logged is never taken back (`Further`), so that every step has only
  to justify what it writes (`JobInvFrame`). `SummaryCurrent` is
  inductive by itself while the consumer does not stop between its two statements. `ProbingStaysInHand` is the safety half of `ProbingEnds`: without
  crashes and aborts a job that is probing always has a request that will write what
  came of it.
- `ApprovalProofs`: `PushAtMostOnce`, `PushedStaysApproved` and `AuditTruthful` are
  not inductive. A reset is harmless only if nothing was pushed, a push only if
  nobody else is about to push or to reset. `OneHandPerPush` says so: while a
  request is between its compare-and-set and its publish or reset, the approval
  is approved, unpushed and in the hands of no other request; after that the
  request's decision is final. `ApprovalInOneHand` proves it inductive, action by
  action; `PushOnce`, `PushedIsApproved` and `AuditTellsTheTruth` follow.
- `ApprovalProofs!OneLife`: while the dispatch requests of a job come one at a time,
  so do its lives. `OneLifeAtATime` counts what can still lead a job on: a run in
  progress, a report or a fold of a failure or of a request for approval, an open
  approval, a rejection not yet written to the job. It says that there is never more
  than one, and none when a retry may begin. The inductive `LifeInv` adds to it what
  each status and each step of a request and of the consumer say of that one thing.
  Every action turns it into the next one (a run into a report, a report into a fold,
  a fold into an approval or a failed job) or takes it away, and only a dispatch,
  which finds none, makes a new one. `RetriesInTurn` follows: the race of `RetryRace`
  is the only way to break what `retry_job_dispatch` promises. So does
  `ApprovalsStayInHand`, without crashes and aborts: with one approval in play the
  reset to pending is never refused by the unique index.
- `ApprovalProofs!AwaitingJobsAnswerable`: a job whose status is `awaiting_approval`
  has an approval that is pending, in a request's hands or being pushed, or else what
  ends the wait (a rejection, a report that is queued or being folded) is under way.
  It needs no turns and is inductive by itself: an action that takes one of these away
  puts another in its place, or changes the status. Crashes, aborts, failing statements
  and lost events are excluded, for after those a job may wait for nobody.
- `ApprovalProofs!ImplementsAuthorisation`: the whole API implements
  `PushAuthorisation`. The compare-and-set is `Decide`, the reset is `Withdraw`,
  the publish is `Push`, the consumer's insert is `Request`; every other step
  leaves decisions and pushes alone.
- `DeviceTrustProofs`: `TrustTypeCorrect`, `RowsStaySound`, and
  `DispatchNeedsSoundKey` by the invariant `RowsSound`. Rows overwrite each other,
  so nothing relates a row to its predecessor; what is inductive is that each row,
  in the table or in a request's hands, is sound in itself: unless the device is
  revoked, its key is not one revoked for it, and a status other than "untrusted"
  comes with a key. In every behaviour with `RequestsInTurn` a copy in hand follows on
  the row as it is (`Follows`), which gives `RevocationEndsByOperator`; with proofs
  required besides, a rotated key awaits its operator (`Awaits`), which gives
  `RotationNeedsConfirmation`.
- `ConsoleProofs`: `ConsoleImplementsTrust`, by which the theorems above hold of the
  composition; `ConsolesInformed` by an invariant on each reader's queue: what is
  stale is named by an event it has still to read or by a request that has still to
  tell; `RegistrationsKept` with `RequestsInTurn`, since a copy carried in turn is what
  was registered; `TargetsAreVouched` by the invariant `VouchedInv`: any copy in hand
  that dispatch would take is to be written by a request that vouches for it, or
  carries a key and a scope that were vouched for together. It needs no turns, since
  the row is written whole.
- `SignerProofs`: `SignerTypes` for any number of requests; `OneKeyActive` and
  `RetiredKeysStand` with `WritersInTurn`, by the invariant `SignerInv`: what a request
  set out to write is still right when it writes it. A row to insert is still
  missing, one to insert as active finds none active, and every active key but the
  one to be activated is among those still to be staged.
- `SessionProofs`: `SessionTypeCorrect`; `RequestsEntitled`, `LetThroughEntitled` and
  `EndedForGood` by the invariant `InHandEntitled`. What a request has read (an
  account from the session's row, then a role from the file) lies in its history
  `entitled`, which edits of the file extend; a row that others write keeps its
  account and does not come back; and the token of a login in progress is nobody
  else's, so its insert overwrites nothing.
- `ThreadProofs`: `ThreadInv` relates what a chat carries to the prefix of the log it
  has loaded; since the log only grows, a draft keeps following from the message and
  the draft it was made of. `RepliesAreInformed`, `ReadOnlyIsKept` and
  `RefinementsKeep` follow from it. `ShownInv` (a job, or a request that is to insert
  one, is what its draft says) gives `JobsAreAsShown`; `AckInv` (a job is in the
  hands of at most one request, and what was acknowledged is in nobody's) gives
  `HandoffsAreAcknowledged`; `NotesInv` and `OneInTurn` (unless promotions crossed,
  at most one POST is under way that would make a note, and none once there is one)
  give `OneNotePerJob` and, with `ThreadInv`, `ThreadTypes`. `MergeInv` is the
  invariant of the loop that merges what the searches found: each note in the map is
  told as the candidates up to there have it. `MemoriesMerged` and `PromotedGoFirst`
  follow, the latter if the scores of the service differ by less than the smaller
  boost of 900, which the code takes for granted.

Only model-checked: the liveness properties `ProbingEnds`, `ApprovedIsSettled` and
`ApprovalRequestSeen`, as fairness and ENABLED are out of the prover's reach. Every
invariant and every action property of the runs is stated by a theorem.

## Plan

What is left, in order of weight:

1. Keys taken out of the configuration in `OrchestratorSigners`, with the two active
   keys that may leave.
2. `Threads` composed with `JobDispatch`, so that a draft's job is followed down to
   its command; the consoles' events of job and thread writes in detail.
3. Attempt numbers as history in `Orchestrator`, to follow an event of an earlier
   attempt after two dispatches at once, which `OneLifeAtATime` leaves out.
4. More of what `OneLifeAtATime` gives: a job that has failed says so truly of its last
   attempt.

Not modelled, and not planned: signatures and key encodings (cryptography), the phrase
tables and wording of `services/conversation.rs` and the prompt for the language
model, the inside of the notes service, `formatting.rs` and the error and row types
(single functions without state), the count in `list_repositories` (display only),
HTTP routing, tracing and the reading of the environment.
