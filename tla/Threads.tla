------------------------------- MODULE Threads -------------------------------
(***************************************************************************)
(* routes/threads.rs: the requests that write to a thread, statement by    *)
(* statement.  A thread only grows, so a request that has loaded its       *)
(* messages has seen a prefix of the log.                                  *)
(*                                                                         *)
(* One thread stands for all: no statement relates two, except the order   *)
(* of the list of threads.  The dispatch of a job is one step here and     *)
(* module JobDispatch in detail.  Replies that the lifecycle consumer      *)
(* posts carry no draft and are like a CreateMessage of an assistant.      *)
(***************************************************************************)
EXTENDS ExecutionDraft, FiniteSets

CONSTANTS Clients,     \* bound: requests at once
          Orders,      \* bodies of the requests that create a job
          ReplyText,   \* what the language model, or the fallback, replies;
                       \* users write something else
          MaxRequests, \* bound: requests in all
          MaxJobs      \* bound: requests in all that create a job

VARIABLES exists,  \* the thread's row is there
          log,     \* its messages, in the order of created_at
          jobs,    \* its jobs, oldest first
          request, \* what each request holds
          stopped, \* history: jobs whose request stopped after dispatching them
          started  \* history: how many requests there have been, <<all, for a job>>

threadVars == <<exists, log, jobs, request, stopped, started>>

Order == [kind: {"repository", "capability"}, name: MaybeName, branch: MaybeName,
          intent: Intent \cup {None}, prompt: Texts \cup {None}]
Acknowledgements == {"workflow.handoff.created", "workflow.dispatch.created"}
ASSUME ThreadAssumption ==
    ReplyText \in Texts /\ Orders \subseteq Order /\ None \notin Acknowledgements

(* answers, seen and job are history: the message a reply is to, how much  *)
(* of the log its request had loaded, the job an acknowledgement tells of. *)
Message == [role: {"user", "assistant", "system"},
            status: {"committed", "conversation.reply"} \cup Acknowledgements,
            text: Texts, draft: Draft \cup {NoDraft},
            answers: Nat, seen: Nat, job: Nat]

(* via is how the request that made the job acknowledges it, if at all.    *)
Job == [kind: {"repository", "capability"}, name: MaybeName, branch: MaybeName,
        prompt: Seq(Texts), intent: Intent, from: Nat, order: Orders,
        via: Acknowledgements \cup {None},
        status: {"probing", "dispatched", "unavailable", "publish_failed"}]

NoRequest == [pc |-> "idle"]
Request == {NoRequest}
    \cup [pc: {"messages"}, own: Nat]
    \cup [pc: {"jobs"}, own: Nat, seen: Nat]
    \cup [pc: {"reply"}, own: Nat, seen: Nat, draft: Draft \cup {NoDraft}]
    \cup [pc: {"create"}, new: Job]
    \cup [pc: {"dispatch", "acknowledge"}, job: Nat]
    \cup [pc: {"finish"}]

ThreadsTypeOK ==
    /\ exists \in BOOLEAN
    /\ log \in Seq(Message)
    /\ jobs \in Seq(Job)
    /\ request \in [Clients -> Request]
    /\ stopped \subseteq Nat
    /\ started \in Nat \X Nat

ThreadsInit ==
    /\ exists = FALSE
    /\ log = <<>>
    /\ jobs = <<>>
    /\ request = [c \in Clients |-> NoRequest]
    /\ stopped = {}
    /\ started = <<0, 0>>
-----------------------------------------------------------------------------
At(c, pc) == request[c].pc = pc
Goto(c, next) == request' = [request EXCEPT ![c] = next]

Plain(role, status, text) ==
    [role |-> role, status |-> status, text |-> text, draft |-> NoDraft,
     answers |-> 0, seen |-> 0, job |-> 0]
Post(message) == log' = Append(log, message)

LatestIn(S) == {i \in S : \A k \in S : k <= i}
UsersIn(n) == {i \in 1 .. n : log[i].role = "user"}
DraftsIn(n) == {i \in 1 .. n : log[i].draft # NoDraft}
(* The last draft among the first n messages, as a set of one.             *)
DraftSeen(n) == IF DraftsIn(n) = {} THEN {NoDraft}
                ELSE {log[i].draft : i \in LatestIn(DraftsIn(n))}

NewestTarget ==
    IF jobs = <<>> THEN NoTarget
    ELSE LET job == jobs[Len(jobs)] IN
         [repo |-> IF job.kind = "repository" THEN job.name ELSE None,
          branch |-> job.branch]

(* ensure_thread_exists, and the bounds.                                   *)
Starts(c) ==
    /\ exists
    /\ At(c, "idle")
    /\ started[1] < MaxRequests
    /\ started' = [started EXCEPT ![1] = @ + 1]
StartsJob(c) ==
    /\ exists
    /\ At(c, "idle")
    /\ started[1] < MaxRequests /\ started[2] < MaxJobs
    /\ started' = <<started[1] + 1, started[2] + 1>>

CreateThread ==
    /\ ~exists
    /\ exists' = TRUE
    /\ UNCHANGED <<log, jobs, request, stopped, started>>

CreateMessage(c) ==
    /\ Starts(c)
    /\ \/ \E t \in Texts \ {ReplyText} : Post(Plain("user", "committed", t))
       \/ \E role \in {"assistant", "system"} : Post(Plain(role, "committed", ReplyText))
    /\ Goto(c, [pc |-> "finish"])
    /\ UNCHANGED <<exists, jobs, stopped>>
-----------------------------------------------------------------------------
(* create_thread_chat *)

Chat(c) ==
    /\ Starts(c)
    /\ \E t \in Texts \ {ReplyText} : Post(Plain("user", "committed", t))
    /\ Goto(c, [pc |-> "messages", own |-> Len(log) + 1])
    /\ UNCHANGED <<exists, jobs, stopped>>

(* Mutant of LoadMessages: they are loaded before the user's is posted.    *)
LoadMessagesFirst(c) ==
    /\ At(c, "messages")
    /\ Goto(c, [pc |-> "jobs", own |-> request[c].own, seen |-> request[c].own - 1])
    /\ UNCHANGED <<exists, log, jobs, stopped, started>>
LoadMessages(c) ==
    /\ At(c, "messages")
    /\ Goto(c, [pc |-> "jobs", own |-> request[c].own, seen |-> Len(log)])
    /\ UNCHANGED <<exists, log, jobs, stopped, started>>

(* The jobs, and from then on the draft is settled: it is of the latest    *)
(* user message, which need not be the request's own.                      *)
LoadJobs(c) ==
    /\ At(c, "jobs")
    /\ LET seen == request[c].seen IN
       \E i \in LatestIn(UsersIn(seen)), prev \in DraftSeen(seen) :
          Goto(c, [pc |-> "reply", own |-> request[c].own, seen |-> seen,
                   draft |-> BuildDraft(log[i].text, i, prev, NewestTarget)])
    /\ UNCHANGED <<exists, log, jobs, stopped, started>>

(* The notes are there and the reply is generated, by the language model   *)
(* or, if that fails, by the fallback.                                     *)
PostReply(c) ==
    /\ At(c, "reply")
    /\ Post([Plain("assistant", "conversation.reply", ReplyText) EXCEPT
               !.draft = request[c].draft, !.answers = request[c].own,
               !.seen = request[c].seen])
    /\ Goto(c, [pc |-> "finish"])
    /\ UNCHANGED <<exists, jobs, stopped, started>>
-----------------------------------------------------------------------------
(* The three requests that create a job *)

NewJob(kind, name, branch, prompt, intent, from, order, via) ==
    [kind |-> kind, name |-> name,
     branch |-> IF kind = "repository" THEN Or(branch, "main") ELSE None,
     prompt |-> prompt, intent |-> intent, from |-> from, order |-> order,
     via |-> via, status |-> "probing"]

(* What dispatch_thread_message makes of a message: the request's own      *)
(* fields go first, then the draft's, then what the text suggests.  A kind *)
(* that is left out reads "repository".                                    *)
(* Mutant of HandoffKind: the kind comes from the request alone.           *)
HandoffKindOrdered(d, order) == order.kind
HandoffKind(d, order) ==
    IF d # NoDraft /\ order.kind = "repository" /\ order.name = None
    THEN d.kind ELSE order.kind

Handoff(i, order) ==
    LET d == log[i].draft
        text == Or(order.prompt, log[i].text)
    IN NewJob(HandoffKind(d, order),
              Or(order.name, IF d = NoDraft THEN None ELSE d.name),
              Or(order.branch, IF d = NoDraft THEN None ELSE d.branch),
              IF d = NoDraft \/ order.prompt # None THEN <<text>> ELSE d.prompt,
              Or(order.intent, IF d = NoDraft THEN InferExecutionIntent(text)
                               ELSE d.intent),
              i, order, "workflow.handoff.created")

Ordered(text, from, order, via) ==
    NewJob(order.kind, order.name, order.branch, <<text>>,
           Or(order.intent, InferExecutionIntent(text)), from, order, via)

DispatchMessage(c) ==
    /\ StartsJob(c)
    /\ \E i \in DOMAIN log, order \in Orders :
          /\ log[i].role \in {"user", "assistant"}
          /\ Goto(c, [pc |-> "create", new |-> Handoff(i, order)])
    /\ UNCHANGED <<exists, log, jobs, stopped>>

ChatDispatch(c) ==
    /\ StartsJob(c)
    /\ \E order \in Orders :
          /\ order.prompt # None
          /\ Post(Plain("user", "committed", order.prompt))
          /\ Goto(c, [pc |-> "create",
                      new |-> Ordered(order.prompt, Len(log) + 1, order,
                                      "workflow.dispatch.created")])
    /\ UNCHANGED <<exists, jobs, stopped>>

CreateJob(c) ==
    /\ StartsJob(c)
    /\ \E order \in Orders :
          /\ order.prompt # None
          /\ Goto(c, [pc |-> "create", new |-> Ordered(order.prompt, 0, order, None)])
    /\ UNCHANGED <<exists, log, jobs, stopped>>

(* create_job_record, once it has found a device for the target.           *)
InsertJob(c) ==
    /\ At(c, "create")
    /\ request[c].new.name # None
    /\ jobs' = Append(jobs, request[c].new)
    /\ Goto(c, [pc |-> "dispatch", job |-> Len(jobs) + 1])
    /\ UNCHANGED <<exists, log, stopped, started>>

Dispatched(c, status, next) ==
    /\ At(c, "dispatch")
    /\ jobs' = [jobs EXCEPT ![request[c].job].status = status]
    /\ Goto(c, next)
    /\ UNCHANGED <<exists, log, stopped, started>>
AttemptEnds(c) == \E status \in {"dispatched", "unavailable"} :
    Dispatched(c, status,
        IF jobs[request[c].job].via = None THEN [pc |-> "finish"]
        ELSE [pc |-> "acknowledge", job |-> request[c].job])
(* Mutant of PublishFails: the error is not passed on. *)
PublishFailsUnheard(c) ==
    /\ At(c, "dispatch") /\ jobs[request[c].job].via # None
    /\ Dispatched(c, "publish_failed", [pc |-> "acknowledge", job |-> request[c].job])
(* The publish fails: the job stays, failed, and the request ends there.   *)
PublishFails(c) == Dispatched(c, "publish_failed", NoRequest)

Acknowledge(c) ==
    /\ At(c, "acknowledge")
    /\ Post([Plain("system", jobs[request[c].job].via, ReplyText) EXCEPT
               !.job = request[c].job])
    /\ Goto(c, [pc |-> "finish"])
    /\ UNCHANGED <<exists, jobs, stopped, started>>
-----------------------------------------------------------------------------
(* touch_thread, the UI event and the answer.                              *)
Finish(c) ==
    /\ At(c, "finish")
    /\ Goto(c, NoRequest)
    /\ UNCHANGED <<exists, log, jobs, stopped, started>>

(* No device serves the target, a statement or a call fails, the client    *)
(* hangs up, the process restarts: what was written stays.                 *)
RequestStops(c) ==
    /\ ~At(c, "idle") /\ ~At(c, "finish")
    /\ Goto(c, NoRequest)
    /\ stopped' = IF At(c, "acknowledge") THEN stopped \cup {request[c].job} ELSE stopped
    /\ UNCHANGED <<exists, log, jobs, started>>

ThreadsNext ==
    \/ CreateThread
    \/ \E c \in Clients :
          \/ CreateMessage(c)
          \/ Chat(c) \/ LoadMessages(c) \/ LoadJobs(c) \/ PostReply(c)
          \/ DispatchMessage(c) \/ ChatDispatch(c) \/ CreateJob(c)
          \/ InsertJob(c) \/ AttemptEnds(c) \/ PublishFails(c) \/ Acknowledge(c)
          \/ Finish(c) \/ RequestStops(c)
=============================================================================
