----------------------------- MODULE ThreadProofs -----------------------------
(***************************************************************************)
(* However many requests write to a thread at once, and wherever they stop:*)
(* replies and drafts are made of what was said before them, and a job is  *)
(* what its draft showed and is acknowledged once.  A thread's log only    *)
(* grows, so that what was true of a prefix of it stays true.              *)
(***************************************************************************)
EXTENDS ThreadRoutes, FiniteSetTheorems, TLAPS

Kinds == {"repository", "capability"}
SomeDraft == Draft \cup {NoDraft}
SomeTarget == Target \cup {NoTarget}

-----------------------------------------------------------------------------
(* Drafts *)

LEMMA OrNames ==
    ASSUME NEW a \in MaybeName, NEW b \in MaybeName
    PROVE  /\ Or(a, b) \in MaybeName
           /\ b # None => Or(a, b) \in Names
BY DEF Or, MaybeName

LEMMA InferTyped ==
    ASSUME NEW t \in Texts
    PROVE  InferExecutionIntent(t) \in Intent
BY DEF InferExecutionIntent, Intent

LEMMA ReadingTyped ==
    ASSUME NEW t \in Texts
    PROVE  Reading[t] \in Finding
BY DraftAssumption

LEMMA MergeTyped ==
    ASSUME NEW prompt \in Seq(Texts), NEW update \in Texts \cup {None}
    PROVE  /\ MergeRequestText(prompt, update) \in Seq(Texts)
           /\ IsPrefix(prompt, MergeRequestText(prompt, update))
<1>1. CASE MergeRequestText(prompt, update) = prompt
  BY <1>1 DEF IsPrefix
<1>2. CASE MergeRequestText(prompt, update) # prompt
  <2>1. update \in Texts /\ MergeRequestText(prompt, update) = Append(prompt, update)
    BY <1>2 DEF MergeRequestText
  <2>2. /\ Append(prompt, update) \in Seq(Texts)
        /\ Len(prompt) \in Nat /\ Len(Append(prompt, update)) = Len(prompt) + 1
        /\ \A i \in 1 .. Len(prompt) : Append(prompt, update)[i] = prompt[i]
    BY <2>1
  <2>3. SubSeq(Append(prompt, update), 1, Len(prompt)) = SubSeq(prompt, 1, Len(prompt))
    BY <2>2
  <2>4. QED
    BY <2>1, <2>2, <2>3 DEF IsPrefix
<1>3. QED
  BY <1>1, <1>2

LEMMA DraftTyped ==
    ASSUME NEW t \in Texts, NEW source \in Nat, NEW prev \in SomeDraft,
           NEW target \in SomeTarget
    PROVE  BuildDraft(t, source, prev, target) \in SomeDraft
<1> SUFFICES ASSUME ShouldDraft(t, prev)
             PROVE  BuildDraft(t, source, prev, target) \in Draft
  BY DEF BuildDraft, SomeDraft
<1>1. Reading[t] \in Finding
  BY ReadingTyped
<1>2. prev # NoDraft => prev \in Draft
  BY DEF SomeDraft
<1>3. target # NoTarget => target \in Target
  BY DEF SomeTarget
<1>4. DraftKind(t, prev) \in Kinds
  BY DEF DraftKind, Kinds
<1>5. DraftName(t, prev, target) \in Names
  <2> DEFINE prevName == IF prev = NoDraft THEN None ELSE prev.name
             jobRepo == IF target = NoTarget THEN None ELSE target.repo
  <2>1. /\ prevName \in MaybeName /\ jobRepo \in MaybeName /\ Reading[t].repo \in MaybeName
        /\ "generic_jobs" \in MaybeName /\ "generic_jobs" # None
        /\ "unspecified" \in MaybeName /\ "unspecified" # None
    BY <1>1, <1>2, <1>3, DraftAssumption DEF Draft, Target, Finding, MaybeName
  <2>2. DraftName(t, prev, target) =
           IF DraftKind(t, prev) = "capability" THEN Or(prevName, "generic_jobs")
           ELSE Or(Or(Or(Reading[t].repo, prevName), jobRepo), "unspecified")
    BY DEF DraftName
  <2> HIDE DEF prevName, jobRepo
  <2>3. Or(Or(Reading[t].repo, prevName), jobRepo) \in MaybeName
    BY <2>1, OrNames
  <2>4. QED
    BY <2>1, <2>2, <2>3, OrNames
<1>6. DraftBranch(t, prev, target) \in MaybeName
  <2> DEFINE prevBranch == IF prev = NoDraft THEN None ELSE prev.branch
             jobBranch == IF target = NoTarget THEN None ELSE target.branch
  <2>1. /\ prevBranch \in MaybeName /\ jobBranch \in MaybeName /\ Reading[t].branch \in MaybeName
        /\ "main" \in MaybeName /\ None \in MaybeName
    BY <1>1, <1>2, <1>3, DraftAssumption DEF Draft, Target, Finding, MaybeName
  <2>2. DraftBranch(t, prev, target) =
           IF DraftKind(t, prev) = "capability" THEN None
           ELSE Or(Or(Or(Reading[t].branch, prevBranch), jobBranch), "main")
    BY DEF DraftBranch
  <2> HIDE DEF prevBranch, jobBranch
  <2>3. QED
    BY <2>1, <2>2, OrNames
<1>7. DraftPrompt(t, prev) \in Seq(Texts)
  <2>1. CASE Reading[t].execution \/ prev = NoDraft
    BY <2>1 DEF DraftPrompt
  <2>2. CASE ~(Reading[t].execution \/ prev = NoDraft)
    <3>1. prev.prompt \in Seq(Texts) /\ Reading[t].update \in Texts \cup {None}
      BY <1>1, <1>2, <2>2 DEF Draft, Finding
    <3>2. QED
      BY <2>2, <3>1, MergeTyped DEF DraftPrompt
  <2>3. QED
    BY <2>1, <2>2
<1>8. DraftIntent(t, prev) \in Intent
  <2>1. Reading[t].override \in Intent \cup {None} /\ (prev # NoDraft => prev.intent \in Intent)
    BY <1>1, <1>2 DEF Finding, Draft
  <2>2. QED
    BY <2>1, InferTyped DEF DraftIntent, Or
<1>9. BuildDraft(t, source, prev, target) =
         [kind |-> DraftKind(t, prev), name |-> DraftName(t, prev, target),
          branch |-> DraftBranch(t, prev, target), prompt |-> DraftPrompt(t, prev),
          intent |-> DraftIntent(t, prev), source |-> source]
  BY DEF BuildDraft
<1>10. QED
  BY <1>4, <1>5, <1>6, <1>7, <1>8, <1>9 DEF Draft, Kinds

(* What a draft takes over from the one before it.                         *)
LEMMA DraftKeeps ==
    ASSUME NEW t \in Texts, NEW source \in Nat, NEW prev \in SomeDraft,
           NEW target \in SomeTarget, NEW d,
           d = BuildDraft(t, source, prev, target), d # NoDraft
    PROVE  /\ d.source = source
           /\ d.branch = None <=> d.kind = "capability"
           /\ prev # NoDraft /\ ~Reading[t].execution => IsPrefix(prev.prompt, d.prompt)
           /\ prev # NoDraft /\ prev.intent = "read_only" /\ d.intent = "workspace_change"
                 => AsksForChange(t)
<1>1. /\ d.kind = DraftKind(t, prev) /\ d.branch = DraftBranch(t, prev, target)
      /\ d.prompt = DraftPrompt(t, prev) /\ d.intent = DraftIntent(t, prev)
      /\ d.source = source
  BY DEF BuildDraft
<1>2. Reading[t] \in Finding
  BY ReadingTyped
<1>3. d.branch = None <=> d.kind = "capability"
  BY <1>1, DraftAssumption DEF DraftBranch, Or
<1>4. ASSUME prev # NoDraft, ~Reading[t].execution
      PROVE  IsPrefix(prev.prompt, d.prompt)
  <2>1. prev.prompt \in Seq(Texts) /\ Reading[t].update \in Texts \cup {None}
    BY <1>2, <1>4 DEF SomeDraft, Draft, Finding
  <2>2. QED
    BY <1>1, <1>4, <2>1, MergeTyped DEF DraftPrompt
<1>5. ASSUME prev # NoDraft, prev.intent = "read_only", d.intent = "workspace_change"
      PROVE  AsksForChange(t)
  <2>1. CASE Reading[t].execution
    BY <1>1, <1>5, <2>1 DEF DraftIntent, InferExecutionIntent, AsksForChange
  <2>2. CASE ~Reading[t].execution
    BY <1>1, <1>5, <2>2 DEF DraftIntent, Or, AsksForChange
  <2>3. QED
    BY <2>1, <2>2
<1>6. QED
  BY <1>1, <1>3, <1>4, <1>5
-----------------------------------------------------------------------------
(* What is true of a prefix of a log, and stays true when the log grows.   *)

Users(lg, n) == {i \in 1 .. n : lg[i].role = "user"}
Drafts(lg, n) == {i \in 1 .. n : lg[i].draft # NoDraft}
LastDraft(lg, n) == IF Drafts(lg, n) = {} THEN {NoDraft}
               ELSE {lg[i].draft : i \in LatestIn(Drafts(lg, n))}

(* The draft is made of the first n messages.                              *)
MadeOf(lg, n, d) == d # NoDraft =>
    \E i \in LatestIn(Users(lg, n)), prev \in LastDraft(lg, n), target \in SomeTarget :
        d = BuildDraft(lg[i].text, i, prev, target)

ReplySound(lg, i) ==
    /\ lg[i].draft # NoDraft => IsReply(lg[i])
    /\ IsReply(lg[i]) =>
          /\ lg[i].answers \in 1 .. lg[i].seen
          /\ lg[i].seen < i
          /\ lg[lg[i].answers].role = "user"
          /\ MadeOf(lg, lg[i].seen, lg[i].draft)

(* What a request holds of the log and of the jobs.                        *)
RequestSound(lg, jb, r) ==
    /\ r.pc \in {"messages", "jobs", "reply"} =>
          r.own \in 1 .. Len(lg) /\ lg[r.own].role = "user"
    /\ r.pc \in {"jobs", "reply"} => r.seen \in r.own .. Len(lg)
    /\ r.pc = "reply" => MadeOf(lg, r.seen, r.draft)
    /\ r.pc \in {"dispatch", "acknowledge"} => r.job \in 1 .. Len(jb)
    /\ r.pc = "acknowledge" => jb[r.job].via # None

ThreadInv ==
    /\ ThreadsTypeOK
    /\ \A i \in 1 .. Len(log) : ReplySound(log, i)
    /\ \A c \in Clients : RequestSound(log, jobs, request[c])

LEMMA LogGrows ==
    ASSUME NEW lg \in Seq(Message), NEW m, NEW n \in 0 .. Len(lg), NEW d
    PROVE  MadeOf(Append(lg, m), n, d) <=> MadeOf(lg, n, d)
<1>1. \A i \in 1 .. n : Append(lg, m)[i] = lg[i]
  OBVIOUS
<1>2. Users(Append(lg, m), n) = Users(lg, n) /\ Drafts(Append(lg, m), n) = Drafts(lg, n)
  BY <1>1 DEF Users, Drafts
<1>3. \A i \in LatestIn(Users(lg, n)) \cup LatestIn(Drafts(lg, n)) : i \in 1 .. n
  BY DEF LatestIn, Users, Drafts
<1>4. LastDraft(Append(lg, m), n) = LastDraft(lg, n)
  BY <1>1, <1>2, <1>3 DEF LastDraft
<1>5. QED
  BY <1>1, <1>2, <1>3, <1>4 DEF MadeOf

LEMMA ReplyStays ==
    ASSUME NEW lg \in Seq(Message), NEW m, NEW i \in 1 .. Len(lg), ReplySound(lg, i)
    PROVE  ReplySound(Append(lg, m), i)
<1>1. \A k \in 1 .. Len(lg) : Append(lg, m)[k] = lg[k]
  OBVIOUS
<1>2. CASE ~IsReply(lg[i])
  BY <1>1, <1>2 DEF ReplySound
<1>3. CASE IsReply(lg[i])
  <2>0. lg[i] \in Message
    OBVIOUS
  <2>1. lg[i].seen \in Nat /\ lg[i].answers \in Nat
    BY <2>0 DEF Message
  <2>2. lg[i].seen \in 0 .. Len(lg) /\ lg[i].answers \in 1 .. Len(lg)
    BY <1>3, <2>1 DEF ReplySound
  <2>3. QED
    BY <1>1, <1>3, <2>2, LogGrows DEF ReplySound
<1>4. QED
  BY <1>2, <1>3

LEMMA RequestStays ==
    ASSUME NEW lg \in Seq(Message), NEW m, NEW jb, NEW r \in Request,
           RequestSound(lg, jb, r)
    PROVE  RequestSound(Append(lg, m), jb, r)
<1>1. /\ \A k \in 1 .. Len(lg) : Append(lg, m)[k] = lg[k]
      /\ Len(Append(lg, m)) = Len(lg) + 1 /\ Len(lg) \in Nat
  OBVIOUS
<1>2. r.pc = "reply" => r.seen \in 0 .. Len(lg)
  BY <1>1 DEF RequestSound
<1>3. r.pc = "reply" => MadeOf(Append(lg, m), r.seen, r.draft)
  BY <1>2, LogGrows DEF RequestSound
<1>4. r.pc \in {"jobs", "reply"} => r.seen \in r.own .. Len(lg) + 1
  BY <1>1 DEF RequestSound
<1>5. QED
  BY <1>1, <1>3, <1>4 DEF RequestSound

-----------------------------------------------------------------------------
(* Types *)

LEMMA PlainTyped ==
    ASSUME NEW role \in {"user", "assistant", "system"},
           NEW status \in {"committed", "conversation.reply"} \cup Acknowledgements,
           NEW t \in Texts
    PROVE  Plain(role, status, t) \in Message
BY DEF Plain, Message

LEMMA AnswerTyped ==
    ASSUME NEW m \in Message, NEW draft \in SomeDraft, NEW answers \in Nat, NEW seen \in Nat
    PROVE  [m EXCEPT !.draft = draft, !.answers = answers, !.seen = seen] \in Message
<1>1. [m EXCEPT !.draft = draft] \in Message
  BY DEF Message, SomeDraft
<1>2. [m EXCEPT !.draft = draft, !.answers = answers] \in Message
  BY <1>1 DEF Message
<1>3. QED
  BY <1>2 DEF Message

LEMMA OrderTyped ==
    ASSUME NEW order \in Orders
    PROVE  order \in Order
BY ThreadAssumption

LEMMA NewJobTyped ==
    ASSUME NEW kind \in Kinds, NEW name \in MaybeName, NEW branch \in MaybeName,
           NEW prompt \in Seq(Texts), NEW intent \in Intent, NEW from \in Nat,
           NEW order \in Orders, NEW via \in Acknowledgements \cup {None}
    PROVE  NewJob(kind, name, branch, prompt, intent, from, order, via) \in Job
<1>1. (IF kind = "repository" THEN Or(branch, "main") ELSE None) \in MaybeName
  BY OrNames, DraftAssumption DEF MaybeName
<1>2. QED
  BY <1>1 DEF NewJob, Job, Kinds

LEMMA HandoffTyped ==
    ASSUME log \in Seq(Message), NEW i \in DOMAIN log, NEW order \in Orders
    PROVE  Handoff(i, order) \in Job
<1> DEFINE d == log[i].draft
           text == Or(order.prompt, log[i].text)
           name == Or(order.name, IF d = NoDraft THEN None ELSE d.name)
           branch == Or(order.branch, IF d = NoDraft THEN None ELSE d.branch)
           prompt == IF d = NoDraft \/ order.prompt # None THEN <<text>> ELSE d.prompt
           intent == Or(order.intent, IF d = NoDraft THEN InferExecutionIntent(text)
                                      ELSE d.intent)
<1>1. /\ log[i] \in Message /\ i \in Nat /\ order \in Order
  BY OrderTyped
<1>2. d # NoDraft => d \in Draft
  BY <1>1 DEF Message
<1>3. text \in Texts
  BY <1>1 DEF Or, Order, Message
<1>4. name \in MaybeName /\ branch \in MaybeName
  BY <1>1, <1>2, OrNames DEF Draft, Order, MaybeName
<1>5. prompt \in Seq(Texts)
  BY <1>2, <1>3 DEF Draft
<1>6. intent \in Intent
  BY <1>1, <1>2, <1>3, InferTyped DEF Or, Order, Draft
<1>7. HandoffKind(d, order) \in Kinds
  BY <1>1, <1>2 DEF HandoffKind, Order, Draft, Kinds
<1>8. Handoff(i, order) = NewJob(HandoffKind(d, order), name, branch, prompt, intent,
                                 i, order, "workflow.handoff.created")
  BY DEF Handoff
<1> HIDE DEF d, text, name, branch, prompt, intent
<1>9. QED
  BY <1>1, <1>4, <1>5, <1>6, <1>7, <1>8, NewJobTyped DEF Acknowledgements

LEMMA OrderedTyped ==
    ASSUME NEW order \in Orders, order.prompt # None, NEW from \in Nat,
           NEW via \in Acknowledgements \cup {None}
    PROVE  Ordered(order.prompt, from, order, via) \in Job
<1>1. order \in Order /\ order.prompt \in Texts
  BY OrderTyped DEF Order
<1>2. Or(order.intent, InferExecutionIntent(order.prompt)) \in Intent
  BY <1>1, InferTyped DEF Or, Order
<1>3. /\ order.kind \in Kinds /\ order.name \in MaybeName /\ order.branch \in MaybeName
      /\ <<order.prompt>> \in Seq(Texts)
  BY <1>1 DEF Order, Kinds
<1> HIDE DEF Order
<1>4. QED
  BY <1>2, <1>3, NewJobTyped DEF Ordered

LEMMA TargetTyped ==
    ASSUME jobs \in Seq(Job)
    PROVE  NewestTarget \in SomeTarget
<1>1. CASE jobs = <<>>
  BY <1>1 DEF NewestTarget, SomeTarget
<1>2. CASE jobs # <<>>
  <2>1. jobs[Len(jobs)] \in Job
    BY <1>2
  <2>2. QED
    BY <1>2, <2>1 DEF NewestTarget, SomeTarget, Target, Job, MaybeName
<1>3. QED
  BY <1>1, <1>2

LEMMA Goes ==
    ASSUME request \in [Clients -> Request], NEW c \in Clients, NEW next \in Request,
           Goto(c, next)
    PROVE  /\ request' \in [Clients -> Request]
           /\ request'[c] = next
           /\ \A d \in Clients \ {c} : request'[d] = request[d]
BY DEF Goto

(* A statement that posts m, which is no reply, in the name of c.          *)
LEMMA Posts ==
    ASSUME ThreadInv, NEW c \in Clients, NEW m \in Message, NEW next \in Request,
           Post(m), Goto(c, next), UNCHANGED jobs,
           ReplySound(log', Len(log) + 1), RequestSound(log', jobs, next),
           exists' \in BOOLEAN, stopped' \subseteq Nat, started' \in Nat \X Nat
    PROVE  ThreadInv'
<1>1. log \in Seq(Message) /\ log' = Append(log, m) /\ jobs \in Seq(Job)
  BY DEF ThreadInv, ThreadsTypeOK, Post
<1>2. log' \in Seq(Message) /\ Len(log') = Len(log) + 1 /\ Len(log) \in Nat
  BY <1>1
<1>3. request \in [Clients -> Request]
  BY DEF ThreadInv, ThreadsTypeOK
<1>4. \A i \in 1 .. Len(log') : ReplySound(log', i)
  <2> SUFFICES ASSUME NEW i \in 1 .. Len(log)
               PROVE  ReplySound(log', i)
    BY <1>2
  <2>1. ReplySound(log, i)
    BY DEF ThreadInv
  <2>2. QED
    BY <1>1, <2>1, ReplyStays
<1>5. ASSUME NEW d \in Clients
      PROVE  RequestSound(log', jobs, request'[d])
  <2>1. CASE d = c
    BY <1>3, <2>1, Goes
  <2>2. CASE d # c
    <3>1. request[d] \in Request /\ RequestSound(log, jobs, request[d])
      BY <1>3 DEF ThreadInv
    <3>2. request'[d] = request[d]
      BY <1>3, <2>2, Goes
    <3>3. QED
      BY <1>1, <3>1, <3>2, RequestStays
  <2>3. QED
    BY <2>1, <2>2
<1>6. request' \in [Clients -> Request] /\ jobs' = jobs
  BY <1>3, Goes
<1>7. QED
  BY <1>1, <1>2, <1>4, <1>5, <1>6 DEF ThreadInv, ThreadsTypeOK

(* A statement that posts nothing.                                         *)
LEMMA Proceeds ==
    ASSUME ThreadInv, NEW c \in Clients, NEW next \in Request, Goto(c, next),
           UNCHANGED log, jobs' \in Seq(Job), RequestSound(log, jobs', next),
           \A d \in Clients : RequestSound(log, jobs', request[d]),
           exists' \in BOOLEAN, stopped' \subseteq Nat, started' \in Nat \X Nat
    PROVE  ThreadInv'
<1>1. request \in [Clients -> Request]
  BY DEF ThreadInv, ThreadsTypeOK
<1>2. /\ request' \in [Clients -> Request] /\ request'[c] = next
      /\ \A d \in Clients \ {c} : request'[d] = request[d]
  BY <1>1, Goes
<1>3. \A d \in Clients : RequestSound(log, jobs', request'[d])
  BY <1>2
<1>4. QED
  BY <1>2, <1>3 DEF ThreadInv, ThreadsTypeOK

LEMMA PlainSound ==
    ASSUME log \in Seq(Message), NEW m \in Message, m.draft = NoDraft, ~IsReply(m), Post(m)
    PROVE  ReplySound(log', Len(log) + 1)
<1>1. log'[Len(log) + 1] = m
  BY DEF Post
<1>2. QED
  BY <1>1 DEF ReplySound

-----------------------------------------------------------------------------
(* The invariant *)

LEMMA ThreadInit ==
    ASSUME Init
    PROVE  ThreadInv
<1>1. NoRequest \in Request /\ RequestSound(log, jobs, NoRequest)
  BY DEF NoRequest, Request, RequestSound
<1>2. /\ exists = FALSE /\ log = <<>> /\ jobs = <<>> /\ stopped = {} /\ started = <<0, 0>>
      /\ request = [c \in Clients |-> NoRequest]
  BY DEF Init, ThreadsInit
<1> HIDE DEF NoRequest
<1>3. request \in [Clients -> Request]
  BY <1>1, <1>2
<1>4. log \in Seq(Message) /\ jobs \in Seq(Job) /\ Len(log) = 0
  BY <1>2
<1>5. ThreadsTypeOK
  <2>1. exists \in BOOLEAN /\ stopped \subseteq Nat /\ started \in Nat \X Nat
    BY <1>2
  <2>2. QED
    BY <1>3, <1>4, <2>1 DEF ThreadsTypeOK
<1>6. \A c \in Clients : request[c] = NoRequest
  BY <1>2
<1>7. QED
  BY <1>1, <1>4, <1>5, <1>6 DEF ThreadInv

LEMMA StartedTyped ==
    ASSUME ThreadsTypeOK
    PROVE  /\ \A c \in Clients : Starts(c) \/ StartsJob(c) => started' \in Nat \X Nat
           /\ exists \in BOOLEAN /\ stopped \subseteq Nat /\ started \in Nat \X Nat
           /\ Len(log) \in Nat /\ Len(jobs) \in Nat
           /\ log \in Seq(Message) /\ jobs \in Seq(Job)
BY DEF ThreadsTypeOK, Starts, StartsJob

LEMMA CreateMessageKeeps ==
    ASSUME ThreadInv, NEW c \in Clients, CreateMessage(c)
    PROVE  ThreadInv'
<1>1. PICK role \in {"user", "assistant", "system"}, t \in Texts :
         Post(Plain(role, "committed", t))
  BY ThreadAssumption DEF CreateMessage
<1> DEFINE m == Plain(role, "committed", t)
<1>2. m \in Message /\ m.draft = NoDraft /\ ~IsReply(m)
  BY PlainTyped DEF Plain, IsReply
<1>3. [pc |-> "finish"] \in Request /\ RequestSound(log', jobs, [pc |-> "finish"])
  BY DEF Request, RequestSound
<1>4. log \in Seq(Message) /\ started' \in Nat \X Nat
      /\ exists' \in BOOLEAN /\ stopped' \subseteq Nat
  BY StartedTyped DEF ThreadInv, CreateMessage
<1>5. ReplySound(log', Len(log) + 1)
  BY <1>1, <1>2, <1>4, PlainSound
<1>6. Goto(c, [pc |-> "finish"]) /\ UNCHANGED jobs
  BY DEF CreateMessage
<1> HIDE DEF m
<1>7. QED
  BY <1>1, <1>2, <1>3, <1>4, <1>5, <1>6, Posts DEF m

LEMMA ChatKeeps ==
    ASSUME ThreadInv, NEW c \in Clients, Chat(c)
    PROVE  ThreadInv'
<1>1. PICK t \in Texts : Post(Plain("user", "committed", t))
  BY DEF Chat
<1> DEFINE m == Plain("user", "committed", t)
           next == [pc |-> "messages", own |-> Len(log) + 1]
<1>2. m \in Message /\ m.draft = NoDraft /\ ~IsReply(m) /\ m.role = "user"
  BY PlainTyped DEF Plain, IsReply
<1>3. log \in Seq(Message) /\ started' \in Nat \X Nat
      /\ exists' \in BOOLEAN /\ stopped' \subseteq Nat
  BY StartedTyped DEF ThreadInv, Chat
<1>4. ReplySound(log', Len(log) + 1)
  BY <1>1, <1>2, <1>3, PlainSound
<1>5. next \in Request /\ RequestSound(log', jobs, next)
  <2>1. next \in Request
    BY <1>3 DEF Request
  <2>2. Len(log') = Len(log) + 1 /\ log'[Len(log) + 1] = m
    BY <1>1, <1>2, <1>3 DEF Post
  <2>3. QED
    BY <1>2, <1>3, <2>1, <2>2 DEF RequestSound
<1>6. Goto(c, next) /\ UNCHANGED jobs
  BY DEF Chat
<1> HIDE DEF m, next
<1>7. QED
  BY <1>1, <1>2, <1>3, <1>4, <1>5, <1>6, Posts DEF m

LEMMA LoadMessagesKeeps ==
    ASSUME ThreadInv, NEW c \in Clients, LoadMessages(c)
    PROVE  ThreadInv'
<1> DEFINE next == [pc |-> "jobs", own |-> request[c].own, seen |-> Len(log)]
<1>1. /\ Goto(c, next) /\ UNCHANGED <<exists, log, jobs, stopped, started>>
      /\ request[c].pc = "messages"
  BY DEF LoadMessages, At
<1>2. RequestSound(log, jobs, request[c]) /\ request[c] \in Request
  BY DEF ThreadInv, ThreadsTypeOK
<1>3. Len(log) \in Nat /\ jobs \in Seq(Job) /\ exists \in BOOLEAN
      /\ stopped \subseteq Nat /\ started \in Nat \X Nat
  BY StartedTyped DEF ThreadInv
<1>4. request[c].own \in 1 .. Len(log) /\ log[request[c].own].role = "user"
  BY <1>1, <1>2 DEF RequestSound
<1>5. next \in Request
  BY <1>3, <1>4 DEF Request
<1>6. RequestSound(log, jobs, next)
  BY <1>3, <1>4 DEF RequestSound
<1>7. \A d \in Clients : RequestSound(log, jobs, request[d])
  BY DEF ThreadInv
<1> HIDE DEF next
<1>8. QED
  BY <1>1, <1>3, <1>5, <1>6, <1>7, Proceeds

LEMMA LoadJobsKeeps ==
    ASSUME ThreadInv, NEW c \in Clients, LoadJobs(c)
    PROVE  ThreadInv'
<1> DEFINE seen == request[c].seen
<1>1. request[c].pc = "jobs" /\ UNCHANGED <<exists, log, jobs, stopped, started>>
  BY DEF LoadJobs, At
<1>2. RequestSound(log, jobs, request[c])
  BY DEF ThreadInv
<1>3. Len(log) \in Nat /\ jobs \in Seq(Job) /\ log \in Seq(Message) /\ exists \in BOOLEAN
      /\ stopped \subseteq Nat /\ started \in Nat \X Nat
  BY StartedTyped DEF ThreadInv
<1>4. /\ request[c].own \in 1 .. Len(log) /\ log[request[c].own].role = "user"
      /\ seen \in request[c].own .. Len(log)
  BY <1>1, <1>2 DEF RequestSound
<1>5. /\ LatestIn(UsersIn(seen)) = LatestIn(Users(log, seen))
      /\ DraftSeen(seen) = LastDraft(log, seen)
  BY DEF UsersIn, Users, DraftSeen, DraftsIn, Drafts, LastDraft
<1>6. PICK i \in LatestIn(Users(log, seen)), prev \in LastDraft(log, seen) :
         Goto(c, [pc |-> "reply", own |-> request[c].own, seen |-> seen,
                  draft |-> BuildDraft(log[i].text, i, prev, NewestTarget)])
  BY <1>5 DEF LoadJobs
<1> DEFINE d == BuildDraft(log[i].text, i, prev, NewestTarget)
           next == [pc |-> "reply", own |-> request[c].own, seen |-> seen, draft |-> d]
<1>7. NewestTarget \in SomeTarget
  BY <1>3, TargetTyped
<1>8. i \in Nat /\ log[i].text \in Texts
  <2>1. i \in 1 .. Len(log)
    BY <1>3, <1>4 DEF LatestIn, Users
  <2>2. log[i] \in Message
    BY <1>3, <2>1
  <2>3. QED
    BY <2>1, <2>2 DEF Message
<1>9. prev \in SomeDraft
  <2>1. CASE prev = NoDraft
    BY <2>1 DEF SomeDraft
  <2>2. CASE prev # NoDraft
    <3>1. PICK k \in 1 .. Len(log) : prev = log[k].draft
      BY <1>3, <1>4, <2>2 DEF LastDraft, LatestIn, Drafts
    <3>2. log[k] \in Message
      BY <1>3
    <3>3. QED
      BY <3>1, <3>2 DEF Message, SomeDraft
  <2>3. QED
    BY <2>1, <2>2
<1>10. d \in SomeDraft
  BY <1>7, <1>8, <1>9, DraftTyped
<1>11. MadeOf(log, seen, d)
  BY <1>7 DEF MadeOf
<1> HIDE DEF d
<1>12. next \in Request
  BY <1>3, <1>4, <1>10 DEF Request, SomeDraft
<1>13. RequestSound(log, jobs, next)
  BY <1>4, <1>11 DEF RequestSound
<1>14. \A e \in Clients : RequestSound(log, jobs, request[e])
  BY DEF ThreadInv
<1>15. Goto(c, next)
  BY <1>6 DEF d
<1> HIDE DEF next
<1>16. QED
  BY <1>1, <1>3, <1>12, <1>13, <1>14, <1>15, Proceeds

LEMMA ReplyTyped ==
    ASSUME ThreadInv, NEW c \in Clients, At(c, "reply")
    PROVE  [Plain("assistant", "conversation.reply", ReplyText) EXCEPT
              !.draft = request[c].draft, !.answers = request[c].own,
              !.seen = request[c].seen] \in Message
<1> DEFINE r == request[c]
<1>1. r \in Request /\ r.pc = "reply"
  BY DEF ThreadInv, ThreadsTypeOK, At
<1>2. r.draft \in SomeDraft /\ r.own \in Nat /\ r.seen \in Nat
  BY <1>1 DEF Request, SomeDraft, NoRequest
<1> HIDE DEF r
<1>3. Plain("assistant", "conversation.reply", ReplyText) \in Message
  BY PlainTyped, ThreadAssumption
<1>4. [Plain("assistant", "conversation.reply", ReplyText) EXCEPT
         !.draft = r.draft, !.answers = r.own, !.seen = r.seen] \in Message
  BY <1>2, <1>3, AnswerTyped
<1>5. QED
  BY <1>4 DEF r

LEMMA PostReplyKeeps ==
    ASSUME ThreadInv, NEW c \in Clients, PostReply(c)
    PROVE  ThreadInv'
<1> DEFINE r == request[c]
           m == [Plain("assistant", "conversation.reply", ReplyText) EXCEPT
                   !.draft = r.draft, !.answers = r.own, !.seen = r.seen]
           next == [pc |-> "finish"]
<1>1. /\ r.pc = "reply" /\ Post(m) /\ Goto(c, next)
      /\ UNCHANGED <<exists, jobs, stopped, started>>
  BY DEF PostReply, At
<1>2. RequestSound(log, jobs, r)
  BY DEF ThreadInv
<1>3. Len(log) \in Nat /\ log \in Seq(Message) /\ exists \in BOOLEAN
      /\ stopped \subseteq Nat /\ started \in Nat \X Nat
  BY StartedTyped DEF ThreadInv
<1>4. /\ r.own \in 1 .. Len(log) /\ log[r.own].role = "user"
      /\ r.seen \in r.own .. Len(log) /\ MadeOf(log, r.seen, r.draft)
  BY <1>1, <1>2 DEF RequestSound
<1>5. m \in Message
  BY <1>1, ReplyTyped DEF At
<1> HIDE DEF r
<1>6. /\ m.draft = r.draft /\ m.answers = r.own /\ m.seen = r.seen /\ IsReply(m)
  BY DEF IsReply, Plain
<1> HIDE DEF m
<1>7. log' = Append(log, m) /\ log'[Len(log) + 1] = m
      /\ \A k \in 1 .. Len(log) : log'[k] = log[k]
  BY <1>1, <1>3, <1>5 DEF Post
<1>8. MadeOf(log', r.seen, r.draft)
  BY <1>3, <1>4, <1>7, LogGrows
<1>9. ReplySound(log', Len(log) + 1)
  BY <1>3, <1>4, <1>6, <1>7, <1>8 DEF ReplySound
<1>10. next \in Request /\ RequestSound(log', jobs, next)
  BY DEF Request, RequestSound
<1> HIDE DEF next
<1>11. QED
  BY <1>1, <1>3, <1>5, <1>9, <1>10, Posts

LEMMA NewRequestKeeps ==
    ASSUME ThreadInv, NEW c \in Clients, StartsJob(c), NEW new \in Job,
           Goto(c, [pc |-> "create", new |-> new]),
           UNCHANGED <<exists, jobs, stopped>>,
           \/ UNCHANGED log
           \/ \E t \in Texts : Post(Plain("user", "committed", t))
    PROVE  ThreadInv'
<1> DEFINE next == [pc |-> "create", new |-> new]
<1>1. /\ next \in Request /\ RequestSound(log, jobs, next) /\ RequestSound(log', jobs, next)
  BY DEF Request, RequestSound
<1>2. log \in Seq(Message) /\ started' \in Nat \X Nat /\ jobs \in Seq(Job)
      /\ exists' \in BOOLEAN /\ stopped' \subseteq Nat
  BY StartedTyped DEF ThreadInv
<1>3. Goto(c, next)
  OBVIOUS
<1> HIDE DEF next
<1>4. CASE UNCHANGED log
  <2>1. \A d \in Clients : RequestSound(log, jobs, request[d])
    BY DEF ThreadInv
  <2>2. QED
    BY <1>1, <1>2, <1>3, <1>4, <2>1, Proceeds
<1>5. ASSUME NEW t \in Texts, Post(Plain("user", "committed", t))
      PROVE  ThreadInv'
  <2> DEFINE m == Plain("user", "committed", t)
  <2>1. m \in Message /\ m.draft = NoDraft /\ ~IsReply(m)
    BY PlainTyped DEF Plain, IsReply
  <2>2. ReplySound(log', Len(log) + 1)
    BY <1>2, <1>5, <2>1, PlainSound
  <2> HIDE DEF m
  <2>3. QED
    BY <1>1, <1>2, <1>3, <1>5, <2>1, <2>2, Posts DEF m
<1>6. QED
  BY <1>4, <1>5

LEMMA DispatchMessageKeeps ==
    ASSUME ThreadInv, NEW c \in Clients, DispatchMessage(c)
    PROVE  ThreadInv'
<1>1. PICK i \in DOMAIN log, order \in Orders :
         Goto(c, [pc |-> "create", new |-> Handoff(i, order)])
  BY DEF DispatchMessage
<1>2. log \in Seq(Message)
  BY DEF ThreadInv, ThreadsTypeOK
<1>3. Handoff(i, order) \in Job
  BY <1>2, HandoffTyped
<1>4. StartsJob(c) /\ UNCHANGED <<exists, jobs, stopped>> /\ UNCHANGED log
  BY DEF DispatchMessage
<1>5. QED
  BY <1>1, <1>3, <1>4, NewRequestKeeps

LEMMA ChatDispatchKeeps ==
    ASSUME ThreadInv, NEW c \in Clients, ChatDispatch(c)
    PROVE  ThreadInv'
<1>1. PICK order \in Orders :
         /\ order.prompt # None
         /\ Post(Plain("user", "committed", order.prompt))
         /\ Goto(c, [pc |-> "create", new |-> Ordered(order.prompt, Len(log) + 1, order,
                                                     "workflow.dispatch.created")])
  BY DEF ChatDispatch
<1>2. Len(log) + 1 \in Nat
  BY StartedTyped DEF ThreadInv
<1>3. Ordered(order.prompt, Len(log) + 1, order, "workflow.dispatch.created") \in Job
  BY <1>1, <1>2, OrderedTyped DEF Acknowledgements
<1>4. order.prompt \in Texts
  BY <1>1, OrderTyped DEF Order
<1>5. StartsJob(c) /\ UNCHANGED <<exists, jobs, stopped>>
  BY DEF ChatDispatch
<1>6. QED
  BY <1>1, <1>3, <1>4, <1>5, NewRequestKeeps

LEMMA CreateJobKeeps ==
    ASSUME ThreadInv, NEW c \in Clients, CreateJob(c)
    PROVE  ThreadInv'
<1>1. PICK order \in Orders :
         /\ order.prompt # None
         /\ Goto(c, [pc |-> "create", new |-> Ordered(order.prompt, 0, order, None)])
  BY DEF CreateJob
<1>2. Ordered(order.prompt, 0, order, None) \in Job
  BY <1>1, OrderedTyped
<1>3. StartsJob(c) /\ UNCHANGED <<exists, jobs, stopped>> /\ UNCHANGED log
  BY DEF CreateJob
<1>4. QED
  BY <1>1, <1>2, <1>3, NewRequestKeeps

(* Another job, or another status of one: every request's job is still     *)
(* there, and is acknowledged as before.                                   *)
LEMMA JobsStay ==
    ASSUME NEW lg, NEW jb \in Seq(Job), NEW r, RequestSound(lg, jb, r), NEW new \in Seq(Job),
           Len(jb) <= Len(new), \A n \in 1 .. Len(jb) : new[n].via = jb[n].via
    PROVE  RequestSound(lg, new, r)
<1>1. Len(jb) \in Nat /\ Len(new) \in Nat
  OBVIOUS
<1>2. r.pc \in {"dispatch", "acknowledge"} => r.job \in 1 .. Len(jb)
  BY DEF RequestSound
<1>3. r.pc \in {"dispatch", "acknowledge"} => r.job \in 1 .. Len(new)
  BY <1>1, <1>2
<1>4. QED
  BY <1>2, <1>3 DEF RequestSound

LEMMA RequestedJob ==
    ASSUME request \in [Clients -> Request], NEW c \in Clients, request[c].pc = "create"
    PROVE  request[c].new \in Job
<1>1. request[c] \in Request
  OBVIOUS
<1>2. QED
  BY <1>1 DEF Request, NoRequest

LEMMA InsertJobKeeps ==
    ASSUME ThreadInv, NEW c \in Clients, InsertJob(c)
    PROVE  ThreadInv'
<1> DEFINE new == request[c].new
           next == [pc |-> "dispatch", job |-> Len(jobs) + 1]
<1>1. /\ request[c].pc = "create" /\ jobs' = Append(jobs, new) /\ Goto(c, next)
      /\ UNCHANGED <<exists, log, stopped, started>>
  BY DEF InsertJob, At
<1>2. new \in Job
  BY <1>1, RequestedJob DEF ThreadInv, ThreadsTypeOK
<1>3. Len(log) \in Nat /\ jobs \in Seq(Job) /\ exists \in BOOLEAN /\ Len(jobs) \in Nat
      /\ stopped \subseteq Nat /\ started \in Nat \X Nat
  BY StartedTyped DEF ThreadInv
<1> HIDE DEF new
<1>4. /\ jobs' \in Seq(Job) /\ Len(jobs') = Len(jobs) + 1
      /\ \A n \in 1 .. Len(jobs) : jobs'[n] = jobs[n]
  BY <1>1, <1>2, <1>3
<1>5. next \in Request /\ RequestSound(log, jobs', next)
  BY <1>3, <1>4 DEF Request, RequestSound
<1>6. \A d \in Clients : RequestSound(log, jobs', request[d])
  <2>1. \A d \in Clients : RequestSound(log, jobs, request[d])
    BY DEF ThreadInv
  <2>2. QED
    BY <1>3, <1>4, <2>1, JobsStay
<1> HIDE DEF next
<1>7. QED
  BY <1>1, <1>3, <1>4, <1>5, <1>6, Proceeds

LEMMA DispatchedKeeps ==
    ASSUME ThreadInv, NEW c \in Clients,
           NEW status \in {"dispatched", "unavailable", "publish_failed"}, NEW next,
           \/ next \in {NoRequest, [pc |-> "finish"]}
           \/ /\ next = [pc |-> "acknowledge", job |-> request[c].job]
              /\ jobs[request[c].job].via # None,
           Dispatched(c, status, next)
    PROVE  /\ ThreadInv'
           /\ jobs' \in Seq(Job) /\ Len(jobs') = Len(jobs)
           /\ request[c].job \in 1 .. Len(jobs)
           /\ jobs'[request[c].job] = [jobs[request[c].job] EXCEPT !.status = status]
           /\ \A n \in 1 .. Len(jobs) : n # request[c].job => jobs'[n] = jobs[n]
<1> DEFINE k == request[c].job
<1>1. /\ request[c].pc = "dispatch" /\ jobs' = [jobs EXCEPT ![k].status = status]
      /\ Goto(c, next) /\ UNCHANGED <<exists, log, stopped, started>>
  BY DEF Dispatched, At
<1>2. RequestSound(log, jobs, request[c])
  BY DEF ThreadInv
<1>3. Len(log) \in Nat /\ jobs \in Seq(Job) /\ exists \in BOOLEAN /\ Len(jobs) \in Nat
      /\ stopped \subseteq Nat /\ started \in Nat \X Nat
  BY StartedTyped DEF ThreadInv
<1>4. k \in 1 .. Len(jobs)
  BY <1>1, <1>2 DEF RequestSound
<1> HIDE DEF k
<1>5. jobs[k] \in Job /\ [jobs[k] EXCEPT !.status = status] \in Job
      /\ [jobs[k] EXCEPT !.status = status].via = jobs[k].via
  <2>1. jobs[k] \in Job
    BY <1>3, <1>4
  <2>2. QED
    BY <2>1 DEF Job
<1> DEFINE job == [jobs[k] EXCEPT !.status = status]
<1>6. job \in Job /\ job.via = jobs[k].via /\ jobs' = [jobs EXCEPT ![k] = job]
  BY <1>1, <1>5
<1>7. job = [jobs[k] EXCEPT !.status = status]
  OBVIOUS
<1> HIDE DEF job
<1>8. /\ jobs' \in Seq(Job) /\ Len(jobs') = Len(jobs) /\ jobs'[k] = job
      /\ \A n \in 1 .. Len(jobs) : n # k => jobs'[n] = jobs[n]
  BY <1>3, <1>4, <1>6
<1>9. next \in Request /\ RequestSound(log, jobs', next)
  <2>1. CASE next \in {NoRequest, [pc |-> "finish"]}
    BY <2>1 DEF Request, RequestSound, NoRequest
  <2>2. CASE /\ next = [pc |-> "acknowledge", job |-> k]
             /\ jobs[k].via # None
    BY <1>4, <1>6, <1>8, <2>2 DEF Request, RequestSound
  <2>3. QED
    BY <2>1, <2>2 DEF k
<1>10. \A d \in Clients : RequestSound(log, jobs', request[d])
  <2>1. \A d \in Clients : RequestSound(log, jobs, request[d])
    BY DEF ThreadInv
  <2>2. \A n \in 1 .. Len(jobs) : jobs'[n].via = jobs[n].via
    BY <1>6, <1>8
  <2>3. QED
    BY <1>3, <1>8, <2>1, <2>2, JobsStay
<1>11. ThreadInv'
  BY <1>1, <1>3, <1>8, <1>9, <1>10, Proceeds
<1>12. QED
  BY <1>4, <1>7, <1>8, <1>11 DEF k

(* Both ends of a dispatch are of the form that DispatchedKeeps is about.  *)
LEMMA DispatchEnds ==
    ASSUME NEW c \in Clients, AttemptEnds(c) \/ PublishFails(c)
    PROVE  \E next, status :
              /\ status \in {"dispatched", "unavailable", "publish_failed"}
              /\ \/ next \in {NoRequest, [pc |-> "finish"]}
                 \/ /\ next = [pc |-> "acknowledge", job |-> request[c].job]
                    /\ jobs[request[c].job].via # None
              /\ Dispatched(c, status, next)
<1>1. CASE PublishFails(c)
  BY <1>1 DEF PublishFails
<1>2. CASE AttemptEnds(c)
  <2>1. PICK status \in {"dispatched", "unavailable"} :
           Dispatched(c, status, IF jobs[request[c].job].via = None THEN [pc |-> "finish"]
                                 ELSE [pc |-> "acknowledge", job |-> request[c].job])
    BY <1>2 DEF AttemptEnds
  <2>2. CASE jobs[request[c].job].via = None
    BY <2>1, <2>2
  <2>3. CASE jobs[request[c].job].via # None
    BY <2>1, <2>3
  <2>4. QED
    BY <2>2, <2>3
<1>3. QED
  BY <1>1, <1>2

LEMMA DispatchKeeps ==
    ASSUME ThreadInv, NEW c \in Clients, AttemptEnds(c) \/ PublishFails(c)
    PROVE  ThreadInv'
BY DispatchEnds, DispatchedKeeps

LEMMA AcknowledgeKeeps ==
    ASSUME ThreadInv, NEW c \in Clients, Acknowledge(c)
    PROVE  ThreadInv'
<1> DEFINE k == request[c].job
           m == [Plain("system", jobs[k].via, ReplyText) EXCEPT !.job = k]
           next == [pc |-> "finish"]
<1>1. /\ request[c].pc = "acknowledge" /\ Post(m) /\ Goto(c, next)
      /\ UNCHANGED <<exists, jobs, stopped, started>>
  BY DEF Acknowledge, At
<1>2. RequestSound(log, jobs, request[c])
  BY DEF ThreadInv
<1>3. Len(log) \in Nat /\ jobs \in Seq(Job) /\ exists \in BOOLEAN /\ log \in Seq(Message)
      /\ stopped \subseteq Nat /\ started \in Nat \X Nat
  BY StartedTyped DEF ThreadInv
<1>4. k \in 1 .. Len(jobs) /\ jobs[k].via # None
  BY <1>1, <1>2 DEF RequestSound
<1>5. jobs[k].via \in Acknowledgements
  <2>1. jobs[k] \in Job
    BY <1>3, <1>4
  <2>2. QED
    BY <1>4, <2>1 DEF Job
<1>6. Plain("system", jobs[k].via, ReplyText) \in Message
  BY <1>5, PlainTyped, ThreadAssumption
<1>7. m \in Message
  BY <1>4, <1>6 DEF Message
<1>8. m.draft = NoDraft /\ ~IsReply(m)
  BY <1>5 DEF Plain, IsReply, Acknowledgements
<1> HIDE DEF m
<1>9. ReplySound(log', Len(log) + 1)
  BY <1>1, <1>3, <1>7, <1>8, PlainSound
<1>10. next \in Request /\ RequestSound(log', jobs, next)
  BY DEF Request, RequestSound
<1> HIDE DEF next
<1>11. QED
  BY <1>1, <1>3, <1>7, <1>9, <1>10, Posts

LEMMA EndKeeps ==
    ASSUME ThreadInv, NEW c \in Clients, Finish(c) \/ RequestStops(c)
    PROVE  ThreadInv'
<1>1. /\ Goto(c, NoRequest) /\ UNCHANGED <<exists, log, jobs, started>>
      /\ \/ UNCHANGED stopped
         \/ At(c, "acknowledge") /\ stopped' = stopped \cup {request[c].job}
  BY DEF Finish, RequestStops
<1>2. Len(log) \in Nat /\ jobs \in Seq(Job) /\ exists \in BOOLEAN /\ log \in Seq(Message)
      /\ stopped \subseteq Nat /\ started \in Nat \X Nat
  BY StartedTyped DEF ThreadInv
<1>3. At(c, "acknowledge") => request[c].job \in 1 .. Len(jobs)
  BY DEF ThreadInv, RequestSound, At
<1>4. stopped' \subseteq Nat
  <2>1. At(c, "acknowledge") => request[c].job \in Nat
    BY <1>2, <1>3
  <2>2. QED
    BY <1>1, <1>2, <2>1
<1>5. NoRequest \in Request /\ RequestSound(log, jobs, NoRequest)
  BY DEF Request, RequestSound, NoRequest
<1>6. \A d \in Clients : RequestSound(log, jobs, request[d])
  BY DEF ThreadInv
<1>7. QED
  BY <1>1, <1>2, <1>4, <1>5, <1>6, Proceeds

LEMMA ThreadInvKept ==
    ASSUME ThreadInv, [Next]_vars
    PROVE  ThreadInv'
<1>1. CASE UNCHANGED threadVars
  BY <1>1 DEF threadVars, ThreadInv, ThreadsTypeOK
<1>2. ASSUME ThreadsNext
      PROVE  ThreadInv'
  <2>1. CASE CreateThread
    BY <2>1 DEF CreateThread, ThreadInv, ThreadsTypeOK
  <2>2. ASSUME NEW c \in Clients,
               \/ CreateMessage(c)
               \/ Chat(c) \/ LoadMessages(c) \/ LoadJobs(c) \/ PostReply(c)
               \/ DispatchMessage(c) \/ ChatDispatch(c) \/ CreateJob(c)
               \/ InsertJob(c) \/ AttemptEnds(c) \/ PublishFails(c) \/ Acknowledge(c)
               \/ Finish(c) \/ RequestStops(c)
        PROVE  ThreadInv'
    BY <2>2, CreateMessageKeeps, ChatKeeps, LoadMessagesKeeps, LoadJobsKeeps,
       PostReplyKeeps, DispatchMessageKeeps, ChatDispatchKeeps, CreateJobKeeps,
       InsertJobKeeps, DispatchKeeps, AcknowledgeKeeps, EndKeeps
  <2>3. QED
    BY <1>2, <2>1, <2>2 DEF ThreadsNext
<1>3. QED
  BY <1>1, <1>2 DEF Next, vars

(* The messages of a thread and what its requests hold are as they should  *)
(* be, however many requests there are.                                    *)
LEMMA ThreadsSound == Spec => []ThreadInv
<1>1. Init => ThreadInv
  BY ThreadInit
<1>2. ThreadInv /\ [Next]_vars => ThreadInv'
  BY ThreadInvKept
<1>3. QED
  BY <1>1, <1>2, PTL DEF Spec

-----------------------------------------------------------------------------
(* Replies and drafts *)

(* A reply is made with the message it answers in view, and its draft is of*)
(* the last thing a user said in what its request had loaded               *)
(* (create_thread_chat posts the message before it loads the thread).      *)
THEOREM RepliesAreInformed == Spec => []RepliesInformed
<1>1. ASSUME ThreadInv
      PROVE  RepliesInformed
  <2> SUFFICES ASSUME NEW i \in DOMAIN log, IsReply(log[i])
               PROVE  /\ log[i].answers <= log[i].seen
                      /\ log[log[i].answers].role = "user"
                      /\ log[i].draft # NoDraft =>
                            /\ log[i].draft.source \in log[i].answers .. log[i].seen
                            /\ log[log[i].draft.source].role = "user"
    BY DEF RepliesInformed
  <2>1. log \in Seq(Message) /\ i \in 1 .. Len(log) /\ ReplySound(log, i)
    BY <1>1 DEF ThreadInv, ThreadsTypeOK
  <2>2. log[i].seen \in Nat
    <3>1. log[i] \in Message
      BY <2>1
    <3>2. QED
      BY <3>1 DEF Message
  <2>3. /\ log[i].answers \in 1 .. log[i].seen /\ log[log[i].answers].role = "user"
        /\ MadeOf(log, log[i].seen, log[i].draft)
    BY <2>1 DEF ReplySound
  <2>4. ASSUME log[i].draft # NoDraft
        PROVE  /\ log[i].draft.source \in log[i].answers .. log[i].seen
               /\ log[log[i].draft.source].role = "user"
    <3>1. PICK k \in LatestIn(Users(log, log[i].seen)) :
             \E prev, target : log[i].draft = BuildDraft(log[k].text, k, prev, target)
      BY <2>3, <2>4 DEF MadeOf
    <3>2. log[i].draft.source = k
      BY <2>4, <3>1 DEF BuildDraft
    <3>3. /\ k \in 1 .. log[i].seen /\ log[k].role = "user"
          /\ log[i].answers <= k
      BY <2>2, <2>3 DEF LatestIn, Users
    <3>4. QED
      BY <2>2, <2>3, <3>2, <3>3
  <2>5. QED
    BY <2>2, <2>3, <2>4
<1>2. QED
  BY <1>1, ThreadsSound, PTL

(* What the draft of message i takes from the draft before it, message k.  *)
LEMMA FollowsDraft ==
    ASSUME ThreadInv, NEW i \in DOMAIN log, log[i].draft # NoDraft,
           NEW k \in LatestIn(DraftsIn(log[i].seen))
    PROVE  LET d == log[i].draft  before == log[k].draft
               t == log[log[i].draft.source].text IN
           /\ ~Reading[t].execution => IsPrefix(before.prompt, d.prompt)
           /\ before.intent = "read_only" /\ d.intent = "workspace_change"
                 => AsksForChange(t)
<1>1. log \in Seq(Message) /\ i \in 1 .. Len(log) /\ ReplySound(log, i)
  BY DEF ThreadInv, ThreadsTypeOK
<1> DEFINE n == log[i].seen
<1>2. /\ n \in Nat /\ n < i /\ MadeOf(log, n, log[i].draft)
  <2>1. log[i] \in Message
    BY <1>1
  <2>2. QED
    BY <1>1, <2>1 DEF Message, ReplySound
<1>3. k \in 1 .. n /\ log[k].draft # NoDraft /\ k \in LatestIn(Drafts(log, n))
  BY DEF LatestIn, DraftsIn, Drafts
<1>4. PICK s \in LatestIn(Users(log, n)), prev \in LastDraft(log, n), target \in SomeTarget :
         log[i].draft = BuildDraft(log[s].text, s, prev, target)
  BY <1>2 DEF MadeOf
<1>5. prev = log[k].draft
  <2>1. PICK e \in LatestIn(Drafts(log, n)) : prev = log[e].draft
    BY <1>3, <1>4 DEF LastDraft, LatestIn
  <2>2. e <= k /\ k <= e /\ e \in Nat /\ k \in Nat
    BY <1>2, <1>3, <2>1 DEF LatestIn, Drafts
  <2>3. QED
    BY <2>1, <2>2
<1>6. log[s].text \in Texts /\ s \in Nat /\ prev \in SomeDraft
  <2>1. s \in 1 .. Len(log) /\ k \in 1 .. Len(log)
    BY <1>1, <1>2, <1>3 DEF LatestIn, Users
  <2>2. log[s] \in Message /\ log[k] \in Message
    BY <1>1, <2>1
  <2>3. QED
    BY <1>5, <2>1, <2>2 DEF Message, SomeDraft
<1>7. QED
  BY <1>3, <1>4, <1>5, <1>6, DraftKeeps

(* A draft that may change the workspace follows a read-only one only at   *)
(* the user's word ("Preserve a read-only draft as read-only unless the    *)
(* user clearly asks to make repository changes").                         *)
THEOREM ReadOnlyIsKept == Spec => []ReadOnlyKept
<1>1. ASSUME ThreadInv
      PROVE  ReadOnlyKept
  BY <1>1, FollowsDraft DEF ReadOnlyKept
<1>2. QED
  BY <1>1, ThreadsSound, PTL

(* A refinement keeps what was asked for before it (merge_request_text).   *)
THEOREM RefinementsKeep == Spec => []RefinementKeeps
<1>1. ASSUME ThreadInv
      PROVE  RefinementKeeps
  BY <1>1, FollowsDraft DEF RefinementKeeps
<1>2. QED
  BY <1>1, ThreadsSound, PTL

-----------------------------------------------------------------------------
(* Jobs *)

OrderedAsShown(job) ==
    /\ job.via = "workflow.handoff.created"
    /\ job.order.kind = "repository"
    /\ {job.order.name, job.order.branch, job.order.intent, job.order.prompt} = {None}

(* A job that is to be what its draft shows, if it has a name at all.      *)
Shown(lg, job) == OrderedAsShown(job) =>
    /\ job.from \in 1 .. Len(lg)
    /\ job.name # None =>
          LET d == lg[job.from].draft IN
          /\ d # NoDraft
          /\ <<job.kind, job.name, job.branch, job.prompt, job.intent>> =
                <<d.kind, d.name, d.branch, d.prompt, d.intent>>

ShownInv ==
    /\ \A n \in 1 .. Len(jobs) : Shown(log, jobs[n]) /\ jobs[n].name # None
    /\ \A c \in Clients : At(c, "create") => Shown(log, request[c].new)

LEMMA ShownStays ==
    ASSUME NEW lg \in Seq(Message), NEW m, NEW job, Shown(lg, job)
    PROVE  Shown(Append(lg, m), job)
<1>1. \A k \in 1 .. Len(lg) : Append(lg, m)[k] = lg[k]
  OBVIOUS
<1>2. Len(Append(lg, m)) = Len(lg) + 1 /\ Len(lg) \in Nat
  OBVIOUS
<1>3. QED
  BY <1>1, <1>2 DEF Shown

LEMMA HandoffShown ==
    ASSUME ThreadInv, NEW i \in DOMAIN log, NEW order \in Orders
    PROVE  Shown(log, Handoff(i, order))
<1> DEFINE job == Handoff(i, order)
           d == log[i].draft
<1>1. /\ job.order = order /\ job.from = i
      /\ job.kind = HandoffKind(d, order)
      /\ job.name = Or(order.name, IF d = NoDraft THEN None ELSE d.name)
      /\ job.branch = IF job.kind = "repository"
                      THEN Or(Or(order.branch, IF d = NoDraft THEN None ELSE d.branch), "main")
                      ELSE None
      /\ job.prompt = (IF d = NoDraft \/ order.prompt # None
                       THEN <<Or(order.prompt, log[i].text)>> ELSE d.prompt)
      /\ job.intent = Or(order.intent,
                         IF d = NoDraft THEN InferExecutionIntent(Or(order.prompt, log[i].text))
                         ELSE d.intent)
  BY DEF Handoff, NewJob
<1>2. log \in Seq(Message) /\ i \in 1 .. Len(log)
  BY DEF ThreadInv, ThreadsTypeOK
<1> SUFFICES ASSUME OrderedAsShown(job), job.name # None
             PROVE  /\ d # NoDraft
                    /\ job.kind = d.kind /\ job.name = d.name /\ job.branch = d.branch
                    /\ job.prompt = d.prompt /\ job.intent = d.intent
  BY <1>1, <1>2 DEF Shown
<1> HIDE DEF job
<1>3. /\ order.kind = "repository" /\ order.name = None /\ order.branch = None
      /\ order.intent = None /\ order.prompt = None
  BY <1>1 DEF OrderedAsShown
<1>4. d # NoDraft
  BY <1>1, <1>3 DEF Or
<1>5. d.branch = None <=> d.kind = "capability"
  <2>1. ReplySound(log, i)
    BY <1>2 DEF ThreadInv
  <2>2. log[i].seen \in Nat /\ log[i].seen < i
    <3>1. log[i] \in Message
      BY <1>2
    <3>2. QED
      BY <2>1, <1>4, <3>1 DEF Message, ReplySound
  <2>3. PICK s \in LatestIn(Users(log, log[i].seen)), prev \in LastDraft(log, log[i].seen),
             target \in SomeTarget : d = BuildDraft(log[s].text, s, prev, target)
    BY <1>4, <2>1 DEF ReplySound, MadeOf
  <2>4. CASE DraftKind(log[s].text, prev) = "capability"
    BY <1>4, <2>3, <2>4 DEF BuildDraft, DraftBranch
  <2>5. CASE DraftKind(log[s].text, prev) # "capability"
    BY <1>4, <2>3, <2>5, DraftAssumption DEF BuildDraft, DraftBranch, Or
  <2>6. QED
    BY <2>4, <2>5
<1>6. job.kind = d.kind
  BY <1>1, <1>3, <1>4 DEF HandoffKind
<1>7. d.kind \in Kinds
  <2>1. log[i] \in Message
    BY <1>2
  <2>2. QED
    BY <1>4, <2>1 DEF Message, Draft, Kinds
<1>8. job.branch = d.branch
  BY <1>1, <1>3, <1>4, <1>5, <1>6, <1>7 DEF Or, Kinds
<1>9. QED
  BY <1>1, <1>3, <1>4, <1>6, <1>8 DEF Or

LEMMA ShownKept ==
    ASSUME ThreadInv, ShownInv, [Next]_vars
    PROVE  ShownInv'
<1>1. log \in Seq(Message) /\ jobs \in Seq(Job) /\ request \in [Clients -> Request]
  BY DEF ThreadInv, ThreadsTypeOK
<1>2. ASSUME UNCHANGED log \/ \E m : log' = Append(log, m)
      PROVE  \A job : Shown(log, job) => Shown(log', job)
  BY <1>1, <1>2, ShownStays
(* Every request but c's holds what it held.                               *)
<1>3. ASSUME NEW c \in Clients, NEW next, Goto(c, next),
             UNCHANGED log \/ \E m : log' = Append(log, m),
             \A n \in 1 .. Len(jobs') : Shown(log, jobs'[n]) /\ jobs'[n].name # None,
             next.pc = "create" => Shown(log, next.new)
      PROVE  ShownInv'
  <2>1. \A d \in Clients : request'[d] = IF d = c THEN next ELSE request[d]
    BY <1>1, <1>3 DEF Goto
  <2>2. QED
    BY <1>2, <1>3, <2>1 DEF ShownInv, At
<1>4. CASE UNCHANGED threadVars
  BY <1>4 DEF threadVars, ShownInv, At
<1>5. CASE CreateThread
  BY <1>5 DEF CreateThread, ShownInv, At
<1>6. ASSUME NEW c \in Clients,
             \/ CreateMessage(c) \/ Chat(c) \/ LoadMessages(c) \/ LoadJobs(c)
             \/ PostReply(c) \/ Acknowledge(c) \/ Finish(c) \/ RequestStops(c)
      PROVE  ShownInv'
  <2>1. PICK next : Goto(c, next) /\ next.pc # "create"
    <3>1. CASE Finish(c) \/ RequestStops(c)
      BY <3>1 DEF Finish, RequestStops, NoRequest
    <3>2. CASE LoadJobs(c)
      BY <3>2 DEF LoadJobs
    <3>3. CASE CreateMessage(c)
      BY <3>3 DEF CreateMessage
    <3>4. CASE Chat(c)
      BY <3>4 DEF Chat
    <3>5. CASE LoadMessages(c)
      BY <3>5 DEF LoadMessages
    <3>6. CASE PostReply(c) \/ Acknowledge(c)
      BY <3>6 DEF PostReply, Acknowledge
    <3>7. QED
      BY <1>6, <3>1, <3>2, <3>3, <3>4, <3>5, <3>6
  <2>2. /\ UNCHANGED log \/ \E m : log' = Append(log, m)
        /\ UNCHANGED jobs
    BY <1>6 DEF CreateMessage, Chat, LoadMessages, LoadJobs, PostReply, Acknowledge,
                Finish, RequestStops, Post
  <2>3. QED
    BY <1>3, <2>1, <2>2 DEF ShownInv
<1>7. ASSUME NEW c \in Clients, DispatchMessage(c)
      PROVE  ShownInv'
  <2>1. PICK i \in DOMAIN log, order \in Orders :
           Goto(c, [pc |-> "create", new |-> Handoff(i, order)])
    BY <1>7 DEF DispatchMessage
  <2>2. Shown(log, Handoff(i, order))
    BY HandoffShown
  <2>3. UNCHANGED log /\ UNCHANGED jobs
    BY <1>7 DEF DispatchMessage
  <2>4. QED
    BY <1>3, <2>1, <2>2, <2>3 DEF ShownInv
<1>8. ASSUME NEW c \in Clients, ChatDispatch(c) \/ CreateJob(c)
      PROVE  ShownInv'
  <2>1. \E order, from : \E via \in {"workflow.dispatch.created", None} :
           Goto(c, [pc |-> "create", new |-> Ordered(order.prompt, from, order, via)])
    <3>1. CASE ChatDispatch(c)
      BY <3>1 DEF ChatDispatch
    <3>2. CASE CreateJob(c)
      BY <3>2 DEF CreateJob
    <3>3. QED
      BY <1>8, <3>1, <3>2
  <2>2. PICK order, from : \E via \in {"workflow.dispatch.created", None} :
           Goto(c, [pc |-> "create", new |-> Ordered(order.prompt, from, order, via)])
    BY <2>1
  <2>3. PICK via \in {"workflow.dispatch.created", None} :
           Goto(c, [pc |-> "create", new |-> Ordered(order.prompt, from, order, via)])
    BY <2>2
  <2>4. Ordered(order.prompt, from, order, via).via # "workflow.handoff.created"
    BY ThreadAssumption DEF Ordered, NewJob, Acknowledgements
  <2>5. Shown(log, Ordered(order.prompt, from, order, via))
    BY <2>4 DEF Shown, OrderedAsShown
  <2>6. /\ UNCHANGED log \/ \E m : log' = Append(log, m)
        /\ UNCHANGED jobs
    BY <1>8 DEF ChatDispatch, CreateJob, Post
  <2>7. QED
    BY <1>3, <2>3, <2>5, <2>6 DEF ShownInv
<1>9. ASSUME NEW c \in Clients, InsertJob(c)
      PROVE  ShownInv'
  <2>1. /\ request[c].pc = "create" /\ request[c].new.name # None
        /\ jobs' = Append(jobs, request[c].new) /\ UNCHANGED log
        /\ Goto(c, [pc |-> "dispatch", job |-> Len(jobs) + 1])
    BY <1>9 DEF InsertJob, At
  <2>2. Shown(log, request[c].new)
    BY <2>1 DEF ShownInv, At
  <2>3. \A n \in 1 .. Len(jobs') : \/ jobs'[n] = request[c].new
                                   \/ n \in 1 .. Len(jobs) /\ jobs'[n] = jobs[n]
    <3>1. request[c].new \in Job
      BY <1>1, <2>1, RequestedJob
    <3>2. /\ Len(jobs') = Len(jobs) + 1 /\ Len(jobs) \in Nat
          /\ \A n \in 1 .. Len(jobs) : jobs'[n] = jobs[n]
          /\ jobs'[Len(jobs')] = request[c].new
      BY <1>1, <2>1, <3>1
    <3>3. \A n \in 1 .. Len(jobs') : n = Len(jobs') \/ n \in 1 .. Len(jobs)
      BY <3>2
    <3>4. TAKE n \in 1 .. Len(jobs')
    <3>5. CASE n = Len(jobs')
      BY <3>2, <3>5
    <3>6. CASE n \in 1 .. Len(jobs)
      BY <3>2, <3>6
    <3>7. QED
      BY <3>3, <3>5, <3>6
  <2>4. QED
    BY <1>3, <2>1, <2>2, <2>3 DEF ShownInv
<1>10. ASSUME NEW c \in Clients, AttemptEnds(c) \/ PublishFails(c)
       PROVE  ShownInv'
  <2>1. PICK next, status :
           /\ status \in {"dispatched", "unavailable", "publish_failed"}
           /\ \/ next \in {NoRequest, [pc |-> "finish"]}
              \/ /\ next = [pc |-> "acknowledge", job |-> request[c].job]
                 /\ jobs[request[c].job].via # None
           /\ Dispatched(c, status, next)
    BY <1>10, DispatchEnds
  <2>2. /\ jobs' \in Seq(Job) /\ Len(jobs') = Len(jobs)
        /\ request[c].job \in 1 .. Len(jobs)
        /\ jobs'[request[c].job] = [jobs[request[c].job] EXCEPT !.status = status]
        /\ \A n \in 1 .. Len(jobs) : n # request[c].job => jobs'[n] = jobs[n]
    BY <2>1, DispatchedKeeps
  <2>3. Goto(c, next) /\ UNCHANGED log /\ next.pc # "create"
    BY <2>1 DEF Dispatched, NoRequest
  <2>4. ASSUME NEW n \in 1 .. Len(jobs')
        PROVE  Shown(log, jobs'[n]) /\ jobs'[n].name # None
    <3>1. Shown(log, jobs[n]) /\ jobs[n].name # None
      BY <2>2 DEF ShownInv
    <3>2. CASE n # request[c].job
      BY <2>2, <3>1, <3>2
    <3>3. CASE n = request[c].job
      <4> DEFINE old == jobs[n]
                 new == [old EXCEPT !.status = status]
      <4>1. old \in Job
        BY <1>1, <2>2
      <4>2. /\ new.kind = old.kind /\ new.name = old.name /\ new.branch = old.branch
            /\ new.prompt = old.prompt /\ new.intent = old.intent /\ new.from = old.from
            /\ new.order = old.order /\ new.via = old.via
        BY <4>1 DEF Job
      <4> HIDE DEF new
      <4>3. Shown(log, new) /\ new.name # None
        BY <3>1, <4>2 DEF Shown, OrderedAsShown
      <4>4. QED
        BY <2>2, <3>3, <4>3 DEF new
    <3>4. QED
      BY <3>2, <3>3
  <2>5. QED
    BY <1>3, <2>3, <2>4
<1>11. QED
  BY <1>4, <1>5, <1>6, <1>7, <1>8, <1>9, <1>10 DEF Next, vars, ThreadsNext

(* A draft that is dispatched as it is shown becomes the job it describes, *)
(* however the thread has gone on since (dispatch_thread_message).         *)
THEOREM JobsAreAsShown == Spec => []JobAsShown
<1>1. Init => ShownInv
  BY DEF Init, ThreadsInit, ShownInv, At, NoRequest
<1>2. ThreadInv /\ ShownInv /\ [Next]_vars => ShownInv'
  BY ShownKept
<1>3. ASSUME ThreadInv, ShownInv
      PROVE  JobAsShown
  <2>1. \A n \in DOMAIN jobs : Shown(log, jobs[n]) /\ jobs[n].name # None
    BY <1>3 DEF ThreadInv, ThreadsTypeOK, ShownInv
  <2>2. QED
    BY <2>1 DEF JobAsShown, Shown, OrderedAsShown
<1>4. QED
  BY <1>1, <1>2, <1>3, ThreadsSound, PTL DEF Spec

-----------------------------------------------------------------------------
(* Acknowledgements *)

LEMMA AtMostOne ==
    ASSUME NEW S, \A a, b \in S : a = b
    PROVE  Cardinality(S) <= 1
<1>1. CASE S = {}
  BY <1>1, FS_EmptySet
<1>2. ASSUME NEW a \in S
      PROVE  Cardinality(S) <= 1
  <2>1. S = {a}
    OBVIOUS
  <2>2. Cardinality({a}) = 1
    BY FS_Singleton
  <2>3. QED
    BY <2>1, <2>2
<1>3. QED
  BY <1>1, <1>2

Final == {"dispatched", "unavailable"}
Busy(r) == r.pc \in {"dispatch", "acknowledge"}

(* What is acknowledged went out, once; and who is about to dispatch or to *)
(* acknowledge a job is the only one, and it is not acknowledged yet.      *)
AckInv ==
    /\ \A i \in 1 .. Len(log) : log[i].job # 0 =>
          /\ log[i].job \in 1 .. Len(jobs)
          /\ jobs[log[i].job].status \in Final
    /\ \A i, k \in 1 .. Len(log) : log[i].job # 0 /\ log[i].job = log[k].job => i = k
    /\ \A c \in Clients :
          /\ At(c, "create") => request[c].new.status = "probing"
          /\ At(c, "dispatch") => jobs[request[c].job].status = "probing"
          /\ At(c, "acknowledge") =>
                /\ jobs[request[c].job].status \in Final
                /\ \A i \in 1 .. Len(log) : log[i].job # request[c].job
    /\ \A c, d \in Clients :
          c # d /\ Busy(request[c]) /\ Busy(request[d]) => request[c].job # request[d].job
    /\ \A n \in 1 .. Len(jobs) : jobs[n].status \in Final /\ jobs[n].via # None =>
          \/ \E i \in 1 .. Len(log) : log[i].job = n
          \/ n \in stopped
          \/ \E c \in Clients : At(c, "acknowledge") /\ request[c].job = n

(* A request that comes to hold no job, and posts no acknowledgement.      *)
LEMMA AckQuiet ==
    ASSUME ThreadInv, AckInv, NEW c \in Clients, NEW next, Goto(c, next),
           ~Busy(next), next.pc = "create" => next.new.status = "probing",
           UNCHANGED log \/ \E m \in Message : m.job = 0 /\ Post(m),
           UNCHANGED jobs,
           \/ ~At(c, "acknowledge") /\ UNCHANGED stopped
           \/ At(c, "acknowledge") /\ stopped' = stopped \cup {request[c].job}
    PROVE  AckInv'
<1>1. log \in Seq(Message) /\ jobs \in Seq(Job) /\ request \in [Clients -> Request]
  BY DEF ThreadInv, ThreadsTypeOK
<1>2. /\ Len(log) \in Nat /\ Len(log') \in Nat /\ Len(log) <= Len(log')
      /\ \A i \in 1 .. Len(log) : log'[i] = log[i]
      /\ \A i \in 1 .. Len(log') : i \in 1 .. Len(log) \/ log'[i].job = 0
  <2>1. CASE UNCHANGED log
    BY <1>1, <2>1
  <2>2. ASSUME NEW m \in Message, m.job = 0, Post(m)
        PROVE  /\ Len(log') = Len(log) + 1 /\ log'[Len(log) + 1] = m
               /\ \A i \in 1 .. Len(log) : log'[i] = log[i]
    BY <1>1, <2>2 DEF Post
  <2>3. QED
    BY <1>1, <2>1, <2>2
<1>3. \A d \in Clients : request'[d] = IF d = c THEN next ELSE request[d]
  BY <1>1 DEF Goto
<1>4. \A d \in Clients : At(d, "dispatch") \/ At(d, "acknowledge") =>
        request[d].job # 0
  <2> SUFFICES ASSUME NEW d \in Clients, At(d, "dispatch") \/ At(d, "acknowledge")
               PROVE  request[d].job # 0
    OBVIOUS
  <2>1. request[d].job \in 1 .. Len(jobs)
    BY DEF ThreadInv, RequestSound, At
  <2>2. QED
    BY <1>1, <2>1
<1>5. \A i \in 1 .. Len(log') : log'[i].job # 0 => i \in 1 .. Len(log) /\ log'[i] = log[i]
  BY <1>2
<1>6. \A i \in 1 .. Len(log) : i \in 1 .. Len(log') /\ log'[i] = log[i]
  BY <1>2
<1>7. /\ \A i \in 1 .. Len(log') : log'[i].job # 0 =>
            /\ log'[i].job \in 1 .. Len(jobs)
            /\ jobs[log'[i].job].status \in Final
      /\ \A i, k \in 1 .. Len(log') : log'[i].job # 0 /\ log'[i].job = log'[k].job => i = k
  BY <1>5 DEF AckInv
<1>8. \A d \in Clients :
         /\ request'[d].pc = "create" => request'[d].new.status = "probing"
         /\ request'[d].pc = "dispatch" => jobs[request'[d].job].status = "probing"
         /\ request'[d].pc = "acknowledge" =>
               /\ jobs[request'[d].job].status \in Final
               /\ \A i \in 1 .. Len(log') : log'[i].job # request'[d].job
  BY <1>3, <1>4, <1>5 DEF AckInv, At, Busy
<1>9. \A e, d \in Clients :
         e # d /\ Busy(request'[e]) /\ Busy(request'[d]) => request'[e].job # request'[d].job
  BY <1>3 DEF AckInv
<1>10. \A n \in 1 .. Len(jobs) : jobs[n].status \in Final /\ jobs[n].via # None =>
          \/ \E i \in 1 .. Len(log') : log'[i].job = n
          \/ n \in stopped'
          \/ \E d \in Clients : request'[d].pc = "acknowledge" /\ request'[d].job = n
  <2> SUFFICES ASSUME NEW n \in 1 .. Len(jobs), jobs[n].status \in Final, jobs[n].via # None
               PROVE  \/ \E i \in 1 .. Len(log') : log'[i].job = n
                      \/ n \in stopped'
                      \/ \E d \in Clients : request'[d].pc = "acknowledge"
                                          /\ request'[d].job = n
    OBVIOUS
  <2>1. CASE \E i \in 1 .. Len(log) : log[i].job = n
    BY <1>6, <2>1
  <2>2. CASE n \in stopped
    BY <2>2
  <2>3. ASSUME NEW d \in Clients, At(d, "acknowledge"), request[d].job = n
        PROVE  \/ n \in stopped'
               \/ request'[d].pc = "acknowledge" /\ request'[d].job = n
    BY <1>3, <2>3 DEF At
  <2>4. QED
    BY <2>1, <2>2, <2>3 DEF AckInv
<1>11. QED
  BY <1>7, <1>8, <1>9, <1>10 DEF AckInv, At

LEMMA AckInserted ==
    ASSUME ThreadInv, AckInv, NEW c \in Clients, InsertJob(c)
    PROVE  AckInv'
<1> DEFINE new == request[c].new
           next == [pc |-> "dispatch", job |-> Len(jobs) + 1]
<1>1. log \in Seq(Message) /\ jobs \in Seq(Job) /\ request \in [Clients -> Request]
  BY DEF ThreadInv, ThreadsTypeOK
<1>2. /\ At(c, "create") /\ jobs' = Append(jobs, new) /\ Goto(c, next)
      /\ UNCHANGED <<log, stopped>>
  BY DEF InsertJob
<1>3. new \in Job /\ new.status = "probing"
  BY <1>1, <1>2, RequestedJob DEF AckInv, At
<1> HIDE DEF new
<1>4. /\ Len(jobs) \in Nat /\ Len(jobs') = Len(jobs) + 1 /\ jobs'[Len(jobs) + 1] = new
      /\ \A n \in 1 .. Len(jobs) : jobs'[n] = jobs[n]
  BY <1>1, <1>2, <1>3
<1>5. \A n \in 1 .. Len(jobs') : n = Len(jobs) + 1 \/ n \in 1 .. Len(jobs)
  BY <1>4
<1>6. \A d \in Clients : request'[d] = IF d = c THEN next ELSE request[d]
  BY <1>1, <1>2 DEF Goto
<1>7. \A d \in Clients : Busy(request[d]) => request[d].job \in 1 .. Len(jobs)
  BY DEF ThreadInv, RequestSound, Busy
<1>8. \A n \in 1 .. Len(jobs) : n \in 1 .. Len(jobs') /\ jobs'[n] = jobs[n]
                              /\ n # Len(jobs) + 1
  BY <1>4
<1>9. \A i \in 1 .. Len(log) : log[i].job # 0 =>
         log[i].job \in 1 .. Len(jobs') /\ jobs'[log[i].job].status \in Final
  BY <1>8 DEF AckInv
<1>10. \A d \in Clients :
         /\ request'[d].pc = "create" => request'[d].new.status = "probing"
         /\ request'[d].pc = "dispatch" => jobs'[request'[d].job].status = "probing"
         /\ request'[d].pc = "acknowledge" =>
               /\ jobs'[request'[d].job].status \in Final
               /\ \A i \in 1 .. Len(log) : log[i].job # request'[d].job
  <2> SUFFICES ASSUME NEW d \in Clients
               PROVE  /\ request'[d].pc = "create" => request'[d].new.status = "probing"
                      /\ request'[d].pc = "dispatch" =>
                            jobs'[request'[d].job].status = "probing"
                      /\ request'[d].pc = "acknowledge" =>
                            /\ jobs'[request'[d].job].status \in Final
                            /\ \A i \in 1 .. Len(log) : log[i].job # request'[d].job
    OBVIOUS
  <2>1. CASE d = c
    BY <1>3, <1>4, <1>6, <2>1
  <2>2. CASE d # c
    BY <1>6, <1>7, <1>8, <2>2 DEF AckInv, At, Busy
  <2>3. QED
    BY <2>1, <2>2
<1>11. \A e, d \in Clients :
         e # d /\ Busy(request'[e]) /\ Busy(request'[d]) => request'[e].job # request'[d].job
  BY <1>6, <1>7, <1>8 DEF AckInv
<1>12. \A n \in 1 .. Len(jobs') : jobs'[n].status \in Final /\ jobs'[n].via # None =>
          \/ \E i \in 1 .. Len(log) : log[i].job = n
          \/ n \in stopped
          \/ \E d \in Clients : request'[d].pc = "acknowledge" /\ request'[d].job = n
  <2> SUFFICES ASSUME NEW n \in 1 .. Len(jobs),
                      jobs[n].status \in Final, jobs[n].via # None
               PROVE  \/ \E i \in 1 .. Len(log) : log[i].job = n
                      \/ n \in stopped
                      \/ \E d \in Clients : request'[d].pc = "acknowledge"
                                          /\ request'[d].job = n
    BY <1>3, <1>4, <1>5 DEF Final
  <2>1. ASSUME NEW d \in Clients, At(d, "acknowledge"), request[d].job = n
        PROVE  request'[d].pc = "acknowledge" /\ request'[d].job = n
    BY <1>2, <1>6, <2>1 DEF At
  <2>2. QED
    BY <2>1 DEF AckInv
<1>13. log' = log /\ stopped' = stopped
  BY <1>2
<1>14. \A i, k \in 1 .. Len(log) : log[i].job # 0 /\ log[i].job = log[k].job => i = k
  BY DEF AckInv
<1>15. QED
  BY <1>9, <1>10, <1>11, <1>12, <1>13, <1>14 DEF AckInv, At

LEMMA AckDispatched ==
    ASSUME ThreadInv, AckInv, NEW c \in Clients, NEW status, NEW next,
           \/ /\ status \in Final
              /\ \/ /\ next = [pc |-> "finish"] /\ jobs[request[c].job].via = None
                 \/ /\ next = [pc |-> "acknowledge", job |-> request[c].job]
                    /\ jobs[request[c].job].via # None
           \/ status = "publish_failed" /\ next = NoRequest,
           Dispatched(c, status, next)
    PROVE  AckInv'
<1> DEFINE k == request[c].job
<1>1. log \in Seq(Message) /\ jobs \in Seq(Job) /\ request \in [Clients -> Request]
  BY DEF ThreadInv, ThreadsTypeOK
<1>2. At(c, "dispatch") /\ Goto(c, next) /\ log' = log /\ stopped' = stopped
  BY DEF Dispatched
<1>3. /\ jobs' \in Seq(Job) /\ Len(jobs') = Len(jobs) /\ k \in 1 .. Len(jobs)
      /\ jobs'[k] = [jobs[k] EXCEPT !.status = status]
      /\ \A n \in 1 .. Len(jobs) : n # k => jobs'[n] = jobs[n]
  <2>1. /\ status \in {"dispatched", "unavailable", "publish_failed"}
        /\ \/ next \in {NoRequest, [pc |-> "finish"]}
           \/ /\ next = [pc |-> "acknowledge", job |-> request[c].job]
              /\ jobs[request[c].job].via # None
    BY DEF Final
  <2>2. QED
    BY <2>1, DispatchedKeeps
<1>4. jobs'[k].status = status /\ jobs'[k].via = jobs[k].via
  <2>1. jobs[k] \in Job
    BY <1>1, <1>3
  <2>2. QED
    BY <1>3, <2>1 DEF Job
<1>5. jobs[k].status = "probing" /\ \A i \in 1 .. Len(log) : log[i].job # k
  <2>1. jobs[k].status = "probing"
    BY <1>2 DEF AckInv
  <2>2. k # 0
    BY <1>1, <1>3
  <2>3. QED
    BY <2>1, <2>2 DEF AckInv, Final
<1>6. \A d \in Clients : request'[d] = IF d = c THEN next ELSE request[d]
  BY <1>1, <1>2 DEF Goto
<1>7. \A d \in Clients : Busy(request[d]) /\ d # c =>
         request[d].job # k /\ request[d].job \in 1 .. Len(jobs)
  BY <1>2 DEF AckInv, ThreadInv, RequestSound, Busy, At
<1>8. \A d \in Clients : At(d, "acknowledge") => d # c
  BY <1>2 DEF At
<1>9. next.pc # "create" /\ next.pc # "dispatch" /\ (Busy(next) => next.job = k)
  BY DEF Busy, NoRequest
<1>10. next.pc = "acknowledge" => status \in Final
  BY DEF NoRequest
<1>11. status \in Final /\ jobs[k].via # None => next.pc = "acknowledge" /\ next.job = k
  BY DEF Final
<1> HIDE DEF k
<1>12. \A i \in 1 .. Len(log) : log[i].job # 0 =>
          log[i].job \in 1 .. Len(jobs') /\ jobs'[log[i].job].status \in Final
  BY <1>3, <1>5 DEF AckInv
<1>13. \A d \in Clients :
         /\ request'[d].pc = "create" => request'[d].new.status = "probing"
         /\ request'[d].pc = "dispatch" => jobs'[request'[d].job].status = "probing"
         /\ request'[d].pc = "acknowledge" =>
               /\ jobs'[request'[d].job].status \in Final
               /\ \A i \in 1 .. Len(log) : log[i].job # request'[d].job
  <2> SUFFICES ASSUME NEW d \in Clients
               PROVE  /\ request'[d].pc = "create" => request'[d].new.status = "probing"
                      /\ request'[d].pc = "dispatch" =>
                            jobs'[request'[d].job].status = "probing"
                      /\ request'[d].pc = "acknowledge" =>
                            /\ jobs'[request'[d].job].status \in Final
                            /\ \A i \in 1 .. Len(log) : log[i].job # request'[d].job
    OBVIOUS
  <2>1. CASE d = c
    BY <1>4, <1>5, <1>6, <1>9, <1>10, <2>1 DEF Busy
  <2>2. CASE d # c
    BY <1>3, <1>6, <1>7, <2>2 DEF AckInv, At, Busy
  <2>3. QED
    BY <2>1, <2>2
<1>14. \A e, d \in Clients :
         e # d /\ Busy(request'[e]) /\ Busy(request'[d]) => request'[e].job # request'[d].job
  BY <1>6, <1>7, <1>9 DEF AckInv
<1>15. \A n \in 1 .. Len(jobs') : jobs'[n].status \in Final /\ jobs'[n].via # None =>
          \/ \E i \in 1 .. Len(log) : log[i].job = n
          \/ n \in stopped
          \/ \E d \in Clients : request'[d].pc = "acknowledge" /\ request'[d].job = n
  <2> SUFFICES ASSUME NEW n \in 1 .. Len(jobs),
                      jobs'[n].status \in Final, jobs'[n].via # None
               PROVE  \/ \E i \in 1 .. Len(log) : log[i].job = n
                      \/ n \in stopped
                      \/ \E d \in Clients : request'[d].pc = "acknowledge"
                                          /\ request'[d].job = n
    BY <1>3
  <2>1. CASE n = k
    BY <1>4, <1>6, <1>11, <2>1
  <2>2. CASE n # k
    <3>1. jobs'[n] = jobs[n]
      BY <1>3, <2>2
    <3>2. ASSUME NEW d \in Clients, At(d, "acknowledge"), request[d].job = n
          PROVE  request'[d].pc = "acknowledge" /\ request'[d].job = n
      BY <1>6, <1>8, <3>2 DEF At
    <3>3. QED
      BY <3>1, <3>2 DEF AckInv
  <2>3. QED
    BY <2>1, <2>2
<1>16. \A i, j \in 1 .. Len(log) : log[i].job # 0 /\ log[i].job = log[j].job => i = j
  BY DEF AckInv
<1>17. QED
  BY <1>2, <1>12, <1>13, <1>14, <1>15, <1>16 DEF AckInv, At

LEMMA AckPosted ==
    ASSUME ThreadInv, AckInv, NEW c \in Clients, Acknowledge(c)
    PROVE  AckInv'
<1> DEFINE k == request[c].job
           m == [Plain("system", jobs[k].via, ReplyText) EXCEPT !.job = k]
           next == [pc |-> "finish"]
<1>1. log \in Seq(Message) /\ jobs \in Seq(Job) /\ request \in [Clients -> Request]
  BY DEF ThreadInv, ThreadsTypeOK
<1>2. /\ At(c, "acknowledge") /\ log' = Append(log, m) /\ Goto(c, next)
      /\ jobs' = jobs /\ stopped' = stopped
  BY DEF Acknowledge, Post
<1>3. m.job = k
  BY DEF Plain
<1> HIDE DEF m
<1>4. /\ Len(log) \in Nat /\ Len(log') = Len(log) + 1 /\ log'[Len(log) + 1].job = k
      /\ \A i \in 1 .. Len(log) : log'[i] = log[i]
  BY <1>1, <1>2, <1>3
<1>5. \A i \in 1 .. Len(log') : i = Len(log) + 1 \/ i \in 1 .. Len(log)
  BY <1>4
<1>6. /\ k \in 1 .. Len(jobs) /\ jobs[k].status \in Final
      /\ \A i \in 1 .. Len(log) : log[i].job # k
  BY <1>2 DEF AckInv, ThreadInv, RequestSound, At
<1>7. \A d \in Clients : request'[d] = IF d = c THEN next ELSE request[d]
  BY <1>1, <1>2 DEF Goto
<1>8. \A d \in Clients : Busy(request[d]) /\ d # c => request[d].job # k
  BY <1>2 DEF AckInv, Busy, At
<1> HIDE DEF k
<1>9. \A i \in 1 .. Len(log') : log'[i].job # 0 =>
         log'[i].job \in 1 .. Len(jobs) /\ jobs[log'[i].job].status \in Final
  <2> TAKE i \in 1 .. Len(log')
  <2>1. CASE i = Len(log) + 1
    BY <1>4, <1>6, <2>1
  <2>2. CASE i \in 1 .. Len(log)
    BY <1>4, <2>2 DEF AckInv
  <2>3. QED
    BY <1>5, <2>1, <2>2
<1>10. \A i, j \in 1 .. Len(log') : log'[i].job # 0 /\ log'[i].job = log'[j].job => i = j
  <2> TAKE i, j \in 1 .. Len(log')
  <2>1. CASE i \in 1 .. Len(log) /\ j \in 1 .. Len(log)
    BY <1>4, <2>1 DEF AckInv
  <2>2. CASE ~(i \in 1 .. Len(log) /\ j \in 1 .. Len(log))
    BY <1>4, <1>5, <1>6, <2>2
  <2>3. QED
    BY <2>1, <2>2
<1>11. \A d \in Clients :
         /\ request'[d].pc = "create" => request'[d].new.status = "probing"
         /\ request'[d].pc = "dispatch" => jobs[request'[d].job].status = "probing"
         /\ request'[d].pc = "acknowledge" =>
               /\ jobs[request'[d].job].status \in Final
               /\ \A i \in 1 .. Len(log') : log'[i].job # request'[d].job
  <2> SUFFICES ASSUME NEW d \in Clients, d # c
               PROVE  /\ request[d].pc = "create" => request[d].new.status = "probing"
                      /\ request[d].pc = "dispatch" => jobs[request[d].job].status = "probing"
                      /\ request[d].pc = "acknowledge" =>
                            /\ jobs[request[d].job].status \in Final
                            /\ \A i \in 1 .. Len(log') : log'[i].job # request[d].job
    BY <1>7
  <2>1. request[d].pc = "acknowledge" => \A i \in 1 .. Len(log') : log'[i].job # request[d].job
    <3> SUFFICES ASSUME request[d].pc = "acknowledge", NEW i \in 1 .. Len(log')
                 PROVE  log'[i].job # request[d].job
      OBVIOUS
    <3>1. CASE i = Len(log) + 1
      BY <1>4, <1>8, <3>1 DEF Busy
    <3>2. CASE i \in 1 .. Len(log)
      BY <1>4, <3>2 DEF AckInv, At
    <3>3. QED
      BY <1>5, <3>1, <3>2
  <2>2. QED
    BY <2>1 DEF AckInv, At
<1>12. \A e, d \in Clients :
         e # d /\ Busy(request'[e]) /\ Busy(request'[d]) => request'[e].job # request'[d].job
  BY <1>7 DEF AckInv, Busy
<1>13. \A n \in 1 .. Len(jobs) : jobs[n].status \in Final /\ jobs[n].via # None =>
          \/ \E i \in 1 .. Len(log') : log'[i].job = n
          \/ n \in stopped
          \/ \E d \in Clients : request'[d].pc = "acknowledge" /\ request'[d].job = n
  <2> SUFFICES ASSUME NEW n \in 1 .. Len(jobs), jobs[n].status \in Final, jobs[n].via # None
               PROVE  \/ \E i \in 1 .. Len(log') : log'[i].job = n
                      \/ n \in stopped
                      \/ \E d \in Clients : request'[d].pc = "acknowledge"
                                          /\ request'[d].job = n
    OBVIOUS
  <2>1. CASE \E i \in 1 .. Len(log) : log[i].job = n
    <3>1. PICK i \in 1 .. Len(log) : log[i].job = n
      BY <2>1
    <3>2. i \in 1 .. Len(log') /\ log'[i].job = n
      BY <1>4, <3>1
    <3>3. QED
      BY <3>2
  <2>2. CASE n = k
    <3>1. Len(log) + 1 \in 1 .. Len(log')
      BY <1>4
    <3>2. QED
      BY <1>4, <2>2, <3>1
  <2>3. ASSUME NEW d \in Clients, At(d, "acknowledge"), request[d].job = n, n # k
        PROVE  request'[d].pc = "acknowledge" /\ request'[d].job = n
    BY <1>7, <2>3 DEF At, k
  <2>4. QED
    BY <2>1, <2>2, <2>3 DEF AckInv
<1>14. QED
  BY <1>2, <1>9, <1>10, <1>11, <1>12, <1>13 DEF AckInv, At

LEMMA AckKept ==
    ASSUME ThreadInv, AckInv, [Next]_vars
    PROVE  AckInv'
<1>1. CASE UNCHANGED threadVars
  BY <1>1 DEF threadVars, AckInv, At
<1>2. CASE CreateThread
  BY <1>2 DEF CreateThread, AckInv, At
<1>3. ASSUME NEW c \in Clients,
             \/ CreateMessage(c) \/ Chat(c) \/ LoadMessages(c) \/ LoadJobs(c)
             \/ PostReply(c) \/ Finish(c) \/ RequestStops(c)
             \/ DispatchMessage(c) \/ ChatDispatch(c) \/ CreateJob(c)
      PROVE  AckInv'
  <2>1. \E next : Goto(c, next) /\ ~Busy(next)
                  /\ (next.pc = "create" => next.new.status = "probing")
    <3>1. CASE Finish(c) \/ RequestStops(c)
      BY <3>1 DEF Finish, RequestStops, NoRequest, Busy
    <3>2. CASE LoadJobs(c)
      BY <3>2 DEF LoadJobs, Busy
    <3>3. CASE CreateMessage(c)
      BY <3>3 DEF CreateMessage, Busy
    <3>4. CASE Chat(c)
      BY <3>4 DEF Chat, Busy
    <3>5. CASE LoadMessages(c)
      BY <3>5 DEF LoadMessages, Busy
    <3>6. CASE PostReply(c)
      BY <3>6 DEF PostReply, Busy
    <3>7. CASE DispatchMessage(c)
      BY <3>7 DEF DispatchMessage, Busy, Handoff, NewJob
    <3>8. CASE ChatDispatch(c)
      BY <3>8 DEF ChatDispatch, Busy, Ordered, NewJob
    <3>9. CASE CreateJob(c)
      BY <3>9 DEF CreateJob, Busy, Ordered, NewJob
    <3>10. QED
      BY <1>3, <3>1, <3>2, <3>3, <3>4, <3>5, <3>6, <3>7, <3>8, <3>9
  <2>2. PICK next : Goto(c, next) /\ ~Busy(next)
                  /\ (next.pc = "create" => next.new.status = "probing")
    BY <2>1
  <2>3. UNCHANGED log \/ \E m \in Message : m.job = 0 /\ Post(m)
    <3>1. CASE CreateMessage(c)
      <4>1. PICK role \in {"user", "assistant", "system"}, t \in Texts :
               Post(Plain(role, "committed", t))
        BY <3>1, ThreadAssumption DEF CreateMessage
      <4>2. Plain(role, "committed", t) \in Message /\ Plain(role, "committed", t).job = 0
        BY PlainTyped DEF Plain
      <4>3. QED
        BY <4>1, <4>2
    <3>2. CASE Chat(c)
      <4>1. PICK t \in Texts : Post(Plain("user", "committed", t))
        BY <3>2 DEF Chat
      <4>2. Plain("user", "committed", t) \in Message
            /\ Plain("user", "committed", t).job = 0
        BY PlainTyped DEF Plain
      <4>3. QED
        BY <4>1, <4>2
    <3>3. CASE ChatDispatch(c)
      <4>1. PICK order \in Orders : order.prompt # None
                                    /\ Post(Plain("user", "committed", order.prompt))
        BY <3>3 DEF ChatDispatch
      <4>2. order.prompt \in Texts
        BY <4>1, OrderTyped DEF Order
      <4>3. Plain("user", "committed", order.prompt) \in Message
            /\ Plain("user", "committed", order.prompt).job = 0
        BY <4>2, PlainTyped DEF Plain
      <4>4. QED
        BY <4>1, <4>3
    <3>4. CASE PostReply(c)
      <4> DEFINE m == [Plain("assistant", "conversation.reply", ReplyText) EXCEPT
                         !.draft = request[c].draft, !.answers = request[c].own,
                         !.seen = request[c].seen]
      <4>1. Post(m) /\ m.job = 0
        BY <3>4 DEF PostReply, Plain
      <4>2. m \in Message
        BY <3>4, ReplyTyped DEF PostReply
      <4> HIDE DEF m
      <4>3. QED
        BY <4>1, <4>2
    <3>5. CASE ~(CreateMessage(c) \/ Chat(c) \/ ChatDispatch(c) \/ PostReply(c))
      BY <1>3, <3>5 DEF LoadMessages, LoadJobs, Finish, RequestStops, DispatchMessage,
                        CreateJob
    <3>6. QED
      BY <3>1, <3>2, <3>3, <3>4, <3>5
  <2>4. /\ UNCHANGED jobs
        /\ \/ ~At(c, "acknowledge") /\ UNCHANGED stopped
           \/ At(c, "acknowledge") /\ stopped' = stopped \cup {request[c].job}
    BY <1>3 DEF CreateMessage, Chat, LoadMessages, LoadJobs, PostReply, Finish, RequestStops,
                DispatchMessage, ChatDispatch, CreateJob, Starts, StartsJob, At
  <2>5. QED
    BY <2>2, <2>3, <2>4, AckQuiet
<1>4. ASSUME NEW c \in Clients, AttemptEnds(c)
      PROVE  AckInv'
  <2>1. PICK status \in Final :
           Dispatched(c, status, IF jobs[request[c].job].via = None THEN [pc |-> "finish"]
                                 ELSE [pc |-> "acknowledge", job |-> request[c].job])
    BY <1>4 DEF AttemptEnds, Final
  <2>2. CASE jobs[request[c].job].via = None
    BY <2>1, <2>2, AckDispatched
  <2>3. CASE jobs[request[c].job].via # None
    BY <2>1, <2>3, AckDispatched
  <2>4. QED
    BY <2>2, <2>3
<1>5. ASSUME NEW c \in Clients, PublishFails(c)
      PROVE  AckInv'
  BY <1>5, AckDispatched DEF PublishFails
<1>6. QED
  BY <1>1, <1>2, <1>3, <1>4, <1>5, AckInserted, AckPosted DEF Next, vars, ThreadsNext

(* A job is acknowledged in the thread once it went out, or found no edge, *)
(* and at most once, however its request and others interleave and stop.   *)
THEOREM HandoffsAreAcknowledged == Spec => []HandoffAcknowledged
<1>1. Init => AckInv
  BY DEF Init, ThreadsInit, AckInv, At, NoRequest, Busy
<1>2. ThreadInv /\ AckInv /\ [Next]_vars => AckInv'
  BY AckKept
<1>3. ASSUME ThreadInv, AckInv
      PROVE  HandoffAcknowledged
  <2>1. /\ log \in Seq(Message) /\ jobs \in Seq(Job) /\ Len(jobs) \in Nat
        /\ DOMAIN log = 1 .. Len(log) /\ DOMAIN jobs = 1 .. Len(jobs)
    BY <1>3 DEF ThreadInv, ThreadsTypeOK
  <2> SUFFICES ASSUME NEW n \in 1 .. Len(jobs)
               PROVE  /\ AcknowledgedBy(n) # {} => jobs[n].status \in Final
                      /\ Cardinality(AcknowledgedBy(n)) <= 1
                      /\ jobs[n].status \in Final /\ jobs[n].via # None =>
                            \/ AcknowledgedBy(n) # {}
                            \/ n \in stopped
                            \/ \E c \in Clients : At(c, "acknowledge") /\ request[c].job = n
    BY <2>1 DEF HandoffAcknowledged, Final
  <2>2. n # 0
    BY <2>1
  <2>3. \A i \in AcknowledgedBy(n) : i \in 1 .. Len(log) /\ log[i].job = n
    BY <2>1 DEF AcknowledgedBy
  <2>4. AcknowledgedBy(n) # {} => jobs[n].status \in Final
    BY <1>3, <2>2, <2>3 DEF AckInv
  <2>5. \A i, k \in AcknowledgedBy(n) : i = k
    BY <1>3, <2>2, <2>3 DEF AckInv
  <2>6. Cardinality(AcknowledgedBy(n)) <= 1
    BY <2>5, AtMostOne
  <2>7. QED
    BY <1>3, <2>1, <2>4, <2>6 DEF AckInv, AcknowledgedBy
<1>4. QED
  BY <1>1, <1>2, <1>3, ThreadsSound, PTL DEF Spec

-----------------------------------------------------------------------------
(* Notes *)

ReadingFields == {"pc", "found", "folded", "merged", "ranked"}

(* What merge_related_note_contexts has of the candidates it went through: *)
(* an entry for each note among them, in the role of the best and with all *)
(* their reasons.                                                          *)
Tells(entry, n, cs) ==
    /\ entry.note = n
    /\ \E c \in cs : c.role = entry.role /\ EffectiveScore(c) = entry.score
    /\ \A c \in cs : EffectiveScore(c) <= entry.score
    /\ entry.reasons = {c.role : c \in cs}
TellsAll(merged, seen) ==
    /\ DOMAIN merged = {c.note : c \in seen}
    /\ \A n \in DOMAIN merged : Tells(merged[n], n, {c \in seen : c.note = n})
Folded == {reading.found[i] : i \in 1 .. reading.folded}

(* The invariant of the reading: what is ranked at the end is what the map *)
(* holds, and the map tells of all that was folded in so far.              *)
MergeInv ==
    /\ reading.pc \in {"idle", "jobs", "retrieved"} => reading.folded = 0
    /\ TellsAll(reading.merged, Folded)
    /\ IsFiniteSet(DOMAIN reading.merged)
    /\ IF reading.pc = "details"
       THEN /\ reading.folded = Len(reading.found)
            /\ reading.ranked \in
                  Rankings({reading.merged[n] : n \in DOMAIN reading.merged})
       ELSE reading.ranked = <<>>

NotesInv ==
    /\ NotesTypeOK /\ DOMAIN reading = ReadingFields
    /\ MergeInv

LEMMA FoundTyped ==
    ASSUME NEW role \in MemoryRole, NEW limit \in Nat
    PROVE  Found(role, limit) \subseteq Seq(Candidate)
<1> SUFFICES ASSUME NEW found \in Found(role, limit)
             PROVE  found \in Seq(Candidate)
  OBVIOUS
<1>1. CASE found = <<>>
  BY <1>1
<1>2. ASSUME NEW n \in 1 .. limit, found \in [1 .. n -> {c \in Candidate : c.role = role}]
      PROVE  found \in Seq(Candidate)
  <2>1. n \in Nat /\ found \in [1 .. n -> Candidate]
    BY <1>2
  <2>2. QED
    BY <2>1
<1>3. QED
  BY <1>1, <1>2 DEF Found

LEMMA FoundNote ==
    ASSUME NotesInv, NEW p \in Promoters, FindNote(p)
    PROVE  \E found \in SUBSET NoteIds :
              /\ promotion' = [promotion EXCEPT ![p] = [pc |-> "post", note |-> found]]
              /\ found = {} => notes = {}
<1>1. notes \subseteq NoteIds
  BY DEF NotesInv, NotesTypeOK
<1>2. PICK found \in IF notes = {} THEN {{}} ELSE {{n} : n \in notes} :
         promotion' = [promotion EXCEPT ![p] = [pc |-> "post", note |-> found]]
  BY DEF FindNote
<1>3. found \in SUBSET NoteIds
  BY <1>1, <1>2
<1>4. found = {} => notes = {}
  BY <1>2
<1>5. QED
  BY <1>2, <1>3, <1>4

LEMMA EntryTyped ==
    ASSUME NEW c \in Candidate
    PROVE  /\ FirstSeen(c) \in Entry
           /\ EffectiveScore(c) \in Int
           /\ FirstSeen(c).note = c.note /\ FirstSeen(c).role = c.role
           /\ FirstSeen(c).score = EffectiveScore(c) /\ FirstSeen(c).reasons = {c.role}
<1>1. /\ c.note \in NoteIds /\ c.role \in MemoryRole /\ c.score \in Int /\ c.updated \in Times
  BY NotesAssumption DEF Candidate
<1>2. MemoryRoleBoost(c.role) \in Int
  BY <1>1 DEF MemoryRole, MemoryRoleBoost
<1>3. EffectiveScore(c) \in Int
  BY <1>1, <1>2 DEF EffectiveScore
<1>4. QED
  BY <1>1, <1>3 DEF FirstSeen, Entry

(* Absorbing a candidate of the same note keeps its entry the best.        *)
LEMMA AbsorbTells ==
    ASSUME NEW entry \in Entry, NEW c \in Candidate,
           NEW cs \in SUBSET Candidate, Tells(entry, c.note, cs)
    PROVE  Absorb(entry, c) \in Entry /\ Tells(Absorb(entry, c), c.note, cs \cup {c})
<1>1. /\ entry.note = c.note /\ entry.score \in Int /\ entry.role \in MemoryRole
      /\ entry.updated \in Times /\ entry.reasons \in SUBSET MemoryRole
  BY DEF Entry, Tells
<1>2. /\ FirstSeen(c) \in Entry /\ EffectiveScore(c) \in Int
      /\ FirstSeen(c).note = c.note /\ FirstSeen(c).role = c.role
      /\ FirstSeen(c).score = EffectiveScore(c)
  BY EntryTyped
<1>3. \A x \in cs : EffectiveScore(x) \in Int
  BY EntryTyped
<1> PICK reasons \in SUBSET MemoryRole : reasons = entry.reasons \cup {c.role}
  BY <1>1 DEF Candidate
<1> PICK base \in Entry : base = IF EffectiveScore(c) > entry.score THEN FirstSeen(c) ELSE entry
  BY <1>2
<1>4. Absorb(entry, c) = [base EXCEPT !.reasons = reasons]
  BY DEF Absorb
<1>5. /\ Absorb(entry, c) \in Entry
      /\ Absorb(entry, c).note = base.note /\ Absorb(entry, c).role = base.role
      /\ Absorb(entry, c).score = base.score /\ Absorb(entry, c).reasons = reasons
  BY <1>4 DEF Entry
<1>6. base.note = c.note
  BY <1>1, <1>2
<1>7. \E x \in cs \cup {c} : x.role = base.role /\ EffectiveScore(x) = base.score
  BY <1>2 DEF Tells
<1>8. \A x \in cs \cup {c} : EffectiveScore(x) <= base.score
  BY <1>1, <1>2, <1>3 DEF Tells
<1>9. reasons = {x.role : x \in cs \cup {c}}
  BY DEF Tells
<1>10. QED
  BY <1>5, <1>6, <1>7, <1>8, <1>9 DEF Tells

(* One pass of the loop of merge_related_note_contexts.                    *)
LEMMA MergeTells ==
    ASSUME NEW merged, NEW seen \in SUBSET Candidate, NEW c \in Candidate,
           merged \in [DOMAIN merged -> Entry], TellsAll(merged, seen),
           IsFiniteSet(DOMAIN merged)
    PROVE  LET next == MergeContext(merged, c) IN
           /\ next \in [DOMAIN next -> Entry]
           /\ DOMAIN next = DOMAIN merged \cup {c.note}
           /\ TellsAll(next, seen \cup {c})
           /\ IsFiniteSet(DOMAIN next)
<1> PICK next : next = MergeContext(merged, c)
  OBVIOUS
<1> PICK all : all = seen \cup {c}
  OBVIOUS
<1> PICK cs \in SUBSET Candidate : cs = {x \in seen : x.note = c.note}
  OBVIOUS
<1>1. DOMAIN next = DOMAIN merged \cup {c.note}
  BY DEF MergeContext
<1>2. DOMAIN next = {x.note : x \in all}
  BY <1>1 DEF TellsAll
<1>3. ASSUME NEW n \in DOMAIN next, n # c.note
      PROVE  next[n] \in Entry /\ Tells(next[n], n, {x \in all : x.note = n})
  <2>1. n \in DOMAIN merged /\ next[n] = merged[n]
    BY <1>1, <1>3 DEF MergeContext
  <2>2. {x \in all : x.note = n} = {x \in seen : x.note = n}
    BY <1>3
  <2>3. QED
    BY <2>1, <2>2 DEF TellsAll
<1>4. next[c.note] \in Entry /\ Tells(next[c.note], c.note, cs \cup {c})
  <2>1. CASE c.note \in DOMAIN merged
    <3> PICK entry \in Entry : entry = merged[c.note]
      BY <2>1
    <3>1. next[c.note] = Absorb(entry, c)
      BY <2>1 DEF MergeContext
    <3>2. Tells(entry, c.note, cs)
      BY <2>1 DEF TellsAll
    <3>3. QED
      BY <3>1, <3>2, AbsorbTells
  <2>2. CASE c.note \notin DOMAIN merged
    <3>1. next[c.note] = FirstSeen(c)
      BY <2>2 DEF MergeContext
    <3>2. cs \cup {c} = {c}
      BY <2>2 DEF TellsAll
    <3>3. EffectiveScore(c) <= EffectiveScore(c)
      BY EntryTyped
    <3>4. Tells(FirstSeen(c), c.note, {c}) /\ FirstSeen(c) \in Entry
      BY <3>3, EntryTyped DEF Tells
    <3>5. QED
      BY <3>1, <3>2, <3>4
  <2>3. QED
    BY <2>1, <2>2
<1>5. cs \cup {c} = {x \in all : x.note = c.note}
  OBVIOUS
<1>6. next[c.note] \in Entry /\ Tells(next[c.note], c.note, {x \in all : x.note = c.note})
  BY <1>4, <1>5
<1>7. \A n \in DOMAIN next :
         next[n] \in Entry /\ Tells(next[n], n, {x \in all : x.note = n})
  BY <1>3, <1>6
<1>8. next = [n \in DOMAIN next |-> next[n]]
  BY DEF MergeContext
<1>9. IsFiniteSet(DOMAIN next)
  BY <1>1, FS_AddElement
<1>10. QED
  BY <1>1, <1>2, <1>7, <1>8, <1>9 DEF TellsAll

(* A search: the loop has not begun, so that nothing is folded in.         *)
LEMMA SearchKeepsNotes ==
    ASSUME NotesInv, NEW from \in {"idle", "jobs", "retrieved"},
           NEW to \in {"jobs", "retrieved", "merge"}, NEW role \in MemoryRole,
           NEW limit \in Nat, Search(from, to, role, limit)
    PROVE  NotesInv'
<1>1. PICK found \in Found(role, limit) :
         reading' = [reading EXCEPT !.pc = to, !.found = reading.found \o found]
  BY DEF Search
<1>2. found \in Seq(Candidate) /\ reading.found \in Seq(Candidate)
  BY FoundTyped DEF NotesInv, NotesTypeOK
<1>3. reading.found \o found \in Seq(Candidate)
  BY <1>2
<1>4. /\ reading'.pc = to /\ reading'.found \in Seq(Candidate)
      /\ DOMAIN reading' = ReadingFields
      /\ reading'.folded = reading.folded /\ reading'.merged = reading.merged
      /\ reading'.ranked = reading.ranked
  BY <1>1, <1>3 DEF NotesInv, ReadingFields
<1>5. reading.folded = 0 /\ reading.ranked = <<>>
  BY DEF Search, NotesInv, MergeInv
<1>6. Folded = {} /\ Folded' = {}
  BY <1>4, <1>5 DEF Folded
<1>7. MergeInv'
  BY <1>4, <1>5, <1>6 DEF NotesInv, MergeInv
<1>8. NotesTypeOK'
  BY <1>4, <1>5 DEF Search, NotesInv, NotesTypeOK
<1>9. QED
  BY <1>4, <1>7, <1>8 DEF NotesInv

LEMMA MergeKeepsNotes ==
    ASSUME NotesInv, MergeCandidate
    PROVE  NotesInv'
<1> PICK k \in Nat : k = reading.folded /\ k < Len(reading.found)
  BY DEF NotesInv, NotesTypeOK, MergeCandidate
<1>1. reading.found \in Seq(Candidate) /\ k + 1 \in 1 .. Len(reading.found)
  BY DEF NotesInv, NotesTypeOK
<1> PICK c \in Candidate : c = reading.found[k + 1]
  BY <1>1
<1> PICK next : next = MergeContext(reading.merged, c)
  OBVIOUS
<1>2. reading' = [reading EXCEPT !.folded = k + 1, !.merged = next]
  BY DEF MergeCandidate
<1>3. /\ reading'.pc = "merge" /\ reading'.found = reading.found
      /\ DOMAIN reading' = ReadingFields
      /\ reading'.folded = k + 1 /\ reading'.merged = next
      /\ reading'.ranked = <<>>
  BY <1>2 DEF NotesInv, MergeInv, MergeCandidate, ReadingFields
<1>4. Folded \in SUBSET Candidate /\ Folded' = Folded \cup {c}
  <2>1. \A i \in 1 .. k : reading.found[i] \in Candidate
    BY <1>1
  <2>2. 1 .. k + 1 = (1 .. k) \cup {k + 1}
    OBVIOUS
  <2>3. Folded = {reading.found[i] : i \in 1 .. k}
    BY DEF Folded
  <2>4. Folded' = {reading.found[i] : i \in 1 .. k + 1}
    BY <1>3 DEF Folded
  <2>5. QED
    BY <2>1, <2>2, <2>3, <2>4
<1>5. /\ next \in [DOMAIN next -> Entry]
      /\ DOMAIN next = DOMAIN reading.merged \cup {c.note}
      /\ TellsAll(next, Folded \cup {c})
      /\ IsFiniteSet(DOMAIN next)
  <2>1. /\ reading.merged \in [DOMAIN reading.merged -> Entry]
        /\ TellsAll(reading.merged, Folded) /\ IsFiniteSet(DOMAIN reading.merged)
    BY DEF NotesInv, NotesTypeOK, MergeInv
  <2>2. QED
    BY <1>4, <2>1, MergeTells
<1>6. MergeInv'
  BY <1>3, <1>4, <1>5 DEF MergeInv
<1>7. DOMAIN next \subseteq NoteIds
  BY <1>5 DEF NotesInv, NotesTypeOK, Candidate
<1>8. NotesTypeOK'
  BY <1>1, <1>3, <1>5, <1>7 DEF MergeCandidate, NotesInv, NotesTypeOK
<1>9. QED
  BY <1>3, <1>6, <1>8 DEF NotesInv

LEMMA RankKeepsNotes ==
    ASSUME NotesInv, RankContexts
    PROVE  NotesInv'
<1>1. PICK ranked \in Rankings({reading.merged[n] : n \in DOMAIN reading.merged}) :
         reading' = [reading EXCEPT !.pc = "details", !.ranked = ranked]
  BY DEF RankContexts
<1>2. /\ reading'.pc = "details" /\ reading'.found = reading.found
      /\ reading'.folded = reading.folded /\ reading'.merged = reading.merged
      /\ reading'.ranked = ranked /\ DOMAIN reading' = ReadingFields
  BY <1>1 DEF NotesInv, ReadingFields
<1>3. Folded' = Folded
  BY <1>2 DEF Folded
<1>4. MergeInv'
  BY <1>2, <1>3 DEF RankContexts, NotesInv, MergeInv
<1>5. NotesTypeOK'
  BY <1>2 DEF RankContexts, NotesInv, NotesTypeOK
<1>6. QED
  BY <1>2, <1>4, <1>5 DEF NotesInv

LEMMA AtRestInv ==
    /\ NoReading.pc = "idle" /\ NoReading.found = <<>> /\ NoReading.folded = 0
    /\ NoReading.ranked = <<>> /\ DOMAIN NoReading = ReadingFields
    /\ NoReading.merged = [n \in {} |-> {}] /\ DOMAIN NoReading.merged = {}
    /\ NoReading.merged \in [DOMAIN NoReading.merged -> Entry]
    /\ reading = NoReading => MergeInv
<1>1. /\ NoReading.pc = "idle" /\ NoReading.found = <<>> /\ NoReading.folded = 0
      /\ NoReading.ranked = <<>> /\ DOMAIN NoReading = ReadingFields
      /\ NoReading.merged = [n \in {} |-> {}]
  BY DEF NoReading, ReadingFields
<1>2. DOMAIN NoReading.merged = {}
  BY <1>1
<1>3. NoReading.merged \in [DOMAIN NoReading.merged -> Entry]
  BY <1>1, <1>2
<1>4. ASSUME reading = NoReading PROVE MergeInv
  <2>1. Folded = {}
    BY <1>1, <1>4 DEF Folded
  <2>2. TellsAll(reading.merged, {})
    BY <1>2, <1>4 DEF TellsAll
  <2>3. QED
    BY <1>1, <1>2, <1>4, <2>1, <2>2, FS_EmptySet DEF MergeInv
<1>5. QED
  BY <1>1, <1>2, <1>3, <1>4

LEMMA ReadKeepsNotes ==
    ASSUME NotesInv, ReadNext
    PROVE  NotesInv'
<1>1. CASE SearchThreadNotes \/ SearchJobNotes \/ SearchByText
  BY <1>1, SearchKeepsNotes
     DEF SearchThreadNotes, SearchJobNotes, SearchByText, MemoryRole
<1>2. CASE ReadingEnds
  <2>1. reading' = NoReading
    BY <1>2 DEF ReadingEnds
  <2>2. MergeInv'
    <3>1. Folded' = {}
      BY <2>1, AtRestInv DEF Folded
    <3>2. TellsAll(NoReading.merged, {})
      BY AtRestInv DEF TellsAll
    <3>3. QED
      BY <2>1, <3>1, <3>2, AtRestInv, FS_EmptySet DEF MergeInv
  <2>3. QED
    BY <1>2, <2>1, <2>2, AtRestInv DEF ReadingEnds, NotesInv, NotesTypeOK
<1>3. QED
  BY <1>1, <1>2, MergeKeepsNotes, RankKeepsNotes DEF ReadNext

(* Promotions leave the reading alone.                                     *)
LEMMA ReadingUntouched ==
    ASSUME NotesInv, reading' = reading, notes' \subseteq NoteIds,
           promotion' \in [Promoters -> [pc: {"idle", "post", "wait"}, note: SUBSET NoteIds]],
           posts' \subseteq Promoters \X SUBSET NoteIds, crossed' \in BOOLEAN
    PROVE  NotesInv'
<1>1. Folded' = Folded
  BY DEF Folded
<1>2. MergeInv'
  BY <1>1 DEF NotesInv, MergeInv
<1>3. QED
  BY <1>2 DEF NotesInv, NotesTypeOK

LEMMA NotesTyped ==
    ASSUME NotesInv, [Next]_vars
    PROVE  NotesInv'
<1>1. CASE ReadNext
  BY <1>1, ReadKeepsNotes
<1>2. ASSUME NEW p \in Promoters, FindNote(p)
      PROVE  NotesInv'
  <2>1. PICK found \in SUBSET NoteIds :
           promotion' = [promotion EXCEPT ![p] = [pc |-> "post", note |-> found]]
    BY <1>2, FoundNote
  <2>2. promotion' \in [Promoters -> [pc: {"idle", "post", "wait"}, note: SUBSET NoteIds]]
    BY <2>1 DEF NotesInv, NotesTypeOK
  <2>3. QED
    BY <1>2, <2>2, ReadingUntouched DEF FindNote, NotesInv, NotesTypeOK, Crosses
<1>3. ASSUME NEW p \in Promoters, PostPromotion(p)
      PROVE  NotesInv'
  BY <1>3, ReadingUntouched DEF PostPromotion, NotesInv, NotesTypeOK
<1>4. ASSUME NEW p \in Promoters, PromotionEnds(p)
      PROVE  NotesInv'
  BY <1>4, ReadingUntouched DEF PromotionEnds, NoPromotion, NotesInv, NotesTypeOK
<1>5. ASSUME NEW post \in posts, ServicePromotes(post)
      PROVE  NotesInv'
  BY <1>5, ReadingUntouched DEF ServicePromotes, NotesInv, NotesTypeOK
<1>6. CASE UNCHANGED notesVars
  BY <1>6, ReadingUntouched DEF notesVars, NotesInv, NotesTypeOK
<1>7. QED
  BY <1>1, <1>2, <1>3, <1>4, <1>5, <1>6 DEF Next, vars, PromoteNext

LEMMA NotesSound == Spec => []NotesInv
<1>1. Init => NotesInv
  <2> SUFFICES ASSUME Init
               PROVE  NotesInv
    OBVIOUS
  <2>1. reading = NoReading
    BY DEF Init, NotesInit
  <2>2. promotion \in [Promoters -> [pc: {"idle", "post", "wait"}, note: SUBSET NoteIds]]
    BY DEF Init, NotesInit, NoPromotion
  <2>3. notes = {} /\ posts = {} /\ crossed = FALSE
    BY DEF Init, NotesInit
  <2>4. MergeInv
    BY <2>1, AtRestInv
  <2>5. reading.found \in Seq(Candidate) /\ reading.folded \in 0 .. Len(reading.found)
    BY <2>1, AtRestInv
  <2>6. QED
    BY <2>1, <2>2, <2>3, <2>4, <2>5, AtRestInv DEF NotesInv, NotesTypeOK
<1>2. NotesInv /\ [Next]_vars => NotesInv'
  BY NotesTyped
<1>3. QED
  BY <1>1, <1>2, PTL DEF Spec

(* What a ranking of a map of notes is: entries of distinct notes, the     *)
(* entry of every note in the map, better scores first.                    *)
LEMMA RankingOf ==
    ASSUME NEW merged, NEW ranked,
           merged \in [DOMAIN merged -> Entry], IsFiniteSet(DOMAIN merged),
           \A n \in DOMAIN merged : merged[n].note = n,
           ranked \in Rankings({merged[n] : n \in DOMAIN merged})
    PROVE  /\ \A i \in DOMAIN ranked :
                 ranked[i].note \in DOMAIN merged /\ ranked[i] = merged[ranked[i].note]
           /\ \A n \in DOMAIN merged : \E i \in DOMAIN ranked : ranked[i].note = n
           /\ \A i, k \in DOMAIN ranked : i < k =>
                 ranked[i].note # ranked[k].note /\ ranked[i].score >= ranked[k].score
<1> PICK entries : entries = {merged[n] : n \in DOMAIN merged}
  OBVIOUS
<1>1. ranked \in Rankings(entries)
  OBVIOUS
<1>2. Cardinality(entries) \in Nat
  <2>1. merged \in Surjection(DOMAIN merged, entries)
    BY DEF Surjection
  <2>2. IsFiniteSet(entries)
    BY <2>1, FS_Surjection
  <2>3. QED
    BY <2>2, FS_CardinalityType
<1> PICK size \in Nat : size = Cardinality(entries)
  BY <1>2
<1>3. /\ ranked \in [1 .. size -> entries]
      /\ \A i, k \in 1 .. size : ranked[i] = ranked[k] => i = k
      /\ \A e \in entries : \E i \in 1 .. size : ranked[i] = e
      /\ \A i, k \in 1 .. size : i < k => Before(ranked[i], ranked[k])
  <2>1. /\ ranked \in Bijection(1 .. size, entries)
        /\ \A i, k \in DOMAIN ranked : i < k => Before(ranked[i], ranked[k])
    BY <1>1 DEF Rankings
  <2>2. /\ ranked \in [1 .. size -> entries]
        /\ \A e \in entries : \E i \in 1 .. size : ranked[i] = e
    BY <2>1 DEF Bijection, Surjection
  <2>3. IsInjective(ranked)
    BY <2>1 DEF Bijection, Injection
  <2>4. \A i, k \in 1 .. size : ranked[i] = ranked[k] => i = k
    BY <2>2, <2>3 DEF IsInjective
  <2>5. DOMAIN ranked = 1 .. size
    BY <2>2
  <2>6. \A i, k \in 1 .. size : i < k => Before(ranked[i], ranked[k])
    BY <2>1, <2>5
  <2>7. QED
    BY <2>2, <2>4, <2>6, Zenon
<1>4. \A i \in 1 .. size :
         /\ ranked[i] \in Entry /\ ranked[i].note \in DOMAIN merged
         /\ ranked[i] = merged[ranked[i].note]
  <2> SUFFICES ASSUME NEW i \in 1 .. size
               PROVE  /\ ranked[i] \in Entry /\ ranked[i].note \in DOMAIN merged
                      /\ ranked[i] = merged[ranked[i].note]
    OBVIOUS
  <2>1. PICK n \in DOMAIN merged : ranked[i] = merged[n]
    BY <1>3
  <2>2. QED
    BY <2>1
<1>5. ASSUME NEW n \in DOMAIN merged
      PROVE  \E i \in 1 .. size : ranked[i].note = n
  <2>1. merged[n] \in entries
    OBVIOUS
  <2>2. PICK i \in 1 .. size : ranked[i] = merged[n]
    BY <1>3, <2>1
  <2>3. QED
    BY <2>2
<1>6. ASSUME NEW i \in 1 .. size, NEW k \in 1 .. size, i < k
      PROVE  ranked[i].note # ranked[k].note /\ ranked[i].score >= ranked[k].score
  <2>1. ranked[i] # ranked[k]
    BY <1>3, <1>6
  <2>2. ranked[i].note # ranked[k].note
    BY <1>4, <2>1
  <2>3. ranked[i].score \in Int /\ ranked[k].score \in Int
    BY <1>4 DEF Entry
  <2>4. Before(ranked[i], ranked[k])
    BY <1>3, <1>6
  <2>5. QED
    BY <2>2, <2>3, <2>4 DEF Before
<1>7. DOMAIN ranked = 1 .. size
  BY <1>3
<1>8. \A i \in DOMAIN ranked, k \in DOMAIN ranked : i < k =>
         ranked[i].note # ranked[k].note /\ ranked[i].score >= ranked[k].score
  BY <1>6, <1>7
<1>9. \A i \in DOMAIN ranked :
         ranked[i].note \in DOMAIN merged /\ ranked[i] = merged[ranked[i].note]
  BY <1>4, <1>7
<1>10. \A n \in DOMAIN merged : \E i \in DOMAIN ranked : ranked[i].note = n
  BY <1>5, <1>7
<1>11. QED
  BY <1>8, <1>9, <1>10, Zenon

(* So when the merge is done.                                              *)
LEMMA RankedEntries ==
    ASSUME NotesInv, reading.pc = "details",
           NEW merged, merged = reading.merged, NEW ranked, ranked = reading.ranked
    PROVE  /\ \A i \in DOMAIN ranked :
                 ranked[i].note \in DOMAIN merged /\ ranked[i] = merged[ranked[i].note]
           /\ \A n \in DOMAIN merged : \E i \in DOMAIN ranked : ranked[i].note = n
           /\ \A i, k \in DOMAIN ranked : i < k =>
                 ranked[i].note # ranked[k].note /\ ranked[i].score >= ranked[k].score
<1>1. merged \in [DOMAIN merged -> Entry] /\ IsFiniteSet(DOMAIN merged)
  BY DEF NotesInv, NotesTypeOK, MergeInv
<1>2. \A n \in DOMAIN merged : merged[n].note = n
  BY DEF NotesInv, MergeInv, TellsAll, Tells
<1>3. ranked \in Rankings({merged[n] : n \in DOMAIN merged})
  BY DEF NotesInv, MergeInv
<1>4. QED
  BY <1>1, <1>2, <1>3, RankingOf

(* Whatever the searches found and in whatever order, the merged context   *)
(* tells of each note once, in its best role and with every reason, better *)
(* scores first (merge_related_note_contexts).                             *)
THEOREM MemoriesMerged == Spec => []MemoryMerged
<1>1. ASSUME NotesInv PROVE MemoryMerged
  <2> SUFFICES ASSUME reading.pc = "details" PROVE MemoryMerged
    BY DEF MemoryMerged
  <2> PICK merged : merged = reading.merged
    OBVIOUS
  <2> PICK ranked : ranked = reading.ranked
    OBVIOUS
  <2> PICK cs : cs = ToSet(reading.found)
    OBVIOUS
  <2>1. Folded = cs
    <3>1. reading.found \in Seq(Candidate) /\ reading.folded = Len(reading.found)
      BY <1>1 DEF NotesInv, NotesTypeOK, MergeInv
    <3>2. QED
      BY <3>1 DEF Folded, ToSet
  <2>2. TellsAll(merged, cs)
    BY <1>1, <2>1 DEF NotesInv, MergeInv
  <2>3. /\ \A i \in DOMAIN ranked :
              ranked[i].note \in DOMAIN merged /\ ranked[i] = merged[ranked[i].note]
        /\ \A n \in DOMAIN merged : \E i \in DOMAIN ranked : ranked[i].note = n
        /\ \A i, k \in DOMAIN ranked : i < k =>
              ranked[i].note # ranked[k].note /\ ranked[i].score >= ranked[k].score
    BY <1>1, RankedEntries
  <2>4. {ranked[i].note : i \in DOMAIN ranked} = {c.note : c \in cs}
    <3>1. DOMAIN merged = {c.note : c \in cs}
      BY <2>2 DEF TellsAll
    <3>2. {ranked[i].note : i \in DOMAIN ranked} = DOMAIN merged
      BY <2>3
    <3>3. QED
      BY <3>1, <3>2
  <2>5. ASSUME NEW i \in DOMAIN ranked
        PROVE  Tells(ranked[i], ranked[i].note, {c \in cs : c.note = ranked[i].note})
    <3>1. ranked[i].note \in DOMAIN merged /\ ranked[i] = merged[ranked[i].note]
      BY <2>3
    <3>2. PICK n \in DOMAIN merged : n = ranked[i].note
      BY <3>1
    <3>3. Tells(merged[n], n, {c \in cs : c.note = n})
      BY <2>2 DEF TellsAll
    <3>4. QED
      BY <3>1, <3>2, <3>3
  <2>6. \A i \in DOMAIN ranked :
           /\ \A c \in {d \in cs : d.note = ranked[i].note} :
                 EffectiveScore(c) <= ranked[i].score
           /\ \E c \in {d \in cs : d.note = ranked[i].note} :
                 c.role = ranked[i].role /\ EffectiveScore(c) = ranked[i].score
           /\ ranked[i].reasons = {c.role : c \in {d \in cs : d.note = ranked[i].note}}
    BY <2>5 DEF Tells
  <2>7. QED
    BY <2>3, <2>4, <2>6 DEF MemoryMerged
<1>2. QED
  BY <1>1, NotesSound, PTL

LEMMA ScoreTyped ==
    ASSUME NEW c \in Candidate
    PROVE  c.score \in Scores /\ c.score \in Int
BY NotesAssumption DEF Candidate

(* Notes promoted from the thread or its jobs come before those a search   *)
(* brought up, as long as the service's scores differ by less than the     *)
(* smaller boost (JOB_MEMORY_BOOST, 900): the code adds the boosts to      *)
(* scores it does not bound itself.                                        *)
THEOREM PromotedGoFirst ==
    ASSUME \A s, t \in Scores : s < t + 900
    PROVE  Spec => []PromotedFirst
<1>1. ASSUME NotesInv PROVE PromotedFirst
  <2>1. CASE reading.pc # "details"
    BY <1>1, <2>1 DEF NotesInv, MergeInv, PromotedFirst
  <2>2. CASE reading.pc = "details"
    <3> SUFFICES ASSUME NEW i \in DOMAIN reading.ranked, NEW k \in DOMAIN reading.ranked, i < k,
                        reading.ranked[i].role = "retrieved_memory",
                        reading.ranked[k].role # "retrieved_memory"
                 PROVE  FALSE
      BY DEF PromotedFirst
    <3>1. ASSUME NEW x \in DOMAIN reading.ranked
          PROVE  \E c \in Candidate :
                    /\ c.role = reading.ranked[x].role
                    /\ EffectiveScore(c) = reading.ranked[x].score
      <4>1. /\ reading.ranked[x].note \in DOMAIN reading.merged
            /\ reading.ranked[x] = reading.merged[reading.ranked[x].note]
        BY <1>1, <2>2, RankedEntries
      <4>2. \A n \in 1 .. reading.folded : reading.found[n] \in Candidate
        BY <1>1 DEF NotesInv, NotesTypeOK
      <4>3. QED
        BY <1>1, <4>1, <4>2 DEF NotesInv, MergeInv, TellsAll, Tells, Folded
    <3>2. PICK c \in Candidate :
             c.role = "retrieved_memory" /\ EffectiveScore(c) = reading.ranked[i].score
      BY <3>1
    <3>3. PICK d \in Candidate :
             d.role # "retrieved_memory" /\ EffectiveScore(d) = reading.ranked[k].score
      BY <3>1
    <3>4. c.score \in Scores /\ d.score \in Scores /\ c.score \in Int /\ d.score \in Int
      BY ScoreTyped
    <3>5. EffectiveScore(c) = c.score
      BY <3>2, <3>4 DEF EffectiveScore, MemoryRoleBoost
    <3>6. EffectiveScore(d) >= d.score + 900
      <4>1. d.role \in {"direct_thread_memory", "direct_job_memory"}
        BY <3>3 DEF Candidate, MemoryRole
      <4>2. QED
        BY <3>4, <4>1 DEF EffectiveScore, MemoryRoleBoost
    <3>7. reading.ranked[i].score >= reading.ranked[k].score
      BY <1>1, <2>2, RankedEntries
    <3>8. EffectiveScore(d) \in Int
      BY EntryTyped
    <3>9. QED
      BY <3>2, <3>3, <3>4, <3>5, <3>6, <3>7, <3>8
  <2>3. QED
    BY <2>1, <2>2
<1>2. QED
  BY <1>1, NotesSound, PTL

(* Every part of a thread, its requests and its notes keeps its type; a    *)
(* draft that is built always has a name and an intent.                    *)
THEOREM ThreadTypes == Spec => []TypeOK
<1>1. ThreadInv /\ NotesInv => TypeOK
  BY DEF ThreadInv, NotesInv, TypeOK
<1>2. QED
  BY <1>1, ThreadsSound, NotesSound, PTL

(* As long as promotions came one after the other there is one note, or    *)
(* one promotion that is to make it, and it is not made yet.               *)
OneInTurn == ~crossed =>
    /\ \A m, n \in notes : m = n
    /\ \A p, q \in Promoters : promotion[p].pc = "post" /\ promotion[q].pc = "post" => p = q
    /\ \A p \in Promoters : promotion[p].pc = "post" =>
          posts = {} /\ (promotion[p].note = {} => notes = {})
    /\ \A x, y \in posts : x = y
    /\ \A x \in posts : x[2] = {} => notes = {}

LEMMA OneInTurnKept ==
    ASSUME NotesInv, OneInTurn, [Next]_vars
    PROVE  OneInTurn'
<1>1. promotion \in [Promoters -> [pc: {"idle", "post", "wait"}, note: SUBSET NoteIds]]
  BY DEF NotesInv, NotesTypeOK
<1>2. CASE UNCHANGED <<notes, promotion, posts, crossed>>
  BY <1>2 DEF OneInTurn
<1>3. ASSUME NEW p \in Promoters, FindNote(p)
      PROVE  OneInTurn'
  <2>1. PICK found \in SUBSET NoteIds :
           /\ promotion' = [promotion EXCEPT ![p] = [pc |-> "post", note |-> found]]
           /\ found = {} => notes = {}
    BY <1>3, FoundNote
  <2>2. crossed' = (crossed \/ Crosses) /\ UNCHANGED <<notes, posts>>
    BY <1>3 DEF FindNote
  <2>3. QED
    BY <1>1, <2>1, <2>2 DEF OneInTurn, Crosses
<1>4. ASSUME NEW p \in Promoters, PostPromotion(p)
      PROVE  OneInTurn'
  <2>1. /\ promotion[p].pc = "post"
        /\ posts' = posts \cup {<<p, promotion[p].note>>}
        /\ promotion' = [promotion EXCEPT ![p] = [pc |-> "wait", note |-> {}]]
        /\ UNCHANGED <<notes, crossed>>
    BY <1>4 DEF PostPromotion
  <2>2. QED
    BY <1>1, <2>1 DEF OneInTurn
<1>5. ASSUME NEW p \in Promoters, PromotionEnds(p)
      PROVE  OneInTurn'
  BY <1>1, <1>5 DEF PromotionEnds, NoPromotion, OneInTurn
<1>6. ASSUME NEW post \in posts, ServicePromotes(post)
      PROVE  OneInTurn'
  BY <1>1, <1>6 DEF ServicePromotes, OneInTurn
<1>7. QED
  BY <1>2, <1>3, <1>4, <1>5, <1>6
     DEF Next, vars, notesVars, ReadNext, PromoteNext, SearchThreadNotes, SearchJobNotes,
         SearchByText, Search, MergeCandidate, RankContexts, ReadingEnds

(* A promotion that is repeated revises the job's note: there are two only *)
(* if promotions were under way at once (promote_job_note looks before it  *)
(* posts).                                                                 *)
THEOREM OneNotePerJob == Spec => []OneNoteInTurn
<1>1. Init => OneInTurn
  BY DEF Init, NotesInit, NoPromotion, OneInTurn
<1>2. NotesInv /\ OneInTurn /\ [Next]_vars => OneInTurn'
  BY OneInTurnKept
<1>3. OneInTurn => OneNoteInTurn
  BY AtMostOne DEF OneInTurn, OneNoteInTurn
<1>4. QED
  BY <1>1, <1>2, <1>3, NotesSound, PTL DEF Spec

=============================================================================
