----------------------------- MODULE ThreadRoutes -----------------------------
(***************************************************************************)
(* A thread, the requests that write to it, and the notes that are read    *)
(* for it and promoted from its jobs.  They share no state that is written *)
(* by either, so that each is looked at while the other is at rest.        *)
(***************************************************************************)
EXTENDS Threads, Notes

vars == <<threadVars, notesVars>>

Init == ThreadsInit /\ NotesInit

(* Bound: notes are read for, and promoted from, a thread that is not      *)
(* otherwise in use.                                                       *)
NotReading == reading = NoReading
NotPromoting == posts = {} /\ \A p \in Promoters : promotion[p] = NoPromotion

Next ==
    \/ NotReading /\ NotPromoting /\ notes = {} /\ ThreadsNext /\ UNCHANGED notesVars
    \/ ~exists /\ NotPromoting /\ notes = {} /\ ReadNext /\ UNCHANGED threadVars
    \/ ~exists /\ NotReading /\ PromoteNext /\ UNCHANGED threadVars

Spec == Init /\ [][Next]_vars
-----------------------------------------------------------------------------
TypeOK == ThreadsTypeOK /\ NotesTypeOK

IsReply(m) == m.status = "conversation.reply"

(* A reply is made with the message it answers in view, and a draft in it  *)
(* is of the last thing a user said in what its request had loaded: of the *)
(* request's own message, unless another user's came in between.           *)
RepliesInformed == \A i \in DOMAIN log : IsReply(log[i]) =>
    /\ log[i].answers <= log[i].seen
    /\ log[log[i].answers].role = "user"
    /\ log[i].draft # NoDraft =>
          /\ log[i].draft.source \in log[i].answers .. log[i].seen
          /\ log[log[i].draft.source].role = "user"

(* "Preserve a read-only draft as read-only unless the user clearly asks to*)
(* make repository changes": a draft that may change the workspace follows *)
(* a read-only one only if the message it was made from is a request of its*)
(* own, not read-only, or allows changes.  Of two chats at once either may *)
(* not have seen the other's draft.                                        *)
AsksForChange(t) ==
    \/ Reading[t].execution /\ ~Reading[t].readOnly
    \/ Reading[t].override = "workspace_change"
ReadOnlyKept == \A i, k \in DOMAIN log :
    /\ log[i].draft # NoDraft /\ log[i].draft.intent = "workspace_change"
    /\ k \in LatestIn(DraftsIn(log[i].seen)) /\ log[k].draft.intent = "read_only"
    => AsksForChange(log[log[i].draft.source].text)

(* "Updated the draft using the latest conversational refinement": what was*)
(* asked for before is still in the prompt of the next draft, unless the   *)
(* user asks for something else altogether.                                *)
RefinementKeeps == \A i, k \in DOMAIN log :
    /\ log[i].draft # NoDraft
    /\ k \in LatestIn(DraftsIn(log[i].seen))
    /\ ~Reading[log[log[i].draft.source].text].execution
    => IsPrefix(log[k].draft.prompt, log[i].draft.prompt)

(* A draft that is dispatched as it is shown, with nothing filled in by the*)
(* request, becomes the job it describes (routes/threads.rs, the fields of *)
(* CreateJobRequest).                                                      *)
JobAsShown == \A n \in DOMAIN jobs :
    LET job == jobs[n]  order == job.order IN
    /\ job.via = "workflow.handoff.created"
    /\ order.kind = "repository"
    /\ {order.name, order.branch, order.intent, order.prompt} = {None}
    => LET d == log[job.from].draft IN
       /\ d # NoDraft
       /\ <<job.kind, job.name, job.branch, job.prompt, job.intent>> =
             <<d.kind, d.name, d.branch, d.prompt, d.intent>>

(* A job that went out, or that found no edge, is acknowledged in the      *)
(* thread once, if the request that made it says so and did not stop right *)
(* there; a job whose publish failed is not.                               *)
AcknowledgedBy(n) == {i \in DOMAIN log : log[i].job = n}
HandoffAcknowledged == \A n \in DOMAIN jobs :
    /\ AcknowledgedBy(n) # {} => jobs[n].status \in {"dispatched", "unavailable"}
    /\ Cardinality(AcknowledgedBy(n)) <= 1
    /\ jobs[n].status \in {"dispatched", "unavailable"} /\ jobs[n].via # None =>
          \/ AcknowledgedBy(n) # {}
          \/ n \in stopped
          \/ \E c \in Clients : At(c, "acknowledge") /\ request[c].job = n
=============================================================================
