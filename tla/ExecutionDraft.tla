---------------------------- MODULE ExecutionDraft ----------------------------
(***************************************************************************)
(* services/conversation.rs: which execution draft a chat reply carries.   *)
(*                                                                         *)
(* The code looks for phrases in the user's latest message.  What it finds *)
(* is Reading[text]; a text itself is only a name.  A prompt is the        *)
(* sequence of the texts it was merged from.  Title and rationale are      *)
(* wording, and left out.                                                  *)
(***************************************************************************)
EXTENDS Naturals, Sequences

CONSTANTS Texts,   \* what users write
          Reading, \* per text, what the looks_like_* and extract_* functions find
          Names,   \* repositories and branches
          None,    \* a Rust None
          NoDraft, \* a reply without a draft
          NoTarget \* load_thread_jobs found no job

Intent == {"read_only", "workspace_change"}
MaybeName == Names \cup {None}

Finding == [execution: BOOLEAN,   \* looks_like_execution_request
            capability: BOOLEAN,  \* looks_like_capability_request
            refines: BOOLEAN,     \* looks_like_draft_refinement
            readOnly: BOOLEAN,    \* looks_like_read_only_request
            override: Intent \cup {None}, \* extract_execution_intent_override
            repo: MaybeName,      \* extract_repo_hint
            branch: MaybeName,    \* extract_base_branch_hint
            update: Texts \cup {None}] \* extract_refinement_request_update

ASSUME DraftAssumption ==
    /\ Reading \in [Texts -> Finding]
    /\ {"unspecified", "generic_jobs", "main"} \subseteq Names
    /\ None \notin Names \cup Texts \cup Intent

Draft == [kind: {"repository", "capability"}, name: Names, branch: MaybeName,
          prompt: Seq(Texts), intent: Intent, source: Nat]
(* The newest job's repo_name and base_branch columns.                     *)
Target == [repo: MaybeName, branch: MaybeName]
-----------------------------------------------------------------------------
Or(name, other) == IF name = None THEN other ELSE name

(* Mutant of InferExecutionIntent: only a read-only request is understood. *)
InferExecutionIntentOrNone(t) == IF Reading[t].readOnly THEN "read_only" ELSE None
InferExecutionIntent(t) ==
    IF Reading[t].readOnly THEN "read_only" ELSE "workspace_change"

(* merge_request_text *)
MergeRequestText(prompt, update) ==
    IF update = None \/ prompt = <<update>> THEN prompt ELSE Append(prompt, update)

ShouldDraft(t, prev) ==
    \/ Reading[t].execution
    \/ Reading[t].capability
    \/ prev # NoDraft /\ Reading[t].refines

(* Mutant of DraftPrompt: a refinement stands in for the request it refines. *)
DraftPromptLatest(t, prev) == <<t>>
DraftPrompt(t, prev) ==
    IF Reading[t].execution \/ prev = NoDraft THEN <<t>>
    ELSE MergeRequestText(prev.prompt, Reading[t].update)

DraftKind(t, prev) ==
    IF Reading[t].capability \/ (prev # NoDraft /\ prev.kind = "capability")
    THEN "capability" ELSE "repository"

(* A capability draft takes over whatever name the draft before it had, a  *)
(* repository's too; a repository draft a capability's never.              *)
DraftName(t, prev, target) ==
    LET prevName == IF prev = NoDraft THEN None ELSE prev.name
        jobRepo == IF target = NoTarget THEN None ELSE target.repo
    IN IF DraftKind(t, prev) = "capability" THEN Or(prevName, "generic_jobs")
       ELSE Or(Or(Or(Reading[t].repo, prevName), jobRepo), "unspecified")

DraftBranch(t, prev, target) ==
    LET prevBranch == IF prev = NoDraft THEN None ELSE prev.branch
        jobBranch == IF target = NoTarget THEN None ELSE target.branch
    IN IF DraftKind(t, prev) = "capability" THEN None
       ELSE Or(Or(Or(Reading[t].branch, prevBranch), jobBranch), "main")

(* Mutant of DraftIntent: what the words suggest goes before the draft.    *)
DraftIntentInferred(t, prev) == Or(Reading[t].override, InferExecutionIntent(t))
DraftIntent(t, prev) ==
    IF Reading[t].execution \/ (prev = NoDraft /\ Reading[t].override = None)
    THEN InferExecutionIntent(t)
    ELSE Or(Reading[t].override, IF prev = NoDraft THEN None ELSE prev.intent)

(* maybe_build_execution_draft, for the user's latest message (its text    *)
(* and its place), the thread's last draft and its newest job.             *)
BuildDraft(t, source, prev, target) ==
    IF ~ShouldDraft(t, prev) THEN NoDraft
    ELSE [kind |-> DraftKind(t, prev), name |-> DraftName(t, prev, target),
          branch |-> DraftBranch(t, prev, target), prompt |-> DraftPrompt(t, prev),
          intent |-> DraftIntent(t, prev), source |-> source]
=============================================================================
