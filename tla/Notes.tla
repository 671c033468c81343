-------------------------------- MODULE Notes --------------------------------
(***************************************************************************)
(* services/notes.rs and routes/notes.rs: reading the notes related to a   *)
(* thread, and promoting a job's summary to a note.  The notes service is  *)
(* another program, which each request calls several times over HTTP, and  *)
(* each call may fail: what it answers is any small result.                *)
(*                                                                         *)
(* One reader stands for all (a read changes nothing); promotions are of   *)
(* one job, as the notes of different jobs are never related.              *)
(***************************************************************************)
EXTENDS Integers, FiniteSets, SequencesExt

CONSTANTS NoteIds,
          Scores,    \* relevance scores the service gives
          Times,     \* updated_at
          Promoters  \* bound: promotions of the job at once

(* The service's scores are floats; only their order and sums matter here. *)
ASSUME NotesAssumption == Scores \subseteq Int /\ Times \subseteq Int

VARIABLES reading,   \* load_related_thread_notes_bundle in progress
          notes,     \* the notes of the job in the service
          promotion, \* promote_job_note in progress, per promoter
          posts,     \* POSTs of promotions that the service has still to act on
          crossed    \* history: a search was answered while a POST was under way

notesVars == <<reading, notes, promotion, posts, crossed>>

MemoryRole == {"direct_thread_memory", "direct_job_memory", "retrieved_memory"}
Candidate == [note: NoteIds, role: MemoryRole, score: Scores, updated: Times]
Entry == [note: NoteIds, role: MemoryRole, score: Int, updated: Times,
          reasons: SUBSET MemoryRole]

(* found: the candidates, in the order of the searches; folded: how many   *)
(* of them are in the map merged; ranked: what the map holds, sorted.      *)
NoReading == [pc |-> "idle", found |-> <<>>, folded |-> 0,
              merged |-> [n \in {} |-> {}], ranked |-> <<>>]
NoPromotion == [pc |-> "idle", note |-> {}]

NotesTypeOK ==
    /\ reading.pc \in {"idle", "jobs", "retrieved", "merge", "details"}
    /\ reading.found \in Seq(Candidate) /\ reading.folded \in 0 .. Len(reading.found)
    /\ reading.merged \in [DOMAIN reading.merged -> Entry]
    /\ DOMAIN reading.merged \subseteq NoteIds
    /\ notes \subseteq NoteIds
    /\ promotion \in [Promoters -> [pc: {"idle", "post", "wait"}, note: SUBSET NoteIds]]
    /\ posts \subseteq Promoters \X SUBSET NoteIds
    /\ crossed \in BOOLEAN

NotesInit ==
    /\ reading = NoReading
    /\ notes = {}
    /\ promotion = [p \in Promoters |-> NoPromotion]
    /\ posts = {}
    /\ crossed = FALSE
-----------------------------------------------------------------------------
(* merge_related_note_contexts *)

(* Mutant of MemoryRoleBoost: a boost that a good score outweighs.         *)
MemoryRoleBoostSmall(role) == IF role = "retrieved_memory" THEN 0 ELSE 100
MemoryRoleBoost(role) ==
    CASE role = "direct_thread_memory" -> 1000
      [] role = "direct_job_memory" -> 900
      [] role = "retrieved_memory" -> 0
EffectiveScore(c) == c.score + MemoryRoleBoost(c.role)

FirstSeen(c) == [note |-> c.note, role |-> c.role, score |-> EffectiveScore(c),
                 updated |-> c.updated, reasons |-> {c.role}]

(* Mutant of Absorb: the latest candidate takes the note over.             *)
AbsorbLatest(entry, c) ==
    [FirstSeen(c) EXCEPT !.reasons = entry.reasons \cup {c.role}]
(* A later candidate for a note takes it over only with a better score;    *)
(* why it was found is kept of every one.                                  *)
Absorb(entry, c) ==
    [(IF EffectiveScore(c) > entry.score THEN FirstSeen(c) ELSE entry)
        EXCEPT !.reasons = entry.reasons \cup {c.role}]

MergeContext(merged, c) ==
    [n \in DOMAIN merged \cup {c.note} |->
        IF n # c.note THEN merged[n]
        ELSE IF n \in DOMAIN merged THEN Absorb(merged[n], c)
        ELSE FirstSeen(c)]

Before(left, right) ==
    \/ left.score > right.score
    \/ left.score = right.score /\ left.updated >= right.updated

(* Notes with the same score and time come in the map's order, any order.  *)
Rankings(entries) ==
    {s \in Bijection(1 .. Cardinality(entries), entries) :
        \A i, k \in DOMAIN s : i < k => Before(s[i], s[k])}
-----------------------------------------------------------------------------
(* load_related_thread_notes_bundle: three searches, merge, details.       *)

Found(role, limit) ==
    {<<>>} \cup UNION {[1 .. n -> {c \in Candidate : c.role = role}] : n \in 1 .. limit}

(* Bound: limit, where the code asks for 4 or 8; the second search is made  *)
(* once per job of the thread.                                             *)
Search(from, to, role, limit) ==
    /\ reading.pc = from
    /\ \E found \in Found(role, limit) :
          /\ IsInjective([i \in DOMAIN found |-> found[i].note])
          /\ reading' = [reading EXCEPT !.pc = to, !.found = @ \o found]
    /\ UNCHANGED <<notes, promotion, posts, crossed>>

SearchThreadNotes == Search("idle", "jobs", "direct_thread_memory", 1)
SearchJobNotes == Search("jobs", "retrieved", "direct_job_memory", 1)
SearchByText == Search("retrieved", "merge", "retrieved_memory", 2)

(* One pass of the loop; nothing else reads or writes the map.             *)
MergeCandidate ==
    /\ reading.pc = "merge" /\ reading.folded < Len(reading.found)
    /\ reading' = [reading EXCEPT
                     !.folded = @ + 1,
                     !.merged = MergeContext(@, reading.found[reading.folded + 1])]
    /\ UNCHANGED <<notes, promotion, posts, crossed>>

RankContexts ==
    /\ reading.pc = "merge" /\ reading.folded = Len(reading.found)
    /\ LET merged == reading.merged IN
       \E ranked \in Rankings({merged[n] : n \in DOMAIN merged}) :
          reading' = [reading EXCEPT !.pc = "details", !.ranked = ranked]
    /\ UNCHANGED <<notes, promotion, posts, crossed>>

(* The details of the first three are there, or a call failed: either way  *)
(* the request is over.  The merge calls nobody.                           *)
ReadingEnds ==
    /\ reading.pc \notin {"idle", "merge"}
    /\ reading' = NoReading
    /\ UNCHANGED <<notes, promotion, posts, crossed>>
-----------------------------------------------------------------------------
(* promote_job_note *)

Crosses == posts # {} \/ \E p \in Promoters : promotion[p].pc = "post"

(* Mutant of FindNote: the job's note is not looked for. *)
FindNoteNot(p) ==
    /\ promotion[p].pc = "idle"
    /\ promotion' = [promotion EXCEPT ![p] = [pc |-> "post", note |-> {}]]
    /\ crossed' = (crossed \/ Crosses)
    /\ UNCHANGED <<reading, notes, posts>>
(* The search for the job's note, limit 1: one of them, or none.           *)
FindNote(p) ==
    /\ promotion[p].pc = "idle"
    /\ \E found \in IF notes = {} THEN {{}} ELSE {{n} : n \in notes} :
          promotion' = [promotion EXCEPT ![p] = [pc |-> "post", note |-> found]]
    /\ crossed' = (crossed \/ Crosses)
    /\ UNCHANGED <<reading, notes, posts>>

(* Bound: one POST of a promoter is under way at a time; a client that tries*)
(* again meanwhile is another promoter.                                    *)
PostPromotion(p) ==
    /\ promotion[p].pc = "post"
    /\ \A post \in posts : post[1] # p
    /\ posts' = posts \cup {<<p, promotion[p].note>>}
    /\ promotion' = [promotion EXCEPT ![p] = [pc |-> "wait", note |-> {}]]
    /\ UNCHANGED <<reading, notes, crossed>>

(* The service revises the note it was given, or makes a new one, whether  *)
(* or not the request still waits for it.                                  *)
ServicePromotes(post) ==
    /\ posts' = posts \ {post}
    /\ \/ post[2] # {} /\ UNCHANGED notes
       \/ post[2] = {} /\ \E n \in NoteIds \ notes : notes' = notes \cup {n}
    /\ UNCHANGED <<reading, promotion, crossed>>

(* The answer is there and is passed on; or it is lost, or a call fails,   *)
(* and the client may well try again.                                      *)
PromotionEnds(p) ==
    /\ promotion[p].pc # "idle"
    /\ promotion' = [promotion EXCEPT ![p] = NoPromotion]
    /\ UNCHANGED <<reading, notes, posts, crossed>>

ReadNext ==
    \/ SearchThreadNotes \/ SearchJobNotes \/ SearchByText
    \/ MergeCandidate \/ RankContexts \/ ReadingEnds
PromoteNext ==
    \/ \E p \in Promoters : FindNote(p) \/ PostPromotion(p) \/ PromotionEnds(p)
    \/ \E post \in posts : ServicePromotes(post)
-----------------------------------------------------------------------------
(* The merged context tells of each note that was found once, in the role  *)
(* in which it matters most and with every reason, best first: whatever    *)
(* searches found it and in whatever order.                                *)
MemoryMerged == reading.pc = "details" =>
    LET found == reading.found  ranked == reading.ranked
        Of(entry) == {c \in ToSet(found) : c.note = entry.note} IN
    /\ {ranked[i].note : i \in DOMAIN ranked} = {c.note : c \in ToSet(found)}
    /\ \A i, k \in DOMAIN ranked : i < k =>
          ranked[i].note # ranked[k].note /\ ranked[i].score >= ranked[k].score
    /\ \A i \in DOMAIN ranked :
          /\ \A c \in Of(ranked[i]) : EffectiveScore(c) <= ranked[i].score
          /\ \E c \in Of(ranked[i]) :
                c.role = ranked[i].role /\ EffectiveScore(c) = ranked[i].score
          /\ ranked[i].reasons = {c.role : c \in Of(ranked[i])}

(* What was promoted from the thread or from one of its jobs goes before   *)
(* what a search brought up (THREAD_MEMORY_BOOST, JOB_MEMORY_BOOST), as    *)
(* long as the scores of a search lie closer together than the boosts.     *)
PromotedFirst == \A i, k \in DOMAIN reading.ranked :
    i < k /\ reading.ranked[i].role = "retrieved_memory" =>
        reading.ranked[k].role = "retrieved_memory"

(* A promotion that is repeated, because its answer was lost or because it *)
(* is wanted again, revises the job's note: two notes of a job come only of*)
(* promotions under way at once.                                           *)
OneNoteInTurn == ~crossed => Cardinality(notes) <= 1
=============================================================================
