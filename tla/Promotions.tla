----------------------------- MODULE Promotions -----------------------------
(***************************************************************************)
(* Global memory: what is proposed for it and reviewed, what is demoted    *)
(* from it into a project, and the index it is recalled through            *)
(* (harness_core.py).                                                      *)
(*                                                                         *)
(* Every file is append-only, and a line is known by its number.  Only the *)
(* append is locked: a review reads the candidates, writes the memory and  *)
(* then that the candidate is resolved; a demotion writes the project's    *)
(* copy and then the marker that hides the line; an index is made of what  *)
(* was read before.  Callers are processes that interleave at each read    *)
(* and write of a file, and may die between two.  Texts are left out: a    *)
(* memory is the candidate it comes from.                                  *)
(***************************************************************************)
EXTENDS Naturals, Sequences, FiniteSets

CONSTANTS
    Caller,
    SessionKnown,  \* the caller of a demotion says which session it is for
    MaxLines,      \* bound: lines of a file
    MaxCalls,      \* bound: calls
    MaxDeaths      \* bound: processes that die in a call

\* What the constants are assumed to be.
PromotionAssumption ==
    /\ SessionKnown \in BOOLEAN
    /\ {MaxLines, MaxCalls, MaxDeaths} \subseteq Nat

VARIABLES
    candidates,  \* promotion_candidates.jsonl: candidates and resolutions
    memories,    \* memories.jsonl: the candidate each line comes from, 0 for none
    markers,     \* promotion_log.jsonl: the demoted lines of memories.jsonl
    approvals,   \* promotion_log.jsonl: the candidates logged as approved
    copies,      \* facts of projects that keep a demoted line
    index,       \* lines in the text index of global memory
    vectors,     \* lines in its vector index
    manifest,    \* the set it was made of, and the set the vectors were made of
    caller,      \* what each caller is doing
    calls, deaths,
    serial       \* no two reviews or indexings overlapped, and none was cut off (history)

files == <<candidates, memories, markers, approvals, copies>>
derived == <<index, vectors, manifest>>
promotionvars == <<files, derived, caller, calls, deaths, serial>>

Idle == [pc |-> "idle"]
At(c, where) == caller[c].pc = where
Becomes(c, state) == caller' = [caller EXCEPT ![c] = state]
Reviewing == {"resolve", "save", "log"}
Indexing == {"rebuild", "clear", "upsert", "manifest"}

PromotionsInit ==
    /\ candidates = <<>> /\ memories = <<>>
    /\ markers = {} /\ approvals = {} /\ copies = {}
    /\ index = {} /\ vectors = {}
    /\ manifest = [set |-> {}, vector |-> {}, indexed |-> FALSE]
    /\ caller = [c \in Caller |-> Idle]
    /\ calls = 0 /\ deaths = 0
    /\ serial = TRUE

\* A call begins; what it overlaps with is kept in the history.
Begin(c, state, kind) ==
    /\ At(c, "idle") /\ calls < MaxCalls
    /\ calls' = calls + 1
    /\ Becomes(c, state)
    /\ serial' = (serial /\ \A d \in Caller : caller[d].pc \notin kind)
    /\ UNCHANGED deaths

Go(c, state) == Becomes(c, state) /\ UNCHANGED <<calls, deaths, serial>>

-----------------------------------------------------------------------------
(* Review.                                                                 *)

IsCandidate(i) == candidates[i].kind = "candidate"

\* Mutant: a resolution counts for the candidate only when it is an approval.
PendingUnlessApproved ==
    {i \in DOMAIN candidates :
        IsCandidate(i) /\ \A k \in DOMAIN candidates :
            candidates[k].kind = "approved" => candidates[k].line # i}

\* list_promotion_candidates (its two reads of the file are one step here).
Pending ==
    {i \in DOMAIN candidates :
        IsCandidate(i) /\ \A k \in DOMAIN candidates :
            ~IsCandidate(k) => candidates[k].line # i}

\* propose_promotion, and save_global_fact of what nobody has reviewed.
Propose(c) ==
    /\ Len(candidates) < MaxLines
    /\ Begin(c, Idle, {})
    /\ candidates' = Append(candidates, [kind |-> "candidate", line |-> 0])
    /\ UNCHANGED <<memories, markers, approvals, copies, derived>>

\* save_global_fact with reviewed=true or an explicit override.
SaveGlobal(c) ==
    /\ Len(memories) < MaxLines
    /\ Begin(c, Idle, {})
    /\ memories' = Append(memories, 0)
    /\ UNCHANGED <<candidates, markers, approvals, copies, derived>>

\* approve_promotion and reject_promotion choose a pending candidate; with none
\* pending, or not the one that was named, they return.
Approve(c) ==
    /\ \E i \in Pending : Begin(c, [pc |-> "save", line |-> i], Reviewing)
    /\ UNCHANGED <<files, derived>>

Reject(c) ==
    /\ \E i \in Pending :
        Begin(c, [pc |-> "resolve", line |-> i, verdict |-> "rejected"], Reviewing)
    /\ UNCHANGED <<files, derived>>

ApproveSave(c) ==
    /\ At(c, "save") /\ Len(memories) < MaxLines
    /\ memories' = Append(memories, caller[c].line)
    /\ Go(c, [pc |-> "resolve", line |-> caller[c].line, verdict |-> "approved"])
    /\ UNCHANGED <<candidates, markers, approvals, copies, derived>>

Resolve(c) ==
    /\ At(c, "resolve") /\ Len(candidates) < 2 * MaxLines
    /\ candidates' = Append(candidates, [kind |-> caller[c].verdict, line |-> caller[c].line])
    /\ Go(c, [pc |-> "log", line |-> caller[c].line, verdict |-> caller[c].verdict])
    /\ UNCHANGED <<memories, markers, approvals, copies, derived>>

LogReview(c) ==
    /\ At(c, "log")
    /\ approvals' = IF caller[c].verdict = "approved" THEN approvals \union {caller[c].line}
                    ELSE approvals
    /\ Go(c, Idle)
    /\ UNCHANGED <<candidates, memories, markers, copies, derived>>

-----------------------------------------------------------------------------
(* Demotion.                                                               *)

\* demote_global_memory finds the line, demoted or not ...
Demote(c) ==
    /\ \E n \in DOMAIN memories : Begin(c, [pc |-> "copy", line |-> n], {})
    /\ UNCHANGED <<files, derived>>

\* ... save_project_fact keeps it in the project of the caller's session, if that
\* has one; the request has no session, and then only the server process's own ...
DemoteCopy(c) ==
    /\ At(c, "copy")
    /\ \/ copies' = copies \union {caller[c].line}
       \/ ~SessionKnown /\ UNCHANGED copies
    /\ Go(c, [pc |-> "mark", line |-> caller[c].line])
    /\ UNCHANGED <<candidates, memories, markers, approvals, derived>>

\* ... and whatever it answered, the line is marked as demoted.
DemoteMark(c) ==
    /\ At(c, "mark")
    /\ markers' = markers \union {caller[c].line}
    /\ Go(c, Idle)
    /\ UNCHANGED <<candidates, memories, approvals, copies, derived>>

-----------------------------------------------------------------------------
(* Index and recall.                                                       *)

\* Mutant: demotions are not looked at when the index is made.
EveryRecord == DOMAIN memories

\* global_records.
GlobalRecords == DOMAIN memories \ markers

\* index_global, asked for, or by a search, which asks for no vectors.  The hidden
\* lines of a search are those demoted when it begins.
IndexGlobal(c) ==
    /\ Begin(c, [pc |-> "rebuild", docs |-> GlobalRecords, vec |-> TRUE, search |-> FALSE,
                 hidden |-> markers, prior |-> manifest, ok |-> FALSE], Indexing)
    /\ UNCHANGED <<files, derived>>

Search(c) ==
    /\ Begin(c, [pc |-> "rebuild", docs |-> GlobalRecords, vec |-> FALSE, search |-> TRUE,
                 hidden |-> markers, prior |-> manifest, ok |-> FALSE], Indexing)
    /\ UNCHANGED <<files, derived>>

\* rebuild_fts: one transaction.
RebuildText(c) ==
    /\ At(c, "rebuild")
    /\ index' = caller[c].docs
    /\ Go(c, [caller[c] EXCEPT !.pc = IF caller[c].vec THEN "clear" ELSE "manifest"])
    /\ UNCHANGED <<files, vectors, manifest>>

\* index_qdrant: not available; or the points are deleted and written anew, and
\* the writing may fail.
SkipVectors(c) ==
    /\ At(c, "clear")
    /\ Go(c, [caller[c] EXCEPT !.pc = "manifest"])
    /\ UNCHANGED <<files, derived>>

ClearVectors(c) ==
    /\ At(c, "clear")
    /\ vectors' = {}
    /\ Go(c, [caller[c] EXCEPT !.pc = "upsert"])
    /\ UNCHANGED <<files, index, manifest>>

UpsertVectors(c) ==
    /\ At(c, "upsert")
    /\ \/ /\ vectors' = vectors \union caller[c].docs
          /\ Go(c, [caller[c] EXCEPT !.pc = "manifest", !.ok = TRUE])
       \/ /\ Go(c, [caller[c] EXCEPT !.pc = "manifest"])
          /\ UNCHANGED vectors
    /\ UNCHANGED <<files, index, manifest>>

\* Vectors that were not written stay current only if they were made of the same set.
WriteManifest(c) ==
    LET q == caller[c] IN
    /\ At(c, "manifest")
    /\ manifest' = [set |-> q.docs,
                    vector |-> IF q.ok THEN q.docs ELSE q.prior.vector,
                    indexed |-> q.ok \/ (~q.vec /\ q.prior.indexed /\ q.prior.vector = q.docs)]
    /\ Go(c, IF q.search THEN [pc |-> "hits", hidden |-> q.hidden, hits |-> index] ELSE Idle)
    /\ UNCHANGED <<files, index, vectors>>

\* _global_vector_is_current
VectorIsCurrent == manifest.indexed /\ manifest.vector = manifest.set

\* search_rag: the text index, the vectors if they are current, and the records.
SearchHits(c) ==
    /\ At(c, "hits")
    /\ Go(c, [pc |-> "answer", hidden |-> caller[c].hidden,
              hits |-> caller[c].hits \union GlobalRecords
                           \union (IF VectorIsCurrent THEN vectors ELSE {})])
    /\ UNCHANGED <<files, derived>>

Answer(c) ==
    /\ At(c, "answer")
    /\ Go(c, Idle)
    /\ UNCHANGED <<files, derived>>

Die(c) ==
    /\ deaths < MaxDeaths /\ ~At(c, "idle")
    /\ deaths' = deaths + 1
    /\ Becomes(c, Idle)
    /\ serial' = (serial /\ caller[c].pc \notin Reviewing \union {"upsert", "manifest"})
    /\ UNCHANGED <<files, derived, calls>>

PromotionsNext ==
    \E c \in Caller :
        \/ Propose(c) \/ SaveGlobal(c)
        \/ Approve(c) \/ Reject(c) \/ ApproveSave(c) \/ Resolve(c) \/ LogReview(c)
        \/ Demote(c) \/ DemoteCopy(c) \/ DemoteMark(c)
        \/ IndexGlobal(c) \/ Search(c)
        \/ RebuildText(c) \/ SkipVectors(c) \/ ClearVectors(c) \/ UpsertVectors(c)
        \/ WriteManifest(c) \/ SearchHits(c) \/ Answer(c)
        \/ Die(c)

PromotionsSpec == PromotionsInit /\ [][PromotionsNext]_promotionvars

-----------------------------------------------------------------------------
(* Properties.                                                             *)

\* While reviews do not overlap and none is cut off, a candidate becomes at most one
\* memory, none when it was rejected, and its approval is on the log, whatever else
\* goes on (approve_promotion, reject_promotion).
ReviewedOnce ==
    serial =>
        \A i \in DOMAIN candidates : IsCandidate(i) =>
            LET promoted == {n \in DOMAIN memories : memories[n] = i}
                verdicts == {k \in DOMAIN candidates : candidates[k].line = i}
            IN  /\ Cardinality(promoted) <= 1 /\ Cardinality(verdicts) <= 1
                /\ (\E k \in verdicts : candidates[k].kind = "rejected") => promoted = {}
                /\ i \in approvals => promoted # {}

\* While indexings do not overlap and none is cut off between its vectors and the
\* manifest, a search never recalls a line that had been demoted when it began, from
\* the text index, the vectors or the file: not even after an index made of older
\* records, or vectors that could not be written (search_rag).
DemotedStaysHidden ==
    serial => \A c \in Caller :
        At(c, "answer") => caller[c].hits \intersect caller[c].hidden = {}

=============================================================================
