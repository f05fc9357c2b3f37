--------------------------- MODULE ProjectMemory ---------------------------
(* The memory of one project: an append-only journal of notes, the         *)
(* generation that counts them, and three things derived from it without   *)
(* a common lock: the full-text index, the vector index and the manifest   *)
(* that says how far both have got.                                        *)
(*                                                                         *)
(* A capture compares the note with the active ones, appends it under the  *)
(* journal's lock, counts it and brings the text index up to date in       *)
(* place.  A search rebuilds the index first when the manifest is behind;  *)
(* a refresh rebuilds it whenever asked, with or without vectors.  Agents  *)
(* are processes: they interleave at every read and write of a file.       *)
EXTENDS Naturals, Sequences, FiniteSets

CONSTANTS
    Agent,         \* processes working in the project
    Request,       \* the notes a caller asks to save
    MaxNotes,      \* bound: notes in the journal
    MaxOps,        \* bound: captures, searches and refreshes started
    MaxEdits,      \* bound: changes of the project's own files
    MaxCrashes,    \* bound: processes that die in the middle
    DedupeRecent,  \* how far back append_record looks for a duplicate
    None           \* no manifest, no snapshot

File == {"notes", "report"}   \* thoughts.md, rewritten by a sync; a report, not
Link == {"none", "supersedes", "based_on"}

MemoryAssumption ==
    /\ {MaxNotes, MaxOps, MaxEdits, MaxCrashes} \subseteq Nat
    /\ DedupeRecent \in Nat \ {0}
    /\ \A q \in Request :
        /\ q.kind \in {"note", "direction", "correction"}
        /\ q.closed \in BOOLEAN /\ q.private \in BOOLEAN
        /\ q.link \in Link
        /\ q.kind = "correction" => q.link # "based_on"

VARIABLES
    journal,    \* continuity.jsonl: the notes in the order they were appended
    gen,        \* workspace_generation of project.json
    files,      \* the version of each other file that is indexed
    fts,        \* documents of the SQLite index
    vectors,    \* documents of the project in the vector collection
    manifest,   \* the index manifest, or None
    proc,       \* what each agent is doing
    ops,        \* operations started
    edits,      \* edits of files
    crashes,    \* processes that died
    alone       \* nothing so far came in between, see IndexMatchesWhenAlone (a history)

vars == <<journal, gen, files, fts, vectors, manifest, proc, ops, edits, crashes, alone>>
index == <<fts, vectors, manifest>>
world == <<files, edits, crashes>>

(***************************************************************************)
(* Notes: which are active, which may be shown, which carry the goal       *)
(***************************************************************************)

\* The fingerprint covers a note's content and links, not how it was classified.
Fingerprint(n) == [n EXCEPT !.explicit = FALSE]

Retired(j) == UNION {j[i].supersedes : i \in DOMAIN j}
Active(j) == DOMAIN j \ Retired(j)
Safe(j) == {i \in Active(j) : ~j[i].private}

Latest(S) == CHOOSE i \in S : \A k \in S : k <= i

\* Mutant: only notes of kind direction are bound, not their successors.
DirectionsOnly(j) == {i \in DOMAIN j : j[i].kind = "direction"}

\* Directions and everything that replaced one, whatever its kind.
Lineage(j) ==
    LET of[i \in DOMAIN j] ==
            \/ j[i].kind = "direction"
            \/ \E k \in j[i].supersedes \cap (1 .. i - 1) : of[k]
    IN {i \in DOMAIN j : of[i]}

\* The token a continuation is bound to: every revision, hidden ones included.
DirectionFingerprint(j) == {<<i, j[i]>> : i \in Lineage(j)}

\* What a resumed session is shown as the goal.
GoalProjection(j) ==
    LET open == {i \in Active(j) : ~j[i].closed}
        shown == open \cap Safe(j)
        directions == {i \in shown : j[i].kind = "direction"}
        revisions == {i \in shown \cap Lineage(j) : j[i].kind # "direction"}
        hidden == (open \cap Lineage(j)) \ Safe(j)
    IN [status |-> IF hidden # {} THEN "unknown"
                   ELSE IF Cardinality(directions) > 1 \/ revisions # {} THEN "ambiguous"
                   ELSE IF directions # {} THEN "saved" ELSE "none",
        directions |-> directions, revisions |-> revisions]

(***************************************************************************)
(* The derived state                                                       *)
(***************************************************************************)

NoteDocs(j) == {<<"note", i>> : i \in Safe(j)}
FileDocs(v) == {<<f, v[f]>> : f \in File}

NoVector == [indexed |-> FALSE, set |-> None]
VectorOf(m) == IF m = None THEN NoVector ELSE m.vector

VectorCurrent(m) == m # None /\ m.vector.indexed /\ m.vector.set = m.set

Fresh == manifest # None /\ manifest.gen >= gen /\ manifest.probe = files

(***************************************************************************)
(* Processes                                                               *)
(***************************************************************************)

Idle == [pc |-> "idle"]
Busy == {a \in Agent : proc[a].pc # "idle"}
At(a, where) == proc[a].pc = where
Finish(a) == proc' = [proc EXCEPT ![a] = Idle]

Init ==
    /\ journal = <<>> /\ gen = 0
    /\ files = [f \in File |-> 0]
    /\ fts = {} /\ vectors = {} /\ manifest = None
    /\ proc = [a \in Agent |-> Idle]
    /\ ops = 0 /\ edits = 0 /\ crashes = 0
    /\ alone = TRUE

Start(a, p) ==
    /\ At(a, "idle") /\ ops < MaxOps
    /\ ops' = ops + 1
    /\ alone' = (alone /\ Busy = {})
    /\ proc' = [proc EXCEPT ![a] = p]

(***************************************************************************)
(* Capture: compare, append, count                                         *)
(***************************************************************************)

\* "explicit" is the classification kept in the note's metadata.
NoteOf(q, target) ==
    [claim |-> q.claim, kind |-> q.kind, closed |-> q.closed, private |-> q.private,
     caveats |-> q.caveats,
     explicit |-> q.link = "supersedes" \/ q.kind = "correction",
     supersedes |-> IF q.link = "supersedes" THEN {target} ELSE {},
     based_on |-> IF q.link = "based_on" THEN {target} ELSE {}]

\* inherit_qualifications: a follow-up carries the caveats of its parents.
Inherit(n) ==
    [n EXCEPT !.caveats = @ \union UNION {journal[i].caveats : i \in n.based_on}]

\* project_capture up to the comparison.  A parent that is retired or private
\* is refused: nothing starts.
Capture(a, q, target) ==
    /\ Len(journal) < MaxNotes
    /\ IF q.link = "none" THEN target = 1 ELSE target \in DOMAIN journal
    /\ q.link = "based_on" => target \in Safe(journal)
    /\ Start(a, [pc |-> "reconcile", note |-> Inherit(NoteOf(q, target))])
    /\ UNCHANGED <<journal, gen, index, world>>

\* Explicit plaintext secrets are compared with nothing.
CaptureSecret(a) ==
    /\ At(a, "reconcile") /\ proc[a].note.private
    /\ proc' = [proc EXCEPT ![a].pc = "append"]
    /\ UNCHANGED <<journal, gen, index, world, ops, alone>>

\* _capture_reconciliation: the active notes that look alike.  A vector hit may
\* name a note that has been retired since.
Exact(n) == {i \in Safe(journal) : journal[i].claim = n.claim}
Similar(n) ==
    IF Exact(n) = {} /\ ~n.private /\ n.based_on = {} /\ VectorCurrent(manifest)
    THEN Safe(journal) \union {d[2] : d \in {e \in vectors : e[1] = "note"}}
    ELSE Safe(journal)

\* A correction retires what it names, else the note it resembles most.
ReconcileCorrection(a) ==
    LET n == proc[a].note IN
    /\ At(a, "reconcile")
    /\ n.supersedes # {} \/ n.kind = "correction"
    /\ \E retired \in
            IF n.supersedes # {} THEN {n.supersedes}
            ELSE IF Exact(n) # {} THEN {{Latest(Exact(n))}}
            ELSE {{}} \union {{i} : i \in Similar(n)} :
        proc' = [proc EXCEPT ![a].pc = "append", ![a].note.supersedes = retired]
    /\ UNCHANGED <<journal, gen, index, world, ops, alone>>

\* Another text: it may contradict a similar note, and then nothing is saved.
ReconcileOther(a) ==
    LET n == proc[a].note IN
    /\ At(a, "reconcile")
    /\ n.supersedes = {} /\ n.kind # "correction" /\ Exact(n) = {}
    /\ \/ proc' = [proc EXCEPT ![a].pc = "append"]
       \/ Similar(n) # {} /\ Finish(a)
    /\ UNCHANGED <<journal, gen, index, world, ops, alone>>

ReconcileExact(a) ==
    LET n == proc[a].note IN
    /\ At(a, "reconcile")
    /\ n.supersedes = {} /\ n.kind # "correction" /\ Exact(n) # {}
    /\ proc' = [proc EXCEPT ![a] =
                    [pc |-> "compare", note |-> n, top |-> Latest(Exact(n))]]
    /\ UNCHANGED <<journal, gen, index, world, ops, alone>>

\* Mutant: the caveats of the older note are left out of the restatement.
Overwritten(n, old) == [n EXCEPT !.closed = @ \/ old.closed]

\* A restatement keeps what the older note said and adds to it.
Merged(n, old) ==
    [n EXCEPT !.caveats = @ \union old.caveats, !.closed = @ \/ old.closed,
              !.based_on = IF @ = {} THEN old.based_on ELSE @]

\* The older note is read again: it may have been retired meanwhile.
CompareRestatement(a) ==
    LET n == proc[a].note
        top == proc[a].top
        old == journal[top]
        same == /\ top \in Active(journal) /\ old.kind = n.kind
                /\ n.based_on \in {{}, old.based_on}
        merged == Merged(n, old)
    IN /\ At(a, "compare")
       /\ IF same /\ Fingerprint([merged EXCEPT !.supersedes = old.supersedes])
                        = Fingerprint(old)
          THEN Finish(a)
          ELSE proc' = [proc EXCEPT ![a] =
                   [pc |-> "append",
                    note |-> IF same THEN [merged EXCEPT !.supersedes = {top}] ELSE n]]
       /\ UNCHANGED <<journal, gen, index, world, ops, alone>>

\* append_record: an active note among the recent ones with this fingerprint.
IsDuplicate(n) == \E i \in Active(journal) :
    Fingerprint(journal[i]) = Fingerprint(n) /\ i + DedupeRecent > Len(journal)

AppendNote(a) ==
    LET n == proc[a].note IN
    /\ At(a, "append")
    /\ IF IsDuplicate(n)
       THEN Finish(a) /\ UNCHANGED journal
       ELSE /\ journal' = Append(journal, n)
            /\ proc' = [proc EXCEPT ![a] = [pc |-> "count"]]
    /\ UNCHANGED <<gen, index, world, ops, alone>>

\* _bump_workspace, in a critical section of its own.
CountNote(a) ==
    /\ At(a, "count")
    /\ gen' = gen + 1
    /\ proc' = [proc EXCEPT ![a] = [pc |-> "plan"]]
    /\ UNCHANGED <<journal, index, world, ops, alone>>

(***************************************************************************)
(* _synchronize_exact_index_after_capture                                  *)
(***************************************************************************)

\* Manifest, generation and probe are read; another state of the files means a
\* full rebuild, without vectors.
PlanSync(a) ==
    /\ At(a, "plan")
    /\ proc' = [proc EXCEPT ![a] =
            IF manifest # None /\ manifest.probe # files
            THEN [pc |-> "collect", vec |-> FALSE]
            ELSE [pc |-> "gather", prior |-> manifest, gen |-> gen, probe |-> files]]
    /\ UNCHANGED <<journal, gen, index, world, ops, alone>>

\* The notes and the dynamic files are read after the probe.
GatherSync(a) ==
    /\ At(a, "gather")
    /\ proc' = [proc EXCEPT ![a] =
            [pc |-> "replace", prior |-> @.prior, gen |-> @.gen, probe |-> @.probe,
             docs |-> NoteDocs(journal) \union {<<"notes", files["notes"]>>}]]
    /\ UNCHANGED <<journal, gen, index, world, ops, alone>>

\* Mutant: the whole scope is deleted, not only the sources that are replaced.
ReplaceEverything(docs) == docs

\* replace_fts_sources: one transaction; documents of other sources stay.
Replaced(docs) == {d \in fts : d[1] \notin {"note", "notes"}} \union docs

ReplaceSync(a) ==
    LET p == proc[a] IN
    /\ At(a, "replace")
    /\ fts' = Replaced(p.docs)
    /\ IF p.prior = None
       THEN Finish(a)
       ELSE proc' = [proc EXCEPT ![a] =
                [pc |-> "hash", prior |-> p.prior, gen |-> p.gen, probe |-> p.probe]]
    /\ UNCHANGED <<journal, gen, vectors, manifest, world, ops, alone>>

\* The hash is that of the index as it is now, not of what was written.
HashSync(a) ==
    /\ At(a, "hash")
    /\ proc' = [proc EXCEPT ![a] =
            [pc |-> "publish", prior |-> @.prior, gen |-> @.gen, probe |-> @.probe, set |-> fts]]
    /\ UNCHANGED <<journal, gen, index, world, ops, alone>>

SyncVector(p) ==
    [p.prior.vector EXCEPT !.indexed = @ /\ p.prior.vector.set = p.set]

PublishSync(a) ==
    LET p == proc[a] IN
    /\ At(a, "publish")
    /\ manifest' = [gen |-> p.gen, probe |-> p.probe, set |-> p.set, vector |-> SyncVector(p)]
    /\ Finish(a)
    /\ UNCHANGED <<journal, gen, fts, vectors, world, ops, alone>>

(***************************************************************************)
(* index_project: a full rebuild, without a lock                           *)
(***************************************************************************)

\* project_search rebuilds first when the manifest is behind.
Search(a) ==
    /\ Start(a, IF Fresh THEN Idle ELSE [pc |-> "collect", vec |-> FALSE])
    /\ UNCHANGED <<journal, gen, index, world>>

Refresh(a, vec) ==
    /\ Start(a, [pc |-> "collect", vec |-> vec])
    /\ UNCHANGED <<journal, gen, index, world>>

Collected == NoteDocs(journal) \union FileDocs(files)

IndexCollect(a) ==
    /\ At(a, "collect")
    /\ proc' = [proc EXCEPT ![a] = [pc |-> "claim", vec |-> @.vec, docs |-> Collected]]
    /\ UNCHANGED <<journal, gen, index, world, ops, alone>>

\* Prior manifest, generation and probe are read and, here in the same step, a
\* provisional manifest is written that already claims them, with the vectors
\* of the prior one.
IndexClaim(a) ==
    /\ At(a, "claim")
    /\ manifest' = [gen |-> gen, probe |-> files, set |-> proc[a].docs,
                    vector |-> VectorOf(manifest)]
    /\ proc' = [proc EXCEPT ![a] =
            [pc |-> "again", vec |-> @.vec, gen |-> gen, vector |-> VectorOf(manifest)]]
    /\ UNCHANGED <<journal, gen, fts, vectors, world, ops, alone>>

\* The documents are collected again, and only then is the probe taken.
IndexAgain(a) ==
    /\ At(a, "again")
    /\ proc' = [proc EXCEPT ![a] =
            [pc |-> "probe", vec |-> @.vec, gen |-> @.gen, vector |-> @.vector,
             docs |-> Collected]]
    /\ UNCHANGED <<journal, gen, index, world, ops, alone>>

IndexProbe(a) ==
    /\ At(a, "probe")
    /\ proc' = [proc EXCEPT ![a] =
            [pc |-> "rebuild", vec |-> @.vec, gen |-> @.gen, vector |-> @.vector,
             docs |-> @.docs, probe |-> files, indexed |-> FALSE]]
    /\ UNCHANGED <<journal, gen, index, world, ops, alone>>

IndexRebuild(a) ==
    /\ At(a, "rebuild")
    /\ fts' = proc[a].docs
    /\ proc' = [proc EXCEPT ![a].pc = IF proc[a].vec THEN "clear" ELSE "commit"]
    /\ UNCHANGED <<journal, gen, vectors, manifest, world, ops, alone>>

\* index_qdrant: no service, or embedding fails, and nothing has changed ...
IndexSkip(a) ==
    /\ At(a, "clear")
    /\ proc' = [proc EXCEPT ![a].pc = "commit"]
    /\ UNCHANGED <<journal, gen, index, world, ops, alone>>

\* ... or the points of the project are deleted ...
IndexClear(a) ==
    /\ At(a, "clear")
    /\ vectors' = {}
    /\ proc' = [proc EXCEPT ![a].pc = "upsert"]
    /\ UNCHANGED <<journal, gen, fts, manifest, world, ops, alone>>

\* ... and the new ones written, or the call fails.
IndexUpsert(a) ==
    /\ At(a, "upsert")
    /\ \/ /\ vectors' = vectors \union proc[a].docs
          /\ proc' = [proc EXCEPT ![a].pc = "commit", ![a].indexed = TRUE]
       \/ proc' = [proc EXCEPT ![a].pc = "commit"] /\ UNCHANGED vectors
    /\ UNCHANGED <<journal, gen, fts, manifest, world, ops, alone>>

RebuiltVector(p) ==
    IF p.indexed THEN [indexed |-> TRUE, set |-> p.docs]
    ELSE IF ~p.vec /\ p.vector.set = p.docs THEN p.vector
    ELSE [indexed |-> FALSE, set |-> p.vector.set]

IndexCommit(a) ==
    LET p == proc[a] IN
    /\ At(a, "commit")
    /\ manifest' = [gen |-> p.gen, probe |-> p.probe, set |-> p.docs, vector |-> RebuiltVector(p)]
    /\ Finish(a)
    /\ UNCHANGED <<journal, gen, fts, vectors, world, ops, alone>>

(***************************************************************************)
(* The surroundings                                                        *)
(***************************************************************************)

\* A person edits a file.  Between a collection and the probe that follows it
\* the edit gets into the probe and not into the documents.
Edit(f) ==
    /\ edits < MaxEdits
    /\ edits' = edits + 1
    /\ files' = [files EXCEPT ![f] = @ + 1]
    /\ alone' = (alone /\ \A a \in Agent : proc[a].pc \notin {"claim", "probe"})
    /\ UNCHANGED <<journal, gen, index, proc, ops, crashes>>

\* A process dies.  A note that is not counted yet, text behind a manifest that
\* already claims it, and deleted vectors are what it can leave behind.
Crash(a) ==
    /\ crashes < MaxCrashes /\ ~At(a, "idle")
    /\ crashes' = crashes + 1
    /\ alone' = (alone /\ proc[a].pc \notin
            {"count", "again", "probe", "rebuild", "upsert", "commit"})
    /\ Finish(a)
    /\ UNCHANGED <<journal, gen, index, files, ops, edits>>

CaptureNext(a) ==
    \/ \E q \in Request, target \in 1 .. MaxNotes : Capture(a, q, target)
    \/ CaptureSecret(a)
    \/ ReconcileCorrection(a) \/ ReconcileOther(a) \/ ReconcileExact(a)
    \/ CompareRestatement(a)
    \/ AppendNote(a) \/ CountNote(a)
    \/ PlanSync(a) \/ GatherSync(a) \/ ReplaceSync(a) \/ HashSync(a) \/ PublishSync(a)

IndexNext(a) ==
    \/ Search(a) \/ \E vec \in BOOLEAN : Refresh(a, vec)
    \/ IndexCollect(a) \/ IndexClaim(a) \/ IndexAgain(a) \/ IndexProbe(a) \/ IndexRebuild(a)
    \/ IndexSkip(a) \/ IndexClear(a) \/ IndexUpsert(a) \/ IndexCommit(a)

\* The bounds are spent: nothing has to happen.
Done == Busy = {} /\ ops = MaxOps /\ UNCHANGED vars

Next ==
    \/ \E a \in Agent : CaptureNext(a) \/ IndexNext(a) \/ Crash(a)
    \/ \E f \in File : Edit(f)
    \/ Done

Spec == Init /\ [][Next]_vars

(***************************************************************************)
(* Properties                                                              *)
(***************************************************************************)

\* No two active notes of the same content stand within the reach of the
\* duplicate check, whatever captures ran at the same time: the check and the
\* append are one critical section (append_record).  And a caveat is never lost
\* silently: a note that replaces another either was saved as a correction of it
\* or repeats all of its caveats, and a follow-up repeats those of its parents,
\* none of which is private - although the older notes were read long before the
\* new one was appended.
NotesKept ==
    /\ \A i, k \in Active(journal) :
        i < k /\ Fingerprint(journal[i]) = Fingerprint(journal[k]) => k > i + DedupeRecent
    /\ \A k \in DOMAIN journal :
        /\ \A i \in journal[k].based_on :
            ~journal[i].private /\ journal[i].caveats \subseteq journal[k].caveats
        /\ \A i \in journal[k].supersedes :
            journal[k].explicit \/ journal[i].caveats \subseteq journal[k].caveats

\* While no other writer came in between, no edit fell between the documents
\* and their probe and no process died where it leaves something behind (see
\* Start, Edit and Crash for exactly these points), a manifest that calls
\* the index fresh tells the truth: updating the index in place after a capture
\* leaves the documents a full rebuild would have written, and vectors called
\* current are those of exactly these documents.
IndexMatchesWhenAlone ==
    alone /\ Busy = {} =>
        /\ Fresh => fts = Collected /\ manifest.set = fts
        /\ VectorCurrent(manifest) => vectors = manifest.set

GoalInvalidated ==
    GoalProjection(journal)' # GoalProjection(journal) =>
        DirectionFingerprint(journal)' # DirectionFingerprint(journal)

\* Whatever changes the goal a session would be shown - a new direction, a
\* correction of one, its closing, its hiding - changes the token continuations
\* are bound to, so that queued work never resumes under another goal.
GoalChangesInvalidate == [][GoalInvalidated]_vars

=============================================================================
