------------------------------ MODULE CodeIndex ------------------------------
(***************************************************************************)
(* The structural and vector index of Git sources (code_search/engine.py,  *)
(* store.py, vector_store.py).                                             *)
(*                                                                         *)
(* A scope is one branch of one source of a project.  Its working tree     *)
(* changes at any time.  index_project_code runs in as many processes as   *)
(* there are callers (MCP calls, detached refresh jobs): it scans the tree *)
(* without a lock, then, under the lock of the project, brings the SQLite  *)
(* rows to the scanned tree one file at a time, brings the memberships of  *)
(* the shared, content-addressed points of the vector collection to the    *)
(* rows (under one lock for the whole installation), checks that the       *)
(* source is still the scanned one, and only then publishes: first the     *)
(* state row, then the manifest file.  A process may die between any two   *)
(* of these steps; the vector database and the embedding service may fail  *)
(* at any of their calls; the collection may be lost.                      *)
(*                                                                         *)
(* Data: a file has one chunk, so the content of a file is also the        *)
(* embedding key of its point; a tree is the policy-approved content of    *)
(* every path, and stands for its probe hash, document-set hash and        *)
(* membership hash.  The parser and embedding profiles, the schema, the    *)
(* engine version and the name of the collection do not change.            *)
(***************************************************************************)
EXTENDS Integers, FiniteSets

CONSTANTS
    Worker,        \* the processes that may run index_project_code
    Scope,         \* project and branch
    Project(_),    \* the project of a scope
    File, Content, \* paths of a tree, contents of a file
    Absent,        \* the content of a path that is not there
    None,          \* no membership hash yet
    InitialTree,   \* the tree of every scope at the start
    MaxEdits,      \* bound: changes of the sources
    MaxRuns,       \* bound: calls of index_project_code
    MaxFaults      \* bound: crashes, failed remote calls, lost collections

ASSUME CodeIndexAssumption ==
    /\ Scope # {}
    /\ Absent \notin Content
    /\ InitialTree \in [File -> Content \cup {Absent}]
    /\ {MaxEdits, MaxRuns, MaxFaults} \subseteq Nat

Tree == [File -> Content \cup {Absent}]
Empty == [f \in File |-> Absent]

(* A Git source: the committed tree and the working tree. *)
View == [head : Tree, work : Tree]
Dirty(view) == view.head # view.work

(* What a membership hash stands for: every row carries the commit and the *)
(* dirtiness of the view it was indexed from.                              *)
Hash == [rows : Tree, head : Tree, dirty : BOOLEAN]

ASSUME NoneAssumption == None \notin Hash

Stamped(tree, view) == [rows |-> tree, head |-> view.head, dirty |-> Dirty(view)]

VectorStatus == {"none", "indexed", "degraded", "stale"}
State == [probe : Tree, head : Tree, dirty : BOOLEAN, rows : Tree,
          published : Hash \cup {None}, vector : VectorStatus]
Manifest == [head : Tree, collection : BOOLEAN]

(* The points of the collection: the memberships of each content. A point  *)
(* exists exactly when it has a member.                                    *)
Member == Scope \X File
Points == [Content -> SUBSET Member]
NoPoints == [c \in Content |-> {}]

Outcome == {"none", "indexed", "current", "preserved", "degraded", "stale"}
Phase == {"idle", "waiting", "files", "rows", "vwait", "sync", "record",
          "commit", "manifest"}

VARIABLES
    source,     \* [Scope -> View] the repositories
    rows,       \* [Scope -> Tree] code_files and code_chunks of the branch
    synced,     \* [Scope -> Hash or None] code_vector_memberships
    state,      \* [Scope -> State or None] code_index_state
    manifest,   \* [Scope -> Manifest or None] the manifest file of the source
    points,     \* the points of the vector collection
    collection, \* the collection exists
    call,       \* [Worker -> the call in progress]
    aborted,    \* history: a call left the scope before its commit point
    lost,       \* history: the collection was lost since the last upload
    edits, runs, faults

stores == <<rows, synced, state, manifest>>
remote == <<points, collection>>
vars == <<source, stores, remote, call, aborted, lost, edits, runs, faults>>

Call == [phase : Phase, scope : Scope, scan : View, full : BOOLEAN,
         force : BOOLEAN, files : SUBSET File, seen : Points,
         writes : SUBSET Content, outcome : Outcome]

Free == [phase |-> "idle", scope |-> CHOOSE s \in Scope : TRUE,
         scan |-> [head |-> Empty, work |-> Empty], full |-> FALSE,
         force |-> FALSE, files |-> {}, seen |-> NoPoints, writes |-> {},
         outcome |-> "none"]

Init ==
    /\ source = [s \in Scope |-> [head |-> InitialTree, work |-> InitialTree]]
    /\ rows = [s \in Scope |-> Empty]
    /\ synced = [s \in Scope |-> None]
    /\ state = [s \in Scope |-> None]
    /\ manifest = [s \in Scope |-> None]
    /\ points = NoPoints
    /\ collection = FALSE
    /\ call = [w \in Worker |-> Free]
    /\ aborted = [s \in Scope |-> FALSE]
    /\ lost = [s \in Scope |-> FALSE]
    /\ edits = 0 /\ runs = 0 /\ faults = 0

-----------------------------------------------------------------------------
(* The locks, and what the readers of the index conclude. *)

HoldsIndexLock(w) == call[w].phase \notin {"idle", "waiting"}
HoldsVectorLock(w) == call[w].phase = "sync"

IndexLockFree(s) ==
    \A w \in Worker : HoldsIndexLock(w) => Project(call[w].scope) # Project(s)
VectorLockFree == \A w \in Worker : ~HoldsVectorLock(w)
Quiet(s) == \A w \in Worker : HoldsIndexLock(w) => call[w].scope # s

(* The structural index answers for the source as it is: a clean tree, the *)
(* commit of the state row, the content view of the manifest.              *)
LexicalCurrent(s) ==
    /\ state[s] # None /\ manifest[s] # None
    /\ ~Dirty(source[s]) /\ ~state[s].dirty
    /\ state[s].head = source[s].head
    /\ manifest[s].head = source[s].head

(* The conditions a recorded vector snapshot has to meet besides. *)
VectorRecorded(s) ==
    /\ manifest[s].collection
    /\ state[s].vector = "indexed"
    /\ state[s].published # None

VectorCurrent(s) == LexicalCurrent(s) /\ VectorRecorded(s)

(* The deep verification scans the source and hashes the rows. *)
DeepLexicalCurrent(s) ==
    /\ state[s] # None /\ manifest[s] # None
    /\ state[s].probe = source[s].work
    /\ manifest[s].head = source[s].head
    /\ state[s].rows = rows[s]

DeepVectorCurrent(s) ==
    /\ DeepLexicalCurrent(s)
    /\ VectorRecorded(s)
    /\ state[s].published =
           [rows |-> rows[s], head |-> state[s].head, dirty |-> state[s].dirty]
    /\ collection

-----------------------------------------------------------------------------
(* The source: edits of the working tree, commits, checkouts. *)

Change(s, view) ==
    /\ edits < MaxEdits /\ view # source[s]
    /\ edits' = edits + 1
    /\ source' = [source EXCEPT ![s] = view]
    /\ UNCHANGED <<stores, remote, call, aborted, lost, runs, faults>>

Edit(s) == \E f \in File, c \in Content \cup {Absent} :
               Change(s, [source[s] EXCEPT !.work[f] = c])

Checkout(s) == \E tree \in Tree : Change(s, [head |-> tree, work |-> tree])

-----------------------------------------------------------------------------
(* index_project_code, up to the rows. *)

(* The evidence of the repository and the scan are taken before the lock.  *)
Begin(w, s, full, force) ==
    /\ call[w].phase = "idle" /\ runs < MaxRuns
    /\ runs' = runs + 1
    /\ call' = [call EXCEPT ![w] = [Free EXCEPT !.phase = "waiting",
                    !.scope = s, !.scan = source[s], !.full = full,
                    !.force = force]]
    /\ UNCHANGED <<source, stores, remote, aborted, lost, edits, faults>>

(* fresh_lexical: the last published scan had the same probe hash. *)
FreshLexical(w) == LET s == call[w].scope IN
    state[s] # None /\ state[s].probe = call[w].scan.work

(* Under the lock, a fresh snapshot skips the files altogether. *)
EnterLock(w) == LET s == call[w].scope  scan == call[w].scan IN
    /\ call[w].phase = "waiting" /\ IndexLockFree(s)
    /\ call' = [call EXCEPT
           ![w].phase = IF call[w].force \/ ~FreshLexical(w) THEN "files" ELSE "rows",
           ![w].files = IF call[w].force \/ ~FreshLexical(w)
                        THEN {f \in File : scan.work[f] # Absent} ELSE {}]
    /\ UNCHANGED <<source, stores, remote, aborted, lost, edits, runs, faults>>

(* The call ends without publishing: "stale_source", "rejected", or an      *)
(* exception.  What it wrote to the rows and to the collection stays.      *)
Abandon(w) ==
    /\ aborted' = [aborted EXCEPT ![call[w].scope] = TRUE]
    /\ call' = [call EXCEPT ![w] = Free]

(* Mutant: any file with rows keeps them. *)
ReuseAnyFile(w, f) ==
    /\ call[w].phase = "files" /\ f \in call[w].files
    /\ ~call[w].force /\ rows[call[w].scope][f] # Absent
    /\ call' = [call EXCEPT ![w].files = @ \ {f}]
    /\ UNCHANGED <<source, stores, remote, aborted, lost, edits, runs, faults>>

(* An unchanged file keeps its rows. *)
ReuseFile(w, f) == LET s == call[w].scope IN
    /\ call[w].phase = "files" /\ f \in call[w].files
    /\ ~call[w].force /\ state[s] # None
    /\ rows[s][f] = call[w].scan.work[f]
    /\ call' = [call EXCEPT ![w].files = @ \ {f}]
    /\ UNCHANGED <<source, stores, remote, aborted, lost, edits, runs, faults>>

MustRead(w, f) == LET s == call[w].scope IN
    /\ call[w].phase = "files" /\ f \in call[w].files
    /\ call[w].force \/ state[s] = None \/ rows[s][f] # call[w].scan.work[f]

(* The bytes of the file are those that were scanned: one transaction       *)
(* replaces its rows.                                                      *)
ReplaceFile(w, f) == LET s == call[w].scope  scan == call[w].scan IN
    /\ MustRead(w, f)
    /\ source[s].work[f] = scan.work[f]
    /\ rows' = [rows EXCEPT ![s][f] = scan.work[f]]
    /\ call' = [call EXCEPT ![w].files = @ \ {f}]
    /\ UNCHANGED <<source, synced, state, manifest, remote, aborted, lost,
                   edits, runs, faults>>

(* They are not: never parse bytes that did not pass the scan. *)
StaleFile(w, f) ==
    /\ MustRead(w, f)
    /\ source[call[w].scope].work[f] # call[w].scan.work[f]
    /\ Abandon(w)
    /\ UNCHANGED <<source, stores, remote, lost, edits, runs, faults>>

(* After the last file: the rows of the paths that were not scanned go, the *)
(* call graph is resolved.                                                 *)
DeleteStaleFiles(w) == LET s == call[w].scope  scan == call[w].scan IN
    /\ call[w].phase = "files" /\ call[w].files = {}
    /\ rows' = [rows EXCEPT ![s] =
           [f \in File |-> IF scan.work[f] = Absent THEN Absent ELSE rows[s][f]]]
    /\ call' = [call EXCEPT ![w].phase = "rows"]
    /\ UNCHANGED <<source, synced, state, manifest, remote, aborted, lost,
                   edits, runs, faults>>

-----------------------------------------------------------------------------
(* The vector snapshot. *)

Target(w) == Stamped(rows[call[w].scope], call[w].scan)

(* The snapshot that was published last is the one the rows ask for. *)
PriorMatches(w) == LET s == call[w].scope IN
    /\ state[s] # None /\ manifest[s] # None
    /\ state[s].published = Target(w)
    /\ state[s].vector = "indexed"
    /\ manifest[s].collection

VectorIsCurrent(w) ==
    /\ PriorMatches(w)
    /\ synced[call[w].scope] = Target(w)
    /\ ~call[w].force /\ FreshLexical(w)
    /\ collection

(* Nothing to send: vectors were not asked for, or they are current. *)
SkipVectors(w) ==
    /\ call[w].phase = "rows"
    /\ ~call[w].full \/ VectorIsCurrent(w)
    /\ call' = [call EXCEPT ![w].phase = "commit",
                    ![w].outcome = IF PriorMatches(w) THEN "current" ELSE "stale"]
    /\ UNCHANGED <<source, stores, remote, aborted, lost, edits, runs, faults>>

WantVectors(w) ==
    /\ call[w].phase = "rows"
    /\ call[w].full /\ ~VectorIsCurrent(w)
    /\ call' = [call EXCEPT ![w].phase = "vwait"]
    /\ UNCHANGED <<source, stores, remote, aborted, lost, edits, runs, faults>>

(* The memberships a scope has on the point of a content, in a snapshot. *)
Memberships(s, hash, c) ==
    IF hash = None THEN {} ELSE {<<s, f>> : f \in {g \in File : hash.rows[g] = c}}

Keys(hash) == IF hash = None THEN {}
              ELSE {c \in Content : \E f \in File : hash.rows[f] = c}

(* What a point of the inventory becomes: memberships of the last confirmed *)
(* snapshot that the target has not go, those of the target come.          *)
Merged(w, c) == LET s == call[w].scope IN
    (call[w].seen[c] \ Memberships(s, synced[s], c)) \cup Memberships(s, Target(w), c)

(* New points first, then the other payloads, then the deletions. *)
Rank(w, c) == CASE call[w].seen[c] = {} -> 1
                [] Merged(w, c) = {}    -> 3
                [] OTHER                -> 2

(* A payload that keeps its members is rewritten when the commit moved. *)
Writes(w) == LET s == call[w].scope IN
    {c \in Keys(synced[s]) \cup Keys(Target(w)) :
        \/ points[c] # (points[c] \ Memberships(s, synced[s], c))
                           \cup Memberships(s, Target(w), c)
        \/ synced[s] # Target(w) /\ c \in Keys(Target(w))}

NewPoints(w) == {c \in Keys(Target(w)) : points[c] = {}}

(* Mutant: the lock of the installation is not taken. *)
SyncBeginUnlocked(w) ==
    /\ call[w].phase = "vwait"
    /\ collection' = (collection \/ NewPoints(w) # {})
    /\ call' = [call EXCEPT ![w].phase = "sync", ![w].seen = points, ![w].writes = Writes(w)]
    /\ UNCHANGED <<source, stores, points, aborted, lost, edits, runs, faults>>

(* The inventory of the points, under the lock of the installation.  A lost *)
(* collection is created again when there are new points to put into it;    *)
(* without any, the synchronisation fails.                                  *)
SyncBegin(w) == LET s == call[w].scope IN
    /\ call[w].phase = "vwait" /\ VectorLockFree
    /\ collection' = (collection \/ NewPoints(w) # {})
    /\ IF Keys(synced[s]) \cup Keys(Target(w)) # {} /\ ~collection'
       THEN call' = [call EXCEPT ![w].phase = "commit", ![w].outcome = "degraded"]
       ELSE call' = [call EXCEPT ![w].phase = "sync", ![w].seen = points,
                                 ![w].writes = Writes(w)]
    /\ UNCHANGED <<source, stores, points, aborted, lost, edits, runs, faults>>

(* One remote write: a batch of upserts, a set_payload, a deletion. *)
SyncWrite(w, c) ==
    /\ call[w].phase = "sync" /\ collection
    /\ c \in call[w].writes
    /\ \A d \in call[w].writes : Rank(w, c) <= Rank(w, d)
    /\ points' = [points EXCEPT ![c] = Merged(w, c)]
    /\ call' = [call EXCEPT ![w].writes = @ \ {c}]
    /\ UNCHANGED <<source, stores, collection, aborted, lost, edits, runs, faults>>

(* Mutant: a failed synchronisation keeps any snapshot that was published. *)
SyncFailsKeeping(w) ==
    /\ call[w].phase = "sync" /\ collection /\ faults < MaxFaults
    /\ faults' = faults + 1
    /\ call' = [call EXCEPT ![w].phase = "commit", ![w].writes = {},
                    ![w].seen = NoPoints,
                    ![w].outcome = IF state[call[w].scope] = None THEN "degraded"
                                   ELSE "preserved"]
    /\ UNCHANGED <<source, stores, remote, aborted, lost, edits, runs>>

(* A call of the database or of the embedding service fails; the writes    *)
(* before it stay.  A snapshot published before that is still the target   *)
(* is kept.                                                                *)
SyncFails(w) ==
    /\ call[w].phase = "sync"
    /\ IF collection THEN faults < MaxFaults /\ faults' = faults + 1
                     ELSE call[w].writes # {} /\ UNCHANGED faults
    /\ call' = [call EXCEPT ![w].phase = "commit", ![w].writes = {},
                    ![w].seen = NoPoints,
                    ![w].outcome = IF PriorMatches(w) THEN "preserved" ELSE "degraded"]
    /\ UNCHANGED <<source, stores, remote, aborted, lost, edits, runs>>

SyncEnds(w) ==
    /\ call[w].phase = "sync" /\ call[w].writes = {}
    /\ call' = [call EXCEPT ![w].phase = "record", ![w].seen = NoPoints]
    /\ lost' = [lost EXCEPT ![call[w].scope] = @ /\ ~collection]
    /\ UNCHANGED <<source, stores, remote, aborted, edits, runs, faults>>

(* The confirmed snapshot is recorded after the vector lock is released. *)
RecordSynced(w) ==
    /\ call[w].phase = "record"
    /\ synced' = [synced EXCEPT ![call[w].scope] = Target(w)]
    /\ call' = [call EXCEPT ![w].phase = "commit", ![w].outcome = "indexed"]
    /\ UNCHANGED <<source, rows, state, manifest, remote, aborted, lost, edits,
                   runs, faults>>

-----------------------------------------------------------------------------
(* The commit point. *)

(* git_identity_changed or verified_snapshot_lost: another commit, or a    *)
(* clean tree that is no longer clean.  A dirty tree may change unnoticed. *)
SourceMoved(w) == LET s == call[w].scope  scan == call[w].scan IN
    \/ source[s].head # scan.head
    \/ ~Dirty(scan) /\ Dirty(source[s])

StaleSource(w) ==
    /\ call[w].phase = "commit" /\ SourceMoved(w)
    /\ Abandon(w)
    /\ UNCHANGED <<source, stores, remote, lost, edits, runs, faults>>

Published(w) == LET s == call[w].scope IN
    IF call[w].outcome \in {"indexed", "current"} THEN Target(w)
    ELSE IF state[s] = None THEN None ELSE state[s].published

VectorState(w) ==
    IF call[w].outcome \in {"indexed", "current", "preserved"} THEN "indexed"
    ELSE call[w].outcome

WriteState(w) == LET s == call[w].scope  scan == call[w].scan IN
    /\ call[w].phase = "commit" /\ ~SourceMoved(w)
    /\ state' = [state EXCEPT ![s] =
           [probe |-> scan.work, head |-> scan.head, dirty |-> Dirty(scan),
            rows |-> rows[s], published |-> Published(w), vector |-> VectorState(w)]]
    /\ call' = [call EXCEPT ![w].phase = "manifest"]
    /\ UNCHANGED <<source, rows, synced, manifest, remote, aborted, lost, edits,
                   runs, faults>>

WriteManifest(w) == LET s == call[w].scope IN
    /\ call[w].phase = "manifest"
    /\ manifest' = [manifest EXCEPT ![s] =
           [head |-> call[w].scan.head,
            collection |-> \/ call[w].outcome \in {"indexed", "current"}
                           \/ manifest[s] # None /\ manifest[s].collection]]
    /\ call' = [call EXCEPT ![w] = Free]
    /\ UNCHANGED <<source, rows, synced, state, remote, aborted, lost, edits,
                   runs, faults>>

-----------------------------------------------------------------------------
(* Faults. *)

(* The process dies, or an exception leaves the call; the kernel releases   *)
(* the file locks.                                                         *)
Crash(w) ==
    /\ call[w].phase # "idle" /\ faults < MaxFaults
    /\ faults' = faults + 1
    /\ IF HoldsIndexLock(w) THEN Abandon(w)
       ELSE call' = [call EXCEPT ![w] = Free] /\ UNCHANGED aborted
    /\ UNCHANGED <<source, stores, remote, lost, edits, runs>>

LoseCollection ==
    /\ collection /\ faults < MaxFaults
    /\ faults' = faults + 1
    /\ collection' = FALSE /\ points' = NoPoints
    /\ lost' = [s \in Scope |-> TRUE]
    /\ UNCHANGED <<source, stores, call, aborted, edits, runs>>

Work(w) ==
    \/ EnterLock(w) \/ DeleteStaleFiles(w)
    \/ \E f \in File : ReuseFile(w, f) \/ ReplaceFile(w, f) \/ StaleFile(w, f)
    \/ SkipVectors(w) \/ WantVectors(w)
    \/ SyncBegin(w) \/ SyncEnds(w) \/ RecordSynced(w)
    \/ \E c \in Content : SyncWrite(w, c)
    \/ StaleSource(w) \/ WriteState(w) \/ WriteManifest(w)

Next ==
    \/ \E s \in Scope : Edit(s) \/ Checkout(s)
    \/ \E w \in Worker, s \in Scope, full, force \in BOOLEAN : Begin(w, s, full, force)
    \/ \E w \in Worker : Work(w) \/ SyncFails(w) \/ Crash(w)
    \/ LoseCollection

Spec == Init /\ [][Next]_vars

-----------------------------------------------------------------------------
(* Properties. *)

(* Type invariant.  A call has files left only while it goes through them,  *)
(* and holds an inventory of the points only under the vector lock.        *)
TypeOK ==
    /\ source \in [Scope -> View] /\ rows \in [Scope -> Tree]
    /\ synced \in [Scope -> Hash \cup {None}]
    /\ state \in [Scope -> State \cup {None}]
    /\ manifest \in [Scope -> Manifest \cup {None}]
    /\ points \in Points /\ collection \in BOOLEAN
    /\ call \in [Worker -> Call]
    /\ aborted \in [Scope -> BOOLEAN] /\ lost \in [Scope -> BOOLEAN]
    /\ edits \in 0..MaxEdits /\ runs \in 0..MaxRuns /\ faults \in 0..MaxFaults
    /\ \A w \in Worker :
          /\ call[w].phase # "files" => call[w].files = {}
          /\ ~HoldsVectorLock(w) => call[w].writes = {}

(* The index that is reported current is the index of the source, as long  *)
(* as every call on the scope that took the lock reached its commit point: *)
(* neither the edits during a call nor the calls of other processes that   *)
(* scanned earlier can leave rows of another tree behind the state row.    *)
CurrentIndexMatchesSource ==
    \A s \in Scope :
        /\ Quiet(s) /\ ~aborted[s]
        /\ LexicalCurrent(s) \/ DeepLexicalCurrent(s)
        => rows[s] = source[s].work

(* A vector snapshot reported current is in the collection, whole: every   *)
(* row has its membership on the point of its content.  Failed             *)
(* synchronisations, preserved snapshots and the calls of other scopes on  *)
(* the shared points do not change that.                                   *)
CurrentVectorsPresent ==
    \A s \in Scope :
        /\ Quiet(s) /\ ~aborted[s] /\ ~lost[s]
        /\ VectorCurrent(s) \/ DeepVectorCurrent(s)
        => \A f \in File : rows[s][f] # Absent => <<s, f>> \in points[rows[s][f]]

(* The points are shared by content: a membership leaves the collection     *)
(* only by a write of a call on its own scope (or with the collection), so  *)
(* that no scope loses its points to the read-modify-write of another.     *)
OthersKept ==
    [][collection' =>
         \A c \in Content : \A m \in points[c] :
             \/ m \in points'[c]
             \/ \E w \in Worker : call[w].scope = m[1] /\ call'[w].writes # call[w].writes]_vars

(* "A local lexical rebuild never rewrites either with an unsynchronized   *)
(* target" (docs/OPERATOR_REFERENCE.md): the published membership changes   *)
(* only to the one that is recorded as confirmed by the database.          *)
PublishedWasSynced ==
    [][\A s \in Scope :
         /\ state'[s] # state[s] /\ state'[s].published # None
         /\ state[s] # None => state'[s].published # state[s].published
         => state'[s].published = synced[s]]_vars

(* "... instead of indexing unvalidated bytes or claiming freshness"        *)
(* (engine.py, ensure_current): what the deep verification calls current    *)
(* is the source.                                                          *)
VerifiedIndexMatchesSource ==
    \A s \in Scope : Quiet(s) /\ DeepLexicalCurrent(s) => rows[s] = source[s].work

=============================================================================
