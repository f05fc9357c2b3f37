--------------------------- MODULE SourceEvidence ---------------------------
(***************************************************************************)
(* What Awoki says of a Git worktree: whether the structural index may be  *)
(* used without scanning the source (engine.py, _search_index_readiness    *)
(* and _passive_index_status), and the evidence tokens that bind a window  *)
(* of source to a snapshot (source_window, provenance.py), verified later. *)
(*                                                                         *)
(* The worktree is somebody else's: it is edited, staged, committed,       *)
(* checked out, its index refreshed, and its flags and configuration       *)
(* changed at any moment, between any two reads of Awoki.  A flagged file  *)
(* (assume-unchanged, skip-worktree) does not show in git status; with     *)
(* weakened stat trust (core.ignoreStat, trustctime, checkStat) no changed *)
(* file need show.  The index file has an identity, its stat, which no two *)
(* states of it share.                                                     *)
(***************************************************************************)
EXTENDS Naturals, Sequences, FiniteSets

CONSTANTS File, Version,
          MaxActs,    \* bound: acts on the worktree
          MaxOps,     \* bound: operations of Awoki
          None

\* What the constants are assumed to be.
EvidenceAssumption == None \notin [File -> Version] /\ 0 \in Version

VARIABLES git,       \* the worktree: head, commits, staged, flagged, work, ident, select, weak
          rows,      \* the content hash of each file in the store
          state,     \* the published state: commit, dirty
          manifest,  \* the published evidence
          indexing,  \* the run of index_project_code at work
          reading,   \* the reader's call at work
          token,     \* the last evidence token issued
          verdict,   \* the last answer given to the reader
          moved,     \* ghost: the worktree changed while the run that wrote the rows was at work
          count

vars == <<git, rows, state, manifest, indexing, reading, token, verdict, moved, count>>

Free == [pc |-> "idle"]

EvidenceInit ==
    /\ git = [head |-> 1, commits |-> <<[f \in File |-> 0]>>, staged |-> [f \in File |-> 0],
              flagged |-> {}, work |-> [f \in File |-> 0], ident |-> 0,
              select |-> FALSE, weak |-> FALSE]
    /\ rows = [f \in File |-> None]
    /\ state = None /\ manifest = None
    /\ indexing = Free /\ reading = Free
    /\ token = None /\ verdict = None
    /\ moved = FALSE
    /\ count = [acts |-> 0, ops |-> 0]

(***************************************************************************)
(* The worktree.                                                           *)
(***************************************************************************)
Tree == git.commits[git.head]

Act(new) ==
    /\ count.acts < MaxActs
    /\ count' = [count EXCEPT !.acts = @ + 1]
    /\ git' = new
    /\ indexing' = IF indexing.pc = "idle" THEN indexing
                   ELSE [indexing EXCEPT !.calm = @ /\ new = [git EXCEPT !.ident = new.ident]]
    /\ reading' = IF reading.pc = "idle" THEN reading
                  ELSE [reading EXCEPT !.calm = @ /\ reading.pc = "ready"
                                               /\ new.flagged = git.flagged /\ new.weak = git.weak]
    /\ moved' = (moved \/ (indexing.pc = "rows" /\ new # [git EXCEPT !.ident = new.ident]))
    /\ UNCHANGED <<rows, state, manifest, token, verdict>>

Edit(f, v) == git.work[f] # v /\ Act([git EXCEPT !.work[f] = v])
\* Every change of the index file is a new file with a new stat.
Stage(f) == git.staged[f] # git.work[f]
            /\ Act([git EXCEPT !.staged[f] = git.work[f], !.ident = @ + 1])
Commit == git.staged # Tree
          /\ Act([git EXCEPT !.commits = Append(@, git.staged), !.head = Len(git.commits) + 1,
                             !.ident = @ + 1])
\* Files without changes of their own are replaced; with changes git refuses.
Checkout(c) ==
    /\ c # git.head /\ git.work = git.staged /\ git.staged = Tree
    /\ Act([git EXCEPT !.head = c, !.staged = git.commits[c], !.work = git.commits[c], !.ident = @ + 1])
Flag(f) == Act([git EXCEPT !.flagged = IF f \in @ THEN @ \ {f} ELSE @ \union {f}, !.ident = @ + 1])
\* Any git status of the user refreshes the stat data of the index.
RefreshIndex == Act([git EXCEPT !.ident = @ + 1])
\* Replacement refs or a sparse view come and go.
Select == Act([git EXCEPT !.select = ~@])
Weaken == Act([git EXCEPT !.weak = ~@])

Worktree ==
    \/ \E f \in File, v \in Version : Edit(f, v)
    \/ \E f \in File : Stage(f) \/ Flag(f)
    \/ Commit \/ RefreshIndex \/ Select \/ Weaken
    \/ \E c \in 1..Len(git.commits) : Checkout(c)

(***************************************************************************)
(* What Awoki reads of it.                                                 *)
(***************************************************************************)
\* git status: staged changes always show, others only when not flagged and,
\* with weakened stat trust, not always.
ShownDirty ==
    LET staged == git.staged # Tree
        edited == \E f \in File \ git.flagged : git.work[f] # git.staged[f]
    IN IF staged THEN {TRUE} ELSE IF edited /\ git.weak THEN BOOLEAN ELSE {edited}

\* passive_git_identity: HEAD and cleanliness in one status.
Identities == {[head |-> git.head, dirty |-> d] : d \in ShownDirty}

\* light_view_state for a HEAD read before; the content view is the part of it
\* that can select other content at the same HEAD.
ContentView(head) == [head |-> head, select |-> git.select]
View(head) == [content |-> ContentView(head), ident |-> git.ident, weak |-> git.weak]

\* collect_repository_evidence(deep=True): a status and the blockers.
DeepEvidence ==
    {[view |-> View(git.head), head |-> git.head,
      verified |-> ~(d \/ git.select \/ git.weak \/ git.flagged # {}),
      reusable |-> ~(git.weak \/ git.flagged # {})] : d \in ShownDirty}

(***************************************************************************)
(* index_project_code: identity and evidence, scan, rows, evidence again.  *)
(***************************************************************************)
Begins == count.ops < MaxOps /\ count' = [count EXCEPT !.ops = @ + 1]

IndexBegin ==
    /\ indexing.pc = "idle" /\ Begins
    /\ \E id \in Identities, e \in DeepEvidence :
         indexing' = [pc |-> "identified", branch |-> id, first |-> e, calm |-> TRUE]
    /\ UNCHANGED <<git, rows, state, manifest, reading, token, verdict, moved>>

IndexScan ==
    /\ indexing.pc = "identified"
    /\ indexing' = [pc |-> "scanned", branch |-> indexing.branch, first |-> indexing.first,
                    calm |-> indexing.calm, scan |-> git.work]
    /\ UNCHANGED <<git, rows, state, manifest, reading, token, verdict, moved, count>>

IndexAbandon ==
    /\ indexing' = Free
    /\ moved' = (moved \/ ~indexing.calm)
    /\ UNCHANGED <<git, state, manifest, reading, token, verdict, count>>

\* A changed file is read again and must have the bytes that were scanned.
IndexRows ==
    /\ indexing.pc = "scanned"
    /\ \/ /\ \A f \in File : rows[f] = indexing.scan[f] \/ git.work[f] = indexing.scan[f]
          /\ rows' = indexing.scan
          /\ indexing' = [indexing EXCEPT !.pc = "rows"]
          /\ moved' = (moved \/ ~indexing.calm)
          /\ UNCHANGED <<git, state, manifest, reading, token, verdict, count>>
       \/ /\ \E f \in File : rows[f] # indexing.scan[f] /\ git.work[f] # indexing.scan[f]
          /\ UNCHANGED rows
          /\ IndexAbandon

\* git_identity_changed and verified_snapshot_lost.
Publishable(last) ==
    /\ last.head = indexing.branch.head
    /\ last.view.content = indexing.first.view.content
    /\ indexing.first.verified => last.verified

IndexPublish ==
    /\ indexing.pc = "rows"
    /\ \E last \in DeepEvidence :
         IF Publishable(last)
         THEN /\ state' = indexing.branch
              /\ manifest' = last
              /\ indexing' = Free
              /\ moved' = ~indexing.calm
              /\ UNCHANGED <<git, rows, reading, token, verdict, count>>
         ELSE UNCHANGED rows /\ IndexAbandon

(***************************************************************************)
(* Readiness without a scan, as the search asks it and as the status says. *)
(***************************************************************************)
\* Mutant: flags of the index are only looked for when the content view moved.
NoWeaknessUnprobed(view) == ~view.weak

\* The flags are probed when the index file is not the one of the manifest.
NoWeakness(view) ==
    /\ ~view.weak
    /\ manifest.view # view => git.flagged = {}

Reusable(id) ==
    LET view == View(id.head) IN
    /\ state # None /\ manifest # None
    /\ ~id.dirty /\ ~state.dirty /\ state.head = id.head
    /\ manifest.reusable
    /\ manifest.view.content = view.content
    /\ NoWeakness(view)

\* _passive_index_status decides the same by itself: stat trust and flags only
\* when the view moved.
PassivelyCurrent(id) ==
    LET view == View(id.head) IN
    /\ state # None /\ manifest # None
    /\ ~id.dirty /\ ~state.dirty /\ state.head = id.head
    /\ manifest.reusable
    /\ manifest.view.content = view.content
    /\ manifest.view # view => ~view.weak /\ git.flagged = {}

ReadyBegin ==
    /\ reading.pc = "idle" /\ Begins
    /\ \E id \in Identities :
         reading' = [pc |-> "ready", branch |-> id, work |-> git.work, calm |-> TRUE]
    /\ UNCHANGED <<git, rows, state, manifest, indexing, token, verdict, moved>>

Decided(current) ==
    /\ reading' = Free
    /\ verdict' = IF current
                  THEN [says |-> "current", works |-> {reading.work, git.work}, rows |-> rows,
                        disturbed |-> moved \/ ~reading.calm]
                  ELSE None
    /\ UNCHANGED <<git, rows, state, manifest, indexing, token, moved, count>>

\* The search and the status have each a copy of the check.
ReadyDecide == reading.pc = "ready" /\ Decided(Reusable(reading.branch))
StatusDecide == reading.pc = "ready" /\ Decided(PassivelyCurrent(reading.branch))

(***************************************************************************)
(* source_window: identity, the file against its row, the view, the token. *)
(***************************************************************************)
WindowBegin(f) ==
    /\ reading.pc = "idle" /\ Begins
    /\ \E id \in Identities :
         reading' = [pc |-> "window", branch |-> id, file |-> f, calm |-> indexing.pc = "idle"]
    /\ UNCHANGED <<git, rows, state, manifest, indexing, token, verdict, moved>>

\* stale_source when the bytes are not those of the row.
WindowRead ==
    /\ reading.pc = "window"
    /\ LET f == reading.file IN
       reading' = IF rows[f] # None /\ git.work[f] = rows[f]
                  THEN [pc |-> "seal", branch |-> reading.branch, file |-> f, bytes |-> git.work[f],
                        calm |-> reading.calm /\ indexing.pc = "idle"]
                  ELSE Free
    /\ UNCHANGED <<git, rows, state, manifest, indexing, token, verdict, moved, count>>

\* The assurance of the manifest holds for a clean worktree with its very view.
Lent(branch) == manifest # None /\ manifest.view = View(branch.head) /\ ~branch.dirty

WindowSeal ==
    /\ reading.pc = "seal"
    /\ reading' = Free
    /\ token' = [file |-> reading.file, bytes |-> reading.bytes, head |-> reading.branch.head,
                 view |-> View(reading.branch.head),
                 verified |-> Lent(reading.branch) /\ manifest.verified, calm |-> reading.calm]
    /\ UNCHANGED <<git, rows, state, manifest, indexing, verdict, moved, count>>

(***************************************************************************)
(* verify_source_evidence: the bytes, then the repository.                 *)
(***************************************************************************)
VerifyBegin ==
    /\ reading.pc = "idle" /\ token # None /\ Begins
    /\ reading' = [pc |-> "verify", same |-> git.work[token.file] = token.bytes, calm |-> TRUE]
    /\ UNCHANGED <<git, rows, state, manifest, indexing, token, verdict, moved>>

\* Mutant: a token of a verified snapshot is good as long as the view is.
IdentityIsEnough(e) == e.head = token.head /\ e.view = token.view

SnapshotCurrent(e) == e.head = token.head /\ e.view = token.view /\ e.verified

VerifyDecide ==
    /\ reading.pc = "verify"
    /\ reading' = Free
    /\ \E e \in DeepEvidence :
         verdict' = IF ~reading.same THEN None
                    ELSE IF token.verified
                         THEN IF SnapshotCurrent(e)
                              THEN [says |-> "verified", token |-> token, calm |-> reading.calm]
                              ELSE None
                         ELSE IF e.head = token.head /\ e.view = token.view
                              THEN [says |-> "bound", token |-> token, calm |-> reading.calm]
                              ELSE None
    /\ UNCHANGED <<git, rows, state, manifest, indexing, token, moved, count>>

EvidenceNext ==
    \/ Worktree
    \/ IndexBegin \/ IndexScan \/ IndexRows \/ IndexPublish
    \/ ReadyBegin \/ ReadyDecide \/ StatusDecide
    \/ \E f \in File : WindowBegin(f)
    \/ WindowRead \/ WindowSeal
    \/ VerifyBegin \/ VerifyDecide

EvidenceSpec == EvidenceInit /\ [][EvidenceNext]_vars

(***************************************************************************)
(* Properties                                                              *)
(***************************************************************************)
\* When a search or a status calls the index current without a scan, every row of
\* it is the content its file had when the question was asked or answered:
\* staging, commits, checkouts, and flags and configuration that hide edits, in
\* any order before and after the index run, do not make it lie.  The worktree
\* must have kept still while the rows were written (the published state takes
\* its cleanliness from before the scan), and its flags while the question was
\* answered (status and flags are two reads).
CurrentIndexIsTheWork ==
    (verdict # None /\ verdict.says = "current" /\ ~verdict.disturbed) => verdict.rows \in verdict.works

\* A token that claims the verified snapshot holds the bytes the commit it names
\* has for the file, when nothing moved while its window was read: whatever
\* index runs gave up or published before.  One that is verified as the current
\* verified snapshot holds them whatever moved while it was issued and since,
\* when nothing moves between the two reads of the verification.
TokenBytesAreCommitted ==
    /\ (token # None /\ token.verified /\ token.calm) =>
          token.bytes = git.commits[token.head][token.file]
    /\ (verdict # None /\ verdict.says = "verified" /\ verdict.calm) =>
          verdict.token.bytes = git.commits[verdict.token.head][verdict.token.file]
=============================================================================
