--------------------------- MODULE CorpusEvidence ---------------------------
(***************************************************************************)
(* Evidence sources without a Git history: corpora of files.  The revision *)
(* of a corpus is the manifest of its contents, found by a walk that reads *)
(* one file after the other (source_manifest_identity).  The structural    *)
(* index keeps rows for each revision; a search asks whether those of the  *)
(* revision it walked are current, a window of source is given an evidence *)
(* token that names the revision and the bytes of the file, and a token is *)
(* verified later by the bytes and another walk (engine.py, provenance.py).*)
(*                                                                         *)
(* The files are edited at any moment, also during a walk, so that what it *)
(* finds need never have been there.  A content is a number: an edit gives *)
(* a file one it never had, unless it puts an older one back.  Files come  *)
(* and go as contents do.  The vectors are in CodeIndex, Git in            *)
(* SourceEvidence.                                                         *)
(***************************************************************************)
EXTENDS Naturals

CONSTANTS File,       \* the files of the corpus, in the order of their paths
          Caller,
          MaxEdits,   \* bound: edits of the corpus
          MaxCalls,   \* bound: calls
          None

CorpusAssumption == File \subseteq Nat /\ None \notin [File -> Nat]

VARIABLES corpus,     \* the content of each file
          rows,       \* the files in the store: revision, file, content hash
          state,      \* the published revisions, each with the scan it is of
          manifest,   \* the revision published last
          call,       \* what each caller is at
          token,      \* the evidence token issued last
          answer,     \* the answer given last
          restored,   \* ghost: an older content was put back
          count

corpusVars == <<corpus, rows, state, manifest, call, token, answer, restored, count>>

Revision == [File -> Nat]
Nothing == [f \in File |-> 0]

Free == [pc |-> "free", does |-> "none", force |-> FALSE, left |-> {}, seen |-> Nothing,
         branch |-> Nothing, scan |-> Nothing, file |-> None, bytes |-> 0, token |-> None,
         same |-> FALSE]

CorpusInit ==
    /\ corpus = Nothing
    /\ rows = {}
    /\ state = {}
    /\ manifest = None
    /\ call = [c \in Caller |-> Free]
    /\ token = None
    /\ answer = [says |-> "none"]
    /\ restored = FALSE
    /\ count = [edits |-> 0, calls |-> 0]

-----------------------------------------------------------------------------
(* The user's files.                                                       *)

Edit(f) ==
    /\ count.edits < MaxEdits
    /\ count' = [count EXCEPT !.edits = @ + 1]
    /\ \/ corpus' = [corpus EXCEPT ![f] = @ + 1] /\ restored' = restored
       \/ \E v \in 0..(corpus[f] - 1) : corpus' = [corpus EXCEPT ![f] = v] /\ restored' = TRUE
    /\ UNCHANGED <<rows, state, manifest, call, token, answer>>

-----------------------------------------------------------------------------
(* Calls and walks.                                                        *)

Goes(c, new) == call' = [call EXCEPT ![c] = new]
Walking(c) == call[c].pc \in {"walk", "scan", "final"}
Walked(c, pc) == call[c].pc = pc /\ call[c].left = {}

\* Every call resolves its source and walks it.
Begin(c, new) ==
    /\ call[c].pc = "free"
    /\ count.calls < MaxCalls
    /\ count' = [count EXCEPT !.calls = @ + 1]
    /\ Goes(c, [new EXCEPT !.left = File])
    /\ UNCHANGED <<corpus, rows, state, manifest, token, answer, restored>>

BeginIndex(c) == \E force \in BOOLEAN :
    Begin(c, [Free EXCEPT !.pc = "walk", !.does = "index", !.force = force])
BeginSearch(c) == Begin(c, [Free EXCEPT !.pc = "walk", !.does = "search"])
BeginWindow(c) == \E f \in File :
    Begin(c, [Free EXCEPT !.pc = "walk", !.does = "window", !.file = f])

Turn(c, f) == f \in call[c].left /\ \A g \in call[c].left : f <= g

WalkFile(c, f) ==
    /\ Walking(c)
    /\ Turn(c, f)
    /\ Goes(c, [call[c] EXCEPT !.left = @ \ {f}, !.seen[f] = corpus[f]])
    /\ UNCHANGED <<corpus, rows, state, manifest, token, answer, restored, count>>

\* What was walked is the revision of the call.
Identified(c) ==
    /\ Walked(c, "walk")
    /\ call[c].does \in {"index", "search", "window"}
    /\ Goes(c, [call[c] EXCEPT !.branch = call[c].seen,
                               !.pc = IF call[c].does = "index" THEN "scan"
                                      ELSE IF call[c].does = "search" THEN "decide" ELSE "look",
                               !.left = IF call[c].does = "index" THEN File ELSE {}])
    /\ UNCHANGED <<corpus, rows, state, manifest, token, answer, restored, count>>

-----------------------------------------------------------------------------
(* index_project_code.                                                     *)

Published(rev) == \E s \in state : s.rev = rev
RowOf(rev, f) == {r \in rows : r.rev = rev /\ r.file = f}
IndexLockFree == \A c \in Caller : call[c].pc \notin {"rows", "final", "manifest"}

\* The rows of a revision whose scan is the published one are not looked at.
EnterLock(c) ==
    /\ Walked(c, "scan")
    /\ IndexLockFree
    /\ LET fresh == [rev |-> call[c].branch, probe |-> call[c].seen] \in state
       IN Goes(c, [call[c] EXCEPT !.scan = call[c].seen, !.left = File,
                                  !.pc = IF fresh /\ ~call[c].force THEN "final" ELSE "rows"])
    /\ UNCHANGED <<corpus, rows, state, manifest, token, answer, restored, count>>

\* A file with the row it would get is passed over when the revision was published
\* before; any other is read again, and with other bytes than were scanned the run
\* is given up.
Passes(c, f) ==
    /\ ~call[c].force
    /\ Published(call[c].branch)
    /\ \E r \in RowOf(call[c].branch, f) : r.hash = call[c].scan[f]

ReuseRow(c, f) ==
    /\ call[c].pc = "rows" /\ Turn(c, f)
    /\ Passes(c, f)
    /\ Goes(c, [call[c] EXCEPT !.left = @ \ {f}])
    /\ UNCHANGED <<corpus, rows, state, manifest, token, answer, restored, count>>

MustRead(c, f) == call[c].pc = "rows" /\ Turn(c, f) /\ ~Passes(c, f)

WriteRow(c, f) ==
    /\ MustRead(c, f)
    /\ corpus[f] = call[c].scan[f]
    /\ rows' = (rows \ RowOf(call[c].branch, f))
                 \union {[rev |-> call[c].branch, file |-> f, hash |-> corpus[f]]}
    /\ Goes(c, [call[c] EXCEPT !.left = @ \ {f}])
    /\ UNCHANGED <<corpus, state, manifest, token, answer, restored, count>>

StaleRow(c, f) ==
    /\ MustRead(c, f)
    /\ corpus[f] # call[c].scan[f]
    /\ Goes(c, Free)
    /\ UNCHANGED <<corpus, rows, state, manifest, token, answer, restored, count>>

\* The corpus is walked once more.
RowsDone(c) ==
    /\ Walked(c, "rows")
    /\ Goes(c, [call[c] EXCEPT !.pc = "final", !.left = File])
    /\ UNCHANGED <<corpus, rows, state, manifest, token, answer, restored, count>>

\* source_identity_changed, then write_state; the manifest is another file.
WriteState(c) ==
    /\ Walked(c, "final")
    /\ IF call[c].seen = call[c].branch
       THEN /\ state' = {s \in state : s.rev # call[c].branch}
                          \union {[rev |-> call[c].branch, probe |-> call[c].scan]}
            /\ Goes(c, [call[c] EXCEPT !.pc = "manifest"])
       ELSE state' = state /\ Goes(c, Free)
    /\ UNCHANGED <<corpus, rows, manifest, token, answer, restored, count>>

WriteManifest(c) ==
    /\ call[c].pc = "manifest"
    /\ manifest' = call[c].branch
    /\ Goes(c, Free)
    /\ UNCHANGED <<corpus, rows, state, token, answer, restored, count>>

-----------------------------------------------------------------------------
(* The readiness of a search, and the passive status.                      *)

\* A published revision stays so: the state and then the manifest are one look.
Reusable(rev) == Published(rev) /\ manifest = rev

SearchDecide(c) ==
    /\ call[c].pc = "decide"
    /\ answer' = IF Reusable(call[c].branch)
                 THEN [says |-> "current", rev |-> call[c].branch]
                 ELSE [says |-> "stale"]
    /\ Goes(c, Free)
    /\ UNCHANGED <<corpus, rows, state, manifest, token, restored, count>>

\* Without a walk nothing is ever called current.
PassiveStatus(c) ==
    /\ call[c].pc = "free"
    /\ answer' = [says |-> IF state = {} THEN "not_indexed" ELSE "unverified"]
    /\ UNCHANGED <<corpus, rows, state, manifest, call, token, restored, count>>

-----------------------------------------------------------------------------
(* source_window and verify_evidence.                                      *)

\* The row of the file in this revision, then its bytes.
LookRow(c) ==
    /\ call[c].pc = "look"
    /\ \/ \E r \in RowOf(call[c].branch, call[c].file) :
            Goes(c, [call[c] EXCEPT !.pc = "bytes", !.bytes = r.hash])
       \/ /\ RowOf(call[c].branch, call[c].file) = {}
          /\ Goes(c, Free)
    /\ UNCHANGED <<corpus, rows, state, manifest, token, answer, restored, count>>

\* build_corpus_source_evidence.
TokenOf(k) == [file |-> k.file, bytes |-> k.bytes, rev |-> k.branch]

GiveWindow(c) ==
    /\ call[c].pc = "bytes"
    /\ token' = IF corpus[call[c].file] = call[c].bytes THEN TokenOf(call[c]) ELSE token
    /\ Goes(c, Free)
    /\ UNCHANGED <<corpus, rows, state, manifest, answer, restored, count>>

\* The file is read, then the corpus is walked.
Verifying(t, co) == [Free EXCEPT !.pc = "walk", !.does = "verify", !.token = t,
                                 !.same = (co[t.file] = t.bytes),
                                 !.scan = co]   \* ghost: the corpus meanwhile

BeginVerify(c) == token # None /\ Begin(c, Verifying(token, corpus))

\* Mutant: the bytes of the file are proof enough.
SameBytesAreCurrent(k) == k.same

SourceCurrent(k) == k.same /\ k.seen = k.token.rev

VerifyDecide(c) ==
    /\ Walked(c, "walk")
    /\ call[c].does = "verify"
    /\ answer' = IF SourceCurrent(call[c])
                 THEN [says |-> "bound", token |-> call[c].token, began |-> call[c].scan]
                 ELSE [says |-> "stale"]
    /\ Goes(c, Free)
    /\ UNCHANGED <<corpus, rows, state, manifest, token, restored, count>>

-----------------------------------------------------------------------------
CorpusNext ==
    \/ \E f \in File : Edit(f)
    \/ \E c \in Caller :
        \/ BeginIndex(c) \/ BeginSearch(c) \/ BeginWindow(c) \/ BeginVerify(c)
        \/ \E f \in File : WalkFile(c, f) \/ ReuseRow(c, f) \/ WriteRow(c, f) \/ StaleRow(c, f)
        \/ Identified(c) \/ EnterLock(c) \/ RowsDone(c) \/ WriteState(c) \/ WriteManifest(c)
        \/ SearchDecide(c) \/ PassiveStatus(c) \/ LookRow(c) \/ GiveWindow(c) \/ VerifyDecide(c)

CorpusSpec == CorpusInit /\ [][CorpusNext]_corpusVars

-----------------------------------------------------------------------------
(* Properties.                                                             *)

\* What is said of a corpus is true, however walks, index runs, windows and
\* verifications interleave with edits that put nothing back.  An index that a
\* search was told is current holds every file, with no content older than the
\* search itself has seen, also when a later run has spoilt the rows of that
\* revision and was given up.  And a token that is verified as current names what
\* the whole corpus was when its verification began, and these bytes of the file,
\* although a token may have been issued for a mixture that never was there.
CorpusIsAsTold ==
    ~restored =>
        /\ answer.says = "current" =>
             \A f \in File : \E r \in rows :
                /\ r.rev = answer.rev /\ r.file = f
                /\ answer.rev[f] <= r.hash /\ r.hash <= corpus[f]
        /\ answer.says = "bound" =>
             /\ answer.token.rev = answer.began
             /\ answer.token.bytes = answer.began[answer.token.file]
=============================================================================
