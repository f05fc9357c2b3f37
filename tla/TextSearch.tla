----------------------------- MODULE TextSearch -----------------------------
(***************************************************************************)
(* The exhaustive text search of a project's repository                    *)
(* (code_search/text_search.py).  A search of one pattern is materialised  *)
(* once for each state of the source: a run with a list of files to scan,  *)
(* and the matches found so far, kept in an SQLite cache.  Scanning has a  *)
(* deadline, so a call may return a page of a run that is not finished;    *)
(* the cursor it returns resumes the scan and pages on.  Calls run in      *)
(* processes of their own: the scan holds a file lock, the prune of old    *)
(* runs, the creation of a run and the reading of a page do not.           *)
(*                                                                         *)
(* The pattern and the options of a search are fixed here, so that a run   *)
(* is identified by the state of the source it was created for: that is    *)
(* what the fingerprint of the code tells apart.  Only the number of       *)
(* matches in each version of a file matters, a constant.                  *)
(***************************************************************************)
EXTENDS Naturals, FiniteSets, SequencesExt

CONSTANTS Caller,      \* processes that search
          NumFiles,    \* the eligible files, in the order of their ordinals
          Hits,        \* Hits[f][v]: number of matches in version v of file f
          PageSize,    \* matches on a page
          MaxShard,    \* MAX_FILES_PER_SHARD
          MaxRuns,     \* SEARCH_CACHE_MAX_RUNS
          MaxEdits,    \* bound: edits of the source
          MaxCalls,    \* bound: calls
          MaxLapses,   \* bound: times everything in the cache grows old
          NoCaller, NoRun

SourceFile == 1..NumFiles
Version == UNION {DOMAIN Hits[f] : f \in SourceFile}
Snapshot == {s \in [SourceFile -> Version] : \A f \in SourceFile : s[f] \in DOMAIN Hits[f]}

\* What the constants are assumed to be.
SearchAssumption ==
    /\ NumFiles \in Nat \ {0} /\ PageSize \in Nat \ {0} /\ MaxShard \in Nat \ {0}
    /\ MaxRuns \in Nat \ {0} /\ NoCaller \notin Caller

VARIABLES source,    \* the version of each file in the working tree
          runs,      \* search_runs with its search_files, by snapshot
          recent,    \* the runs by updated_at, latest first
          old,       \* the runs beyond the time to live
          matches,   \* search_matches, by snapshot
          lock,      \* the holder of the cache's file lock
          call,      \* what each caller is doing
          chain,     \* the cursor each caller holds, and what it was given
          edited,    \* ghost: runs whose source was edited during a scan of them
          orphaned,  \* ghost: runs the prune deleted under a scan of them
          dropped,   \* ghost: runs the prune deleted while a caller held a cursor of them
          count      \* counters of the bounds

vars == <<source, runs, recent, old, matches, lock, call, chain, edited, orphaned, dropped, count>>

Idle == [pc |-> "idle", id |-> NoRun, offset |-> 0, found |-> <<>>, done |-> {}, late |-> {}]
\* No cursor; nothing given yet.
Fresh == [id |-> NoRun, offset |-> 0, given |-> <<>>, complete |-> FALSE]

SearchInit ==
    /\ source \in {s \in Snapshot : \A f \in SourceFile : s[f] = 0}
    /\ runs = [s \in Snapshot |-> NoRun]
    /\ recent = <<>> /\ old = {}
    /\ matches = [s \in Snapshot |-> <<>>]
    /\ lock = NoCaller
    /\ call = [c \in Caller |-> Idle]
    /\ chain = [c \in Caller |-> Fresh]
    /\ edited = {} /\ orphaned = {} /\ dropped = {}
    /\ count = [edits |-> 0, calls |-> 0, lapses |-> 0]

(***************************************************************************)
(* What ripgrep prints for a file, and for files in order.                 *)
(***************************************************************************)
MatchesIn(f, v) == [n \in 1..Hits[f][v] |-> <<f, v, n>>]

MatchesOf(files, s) ==
    FlattenSeq([i \in 1..Cardinality(files) |->
                  LET f == SetToSortSeq(files, <)[i] IN MatchesIn(f, s[f])])

Pending(s) == IF runs[s] = NoRun THEN {} ELSE {f \in SourceFile : runs[s].files[f] = "pending"}

Touched(s) == <<s>> \o SelectSeq(recent, LAMBDA r : r # s)

(***************************************************************************)
(* A call begins with the prune of the cache: runs beyond the time to live *)
(* and all but the latest MaxRuns go, with their files and matches, in one *)
(* transaction and without the lock.                                       *)
(***************************************************************************)
Doomed == old \union {recent[i] : i \in (MaxRuns + 1)..Len(recent)}

Prune ==
    /\ runs' = [s \in Snapshot |-> IF s \in Doomed THEN NoRun ELSE runs[s]]
    /\ matches' = [s \in Snapshot |-> IF s \in Doomed THEN <<>> ELSE matches[s]]
    /\ recent' = SelectSeq(recent, LAMBDA r : r \notin Doomed)
    /\ old' = {}
    /\ dropped' = dropped \union (Doomed \intersect {chain[c].id : c \in Caller})
    /\ orphaned' = orphaned \union
          (Doomed \intersect {call[c].id : c \in {d \in Caller : call[d].pc \in {"scan", "record"}}})

\* A call with the cursor the caller holds, or a search from the beginning.
Begin(c, cursor) ==
    /\ call[c].pc = "idle" /\ count.calls < MaxCalls
    /\ cursor => chain[c].id # NoRun
    /\ count' = [count EXCEPT !.calls = @ + 1]
    /\ Prune
    /\ call' = [call EXCEPT ![c] = IF cursor
                  THEN [Idle EXCEPT !.pc = "check", !.id = chain[c].id, !.offset = chain[c].offset]
                  ELSE [Idle EXCEPT !.pc = "snapshot"]]
    /\ chain' = IF cursor THEN chain ELSE [chain EXCEPT ![c] = Fresh]
    /\ UNCHANGED <<source, lock, edited>>

\* expired_cursor or stale_cursor: "restart without a cursor".
Refuse(c) ==
    /\ call' = [call EXCEPT ![c] = Idle]
    /\ chain' = [chain EXCEPT ![c] = Fresh]

\* Mutant: a cursor is good for any state of the source.
AnySource(c) == runs[call[c].id] # NoRun

\* The source token, or the full probe where there is none, is compared with
\* the one of the run.
StillCurrent(c) == runs[call[c].id] # NoRun /\ source = call[c].id

CheckCursor(c) ==
    /\ call[c].pc = "check"
    /\ IF StillCurrent(c)
       THEN call' = [call EXCEPT ![c].pc = "resume"] /\ UNCHANGED chain
       ELSE Refuse(c)
    /\ UNCHANGED <<source, runs, recent, old, matches, lock, edited, orphaned, dropped, count>>

\* Without a cursor: the eligible files and the fingerprint of the source.
TakeSnapshot(c) ==
    /\ call[c].pc = "snapshot"
    /\ call' = [call EXCEPT ![c].pc = "create", ![c].id = source]
    /\ UNCHANGED <<source, runs, recent, old, matches, lock, chain, edited, orphaned, dropped, count>>

\* The run is inserted with its files, or only touched when it exists.
CreateRun(c) ==
    /\ call[c].pc = "create"
    /\ LET s == call[c].id IN
       /\ runs' = [runs EXCEPT ![s] = IF @ = NoRun
                     THEN [files |-> [f \in SourceFile |-> "pending"], failed |-> FALSE] ELSE @]
       /\ recent' = Touched(s) /\ old' = old \ {s}
    /\ call' = [call EXCEPT ![c].pc = "resume"]
    /\ UNCHANGED <<source, matches, lock, chain, edited, orphaned, dropped, count>>

(***************************************************************************)
(* The scan, under the lock.                                               *)
(***************************************************************************)
\* The run is gone, or failed before, or has nothing left to scan: the lock is
\* given back at once.  A cached failure still renders what there is.
ResumeNothing(c) ==
    /\ call[c].pc = "resume" /\ lock = NoCaller
    /\ LET s == call[c].id IN
       IF runs[s] = NoRun THEN Refuse(c)
       ELSE /\ runs[s].failed \/ Pending(s) = {}
            /\ call' = [call EXCEPT ![c].pc = "render"] /\ UNCHANGED chain
    /\ UNCHANGED <<source, runs, recent, old, matches, lock, edited, orphaned, dropped, count>>

ResumeScan(c) ==
    /\ call[c].pc = "resume" /\ lock = NoCaller
    /\ Pending(call[c].id) # {} /\ ~runs[call[c].id].failed
    /\ lock' = c
    /\ call' = [call EXCEPT ![c].pc = "scan"]
    /\ UNCHANGED <<source, runs, recent, old, matches, chain, edited, orphaned, dropped, count>>

LeaveScan(c, pc) ==
    /\ lock' = NoCaller
    /\ call' = [call EXCEPT ![c].pc = pc, ![c].found = <<>>, ![c].done = {}, ![c].late = {}]

Shard(s) ==
    LET waiting == SetToSortSeq(Pending(s), <) IN
    ToSet(SubSeq(waiting, 1, IF Len(waiting) < MaxShard THEN Len(waiting) ELSE MaxShard))

\* What the deadline can leave of a shard: files searched to an end are a
\* prefix of it, halves being searched in order until one is deferred.
Searched(shard) == {p \in SUBSET shard : \A f \in p, g \in shard : g < f => g \in p}

\* The deadline has passed, or nothing is pending.
StopScan(c) ==
    /\ call[c].pc = "scan"
    /\ LeaveScan(c, "render")
    /\ UNCHANGED <<source, runs, recent, old, matches, chain, edited, orphaned, dropped, count>>

\* ripgrep reads the files of a shard; a single file that takes too long by
\* itself is given up (late), the others are done or deferred.
ScanShard(c) ==
    /\ call[c].pc = "scan" /\ Pending(call[c].id) # {}
    /\ \E reached \in Searched(Shard(call[c].id)) : \E late \in SUBSET reached :
         call' = [call EXCEPT ![c].pc = "record", ![c].done = reached \ late, ![c].late = late,
                              ![c].found = MatchesOf(reached \ late, source)]
    /\ UNCHANGED <<source, runs, recent, old, matches, lock, chain, edited, orphaned, dropped, count>>

\* ripgrep fails: the failure is kept with the run, for every later call.
FailShard(c) ==
    /\ call[c].pc = "scan" /\ Pending(call[c].id) # {}
    /\ LET s == call[c].id IN
       IF runs[s] = NoRun THEN UNCHANGED <<runs, recent, old>>
       ELSE /\ runs' = [runs EXCEPT ![s].failed = TRUE]
            /\ recent' = Touched(s) /\ old' = old \ {s}
    /\ LeaveScan(c, "render")
    /\ UNCHANGED <<source, matches, chain, edited, orphaned, dropped, count>>

\* One transaction: the matches go behind those there are, the files are
\* marked.  The run may have been pruned since it was read: the matches are
\* inserted all the same, the updates find no row.
RecordShard(c) ==
    /\ call[c].pc = "record"
    /\ LET s == call[c].id
           deferred == Shard(s) \ (call[c].done \union call[c].late)
       IN
       /\ matches' = [matches EXCEPT ![s] = @ \o call[c].found]
       /\ IF runs[s] = NoRun
          THEN UNCHANGED <<runs, recent, old>>
          ELSE /\ runs' = [runs EXCEPT ![s].files = [f \in SourceFile |->
                              IF f \in call[c].done THEN "done"
                              ELSE IF f \in call[c].late THEN "timed_out" ELSE @[f]]]
               /\ recent' = Touched(s) /\ old' = old \ {s}
       /\ IF deferred # {} THEN LeaveScan(c, "render")
          ELSE /\ call' = [call EXCEPT ![c].pc = "scan", ![c].found = <<>>, ![c].done = {}, ![c].late = {}]
               /\ UNCHANGED lock
    /\ UNCHANGED <<source, chain, edited, orphaned, dropped, count>>

(***************************************************************************)
(* The page, read without the lock: other callers may have scanned on.     *)
(***************************************************************************)
EligibleComplete(s) == (\A f \in SourceFile : runs[s].files[f] = "done") /\ ~runs[s].failed

Render(c) ==
    /\ call[c].pc = "render"
    /\ LET s == call[c].id
           from == call[c].offset
           page == SubSeq(matches[s], from + 1,
                          IF from + PageSize < Len(matches[s]) THEN from + PageSize ELSE Len(matches[s]))
           end == from + Len(page)
           more == end < Len(matches[s]) \/ Pending(s) # {}
       IN
       IF runs[s] = NoRun THEN Refuse(c)
       ELSE /\ chain' = [chain EXCEPT ![c] =
                   [id |-> IF more THEN s ELSE NoRun, offset |-> end,
                    given |-> @.given \o page,
                    complete |-> EligibleComplete(s) /\ end >= Len(matches[s])]]
            /\ call' = [call EXCEPT ![c] = [Idle EXCEPT !.id = s]]
    /\ UNCHANGED <<source, runs, recent, old, matches, lock, edited, orphaned, dropped, count>>

(***************************************************************************)
(* Everything else that happens.                                           *)
(***************************************************************************)
\* A process dies: the lock is released by the operating system, the caller
\* has no answer and still holds the cursor it had.
Die(c) ==
    /\ call[c].pc # "idle"
    /\ call' = [call EXCEPT ![c] = Idle]
    /\ lock' = IF lock = c THEN NoCaller ELSE lock
    /\ UNCHANGED <<source, runs, recent, old, matches, chain, edited, orphaned, dropped, count>>

InScan == {call[c].id : c \in {d \in Caller : call[d].pc \in {"create", "resume", "scan", "record"}}}

Edit(f) ==
    /\ count.edits < MaxEdits
    /\ count' = [count EXCEPT !.edits = @ + 1]
    /\ \E v \in DOMAIN Hits[f] \ {source[f]} : source' = [source EXCEPT ![f] = v]
    /\ edited' = edited \union InScan
    /\ UNCHANGED <<runs, recent, old, matches, lock, call, chain, orphaned, dropped>>

\* Six hours pass.  A call takes minutes: no run is beyond its time to live
\* while a call that has touched it is still at work.
Lapse ==
    /\ count.lapses < MaxLapses
    /\ \A c \in Caller : call[c].pc \in {"idle", "check", "snapshot"}
    /\ count' = [count EXCEPT !.lapses = @ + 1]
    /\ old' = ToSet(recent)
    /\ UNCHANGED <<source, runs, recent, matches, lock, call, chain, edited, orphaned, dropped>>

SearchNext ==
    \/ \E c \in Caller :
         \/ \E cursor \in BOOLEAN : Begin(c, cursor)
         \/ CheckCursor(c) \/ TakeSnapshot(c) \/ CreateRun(c)
         \/ ResumeNothing(c) \/ ResumeScan(c)
         \/ StopScan(c) \/ ScanShard(c) \/ FailShard(c) \/ RecordShard(c)
         \/ Render(c) \/ Die(c)
    \/ \E f \in SourceFile : Edit(f)
    \/ Lapse

SearchSpec == SearchInit /\ [][SearchNext]_vars

(***************************************************************************)
(* Properties                                                              *)
(***************************************************************************)
\* The run a caller's pages came from.
RunOf(c) == IF chain[c].id # NoRun THEN chain[c].id ELSE call[c].id

\* A caller that has followed the cursors to an answer that calls the search
\* complete has been given exactly the matches of the source the search was
\* made for, each once and in order: whoever else scanned the same run,
\* whatever deadline, death or refused cursor came in between (the promise of
\* search_complete and of "the exhaustive match universe is materialized
\* once").  Not when the source was edited between the check and the end of a
\* scan, which the code does not notice, nor when the run was pruned under a
\* scan of it.
\*
\* Even when the source is edited during scans, the pages of one chain of
\* cursors never give a match twice, never go back to an earlier file, and
\* never mix two versions of one file.  (A cursor outlives the prune of its run:
\* it then pages on in the run another caller has created for the same source,
\* which an edit during that scan can make a different one.)
PagesAreExact ==
    \A c \in Caller :
        /\ (call[c].pc = "idle" /\ chain[c].complete /\ RunOf(c) \notin edited \union orphaned)
              => chain[c].given = MatchesOf(SourceFile, RunOf(c))
        /\ (orphaned = {} /\ RunOf(c) \notin edited \intersect dropped) =>
              \A i, j \in 1..Len(chain[c].given) : i < j =>
                LET one == chain[c].given[i]  two == chain[c].given[j] IN
                \/ one[1] < two[1]
                \/ one[1] = two[1] /\ one[2] = two[2] /\ one[3] < two[3]
=============================================================================
