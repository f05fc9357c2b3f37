-------------------------- MODULE RepositoryPrepare --------------------------
(***************************************************************************)
(* Repository preparation (repository_prepare_jobs.py) for one repository. *)
(*                                                                         *)
(* A detached parent job brings the structural index, then the vectors, up *)
(* to date through child jobs it starts or adopts, waits for them, verifies*)
(* the result and records LOCAL_READY or FULL_READY.  Children are the     *)
(* refresh jobs of code_index_jobs.py and code_vector_jobs.py, taken here  *)
(* as JobLedger, the specification RefreshJobs implements; the two kinds   *)
(* of children are the ledger's scopes.                                    *)
(*                                                                         *)
(* Contents are versions: the source is at version `source`, the indexes   *)
(* hold what some version contained.  The protocol by which start publishes*)
(* a parent is the one of RefreshJobs, and one step here.                  *)
(***************************************************************************)
EXTENDS Naturals

CONSTANTS
    MaxParents,    \* bound: preparation jobs started in one behaviour
    MaxChildren,   \* bound: refresh jobs started in one behaviour
    MaxEdits,      \* bound: changes of the source
    World          \* what else happens: clients start ("starts") and cancel
                   \* ("cancels") refresh jobs, children get killed ("kills"), polls
                   \* write back older copies of a child's state ("copies")

ASSUME PrepareAssumption ==
    /\ MaxParents \in Nat \ {0}
    /\ MaxChildren \in Nat \ {0}
    /\ MaxEdits \in Nat
    /\ World \subseteq {"starts", "cancels", "kills", "copies"}

VARIABLES
    source,      \* version of the source
    lexical,     \* version the structural index holds (0: none)
    vector,      \* version the vectors hold (0: none)
    childStatus, childKind, childWork,  \* the ledger of refresh jobs
    starter,     \* child -> the parent whose worker started it (0: a client)
    indexer,     \* child -> how far its indexer is, and the version it has scanned
    childLock,   \* kind -> the child a critical section is about (0: lock free)
    file,        \* parent -> its state file
    mode,        \* parent -> "full" or "local"
    born,        \* parent -> version of the source when it was started
    work,        \* parent -> its worker process, as in JobLedger
    worker,      \* parent -> the worker's control state
    call         \* what the holder of the preparation lock is doing

children == <<childStatus, childKind, childWork, starter, indexer, childLock>>
index == <<source, lexical, vector>>
parents == <<file, mode, born, work, worker>>
vars == <<index, children, parents, call>>

-----------------------------------------------------------------------------
Parent == 1 .. MaxParents
Child == 1 .. MaxChildren
Kind == {"structural", "vector"}

Active == {"queued", "running"}
Settled == {"completed", "failed"}
ChildTerminal == Settled \union {"cancelled", "interrupted"}
ParentTerminal == ChildTerminal \union {"blocked"}

Ledger == INSTANCE JobLedger WITH
    Job <- Child, Scope <- Kind, NoScope <- "none",
    status <- childStatus, scope <- childKind, work <- childWork

\* child: the recorded active child; ready: the version readiness attests.
NoRecord == [status |-> "none", child |-> 0, ready |-> 0]

\* seen: the version the index held when it was last verified.
NoWorker == [pc |-> "none", stage |-> "structural", child |-> 0, seen |-> 0]

Idle == [op |-> "idle", job |-> 0, view |-> NoRecord]

\* An indexer is new, has scanned a version, has indexed it, or is broken.
NoIndexer == [pc |-> "new", seen |-> 0]

\* _pid_alive of a recorded pid.
ChildAlive(c) == childWork[c] \in {"working", "corpse"}
ParentAlive(p) == work[p] \in {"working", "corpse"}

\* The jobs a process has started, 0 standing for the clients; ended ones are
\* corpses until it starts another process, or ends and init takes them over.
Started(p) == {c \in Child : starter[c] = p}

Init ==
    /\ source = 1
    /\ lexical \in {0, 1}
    /\ vector \in 0 .. lexical
    /\ Ledger!Init
    /\ starter = [c \in Child |-> 0]
    /\ indexer = [c \in Child |-> NoIndexer]
    /\ childLock = [k \in Kind |-> 0]
    /\ file = [p \in Parent |-> NoRecord]
    /\ mode = [p \in Parent |-> "full"]
    /\ born = [p \in Parent |-> 0]
    /\ work = [p \in Parent |-> "none"]
    /\ worker = [p \in Parent |-> NoWorker]
    /\ call = Idle

-----------------------------------------------------------------------------
(* The world.                                                              *)

Edit ==
    /\ source <= MaxEdits
    /\ source' = source + 1
    /\ UNCHANGED <<lexical, vector, children, parents, call>>

-----------------------------------------------------------------------------
(* Refresh jobs.                                                           *)

Stale(c) == childStatus[c] \in Active /\ ~ChildAlive(c)
Adoptable(c, k) == childKind[c] = k /\ childStatus[c] \in Active /\ ChildAlive(c)
Free(k) == childLock[k] = 0
Holds(c) == childKind[c] \in Kind /\ childLock[childKind[c]] = c
Ends(c) == indexer' = [indexer EXCEPT ![c] = NoIndexer]
Lock(k, c) == childLock' = [childLock EXCEPT ![k] = c]

\* start under the lock of its kind: the scan has interrupted the stale jobs and
\* found none to adopt, and a new job is queued.
QueueNew(k, p, c) ==
    /\ Free(k)
    /\ \A d \in Child : childKind[d] = k => ~Stale(d) /\ ~Adoptable(d, k)
    /\ \A d \in 1 .. (c - 1) : childStatus[d] # "none"
    /\ Ledger!Queue(c, k)
    /\ Lock(k, c)
    /\ starter' = [starter EXCEPT ![c] = p]
    /\ UNCHANGED <<index, indexer>>

SpawnNew(c) ==
    /\ Holds(c)
    /\ Ledger!Spawn(c, Started(starter[c]))
    /\ UNCHANGED <<index, starter, indexer, childLock>>

PublishNew(c) ==
    /\ Holds(c)
    /\ Ledger!Publish(c)
    /\ Lock(childKind[c], 0)
    /\ UNCHANGED <<index, starter, indexer>>

\* A client's own code_index_refresh_start or code_vector_refresh_start.
ClientQueues(k) ==
    /\ "starts" \in World
    /\ \E c \in Child : QueueNew(k, 0, c)
    /\ UNCHANGED <<parents, call>>
ClientSpawns(c) == starter[c] = 0 /\ SpawnNew(c) /\ UNCHANGED <<parents, call>>
ClientPublishes(c) == starter[c] = 0 /\ PublishNew(c) /\ UNCHANGED <<parents, call>>

\* Popen fails or the client dies before it: the job stays queued, with no pid.
ClientAbandons(c) ==
    /\ starter[c] = 0
    /\ Holds(c)
    /\ childStatus[c] = "queued"
    /\ childWork[c] = "none"
    /\ Lock(childKind[c], 0)
    /\ UNCHANGED <<index, childStatus, childKind, childWork, starter, indexer, parents, call>>

\* Any status or start request for a job whose worker is gone.
InterruptChild(c) ==
    /\ Stale(c)
    /\ Free(childKind[c])
    /\ Ledger!Stop(c, "interrupted")
    /\ UNCHANGED <<index, starter, indexer, childLock, parents, call>>

\* cancel of a refresh job: SIGTERM, then the record, under the lock.
KillChild(c) ==
    /\ childStatus[c] \in Active
    /\ ChildAlive(c)
    /\ Free(childKind[c])
    /\ IF childWork[c] = "working"
       THEN Ledger!Die(c, "corpse")
       ELSE UNCHANGED <<childStatus, childKind, childWork>>
    /\ Ends(c)
    /\ Lock(childKind[c], c)
    /\ UNCHANGED <<index, starter>>

RecordKill(c) ==
    /\ Holds(c)
    /\ childStatus[c] = "running"
    /\ Ledger!Stop(c, "cancelled")
    /\ Lock(childKind[c], 0)
    /\ UNCHANGED <<index, starter, indexer>>

ClientKillsChild(c) == "cancels" \in World /\ KillChild(c) /\ UNCHANGED <<parents, call>>
ClientRecordsKill(c) ==
    /\ call.op # "childrecord" \/ call.view.child # c
    /\ RecordKill(c)
    /\ UNCHANGED <<parents, call>>

\* The worker scans the source, publishes what it has scanned, and records the
\* result.  A change it notices before it commits, or (a vector job) an upload that
\* fails, makes it fail with the new rows in the lexical store; a structural job
\* also verifies its index first, a vector job does not.
Works(c) == childWork[c] = "working" /\ childStatus[c] = "running"

ChildScan(c) ==
    /\ Works(c)
    /\ indexer[c].pc = "new"
    /\ indexer' = [indexer EXCEPT ![c] = [pc |-> "scanned", seen |-> source]]
    /\ UNCHANGED <<index, childStatus, childKind, childWork, starter, childLock, parents, call>>

ChildIndex(c) ==
    /\ Works(c)
    /\ indexer[c].pc = "scanned"
    /\ lexical' = indexer[c].seen
    /\ \/ /\ vector' = IF childKind[c] = "vector" THEN indexer[c].seen ELSE vector
          /\ indexer' = [indexer EXCEPT ![c].pc = "indexed"]
       \/ /\ childKind[c] = "vector" \/ indexer[c].seen # source
          /\ vector' = vector
          /\ indexer' = [indexer EXCEPT ![c].pc = "broken"]
    /\ UNCHANGED <<source, childStatus, childKind, childWork, starter, childLock, parents, call>>

ChildResult(c) ==
    IF indexer[c].pc = "indexed" /\ (childKind[c] = "vector" \/ lexical = source)
    THEN "completed"
    ELSE "failed"

ChildFinish(c) ==
    /\ Works(c)
    /\ indexer[c].pc \in {"indexed", "broken"}
    /\ Ledger!Settle(c, ChildResult(c))
    /\ Ends(c)
    /\ UNCHANGED <<index, starter, childLock, parents, call>>

\* The indexer rejected the source or raised.
ChildFail(c) ==
    /\ Works(c)
    /\ Ledger!Settle(c, "failed")
    /\ Ends(c)
    /\ UNCHANGED <<index, starter, childLock, parents, call>>

ChildDies(c) ==
    /\ "kills" \in World
    /\ Works(c)
    /\ Ledger!Die(c, "corpse")
    /\ Ends(c)
    /\ UNCHANGED <<index, starter, childLock, parents, call>>

RegressChild(c) ==
    /\ "copies" \in World
    /\ Ledger!Regress(c)
    /\ Free(childKind[c])
    /\ UNCHANGED <<index, starter, indexer, childLock, parents, call>>

\* Clients run other subprocesses; the children of a preparation worker that has
\* ended belong to init.  A preparation worker that waits reaps nothing.
ReapChildren(p) ==
    /\ p # 0 => work[p] # "working"
    /\ \E c \in Started(p) : childWork[c] = "corpse"
    /\ Ledger!Reap(Started(p))
    /\ UNCHANGED <<index, starter, indexer, childLock, parents, call>>

-----------------------------------------------------------------------------
(* Clients of the preparation jobs, under the preparation lock.            *)

Store(p, rec) == file' = [file EXCEPT ![p] = rec]
Release == call' = Idle
LockFree == call.op = "idle"

StaleParent(p) == file[p].status \in Active /\ ~ParentAlive(p)
SameJob(p, m) == file[p].status \in Active /\ mode[p] = m

\* start: the scan has interrupted every stale job and found none to report as
\* already running.  If no process can be started the job stays queued.
StartParent(m, p) ==
    /\ LockFree
    /\ \A q \in Parent : ~StaleParent(q) /\ ~SameJob(q, m)
    /\ file[p].status = "none"
    /\ \A q \in 1 .. (p - 1) : file[q].status # "none"
    /\ mode' = [mode EXCEPT ![p] = m]
    /\ born' = [born EXCEPT ![p] = source]
    /\ \/ /\ Store(p, [NoRecord EXCEPT !.status = "running"])
          /\ work' = [work EXCEPT ![p] = "working"]
          /\ worker' = [worker EXCEPT ![p].pc = "check"]
       \/ /\ Store(p, [NoRecord EXCEPT !.status = "queued"])
          /\ UNCHANGED <<work, worker>>
    /\ UNCHANGED <<index, children, call>>

\* status and cancel read the state file; nothing comes of a job that has ended.
BeginCall(op, p) ==
    /\ LockFree
    /\ file[p].status \in Active
    /\ call' = [op |-> op, job |-> p, view |-> file[p]]
    /\ UNCHANGED <<index, children, parents>>

\* _refresh_stale_running_state: the worker is gone.
CallStale ==
    /\ call.op \in {"status", "cancel"}
    /\ ~ParentAlive(call.job)
    /\ Store(call.job, [call.view EXCEPT !.status = "interrupted"])
    /\ Release
    /\ UNCHANGED <<index, children, mode, born, work, worker>>

CallAnswer ==
    /\ call.op = "status"
    /\ ParentAlive(call.job)
    /\ Release
    /\ UNCHANGED <<index, children, parents>>

\* cancel first cancels the child the copy names, if it still runs.
CancelChild ==
    /\ call.op = "cancel"
    /\ ParentAlive(call.job)
    /\ call.view.child # 0
    /\ KillChild(call.view.child)
    /\ call' = [call EXCEPT !.op = "childrecord"]
    /\ UNCHANGED parents

CancelNoChild ==
    /\ call.op = "cancel"
    /\ ParentAlive(call.job)
    /\ call.view.child # 0 =>
        /\ Free(childKind[call.view.child])
        /\ childStatus[call.view.child] \notin Active
    /\ call' = [call EXCEPT !.op = "kill"]
    /\ UNCHANGED <<index, children, parents>>

CancelChildRecord ==
    /\ call.op = "childrecord"
    /\ RecordKill(call.view.child)
    /\ call' = [call EXCEPT !.op = "kill"]
    /\ UNCHANGED parents

\* The end of a worker process drops the lock of the child it was starting; that
\* it is not killed between starting that child and publishing it is the
\* assumption RefreshJobs makes of its clients.
WorkerEnds(p) ==
    /\ work' = [work EXCEPT ![p] = "corpse"]
    /\ worker' = [worker EXCEPT ![p] = NoWorker]
    /\ childLock' = IF worker[p].pc = "spawn"
                    THEN [childLock EXCEPT ![worker[p].stage] = 0]
                    ELSE childLock
    /\ UNCHANGED <<index, childStatus, childKind, childWork, starter, indexer, mode, born>>

CancelKill ==
    /\ call.op = "kill"
    /\ worker[call.job].pc # "publish"
    /\ IF work[call.job] = "working"
       THEN WorkerEnds(call.job)
       ELSE UNCHANGED <<index, children, mode, born, work, worker>>
    /\ call' = [call EXCEPT !.op = "record"]
    /\ file' = file

CancelRecord ==
    /\ call.op = "record"
    /\ Store(call.job, [call.view EXCEPT !.status = "cancelled"])
    /\ Release
    /\ UNCHANGED <<index, children, mode, born, work, worker>>

ReapParent(p) ==
    /\ work[p] = "corpse"
    /\ work' = [work EXCEPT ![p] = "ended"]
    /\ UNCHANGED <<index, children, file, mode, born, worker, call>>

-----------------------------------------------------------------------------
(* The parent's worker.  While it lives nobody else writes its state file, *)
(* so that a read and the write that follows it are one step here.         *)

At(p, pc) == work[p] = "working" /\ worker[p].pc = pc
Goto(p, pc) == worker' = [worker EXCEPT ![p].pc = pc]
Leave(p) == worker' = [worker EXCEPT ![p] = [NoWorker EXCEPT !.pc = "exit"]]
Own == <<mode, born, work, call>>

Fail(p, as) ==
    /\ Store(p, [file[p] EXCEPT !.status = as])
    /\ Leave(p)
    /\ UNCHANGED Own

\* The passive index_status: it trusts what is recorded of an index that exists,
\* and never reports a source that is not a Git repository as current.
Check(p) ==
    /\ At(p, "check")
    /\ LET indexed == IF worker[p].stage = "vector" THEN vector ELSE lexical
       IN  \/ indexed # 0 /\ Goto(p, "verify")
           \/ Goto(p, "start")
    /\ UNCHANGED <<file, Own, index, children>>

\* already_running: the job that runs is taken as the child.
Adopt(p) ==
    /\ At(p, "start")
    /\ Free(worker[p].stage)
    /\ \E c \in Child :
        /\ Adoptable(c, worker[p].stage)
        /\ worker' = [worker EXCEPT ![p].pc = "record", ![p].child = c]
    /\ UNCHANGED <<file, Own, index, children>>

Queue(p) ==
    /\ At(p, "start")
    /\ \E c \in Child :
        /\ QueueNew(worker[p].stage, p, c)
        /\ worker' = [worker EXCEPT ![p].pc = "spawn", ![p].child = c]
    /\ UNCHANGED <<file, Own>>

Spawn(p) ==
    /\ At(p, "spawn")
    /\ SpawnNew(worker[p].child)
    /\ Goto(p, "publish")
    /\ UNCHANGED <<file, Own>>

SpawnFails(p) ==
    /\ At(p, "spawn")
    /\ Lock(worker[p].stage, 0)
    /\ Fail(p, "failed")
    /\ UNCHANGED <<index, childStatus, childKind, childWork, starter, indexer>>

Publish(p) ==
    /\ At(p, "publish")
    /\ PublishNew(worker[p].child)
    /\ Goto(p, "record")
    /\ UNCHANGED <<file, Own>>

Record(p) ==
    /\ At(p, "record")
    /\ Store(p, [file[p] EXCEPT !.child = worker[p].child])
    /\ Goto(p, "wait")
    /\ UNCHANGED <<Own, index, children>>

\* Mutant: an answer that the poll came too soon ends the wait.
WaitOnce(p) ==
    /\ At(p, "wait")
    /\ Free(worker[p].stage)
    /\ Goto(p, "verify")
    /\ UNCHANGED <<file, Own, index, children>>

\* Mutant: only a child that settled by itself ends the wait.
WaitForResult(p) ==
    /\ At(p, "wait")
    /\ Free(worker[p].stage)
    /\ \/ /\ childStatus[worker[p].child] = "completed"
          /\ Goto(p, "verify")
          /\ UNCHANGED <<file, Own>>
       \/ /\ childStatus[worker[p].child] = "failed"
          /\ Fail(p, IF worker[p].stage = "vector" THEN "blocked" ELSE "failed")
    /\ UNCHANGED <<index, children>>

\* _wait_child polls until it reads a terminal status of the child.
Wait(p) ==
    /\ At(p, "wait")
    /\ Free(worker[p].stage)
    /\ \/ /\ childStatus[worker[p].child] = "completed"
          /\ Goto(p, "verify")
          /\ UNCHANGED <<file, Own>>
       \/ /\ childStatus[worker[p].child] \in ChildTerminal \ {"completed"}
          /\ Fail(p, IF worker[p].stage = "vector" THEN "blocked" ELSE "failed")
    /\ UNCHANGED <<index, children>>

\* Mutant: the verification accepts whatever index there is.
CurrentIfAny(stage) == lexical # 0 /\ (stage = "vector" => vector # 0)

\* The deep index_status after each stage: what the passive one and the child say
\* is not trusted.
Current(stage) == lexical = source /\ (stage = "vector" => vector = source)

Verify(p) ==
    /\ At(p, "verify")
    /\ \/ /\ Current(worker[p].stage)
          /\ Store(p, [file[p] EXCEPT !.child = 0])
          /\ worker' = [worker EXCEPT
                ![p].child = 0,
                ![p].seen = IF worker[p].stage = "vector" THEN vector ELSE lexical,
                ![p].pc = IF worker[p].stage = "vector" THEN "probe"
                          ELSE IF mode[p] = "local" THEN "ready" ELSE "blockers"]
       \/ /\ ~Current(worker[p].stage)
          /\ Store(p, [file[p] EXCEPT !.child = 0, !.status = "failed"])
          /\ Leave(p)
    /\ UNCHANGED <<Own, index, children>>

\* The configuration is checked again before anything is uploaded.
Blockers(p) ==
    /\ At(p, "blockers")
    /\ \/ /\ worker' = [worker EXCEPT ![p].pc = "check", ![p].stage = "vector"]
          /\ UNCHANGED <<file, Own>>
       \/ Fail(p, "blocked")
    /\ UNCHANGED <<index, children>>

Probe(p) ==
    /\ At(p, "probe")
    /\ \/ Goto(p, "ready") /\ UNCHANGED <<file, Own>>
       \/ Fail(p, "blocked")
    /\ UNCHANGED <<index, children>>

Ready(p) ==
    /\ At(p, "ready")
    /\ Store(p, [file[p] EXCEPT !.status = "completed", !.ready = worker[p].seen])
    /\ Leave(p)
    /\ UNCHANGED <<Own, index, children>>

\* Any exception: index_status, the start and the poll of a child, the probe.
Raise(p) ==
    /\ \E pc \in {"check", "start", "wait", "verify", "blockers", "probe"} : At(p, pc)
    /\ Fail(p, "failed")
    /\ UNCHANGED <<index, children>>

Exit(p) == At(p, "exit") /\ WorkerEnds(p) /\ UNCHANGED <<file, call>>
Crash(p) ==
    /\ work[p] = "working"
    /\ worker[p].pc # "publish"
    /\ WorkerEnds(p)
    /\ UNCHANGED <<file, call>>

-----------------------------------------------------------------------------
ChildStep(c) ==
    \/ ClientSpawns(c)
    \/ ClientPublishes(c)
    \/ InterruptChild(c)
    \/ ClientRecordsKill(c)
    \/ ChildScan(c)
    \/ ChildIndex(c)
    \/ ChildFinish(c)

Holder ==
    \/ CallStale
    \/ CallAnswer
    \/ CancelChild
    \/ CancelNoChild
    \/ CancelChildRecord
    \/ CancelKill
    \/ CancelRecord

WorkerStep(p) ==
    \/ Check(p)
    \/ Adopt(p)
    \/ Queue(p)
    \/ Spawn(p)
    \/ SpawnFails(p)
    \/ Publish(p)
    \/ Record(p)
    \/ Wait(p)
    \/ Verify(p)
    \/ Blockers(p)
    \/ Probe(p)
    \/ Ready(p)
    \/ Exit(p)

Next ==
    \/ Edit
    \/ \E k \in Kind : ClientQueues(k)
    \/ \E c \in Child :
        \/ ChildStep(c)
        \/ ClientAbandons(c)
        \/ ClientKillsChild(c)
        \/ ChildFail(c)
        \/ ChildDies(c)
        \/ RegressChild(c)
    \/ \E p \in 0 .. MaxParents : ReapChildren(p)
    \/ \E p \in Parent :
        \/ \E m \in {"full", "local"} : StartParent(m, p)
        \/ BeginCall("status", p)
        \/ BeginCall("cancel", p)
        \/ WorkerStep(p)
        \/ Raise(p)
        \/ Crash(p)
        \/ ReapParent(p)
    \/ Holder

Spec == Init /\ [][Next]_vars

\* Processes are scheduled, the indexer returns, clients that hold a lock go on,
\* jobs are polled, and processes that outlive their children or run others reap
\* them.  A preparation worker that finds no number left for a child (a bound of
\* the model) fails; nothing else it raises is taken for granted.
Fairness ==
    /\ WF_vars(Holder)
    /\ \A c \in Child : WF_vars(ChildStep(c))
    /\ \A p \in 0 .. MaxParents : WF_vars(ReapChildren(p))
    /\ \A p \in Parent :
        /\ WF_vars(WorkerStep(p))
        /\ WF_vars(At(p, "start") /\ (\A c \in Child : childStatus[c] # "none") /\ Raise(p))
        /\ WF_vars(ReapParent(p))
        /\ WF_vars(BeginCall("status", p))

FairSpec == Spec /\ Fairness

-----------------------------------------------------------------------------
(* Properties.                                                             *)

\* LOCAL_READY and FULL_READY: what the recorded readiness describes is an index
\* of the source as it was when the preparation was started, or later, whatever
\* the passive status claimed, the adopted child had scanned, or others indexed.
ReadyIsRecent ==
    \A p \in Parent : file[p].status = "completed" => file[p].ready >= born[p]

\* A completed preparation leaves no refresh job of its own at work.
CompletedLeavesNoChild ==
    \A p \in Parent : file[p].status = "completed" =>
        \A c \in Started(p) : childWork[c] # "working"

\* cancel "cancels the active child owned by that parent": once it has answered,
\* no child the preparation started goes on working.
CancelledLeavesNoChild ==
    \A p \in Parent : file[p].status = "cancelled" =>
        \A c \in Started(p) : childWork[c] # "working"

\* A preparation that was started comes to an end, and stays at its end, without
\* any model or session: its worker waits for its children itself.
ParentSettles ==
    \A p \in Parent : file[p].status # "none" ~> [](file[p].status \in ParentTerminal)

\* A child on record as active whose worker is dead and not reaped: it looks alive.
Lingers(c) == childStatus[c] \in Active /\ childWork[c] = "corpse"

=============================================================================
