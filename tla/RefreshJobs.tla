----------------------------- MODULE RefreshJobs -----------------------------
(***************************************************************************)
(* The detached refresh jobs of code_index_jobs.py.  (code_vector_jobs.py  *)
(* repeats the same protocol: the same lock, the same scan, the same       *)
(* worker loop.)                                                           *)
(*                                                                         *)
(* A client (an MCP server, the CLI, a repository-preparation worker)      *)
(* starts, inspects and cancels jobs under one flock per project.  The     *)
(* worker it spawns shares the job's state file but never takes the lock:  *)
(* every update on either side is a read of the whole file, a change of    *)
(* the copy, and an atomic replacement of the file.  A read and the write  *)
(* that follows it are therefore two steps here.                           *)
(*                                                                         *)
(* A job has one worker process in its life, so "the recorded pid" is a    *)
(* Boolean: whether the state file holds the pid of the job's worker.      *)
(***************************************************************************)
EXTENDS Naturals

CONSTANTS
    Client,         \* processes that call start, status, active and cancel
    Scope,          \* scope keys: one repository, one source, or all repositories
    MaxJobs,        \* bound: jobs started in one behaviour
    ScopeCount,     \* scopes (repositories or sources) a job works through
    NoClient,       \* nobody: a free lock, a parent that has died
    NoScope,        \* scope of a job not yet started; "no start wanted"
    PromptPublish,  \* timing: start records the pid before the worker has booted
    CrashInPublish, \* a client may die between Popen and recording the pid
    PidReuse        \* the system may hand a dead worker's pid to a stranger

ASSUME JobsAssumption ==
    /\ MaxJobs \in Nat \ {0}
    /\ ScopeCount \in Nat \ {0}
    /\ NoClient \notin Client
    /\ NoScope \notin Scope
    /\ PromptPublish \in BOOLEAN
    /\ CrashInPublish \in BOOLEAN
    /\ PidReuse \in BOOLEAN

VARIABLES
    file,    \* job -> its state file
    scopeOf, \* job -> its scope_key, written once when the job is queued
    lock,    \* the client inside the project's critical section
    call,    \* what that client is doing: [op, scope, job]
    view,    \* job -> the copy of its state that client has read
    proc,    \* job -> the process that has or had the worker's pid
    parent,  \* job -> the client that has to reap the worker
    worker   \* job -> the worker's control state

vars == <<file, scopeOf, lock, call, view, proc, parent, worker>>

-----------------------------------------------------------------------------
(* Data.                                                                   *)

JobNumber == 1 .. MaxJobs

\* Jobs are numbered in the order of created_at, so "latest first" is descending.
Active == {"queued", "running"}
Terminal == {"completed", "failed", "cancelled", "interrupted"}

\* polled: a status request was accepted, so the next one may come too soon.
Record == [status : {"none"} \union Active \union Terminal,
           pid : BOOLEAN,
           done : 0 .. ScopeCount,
           polled : BOOLEAN]

NoRecord == [status |-> "none", pid |-> FALSE, done |-> 0, polled |-> FALSE]
QueuedRecord == [NoRecord EXCEPT !.status = "queued"]
NoFiles == [j \in JobNumber |-> NoRecord]

Idle == [op |-> "idle", scope |-> NoScope, job |-> 0]

\* "read" and "write" are _update_progress; next is where it returns to.
Pc == {"none", "boot", "begin", "beginW", "read", "write", "index",
       "resultW", "finalW", "failW", "exit"}

Worker == [pc : Pc,
           next : {"none", "index", "begin"},
           idx : 0 .. ScopeCount,
           bad : BOOLEAN,
           snap : Record]

NoWorker == [pc |-> "none", next |-> "none", idx |-> 0, bad |-> FALSE, snap |-> NoRecord]

\* _pid_alive: signal 0 reaches a live process, an unreaped one, and whoever
\* else was given the pid; a state file without a pid never looks alive.
Alive(rec, j) == rec.pid /\ proc[j] \in {"live", "zombie", "reused"}

\* Mutant: a job without a pid is left alone.
StaleWithPid(rec, j) == rec.status \in Active /\ rec.pid /\ ~Alive(rec, j)

\* _refresh_stale_running_state rewrites exactly these copies.
Stale(rec, j) == rec.status \in Active /\ ~Alive(rec, j)
Interrupted(rec) == [rec EXCEPT !.status = "interrupted"]

\* A worker process that still has work to do.
Working(j) == proc[j] = "live" /\ worker[j].pc # "exit"

\* What remains of a worker when it dies: a zombie until its parent reaps it.
Corpse(j) == IF parent[j] = NoClient THEN "gone" ELSE "zombie"

-----------------------------------------------------------------------------
Init ==
    /\ file = NoFiles
    /\ scopeOf = [j \in JobNumber |-> NoScope]
    /\ lock = NoClient
    /\ call = Idle
    /\ view = NoFiles
    /\ proc = [j \in JobNumber |-> "none"]
    /\ parent = [j \in JobNumber |-> NoClient]
    /\ worker = [j \in JobNumber |-> NoWorker]

-----------------------------------------------------------------------------
(* Clients: everything between acquiring and releasing the project lock.   *)

Release ==
    /\ lock' = NoClient
    /\ call' = Idle
    /\ view' = NoFiles

Store(j, rec) == file' = [file EXCEPT ![j] = rec]

\* start (s \in Scope) and active (s = NoScope) take the lock and read every
\* state file; the scan then runs from the latest job down.
BeginScan(c, s) ==
    /\ lock = NoClient
    /\ s = NoScope \/ \E j \in JobNumber : file[j].status = "none"
    /\ lock' = c
    /\ call' = [op |-> "scan", scope |-> s, job |-> MaxJobs]
    /\ view' = file
    /\ UNCHANGED <<file, scopeOf, proc, parent, worker>>

\* Mutant: only a queued job blocks a new one.
AdoptableQueued(j) ==
    /\ view[j].status = "queued"
    /\ Alive(view[j], j)
    /\ scopeOf[j] = call.scope

\* The scanned job blocks a new one: same scope, and active after the refresh.
Adoptable(j) ==
    /\ view[j].status \in Active
    /\ Alive(view[j], j)
    /\ scopeOf[j] = call.scope

ScanPass ==
    /\ call.op = "scan"
    /\ call.job \in JobNumber
    /\ ~Adoptable(call.job)
    /\ IF Stale(view[call.job], call.job)
       THEN Store(call.job, Interrupted(view[call.job]))
       ELSE file' = file
    /\ call' = [call EXCEPT !.job = @ - 1]
    /\ UNCHANGED <<scopeOf, lock, view, proc, parent, worker>>

\* start finds a running job for its scope and answers already_running.
ScanAdopt ==
    /\ call.op = "scan"
    /\ call.job \in JobNumber
    /\ Adoptable(call.job)
    /\ Release
    /\ UNCHANGED <<file, scopeOf, proc, parent, worker>>

\* active has refreshed every job and answers.
ScanEnd ==
    /\ call.op = "scan"
    /\ call.job = 0
    /\ call.scope = NoScope
    /\ Release
    /\ UNCHANGED <<file, scopeOf, proc, parent, worker>>

StartQueue ==
    /\ call.op = "scan"
    /\ call.job = 0
    /\ call.scope # NoScope
    /\ \E j \in JobNumber :
        /\ file[j].status = "none"
        /\ \A k \in 1 .. (j - 1) : file[k].status # "none"
        /\ Store(j, QueuedRecord)
        /\ scopeOf' = [scopeOf EXCEPT ![j] = call.scope]
        /\ call' = [call EXCEPT !.op = "spawn", !.job = j]
    /\ UNCHANGED <<lock, view, proc, parent, worker>>

\* Popen: the caller first reaps its own dead children (subprocess._cleanup).
StartSpawn ==
    /\ call.op = "spawn"
    /\ proc' = [j \in JobNumber |->
                    CASE j = call.job -> "live"
                      [] j # call.job /\ proc[j] = "zombie" /\ parent[j] = lock -> "gone"
                      [] OTHER -> proc[j]]
    /\ parent' = [parent EXCEPT ![call.job] = lock]
    /\ worker' = [worker EXCEPT ![call.job].pc = "boot"]
    /\ call' = [call EXCEPT !.op = "publish"]
    /\ UNCHANGED <<file, scopeOf, lock, view>>

\* Opening the log or forking fails: the exception leaves the job queued.
StartSpawnFails ==
    /\ call.op = "spawn"
    /\ Release
    /\ UNCHANGED <<file, scopeOf, proc, parent, worker>>

\* start writes the queued state it still holds in memory, now with the pid.
StartPublish ==
    /\ call.op = "publish"
    /\ Store(call.job, [QueuedRecord EXCEPT !.status = "running", !.pid = TRUE])
    /\ Release
    /\ UNCHANGED <<scopeOf, proc, parent, worker>>

BeginCall(c, op, j) ==
    /\ lock = NoClient
    /\ file[j].status # "none"
    /\ lock' = c
    /\ call' = [op |-> op, scope |-> NoScope, job |-> j]
    /\ view' = [NoFiles EXCEPT ![j] = file[j]]
    /\ UNCHANGED <<file, scopeOf, proc, parent, worker>>

\* _refresh_stale_running_state finds the worker gone: status and cancel record
\* that and answer.
CallStale ==
    /\ call.op \in {"status", "cancel"}
    /\ Stale(view[call.job], call.job)
    /\ Store(call.job, Interrupted(view[call.job]))
    /\ Release
    /\ UNCHANGED <<scopeOf, proc, parent, worker>>

\* A job that has ended, or (status only) a poll that came too soon.
CallAnswer ==
    /\ \/ /\ call.op \in {"status", "cancel"}
          /\ view[call.job].status \notin Active
       \/ /\ call.op = "status"
          /\ view[call.job].polled
          /\ Alive(view[call.job], call.job)
    /\ Release
    /\ UNCHANGED <<file, scopeOf, proc, parent, worker>>

\* The worker is found alive; what follows acts on that answer.
CallAlive ==
    /\ call.op \in {"status", "cancel"}
    /\ view[call.job].status \in Active
    /\ Alive(view[call.job], call.job)
    /\ call' = [call EXCEPT !.op = IF @ = "status" THEN "poll" ELSE "kill"]
    /\ UNCHANGED <<file, scopeOf, lock, view, proc, parent, worker>>

\* An accepted poll writes the copy back with the time of the request.
StatusPoll ==
    /\ call.op = "poll"
    /\ Store(call.job, [view[call.job] EXCEPT !.polled = TRUE])
    /\ Release
    /\ UNCHANGED <<scopeOf, proc, parent, worker>>

\* Mutant: the worker is not sent the signal.
CancelWithoutKill ==
    /\ call.op = "kill"
    /\ call' = [call EXCEPT !.op = "record"]
    /\ UNCHANGED <<file, scopeOf, lock, view, proc, parent, worker>>

\* os.kill(pid, SIGTERM): the worker has no handler and dies at once; a corpse
\* does not notice, and a stranger with that pid is hit instead.
CancelKill ==
    /\ call.op = "kill"
    /\ proc' = [proc EXCEPT ![call.job] =
                    CASE @ = "live" -> Corpse(call.job)
                      [] @ = "reused" -> "gone"
                      [] OTHER -> @]
    /\ worker' = [worker EXCEPT ![call.job] = NoWorker]
    /\ call' = [call EXCEPT !.op = "record"]
    /\ UNCHANGED <<file, scopeOf, lock, view, parent>>

\* The stranger belongs to another user: PermissionError leaves cancel.
CancelDenied ==
    /\ call.op = "kill"
    /\ proc[call.job] = "reused"
    /\ Release
    /\ UNCHANGED <<file, scopeOf, proc, parent, worker>>

CancelRecord ==
    /\ call.op = "record"
    /\ Store(call.job, [view[call.job] EXCEPT !.status = "cancelled"])
    /\ Release
    /\ UNCHANGED <<scopeOf, proc, parent, worker>>

\* Any other subprocess a client runs reaps its dead workers.
Reap(c) ==
    /\ \E j \in JobNumber : proc[j] = "zombie" /\ parent[j] = c
    /\ proc' = [j \in JobNumber |-> IF proc[j] = "zombie" /\ parent[j] = c THEN "gone" ELSE proc[j]]
    /\ UNCHANGED <<file, scopeOf, lock, call, view, parent, worker>>

\* A client dies: the kernel drops its flock, init adopts its children.
ClientCrash(c) ==
    /\ lock = c \/ \E j \in JobNumber : parent[j] = c
    /\ lock = c /\ call.op = "publish" => CrashInPublish
    /\ IF lock = c THEN Release ELSE UNCHANGED <<lock, call, view>>
    /\ proc' = [j \in JobNumber |-> IF proc[j] = "zombie" /\ parent[j] = c THEN "gone" ELSE proc[j]]
    /\ parent' = [j \in JobNumber |-> IF parent[j] = c THEN NoClient ELSE parent[j]]
    /\ UNCHANGED <<file, scopeOf, worker>>

-----------------------------------------------------------------------------
(* Workers: no lock is ever taken.                                         *)

Goto(j, pc) == worker' = [worker EXCEPT ![j].pc = pc, ![j].snap = NoRecord]
Read(j, pc) == worker' = [worker EXCEPT ![j].pc = pc, ![j].snap = file[j]]
Report(j, next) ==
    worker' = [worker EXCEPT ![j].pc = "read", ![j].next = next, ![j].snap = NoRecord]

At(j, pc) == proc[j] = "live" /\ worker[j].pc = pc

\* The interpreter has started and the worker has read which scopes to refresh.
WorkerBoot(j) ==
    /\ At(j, "boot")
    /\ PromptPublish => ~(call.op = "publish" /\ call.job = j)
    /\ Goto(j, "begin")
    /\ UNCHANGED <<file, scopeOf, lock, call, view, proc, parent>>

\* The next scope, unless the job has been cancelled meanwhile.
WorkerBegin(j) ==
    /\ At(j, "begin")
    /\ worker[j].idx < ScopeCount
    /\ IF file[j].status = "cancelled" THEN Goto(j, "exit") ELSE Read(j, "beginW")
    /\ UNCHANGED <<file, scopeOf, lock, call, view, proc, parent>>

WorkerBeginWrite(j) ==
    /\ At(j, "beginW")
    /\ Store(j, [worker[j].snap EXCEPT !.status = "running", !.done = worker[j].idx])
    /\ Report(j, "index")
    /\ UNCHANGED <<scopeOf, lock, call, view, proc, parent>>

\* _update_progress, which leaves a cancelled job alone.
WorkerReport(j) ==
    /\ At(j, "read")
    /\ IF file[j].status = "cancelled" THEN Goto(j, worker[j].next) ELSE Read(j, "write")
    /\ UNCHANGED <<file, scopeOf, lock, call, view, proc, parent>>

WorkerReportWrite(j) ==
    /\ At(j, "write")
    /\ Store(j, worker[j].snap)
    /\ Goto(j, worker[j].next)
    /\ UNCHANGED <<scopeOf, lock, call, view, proc, parent>>

\* The indexer calls progress_callback.
WorkerCallback(j) ==
    /\ At(j, "index")
    /\ Report(j, "index")
    /\ UNCHANGED <<file, scopeOf, lock, call, view, proc, parent>>

\* index_project_code and the deep index_status after it have returned; the
\* state is read again before the result is published.
WorkerIndexed(j) ==
    /\ At(j, "index")
    /\ \E bad \in BOOLEAN :
        worker' = [worker EXCEPT ![j].pc = "resultW", ![j].snap = file[j],
                                 ![j].bad = @ \/ bad]
    /\ UNCHANGED <<file, scopeOf, lock, call, view, proc, parent>>

WorkerResultWrite(j) ==
    /\ At(j, "resultW")
    /\ Store(j, [worker[j].snap EXCEPT !.done = worker[j].idx + 1])
    /\ worker' = [worker EXCEPT ![j].pc = "read", ![j].next = "begin",
                                ![j].snap = NoRecord, ![j].idx = @ + 1]
    /\ UNCHANGED <<scopeOf, lock, call, view, proc, parent>>

\* The indexer raised: the handler reads the state and leaves a cancelled job alone.
WorkerRaise(j) ==
    /\ At(j, "index")
    /\ IF file[j].status = "cancelled" THEN Goto(j, "exit") ELSE Read(j, "failW")
    /\ UNCHANGED <<file, scopeOf, lock, call, view, proc, parent>>

WorkerFailWrite(j) ==
    /\ At(j, "failW")
    /\ Store(j, [worker[j].snap EXCEPT !.status = "failed"])
    /\ Goto(j, "exit")
    /\ UNCHANGED <<scopeOf, lock, call, view, proc, parent>>

\* All scopes done: the final status is written whatever the state says.
WorkerFinish(j) ==
    /\ At(j, "begin")
    /\ worker[j].idx = ScopeCount
    /\ Read(j, "finalW")
    /\ UNCHANGED <<file, scopeOf, lock, call, view, proc, parent>>

WorkerFinalWrite(j) ==
    /\ At(j, "finalW")
    /\ Store(j, [worker[j].snap EXCEPT !.status = IF worker[j].bad THEN "failed" ELSE "completed",
                                       !.done = ScopeCount])
    /\ Goto(j, "exit")
    /\ UNCHANGED <<scopeOf, lock, call, view, proc, parent>>

\* The process ends: regularly, or killed at any point (WorkerCrash).
WorkerEnd(j) ==
    /\ proc' = [proc EXCEPT ![j] = Corpse(j)]
    /\ worker' = [worker EXCEPT ![j] = NoWorker]
    /\ UNCHANGED <<file, scopeOf, lock, call, view, parent>>

WorkerExit(j) == At(j, "exit") /\ WorkerEnd(j)
WorkerCrash(j) == Working(j) /\ WorkerEnd(j)

\* The system gives a reaped pid to another process.
ReusePid(j) ==
    /\ PidReuse
    /\ proc[j] = "gone"
    /\ proc' = [proc EXCEPT ![j] = "reused"]
    /\ UNCHANGED <<file, scopeOf, lock, call, view, parent, worker>>

-----------------------------------------------------------------------------
Holder ==
    \/ ScanPass
    \/ ScanAdopt
    \/ ScanEnd
    \/ StartQueue
    \/ StartSpawn
    \/ StartSpawnFails
    \/ StartPublish
    \/ CallStale
    \/ CallAnswer
    \/ CallAlive
    \/ StatusPoll
    \/ CancelKill
    \/ CancelDenied
    \/ CancelRecord

WorkerStep(j) ==
    \/ WorkerBoot(j)
    \/ WorkerBegin(j)
    \/ WorkerBeginWrite(j)
    \/ WorkerReport(j)
    \/ WorkerReportWrite(j)
    \/ WorkerCallback(j)
    \/ WorkerIndexed(j)
    \/ WorkerResultWrite(j)
    \/ WorkerRaise(j)
    \/ WorkerFailWrite(j)
    \/ WorkerFinish(j)
    \/ WorkerFinalWrite(j)
    \/ WorkerExit(j)

Next ==
    \/ \E c \in Client, s \in Scope \union {NoScope} : BeginScan(c, s)
    \/ \E c \in Client, j \in JobNumber : BeginCall(c, "status", j) \/ BeginCall(c, "cancel", j)
    \/ Holder
    \/ \E c \in Client : Reap(c) \/ ClientCrash(c)
    \/ \E j \in JobNumber : WorkerStep(j) \/ WorkerCrash(j) \/ ReusePid(j)

Spec == Init /\ [][Next]_vars

\* The callers poll (the continuity plugin re-arms a timer while a job runs) and
\* keep running other subprocesses; a scheduled process runs; the indexer
\* returns; clients do not for ever die between finding a dead worker and
\* recording it.
Fairness ==
    /\ WF_vars(Holder)
    /\ \A j \in JobNumber :
        /\ WF_vars(WorkerStep(j))
        /\ SF_vars(WorkerIndexed(j) \/ WorkerRaise(j))
        /\ SF_vars(\E c \in Client : BeginCall(c, "status", j))
        /\ SF_vars(call.job = j /\ CallStale)
    /\ \A c \in Client : WF_vars(Reap(c))

FairSpec == Spec /\ Fairness

-----------------------------------------------------------------------------
(* Properties.                                                             *)

TypeOK ==
    /\ file \in [JobNumber -> Record]
    /\ scopeOf \in [JobNumber -> Scope \union {NoScope}]
    /\ lock \in Client \union {NoClient}
    /\ call \in [op : {"idle", "scan", "spawn", "publish",
                        "status", "cancel", "poll", "kill", "record"},
                 scope : Scope \union {NoScope},
                 job : 0 .. MaxJobs]
    /\ view \in [JobNumber -> Record]
    /\ proc \in [JobNumber -> {"none", "live", "zombie", "gone", "reused"}]
    /\ parent \in [JobNumber -> Client \union {NoClient}]
    /\ worker \in [JobNumber -> Worker]

\* Two workers never index the same scope at the same time: start adopts the
\* running job instead (the already_running answer of start).
OneWorkerPerScope ==
    \A i, j \in JobNumber : Working(i) /\ Working(j) /\ scopeOf[i] = scopeOf[j] => i = j

\* Once start has recorded the pid, a working job is on record as running with
\* that pid whatever stale copies clients write back, so that start can adopt it
\* and cancel can reach it.
LiveWorkerVisible ==
    \A j \in JobNumber :
        Working(j) /\ ~(call.op = "publish" /\ call.job = j)
            => file[j].status = "running" /\ file[j].pid

\* A job is called interrupted or cancelled only when its worker works no more.
StoppedMeansStopped ==
    \A j \in JobNumber : file[j].status \in {"interrupted", "cancelled"} => ~Working(j)

\* A cancelled or interrupted job stays so: neither the unlocked worker nor a
\* client with an older copy brings it back (cancel kills before it writes).
StoppedIsFinal ==
    [][\A j \in JobNumber : file[j].status \in {"interrupted", "cancelled"}
            => file'[j].status = file[j].status]_vars

\* The protocol implements the ledger its callers rely on.
Ledger == INSTANCE JobLedger WITH
    Job <- JobNumber,
    status <- [j \in JobNumber |-> file[j].status],
    scope <- scopeOf,
    work <- [j \in JobNumber |-> CASE Working(j) -> "working"
                             [] proc[j] = "none" -> "none"
                             [] proc[j] \in {"gone", "reused"} -> "ended"
                             [] OTHER -> "corpse"]

LedgerSpec == Ledger!Spec

\* Every job that was started is eventually, and then for good, on record with
\* a terminal status, although a status request can undo a result.
EventuallySettled ==
    \A j \in JobNumber : file[j].status # "none" ~> [](file[j].status \in Terminal)

\* The reason _refresh_stale_running_state records with "interrupted": the worker
\* stopped before a terminal result was recorded.
InterruptedHadNoResult ==
    [][\A j \in JobNumber : file'[j].status = "interrupted"
            => file[j].status \notin {"completed", "failed"}]_vars

=============================================================================
