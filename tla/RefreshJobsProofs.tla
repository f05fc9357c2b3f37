-------------------------- MODULE RefreshJobsProofs --------------------------
(***************************************************************************)
(* Theorems about RefreshJobs, for every number of clients, scopes, jobs   *)
(* and scopes per job.                                                     *)
(***************************************************************************)
EXTENDS RefreshJobs, TLAPS

-----------------------------------------------------------------------------
(* Types.                                                                  *)

\* The records the code writes are records.
LEMMA NoRecordType == NoRecord \in Record
  BY JobsAssumption DEF NoRecord, Record

LEMMA NoFilesType == NoFiles \in [JobNumber -> Record]
  BY NoRecordType DEF NoFiles

LEMMA StatusType ==
    ASSUME NEW rec \in Record, NEW s \in Active \union Terminal
    PROVE  [rec EXCEPT !.status = s] \in Record
  BY DEF Record

LEMMA PolledType ==
    ASSUME NEW rec \in Record
    PROVE  [rec EXCEPT !.polled = TRUE] \in Record
  BY DEF Record

LEMMA DoneType ==
    ASSUME NEW rec \in Record, NEW n \in 0 .. ScopeCount
    PROVE  [rec EXCEPT !.done = n] \in Record
  BY DEF Record

LEMMA QueuedType == QueuedRecord \in Record
  BY NoRecordType, StatusType DEF QueuedRecord, Active

LEMMA PublishedType == [QueuedRecord EXCEPT !.status = "running", !.pid = TRUE] \in Record
  BY QueuedType DEF Record, Active

LEMMA BeginType ==
    ASSUME NEW rec \in Record, NEW s \in Active \union Terminal, NEW n \in 0 .. ScopeCount
    PROVE  [rec EXCEPT !.status = s, !.done = n] \in Record
  BY DEF Record

LEMMA NoWorkerType == NoWorker \in Worker
  BY JobsAssumption, NoRecordType DEF NoWorker, Worker, Pc

\* Replacing one state file by a record keeps them all records.
LEMMA StoreType ==
    ASSUME file \in [JobNumber -> Record], NEW j \in JobNumber, NEW rec \in Record, Store(j, rec)
    PROVE  file' \in [JobNumber -> Record]
  BY DEF Store

LEMMA ReleaseType ==
    ASSUME Release
    PROVE  /\ lock' \in Client \union {NoClient}
           /\ call' \in [op : {"idle", "scan", "spawn", "publish",
                               "status", "cancel", "poll", "kill", "record"},
                         scope : Scope \union {NoScope},
                         job : 0 .. MaxJobs]
           /\ view' \in [JobNumber -> Record]
  BY JobsAssumption, NoFilesType DEF Release, Idle

\* The ways a worker moves.
LEMMA MoveType ==
    ASSUME worker \in [JobNumber -> Worker], file \in [JobNumber -> Record], NEW j \in JobNumber, NEW pc \in Pc,
           Goto(j, pc) \/ Read(j, pc)
    PROVE  worker' \in [JobNumber -> Worker]
  BY NoRecordType DEF Goto, Read, Worker

LEMMA ReportType ==
    ASSUME worker \in [JobNumber -> Worker], NEW j \in JobNumber, NEW next \in {"none", "index", "begin"},
           Report(j, next)
    PROVE  worker' \in [JobNumber -> Worker]
  <1> DEFINE w == [worker[j] EXCEPT !.pc = "read", !.next = next, !.snap = NoRecord]
  <1>1. w \in Worker
    BY NoRecordType DEF Worker, Pc
  <1>2. worker' = [worker EXCEPT ![j] = w]
    BY DEF Report
  <1> QED
    BY <1>1, <1>2

LEMMA WorkerFields ==
    ASSUME NEW w \in Worker
    PROVE  /\ w.snap \in Record
           /\ w.idx \in 0 .. ScopeCount
           /\ w.next \in Pc
  BY DEF Worker, Pc

\* TypeOK alone is not inductive: that the worker counts no scope twice rests on
\* where it is in its loop.
InScope(j) ==
    \/ worker[j].pc \in {"beginW", "index", "resultW", "failW"}
    \/ worker[j].pc \in {"read", "write"} /\ worker[j].next = "index"

LoopOK == \A j \in JobNumber : InScope(j) => worker[j].idx < ScopeCount

TypeInv == TypeOK /\ LoopOK

LEMMA TypeInit == Init => TypeInv
  BY JobsAssumption, NoFilesType, NoWorkerType
  DEF Init, TypeInv, TypeOK, LoopOK, InScope, NoWorker, Idle

LEMMA TypeHolder == TypeOK /\ Holder => TypeOK'
  <1> SUFFICES ASSUME TypeOK, Holder PROVE TypeOK'
    OBVIOUS
  <1> USE JobsAssumption DEF TypeOK
  <1>1. CASE ScanPass
    <2>1. file' \in [JobNumber -> Record]
      BY <1>1, StatusType, StoreType DEF ScanPass, Interrupted, Terminal
    <2>2. call' = [call EXCEPT !.job = call.job - 1] /\ call.job - 1 \in 0 .. MaxJobs
      BY <1>1 DEF ScanPass, JobNumber
    <2> QED
      BY <1>1, <2>1, <2>2 DEF ScanPass
  <1>2. CASE ScanAdopt
    BY <1>2, ReleaseType DEF ScanAdopt
  <1>3. CASE ScanEnd
    BY <1>3, ReleaseType DEF ScanEnd
  <1>4. CASE StartQueue
    <2>1. PICK j \in JobNumber : /\ Store(j, QueuedRecord)
                           /\ scopeOf' = [scopeOf EXCEPT ![j] = call.scope]
                           /\ call' = [call EXCEPT !.op = "spawn", !.job = j]
      BY <1>4 DEF StartQueue
    <2>2. file' \in [JobNumber -> Record]
      BY <2>1, QueuedType, StoreType
    <2>3. j \in 0 .. MaxJobs
      BY DEF JobNumber
    <2>4. scopeOf' \in [JobNumber -> Scope \union {NoScope}]
      BY <2>1
    <2> QED
      BY <1>4, <2>1, <2>2, <2>3, <2>4 DEF StartQueue
  <1>5. CASE StartSpawn
    <2>1. call.job \in JobNumber => [worker[call.job] EXCEPT !.pc = "boot"] \in Worker
      BY DEF Worker, Pc
    <2>2. worker' \in [JobNumber -> Worker]
      BY <1>5, <2>1 DEF StartSpawn
    <2>3. proc' \in [JobNumber -> {"none", "live", "zombie", "gone", "reused"}]
      BY <1>5 DEF StartSpawn
    <2> QED
      BY <1>5, <2>2, <2>3 DEF StartSpawn
  <1>6. CASE StartSpawnFails
    BY <1>6, ReleaseType DEF StartSpawnFails
  <1>7. CASE StartPublish
    BY <1>7, PublishedType, ReleaseType DEF StartPublish, Store
  <1>8. CASE CallStale
    BY <1>8, StatusType, ReleaseType DEF CallStale, Store, Interrupted, Terminal
  <1>9. CASE CallAnswer
    BY <1>9, ReleaseType DEF CallAnswer
  <1>10. CASE CallAlive
    BY <1>10 DEF CallAlive
  <1>11. CASE StatusPoll
    BY <1>11, PolledType, ReleaseType DEF StatusPoll, Store
  <1>12. CASE CancelKill
    BY <1>12, NoWorkerType DEF CancelKill, Corpse
  <1>13. CASE CancelDenied
    BY <1>13, ReleaseType DEF CancelDenied
  <1>14. CASE CancelRecord
    BY <1>14, StatusType, ReleaseType DEF CancelRecord, Store, Terminal
  <1> QED
    BY <1>1, <1>2, <1>3, <1>4, <1>5, <1>6, <1>7, <1>8, <1>9, <1>10, <1>11, <1>12, <1>13, <1>14
    DEF Holder

LEMMA TypeWorker == ASSUME TypeInv, NEW j \in JobNumber, WorkerStep(j) PROVE TypeOK'
  <1> USE DEF TypeOK, TypeInv
  <1>0. worker[j] \in Worker
    OBVIOUS
  <1>1. CASE WorkerBoot(j)
    BY <1>1, MoveType DEF WorkerBoot, Pc
  <1>2. CASE WorkerBegin(j)
    BY <1>2, MoveType DEF WorkerBegin, Pc
  <1>3. CASE WorkerBeginWrite(j)
    BY <1>0, <1>3, WorkerFields, BeginType, StoreType, ReportType DEF WorkerBeginWrite, Active
  <1>4. CASE WorkerReport(j)
    BY <1>0, <1>4, WorkerFields, MoveType DEF WorkerReport, Pc
  <1>5. CASE WorkerReportWrite(j)
    BY <1>0, <1>5, WorkerFields, StoreType, MoveType DEF WorkerReportWrite
  <1>6. CASE WorkerCallback(j)
    BY <1>6, ReportType DEF WorkerCallback
  <1>7. CASE WorkerIndexed(j)
    <2>1. PICK bad \in BOOLEAN :
            worker' = [worker EXCEPT ![j] = [@ EXCEPT !.pc = "resultW", !.snap = file[j],
                                                      !.bad = worker[j].bad \/ bad]]
      BY <1>7 DEF WorkerIndexed
    <2>2. (worker[j].bad \/ bad) \in BOOLEAN
      OBVIOUS
    <2>3. \A b \in BOOLEAN :
            [worker[j] EXCEPT !.pc = "resultW", !.snap = file[j], !.bad = b] \in Worker
      BY ZenonT(60) DEF Worker, Pc
    <2>4. [worker[j] EXCEPT !.pc = "resultW", !.snap = file[j], !.bad = worker[j].bad \/ bad] \in Worker
      BY <2>2, <2>3
    <2> QED
      BY <1>7, <2>1, <2>4 DEF WorkerIndexed
  <1>8. CASE WorkerResultWrite(j)
    <2>1. worker[j].idx + 1 \in 0 .. ScopeCount
      BY <1>0, <1>8, JobsAssumption, WorkerFields
      DEF WorkerResultWrite, At, LoopOK, InScope
    <2>2. file' \in [JobNumber -> Record]
      BY <1>0, <1>8, <2>1, WorkerFields, DoneType, StoreType DEF WorkerResultWrite
    <2>3. worker' \in [JobNumber -> Worker]
      BY <1>0, <1>8, <2>1, NoRecordType DEF WorkerResultWrite, Worker, Pc
    <2> QED
      BY <1>8, <2>2, <2>3 DEF WorkerResultWrite
  <1>9. CASE WorkerRaise(j)
    BY <1>9, MoveType DEF WorkerRaise, Pc
  <1>10. CASE WorkerFailWrite(j)
    BY <1>0, <1>10, WorkerFields, StatusType, StoreType, MoveType DEF WorkerFailWrite, Pc, Terminal
  <1>11. CASE WorkerFinish(j)
    BY <1>11, MoveType DEF WorkerFinish, Pc
  <1>12. CASE WorkerFinalWrite(j)
    <2>1. /\ ScopeCount \in 0 .. ScopeCount
          /\ (IF worker[j].bad THEN "failed" ELSE "completed") \in Active \union Terminal
      BY JobsAssumption DEF Terminal
    <2>2. file' \in [JobNumber -> Record]
      BY <1>0, <1>12, <2>1, WorkerFields, BeginType DEF WorkerFinalWrite, Store
    <2>3. worker' \in [JobNumber -> Worker]
      BY <1>12, MoveType DEF WorkerFinalWrite, Pc
    <2> QED
      BY <1>12, <2>2, <2>3 DEF WorkerFinalWrite
  <1>13. CASE WorkerExit(j)
    BY <1>13, NoWorkerType DEF WorkerExit, WorkerEnd, Corpse
  <1> QED
    BY <1>1, <1>2, <1>3, <1>4, <1>5, <1>6, <1>7, <1>8, <1>9, <1>10, <1>11, <1>12, <1>13
    DEF WorkerStep

\* The worker's own steps keep its loop index below the number of scopes.
LEMMA LoopWorker == ASSUME TypeInv, NEW j \in JobNumber, WorkerStep(j) PROVE LoopOK'
  <1> USE DEF LoopOK, InScope, At, Goto, Read, Report
  <1>0. /\ worker \in [JobNumber -> Worker]
        /\ \A k \in JobNumber : InScope(k) => worker[k].idx < ScopeCount
        /\ worker[j].idx \in 0 .. ScopeCount
        /\ worker[j].next \in {"none", "index", "begin"}
    BY DEF TypeInv, TypeOK, Worker
  <1>1. CASE WorkerBoot(j)
    BY <1>0, <1>1 DEF WorkerBoot, Worker
  <1>2. CASE WorkerBegin(j)
    BY <1>0, <1>2 DEF WorkerBegin, Worker
  <1>3. CASE WorkerBeginWrite(j)
    BY <1>0, <1>3 DEF WorkerBeginWrite, Worker
  <1>4. CASE WorkerReport(j)
    BY <1>0, <1>4 DEF WorkerReport, Worker
  <1>5. CASE WorkerReportWrite(j)
    BY <1>0, <1>5 DEF WorkerReportWrite, Worker
  <1>6. CASE WorkerCallback(j)
    BY <1>0, <1>6 DEF WorkerCallback, Worker
  <1>7. CASE WorkerIndexed(j)
    BY <1>0, <1>7 DEF WorkerIndexed, Worker
  <1>8. CASE WorkerResultWrite(j)
    BY <1>0, <1>8 DEF WorkerResultWrite, Worker
  <1>9. CASE WorkerRaise(j)
    BY <1>0, <1>9 DEF WorkerRaise, Worker
  <1>10. CASE WorkerFailWrite(j)
    BY <1>0, <1>10 DEF WorkerFailWrite, Worker
  <1>11. CASE WorkerFinish(j)
    BY <1>0, <1>11 DEF WorkerFinish, Worker
  <1>12. CASE WorkerFinalWrite(j)
    BY <1>0, <1>12 DEF WorkerFinalWrite, Worker
  <1>13. CASE WorkerExit(j)
    BY <1>0, <1>13 DEF WorkerExit, WorkerEnd, NoWorker
  <1> QED
    BY <1>1, <1>2, <1>3, <1>4, <1>5, <1>6, <1>7, <1>8, <1>9, <1>10, <1>11, <1>12, <1>13
    DEF WorkerStep

\* A client does not move a worker's loop: it starts it or ends it.
LEMMA LoopHolder == TypeInv /\ Holder => LoopOK'
  <1> SUFFICES ASSUME TypeInv, Holder PROVE LoopOK'
    OBVIOUS
  <1> USE DEF LoopOK, InScope, TypeInv, TypeOK
  <1>1. CASE StartSpawn
    BY <1>1 DEF StartSpawn, Worker
  <1>2. CASE CancelKill
    BY <1>2 DEF CancelKill, NoWorker
  <1>3. CASE UNCHANGED worker
    BY <1>3
  <1> QED
    BY <1>1, <1>2, <1>3
    DEF Holder, ScanPass, ScanAdopt, ScanEnd, StartQueue, StartSpawnFails, StartPublish,
        CallStale, CallAnswer, CallAlive, StatusPoll, CancelDenied, CancelRecord

LEMMA TypeNext == TypeInv /\ [Next]_vars => TypeInv'
  <1> SUFFICES ASSUME TypeInv, [Next]_vars PROVE TypeInv'
    OBVIOUS
  <1> USE JobsAssumption DEF TypeInv, TypeOK
  <1>1. ASSUME NEW c \in Client, NEW s \in Scope \union {NoScope}, BeginScan(c, s) PROVE TypeInv'
    BY <1>1 DEF BeginScan, JobNumber, LoopOK, InScope
  <1>2. ASSUME NEW c \in Client, NEW j \in JobNumber, NEW op \in {"status", "cancel"}, BeginCall(c, op, j)
        PROVE  TypeInv'
    BY <1>2, NoFilesType DEF BeginCall, JobNumber, LoopOK, InScope
  <1>3. CASE Holder
    BY <1>3, TypeHolder, LoopHolder
  <1>4. ASSUME NEW c \in Client, Reap(c) PROVE TypeInv'
    BY <1>4 DEF Reap, LoopOK, InScope
  <1>5. ASSUME NEW c \in Client, ClientCrash(c) PROVE TypeInv'
    <2>1. lock' \in Client \union {NoClient} /\ view' \in [JobNumber -> Record]
      BY <1>5, ReleaseType DEF ClientCrash
    <2>2. call' \in [op : {"idle", "scan", "spawn", "publish",
                          "status", "cancel", "poll", "kill", "record"},
                    scope : Scope \union {NoScope},
                    job : 0 .. MaxJobs]
      BY <1>5, ReleaseType DEF ClientCrash
    <2> QED
      BY <1>5, <2>1, <2>2 DEF ClientCrash, LoopOK, InScope
  <1>6. ASSUME NEW j \in JobNumber, WorkerStep(j) PROVE TypeInv'
    BY <1>6, TypeWorker, LoopWorker
  <1>7. ASSUME NEW j \in JobNumber, WorkerCrash(j) PROVE TypeInv'
    BY <1>7, NoWorkerType DEF WorkerCrash, WorkerEnd, Corpse, LoopOK, InScope, NoWorker
  <1>8. ASSUME NEW j \in JobNumber, ReusePid(j) PROVE TypeInv'
    BY <1>8 DEF ReusePid, LoopOK, InScope
  <1>9. CASE UNCHANGED vars
    BY <1>9 DEF vars, LoopOK, InScope
  <1> QED
    BY <1>1, <1>2, <1>3, <1>4, <1>5, <1>6, <1>7, <1>8, <1>9 DEF Next

\* Every state of the program is well typed: in particular a job never counts more
\* completed scopes than it has, and no client acts on a job that is not there.
THEOREM TypeCorrect == Spec => []TypeOK
  <1>1. TypeInv => TypeOK
    BY DEF TypeInv
  <1> QED
    BY <1>1, TypeInit, TypeNext, PTL DEF Spec


-----------------------------------------------------------------------------
(* Safety.  The theorems below assume that start records the pid before    *)
(* the worker boots and that no client dies in that window; RefreshJobs is *)
(* checked to violate them otherwise.                                      *)

PublishAssumption == PromptPublish /\ ~CrashInPublish

OnRecord(rec) == rec.status = "running" /\ rec.pid
Stopped == {"interrupted", "cancelled"}
Window(j) == call.op = "publish" /\ call.job = j
Calls == {"status", "cancel", "poll", "kill", "record"}

\* The lock is free exactly when no call is under way, and then no copy is kept.
LockInv == lock = NoClient => call = Idle /\ view = NoFiles

\* Every copy of the state of a working job says it is running: the file, the one
\* the lock's holder has read, and the one its worker is about to write.
FileInv == \A j \in JobNumber : Working(j) /\ ~Window(j) => OnRecord(file[j])
ViewInv == \A j \in JobNumber : Working(j) /\ view[j].status # "none" => OnRecord(view[j])
SnapInv ==
    \A j \in JobNumber :
        Working(j) /\ worker[j].pc \in {"beginW", "write", "resultW", "finalW", "failW"}
            => OnRecord(worker[j].snap)

\* The scan has seen every working job, and has passed none of its own scope.
ScanInv ==
    call.op = "scan" =>
        \A j \in JobNumber :
            /\ file[j].status = "none" <=> view[j].status = "none"
            /\ j > call.job /\ scopeOf[j] = call.scope => ~Working(j)

\* A job on its way to its worker is queued and alone in its scope.
StartInv ==
    call.op \in {"spawn", "publish"} =>
        /\ call.job \in JobNumber
        /\ file[call.job] = QueuedRecord
        /\ view[call.job].status = "none"
        /\ \A j \in JobNumber : j # call.job /\ scopeOf[j] = scopeOf[call.job] => ~Working(j)
        /\ call.op = "publish" /\ Working(call.job) => worker[call.job].pc = "boot"

\* What the other calls know of their job.
CallInv ==
    /\ call.op \in Calls => call.job \in JobNumber /\ view[call.job].status # "none"
    /\ call.op \in {"poll", "kill", "record"} => view[call.job].status \in Active
    /\ call.op = "record" => ~Working(call.job)

\* A copy that has yet to be acted on is not older than the end of its job.
StopInv ==
    \A j \in JobNumber :
        /\ \/ call.op = "scan" /\ j <= call.job
           \/ call.op \in Calls /\ j = call.job
        /\ file[j].status \in Stopped
        => view[j].status = file[j].status

SafeInv ==
    /\ LockInv
    /\ FileInv
    /\ ViewInv
    /\ SnapInv
    /\ ScanInv
    /\ StartInv
    /\ CallInv
    /\ StopInv
    /\ OneWorkerPerScope

LEMMA SafeInit == Init => SafeInv
  BY DEF Init, SafeInv, LockInv, FileInv, ViewInv, SnapInv, ScanInv, StartInv, CallInv, StopInv,
         OneWorkerPerScope, Working, Idle, NoFiles, Calls

\* Fields of a record after one of them is replaced.
LEMMA RecordFields ==
    ASSUME NEW rec \in Record
    PROVE  /\ \A n : OnRecord([rec EXCEPT !.done = n]) <=> OnRecord(rec)
           /\ OnRecord([rec EXCEPT !.polled = TRUE]) <=> OnRecord(rec)
           /\ [rec EXCEPT !.polled = TRUE].status = rec.status
           /\ \A n : [rec EXCEPT !.done = n].status = rec.status
           /\ \A n : OnRecord([rec EXCEPT !.status = "running", !.done = n]) <=> rec.pid
           /\ \A s : [rec EXCEPT !.status = s].status = s
           /\ \A s, n : [rec EXCEPT !.status = s, !.done = n].status = s
  BY DEF Record, OnRecord

\* What a step of a worker does: it touches no other job; while its job is being
\* published it can only end; it writes a copy that says running, or a result and
\* then works no more.
WorkerEffect(j) ==
    /\ UNCHANGED <<scopeOf, lock, call, view, parent>>
    /\ \A k \in JobNumber \ {j} :
        file'[k] = file[k] /\ proc'[k] = proc[k] /\ worker'[k] = worker[k]
    /\ Working(j)' => Working(j)
    /\ Window(j) => file'[j] = file[j] /\ ~Working(j)'
    /\ \/ file'[j] = file[j]
       \/ Working(j) /\ OnRecord(file'[j])
       \/ Working(j) /\ file'[j].status \in {"completed", "failed"} /\ ~Working(j)'
    /\ Working(j)' /\ worker'[j].pc \in {"beginW", "write", "resultW", "finalW", "failW"}
        => OnRecord(worker'[j].snap)

LEMMA WorkerStepEffect ==
    ASSUME PublishAssumption, TypeInv, SafeInv, NEW j \in JobNumber, WorkerStep(j)
    PROVE  WorkerEffect(j)
  <1> USE DEF At, Goto, Read, Report, Working, WorkerEffect
  <1>0. /\ worker \in [JobNumber -> Worker]
        /\ file \in [JobNumber -> Record]
        /\ proc \in [JobNumber -> {"none", "live", "zombie", "gone", "reused"}]
        /\ worker[j] \in Worker
        /\ worker[j].snap \in Record
    BY DEF TypeInv, TypeOK, Worker
  <1>1. Working(j) /\ worker[j].pc # "boot" => ~Window(j) /\ OnRecord(file[j])
    BY DEF SafeInv, StartInv, FileInv, Window
  <1>2. Working(j) /\ worker[j].pc \in {"beginW", "write", "resultW", "finalW", "failW"}
            => OnRecord(worker[j].snap)
    BY DEF SafeInv, SnapInv
  <1>3. CASE WorkerBoot(j)
    BY <1>0, <1>1, <1>3 DEF WorkerBoot, Worker, PublishAssumption, Window
  <1>4. CASE WorkerBegin(j)
    BY <1>0, <1>1, <1>4 DEF WorkerBegin, Worker
  <1>5. CASE WorkerBeginWrite(j)
    BY <1>0, <1>1, <1>2, <1>5, RecordFields DEF WorkerBeginWrite, Store, Worker, OnRecord
  <1>6. CASE WorkerReport(j)
    BY <1>0, <1>1, <1>6 DEF WorkerReport, Worker
  <1>7. CASE WorkerReportWrite(j)
    BY <1>0, <1>1, <1>2, <1>7 DEF WorkerReportWrite, Store, Worker
  <1>8. CASE WorkerCallback(j)
    BY <1>0, <1>1, <1>8 DEF WorkerCallback, Worker
  <1>9. CASE WorkerIndexed(j)
    BY <1>0, <1>1, <1>9 DEF WorkerIndexed, Worker
  <1>10. CASE WorkerResultWrite(j)
    <2>1. file' = [file EXCEPT ![j] = [worker[j].snap EXCEPT !.done = worker[j].idx + 1]]
      BY <1>10 DEF WorkerResultWrite, Store
    <2>2. OnRecord([worker[j].snap EXCEPT !.done = worker[j].idx + 1])
      BY <1>0, <1>2, <1>10, RecordFields DEF WorkerResultWrite
    <2> QED
      BY <1>0, <1>1, <1>10, <2>1, <2>2 DEF WorkerResultWrite, Worker
  <1>11. CASE WorkerRaise(j)
    BY <1>0, <1>1, <1>11 DEF WorkerRaise, Worker
  <1>12. CASE WorkerFailWrite(j)
    <2>1. file' = [file EXCEPT ![j] = [worker[j].snap EXCEPT !.status = "failed"]]
      BY <1>12 DEF WorkerFailWrite, Store
    <2>2. [worker[j].snap EXCEPT !.status = "failed"].status = "failed"
      BY <1>0, RecordFields
    <2> QED
      BY <1>0, <1>1, <1>12, <2>1, <2>2 DEF WorkerFailWrite, Worker
  <1>13. CASE WorkerFinish(j)
    BY <1>0, <1>1, <1>13 DEF WorkerFinish, Worker
  <1>14. CASE WorkerFinalWrite(j)
    <2> DEFINE s == IF worker[j].bad THEN "failed" ELSE "completed"
    <2>1. file' = [file EXCEPT ![j] = [worker[j].snap EXCEPT !.status = s, !.done = ScopeCount]]
      BY <1>14 DEF WorkerFinalWrite, Store
    <2>2. [worker[j].snap EXCEPT !.status = s, !.done = ScopeCount].status = s
      BY <1>0 DEF Record
    <2> QED
      BY <1>0, <1>1, <1>14, <2>1, <2>2 DEF WorkerFinalWrite, Worker
  <1>15. CASE WorkerExit(j)
    BY <1>0, <1>15 DEF WorkerExit, WorkerEnd, Corpse, NoWorker
  <1> QED
    BY <1>3, <1>4, <1>5, <1>6, <1>7, <1>8, <1>9, <1>10, <1>11, <1>12, <1>13, <1>14, <1>15
    DEF WorkerStep

LEMMA SafeWorker ==
    ASSUME TypeInv, SafeInv, NEW j \in JobNumber, WorkerEffect(j)
    PROVE  SafeInv'
  <1>0. /\ UNCHANGED <<scopeOf, lock, call, view, parent>>
        /\ \A k \in JobNumber : Working(k)' => Working(k)
        /\ \A k \in JobNumber \ {j} :
            file'[k] = file[k] /\ proc'[k] = proc[k] /\ worker'[k] = worker[k]
    BY DEF WorkerEffect, Working
  <1>1. \A k \in JobNumber : file'[k] = file[k] \/ file'[k].status \notin Stopped \union {"none", "queued"}
    BY <1>0 DEF WorkerEffect, OnRecord, Stopped
  <1>2. \A k \in JobNumber : file'[k].status = "none" <=> file[k].status = "none"
    <2>1. Working(j) /\ ~Window(j) => file[j].status # "none"
      BY DEF SafeInv, FileInv, OnRecord
    <2> QED
      BY <1>0, <1>1, <2>1 DEF WorkerEffect, OnRecord
  <1>3. LockInv'
    BY <1>0 DEF SafeInv, LockInv
  <1>4. FileInv'
    BY <1>0 DEF SafeInv, FileInv, WorkerEffect, Window
  <1>5. ViewInv'
    BY <1>0 DEF SafeInv, ViewInv
  <1>6. SnapInv'
    BY <1>0 DEF SafeInv, SnapInv, WorkerEffect
  <1>7. ScanInv'
    BY <1>0, <1>2 DEF SafeInv, ScanInv
  <1>8. StartInv'
    <2> SUFFICES ASSUME call.op \in {"spawn", "publish"} PROVE StartInv'
      BY <1>0 DEF StartInv
    <2>1. file'[call.job] = file[call.job]
      BY <1>0 DEF SafeInv, StartInv, FileInv, WorkerEffect, Window, OnRecord, QueuedRecord, NoRecord
    <2>2. Working(call.job)' /\ call.op = "publish" => worker'[call.job] = worker[call.job]
      BY <1>0 DEF SafeInv, StartInv, WorkerEffect, Window
    <2> QED
      BY <1>0, <2>1, <2>2 DEF SafeInv, StartInv
  <1>9. CallInv'
    BY <1>0 DEF SafeInv, CallInv, Calls
  <1>10. StopInv'
    BY <1>0, <1>1 DEF SafeInv, StopInv
  <1>11. OneWorkerPerScope'
    BY <1>0 DEF SafeInv, OneWorkerPerScope
  <1> QED
    BY <1>3, <1>4, <1>5, <1>6, <1>7, <1>8, <1>9, <1>10, <1>11 DEF SafeInv

\* What a step that only concerns processes does: it writes no file and makes no
\* worker work again.
ProcessEffect ==
    /\ UNCHANGED <<file, scopeOf>>
    /\ \/ UNCHANGED <<lock, call, view>>
       \/ Release /\ call.op # "publish"
    /\ \A j \in JobNumber : Working(j)' => Working(j) /\ worker'[j] = worker[j]

LEMMA SafeProcess ==
    ASSUME SafeInv, ProcessEffect
    PROVE  SafeInv'
  <1>1. CASE UNCHANGED <<lock, call, view>>
    <2> USE <1>1 DEF SafeInv, ProcessEffect
    <2>1. LockInv' /\ StopInv'
      BY DEF LockInv, StopInv
    <2>2. FileInv' /\ ViewInv' /\ SnapInv'
      BY DEF FileInv, ViewInv, SnapInv, Window
    <2>3. ScanInv'
      BY DEF ScanInv
    <2>4. StartInv'
      BY DEF StartInv
    <2>5. CallInv'
      BY DEF CallInv, Calls
    <2>6. OneWorkerPerScope'
      BY DEF OneWorkerPerScope
    <2> QED
      BY <2>1, <2>2, <2>3, <2>4, <2>5, <2>6
  <1>2. CASE Release /\ call.op # "publish"
    BY <1>2 DEF SafeInv, ProcessEffect, Release, Idle, NoFiles, NoRecord, Calls,
                LockInv, FileInv, ViewInv, SnapInv, ScanInv, StartInv,
                CallInv, StopInv, OneWorkerPerScope, Window
  <1> QED
    BY <1>1, <1>2 DEF ProcessEffect

LEMMA ProcessSteps ==
    /\ \A c \in Client : TypeInv /\ Reap(c) => ProcessEffect
    /\ \A c \in Client : PublishAssumption /\ TypeInv /\ SafeInv /\ ClientCrash(c) => ProcessEffect
    /\ \A j \in JobNumber : TypeInv /\ WorkerCrash(j) => ProcessEffect
    /\ \A j \in JobNumber : TypeInv /\ ReusePid(j) => ProcessEffect
  <1> USE DEF TypeInv, TypeOK, ProcessEffect, Working
  <1>1. ASSUME NEW c \in Client, TypeInv, Reap(c) PROVE ProcessEffect
    BY <1>1 DEF Reap
  <1>2. ASSUME NEW c \in Client, PublishAssumption, TypeInv, SafeInv, ClientCrash(c)
        PROVE  ProcessEffect
    BY <1>2 DEF ClientCrash, PublishAssumption
  <1>3. ASSUME NEW j \in JobNumber, TypeInv, WorkerCrash(j) PROVE ProcessEffect
    BY <1>3 DEF WorkerCrash, WorkerEnd, Corpse, NoWorker
  <1>4. ASSUME NEW j \in JobNumber, TypeInv, ReusePid(j) PROVE ProcessEffect
    BY <1>4 DEF ReusePid
  <1> QED
    BY <1>1, <1>2, <1>3, <1>4

\* What the end of a call does: it releases the lock, starts no worker, and at
\* most writes the file of one job: of one that works no more, or with a copy
\* that says running.
ReplyEffect(j) ==
    /\ Release
    /\ UNCHANGED <<scopeOf, proc, worker>>
    /\ \A k \in JobNumber \ {j} : file'[k] = file[k]
    /\ file'[j] = file[j] \/ ~Working(j) \/ OnRecord(file'[j])
    /\ call.op = "publish" => call.job = j /\ OnRecord(file'[j])

LEMMA SafeReply ==
    ASSUME TypeInv, SafeInv, NEW j \in JobNumber, ReplyEffect(j)
    PROVE  SafeInv'
  <1>1. FileInv'
    BY DEF SafeInv, FileInv, ReplyEffect, Window, Release, Idle, Working
  <1>2. SnapInv' /\ OneWorkerPerScope'
    BY DEF SafeInv, SnapInv, OneWorkerPerScope, ReplyEffect, Working
  <1>3. LockInv' /\ ViewInv' /\ ScanInv' /\ StartInv' /\ CallInv' /\ StopInv'
    BY DEF LockInv, ViewInv, ScanInv, StartInv, CallInv, StopInv, ReplyEffect, Release, Idle,
           NoFiles, NoRecord, Calls
  <1> QED
    BY <1>1, <1>2, <1>3 DEF SafeInv

\* A copy that is stale belongs to a worker that has ended.
LEMMA StaleEnded ==
    ASSUME TypeInv, SafeInv, NEW j \in JobNumber, Stale(view[j], j)
    PROVE  ~Working(j)
  <1> SUFFICES ASSUME Working(j) PROVE FALSE
    OBVIOUS
  <1>1. OnRecord(view[j])
    BY DEF SafeInv, ViewInv, Stale, Active
  <1>2. Alive(view[j], j)
    BY <1>1 DEF Alive, OnRecord, Working
  <1> QED
    BY <1>2 DEF Stale

LEMMA Replies ==
    ASSUME TypeInv, SafeInv,
           \/ ScanAdopt
           \/ ScanEnd
           \/ StartSpawnFails
           \/ StartPublish
           \/ CallStale
           \/ CallAnswer
           \/ StatusPoll
           \/ CancelDenied
           \/ CancelRecord
    PROVE  \E j \in JobNumber : ReplyEffect(j)
  <1> USE DEF ReplyEffect
  <1>0. /\ file \in [JobNumber -> Record]
        /\ view \in [JobNumber -> Record]
        /\ 1 \in JobNumber
    BY JobsAssumption DEF TypeInv, TypeOK, JobNumber
  <1>1. CASE ScanAdopt
    BY <1>0, <1>1 DEF ScanAdopt
  <1>2. CASE ScanEnd
    BY <1>0, <1>2 DEF ScanEnd
  <1>3. CASE StartSpawnFails
    BY <1>0, <1>3 DEF StartSpawnFails
  <1>4. CASE StartPublish
    <2>1. call.job \in JobNumber
      BY <1>4 DEF SafeInv, StartInv, StartPublish
    <2>2. OnRecord([QueuedRecord EXCEPT !.status = "running", !.pid = TRUE])
      BY QueuedType DEF OnRecord, Record
    <2> QED
      BY <1>0, <1>4, <2>1, <2>2 DEF StartPublish, Store
  <1>5. CASE CallStale
    <2>1. call.job \in JobNumber
      BY <1>5 DEF SafeInv, CallInv, CallStale, Calls
    <2>2. ~Working(call.job)
      BY <1>5, <2>1, StaleEnded DEF CallStale
    <2> QED
      BY <1>0, <1>5, <2>1, <2>2 DEF CallStale, Store
  <1>6. CASE CallAnswer
    BY <1>0, <1>6 DEF CallAnswer
  <1>7. CASE StatusPoll
    <2>1. call.job \in JobNumber /\ view[call.job].status # "none"
      BY <1>7 DEF SafeInv, CallInv, StatusPoll, Calls
    <2>2. Working(call.job) => OnRecord(view[call.job])
      BY <2>1 DEF SafeInv, ViewInv
    <2> QED
      BY ZenonT(60), <1>0, <1>7, <2>1, <2>2, RecordFields DEF StatusPoll, Store
  <1>8. CASE CancelDenied
    BY <1>0, <1>8 DEF CancelDenied
  <1>9. CASE CancelRecord
    <2>1. call.job \in JobNumber /\ ~Working(call.job)
      BY <1>9 DEF SafeInv, CallInv, CancelRecord, Calls
    <2> QED
      BY <1>0, <1>9, <2>1 DEF CancelRecord, Store
  <1> QED
    BY <1>1, <1>2, <1>3, <1>4, <1>5, <1>6, <1>7, <1>8, <1>9

\* The steps that keep the lock.
LEMMA SafeBeginScan ==
    ASSUME TypeInv, SafeInv, NEW c \in Client, NEW s \in Scope \union {NoScope}, BeginScan(c, s)
    PROVE  SafeInv'
  <1>1. call.op = "idle"
    BY DEF SafeInv, LockInv, BeginScan, Idle
  <1>2. \A j \in JobNumber : j \in Nat /\ j <= MaxJobs
    BY DEF JobNumber
  <1>3. /\ call' = [op |-> "scan", scope |-> s, job |-> MaxJobs]
        /\ view' = file
        /\ lock' = c
        /\ UNCHANGED <<file, scopeOf, proc, worker>>
    BY DEF BeginScan
  <1>4. LockInv'
    BY <1>3, JobsAssumption DEF LockInv
  <1>5. FileInv' /\ ViewInv' /\ SnapInv' /\ OneWorkerPerScope'
    BY <1>1, <1>3 DEF SafeInv, FileInv, ViewInv, SnapInv, OneWorkerPerScope, Working, Window
  <1>6. ScanInv'
    BY <1>2, <1>3, JobsAssumption DEF ScanInv
  <1>7. StartInv' /\ CallInv' /\ StopInv'
    BY <1>3 DEF StartInv, CallInv, StopInv, Calls
  <1> QED
    BY <1>4, <1>5, <1>6, <1>7 DEF SafeInv

LEMMA SafeBeginCall ==
    ASSUME TypeInv, SafeInv, NEW c \in Client, NEW j \in JobNumber, NEW op \in {"status", "cancel"},
           BeginCall(c, op, j)
    PROVE  SafeInv'
  <1>1. call.op = "idle"
    BY DEF SafeInv, LockInv, BeginCall, Idle
  <1>2. /\ call' = [op |-> op, scope |-> NoScope, job |-> j]
        /\ view' = [NoFiles EXCEPT ![j] = file[j]]
        /\ lock' = c
        /\ file[j].status # "none"
        /\ UNCHANGED <<file, scopeOf, proc, worker>>
    BY DEF BeginCall
  <1>3. \A k \in JobNumber : view'[k] = IF k = j THEN file[j] ELSE NoRecord
    BY <1>2 DEF NoFiles
  <1>4. LockInv'
    BY <1>2, JobsAssumption DEF LockInv
  <1>5. FileInv' /\ ViewInv' /\ SnapInv' /\ OneWorkerPerScope'
    BY <1>1, <1>2, <1>3
    DEF SafeInv, FileInv, ViewInv, SnapInv, OneWorkerPerScope, Working, Window, NoRecord
  <1>6. ScanInv' /\ StartInv'
    BY <1>2 DEF ScanInv, StartInv
  <1>7. CallInv' /\ StopInv'
    BY <1>2, <1>3 DEF CallInv, StopInv, Calls
  <1> QED
    BY <1>4, <1>5, <1>6, <1>7 DEF SafeInv

LEMMA SafeScanPass == ASSUME TypeInv, SafeInv, ScanPass PROVE SafeInv'
  <1> DEFINE j == call.job
  <1>0. /\ j \in JobNumber
        /\ j \in Nat
        /\ \A k \in JobNumber : k \in Nat
        /\ call.op = "scan"
        /\ call' = [call EXCEPT !.job = j - 1]
        /\ UNCHANGED <<scopeOf, lock, view, proc, worker>>
        /\ call'.op = "scan" /\ call'.job = j - 1 /\ call'.scope = call.scope
    BY DEF ScanPass, JobNumber, TypeInv, TypeOK
  <1>1. /\ file \in [JobNumber -> Record]
        /\ view \in [JobNumber -> Record]
    BY DEF TypeInv, TypeOK
  <1>2. \/ file' = file
        \/ /\ ~Working(j)
           /\ view[j].status # "none"
           /\ file' = [file EXCEPT ![j] = Interrupted(view[j])]
    BY <1>0, StaleEnded DEF ScanPass, Store, Stale, Active
  <1>3. Interrupted(view[j]).status = "interrupted"
    BY <1>0, <1>1 DEF Interrupted, Record
  <1>4. Working(j) => scopeOf[j] # call.scope
    <2> SUFFICES ASSUME Working(j), scopeOf[j] = call.scope PROVE FALSE
      OBVIOUS
    <2>1. OnRecord(view[j])
      BY <1>0 DEF SafeInv, FileInv, ViewInv, ScanInv, Window, OnRecord
    <2> QED
      BY <1>0, <2>1 DEF ScanPass, Adoptable, Alive, OnRecord, Working, Active
  <1>5. LockInv'
    BY <1>0 DEF SafeInv, LockInv, Idle
  <1>6. FileInv' /\ ViewInv' /\ SnapInv' /\ OneWorkerPerScope'
    BY <1>0, <1>1, <1>2 DEF SafeInv, FileInv, ViewInv, SnapInv, OneWorkerPerScope, Working, Window
  <1>7. ScanInv'
    <2>1. \A k \in JobNumber : file'[k].status = "none" <=> view'[k].status = "none"
      BY <1>0, <1>1, <1>2, <1>3 DEF SafeInv, ScanInv
    <2>2. \A k \in JobNumber : k > j - 1 /\ scopeOf[k] = call.scope => ~Working(k)
      <3> SUFFICES ASSUME NEW k \in JobNumber, k > j - 1, scopeOf[k] = call.scope PROVE ~Working(k)
        OBVIOUS
      <3>1. k = j \/ k > j
        BY <1>0
      <3> QED
        BY <1>0, <1>4, <3>1 DEF SafeInv, ScanInv
    <2> QED
      BY <1>0, <2>1, <2>2 DEF ScanInv, Working
  <1>8. StartInv' /\ CallInv'
    BY <1>0 DEF StartInv, CallInv, Calls
  <1>9. StopInv'
    BY <1>0, <1>1, <1>2 DEF SafeInv, StopInv, Calls
  <1> QED
    BY <1>5, <1>6, <1>7, <1>8, <1>9 DEF SafeInv

LEMMA SafeStartQueue == ASSUME TypeInv, SafeInv, StartQueue PROVE SafeInv'
  <1>0. PICK j \in JobNumber : /\ file[j].status = "none"
                         /\ file' = [file EXCEPT ![j] = QueuedRecord]
                         /\ scopeOf' = [scopeOf EXCEPT ![j] = call.scope]
                         /\ call' = [call EXCEPT !.op = "spawn", !.job = j]
    BY DEF StartQueue, Store
  <1>1. /\ call.op = "scan" /\ call.job = 0
        /\ UNCHANGED <<lock, view, proc, worker>>
        /\ file \in [JobNumber -> Record]
        /\ scopeOf \in [JobNumber -> Scope \union {NoScope}]
        /\ \A k \in JobNumber : k > 0
    BY DEF StartQueue, TypeInv, TypeOK, JobNumber
  <1>. call'.op = "spawn" /\ call'.job = j /\ call'.scope = call.scope
    BY <1>0 DEF TypeInv, TypeOK
  <1>2. ~Working(j) /\ view[j].status = "none"
    BY <1>0, <1>1 DEF SafeInv, FileInv, ScanInv, OnRecord, Window
  <1>3. \A k \in JobNumber : scopeOf[k] = call.scope => ~Working(k)
    BY <1>1 DEF SafeInv, ScanInv
  <1>4. LockInv'
    BY <1>1 DEF SafeInv, LockInv, Idle
  <1>5. FileInv' /\ ViewInv' /\ SnapInv'
    BY <1>0, <1>1, <1>2 DEF SafeInv, FileInv, ViewInv, SnapInv, Working, Window
  <1>6. OneWorkerPerScope'
    BY <1>0, <1>1, <1>2 DEF SafeInv, OneWorkerPerScope, Working
  <1>7. ScanInv' /\ CallInv' /\ StopInv'
    BY <1>1 DEF ScanInv, CallInv, StopInv, Calls
  <1>8. StartInv'
    BY <1>0, <1>1, <1>2, <1>3 DEF StartInv, Working
  <1> QED
    BY <1>4, <1>5, <1>6, <1>7, <1>8 DEF SafeInv

LEMMA SafeStartSpawn == ASSUME TypeInv, SafeInv, StartSpawn PROVE SafeInv'
  <1> DEFINE j == call.job
  <1>0. /\ call.op = "spawn"
        /\ j \in JobNumber
        /\ file[j] = QueuedRecord
        /\ view[j].status = "none"
        /\ \A k \in JobNumber : k # j /\ scopeOf[k] = scopeOf[j] => ~Working(k)
    BY DEF SafeInv, StartInv, StartSpawn
  <1>1. /\ call' = [call EXCEPT !.op = "publish"]
        /\ UNCHANGED <<file, scopeOf, lock, view>>
        /\ worker' = [worker EXCEPT ![j].pc = "boot"]
    BY DEF StartSpawn
  <1>2. /\ \A k \in JobNumber : k # j => (Working(k)' <=> Working(k)) /\ worker'[k] = worker[k]
        /\ worker'[j].pc = "boot"
        /\ call'.op = "publish" /\ call'.job = j
    BY <1>0, <1>1 DEF StartSpawn, Working, TypeInv, TypeOK, Worker
  <1>3. LockInv'
    BY <1>0, <1>1 DEF SafeInv, LockInv, Idle
  <1>4. FileInv' /\ ViewInv' /\ SnapInv'
    BY <1>0, <1>1, <1>2 DEF SafeInv, FileInv, ViewInv, SnapInv, Window
  <1>5. ScanInv' /\ CallInv' /\ StopInv'
    BY <1>2 DEF ScanInv, CallInv, StopInv, Calls
  <1>6. StartInv'
    BY <1>0, <1>1, <1>2 DEF StartInv
  <1>7. OneWorkerPerScope'
    BY <1>0, <1>1, <1>2 DEF SafeInv, OneWorkerPerScope
  <1> QED
    BY <1>3, <1>4, <1>5, <1>6, <1>7 DEF SafeInv

LEMMA SafeCallAlive == ASSUME TypeInv, SafeInv, CallAlive PROVE SafeInv'
  <1>0. /\ call.op \in {"status", "cancel"}
        /\ call'.op \in {"poll", "kill"} /\ call'.job = call.job
        /\ view[call.job].status \in Active
        /\ UNCHANGED <<file, scopeOf, lock, view, proc, worker>>
    BY DEF CallAlive, TypeInv, TypeOK
  <1>1. LockInv'
    BY <1>0 DEF SafeInv, LockInv, Idle
  <1>2. FileInv' /\ ViewInv' /\ SnapInv' /\ OneWorkerPerScope'
    BY <1>0 DEF SafeInv, FileInv, ViewInv, SnapInv, OneWorkerPerScope, Working, Window
  <1>3. ScanInv' /\ StartInv'
    BY <1>0 DEF ScanInv, StartInv
  <1>4. CallInv' /\ StopInv'
    BY <1>0 DEF SafeInv, CallInv, StopInv, Calls
  <1> QED
    BY <1>1, <1>2, <1>3, <1>4 DEF SafeInv

LEMMA SafeCancelKill == ASSUME TypeInv, SafeInv, CancelKill PROVE SafeInv'
  <1> DEFINE j == call.job
  <1>0. /\ call.op = "kill"
        /\ call'.op = "record" /\ call'.job = j
        /\ j \in JobNumber
        /\ view[j].status \in Active
        /\ UNCHANGED <<file, scopeOf, lock, view>>
    BY DEF CancelKill, TypeInv, TypeOK, SafeInv, CallInv, Calls
  <1>1. /\ ~Working(j)'
        /\ \A k \in JobNumber : Working(k)' => Working(k) /\ worker'[k] = worker[k]
    BY <1>0 DEF CancelKill, Working, Corpse, TypeInv, TypeOK
  <1>2. LockInv'
    BY <1>0 DEF SafeInv, LockInv, Idle
  <1>3. FileInv' /\ ViewInv' /\ SnapInv' /\ OneWorkerPerScope'
    BY <1>0, <1>1 DEF SafeInv, FileInv, ViewInv, SnapInv, OneWorkerPerScope, Window
  <1>4. ScanInv' /\ StartInv'
    BY <1>0 DEF ScanInv, StartInv
  <1>5. CallInv'
    BY <1>0, <1>1 DEF SafeInv, CallInv, Calls
  <1>6. StopInv'
    BY <1>0 DEF SafeInv, StopInv, Calls
  <1> QED
    BY <1>2, <1>3, <1>4, <1>5, <1>6 DEF SafeInv

LEMMA SafeNext ==
    ASSUME PublishAssumption, TypeInv, SafeInv, [Next]_vars
    PROVE  SafeInv'
  <1>1. ASSUME NEW c \in Client, NEW s \in Scope \union {NoScope}, BeginScan(c, s) PROVE SafeInv'
    BY <1>1, SafeBeginScan
  <1>2. ASSUME NEW c \in Client, NEW j \in JobNumber, NEW op \in {"status", "cancel"}, BeginCall(c, op, j)
        PROVE  SafeInv'
    BY <1>2, SafeBeginCall
  <1>3. CASE Holder
    <2>1. CASE \/ ScanAdopt \/ ScanEnd \/ StartSpawnFails \/ StartPublish \/ CallStale
               \/ CallAnswer \/ StatusPoll \/ CancelDenied \/ CancelRecord
      BY <2>1, Replies, SafeReply
    <2> QED
      BY <1>3, <2>1, SafeScanPass, SafeStartQueue, SafeStartSpawn, SafeCallAlive, SafeCancelKill
      DEF Holder
  <1>4. ASSUME NEW c \in Client, Reap(c) \/ ClientCrash(c) PROVE SafeInv'
    BY <1>4, ProcessSteps, SafeProcess
  <1>5. ASSUME NEW j \in JobNumber, WorkerStep(j) PROVE SafeInv'
    BY <1>5, WorkerStepEffect, SafeWorker
  <1>6. ASSUME NEW j \in JobNumber, WorkerCrash(j) \/ ReusePid(j) PROVE SafeInv'
    BY <1>6, ProcessSteps, SafeProcess
  <1>7. CASE UNCHANGED vars
    <2>1. ProcessEffect
      BY <1>7 DEF vars, ProcessEffect, Working
    <2> QED
      BY <2>1, SafeProcess
  <1> QED
    BY <1>1, <1>2, <1>3, <1>4, <1>5, <1>6, <1>7 DEF Next

LEMMA SafeCorrect == ASSUME PublishAssumption PROVE Spec => [](TypeInv /\ SafeInv)
  <1>1. Init => TypeInv /\ SafeInv
    BY TypeInit, SafeInit
  <1>2. TypeInv /\ SafeInv /\ [Next]_vars => (TypeInv /\ SafeInv)'
    BY PublishAssumption, TypeNext, SafeNext
  <1> QED
    BY <1>1, <1>2, PTL DEF Spec

\* Two workers never index one scope at the same time: start adopts the running
\* job, however often clients and workers overwrite its state with older copies.
THEOREM OneWorkerPerScopeCorrect ==
    ASSUME PublishAssumption PROVE Spec => []OneWorkerPerScope
  <1>1. TypeInv /\ SafeInv => OneWorkerPerScope
    BY DEF SafeInv
  <1> QED
    BY <1>1, SafeCorrect, PTL

\* From the moment start has published the pid until its worker is done, a job is
\* on record as running, so that start finds it and cancel reaches it.
THEOREM LiveWorkerVisibleCorrect ==
    ASSUME PublishAssumption PROVE Spec => []LiveWorkerVisible
  <1>1. TypeInv /\ SafeInv => LiveWorkerVisible
    BY DEF SafeInv, FileInv, LiveWorkerVisible, OnRecord, Window
  <1> QED
    BY <1>1, SafeCorrect, PTL

\* No job is called interrupted or cancelled while its worker still works.
THEOREM StoppedMeansStoppedCorrect ==
    ASSUME PublishAssumption PROVE Spec => []StoppedMeansStopped
  <1>1. TypeInv /\ SafeInv => StoppedMeansStopped
    BY DEF SafeInv, FileInv, StartInv, StoppedMeansStopped, OnRecord, Window, QueuedRecord,
           NoRecord
  <1> QED
    BY <1>1, SafeCorrect, PTL

\* Cancelled and interrupted are final.
LEMMA StoppedStep ==
    ASSUME PublishAssumption, TypeInv, SafeInv, [Next]_vars,
           NEW j \in JobNumber, file[j].status \in Stopped
    PROVE  file'[j].status = file[j].status
  <1>0. file \in [JobNumber -> Record] /\ view \in [JobNumber -> Record]
    BY DEF TypeInv, TypeOK
  <1>1. ~Working(j)
    BY DEF SafeInv, FileInv, StartInv, OnRecord, Window, QueuedRecord, NoRecord, Stopped
  <1>2. CASE UNCHANGED file
    BY <1>2
  <1>3. ASSUME NEW i \in JobNumber, WorkerStep(i) PROVE file'[j].status = file[j].status
    BY <1>1, <1>3, WorkerStepEffect DEF WorkerEffect
  <1>4. CASE ScanPass
    <2>1. call.op = "scan" /\ call.job \in JobNumber
      BY <1>4 DEF ScanPass
    <2>2. j = call.job => view[j].status = file[j].status
      BY <2>1 DEF SafeInv, StopInv, JobNumber
    <2> QED
      BY <1>0, <1>4, <2>1, <2>2 DEF ScanPass, Store, Stale, Active, Stopped
  <1>5. CASE StartQueue
    BY <1>0, <1>5 DEF StartQueue, Store, Stopped
  <1>6. CASE StartPublish
    BY <1>0, <1>6 DEF StartPublish, Store, SafeInv, StartInv, QueuedRecord, NoRecord, Stopped
  <1>7. CASE CallStale \/ StatusPoll \/ CancelRecord
    <2>1. call.op \in Calls /\ call.job \in JobNumber /\ view[call.job].status \in Active
      BY <1>7 DEF CallStale, StatusPoll, CancelRecord, Stale, SafeInv, CallInv, Calls
    <2>2. j # call.job
      BY <2>1 DEF SafeInv, StopInv, Active, Stopped
    <2> QED
      BY <1>0, <1>7, <2>2 DEF CallStale, StatusPoll, CancelRecord, Store
  <1> QED
    BY <1>2, <1>3, <1>4, <1>5, <1>6, <1>7
    DEF Next, Holder, BeginScan, BeginCall, ScanAdopt, ScanEnd, StartSpawn, StartSpawnFails,
        CallAnswer, CallAlive, CancelKill, CancelDenied, Reap, ClientCrash,
        WorkerCrash, WorkerEnd, ReusePid, vars

THEOREM StoppedIsFinalCorrect ==
    ASSUME PublishAssumption PROVE Spec => StoppedIsFinal
  <1>1. TypeInv /\ SafeInv /\ [Next]_vars
            => [\A j \in JobNumber : file[j].status \in {"interrupted", "cancelled"}
                    => file'[j].status = file[j].status]_vars
    BY StoppedStep DEF Stopped
  <1> QED
    BY <1>1, SafeCorrect, PTL DEF Spec, StoppedIsFinal

-----------------------------------------------------------------------------
(***************************************************************************)
(* RefreshJobs implements JobLedger: whatever clients and workers overwrite *)
(* in the state files, whoever starts, polls and cancels jobs sees the      *)
(* ledger.  PidInv is what the refinement needs beyond SafeInv: a job whose*)
(* worker was ever started has the worker's pid in every copy of its state,*)
(* so that a copy looks stale only when the process is really gone.        *)
(***************************************************************************)

(* Pids.                                                                   *)

\* A state file has the pid of its job's worker as soon as there is one, except
\* while start has yet to record it.
FilePids ==
    \A j \in JobNumber :
        /\ file[j].status = "none" => proc[j] = "none"
        /\ proc[j] # "none" /\ ~Window(j) => file[j].pid
        /\ file[j].status = "queued" => ~file[j].pid

\* So has the copy the lock's holder has read, which is not ahead of the file.
ViewPids ==
    \A j \in JobNumber :
        /\ view[j].status # "none" /\ proc[j] # "none" => view[j].pid
        /\ view[j].status = "queued" => ~view[j].pid
        /\ view[j].status # "none" => file[j].status # "none"
        /\ view[j].status = "running" => file[j].status # "queued"

\* How far a start has come, and that only a running job is polled or cancelled.
CallPids ==
    /\ call.op = "spawn" => proc[call.job] = "none"
    /\ call.op = "publish" => proc[call.job] # "none"
    /\ call.op \in {"poll", "kill", "record"} => view[call.job].status = "running"

PidInv == FilePids /\ ViewPids /\ CallPids

LEMMA PidInit == Init => PidInv
  BY DEF Init, PidInv, FilePids, ViewPids, CallPids, NoFiles, NoRecord, Idle

\* Fields of the records that clients and workers write.
LEMMA PidFields ==
    ASSUME NEW rec \in Record
    PROVE  /\ \A s : [rec EXCEPT !.status = s].pid = rec.pid
           /\ \A s, n : [rec EXCEPT !.status = s, !.done = n].pid = rec.pid
  BY DEF Record

LEMMA QueuedFields ==
    /\ QueuedRecord.status = "queued" /\ ~QueuedRecord.pid
    /\ [QueuedRecord EXCEPT !.status = "running", !.pid = TRUE].status = "running"
    /\ [QueuedRecord EXCEPT !.status = "running", !.pid = TRUE].pid
  BY DEF QueuedRecord, NoRecord

\* A worker keeps the pid in what it writes, and has one.
LEMMA WorkerPid ==
    ASSUME PublishAssumption, TypeInv, SafeInv, PidInv, NEW j \in JobNumber, WorkerStep(j)
    PROVE  /\ proc[j] = "live" /\ proc'[j] # "none"
           /\ file'[j] # file[j] => file'[j].pid /\ file'[j].status \notin {"none", "queued"}
  <1>0. /\ worker \in [JobNumber -> Worker]
        /\ file \in [JobNumber -> Record]
        /\ proc \in [JobNumber -> {"none", "live", "zombie", "gone", "reused"}]
        /\ worker[j].snap \in Record
    BY DEF TypeInv, TypeOK, Worker
  <1>1. proc[j] = "live"
    BY DEF WorkerStep, At, WorkerBoot, WorkerBegin, WorkerBeginWrite, WorkerReport,
           WorkerReportWrite, WorkerCallback, WorkerIndexed, WorkerResultWrite, WorkerRaise,
           WorkerFailWrite, WorkerFinish, WorkerFinalWrite, WorkerExit
  <1>2. proc'[j] # "none"
    BY <1>0, <1>1
    DEF WorkerStep, At, WorkerBoot, WorkerBegin, WorkerBeginWrite, WorkerReport,
        WorkerReportWrite, WorkerCallback, WorkerIndexed, WorkerResultWrite, WorkerRaise,
        WorkerFailWrite, WorkerFinish, WorkerFinalWrite, WorkerExit, WorkerEnd, Corpse
  <1>3. CASE OnRecord(file'[j])
    BY <1>1, <1>2, <1>3 DEF OnRecord
  <1>4. CASE WorkerFailWrite(j)
    <2>1. file'[j] = [worker[j].snap EXCEPT !.status = "failed"]
      BY <1>0, <1>4 DEF WorkerFailWrite, Store
    <2>2. OnRecord(worker[j].snap)
      BY <1>4 DEF WorkerFailWrite, At, SafeInv, SnapInv, Working
    <2>3. file'[j].pid /\ file'[j].status = "failed"
      BY <1>0, <2>1, <2>2, PidFields, RecordFields DEF OnRecord
    <2> QED
      BY <1>1, <1>2, <2>3
  <1>5. CASE WorkerFinalWrite(j)
    <2> DEFINE s == IF worker[j].bad THEN "failed" ELSE "completed"
    <2>1. file'[j] = [worker[j].snap EXCEPT !.status = s, !.done = ScopeCount]
      BY <1>0, <1>5 DEF WorkerFinalWrite, Store
    <2>2. OnRecord(worker[j].snap)
      BY <1>5 DEF WorkerFinalWrite, At, SafeInv, SnapInv, Working
    <2>3. file'[j].pid /\ file'[j].status = s
      BY <1>0, <2>1, <2>2, PidFields, RecordFields DEF OnRecord
    <2>4. s \notin {"none", "queued"}
      OBVIOUS
    <2> QED
      BY <1>1, <1>2, <2>3, <2>4
  <1>6. CASE file' = file
    BY <1>1, <1>2, <1>6
  <1>7. CASE WorkerBeginWrite(j) \/ WorkerReportWrite(j) \/ WorkerResultWrite(j)
    <2>1. WorkerEffect(j)
      BY <1>7, WorkerStepEffect DEF WorkerStep
    <2>2. OnRecord(worker[j].snap)
      BY <1>7 DEF WorkerBeginWrite, WorkerReportWrite, WorkerResultWrite, At, SafeInv, SnapInv, Working
    <2>3. \/ file'[j] = [worker[j].snap EXCEPT !.status = "running", !.done = worker[j].idx]
          \/ file'[j] = worker[j].snap
          \/ file'[j] = [worker[j].snap EXCEPT !.done = worker[j].idx + 1]
      BY <1>0, <1>7 DEF WorkerBeginWrite, WorkerReportWrite, WorkerResultWrite, Store
    <2>4. worker[j].snap.pid
      BY <2>2 DEF OnRecord
    <2>5. OnRecord(file'[j])
      BY ZenonT(60), <1>0, <2>2, <2>3, <2>4 DEF Record, OnRecord
    <2> QED
      BY <1>3, <2>5
  <1> QED
    BY <1>4, <1>5, <1>6, <1>7
    DEF WorkerStep, WorkerBoot, WorkerBegin, WorkerReport, WorkerCallback, WorkerIndexed,
        WorkerRaise, WorkerFinish, WorkerExit, WorkerEnd

LEMMA PidWorker ==
    ASSUME PublishAssumption, TypeInv, SafeInv, PidInv, NEW j \in JobNumber, WorkerStep(j)
    PROVE  PidInv'
  <1>1. WorkerEffect(j)
    BY WorkerStepEffect
  <1>2. /\ UNCHANGED <<lock, call, view>>
        /\ \A k \in JobNumber \ {j} : file'[k] = file[k] /\ proc'[k] = proc[k]
    BY <1>1 DEF WorkerEffect
  <1>3. /\ proc[j] = "live" /\ proc'[j] # "none"
        /\ file'[j] # file[j] => file'[j].pid /\ file'[j].status \notin {"none", "queued"}
    BY WorkerPid
  <1>4. FilePids'
    BY <1>2, <1>3 DEF PidInv, FilePids, Window
  <1>5. ViewPids'
    BY <1>2, <1>3 DEF PidInv, ViewPids
  <1>6. call.op \in {"spawn", "publish"} => call.job \in JobNumber
    BY DEF SafeInv, StartInv
  <1>7. CallPids'
    BY <1>2, <1>3, <1>6 DEF PidInv, CallPids
  <1> QED
    BY <1>4, <1>5, <1>7 DEF PidInv

\* No process starts, and no file changes: processes only end.
PidProcess ==
    /\ UNCHANGED file
    /\ UNCHANGED <<call, view>> \/ (Release /\ call.op # "publish")
    /\ \A j \in JobNumber : proc'[j] = "none" <=> proc[j] = "none"

LEMMA PidProcessKeeps == ASSUME SafeInv, PidInv, PidProcess PROVE PidInv'
  <1>1. CASE UNCHANGED <<call, view>>
    <2>1. FilePids' /\ ViewPids'
      BY <1>1 DEF PidInv, FilePids, ViewPids, PidProcess, Window
    <2>2. call.op \in {"spawn", "publish"} => call.job \in JobNumber
      BY DEF SafeInv, StartInv
    <2>3. CallPids'
      BY <1>1, <2>2 DEF PidInv, CallPids, PidProcess
    <2> QED
      BY <2>1, <2>3 DEF PidInv
  <1>2. CASE Release /\ call.op # "publish"
    BY <1>2 DEF PidInv, FilePids, ViewPids, CallPids, PidProcess, Window, Release, Idle, NoFiles,
                NoRecord
  <1> QED
    BY <1>1, <1>2 DEF PidProcess

LEMMA PidProcesses ==
    /\ \A c \in Client : TypeInv /\ Reap(c) => PidProcess
    /\ \A c \in Client : PublishAssumption /\ TypeInv /\ ClientCrash(c) => PidProcess
    /\ \A j \in JobNumber : TypeInv /\ WorkerCrash(j) => PidProcess
    /\ \A j \in JobNumber : TypeInv /\ ReusePid(j) => PidProcess
  <1> USE DEF TypeInv, TypeOK, PidProcess
  <1>1. ASSUME NEW c \in Client, TypeInv, Reap(c) PROVE PidProcess
    BY <1>1 DEF Reap
  <1>2. ASSUME NEW c \in Client, PublishAssumption, TypeInv, ClientCrash(c) PROVE PidProcess
    BY <1>2 DEF ClientCrash, PublishAssumption
  <1>3. ASSUME NEW j \in JobNumber, TypeInv, WorkerCrash(j) PROVE PidProcess
    BY <1>3 DEF WorkerCrash, WorkerEnd, Corpse, Working
  <1>4. ASSUME NEW j \in JobNumber, TypeInv, ReusePid(j) PROVE PidProcess
    BY <1>4 DEF ReusePid
  <1> QED
    BY <1>1, <1>2, <1>3, <1>4

\* The end of a call writes a copy with a pid and says running, or stopped.
LEMMA PidReply ==
    ASSUME PublishAssumption, TypeInv, SafeInv, PidInv,
           \/ ScanAdopt
           \/ ScanEnd
           \/ StartSpawnFails
           \/ StartPublish
           \/ CallStale
           \/ CallAnswer
           \/ StatusPoll
           \/ CancelDenied
           \/ CancelRecord
    PROVE  PidInv'
  <1>0. /\ file \in [JobNumber -> Record]
        /\ view \in [JobNumber -> Record]
        /\ Release
        /\ proc' = proc
    BY DEF TypeInv, TypeOK, ScanAdopt, ScanEnd, StartSpawnFails, StartPublish, CallStale,
           CallAnswer, StatusPoll, CancelDenied, CancelRecord
  <1>1. ViewPids' /\ CallPids'
    BY <1>0 DEF ViewPids, CallPids, Release, Idle, NoFiles, NoRecord
  <1>2. CASE call.op # "publish" /\ file' = file
    <2>1. FilePids'
      BY <1>0, <1>2 DEF PidInv, FilePids, Window, Release, Idle
    <2> QED
      BY <1>1, <2>1 DEF PidInv
  <1>3. CASE StartPublish
    <2>1. call.job \in JobNumber /\ call.op = "publish"
      BY <1>3 DEF StartPublish, SafeInv, StartInv
    <2>2. /\ \A k \in JobNumber \ {call.job} : file'[k] = file[k]
          /\ file'[call.job].pid /\ file'[call.job].status = "running"
      BY <1>0, <1>3, <2>1, QueuedFields DEF StartPublish, Store
    <2>3. FilePids'
      BY <1>0, <2>1, <2>2 DEF PidInv, FilePids, Window
    <2> QED
      BY <1>1, <2>3 DEF PidInv
  <1>4. CASE CallStale \/ StatusPoll \/ CancelRecord
    <2>1. call.job \in JobNumber /\ view[call.job].status # "none" /\ call.op # "publish"
      BY <1>4 DEF CallStale, StatusPoll, CancelRecord, SafeInv, CallInv, Calls
    <2>2. StatusPoll => view[call.job].status = "running"
      BY DEF StatusPoll, PidInv, CallPids
    <2>3. /\ \A k \in JobNumber \ {call.job} : file'[k] = file[k]
          /\ file'[call.job].pid = view[call.job].pid
          /\ file'[call.job].status \in {"interrupted", "running", "cancelled"}
      <3> DEFINE rec == view[call.job]
      <3>1. \/ file' = [file EXCEPT ![call.job] = [rec EXCEPT !.status = "interrupted"]]
            \/ file' = [file EXCEPT ![call.job] = [rec EXCEPT !.status = "cancelled"]]
            \/ /\ rec.status = "running"
               /\ file' = [file EXCEPT ![call.job] = [rec EXCEPT !.polled = TRUE]]
        BY <1>4, <2>2 DEF CallStale, StatusPoll, CancelRecord, Store, Interrupted
      <3>2. rec \in Record
        BY <1>0, <2>1
      <3> HIDE DEF rec
      <3>3. /\ \A k \in JobNumber \ {call.job} : file'[k] = file[k]
            /\ file'[call.job].pid = rec.pid
            /\ file'[call.job].status \in {"interrupted", "running", "cancelled"}
        BY <1>0, <2>1, <3>1, <3>2 DEF Record
      <3> QED
        BY <3>3 DEF rec
    <2>4. FilePids'
      BY <1>0, <2>1, <2>3 DEF PidInv, FilePids, ViewPids, Window
    <2> QED
      BY <1>1, <2>4 DEF PidInv
  <1> QED
    BY <1>2, <1>3, <1>4
    DEF ScanAdopt, ScanEnd, StartSpawnFails, CallAnswer, CancelDenied

LEMMA PidScanPass == ASSUME TypeInv, SafeInv, PidInv, ScanPass PROVE PidInv'
  <1>0. /\ file \in [JobNumber -> Record]
        /\ view \in [JobNumber -> Record]
        /\ call.job \in JobNumber /\ call.op = "scan" /\ call'.op = "scan"
        /\ UNCHANGED <<view, proc>>
    BY DEF TypeInv, TypeOK, ScanPass
  <1>1. /\ \A k \in JobNumber \ {call.job} : file'[k] = file[k]
        /\ \/ file'[call.job] = file[call.job]
           \/ /\ view[call.job].status # "none"
              /\ file'[call.job].pid = view[call.job].pid
              /\ file'[call.job].status = "interrupted"
    <2> DEFINE rec == view[call.job]
    <2>1. \/ file' = file
          \/ /\ rec.status # "none"
             /\ file' = [file EXCEPT ![call.job] = [rec EXCEPT !.status = "interrupted"]]
      BY DEF ScanPass, Store, Interrupted, Stale, Active
    <2>2. rec \in Record
      BY <1>0
    <2> HIDE DEF rec
    <2>3. /\ \A k \in JobNumber \ {call.job} : file'[k] = file[k]
          /\ \/ file'[call.job] = file[call.job]
             \/ /\ rec.status # "none"
                /\ file'[call.job].pid = rec.pid
                /\ file'[call.job].status = "interrupted"
      BY <1>0, <2>1, <2>2 DEF Record
    <2> QED
      BY <2>3 DEF rec
  <1>2. FilePids'
    BY <1>0, <1>1 DEF PidInv, FilePids, ViewPids, Window
  <1>3. ViewPids' /\ CallPids'
    BY <1>0, <1>1 DEF PidInv, ViewPids, CallPids
  <1> QED
    BY <1>2, <1>3 DEF PidInv

LEMMA PidStartQueue == ASSUME TypeInv, SafeInv, PidInv, StartQueue PROVE PidInv'
  <1>0. PICK j \in JobNumber : /\ file[j].status = "none"
                               /\ file' = [file EXCEPT ![j] = QueuedRecord]
                               /\ call' = [call EXCEPT !.op = "spawn", !.job = j]
    BY DEF StartQueue, Store
  <1>1. /\ call.op = "scan" /\ UNCHANGED <<view, proc>>
        /\ call'.op = "spawn" /\ call'.job = j
        /\ \A k \in JobNumber : file'[k] = IF k = j THEN QueuedRecord ELSE file[k]
    BY <1>0 DEF StartQueue, TypeInv, TypeOK
  <1>2. view[j].status = "none" /\ proc[j] = "none"
    BY <1>0, <1>1 DEF SafeInv, ScanInv, PidInv, FilePids
  <1>3. FilePids'
    BY <1>1, <1>2, QueuedFields DEF PidInv, FilePids, Window
  <1>4. ViewPids' /\ CallPids'
    BY <1>1, <1>2, QueuedFields DEF PidInv, ViewPids, CallPids
  <1> QED
    BY <1>3, <1>4 DEF PidInv

LEMMA PidStartSpawn == ASSUME TypeInv, SafeInv, PidInv, StartSpawn PROVE PidInv'
  <1>0. /\ call.op = "spawn" /\ call.job \in JobNumber
        /\ file[call.job].status = "queued" /\ view[call.job].status = "none"
        /\ call'.op = "publish" /\ call'.job = call.job
        /\ UNCHANGED <<file, view>>
    BY QueuedFields DEF SafeInv, StartInv, StartSpawn, TypeInv, TypeOK
  <1>1. /\ \A k \in JobNumber \ {call.job} : proc'[k] = "none" <=> proc[k] = "none"
        /\ proc'[call.job] = "live"
    BY <1>0 DEF StartSpawn
  <1>2. FilePids' /\ ViewPids' /\ CallPids'
    BY <1>0, <1>1 DEF PidInv, FilePids, ViewPids, CallPids, Window
  <1> QED
    BY <1>2 DEF PidInv

LEMMA PidNext ==
    ASSUME PublishAssumption, TypeInv, SafeInv, PidInv, [Next]_vars
    PROVE  PidInv'
  <1>1. ASSUME NEW c \in Client, NEW s \in Scope \union {NoScope}, BeginScan(c, s) PROVE PidInv'
    <2>1. call.op = "idle" /\ call'.op = "scan" /\ view' = file /\ UNCHANGED <<file, proc>>
      BY <1>1 DEF BeginScan, SafeInv, LockInv, Idle
    <2>2. FilePids' /\ ViewPids' /\ CallPids'
      BY <2>1 DEF PidInv, FilePids, ViewPids, CallPids, Window
    <2> QED
      BY <2>2 DEF PidInv
  <1>2. ASSUME NEW c \in Client, NEW j \in JobNumber, NEW op \in {"status", "cancel"}, BeginCall(c, op, j)
        PROVE  PidInv'
    <2>1. call.op = "idle" /\ call'.op = op /\ UNCHANGED <<file, proc>>
      BY <1>2 DEF BeginCall, SafeInv, LockInv, Idle
    <2>2. \A k \in JobNumber : view'[k] = IF k = j THEN file[j] ELSE NoRecord
      BY <1>2 DEF BeginCall, NoFiles
    <2>3. FilePids' /\ ViewPids' /\ CallPids'
      BY <2>1, <2>2 DEF PidInv, FilePids, ViewPids, CallPids, Window, NoRecord
    <2> QED
      BY <2>3 DEF PidInv
  <1>3. CASE CallAlive
    <2>1. /\ call.op \in {"status", "cancel"} /\ call'.op \in {"poll", "kill"}
          /\ call'.job = call.job /\ call.job \in JobNumber
          /\ UNCHANGED <<file, view, proc>>
      BY <1>3 DEF CallAlive, TypeInv, TypeOK, SafeInv, CallInv, Calls
    <2>2. view[call.job].status = "running"
      BY <1>3, <2>1 DEF CallAlive, Alive, Active, PidInv, ViewPids
    <2>3. FilePids' /\ ViewPids' /\ CallPids'
      BY <2>1, <2>2 DEF PidInv, FilePids, ViewPids, CallPids, Window
    <2> QED
      BY <2>3 DEF PidInv
  <1>4. CASE CancelKill
    <2>1. /\ call.op = "kill" /\ call'.op = "record" /\ call'.job = call.job
          /\ call.job \in JobNumber /\ UNCHANGED <<file, view>>
      BY <1>4 DEF CancelKill, TypeInv, TypeOK, SafeInv, CallInv, Calls
    <2>2. \A k \in JobNumber : proc'[k] = "none" <=> proc[k] = "none"
      BY <1>4 DEF CancelKill, Corpse, TypeInv, TypeOK
    <2>3. FilePids' /\ ViewPids' /\ CallPids'
      BY <2>1, <2>2 DEF PidInv, FilePids, ViewPids, CallPids, Window
    <2> QED
      BY <2>3 DEF PidInv
  <1>5. CASE Holder
    BY <1>3, <1>4, <1>5, PidReply, PidScanPass, PidStartQueue, PidStartSpawn DEF Holder
  <1>6. ASSUME NEW c \in Client, Reap(c) \/ ClientCrash(c) PROVE PidInv'
    BY <1>6, PidProcesses, PidProcessKeeps
  <1>7. ASSUME NEW j \in JobNumber, WorkerStep(j) PROVE PidInv'
    BY <1>7, PidWorker
  <1>8. ASSUME NEW j \in JobNumber, WorkerCrash(j) \/ ReusePid(j) PROVE PidInv'
    BY <1>8, PidProcesses, PidProcessKeeps
  <1>9. CASE UNCHANGED vars
    <2>1. PidProcess
      BY <1>9 DEF vars, PidProcess
    <2> QED
      BY <2>1, PidProcessKeeps
  <1> QED
    BY <1>1, <1>2, <1>5, <1>6, <1>7, <1>8, <1>9 DEF Next

LEMMA PidCorrect == ASSUME PublishAssumption PROVE Spec => [](TypeInv /\ SafeInv /\ PidInv)
  <1>1. Init => TypeInv /\ SafeInv /\ PidInv
    BY TypeInit, SafeInit, PidInit
  <1>2. TypeInv /\ SafeInv /\ PidInv /\ [Next]_vars => (TypeInv /\ SafeInv /\ PidInv)'
    BY PublishAssumption, TypeNext, SafeNext, PidNext
  <1> QED
    BY <1>1, <1>2, PTL DEF Spec

-----------------------------------------------------------------------------
(* The ledger.                                                             *)

\* The refinement mapping, as Ledger has it.
Status == [j \in JobNumber |-> file[j].status]

WorkOf(j) ==
    CASE Working(j) -> "working"
      [] proc[j] = "none" -> "none"
      [] proc[j] \in {"gone", "reused"} -> "ended"
      [] OTHER -> "corpse"

Work == [j \in JobNumber |-> WorkOf(j)]

LEMMA WorkFacts ==
    ASSUME TypeInv, NEW j \in JobNumber
    PROVE  /\ WorkOf(j) = "working" <=> Working(j)
           /\ WorkOf(j) = "none" <=> proc[j] = "none"
           /\ WorkOf(j) = "ended" <=> proc[j] \in {"gone", "reused"}
           /\ WorkOf(j) = "corpse" <=> proc[j] = "zombie" \/ (proc[j] = "live" /\ ~Working(j))
  BY DEF WorkOf, Working, TypeInv, TypeOK

\* What the ledger sees of a step.
SameStatus(j) == file'[j].status = file[j].status
SameWork(j) == WorkOf(j)' = WorkOf(j)
LedgerStep == [Ledger!Next]_(Ledger!vars)

LEMMA SeesNothing ==
    ASSUME scopeOf' = scopeOf, \A j \in JobNumber : SameStatus(j) /\ SameWork(j)
    PROVE  LedgerStep
  <1>1. Status' = Status
    BY DEF Status, SameStatus
  <1>2. Work' = Work
    BY DEF Work, SameWork
  <1>3. Ledger!vars = <<Status, scopeOf, Work>>
    BY DEF Ledger!vars, Status, Work, WorkOf
  <1>4. (Ledger!vars)' = <<Status', scopeOf', Work'>>
    BY DEF Ledger!vars, Status, Work, WorkOf
  <1> QED
    BY <1>1, <1>2, <1>3, <1>4 DEF LedgerStep

\* A step that the ledger sees change the status of one job alone.
LEMMA SeesStatus ==
    ASSUME NEW j \in JobNumber, NEW s, file'[j].status = s,
           \A k \in JobNumber \ {j} : SameStatus(k)
    PROVE  Status' = [Status EXCEPT ![j] = s]
  BY DEF Status, SameStatus

LEMMA SeesWork ==
    ASSUME NEW j \in JobNumber, NEW w, WorkOf(j)' = w, \A k \in JobNumber \ {j} : SameWork(k)
    PROVE  Work' = [Work EXCEPT ![j] = w]
  BY DEF Work, SameWork

LEMMA SeesQueue ==
    ASSUME TypeInv, NEW j \in JobNumber, NEW s \in Scope, file[j].status = "none",
           \A k \in JobNumber : scopeOf[k] = s => ~Working(k),
           file'[j].status = "queued", \A k \in JobNumber \ {j} : SameStatus(k),
           scopeOf' = [scopeOf EXCEPT ![j] = s],
           \A k \in JobNumber : SameWork(k)
    PROVE  LedgerStep
  <1>1. Status' = [Status EXCEPT ![j] = "queued"]
    BY SeesStatus
  <1>2. Work' = Work
    BY DEF Work, SameWork
  <1>3. Status[j] = "none" /\ \A k \in JobNumber : scopeOf[k] = s => Work[k] # "working"
    BY WorkFacts DEF Status, Work
  <1>4. Ledger!Queue(j, s)
    BY <1>1, <1>2, <1>3 DEF Ledger!Queue, Ledger!Free, Ledger!Become, Status, Work, WorkOf
  <1> QED
    BY <1>4 DEF LedgerStep, Ledger!Next

LEMMA SeesSpawn ==
    ASSUME TypeInv, NEW j \in JobNumber, NEW reaped \in SUBSET JobNumber,
           file[j].status = "queued", proc[j] = "none",
           \A k \in JobNumber : scopeOf[k] = scopeOf[j] => ~Working(k),
           scopeOf' = scopeOf, \A k \in JobNumber : SameStatus(k),
           WorkOf(j)' = "working",
           \A k \in JobNumber \ {j} :
               WorkOf(k)' = IF k \in reaped /\ WorkOf(k) = "corpse" THEN "ended" ELSE WorkOf(k)
    PROVE  LedgerStep
  <1>1. Status' = Status
    BY DEF Status, SameStatus
  <1>2. Work' = [k \in JobNumber |-> CASE k = j -> "working"
                                       [] k # j /\ k \in reaped /\ Work[k] = "corpse" -> "ended"
                                       [] OTHER -> Work[k]]
    BY DEF Work
  <1>3. /\ Status[j] = "queued" /\ Work[j] = "none"
        /\ \A k \in JobNumber : scopeOf[k] = scopeOf[j] => Work[k] # "working"
    BY WorkFacts DEF Status, Work
  <1>4. Ledger!Spawn(j, reaped)
    BY <1>1, <1>2, <1>3 DEF Ledger!Spawn, Ledger!Free, Status, Work, WorkOf
  <1> QED
    BY <1>4 DEF LedgerStep, Ledger!Next

LEMMA SeesPublish ==
    ASSUME TypeInv, NEW j \in JobNumber, file[j].status = "queued", proc[j] # "none",
           file'[j].status = "running", \A k \in JobNumber \ {j} : SameStatus(k),
           scopeOf' = scopeOf, \A k \in JobNumber : SameWork(k)
    PROVE  LedgerStep
  <1>1. Status' = [Status EXCEPT ![j] = "running"]
    BY SeesStatus
  <1>2. Work' = Work
    BY DEF Work, SameWork
  <1>3. Status[j] = "queued" /\ Work[j] # "none"
    BY WorkFacts DEF Status, Work
  <1>4. Ledger!Publish(j)
    BY <1>1, <1>2, <1>3 DEF Ledger!Publish, Ledger!Become, Status, Work, WorkOf
  <1> QED
    BY <1>4 DEF LedgerStep, Ledger!Next

LEMMA SeesSettle ==
    ASSUME TypeInv, NEW j \in JobNumber, file[j].status = "running", Working(j),
           NEW result \in {"completed", "failed"},
           file'[j].status = result, \A k \in JobNumber \ {j} : SameStatus(k),
           scopeOf' = scopeOf,
           WorkOf(j)' = "corpse", \A k \in JobNumber \ {j} : SameWork(k)
    PROVE  LedgerStep
  <1>1. Status' = [Status EXCEPT ![j] = result]
    BY SeesStatus
  <1>2. Work' = [Work EXCEPT ![j] = "corpse"]
    BY SeesWork
  <1>3. Status[j] = "running" /\ Work[j] = "working"
    BY WorkFacts DEF Status, Work
  <1>4. Ledger!Settle(j, result)
    BY <1>1, <1>2, <1>3 DEF Ledger!Settle, Ledger!Become, Status, Work, WorkOf
  <1> QED
    BY <1>4 DEF LedgerStep, Ledger!Next

LEMMA SeesDie ==
    ASSUME TypeInv, NEW j \in JobNumber, Working(j), NEW as \in {"corpse", "ended"},
           scopeOf' = scopeOf, \A k \in JobNumber : SameStatus(k),
           WorkOf(j)' = as, \A k \in JobNumber \ {j} : SameWork(k)
    PROVE  LedgerStep
  <1>1. Status' = Status
    BY DEF Status, SameStatus
  <1>2. Work' = [Work EXCEPT ![j] = as]
    BY SeesWork
  <1>3. Work[j] = "working"
    BY WorkFacts DEF Work
  <1>4. Ledger!Die(j, as)
    BY <1>1, <1>2, <1>3 DEF Ledger!Die, Status, Work, WorkOf
  <1> QED
    BY <1>4 DEF LedgerStep, Ledger!Next

LEMMA SeesReap ==
    ASSUME TypeInv, NEW reaped \in SUBSET JobNumber,
           scopeOf' = scopeOf, \A k \in JobNumber : SameStatus(k),
           \A k \in JobNumber :
               WorkOf(k)' = IF k \in reaped /\ WorkOf(k) = "corpse" THEN "ended" ELSE WorkOf(k)
    PROVE  LedgerStep
  <1>1. Status' = Status
    BY DEF Status, SameStatus
  <1>2. Work' = [k \in JobNumber |->
                    IF k \in reaped /\ Work[k] = "corpse" THEN "ended" ELSE Work[k]]
    BY DEF Work
  <1>3. Ledger!Reap(reaped)
    BY <1>1, <1>2 DEF Ledger!Reap, Status, Work, WorkOf
  <1> QED
    BY <1>3 DEF LedgerStep, Ledger!Next

LEMMA SeesStop ==
    ASSUME TypeInv, NEW j \in JobNumber, NEW how \in Stopped,
           file[j].status \notin Stopped \union {"none"}, ~Working(j),
           how = "interrupted" => proc[j] \in {"none", "gone", "reused"},
           file'[j].status = how, \A k \in JobNumber \ {j} : SameStatus(k),
           scopeOf' = scopeOf, \A k \in JobNumber : SameWork(k)
    PROVE  LedgerStep
  <1>1. Status' = [Status EXCEPT ![j] = how]
    BY SeesStatus
  <1>2. Work' = Work
    BY DEF Work, SameWork
  <1>3. /\ Status[j] \notin Stopped \union {"none"} /\ Work[j] # "working"
        /\ how = "interrupted" => Work[j] # "corpse"
    BY WorkFacts DEF Status, Work
  <1>4. Ledger!Stop(j, how)
    BY <1>1, <1>2, <1>3 DEF Ledger!Stop, Ledger!Become, Ledger!Stopped, Stopped, Status, Work, WorkOf
  <1> QED
    BY <1>4 DEF LedgerStep, Ledger!Next, Ledger!Stopped, Stopped

LEMMA SeesRegress ==
    ASSUME TypeInv, NEW j \in JobNumber, file[j].status \in {"completed", "failed"}, ~Working(j),
           file'[j].status = "running", \A k \in JobNumber \ {j} : SameStatus(k),
           scopeOf' = scopeOf, \A k \in JobNumber : SameWork(k)
    PROVE  LedgerStep
  <1>1. Status' = [Status EXCEPT ![j] = "running"]
    BY SeesStatus
  <1>2. Work' = Work
    BY DEF Work, SameWork
  <1>3. Status[j] \in {"completed", "failed"} /\ Work[j] # "working"
    BY WorkFacts DEF Status, Work
  <1>4. Ledger!Regress(j)
    BY <1>1, <1>2, <1>3 DEF Ledger!Regress, Ledger!Become, Status, Work, WorkOf
  <1> QED
    BY <1>4 DEF LedgerStep, Ledger!Next

-----------------------------------------------------------------------------
(* Every step is a step of the ledger, or nothing to it.                   *)

\* Storing a copy with another status changes that status alone.
LEMMA StoredStatus ==
    ASSUME file \in [JobNumber -> Record], NEW j \in JobNumber, NEW rec \in Record, NEW s,
           Store(j, [rec EXCEPT !.status = s])
    PROVE  file'[j].status = s /\ \A k \in JobNumber \ {j} : SameStatus(k)
  BY DEF Store, SameStatus, Record

LEMMA StoredResult ==
    ASSUME file \in [JobNumber -> Record], NEW j \in JobNumber, NEW rec \in Record, NEW s, NEW n,
           Store(j, [rec EXCEPT !.status = s, !.done = n])
    PROVE  file'[j].status = s
  BY DEF Store, Record

\* A worker's status and the work left to it, step by step.
LEMMA LedgerWorker ==
    ASSUME PublishAssumption, TypeInv, SafeInv, PidInv, NEW j \in JobNumber, WorkerStep(j)
    PROVE  LedgerStep
  <1>0. /\ worker \in [JobNumber -> Worker]
        /\ file \in [JobNumber -> Record]
        /\ proc \in [JobNumber -> {"none", "live", "zombie", "gone", "reused"}]
        /\ worker[j].next \in {"none", "index", "begin"}
    BY DEF TypeInv, TypeOK, Worker
  <1>1. WorkerEffect(j)
    BY WorkerStepEffect
  <1>2. /\ scopeOf' = scopeOf
        /\ \A k \in JobNumber \ {j} : SameStatus(k) /\ SameWork(k)
    BY <1>1 DEF WorkerEffect, SameStatus, SameWork, WorkOf, Working
  <1>3. proc[j] = "live"
    BY WorkerPid
  <1>4. Working(j) /\ worker[j].pc # "boot" => file[j].status = "running"
    BY DEF SafeInv, StartInv, FileInv, Window, OnRecord
  <1>5. CASE WorkerExit(j)
    <2>1. /\ file' = file /\ ~Working(j)
          /\ proc' = [proc EXCEPT ![j] = Corpse(j)]
          /\ worker' = [worker EXCEPT ![j] = NoWorker]
      BY <1>5 DEF WorkerExit, WorkerEnd, At, Working
    <2>2. WorkOf(j) = "corpse"
      BY <1>3, <2>1, WorkFacts
    <2>3. WorkOf(j)' = IF parent[j] = NoClient THEN "ended" ELSE "corpse"
      BY <1>0, <2>1 DEF WorkOf, Working, Corpse
    <2>4. SameStatus(j)
      BY <2>1 DEF SameStatus
    <2>5. CASE parent[j] = NoClient
      BY <1>2, <2>2, <2>3, <2>4, <2>5, SeesReap DEF SameWork
    <2>6. CASE parent[j] # NoClient
      BY <1>2, <2>2, <2>3, <2>4, <2>6, SeesNothing DEF SameWork
    <2> QED
      BY <2>5, <2>6
  <1>6. CASE WorkerFailWrite(j) \/ WorkerFinalWrite(j)
    <2>1. Working(j) /\ file[j].status = "running"
      BY <1>4, <1>6 DEF WorkerFailWrite, WorkerFinalWrite, At, Working
    <2>2. proc' = proc /\ worker'[j].pc = "exit"
      BY <1>0, <1>6 DEF WorkerFailWrite, WorkerFinalWrite, Goto, Worker
    <2>3. WorkOf(j)' = "corpse"
      BY <1>3, <2>2 DEF WorkOf, Working
    <2>4. worker[j].snap \in Record
      BY <1>0 DEF Worker
    <2>5. file'[j].status \in {"completed", "failed"}
      <3>1. WorkerFailWrite(j) => file'[j].status = "failed"
        BY ZenonT(60), <1>0, <2>4, StoredStatus DEF WorkerFailWrite
      <3>2. WorkerFinalWrite(j) => file'[j].status = IF worker[j].bad THEN "failed" ELSE "completed"
        BY <1>0, <2>4, StoredResult DEF WorkerFinalWrite
      <3> QED
        BY <1>6, <3>1, <3>2
    <2> QED
      BY <1>2, <2>1, <2>3, <2>5, SeesSettle
  <1>7. CASE file'[j].status = file[j].status /\ proc' = proc
    <2>1. SameStatus(j)
      BY <1>7 DEF SameStatus
    <2>2. CASE worker'[j].pc = "exit"
      <3>1. WorkOf(j)' = "corpse"
        BY <1>3, <1>7, <2>2 DEF WorkOf, Working
      <3>2. CASE Working(j)
        BY <1>2, <2>1, <3>1, <3>2, SeesDie
      <3>3. CASE ~Working(j)
        <4>1. WorkOf(j) = "corpse"
          BY <1>3, <3>3, WorkFacts
        <4> QED
          BY <1>2, <2>1, <3>1, <4>1, SeesNothing DEF SameWork
      <3> QED
        BY <3>2, <3>3
    <2>3. CASE worker'[j].pc # "exit"
      <3>1. Working(j)'
        BY <1>3, <1>7, <2>3 DEF Working
      <3>2. Working(j)
        BY <1>1, <3>1 DEF WorkerEffect
      <3>3. SameWork(j)
        BY <3>1, <3>2 DEF SameWork, WorkOf
      <3> QED
        BY <1>2, <2>1, <3>3, SeesNothing
    <2> QED
      BY <2>2, <2>3
  <1>8. CASE WorkerBeginWrite(j) \/ WorkerReportWrite(j) \/ WorkerResultWrite(j)
    <2>1. Working(j) /\ file[j].status = "running" /\ proc' = proc
      BY <1>4, <1>8 DEF WorkerBeginWrite, WorkerReportWrite, WorkerResultWrite, At, Working
    <2>2. file'[j] = file[j] \/ OnRecord(file'[j])
      <3>1. worker'[j].pc # "exit"
        BY <1>0, <1>8 DEF WorkerBeginWrite, WorkerReportWrite, WorkerResultWrite, Goto, Report, Worker
      <3>2. Working(j)'
        BY <1>3, <2>1, <3>1 DEF Working
      <3> QED
        BY <1>1, <3>2 DEF WorkerEffect
    <2> QED
      BY <1>7, <2>1, <2>2 DEF OnRecord
  <1> QED
    BY <1>5, <1>6, <1>7, <1>8
    DEF WorkerStep, WorkerBoot, WorkerBegin, WorkerReport, WorkerCallback, WorkerIndexed,
        WorkerRaise, WorkerFinish

\* A copy that looks stale belongs to a process that is really gone.
LEMMA StaleGone ==
    ASSUME TypeInv, SafeInv, PidInv, NEW j \in JobNumber, Stale(view[j], j)
    PROVE  proc[j] \in {"none", "gone"} /\ ~Working(j)
  <1>1. view[j].status # "none"
    BY DEF Stale, Active
  <1>2. proc[j] # "none" => view[j].pid
    BY <1>1 DEF PidInv, ViewPids
  <1> QED
    BY <1>2, StaleEnded DEF Stale, Alive, TypeInv, TypeOK

\* Nor has a job been stopped, or is it unknown, whose copy is active.
LEMMA NotStopped ==
    ASSUME SafeInv, NEW j \in JobNumber, view[j].status \in Active,
           \/ call.op = "scan" /\ j <= call.job
           \/ call.op \in Calls /\ j = call.job
    PROVE  file[j].status \notin Stopped
  BY DEF SafeInv, StopInv, Active, Stopped

LEMMA LedgerReply ==
    ASSUME PublishAssumption, TypeInv, SafeInv, PidInv,
           \/ ScanAdopt
           \/ ScanEnd
           \/ StartSpawnFails
           \/ StartPublish
           \/ CallStale
           \/ CallAnswer
           \/ StatusPoll
           \/ CancelDenied
           \/ CancelRecord
    PROVE  LedgerStep
  <1> DEFINE j == call.job
  <1>0. /\ file \in [JobNumber -> Record]
        /\ view \in [JobNumber -> Record]
        /\ scopeOf' = scopeOf /\ proc' = proc /\ worker' = worker
    BY DEF TypeInv, TypeOK, ScanAdopt, ScanEnd, StartSpawnFails, StartPublish, CallStale,
           CallAnswer, StatusPoll, CancelDenied, CancelRecord
  <1>1. \A k \in JobNumber : SameWork(k)
    BY <1>0 DEF SameWork, WorkOf, Working
  <1>2. CASE file' = file
    BY <1>0, <1>1, <1>2, SeesNothing DEF SameStatus
  <1>3. CASE StartPublish
    <2>1. j \in JobNumber /\ file[j].status = "queued" /\ proc[j] # "none"
      BY <1>3, QueuedFields DEF StartPublish, SafeInv, StartInv, PidInv, CallPids
    <2>2. file'[j].status = "running" /\ \A k \in JobNumber \ {j} : SameStatus(k)
      BY <1>0, <1>3, <2>1, QueuedFields DEF StartPublish, Store, SameStatus
    <2> QED
      BY <1>0, <1>1, <2>1, <2>2, SeesPublish
  <1>4. CASE CallStale
    <2>1. j \in JobNumber /\ view[j].status \in Active /\ call.op \in Calls
      BY <1>4 DEF CallStale, SafeInv, CallInv, Calls, Stale
    <2>2. file'[j].status = "interrupted" /\ \A k \in JobNumber \ {j} : SameStatus(k)
      BY <1>0, <1>4, <2>1, StoredStatus DEF CallStale, Interrupted
    <2>3. proc[j] \in {"none", "gone"} /\ ~Working(j)
      BY <1>4, <2>1, StaleGone DEF CallStale
    <2>4. file[j].status \notin Stopped \union {"none"}
      BY <2>1, NotStopped DEF PidInv, ViewPids, Active
    <2> QED
      BY <1>0, <1>1, <2>1, <2>2, <2>3, <2>4, SeesStop DEF Stopped
  <1>5. CASE CancelRecord
    <2>1. /\ j \in JobNumber /\ view[j].status = "running" /\ call.op \in Calls /\ ~Working(j)
      BY <1>5 DEF CancelRecord, SafeInv, CallInv, Calls, PidInv, CallPids
    <2>2. file'[j].status = "cancelled" /\ \A k \in JobNumber \ {j} : SameStatus(k)
      BY <1>0, <1>5, <2>1, StoredStatus DEF CancelRecord
    <2>3. file[j].status \notin Stopped \union {"none"}
      BY <2>1, NotStopped DEF PidInv, ViewPids, Active
    <2> QED
      BY <1>0, <1>1, <2>1, <2>2, <2>3, SeesStop DEF Stopped
  <1>6. CASE StatusPoll
    <2>1. j \in JobNumber /\ view[j].status = "running" /\ call.op \in Calls
      BY <1>6 DEF StatusPoll, SafeInv, CallInv, Calls, PidInv, CallPids
    <2>2. file'[j].status = "running" /\ \A k \in JobNumber \ {j} : SameStatus(k)
      BY <1>0, <1>6, <2>1, RecordFields DEF StatusPoll, Store, SameStatus
    <2>3. file[j].status \in {"running", "completed", "failed"}
      BY <1>0, <2>1, NotStopped DEF PidInv, ViewPids, Active, Stopped, Record, Terminal
    <2>4. CASE file[j].status = "running"
      BY <1>0, <1>1, <2>2, <2>4, SeesNothing DEF SameStatus
    <2>5. CASE file[j].status \in {"completed", "failed"}
      <3>1. ~Working(j)
        BY <2>1, <2>5 DEF SafeInv, FileInv, OnRecord, Window, Calls
      <3> QED
        BY <1>0, <1>1, <2>1, <2>2, <2>5, <3>1, SeesRegress
    <2> QED
      BY <2>3, <2>4, <2>5
  <1> QED
    BY <1>2, <1>3, <1>4, <1>5, <1>6 DEF ScanAdopt, ScanEnd, StartSpawnFails, CallAnswer, CancelDenied

LEMMA LedgerHolder ==
    ASSUME PublishAssumption, TypeInv, SafeInv, PidInv, Holder
    PROVE  LedgerStep
  <1> DEFINE j == call.job
  <1>0. file \in [JobNumber -> Record] /\ view \in [JobNumber -> Record]
    BY DEF TypeInv, TypeOK
  <1>1. CASE ScanPass
    <2>1. /\ j \in JobNumber /\ call.op = "scan"
          /\ scopeOf' = scopeOf /\ proc' = proc /\ worker' = worker
      BY <1>1 DEF ScanPass
    <2>2. \A k \in JobNumber : SameWork(k)
      BY <2>1 DEF SameWork, WorkOf, Working
    <2>3. CASE Stale(view[j], j)
      <3>1. file'[j].status = "interrupted" /\ \A k \in JobNumber \ {j} : SameStatus(k)
        BY <1>0, <1>1, <2>1, <2>3, StoredStatus DEF ScanPass, Interrupted
      <3>2. proc[j] \in {"none", "gone"} /\ ~Working(j)
        BY <2>1, <2>3, StaleGone
      <3>3. file[j].status \notin Stopped \union {"none"}
        BY <2>1, <2>3, NotStopped DEF Stale, Active, PidInv, ViewPids, JobNumber
      <3> QED
        BY <2>1, <2>2, <3>1, <3>2, <3>3, SeesStop DEF Stopped
    <2>4. CASE ~Stale(view[j], j)
      BY <1>1, <2>1, <2>2, <2>4, SeesNothing DEF ScanPass, SameStatus
    <2> QED
      BY <2>3, <2>4
  <1>2. CASE StartQueue
    <2>1. PICK i \in JobNumber : /\ file[i].status = "none"
                                 /\ file' = [file EXCEPT ![i] = QueuedRecord]
                                 /\ scopeOf' = [scopeOf EXCEPT ![i] = call.scope]
      BY <1>2 DEF StartQueue, Store
    <2>2. /\ call.op = "scan" /\ call.job = 0 /\ call.scope \in Scope
          /\ proc' = proc /\ worker' = worker
          /\ \A k \in JobNumber : k > 0
      BY <1>2 DEF StartQueue, TypeInv, TypeOK, JobNumber
    <2>3. \A k \in JobNumber : SameWork(k)
      BY <2>2 DEF SameWork, WorkOf, Working
    <2>4. \A k \in JobNumber : scopeOf[k] = call.scope => ~Working(k)
      BY <2>2 DEF SafeInv, ScanInv
    <2>5. file'[i].status = "queued" /\ \A k \in JobNumber \ {i} : SameStatus(k)
      BY <1>0, <2>1, QueuedFields DEF SameStatus
    <2> QED
      BY <2>1, <2>2, <2>3, <2>4, <2>5, SeesQueue
  <1>3. CASE StartSpawn
    <2>0. PICK i \in JobNumber : i = call.job
      BY <1>3 DEF StartSpawn, SafeInv, StartInv
    <2>1. /\ call.op = "spawn" /\ i \in JobNumber
          /\ file[i].status = "queued" /\ proc[i] = "none"
          /\ \A k \in JobNumber : k # i /\ scopeOf[k] = scopeOf[i] => ~Working(k)
      BY <1>3, <2>0, QueuedFields DEF StartSpawn, SafeInv, StartInv, PidInv, CallPids
    <2>2. ~Working(i)
      BY <2>1 DEF Working
    <2>3. /\ file' = file /\ scopeOf' = scopeOf
          /\ worker' = [worker EXCEPT ![i].pc = "boot"]
          /\ proc' = [k \in JobNumber |->
                        CASE k = i -> "live"
                          [] k # i /\ proc[k] = "zombie" /\ parent[k] = lock -> "gone"
                          [] OTHER -> proc[k]]
      BY <1>3, <2>0 DEF StartSpawn
    <2>4. worker \in [JobNumber -> Worker]
      BY DEF TypeInv, TypeOK
    <2>5. WorkOf(i)' = "working"
      <3>1. proc'[i] = "live"
        BY <2>1, <2>3
      <3>2. worker'[i].pc = "boot"
        BY <2>1, <2>3, <2>4 DEF Worker
      <3>3. Working(i)'
        BY <3>1, <3>2 DEF Working
      <3> QED
        BY <3>1, <3>3 DEF WorkOf
    <2> DEFINE reaped == {k \in JobNumber : proc[k] = "zombie" /\ parent[k] = lock}
    <2>6. ASSUME NEW k \in JobNumber \ {i}
          PROVE  WorkOf(k)' = IF k \in reaped /\ WorkOf(k) = "corpse" THEN "ended" ELSE WorkOf(k)
      <3>1. worker'[k] = worker[k]
        BY <2>3, <2>4
      <3>2. CASE k \in reaped
        <4>1. proc'[k] = "gone"
          BY <2>3, <3>2
        <4>2. WorkOf(k)' = "ended"
          BY <4>1 DEF WorkOf, Working
        <4>3. WorkOf(k) = "corpse"
          BY <3>2, WorkFacts
        <4> QED
          BY <3>2, <4>2, <4>3
      <3>3. CASE k \notin reaped
        <4>1. proc'[k] = proc[k]
          BY <2>3, <3>3
        <4>2. WorkOf(k)' = WorkOf(k)
          BY <3>1, <4>1 DEF WorkOf, Working
        <4> QED
          BY <3>3, <4>2
      <3> QED
        BY <3>2, <3>3
    <2>7. \A k \in JobNumber : SameStatus(k)
      BY <2>3 DEF SameStatus
    <2>8. reaped \in SUBSET JobNumber
      OBVIOUS
    <2> HIDE DEF reaped
    <2> QED
      BY <2>1, <2>2, <2>3, <2>5, <2>6, <2>7, <2>8, SeesSpawn
  <1>4. CASE CallAlive
    BY <1>4, SeesNothing DEF CallAlive, SameStatus, SameWork, WorkOf, Working
  <1>5. CASE CancelKill
    <2>0. PICK i \in JobNumber : i = call.job
      BY <1>5 DEF CancelKill, SafeInv, CallInv, Calls
    <2>1. /\ call.op = "kill" /\ i \in JobNumber
          /\ file' = file /\ scopeOf' = scopeOf
          /\ worker' = [worker EXCEPT ![i] = NoWorker]
          /\ proc' = [proc EXCEPT ![i] = CASE proc[i] = "live" -> Corpse(i)
                                           [] proc[i] = "reused" -> "gone"
                                           [] OTHER -> proc[i]]
      BY <1>5, <2>0 DEF CancelKill, SafeInv, CallInv, Calls
    <2>2. /\ worker \in [JobNumber -> Worker]
          /\ proc \in [JobNumber -> {"none", "live", "zombie", "gone", "reused"}]
      BY DEF TypeInv, TypeOK
    <2>3. \A k \in JobNumber : SameStatus(k)
      BY <2>1 DEF SameStatus
    <2>4. \A k \in JobNumber \ {i} : SameWork(k)
      BY <2>1, <2>2 DEF SameWork, WorkOf, Working
    <2>5. CASE proc[i] # "live"
      <3>1. proc'[i] = IF proc[i] = "reused" THEN "gone" ELSE proc[i]
        BY <2>1, <2>2, <2>5
      <3>2. SameWork(i)
        BY <2>2, <2>5, <3>1 DEF SameWork, WorkOf, Working
      <3> QED
        BY <2>1, <2>3, <2>4, <3>2, SeesNothing
    <2>6. CASE proc[i] = "live"
      <3>1. proc'[i] = IF parent[i] = NoClient THEN "gone" ELSE "zombie"
        BY <2>1, <2>2, <2>6 DEF Corpse
      <3> DEFINE end == IF parent[i] = NoClient THEN "ended" ELSE "corpse"
      <3>2. WorkOf(i)' = end
        BY <3>1 DEF WorkOf, Working
      <3>3. CASE Working(i)
        BY <2>1, <2>3, <2>4, <3>2, <3>3, SeesDie
      <3>4. CASE ~Working(i)
        <4>1. WorkOf(i) = "corpse"
          BY <2>1, <2>6, <3>4, WorkFacts
        <4>2. CASE parent[i] = NoClient
          <5>1. \A k \in JobNumber :
                    WorkOf(k)' = IF k \in {i} /\ WorkOf(k) = "corpse" THEN "ended" ELSE WorkOf(k)
            BY <2>4, <3>2, <4>1, <4>2 DEF SameWork
          <5> QED
            BY <2>1, <2>3, <5>1, SeesReap
        <4>3. CASE parent[i] # NoClient
          BY <2>1, <2>3, <2>4, <3>2, <4>1, <4>3, SeesNothing DEF SameWork
        <4> QED
          BY <4>2, <4>3
      <3> QED
        BY <3>3, <3>4
    <2> QED
      BY <2>5, <2>6
  <1> QED
    BY <1>1, <1>2, <1>3, <1>4, <1>5, LedgerReply DEF Holder

\* Clients that reap, or die and leave their corpses to be reaped.
LEMMA LedgerClient ==
    ASSUME TypeInv, NEW c \in Client, Reap(c) \/ ClientCrash(c)
    PROVE  LedgerStep
  <1>1. /\ file' = file /\ scopeOf' = scopeOf /\ worker' = worker
        /\ proc' = [k \in JobNumber |->
                      IF proc[k] = "zombie" /\ parent[k] = c THEN "gone" ELSE proc[k]]
    BY DEF Reap, ClientCrash
  <1> DEFINE reaped == {k \in JobNumber : proc[k] = "zombie" /\ parent[k] = c}
  <1>2. ASSUME NEW k \in JobNumber
        PROVE  WorkOf(k)' = IF k \in reaped /\ WorkOf(k) = "corpse" THEN "ended" ELSE WorkOf(k)
    <2>1. CASE k \in reaped
      <3>1. proc'[k] = "gone"
        BY <1>1, <2>1
      <3>2. WorkOf(k)' = "ended"
        BY <3>1 DEF WorkOf, Working
      <3>3. WorkOf(k) = "corpse"
        BY <2>1, WorkFacts
      <3> QED
        BY <2>1, <3>2, <3>3
    <2>2. CASE k \notin reaped
      <3>1. proc'[k] = proc[k]
        BY <1>1, <2>2
      <3>2. WorkOf(k)' = WorkOf(k)
        BY <1>1, <3>1 DEF WorkOf, Working
      <3> QED
        BY <2>2, <3>2
    <2> QED
      BY <2>1, <2>2
  <1>3. \A k \in JobNumber : SameStatus(k)
    BY <1>1 DEF SameStatus
  <1>4. reaped \in SUBSET JobNumber
    OBVIOUS
  <1> HIDE DEF reaped
  <1> QED
    BY <1>1, <1>2, <1>3, <1>4, SeesReap

\* A worker that is killed, and a pid that is given to another process.
LEMMA LedgerProcess ==
    ASSUME TypeInv, NEW j \in JobNumber, WorkerCrash(j) \/ ReusePid(j)
    PROVE  LedgerStep
  <1>0. /\ worker \in [JobNumber -> Worker]
        /\ proc \in [JobNumber -> {"none", "live", "zombie", "gone", "reused"}]
    BY DEF TypeInv, TypeOK
  <1>1. CASE WorkerCrash(j)
    <2>1. /\ Working(j) /\ file' = file /\ scopeOf' = scopeOf
          /\ proc' = [proc EXCEPT ![j] = Corpse(j)]
          /\ worker' = [worker EXCEPT ![j] = NoWorker]
      BY <1>1 DEF WorkerCrash, WorkerEnd
    <2>2. \A k \in JobNumber \ {j} : SameWork(k)
      BY <1>0, <2>1 DEF SameWork, WorkOf, Working
    <2>3. proc'[j] = IF parent[j] = NoClient THEN "gone" ELSE "zombie"
      BY <1>0, <2>1 DEF Corpse
    <2>4. WorkOf(j)' = IF parent[j] = NoClient THEN "ended" ELSE "corpse"
      BY <2>3 DEF WorkOf, Working
    <2>5. \A k \in JobNumber : SameStatus(k)
      BY <2>1 DEF SameStatus
    <2> QED
      BY <2>1, <2>2, <2>4, <2>5, SeesDie
  <1>2. CASE ReusePid(j)
    <2>1. /\ proc[j] = "gone" /\ proc' = [proc EXCEPT ![j] = "reused"]
          /\ file' = file /\ scopeOf' = scopeOf /\ worker' = worker
      BY <1>2 DEF ReusePid
    <2>2. \A k \in JobNumber : SameWork(k)
      BY <1>0, <2>1 DEF SameWork, WorkOf, Working
    <2> QED
      BY <2>1, <2>2, SeesNothing DEF SameStatus
  <1> QED
    BY <1>1, <1>2

LEMMA LedgerNext ==
    ASSUME PublishAssumption, TypeInv, SafeInv, PidInv, [Next]_vars
    PROVE  LedgerStep
  <1>1. CASE UNCHANGED <<file, scopeOf, proc, worker>>
    <2>1. \A k \in JobNumber : SameStatus(k) /\ SameWork(k)
      BY <1>1 DEF SameStatus, SameWork, WorkOf, Working
    <2> QED
      BY <1>1, <2>1, SeesNothing
  <1>2. ASSUME NEW j \in JobNumber, WorkerStep(j) PROVE LedgerStep
    BY <1>2, LedgerWorker
  <1> QED
    BY <1>1, <1>2, LedgerHolder, LedgerClient, LedgerProcess
    DEF Next, BeginScan, BeginCall, vars

LEMMA LedgerInit == Init => Ledger!Init
  <1> SUFFICES ASSUME Init PROVE Ledger!Init
    OBVIOUS
  <1>1. \A j \in JobNumber : file[j].status = "none" /\ WorkOf(j) = "none"
    BY DEF Init, NoFiles, NoRecord, WorkOf, Working
  <1>2. Status = [j \in JobNumber |-> "none"] /\ Work = [j \in JobNumber |-> "none"]
    BY <1>1 DEF Status, Work
  <1>3. scopeOf = [j \in JobNumber |-> NoScope]
    BY DEF Init
  <1> QED
    BY <1>2, <1>3 DEF Ledger!Init, Status, Work, WorkOf

\* The refresh jobs implement the ledger their callers rely on: a job is queued and
\* gets a worker only while no other works in its scope; a result is recorded by
\* its worker, once; "interrupted" and "cancelled" are recorded for good, when the
\* worker is gone or works no more; and a late status request can at worst turn a
\* result back into "running".
THEOREM LedgerCorrect == ASSUME PublishAssumption PROVE Spec => LedgerSpec
  <1>1. Init => Ledger!Init
    BY LedgerInit
  <1>2. TypeInv /\ SafeInv /\ PidInv /\ [Next]_vars => [Ledger!Next]_(Ledger!vars)
    BY PublishAssumption, LedgerNext DEF LedgerStep
  <1> QED
    BY <1>1, <1>2, PidCorrect, PTL DEF Spec, LedgerSpec, Ledger!Spec

=============================================================================
