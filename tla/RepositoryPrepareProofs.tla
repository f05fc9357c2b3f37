----------------------- MODULE RepositoryPrepareProofs -----------------------
(***************************************************************************)
(* Proofs about RepositoryPrepare, for any number of preparations, refresh  *)
(* jobs and edits, and whatever of the World happens.                      *)
(*                                                                         *)
(* Two invariants carry the argument.  ReadyInv follows what a worker has   *)
(* verified: it is of a source no older than the preparation.  ChildInv     *)
(* follows the children a preparation has started: while its worker is at   *)
(* work the only one that may be working is the child it publishes, records *)
(* or waits for, and it stops waiting when that one works no more.         *)
(***************************************************************************)
EXTENDS RepositoryPrepare, TLAPS

Statuses == {"none", "queued", "running", "completed", "failed", "cancelled", "interrupted", "blocked"}
FileRecord == [status : Statuses, child : 0 .. MaxChildren, ready : Nat]
Process == {"none", "working", "corpse", "ended"}
WorkerState == [pc : {"none", "check", "start", "spawn", "publish", "record", "wait", "verify",
                      "blockers", "probe", "ready", "exit"},
                stage : Kind, child : 0 .. MaxChildren, seen : Nat]
IndexerState == [pc : {"new", "scanned", "indexed", "broken"}, seen : Nat]
Call == [op : {"idle", "status", "cancel", "childrecord", "kill", "record"},
         job : 0 .. MaxParents, view : FileRecord]

TypeIndex == source \in Nat /\ lexical \in Nat /\ vector \in Nat

TypeChildren ==
    /\ childStatus \in [Child -> Statuses]
    /\ childKind \in [Child -> Kind \cup {"none"}]
    /\ childWork \in [Child -> Process]
    /\ starter \in [Child -> 0 .. MaxParents]
    /\ indexer \in [Child -> IndexerState]
    /\ childLock \in [Kind -> 0 .. MaxChildren]

TypeParents ==
    /\ file \in [Parent -> FileRecord]
    /\ mode \in [Parent -> {"full", "local"}]
    /\ born \in [Parent -> Nat]
    /\ work \in [Parent -> Process]
    /\ worker \in [Parent -> WorkerState]
    /\ call \in Call /\ (call.op # "idle" => call.job \in Parent)

TypeOK == TypeIndex /\ TypeChildren /\ TypeParents

(* A preparation starts at the version the source has; what its worker has  *)
(* verified, and the readiness on record, are of that version or a later    *)
(* one; a number that is not used yet has no worker.                       *)
ReadyInv ==
    \A p \in Parent :
        /\ born[p] <= source
        /\ file[p].status = "none" => worker[p] = NoWorker
        /\ worker[p].pc \in {"probe", "ready"} => born[p] <= worker[p].seen
        /\ file[p].status = "completed" => born[p] <= file[p].ready

(* The child the worker of p publishes, records or waits for. *)
Minds(p, c) == worker[p].pc \in {"publish", "record", "wait"} /\ worker[p].child = c

(* A job is not at work before it is queued nor after its end, and belongs  *)
(* to nobody before it is queued.                                          *)
LedgerInv ==
    \A c \in Child :
        /\ childStatus[c] \in {"none"} \cup ChildTerminal => childWork[c] # "working"
        /\ childStatus[c] = "none" => starter[c] = 0

(* The children of p that are at work: none but the one its worker minds,   *)
(* unless the worker was killed or gave up; none when p is completed, and    *)
(* none at all before p is started.                                        *)
ChildrenOf(p) ==
    /\ worker[p].pc = "spawn" => worker[p].child \in Started(p)
    /\ file[p].status = "completed" => worker[p].pc \in {"none", "exit"}
    /\ file[p].status = "none" => Started(p) = {}
    /\ \A c \in Started(p) : childWork[c] = "working" =>
           /\ file[p].status # "completed"
           /\ worker[p].pc \notin {"none", "exit"} => Minds(p, c)

ChildInv == \A p \in Parent : ChildrenOf(p)

-----------------------------------------------------------------------------
(* Types.                                                                  *)

LEMMA Numbers == MaxParents \in Nat /\ MaxChildren \in Nat
BY PrepareAssumption

LEMMA InitType == Init => TypeOK
<1> SUFFICES ASSUME Init PROVE TypeOK
  OBVIOUS
<1>1. TypeIndex
  BY DEF Init, TypeIndex
<1>2. TypeChildren
  BY Numbers DEF Init, TypeChildren, Ledger!Init, Statuses, Process, NoIndexer, IndexerState
<1>3. TypeParents
  <2>1. NoRecord \in FileRecord /\ NoWorker \in WorkerState
    BY Numbers DEF NoRecord, NoWorker, FileRecord, Statuses, WorkerState, Kind
  <2>2. call \in Call /\ call.op = "idle"
    BY <2>1, Numbers DEF Init, Idle, Call
  <2> QED
    BY <2>1, <2>2 DEF Init, TypeParents, Process
<1> QED
  BY <1>1, <1>2, <1>3 DEF TypeOK

LEMMA LockedType ==
    ASSUME NEW lock \in [Kind -> 0 .. MaxChildren], NEW k, NEW c \in Child \cup {0}
    PROVE  [lock EXCEPT ![k] = c] \in [Kind -> 0 .. MaxChildren]
<1>1. c \in 0 .. MaxChildren
  BY Numbers DEF Child
<1> QED
  BY <1>1

LEMMA QueueType ==
    ASSUME TypeOK, NEW k \in Kind, NEW p \in 0 .. MaxParents, NEW c \in Child, QueueNew(k, p, c)
    PROVE  TypeIndex' /\ TypeChildren'
<1>1. childStatus' \in [Child -> Statuses] /\ childKind' \in [Child -> Kind \cup {"none"}]
      /\ childWork' \in [Child -> Process]
  BY DEF QueueNew, Ledger!Queue, Ledger!Become, TypeOK, TypeChildren, Statuses
<1>2. starter' \in [Child -> 0 .. MaxParents] /\ indexer' \in [Child -> IndexerState]
      /\ childLock' \in [Kind -> 0 .. MaxChildren]
  BY Numbers DEF QueueNew, Lock, TypeOK, TypeChildren, Child
<1> QED
  BY <1>1, <1>2 DEF QueueNew, index, TypeOK, TypeIndex, TypeChildren

LEMMA SpawnType ==
    ASSUME TypeOK, NEW c, SpawnNew(c)
    PROVE  TypeIndex' /\ TypeChildren'
<1>1. childStatus' \in [Child -> Statuses] /\ childKind' \in [Child -> Kind \cup {"none"}]
      /\ childWork' \in [Child -> Process]
  <2> DEFINE spawned(k) == CASE k = c -> "working"
                             [] k # c /\ k \in Started(starter[c]) /\ childWork[k] = "corpse" -> "ended"
                             [] OTHER -> childWork[k]
  <2>1. childWork' = [k \in Child |-> spawned(k)]
    BY DEF SpawnNew, Ledger!Spawn
  <2>2. ASSUME NEW k \in Child PROVE spawned(k) \in Process
    BY DEF TypeOK, TypeChildren, Process
  <2> HIDE DEF spawned
  <2>3. childWork' \in [Child -> Process]
    BY <2>1, <2>2
  <2> QED
    BY <2>3 DEF SpawnNew, Ledger!Spawn, TypeOK, TypeChildren
<1> QED
  BY <1>1 DEF SpawnNew, index, TypeOK, TypeIndex, TypeChildren

LEMMA PublishType ==
    ASSUME TypeOK, NEW c, PublishNew(c)
    PROVE  TypeIndex' /\ TypeChildren'
<1>1. childLock' \in [Kind -> 0 .. MaxChildren]
  BY LockedType DEF PublishNew, Lock, TypeOK, TypeChildren
<1>2. childStatus' \in [Child -> Statuses]
  BY DEF PublishNew, Ledger!Publish, Ledger!Become, TypeOK, TypeChildren, Statuses
<1> QED
  BY <1>1, <1>2 DEF PublishNew, Ledger!Publish, index, TypeOK, TypeIndex, TypeChildren

LEMMA KillType ==
    ASSUME TypeOK, NEW c \in Child, KillChild(c)
    PROVE  TypeIndex' /\ TypeChildren'
<1>1. childStatus' \in [Child -> Statuses] /\ childKind' \in [Child -> Kind \cup {"none"}]
      /\ childWork' \in [Child -> Process]
  BY DEF KillChild, Ledger!Die, TypeOK, TypeChildren, Process
<1>2. indexer' \in [Child -> IndexerState]
  BY DEF KillChild, Ends, NoIndexer, IndexerState, TypeOK, TypeChildren
<1>3. childLock' \in [Kind -> 0 .. MaxChildren]
  BY LockedType DEF KillChild, Lock, TypeOK, TypeChildren
<1> QED
  BY <1>1, <1>2, <1>3 DEF KillChild, index, TypeOK, TypeIndex, TypeChildren

LEMMA RecordKillType ==
    ASSUME TypeOK, NEW c, RecordKill(c)
    PROVE  TypeIndex' /\ TypeChildren'
<1>1. childLock' \in [Kind -> 0 .. MaxChildren]
  BY LockedType DEF RecordKill, Lock, TypeOK, TypeChildren
<1>2. childStatus' \in [Child -> Statuses]
  BY DEF RecordKill, Ledger!Stop, Ledger!Become, TypeOK, TypeChildren, Statuses
<1> QED
  BY <1>1, <1>2 DEF RecordKill, Ledger!Stop, index, TypeOK, TypeIndex, TypeChildren

(* What a worker's end leaves of the children: at most a lock less. *)
LEMMA LockType ==
    ASSUME TypeOK,
           childLock' = childLock \/ \E k : childLock' = [childLock EXCEPT ![k] = 0],
           UNCHANGED <<index, childStatus, childKind, childWork, starter, indexer>>
    PROVE  TypeIndex' /\ TypeChildren'
<1>1. childLock' \in [Kind -> 0 .. MaxChildren]
  BY LockedType DEF TypeOK, TypeChildren
<1> QED
  BY <1>1 DEF index, TypeOK, TypeIndex, TypeChildren

(* The steps of the world, of the clients and of the children leave the     *)
(* preparations alone.                                                     *)
Outside(c) ==
    \/ ChildStep(c)
    \/ ClientAbandons(c)
    \/ ClientKillsChild(c)
    \/ ChildFail(c)
    \/ ChildDies(c)
    \/ RegressChild(c)

LEMMA OutsideType ==
    ASSUME TypeOK, NEW c \in Child, Outside(c)
    PROVE  TypeIndex' /\ TypeChildren' /\ UNCHANGED <<parents, call>>
<1>1. CASE ClientSpawns(c)
  BY <1>1, SpawnType DEF ClientSpawns
<1>2. CASE ClientPublishes(c)
  BY <1>2, PublishType DEF ClientPublishes
<1>3. CASE InterruptChild(c)
  BY <1>3 DEF InterruptChild, Ledger!Stop, Ledger!Become, index, TypeOK, TypeIndex, TypeChildren, Statuses
<1>4. CASE ClientRecordsKill(c)
  BY <1>4, RecordKillType DEF ClientRecordsKill
<1>5. CASE ChildScan(c)
  <2>1. indexer' \in [Child -> IndexerState]
    BY <1>5 DEF ChildScan, TypeOK, TypeIndex, TypeChildren, IndexerState
  <2> QED
    BY <1>5, <2>1 DEF ChildScan, index, TypeOK, TypeIndex, TypeChildren
<1>6. CASE ChildIndex(c)
  <2>1. indexer' \in [Child -> IndexerState]
    BY <1>6 DEF ChildIndex, TypeOK, TypeIndex, TypeChildren, IndexerState
  <2>2. lexical' \in Nat /\ vector' \in Nat
    BY <1>6 DEF ChildIndex, TypeOK, TypeIndex, TypeChildren, IndexerState
  <2> QED
    BY <1>6, <2>1, <2>2 DEF ChildIndex, TypeOK, TypeIndex, TypeChildren
<1>7. CASE ChildFinish(c) \/ ChildFail(c)
  <2>1. PICK result \in {"completed", "failed"} : Ledger!Settle(c, result)
    BY <1>7 DEF ChildFinish, ChildFail, ChildResult
  <2>2. childStatus' \in [Child -> Statuses] /\ childWork' \in [Child -> Process] /\ childKind' = childKind
    BY <2>1 DEF Ledger!Settle, Ledger!Become, TypeOK, TypeChildren, Statuses, Process
  <2>3. indexer' \in [Child -> IndexerState]
    BY <1>7 DEF ChildFinish, ChildFail, Ends, TypeOK, TypeChildren, NoIndexer, IndexerState
  <2> QED
    BY <1>7, <2>2, <2>3 DEF ChildFinish, ChildFail, index, TypeOK, TypeIndex, TypeChildren
<1>8. CASE ClientAbandons(c)
  <2>1. (\E k : childLock' = [childLock EXCEPT ![k] = 0])
        /\ UNCHANGED <<index, childStatus, childKind, childWork, starter, indexer>>
    BY <1>8 DEF ClientAbandons, Lock
  <2> QED
    BY <1>8, <2>1, LockType DEF ClientAbandons
<1>9. CASE ClientKillsChild(c)
  BY <1>9, KillType DEF ClientKillsChild
<1>10. CASE ChildDies(c)
  BY <1>10 DEF ChildDies, Ledger!Die, Ends, NoIndexer, IndexerState, index, TypeOK, TypeIndex,
     TypeChildren, Process
<1>11. CASE RegressChild(c)
  BY <1>11 DEF RegressChild, Ledger!Regress, Ledger!Become, index, TypeOK, TypeIndex, TypeChildren, Statuses
<1>12. UNCHANGED <<parents, call>>
  BY DEF Outside, ChildStep, ClientSpawns, ClientPublishes, InterruptChild, ClientRecordsKill, ChildScan,
     ChildIndex, ChildFinish, ClientAbandons, ClientKillsChild, ChildFail, ChildDies, RegressChild
<1> QED
  BY <1>1, <1>2, <1>3, <1>4, <1>5, <1>6, <1>7, <1>8, <1>9, <1>10, <1>11, <1>12 DEF Outside, ChildStep

LEMMA ReapType ==
    ASSUME TypeOK, NEW p \in 0 .. MaxParents, ReapChildren(p)
    PROVE  TypeIndex' /\ TypeChildren'
<1>1. childWork' \in [Child -> Process]
  BY DEF ReapChildren, Ledger!Reap, TypeOK, TypeChildren, Process
<1> QED
  BY <1>1 DEF ReapChildren, Ledger!Reap, index, TypeOK, TypeIndex, TypeChildren

(* Records of preparations and of workers stay well typed. *)
PcValue == {"none", "check", "start", "spawn", "publish", "record", "wait", "verify", "blockers", "probe",
            "ready", "exit"}

LEMMA RecordStatus ==
    ASSUME NEW rec \in FileRecord, NEW s \in Statuses
    PROVE  [rec EXCEPT !.status = s] \in FileRecord
BY DEF FileRecord

LEMMA RecordChild ==
    ASSUME NEW rec \in FileRecord, NEW n \in 0 .. MaxChildren
    PROVE  [rec EXCEPT !.child = n] \in FileRecord
BY DEF FileRecord

LEMMA RecordBoth ==
    ASSUME NEW rec \in FileRecord, NEW n \in 0 .. MaxChildren, NEW s \in Statuses
    PROVE  [rec EXCEPT !.child = n, !.status = s] \in FileRecord
BY DEF FileRecord

LEMMA RecordReady ==
    ASSUME NEW rec \in FileRecord, NEW s \in Statuses, NEW v \in Nat
    PROVE  [rec EXCEPT !.status = s, !.ready = v] \in FileRecord
BY DEF FileRecord

LEMMA RecordsTyped ==
    ASSUME TypeOK
    PROVE  /\ \A p \in Parent : file[p] \in FileRecord
           /\ call.view \in FileRecord /\ NoRecord \in FileRecord /\ 0 \in 0 .. MaxChildren
BY Numbers DEF TypeOK, TypeParents, Call, NoRecord, FileRecord, Statuses

LEMMA StoreType ==
    ASSUME TypeOK, NEW p, NEW rec \in FileRecord, Store(p, rec)
    PROVE  file' \in [Parent -> FileRecord]
BY DEF Store, TypeOK, TypeParents

LEMMA GotoPc ==
    ASSUME TypeOK, NEW p \in Parent, NEW pc \in PcValue, Goto(p, pc)
    PROVE  worker' \in [Parent -> WorkerState]
BY DEF Goto, TypeOK, TypeParents, WorkerState, PcValue

LEMMA GotoChild ==
    ASSUME TypeOK, NEW p \in Parent, NEW pc \in PcValue, NEW n \in Child,
           worker' = [worker EXCEPT ![p].pc = pc, ![p].child = n]
    PROVE  worker' \in [Parent -> WorkerState]
<1>1. n \in 0 .. MaxChildren
  BY Numbers DEF Child
<1> QED
  BY ZenonT(60), <1>1 DEF TypeOK, TypeParents, WorkerState, PcValue

LEMMA GotoSeen ==
    ASSUME TypeOK, NEW p \in Parent, NEW pc \in PcValue, NEW v \in Nat,
           worker' = [worker EXCEPT ![p].child = 0, ![p].seen = v, ![p].pc = pc]
    PROVE  worker' \in [Parent -> WorkerState]
<1>1. worker[p] \in WorkerState /\ 0 \in 0 .. MaxChildren
  BY Numbers DEF TypeOK, TypeParents
<1>2. [worker[p] EXCEPT !.child = 0, !.seen = v, !.pc = pc] \in WorkerState
  BY <1>1 DEF WorkerState, PcValue
<1>3. worker' = [worker EXCEPT ![p] = [worker[p] EXCEPT !.child = 0, !.seen = v, !.pc = pc]]
  BY <1>1 DEF TypeOK, TypeParents, WorkerState
<1> QED
  BY <1>2, <1>3 DEF TypeOK, TypeParents

LEMMA GotoStage ==
    ASSUME TypeOK, NEW p \in Parent, NEW pc \in PcValue, NEW k \in Kind,
           worker' = [worker EXCEPT ![p].pc = pc, ![p].stage = k]
    PROVE  worker' \in [Parent -> WorkerState]
BY ZenonT(60) DEF TypeOK, TypeParents, WorkerState, PcValue

LEMMA LeaveType ==
    ASSUME TypeOK, NEW p \in Parent,
           Leave(p) \/ worker' = [worker EXCEPT ![p] = NoWorker]
    PROVE  worker' \in [Parent -> WorkerState]
<1>1. NoWorker \in WorkerState /\ [NoWorker EXCEPT !.pc = "exit"] \in WorkerState
  BY Numbers DEF NoWorker, WorkerState, Kind
<1> QED
  BY <1>1 DEF Leave, TypeOK, TypeParents

(* Leaving off with a status, and the end of the worker. *)
LEMMA FailType ==
    ASSUME TypeOK, NEW p \in Parent, NEW as \in Statuses, Fail(p, as)
    PROVE  TypeParents'
<1>1. file' \in [Parent -> FileRecord]
  <2>1. [file[p] EXCEPT !.status = as] \in FileRecord
    BY RecordsTyped, RecordStatus
  <2> QED
    BY <2>1, StoreType DEF Fail
<1>2. worker' \in [Parent -> WorkerState]
  BY LeaveType DEF Fail
<1> QED
  BY <1>1, <1>2 DEF Fail, Own, TypeOK, TypeParents

LEMMA EndType ==
    ASSUME TypeOK, NEW p \in Parent, WorkerEnds(p)
    PROVE  /\ TypeIndex' /\ TypeChildren'
           /\ work' \in [Parent -> Process] /\ worker' \in [Parent -> WorkerState]
<1>1. childLock' = childLock \/ \E k : childLock' = [childLock EXCEPT ![k] = 0]
  BY DEF WorkerEnds
<1>2. TypeIndex' /\ TypeChildren'
  BY <1>1, LockType DEF WorkerEnds
<1>3. worker' \in [Parent -> WorkerState]
  BY LeaveType DEF WorkerEnds
<1>4. work' \in [Parent -> Process]
  BY DEF WorkerEnds, TypeOK, TypeParents, Process
<1> QED
  BY <1>2, <1>3, <1>4

(* A step of a worker other than its end. *)
WorkerActs(p) ==
    \/ Check(p)
    \/ Adopt(p)
    \/ Queue(p)
    \/ Spawn(p)
    \/ SpawnFails(p)
    \/ Publish(p)
    \/ Record(p)
    \/ Wait(p)
    \/ Verify(p)
    \/ Blockers(p)
    \/ Probe(p)
    \/ Ready(p)
    \/ Raise(p)

LEMMA GotoType ==
    ASSUME TypeOK, NEW p \in Parent, NEW pc \in PcValue, Goto(p, pc),
           file' \in [Parent -> FileRecord], UNCHANGED Own
    PROVE  TypeParents'
<1>1. worker' \in [Parent -> WorkerState]
  BY GotoPc
<1> QED
  BY <1>1 DEF Own, TypeOK, TypeParents

LEMMA WorkerType ==
    ASSUME TypeOK, NEW p \in Parent, WorkerActs(p)
    PROVE  TypeOK'
<1>0. file \in [Parent -> FileRecord] /\ worker \in [Parent -> WorkerState] /\ worker[p].stage \in Kind
      /\ worker[p].child \in 0 .. MaxChildren /\ worker[p].seen \in Nat
  BY DEF TypeOK, TypeParents, WorkerState
<1>1. CASE Check(p)
  <2>1. PICK pc \in {"verify", "start"} : Goto(p, pc)
    BY <1>1 DEF Check
  <2>2. TypeParents'
    BY <1>0, <1>1, <2>1, GotoType DEF Check, PcValue
  <2> QED
    BY <1>1, <2>2 DEF Check, index, children, TypeOK, TypeIndex, TypeChildren
<1>2. CASE Adopt(p)
  <2>1. PICK c \in Child : worker' = [worker EXCEPT ![p].pc = "record", ![p].child = c]
    BY <1>2 DEF Adopt
  <2>2. worker' \in [Parent -> WorkerState]
    BY <2>1, GotoChild DEF PcValue
  <2> QED
    BY <1>2, <2>2 DEF Adopt, Own, index, children, TypeOK, TypeIndex, TypeChildren, TypeParents
<1>3. CASE Queue(p)
  <2>1. PICK c \in Child : /\ QueueNew(worker[p].stage, p, c)
                           /\ worker' = [worker EXCEPT ![p].pc = "spawn", ![p].child = c]
    BY <1>3 DEF Queue
  <2>2. worker' \in [Parent -> WorkerState]
    BY <2>1, GotoChild DEF PcValue
  <2>3. p \in 0 .. MaxParents
    BY Numbers DEF Parent
  <2>4. TypeIndex' /\ TypeChildren'
    BY <1>0, <2>1, <2>3, QueueType
  <2> QED
    BY <1>3, <2>2, <2>4 DEF Queue, Own, TypeOK, TypeParents
<1>4. CASE Spawn(p)
  <2>1. TypeIndex' /\ TypeChildren'
    BY <1>4, SpawnType DEF Spawn
  <2>2. TypeParents'
    BY <1>0, <1>4, GotoType DEF Spawn, PcValue
  <2> QED
    BY <2>1, <2>2 DEF TypeOK
<1>5. CASE SpawnFails(p)
  <2>1. \E k : childLock' = [childLock EXCEPT ![k] = 0]
    BY <1>5 DEF SpawnFails, Lock
  <2>2. TypeIndex' /\ TypeChildren'
    BY <1>5, <2>1, LockType DEF SpawnFails
  <2>3. TypeParents'
    BY <1>5, FailType DEF SpawnFails, Statuses
  <2> QED
    BY <2>2, <2>3 DEF TypeOK
<1>6. CASE Publish(p)
  <2>1. TypeIndex' /\ TypeChildren'
    BY <1>6, PublishType DEF Publish
  <2>2. TypeParents'
    BY <1>0, <1>6, GotoType DEF Publish, PcValue
  <2> QED
    BY <2>1, <2>2 DEF TypeOK
<1>7. CASE Record(p)
  <2>1. file' \in [Parent -> FileRecord]
    BY <1>0, <1>7, RecordsTyped, RecordChild, StoreType DEF Record
  <2>2. TypeParents'
    BY <1>7, <2>1, GotoType DEF Record, PcValue
  <2> QED
    BY <1>7, <2>2 DEF Record, index, children, TypeOK, TypeIndex, TypeChildren
<1>8. CASE Wait(p)
  <2>1. ASSUME Goto(p, "verify"), UNCHANGED <<file, Own>> PROVE TypeParents'
    BY <1>0, <2>1, GotoType DEF PcValue
  <2>2. ASSUME NEW as \in {"blocked", "failed"}, Fail(p, as) PROVE TypeParents'
    BY <2>2, FailType DEF Statuses
  <2>3. TypeParents'
    BY <1>8, <2>1, <2>2 DEF Wait
  <2> QED
    BY <1>8, <2>3 DEF Wait, index, children, TypeOK, TypeIndex, TypeChildren
<1>9. CASE Verify(p)
  <2>1. ASSUME Current(worker[p].stage) PROVE TypeParents'
    <3> DEFINE seen == IF worker[p].stage = "vector" THEN vector ELSE lexical
               pc == IF worker[p].stage = "vector" THEN "probe"
                     ELSE IF mode[p] = "local" THEN "ready" ELSE "blockers"
    <3>1. seen \in Nat /\ pc \in {"probe", "ready", "blockers"}
      BY DEF TypeOK, TypeIndex
    <3>2. worker' = [worker EXCEPT ![p].child = 0, ![p].seen = seen, ![p].pc = pc]
          /\ file' = [file EXCEPT ![p] = [file[p] EXCEPT !.child = 0]]
      BY <1>9, <2>1 DEF Verify, Store
    <3> HIDE DEF seen, pc
    <3>3. worker' \in [Parent -> WorkerState]
      BY <3>1, <3>2, GotoSeen DEF PcValue
    <3>4. file' \in [Parent -> FileRecord]
      BY <3>2, RecordsTyped, RecordChild, StoreType DEF Store
    <3> QED
      BY <1>9, <3>3, <3>4 DEF Verify, Own, TypeOK, TypeParents
  <2>2. ASSUME ~Current(worker[p].stage) PROVE TypeParents'
    <3>1. worker' \in [Parent -> WorkerState]
      BY <1>9, <2>2, LeaveType DEF Verify
    <3>2. file' \in [Parent -> FileRecord]
      <4>1. [file[p] EXCEPT !.child = 0, !.status = "failed"] \in FileRecord
        BY RecordsTyped, RecordBoth DEF Statuses
      <4> QED
        BY <1>9, <2>2, <4>1, StoreType DEF Verify
    <3> QED
      BY <1>9, <3>1, <3>2 DEF Verify, Own, TypeOK, TypeParents
  <2> QED
    BY <1>9, <2>1, <2>2 DEF Verify, index, children, TypeOK, TypeIndex, TypeChildren
<1>10. CASE Blockers(p)
  <2>1. ASSUME worker' = [worker EXCEPT ![p].pc = "check", ![p].stage = "vector"], UNCHANGED <<file, Own>>
        PROVE  TypeParents'
    BY <2>1, GotoStage DEF PcValue, Kind, Own, TypeOK, TypeParents
  <2>2. ASSUME Fail(p, "blocked") PROVE TypeParents'
    BY <2>2, FailType DEF Statuses
  <2> QED
    BY <1>10, <2>1, <2>2 DEF Blockers, index, children, TypeOK, TypeIndex, TypeChildren
<1>11. CASE Probe(p)
  <2>1. ASSUME Goto(p, "ready"), UNCHANGED <<file, Own>> PROVE TypeParents'
    BY <1>0, <2>1, GotoType DEF PcValue
  <2>2. ASSUME Fail(p, "blocked") PROVE TypeParents'
    BY <2>2, FailType DEF Statuses
  <2> QED
    BY <1>11, <2>1, <2>2 DEF Probe, index, children, TypeOK, TypeIndex, TypeChildren
<1>12. CASE Ready(p)
  <2>1. file' \in [Parent -> FileRecord]
    <3>1. [file[p] EXCEPT !.status = "completed", !.ready = worker[p].seen] \in FileRecord
      BY <1>0, RecordsTyped, RecordReady DEF Statuses
    <3> QED
      BY <1>12, <3>1, StoreType DEF Ready
  <2>2. worker' \in [Parent -> WorkerState]
    BY <1>12, LeaveType DEF Ready
  <2> QED
    BY <1>12, <2>1, <2>2 DEF Ready, Own, index, children, TypeOK, TypeIndex, TypeChildren, TypeParents
<1>13. CASE Raise(p)
  BY <1>13, FailType DEF Raise, Statuses, index, children, TypeOK, TypeIndex, TypeChildren
<1> QED
  BY <1>1, <1>2, <1>3, <1>4, <1>5, <1>6, <1>7, <1>8, <1>9, <1>10, <1>11, <1>12, <1>13 DEF WorkerActs

(* What a client does with the preparations. *)
ClientActs ==
    \/ \E p \in Parent, m \in {"full", "local"} : StartParent(m, p)
    \/ \E p \in Parent : BeginCall("status", p) \/ BeginCall("cancel", p) \/ ReapParent(p)
    \/ CallStale \/ CallAnswer \/ CancelNoChild \/ CancelRecord

LEMMA IdleType == ASSUME TypeOK PROVE Idle \in Call
BY RecordsTyped, Numbers DEF Idle, Call

LEMMA ClientType ==
    ASSUME TypeOK, ClientActs
    PROVE  TypeParents' /\ UNCHANGED <<index, children>>
<1>1. UNCHANGED <<index, children>>
  BY DEF ClientActs, StartParent, BeginCall, ReapParent, CallStale, CallAnswer, CancelNoChild, CancelRecord
<1>2. ASSUME NEW p \in Parent, NEW m \in {"full", "local"}, StartParent(m, p)
      PROVE  TypeParents'
  <2>1. mode' \in [Parent -> {"full", "local"}] /\ born' \in [Parent -> Nat]
    BY <1>2 DEF StartParent, TypeOK, TypeIndex, TypeParents
  <2>2. PICK s \in {"running", "queued"} : Store(p, [NoRecord EXCEPT !.status = s])
    BY <1>2 DEF StartParent
  <2>3. file' \in [Parent -> FileRecord]
    <3>1. [NoRecord EXCEPT !.status = s] \in FileRecord
      BY RecordsTyped, RecordStatus DEF Statuses
    <3> QED
      BY <2>2, <3>1, StoreType
  <2>4. worker' = worker \/ Goto(p, "check")
    BY <1>2 DEF StartParent, Goto
  <2>5. worker' \in [Parent -> WorkerState]
    BY <2>4, GotoPc DEF PcValue, TypeOK, TypeParents
  <2>6. work' \in [Parent -> Process]
    BY <1>2 DEF StartParent, TypeOK, TypeParents, Process
  <2> QED
    BY <1>2, <2>1, <2>3, <2>5, <2>6 DEF StartParent, TypeOK, TypeParents
<1>3. ASSUME NEW p \in Parent, NEW op \in {"status", "cancel"}, BeginCall(op, p)
      PROVE  TypeParents'
  <2>1. call' \in Call /\ call'.job \in Parent
    BY <1>3, RecordsTyped, Numbers DEF BeginCall, Call, Parent
  <2> QED
    BY <1>3, <2>1 DEF BeginCall, parents, TypeOK, TypeParents
<1>4. ASSUME NEW p \in Parent, ReapParent(p)
      PROVE  TypeParents'
  BY <1>4 DEF ReapParent, TypeOK, TypeParents, Process
<1>5. ASSUME NEW s \in Statuses, Store(call.job, [call.view EXCEPT !.status = s]), Release,
             UNCHANGED <<mode, born, work, worker>>
      PROVE  TypeParents'
  <2>1. file' \in [Parent -> FileRecord]
    BY <1>5, RecordsTyped, RecordStatus, StoreType
  <2>2. call' \in Call /\ call'.op = "idle"
    BY <1>5, IdleType DEF Release, Idle
  <2> QED
    BY <1>5, <2>1, <2>2 DEF TypeOK, TypeParents
<1>6. CASE CallStale
  BY <1>5, <1>6 DEF CallStale, Statuses
<1>7. CASE CancelRecord
  BY <1>5, <1>7 DEF CancelRecord, Statuses
<1>8. CASE CallAnswer
  BY <1>8, IdleType DEF CallAnswer, Release, Idle, parents, TypeOK, TypeParents
<1>9. CASE CancelNoChild
  <2>1. call' \in Call /\ call'.job \in Parent
    BY <1>9 DEF CancelNoChild, TypeOK, TypeParents, Call
  <2> QED
    BY <1>9, <2>1 DEF CancelNoChild, parents, TypeOK, TypeParents
<1> QED
  BY <1>1, <1>2, <1>3, <1>4, <1>6, <1>7, <1>8, <1>9 DEF ClientActs

LEMMA CancelType ==
    ASSUME TypeOK, CancelChild \/ CancelChildRecord \/ CancelKill
    PROVE  TypeOK'
<1>1. \A op \in {"childrecord", "kill", "record"} :
        call' = [call EXCEPT !.op = op] => call' \in Call /\ call'.job = call.job
  BY DEF TypeOK, TypeParents, Call
<1>2. CASE CancelChild
  <2>1. call.view.child \in Child
    BY <1>2, Numbers DEF CancelChild, TypeOK, TypeParents, Call, FileRecord, Child
  <2>2. TypeIndex' /\ TypeChildren'
    BY <1>2, <2>1, KillType DEF CancelChild
  <2> QED
    BY <1>1, <1>2, <2>2 DEF CancelChild, parents, TypeOK, TypeParents
<1>3. CASE CancelChildRecord
  <2>1. TypeIndex' /\ TypeChildren'
    BY <1>3, RecordKillType DEF CancelChildRecord
  <2> QED
    BY <1>1, <1>3, <2>1 DEF CancelChildRecord, parents, TypeOK, TypeParents
<1>4. CASE CancelKill
  <2>0. call.job \in Parent /\ call' \in Call /\ call'.job \in Parent
    BY <1>1, <1>4 DEF CancelKill, TypeOK, TypeParents
  <2>1. CASE WorkerEnds(call.job)
    <3>1. /\ TypeIndex' /\ TypeChildren'
          /\ work' \in [Parent -> Process] /\ worker' \in [Parent -> WorkerState]
      BY <2>0, <2>1, EndType
    <3> QED
      BY <1>4, <2>0, <2>1, <3>1 DEF CancelKill, WorkerEnds, TypeOK, TypeParents
  <2>2. CASE UNCHANGED <<index, children, mode, born, work, worker>>
    BY <1>4, <2>0, <2>2 DEF CancelKill, index, children, TypeOK, TypeIndex, TypeChildren, TypeParents
  <2> QED
    BY <1>4, <2>1, <2>2 DEF CancelKill
<1> QED
  BY <1>2, <1>3, <1>4

(* Every step, by who takes it. *)
LEMMA NextSplit ==
    ASSUME [Next]_vars
    PROVE  \/ Edit
           \/ \E k \in Kind : ClientQueues(k)
           \/ \E c \in Child : Outside(c)
           \/ \E p \in 0 .. MaxParents : ReapChildren(p)
           \/ ClientActs
           \/ CancelChild \/ CancelChildRecord \/ CancelKill
           \/ \E p \in Parent : WorkerActs(p) \/ Exit(p) \/ Crash(p)
           \/ UNCHANGED vars
BY DEF Next, Holder, WorkerStep, WorkerActs, ClientActs, Outside

LEMMA TypeNext == TypeOK /\ [Next]_vars => TypeOK'
<1> SUFFICES ASSUME TypeOK, [Next]_vars PROVE TypeOK'
  OBVIOUS
<1>1. CASE Edit
  BY <1>1 DEF Edit, children, parents, TypeOK, TypeIndex, TypeChildren, TypeParents
<1>2. ASSUME NEW k \in Kind, ClientQueues(k) PROVE TypeOK'
  <2>1. PICK c \in Child : QueueNew(k, 0, c)
    BY <1>2 DEF ClientQueues
  <2>2. TypeIndex' /\ TypeChildren'
    BY <2>1, QueueType, Numbers
  <2> QED
    BY <1>2, <2>2 DEF ClientQueues, parents, TypeOK, TypeParents
<1>3. ASSUME NEW c \in Child, Outside(c) PROVE TypeOK'
  BY <1>3, OutsideType DEF parents, TypeOK, TypeParents
<1>4. ASSUME NEW p \in 0 .. MaxParents, ReapChildren(p) PROVE TypeOK'
  BY <1>4, ReapType DEF ReapChildren, parents, TypeOK, TypeParents
<1>5. CASE ClientActs
  BY <1>5, ClientType DEF index, children, TypeOK, TypeIndex, TypeChildren
<1>6. CASE CancelChild \/ CancelChildRecord \/ CancelKill
  BY <1>6, CancelType
<1>7. ASSUME NEW p \in Parent, WorkerActs(p) PROVE TypeOK'
  BY <1>7, WorkerType
<1>8. ASSUME NEW p \in Parent, Exit(p) \/ Crash(p) PROVE TypeOK'
  <2>1. WorkerEnds(p) /\ UNCHANGED <<file, call>>
    BY <1>8 DEF Exit, Crash
  <2>2. /\ TypeIndex' /\ TypeChildren'
        /\ work' \in [Parent -> Process] /\ worker' \in [Parent -> WorkerState]
    BY <2>1, EndType
  <2> QED
    BY <2>1, <2>2 DEF WorkerEnds, TypeOK, TypeParents
<1>9. CASE UNCHANGED vars
  BY <1>9 DEF vars, index, children, parents, TypeOK, TypeIndex, TypeChildren, TypeParents
<1> QED
  BY <1>1, <1>2, <1>3, <1>4, <1>5, <1>6, <1>7, <1>8, <1>9, NextSplit

(* Every reachable state of the preparations and their children is well     *)
(* typed: a call is about a preparation that exists, a record names no       *)
(* child without a number.                                                 *)
THEOREM TypeCorrect == Spec => []TypeOK
BY InitType, TypeNext, PTL DEF Spec

-----------------------------------------------------------------------------
(* What readiness attests.                                                 *)

(* A step about the preparation p, by what it does to its record and its    *)
(* worker.                                                                 *)
LEMMA ReadyStep ==
    ASSUME TypeOK, ReadyInv, NEW p \in Parent,
           \A q \in Parent \ {p} : file'[q] = file[q] /\ worker'[q] = worker[q],
           UNCHANGED <<source, born>>,
           file'[p].status = "none" => worker'[p] = NoWorker,
           worker'[p].pc \in {"probe", "ready"} => born[p] <= worker'[p].seen,
           file'[p].status = "completed" => born[p] <= file'[p].ready
    PROVE  ReadyInv'
BY DEF ReadyInv

LEMMA FailsReady ==
    ASSUME TypeOK, ReadyInv, NEW p \in Parent, NEW as \in {"failed", "blocked"}, Fail(p, as),
           UNCHANGED source
    PROVE  ReadyInv'
<1>1. file'[p].status = as /\ worker'[p].pc = "exit"
      /\ \A q \in Parent \ {p} : file'[q] = file[q] /\ worker'[q] = worker[q]
  BY DEF Fail, Store, Leave, TypeOK, TypeParents, FileRecord, NoWorker
<1> QED
  BY <1>1, ReadyStep DEF Fail, Own

(* A worker moves on without having verified anything. *)
LEMMA MovesReady ==
    ASSUME TypeOK, ReadyInv, NEW p \in Parent, worker[p].pc # "none",
           \A q \in Parent \ {p} : file'[q] = file[q] /\ worker'[q] = worker[q],
           file'[p].status = file[p].status, file'[p].ready = file[p].ready,
           \/ worker'[p].pc \notin {"probe", "ready"}
           \/ worker[p].pc = "probe" /\ worker'[p].seen = worker[p].seen,
           UNCHANGED <<source, born>>
    PROVE  ReadyInv'
<1>1. file[p].status # "none"
  BY DEF ReadyInv, NoWorker
<1> QED
  BY <1>1, ReadyStep DEF ReadyInv

LEMMA WorkerReady ==
    ASSUME TypeOK, ReadyInv, NEW p \in Parent, WorkerActs(p)
    PROVE  ReadyInv'
<1>0. /\ file \in [Parent -> FileRecord] /\ worker \in [Parent -> WorkerState]
      /\ born[p] \in Nat /\ source \in Nat /\ born[p] <= source
  BY DEF TypeOK, TypeIndex, TypeParents, ReadyInv
<1>1. source' = source
  BY DEF WorkerActs, Check, Adopt, Queue, Spawn, SpawnFails, Publish, Record, Wait, Verify, Blockers,
     Probe, Ready, Raise, QueueNew, SpawnNew, PublishNew, index
<1>2. ASSUME NEW as \in {"failed", "blocked"}, Fail(p, as) PROVE ReadyInv'
  BY <1>1, <1>2, FailsReady
<1>3. ASSUME NEW pc \in PcValue \ {"probe", "ready"}, NEW now \in PcValue \ {"none"}, At(p, now),
             \/ Goto(p, pc)
             \/ \E c \in Child : worker' = [worker EXCEPT ![p].pc = pc, ![p].child = c]
             \/ worker' = [worker EXCEPT ![p].pc = pc, ![p].stage = "vector"],
             UNCHANGED <<file, Own>>
      PROVE  ReadyInv'
  <2>1. worker'[p].pc = pc /\ \A q \in Parent \ {p} : worker'[q] = worker[q]
    BY <1>0, <1>3 DEF Goto, WorkerState
  <2>2. worker[p].pc # "none" /\ UNCHANGED <<source, born, file>>
    BY <1>1, <1>3 DEF At, Own
  <2> QED
    BY <1>3, <2>1, <2>2, MovesReady
<1>4. CASE Check(p)
  BY <1>3, <1>4 DEF Check, PcValue
<1>5. CASE Adopt(p)
  BY <1>3, <1>5 DEF Adopt, PcValue
<1>6. CASE Queue(p)
  BY <1>3, <1>6 DEF Queue, PcValue
<1>7. CASE Spawn(p)
  BY <1>3, <1>7 DEF Spawn, PcValue
<1>8. CASE SpawnFails(p) \/ Raise(p)
  BY <1>2, <1>8 DEF SpawnFails, Raise
<1>9. CASE Publish(p)
  BY <1>3, <1>9 DEF Publish, PcValue
<1>10. CASE Record(p)
  <2>1. /\ worker'[p].pc = "wait" /\ \A q \in Parent \ {p} : file'[q] = file[q] /\ worker'[q] = worker[q]
        /\ file'[p].status = file[p].status /\ file'[p].ready = file[p].ready
    BY <1>0, <1>10 DEF Record, Goto, Store, WorkerState, FileRecord
  <2>2. worker[p].pc # "none" /\ UNCHANGED <<source, born>>
    BY <1>1, <1>10 DEF Record, At, Own
  <2> QED
    BY <2>1, <2>2, MovesReady
<1>11. CASE Wait(p)
  BY <1>2, <1>3, <1>11 DEF Wait, PcValue
<1>12. CASE Verify(p) /\ Current(worker[p].stage)
  <2>1. /\ worker'[p].seen = source
        /\ file'[p].status = file[p].status /\ file'[p].ready = file[p].ready
        /\ worker'[p].pc # "none"
        /\ \A q \in Parent \ {p} : file'[q] = file[q] /\ worker'[q] = worker[q]
    BY <1>0, <1>12 DEF Verify, Current, Store, WorkerState, FileRecord
  <2>2. file[p].status # "none"
    BY <1>12 DEF Verify, At, ReadyInv, NoWorker
  <2> QED
    BY <1>0, <1>1, <1>12, <2>1, <2>2, ReadyStep DEF Verify, Own, ReadyInv
<1>13. CASE Verify(p) /\ ~Current(worker[p].stage)
  <2>1. /\ file'[p].status = "failed" /\ worker'[p].pc = "exit"
        /\ \A q \in Parent \ {p} : file'[q] = file[q] /\ worker'[q] = worker[q]
    <3> DEFINE rec == [file[p] EXCEPT !.child = 0, !.status = "failed"]
    <3>1. file' = [file EXCEPT ![p] = rec] /\ Leave(p)
      BY <1>13 DEF Verify, Store
    <3>2. rec.status = "failed"
      BY <1>0 DEF FileRecord
    <3> HIDE DEF rec
    <3> QED
      BY <1>0, <3>1, <3>2 DEF Leave, NoWorker
  <2> QED
    BY <1>1, <1>13, <2>1, ReadyStep DEF Verify, Own
<1>14. CASE Blockers(p)
  BY <1>2, <1>3, <1>14 DEF Blockers, PcValue
<1>15. CASE Probe(p)
  <2>1. ASSUME Goto(p, "ready"), UNCHANGED <<file, Own>> PROVE ReadyInv'
    <3>1. worker'[p].pc = "ready" /\ worker'[p].seen = worker[p].seen
          /\ \A q \in Parent \ {p} : worker'[q] = worker[q]
      BY <1>0, <2>1 DEF Goto, WorkerState
    <3> QED
      BY <1>1, <1>15, <2>1, <3>1, MovesReady DEF Probe, At, Own
  <2> QED
    BY <1>2, <1>15, <2>1 DEF Probe
<1>16. CASE Ready(p)
  <2>1. /\ file'[p].status = "completed" /\ file'[p].ready = worker[p].seen /\ worker'[p].pc = "exit"
        /\ \A q \in Parent \ {p} : file'[q] = file[q] /\ worker'[q] = worker[q]
    BY <1>0, <1>16 DEF Ready, Store, Leave, NoWorker, FileRecord
  <2>2. born[p] <= worker[p].seen
    BY <1>16 DEF Ready, At, ReadyInv
  <2> QED
    BY <1>1, <1>16, <2>1, <2>2, ReadyStep DEF Ready, Own
<1> QED
  BY <1>4, <1>5, <1>6, <1>7, <1>8, <1>9, <1>10, <1>11, <1>12, <1>13, <1>14, <1>15, <1>16 DEF WorkerActs, Verify

LEMMA EndReady ==
    ASSUME TypeOK, ReadyInv, NEW p \in Parent, WorkerEnds(p), UNCHANGED file
    PROVE  ReadyInv'
<1>1. worker'[p] = NoWorker /\ \A q \in Parent \ {p} : worker'[q] = worker[q]
  BY DEF WorkerEnds, TypeOK, TypeParents
<1> QED
  BY <1>1, ReadyStep DEF WorkerEnds, index, NoWorker, ReadyInv

LEMMA ClientReady ==
    ASSUME TypeOK, ReadyInv, ClientActs
    PROVE  ReadyInv'
<1>1. source' = source
  BY ClientType DEF index
<1>2. ASSUME NEW p \in Parent, NEW m \in {"full", "local"}, StartParent(m, p)
      PROVE  ReadyInv'
  <2>1. /\ file'[p].status \in {"running", "queued"} /\ worker'[p].pc \in {"check", "none"}
        /\ born'[p] = source
        /\ \A q \in Parent \ {p} : file'[q] = file[q] /\ worker'[q] = worker[q] /\ born'[q] = born[q]
    <3>1. worker[p].pc = "none" /\ NoRecord.status = "none"
      BY <1>2 DEF StartParent, ReadyInv, NoWorker, NoRecord
    <3> QED
      BY <1>2, <3>1 DEF StartParent, Store, NoRecord, TypeOK, TypeParents, WorkerState
  <2> QED
    BY <1>1, <2>1 DEF ReadyInv, TypeOK, TypeIndex
<1>3. ASSUME NEW s \in {"interrupted", "cancelled"}, call.job \in Parent,
             Store(call.job, [call.view EXCEPT !.status = s]), UNCHANGED <<mode, born, work, worker>>
      PROVE  ReadyInv'
  <2>1. file'[call.job].status = s /\ \A q \in Parent \ {call.job} : file'[q] = file[q]
    BY <1>3 DEF Store, TypeOK, TypeParents, Call, FileRecord
  <2> QED
    BY <1>1, <1>3, <2>1, ReadyStep DEF ReadyInv
<1>4. CASE CallStale \/ CancelRecord
  BY <1>3, <1>4 DEF CallStale, CancelRecord, TypeOK, TypeParents
<1>5. CASE UNCHANGED <<file, worker, born>>
  BY <1>1, <1>5 DEF ReadyInv
<1> QED
  BY <1>2, <1>4, <1>5 DEF ClientActs, BeginCall, ReapParent, CallAnswer, CancelNoChild, parents

LEMMA ReadyNext == TypeOK /\ ReadyInv /\ [Next]_vars => ReadyInv'
<1> SUFFICES ASSUME TypeOK, ReadyInv, [Next]_vars PROVE ReadyInv'
  OBVIOUS
<1>1. CASE Edit
  BY <1>1 DEF Edit, parents, ReadyInv, TypeOK, TypeIndex, TypeParents
<1>2. CASE UNCHANGED <<source, file, worker, born>>
  BY <1>2 DEF ReadyInv
<1>3. CASE ClientActs
  BY <1>3, ClientReady
<1>4. CASE CancelKill
  <2>1. CASE WorkerEnds(call.job)
    BY <1>4, <2>1, EndReady DEF CancelKill, TypeOK, TypeParents
  <2> QED
    BY <1>2, <1>4, <2>1 DEF CancelKill, index
<1>5. ASSUME NEW p \in Parent, WorkerActs(p) PROVE ReadyInv'
  BY <1>5, WorkerReady
<1>6. ASSUME NEW p \in Parent, Exit(p) \/ Crash(p) PROVE ReadyInv'
  BY <1>6, EndReady DEF Exit, Crash
<1>7. ASSUME NEW c \in Child, Outside(c) PROVE UNCHANGED <<source, file, worker, born>>
  <2>1. source' = source
    BY <1>7 DEF Outside, ChildStep, ClientSpawns, ClientPublishes, InterruptChild, ClientRecordsKill,
       ChildScan, ChildIndex, ChildFinish, ClientAbandons, ClientKillsChild, ChildFail, ChildDies,
       RegressChild, SpawnNew, PublishNew, RecordKill, KillChild, index
  <2> QED
    BY <1>7, <2>1, OutsideType DEF parents
<1>8. CASE UNCHANGED vars
  BY <1>2, <1>8 DEF vars, index, parents
<1>9. ASSUME (\E k \in Kind : ClientQueues(k)) \/ (\E p \in 0 .. MaxParents : ReapChildren(p))
             \/ CancelChild \/ CancelChildRecord
      PROVE  UNCHANGED <<source, file, worker, born>>
  BY <1>9 DEF ClientQueues, QueueNew, ReapChildren, CancelChild, CancelChildRecord, KillChild, RecordKill,
     index, parents
<1> QED
  BY <1>1, <1>2, <1>3, <1>4, <1>5, <1>6, <1>7, <1>8, <1>9, NextSplit

LEMMA ReadyAlways == Spec => []ReadyInv
<1>1. Init => ReadyInv
  BY Numbers DEF Init, ReadyInv, NoRecord, NoWorker
<1> QED
  BY <1>1, ReadyNext, TypeCorrect, PTL DEF Spec

(* The readiness on record is of the source as it was when the preparation  *)
(* was started, or later: what a worker has verified it has compared with   *)
(* the source itself, and the source only moves on.                        *)
THEOREM ReadyIsRecentCorrect == Spec => []ReadyIsRecent
<1>1. TypeOK /\ ReadyInv => ReadyIsRecent
  BY DEF ReadyInv, ReadyIsRecent, TypeOK, TypeParents, FileRecord
<1> QED
  BY <1>1, ReadyAlways, TypeCorrect, PTL

-----------------------------------------------------------------------------
(* The children that are at work.                                          *)

(* What the operations of the ledger do to the status and to the process of *)
(* a job.                                                                  *)
LEMMA LedgerSteps ==
    ASSUME TypeOK, LedgerInv
    PROVE  /\ \A k, p : \A c \in Child : QueueNew(k, p, c) =>
                 /\ childStatus[c] = "none" /\ childStatus' = [childStatus EXCEPT ![c] = "queued"]
                 /\ childWork' = childWork /\ starter' = [starter EXCEPT ![c] = p]
           /\ \A c \in Child : SpawnNew(c) =>
                 /\ childStatus[c] = "queued" /\ UNCHANGED <<childStatus, starter>>
                 /\ \A d \in Child \ {c} : childWork'[d] = "working" => childWork[d] = "working"
           /\ \A c : PublishNew(c) =>
                 /\ childStatus[c] # "none" /\ childStatus' = [childStatus EXCEPT ![c] = "running"]
                 /\ UNCHANGED <<childWork, starter>>
           /\ \A c \in Child : KillChild(c) =>
                 /\ UNCHANGED <<childStatus, starter>>
                 /\ \A d \in Child : childWork'[d] = "working" => childWork[d] = "working"
           /\ \A c : RecordKill(c) =>
                 /\ childWork[c] # "working" /\ childStatus[c] # "none"
                 /\ childStatus' = [childStatus EXCEPT ![c] = "cancelled"]
                 /\ UNCHANGED <<childWork, starter>>
<1>1. ASSUME NEW k, NEW p, NEW c \in Child, QueueNew(k, p, c)
      PROVE  /\ childStatus[c] = "none" /\ childStatus' = [childStatus EXCEPT ![c] = "queued"]
             /\ childWork' = childWork /\ starter' = [starter EXCEPT ![c] = p]
  BY <1>1 DEF QueueNew, Ledger!Queue, Ledger!Become
<1>2. ASSUME NEW c \in Child, SpawnNew(c)
      PROVE  /\ childStatus[c] = "queued" /\ UNCHANGED <<childStatus, starter>>
             /\ \A d \in Child \ {c} : childWork'[d] = "working" => childWork[d] = "working"
  <2>1. childStatus[c] = "queued" /\ UNCHANGED <<childStatus, starter>>
    BY <1>2 DEF SpawnNew, Ledger!Spawn
  <2>2. ASSUME NEW d \in Child \ {c} PROVE childWork'[d] = "working" => childWork[d] = "working"
    <3> DEFINE spawned == CASE d = c -> "working"
                            [] d # c /\ d \in Started(starter[c]) /\ childWork[d] = "corpse" -> "ended"
                            [] OTHER -> childWork[d]
    <3>1. childWork'[d] = spawned
      BY <1>2 DEF SpawnNew, Ledger!Spawn
    <3>2. spawned \in {"ended", childWork[d]}
      OBVIOUS
    <3> QED
      BY <3>1, <3>2
  <2> QED
    BY <2>1, <2>2
<1>3. ASSUME NEW c, PublishNew(c)
      PROVE  /\ childStatus[c] # "none" /\ childStatus' = [childStatus EXCEPT ![c] = "running"]
             /\ UNCHANGED <<childWork, starter>>
  BY <1>3 DEF PublishNew, Ledger!Publish, Ledger!Become
<1>4. ASSUME NEW c \in Child, KillChild(c)
      PROVE  /\ UNCHANGED <<childStatus, starter>>
             /\ \A d \in Child : childWork'[d] = "working" => childWork[d] = "working"
  BY <1>4 DEF KillChild, Ledger!Die, TypeOK, TypeChildren
<1>5. ASSUME NEW c, RecordKill(c)
      PROVE  /\ childWork[c] # "working" /\ childStatus[c] # "none"
             /\ childStatus' = [childStatus EXCEPT ![c] = "cancelled"]
             /\ UNCHANGED <<childWork, starter>>
  BY <1>5 DEF RecordKill, Ledger!Stop, Ledger!Become
<1> QED
  BY <1>1, <1>2, <1>3, <1>4, <1>5

(* A step of the ledger that starts no process but that of c, if it does. *)
LEMMA LedgerStep ==
    ASSUME TypeOK, LedgerInv,
           \A d \in Child : childStatus'[d] = "none" => childStatus[d] = "none" /\ starter'[d] = starter[d],
           \A d \in Child : childWork'[d] = "working" =>
               \/ childStatus'[d] \in {"queued", "running"}
               \/ childWork[d] = "working" /\ childStatus'[d] = childStatus[d]
    PROVE  LedgerInv'
BY DEF LedgerInv, ChildTerminal, Settled

LEMMA OutsideSteps ==
    ASSUME TypeOK, LedgerInv, NEW c \in Child, Outside(c)
    PROVE  /\ LedgerInv' /\ starter' = starter
           /\ \A d \in Child : starter[d] # 0 /\ childWork'[d] = "working" => childWork[d] = "working"
<1>0. childStatus \in [Child -> Statuses] /\ childWork \in [Child -> Process]
  BY DEF TypeOK, TypeChildren
<1>1. CASE ClientSpawns(c)
  BY <1>1, LedgerSteps, LedgerStep DEF ClientSpawns
<1>2. CASE ClientPublishes(c)
  BY <1>0, <1>2, LedgerSteps, LedgerStep DEF ClientPublishes
<1>3. CASE InterruptChild(c)
  BY <1>0, <1>3 DEF InterruptChild, Ledger!Stop, Ledger!Become, LedgerInv, ChildTerminal, Settled
<1>4. CASE ClientRecordsKill(c)
  BY <1>0, <1>4, LedgerSteps DEF ClientRecordsKill, LedgerInv, ChildTerminal, Settled
<1>5. CASE UNCHANGED <<childStatus, childWork, starter>>
  BY <1>5 DEF LedgerInv
<1>6. CASE ChildFinish(c) \/ ChildFail(c)
  <2>1. PICK result \in {"completed", "failed"} : Ledger!Settle(c, result)
    BY <1>6 DEF ChildFinish, ChildFail, ChildResult
  <2>2. starter' = starter
    BY <1>6 DEF ChildFinish, ChildFail
  <2> QED
    BY <1>0, <2>1, <2>2 DEF Ledger!Settle, Ledger!Become, LedgerInv, ChildTerminal, Settled
<1>7. CASE ClientKillsChild(c)
  BY <1>7, LedgerSteps, LedgerStep DEF ClientKillsChild
<1>8. CASE ChildDies(c)
  BY <1>0, <1>8 DEF ChildDies, Ledger!Die, LedgerInv
<1>9. CASE RegressChild(c)
  BY <1>0, <1>9 DEF RegressChild, Ledger!Regress, Ledger!Become, LedgerInv, ChildTerminal, Settled
<1> QED
  BY <1>1, <1>2, <1>3, <1>4, <1>5, <1>6, <1>7, <1>8, <1>9
     DEF Outside, ChildStep, ChildScan, ChildIndex, ClientAbandons

LEMMA ReapSteps ==
    ASSUME TypeOK, LedgerInv, NEW p \in 0 .. MaxParents, ReapChildren(p)
    PROVE  /\ LedgerInv' /\ starter' = starter
           /\ \A d \in Child : childWork'[d] = "working" => childWork[d] = "working"
BY DEF ReapChildren, Ledger!Reap, LedgerInv

(* The steps that leave the preparations and the starters alone keep        *)
(* ChildInv when they set no child of a preparation to work.               *)
LEMMA ChildFrame ==
    ASSUME TypeOK, ChildInv, UNCHANGED starter,
           \A p \in Parent : UNCHANGED <<worker[p], file[p].status>>,
           \A d \in Child : starter[d] # 0 /\ childWork'[d] = "working" => childWork[d] = "working"
    PROVE  ChildInv'
BY DEF ChildInv, ChildrenOf, Started, Minds, Parent

(* A step about p that starts at most a child of p. *)
LEMMA ChildOwn ==
    ASSUME TypeOK, ChildInv, NEW p \in Parent,
           \A q \in Parent \ {p} : file'[q] = file[q] /\ worker'[q] = worker[q],
           \A d \in Child : starter'[d] = starter[d] \/ (starter[d] = 0 /\ starter'[d] = p),
           \A d \in Child : childWork'[d] = "working" => childWork[d] = "working" \/ starter'[d] = p,
           ChildrenOf(p)'
    PROVE  ChildInv'
<1>1. ASSUME NEW q \in Parent, q # p PROVE ChildrenOf(q)'
  <2>1. Started(q)' = Started(q)
    BY <1>1 DEF Started, Parent
  <2> QED
    BY <1>1, <2>1 DEF ChildInv, ChildrenOf, Minds, Started
<1> QED
  BY <1>1 DEF ChildInv

(* The worker of p leaves off, or its process ends. *)
LEMMA ChildLeft ==
    ASSUME TypeOK, ChildInv, NEW p \in Parent,
           \A q \in Parent \ {p} : file'[q] = file[q] /\ worker'[q] = worker[q],
           UNCHANGED <<starter, childWork>>,
           worker'[p].pc \in {"none", "exit"},
           file'[p].status # "none" \/ file'[p] = file[p],
           file'[p].status # "completed" \/ file'[p] = file[p]
    PROVE  ChildInv'
<1>1. ChildrenOf(p)'
  BY DEF ChildInv, ChildrenOf, Started, Minds
<1> QED
  BY <1>1, ChildOwn

(* The worker of p moves on with the children as they are, and minds the    *)
(* one that is at work if there is one.                                    *)
LEMMA ChildMoves ==
    ASSUME TypeOK, ReadyInv, ChildInv, NEW p \in Parent,
           \A q \in Parent \ {p} : file'[q] = file[q] /\ worker'[q] = worker[q],
           UNCHANGED <<starter, childWork>>,
           worker[p].pc \notin {"none", "exit"}, worker'[p].pc \notin {"none", "exit", "spawn", "publish"},
           file'[p].status = file[p].status,
           \A c \in Started(p) : childWork[c] = "working" /\ Minds(p, c) => Minds(p, c)'
    PROVE  ChildInv'
<1>1. file[p].status \notin {"none", "completed"}
  BY DEF ReadyInv, NoWorker, ChildInv, ChildrenOf
<1>2. Started(p)' = Started(p)
  BY DEF Started
<1>3. ChildrenOf(p)'
  BY <1>1, <1>2 DEF ChildInv, ChildrenOf
<1> QED
  BY <1>3, ChildOwn

LEMMA WorkerChild ==
    ASSUME TypeOK, ReadyInv, LedgerInv, ChildInv, NEW p \in Parent, WorkerActs(p)
    PROVE  LedgerInv' /\ ChildInv'
<1>0. /\ file \in [Parent -> FileRecord] /\ worker \in [Parent -> WorkerState]
      /\ childStatus \in [Child -> Statuses] /\ childWork \in [Child -> Process]
      /\ starter \in [Child -> 0 .. MaxParents]
  BY DEF TypeOK, TypeParents, TypeChildren
<1>1. ASSUME UNCHANGED <<childStatus, childWork, starter>> PROVE LedgerInv'
  BY <1>1 DEF LedgerInv
<1>2. ASSUME NEW as \in {"failed", "blocked"}, Fail(p, as), UNCHANGED <<childWork, starter>>
      PROVE  ChildInv'
  <2>1. file'[p].status = as /\ worker'[p].pc = "exit"
        /\ \A q \in Parent \ {p} : file'[q] = file[q] /\ worker'[q] = worker[q]
    BY <1>0, <1>2 DEF Fail, Store, Leave, FileRecord, NoWorker
  <2> QED
    BY <1>2, <2>1, ChildLeft
<1>3. ASSUME NEW pc \in PcValue, Goto(p, pc)
      PROVE  /\ worker'[p].pc = pc /\ worker'[p].child = worker[p].child
             /\ \A q \in Parent \ {p} : worker'[q] = worker[q]
  BY <1>0, <1>3 DEF Goto, WorkerState
<1>18. ASSUME worker[p].pc \in {"check", "start", "verify", "blockers", "probe"},
             worker'[p].pc \in PcValue \ {"none", "exit", "spawn", "publish"},
             \A q \in Parent \ {p} : worker'[q] = worker[q],
             UNCHANGED <<file, childWork, starter>>
      PROVE  ChildInv'
  BY <1>18, ChildMoves DEF Minds
<1>19. ASSUME worker[p].pc \in {"publish", "record", "wait"}, worker'[p].child = worker[p].child,
             \/ worker'[p].pc \in {"record", "wait"}
             \/ worker'[p].pc = "verify" /\ childStatus[worker[p].child] = "completed",
             file'[p].status = file[p].status,
             \A q \in Parent \ {p} : file'[q] = file[q] /\ worker'[q] = worker[q],
             UNCHANGED <<childWork, starter>>
      PROVE  ChildInv'
  <2>1. ASSUME NEW c \in Started(p), childWork[c] = "working", Minds(p, c) PROVE Minds(p, c)'
    <3>1. worker[p].child = c /\ childStatus[c] # "completed"
      BY <2>1 DEF LedgerInv, ChildTerminal, Settled, Started, Minds
    <3> QED
      BY <1>19, <3>1 DEF Minds
  <2> QED
    BY <1>19, <2>1, ChildMoves
<1>4. CASE Check(p)
  <2>1. PICK pc \in {"verify", "start"} : Goto(p, pc)
    BY <1>4 DEF Check
  <2>2. pc \in PcValue /\ worker[p].pc = "check" /\ UNCHANGED <<file, childStatus, childWork, starter>>
    BY <1>4 DEF Check, At, PcValue, children
  <2> QED
    BY <1>1, <1>3, <1>18, <2>1, <2>2 DEF PcValue
<1>5. CASE Adopt(p)
  <2>1. PICK c \in Child : worker' = [worker EXCEPT ![p].pc = "record", ![p].child = c]
    BY <1>5 DEF Adopt
  <2>2. worker'[p].pc = "record" /\ \A q \in Parent \ {p} : worker'[q] = worker[q]
    BY <1>0, <2>1 DEF WorkerState
  <2>3. worker[p].pc = "start" /\ UNCHANGED <<file, childStatus, childWork, starter>>
    BY <1>5 DEF Adopt, At, children
  <2> QED
    BY <1>1, <1>18, <2>2, <2>3 DEF PcValue
<1>6. CASE Queue(p)
  <2>1. PICK c \in Child : /\ QueueNew(worker[p].stage, p, c)
                           /\ worker' = [worker EXCEPT ![p].pc = "spawn", ![p].child = c]
    BY <1>6 DEF Queue
  <2>2. /\ childStatus[c] = "none" /\ childStatus' = [childStatus EXCEPT ![c] = "queued"]
        /\ childWork' = childWork /\ starter' = [starter EXCEPT ![c] = p]
    BY <2>1, LedgerSteps
  <2>3. LedgerInv'
    BY <1>0, <2>2, LedgerStep
  <2>4. starter[c] = 0 /\ childWork[c] # "working"
    BY <2>2 DEF LedgerInv
  <2>5. worker'[p].pc = "spawn" /\ worker'[p].child = c
        /\ \A q \in Parent \ {p} : file'[q] = file[q] /\ worker'[q] = worker[q]
    BY <1>0, <1>6, <2>1 DEF Queue, WorkerState
  <2>6. Started(p)' = Started(p) \cup {c}
    BY <1>0, <2>2 DEF Started
  <2>7. file'[p] = file[p] /\ file[p].status \notin {"none", "completed"} /\ worker[p].pc = "start"
    BY <1>6 DEF Queue, At, ReadyInv, NoWorker, ChildInv, ChildrenOf
  <2>8. \A d \in Started(p) : childWork[d] # "working"
    BY <2>7 DEF ChildInv, ChildrenOf, Minds
  <2>9. ChildrenOf(p)'
    BY <2>2, <2>4, <2>5, <2>6, <2>7, <2>8 DEF ChildrenOf
  <2>10. \A d \in Child : starter'[d] = starter[d] \/ (starter[d] = 0 /\ starter'[d] = p)
    BY <1>0, <2>2, <2>4
  <2> QED
    BY <2>2, <2>3, <2>5, <2>9, <2>10, ChildOwn
<1>7. CASE Spawn(p)
  <2> DEFINE c == worker[p].child
  <2>1. c \in Started(p) /\ c \in Child /\ starter[c] = p
    BY <1>7 DEF Spawn, At, ChildInv, ChildrenOf, Started
  <2>2. /\ childStatus[c] = "queued" /\ UNCHANGED <<childStatus, starter>>
        /\ \A d \in Child \ {c} : childWork'[d] = "working" => childWork[d] = "working"
    BY <1>7, <2>1, LedgerSteps DEF Spawn
  <2>3. LedgerInv'
    BY <2>1, <2>2, LedgerStep
  <2>4. worker'[p].pc = "publish" /\ worker'[p].child = c
        /\ \A q \in Parent \ {p} : file'[q] = file[q] /\ worker'[q] = worker[q]
    BY <1>0, <1>7 DEF Spawn, Goto, WorkerState
  <2>5. file'[p] = file[p] /\ file[p].status \notin {"none", "completed"} /\ worker[p].pc = "spawn"
    BY <1>7 DEF Spawn, At, ReadyInv, NoWorker, ChildInv, ChildrenOf
  <2>6. \A d \in Started(p) : childWork[d] # "working"
    BY <2>5 DEF ChildInv, ChildrenOf, Minds
  <2>7. Started(p)' = Started(p)
    BY <2>2 DEF Started
  <2> HIDE DEF c
  <2>8. \A d \in Started(p) : childWork'[d] = "working" => d = c
    BY <2>2, <2>6 DEF Started
  <2>9. ChildrenOf(p)'
    BY <2>1, <2>4, <2>5, <2>7, <2>8 DEF ChildrenOf, Minds
  <2>10. \A d \in Child : childWork'[d] = "working" => childWork[d] = "working" \/ starter'[d] = p
    BY <2>1, <2>2
  <2> QED
    BY <2>2, <2>3, <2>4, <2>9, <2>10, ChildOwn
<1>8. CASE SpawnFails(p)
  BY <1>1, <1>2, <1>8 DEF SpawnFails
<1>9. CASE Raise(p)
  BY <1>1, <1>2, <1>9 DEF Raise, children
<1>10. CASE Publish(p)
  <2>1. /\ childStatus[worker[p].child] # "none"
        /\ childStatus' = [childStatus EXCEPT ![worker[p].child] = "running"]
        /\ UNCHANGED <<childWork, starter>>
    BY <1>10, LedgerSteps DEF Publish
  <2>2. LedgerInv'
    BY <1>0, <2>1, LedgerStep
  <2> QED
    <3>1. worker[p].pc = "publish" /\ Goto(p, "record") /\ UNCHANGED file
      BY <1>10 DEF Publish, At
    <3>2. ChildInv'
      BY <1>3, <1>19, <2>1, <3>1 DEF PcValue
    <3> QED
      BY <2>2, <3>2
<1>11. CASE Record(p)
  <2>1. file'[p].status = file[p].status /\ \A q \in Parent \ {p} : file'[q] = file[q]
    BY <1>0, <1>11 DEF Record, Store, FileRecord
  <2> QED
    <3>1. worker[p].pc = "record" /\ Goto(p, "wait") /\ UNCHANGED <<childStatus, childWork, starter>>
      BY <1>11 DEF Record, At, children
    <3>2. ChildInv'
      BY <1>3, <1>19, <2>1, <3>1 DEF PcValue
    <3> QED
      BY <1>1, <3>1, <3>2
<1>12. CASE Wait(p)
  <2>1. worker[p].pc = "wait" /\ UNCHANGED <<childStatus, childWork, starter>>
    BY <1>12 DEF Wait, At, children
  <2>2. ASSUME Goto(p, "verify"), UNCHANGED file, childStatus[worker[p].child] = "completed" PROVE ChildInv'
    BY <1>3, <1>19, <2>1, <2>2 DEF PcValue
  <2> QED
    BY <1>1, <1>2, <1>12, <2>1, <2>2 DEF Wait
<1>13. CASE Verify(p) /\ Current(worker[p].stage)
  <2>1. /\ file'[p].status = file[p].status
        /\ worker'[p].pc \in {"probe", "ready", "blockers"}
        /\ \A q \in Parent \ {p} : file'[q] = file[q] /\ worker'[q] = worker[q]
    BY <1>0, <1>13 DEF Verify, Store, WorkerState, FileRecord
  <2>2. worker[p].pc = "verify" /\ UNCHANGED <<childStatus, childWork, starter>>
    BY <1>13 DEF Verify, At, children
  <2> QED
    BY <1>1, <2>1, <2>2, ChildMoves DEF Minds
<1>14. CASE Verify(p) /\ ~Current(worker[p].stage)
  <2> DEFINE rec == [file[p] EXCEPT !.child = 0, !.status = "failed"]
  <2>1. file' = [file EXCEPT ![p] = rec] /\ Leave(p) /\ UNCHANGED <<childStatus, childWork, starter>>
    BY <1>14 DEF Verify, Store, children
  <2>2. rec.status = "failed"
    BY <1>0 DEF FileRecord
  <2> HIDE DEF rec
  <2>3. file'[p].status = "failed" /\ worker'[p].pc = "exit"
        /\ \A q \in Parent \ {p} : file'[q] = file[q] /\ worker'[q] = worker[q]
    BY <1>0, <2>1, <2>2 DEF Leave, NoWorker
  <2> QED
    BY <1>1, <2>1, <2>3, ChildLeft
<1>15. CASE Blockers(p)
  <2>1. worker[p].pc = "blockers" /\ UNCHANGED <<childStatus, childWork, starter>>
    BY <1>15 DEF Blockers, At, children
  <2>2. ASSUME worker' = [worker EXCEPT ![p].pc = "check", ![p].stage = "vector"], UNCHANGED file
        PROVE  ChildInv'
    <3>1. worker'[p].pc = "check" /\ \A q \in Parent \ {p} : worker'[q] = worker[q]
      BY <1>0, <2>2 DEF WorkerState
    <3> QED
      BY <1>18, <2>1, <2>2, <3>1 DEF PcValue
  <2> QED
    BY <1>1, <1>2, <1>15, <2>1, <2>2 DEF Blockers
<1>16. CASE Probe(p)
  <2>1. worker[p].pc = "probe" /\ UNCHANGED <<childStatus, childWork, starter>>
    BY <1>16 DEF Probe, At, children
  <2>2. ASSUME Goto(p, "ready"), UNCHANGED file PROVE ChildInv'
    BY <1>3, <1>18, <2>1, <2>2 DEF PcValue
  <2> QED
    BY <1>1, <1>2, <1>16, <2>1, <2>2 DEF Probe
<1>17. CASE Ready(p)
  <2>1. /\ file'[p].status = "completed" /\ worker'[p].pc = "exit"
        /\ \A q \in Parent \ {p} : file'[q] = file[q] /\ worker'[q] = worker[q]
    BY <1>0, <1>17 DEF Ready, Store, Leave, NoWorker, FileRecord
  <2>2. worker[p].pc = "ready" /\ UNCHANGED <<childStatus, childWork, starter>>
    BY <1>17 DEF Ready, At, children
  <2>3. \A d \in Started(p) : childWork[d] # "working"
    BY <2>2 DEF ChildInv, ChildrenOf, Minds
  <2>4. ChildrenOf(p)'
    BY <2>1, <2>2, <2>3 DEF ChildrenOf, Started
  <2> QED
    BY <1>1, <2>1, <2>2, <2>4, ChildOwn
<1> QED
  BY <1>4, <1>5, <1>6, <1>7, <1>8, <1>9, <1>10, <1>11, <1>12, <1>13, <1>14, <1>15, <1>16, <1>17
     DEF WorkerActs, Verify

LEMMA ClientChild ==
    ASSUME TypeOK, ReadyInv, ChildInv, ClientActs
    PROVE  ChildInv'
<1>0. UNCHANGED <<childStatus, childWork, starter>>
  BY ClientType DEF children
<1>1. ASSUME NEW p \in Parent, NEW m \in {"full", "local"}, StartParent(m, p)
      PROVE  ChildInv'
  <2>1. file[p].status = "none" /\ Started(p) = {}
    BY <1>1 DEF StartParent, ChildInv, ChildrenOf
  <2>2. worker[p].pc = "none"
    BY <2>1 DEF ReadyInv, NoWorker
  <2>3. /\ file'[p].status \in {"running", "queued"} /\ worker'[p].pc \in {"check", "none"}
        /\ \A q \in Parent \ {p} : file'[q] = file[q] /\ worker'[q] = worker[q]
    BY <1>1, <2>2 DEF StartParent, Store, NoRecord, TypeOK, TypeParents, WorkerState
  <2>4. Started(p)' = {}
    BY <1>0, <2>1 DEF Started
  <2>5. ChildrenOf(p)'
    BY <2>3, <2>4 DEF ChildrenOf
  <2> QED
    BY <1>0, <2>3, <2>5, ChildOwn
<1>2. ASSUME NEW s \in {"interrupted", "cancelled"}, call.job \in Parent,
             Store(call.job, [call.view EXCEPT !.status = s]), UNCHANGED <<mode, born, work, worker>>
      PROVE  ChildInv'
  <2>1. PICK p \in Parent : call.job = p
    BY <1>2
  <2>2. file'[p].status = s /\ \A q \in Parent \ {p} : file'[q] = file[q]
    BY <1>2, <2>1 DEF Store, TypeOK, TypeParents, Call, FileRecord
  <2>3. ChildrenOf(p)'
    BY <1>0, <1>2, <2>2 DEF ChildInv, ChildrenOf, Started, Minds
  <2> QED
    BY <1>0, <1>2, <2>2, <2>3, ChildOwn
<1>3. CASE CallStale \/ CancelRecord
  BY <1>2, <1>3 DEF CallStale, CancelRecord, TypeOK, TypeParents
<1>4. CASE UNCHANGED <<file, worker>>
  BY <1>0, <1>4, ChildFrame
<1> QED
  BY <1>1, <1>3, <1>4 DEF ClientActs, BeginCall, ReapParent, CallAnswer, CancelNoChild, parents

LEMMA EndChild ==
    ASSUME TypeOK, ChildInv, NEW p \in Parent, WorkerEnds(p), UNCHANGED file
    PROVE  ChildInv'
<1>1. worker'[p].pc = "none" /\ \A q \in Parent \ {p} : worker'[q] = worker[q]
  BY DEF WorkerEnds, NoWorker, TypeOK, TypeParents
<1> QED
  BY <1>1, ChildLeft DEF WorkerEnds

LEMMA ChildNext == TypeOK /\ ReadyInv /\ LedgerInv /\ ChildInv /\ [Next]_vars => LedgerInv' /\ ChildInv'
<1> SUFFICES ASSUME TypeOK, ReadyInv, LedgerInv, ChildInv, [Next]_vars
             PROVE  LedgerInv' /\ ChildInv'
  OBVIOUS
<1>0. childStatus \in [Child -> Statuses] /\ starter \in [Child -> 0 .. MaxParents]
  BY DEF TypeOK, TypeChildren
<1>1. ASSUME UNCHANGED <<childStatus, childWork, starter>> PROVE LedgerInv'
  BY <1>1 DEF LedgerInv
<1>2. CASE Edit \/ UNCHANGED vars
  <2>1. UNCHANGED <<childStatus, childWork, starter, file, worker>>
    BY <1>2 DEF Edit, vars, index, children, parents
  <2> QED
    BY <1>1, <2>1, ChildFrame
<1>3. ASSUME NEW k \in Kind, ClientQueues(k) PROVE LedgerInv' /\ ChildInv'
  <2>1. PICK c \in Child : QueueNew(k, 0, c)
    BY <1>3 DEF ClientQueues
  <2>2. /\ childStatus[c] = "none" /\ childStatus' = [childStatus EXCEPT ![c] = "queued"]
        /\ childWork' = childWork /\ starter' = [starter EXCEPT ![c] = 0]
    BY <2>1, LedgerSteps
  <2>3. starter' = starter
    BY <1>0, <2>2 DEF LedgerInv
  <2>4. LedgerInv'
    BY <1>0, <2>2, <2>3, LedgerStep
  <2> QED
    BY <1>3, <2>2, <2>3, <2>4, ChildFrame DEF ClientQueues, parents
<1>4. ASSUME NEW c \in Child, Outside(c) PROVE LedgerInv' /\ ChildInv'
  BY <1>4, OutsideSteps, OutsideType, ChildFrame DEF parents
<1>5. ASSUME NEW p \in 0 .. MaxParents, ReapChildren(p) PROVE LedgerInv' /\ ChildInv'
  <2>1. UNCHANGED <<file, worker>>
    BY <1>5 DEF ReapChildren, parents
  <2> QED
    BY <1>5, <2>1, ReapSteps, ChildFrame
<1>6. CASE ClientActs
  BY <1>1, <1>6, ClientChild, ClientType DEF children
<1>7. CASE CancelChild
  <2>1. call.view.child \in Child
    BY <1>7, Numbers DEF CancelChild, TypeOK, TypeParents, Call, FileRecord, Child
  <2>2. /\ UNCHANGED <<childStatus, starter>>
        /\ \A d \in Child : childWork'[d] = "working" => childWork[d] = "working"
    BY <1>7, <2>1, LedgerSteps DEF CancelChild
  <2> QED
    BY <1>7, <2>2, LedgerStep, ChildFrame DEF CancelChild, parents
<1>8. CASE CancelChildRecord
  <2> DEFINE c == call.view.child
  <2>1. /\ childWork[c] # "working" /\ childStatus[c] # "none"
        /\ childStatus' = [childStatus EXCEPT ![c] = "cancelled"]
        /\ UNCHANGED <<childWork, starter>>
    BY <1>8, LedgerSteps DEF CancelChildRecord
  <2>2. LedgerInv'
    BY <1>0, <2>1 DEF LedgerInv, ChildTerminal, Settled
  <2> QED
    BY <1>8, <2>1, <2>2, ChildFrame DEF CancelChildRecord, parents
<1>9. CASE CancelKill
  <2>1. CASE WorkerEnds(call.job)
    <3>1. call.job \in Parent /\ UNCHANGED <<file, childStatus, childWork, starter>>
      BY <1>9, <2>1 DEF CancelKill, WorkerEnds, TypeOK, TypeParents
    <3> QED
      BY <1>1, <2>1, <3>1, EndChild
  <2>2. CASE UNCHANGED <<index, children, mode, born, work, worker>>
    <3>1. UNCHANGED <<file, worker, childStatus, childWork, starter>>
      BY <1>9, <2>2 DEF CancelKill, children
    <3> QED
      BY <1>1, <3>1, ChildFrame
  <2> QED
    BY <1>9, <2>1, <2>2 DEF CancelKill
<1>10. ASSUME NEW p \in Parent, WorkerActs(p) PROVE LedgerInv' /\ ChildInv'
  BY <1>10, WorkerChild
<1>11. ASSUME NEW p \in Parent, Exit(p) \/ Crash(p) PROVE LedgerInv' /\ ChildInv'
  <2>1. WorkerEnds(p) /\ UNCHANGED <<file, childStatus, childWork, starter>>
    BY <1>11 DEF Exit, Crash, WorkerEnds
  <2> QED
    BY <1>1, <2>1, EndChild
<1> QED
  BY <1>2, <1>3, <1>4, <1>5, <1>6, <1>7, <1>8, <1>9, <1>10, <1>11, NextSplit

LEMMA ChildAlways == Spec => [](LedgerInv /\ ChildInv)
<1>1. Init => LedgerInv /\ ChildInv
  BY DEF Init, Ledger!Init, LedgerInv, ChildInv, ChildrenOf, Started, Parent, NoRecord, NoWorker
<1> QED
  BY <1>1, ChildNext, ReadyAlways, TypeCorrect, PTL DEF Spec

(* A job that is on record as ended, or that nobody has queued, has no       *)
(* worker at work, whatever older copies polls write back.                  *)
THEOREM EndedJobsRest == Spec => []LedgerInv
BY ChildAlways, PTL

(* A completed preparation has left no refresh job it started at work: it    *)
(* starts them one after the other, and goes on from one only when its      *)
(* result is on record.                                                    *)
THEOREM CompletedLeavesNoChildCorrect == Spec => []CompletedLeavesNoChild
<1>1. ChildInv => CompletedLeavesNoChild
  BY DEF ChildInv, ChildrenOf, CompletedLeavesNoChild
<1> QED
  BY <1>1, ChildAlways, PTL

=============================================================================
