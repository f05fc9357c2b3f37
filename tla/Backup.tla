------------------------------- MODULE Backup -------------------------------
(* Backup and restore of an installation (.harness/backup.py): operations   *)
(* that exclude each other with a lock file, a capture that reads the files *)
(* one payload after the other, the archive that is verified after it was   *)
(* published, and the restore that clears and applies staged payloads.  The *)
(* Compose services are started behind a check of the lock (bin/mcp-docker, *)
(* bin/run-opencode-ssh), stopped by the user or by an operation, and write *)
(* what is captured and restored.                                           *)
(*                                                                          *)
(* A payload is the number of the write that produced it, 0 when empty; an  *)
(* index is the state of the canonical payloads it was built from.  Lengths *)
(* tell only whether a payload is empty: most edits keep what the manifest  *)
(* counts, the first one does not.                                          *)
EXTENDS Naturals, Sequences, FiniteSets

CONSTANTS
    Op,              \* runs of `awoki-backup create' and `awoki-backup restore'
    Service,         \* Compose services and their launchers
    Payloads,        \* the payload roles of a full archive, in their order
    MaxClock,        \* bound on the writes of services
    MaxCrashes,      \* bound on the operations that die
    Requests,        \* the options operations are started with
    PromptRecovery,  \* nobody acts between the read of a stale lock and its removal
    DistinctSeconds, \* no two captures start in the same second
    NoOne, NoArchive

Modes == {"portable", "full"}
Options == [kind : {"create", "restore"}, mode : Modes, live : BOOLEAN,
            stop : BOOLEAN, force : BOOLEAN,
            reindex : {"auto", "none", "lexical", "vector"}]

BackupAssumption ==
    /\ NoOne \notin Op
    /\ MaxClock \in Nat /\ MaxCrashes \in Nat
    /\ PromptRecovery \in BOOLEAN /\ DistinctSeconds \in BOOLEAN
    /\ Requests \subseteq Options
    /\ Payloads \in Seq(STRING)
    /\ {"index", "qdrant"} \subseteq {Payloads[i] : i \in DOMAIN Payloads}

VARIABLES
    canon,    \* role -> what it holds
    index,    \* derived role -> the canonical data it was built from
    clock,    \* number of the last write
    lock,     \* the lock file: who created it, and whether its pid is written
    service,  \* service -> "off", "checked", "stale" or "on"
    op,       \* operation -> its local state
    archive,  \* name -> the archive published under it; `identity': the embedding model
              \* and vector store its derived state belongs to
    sidecar,  \* name -> the archive its .sha256 file was computed from
    crashes

data == <<canon, index, clock>>
store == <<archive, sidecar>>
backupVars == <<data, lock, service, op, store, crashes>>
-----------------------------------------------------------------------------
Derived == {"index", "qdrant"}
Role == {Payloads[i] : i \in DOMAIN Payloads}
Canonical == Role \ Derived
Clean == [r \in Canonical |-> 0]
Nothing == [canon |-> Clean, index |-> [d \in Derived |-> Clean]]
Here == [canon |-> canon, index |-> index]

\* full mode adds the derived state, excluded from a portable archive
Roles(mode) == IF mode = "full" THEN Role ELSE Canonical

NonEmpty(content) == {r \in Canonical : content.canon[r] # 0}
                        \union {d \in Derived : content.index[d] # Clean}
Take(content, from, r) ==
    IF r \in Canonical THEN [content EXCEPT !.canon[r] = from.canon[r]]
                       ELSE [content EXCEPT !.index[r] = from.index[r]]

Name == Op \union Modes \union {"imported"}
ArchiveName(o, mode) == IF DistinctSeconds THEN o ELSE mode

Free == [by |-> NoOne, named |-> FALSE]
On == {s \in Service : service[s] = "on"}

Holding == {"name", "check", "enumerate", "capture", "inspect", "staged",
            "invalidate", "clear", "apply", "init", "reindex", "release"}
Final == {"created", "restored", "warned", "failed", "dead"}

Set(o, changes) ==
    op' = [op EXCEPT ![o] = [f \in DOMAIN op[o] |->
                                IF f \in DOMAIN changes THEN changes[f] ELSE op[o][f]]]
Goto(o, pc) == Set(o, [pc |-> pc])
\* rows are treated in their order
IsNext(r, todo) ==
    \E i \in DOMAIN Payloads : r = Payloads[i] /\ r \in todo
                              /\ \A j \in 1 .. i - 1 : Payloads[j] \notin todo
\* the process ended, and with it what it knew
End(o, pc) == Set(o, [pc |-> pc, tries |-> 0, todo |-> {}, counted |-> {}, at |-> 0,
                      content |-> Nothing, base |-> Nothing, bounced |-> FALSE])
Leave(o, outcome) == Set(o, [pc |-> "release", outcome |-> outcome])

\* no full-only payload is declared by a portable manifest, or contained in it
WellShaped(manifest) == manifest.counted \subseteq Roles(manifest.mode)
NothingExcluded(a) == NonEmpty(a.content) \subseteq Roles(a.mode)

\* verify_backup with its sidecar: the digest, then the counts of the manifest
Verified(a) ==
    /\ archive[a] # NoArchive /\ sidecar[a] = archive[a]
    /\ WellShaped(archive[a]) /\ NothingExcluded(archive[a])
    /\ NonEmpty(archive[a].content) = archive[a].counted
-----------------------------------------------------------------------------
(* An installation that is clean or in use, and an archive from elsewhere.  *)
Imported(mode, from) ==
    LET snapshot == [r \in Canonical |-> 2]
        content == [canon |-> snapshot,
                    index |-> [d \in Derived |-> IF mode = "full" THEN snapshot ELSE Clean]]
    IN  [mode |-> mode, content |-> content, counted |-> NonEmpty(content), identity |-> from]

BackupInit ==
    /\ \E used \in BOOLEAN :
          /\ canon = [r \in Canonical |-> IF used THEN 1 ELSE 0]
          /\ index = [d \in Derived |-> IF used THEN canon ELSE Clean]
    /\ clock = 2
    /\ lock = Free
    /\ service = [s \in Service |-> "off"]
    /\ \E mode \in Modes, from \in {"here", "elsewhere"} :
          /\ mode = "portable" => from = "here"    \* no difference otherwise
          /\ archive = [n \in Name |-> IF n = "imported" THEN Imported(mode, from) ELSE NoArchive]
          /\ op = [o \in Op |->
                     [pc |-> "idle", asked |-> CHOOSE a \in Requests : TRUE, from |-> "imported", mode |-> mode,
                      tries |-> 0, todo |-> {}, counted |-> {}, content |-> Nothing,
                      at |-> 0, base |-> Nothing, bounced |-> FALSE, outcome |-> "failed"]]
    /\ sidecar = archive
    /\ crashes = 0

(* create_backup before the lock: the name is free.                         *)
StartCreate(o, a) ==
    LET name == ArchiveName(o, a.mode)
    IN  /\ op[o].pc = "idle" /\ a.kind = "create"
        /\ archive[name] = NoArchive
        /\ Set(o, [pc |-> "lock", asked |-> a, from |-> name, mode |-> a.mode])
        /\ UNCHANGED <<data, lock, service, store, crashes>>

(* restore_backup before the lock: the archive verifies; its manifest says  *)
(* which rows will be restored.                                             *)
StartRestore(o, a, name) ==
    /\ op[o].pc = "idle" /\ a.kind = "restore"
    /\ Verified(name)
    /\ Set(o, [pc |-> "lock", asked |-> a, from |-> name, mode |-> archive[name].mode])
    /\ UNCHANGED <<data, lock, service, store, crashes>>

(* _operation_lock: the file is created, its pid is written afterwards.     *)
Acquire(o) ==
    /\ op[o].pc = "lock" /\ lock = Free
    /\ lock' = [by |-> o, named |-> FALSE]
    /\ Goto(o, "name")
    /\ UNCHANGED <<data, service, store, crashes>>

WritePid(o) ==
    /\ op[o].pc = "name"
    /\ lock' = IF lock.by = o THEN [lock EXCEPT !.named = TRUE] ELSE lock
    /\ Goto(o, "check")
    /\ UNCHANGED <<data, service, store, crashes>>

(* Mutant: a lock without a pid is nobody's.                                *)
StaleOrUnnamed == lock.by # NoOne /\ (~lock.named \/ op[lock.by].pc \in Final)

\* the pid can be read, and no process has it
Stale == lock.by # NoOne /\ lock.named /\ op[lock.by].pc \in Final

Refuse(o) ==
    /\ op[o].pc = "lock" /\ lock # Free /\ ~Stale
    /\ Goto(o, "failed")
    /\ UNCHANGED <<data, lock, service, store, crashes>>

AfterRecovery(o) == IF op[o].tries = 1 THEN "failed" ELSE "lock"

(* _check_operation_lock reads a dead pid, then unlinks whatever is there.  *)
FindStale(o) ==
    /\ op[o].pc = "lock" /\ Stale
    /\ IF PromptRecovery
       THEN /\ lock' = Free
            /\ Set(o, [pc |-> AfterRecovery(o), tries |-> op[o].tries + 1])
       ELSE Goto(o, "stale") /\ UNCHANGED lock
    /\ UNCHANGED <<data, service, store, crashes>>

RemoveStale(o) ==
    /\ op[o].pc = "stale"
    /\ lock' = Free
    /\ Set(o, [pc |-> AfterRecovery(o), tries |-> op[o].tries + 1])
    /\ UNCHANGED <<data, service, store, crashes>>

Unlock(o) ==
    /\ op[o].pc = "release"
    /\ lock' = Free
    /\ IF op[o].outcome = "published" THEN Goto(o, "hash") ELSE End(o, op[o].outcome)
    /\ UNCHANGED <<data, service, store, crashes>>
-----------------------------------------------------------------------------
Intolerable(o, running) ==
    running # {} /\ (op[o].asked.kind = "restore" \/ op[o].mode = "full" \/ ~op[o].asked.live)

(* Both operations look for running services, after stopping them if asked; *)
(* `docker compose down' can fail halfway.                                  *)
CheckServices(o) ==
    /\ op[o].pc = "check"
    /\ \E left \in IF op[o].asked.stop THEN SUBSET On ELSE {On} :
          /\ service' = [s \in Service |-> IF s \in On \ left THEN "off" ELSE service[s]]
          /\ IF Intolerable(o, left) THEN Leave(o, "failed")
             ELSE Set(o, [pc |-> IF op[o].asked.kind = "create" THEN "enumerate" ELSE "inspect",
                          at |-> clock, base |-> Here])
    /\ UNCHANGED <<data, lock, store, crashes>>

(* The entries of every payload are counted into the manifest ...           *)
Enumerate(o) ==
    /\ op[o].pc = "enumerate"
    /\ Set(o, [pc |-> "capture", todo |-> Roles(op[o].mode),
               counted |-> NonEmpty(Here) \intersect Roles(op[o].mode)])
    /\ UNCHANGED <<data, lock, service, store, crashes>>

(* ... and then added to the archive, as they are by then.                  *)
Capture(o, r) ==
    /\ op[o].pc = "capture" /\ IsNext(r, op[o].todo)
    /\ Set(o, [todo |-> op[o].todo \ {r}, content |-> Take(op[o].content, Here, r)])
    /\ UNCHANGED <<data, lock, service, store, crashes>>

(* Mutant: no second look.                                                  *)
PublishAtOnce(o) ==
    /\ op[o].pc = "capture" /\ op[o].todo = {}
    /\ archive' = [archive EXCEPT ![op[o].from] =
                      [mode |-> op[o].mode, content |-> op[o].content,
                       counted |-> op[o].counted, identity |-> "here"]]
    /\ Leave(o, "published")
    /\ UNCHANGED <<data, lock, service, sidecar, crashes>>

(* The services are looked for again before the archive gets its name.      *)
Publish(o) ==
    /\ op[o].pc = "capture" /\ op[o].todo = {}
    /\ IF Intolerable(o, On)
       THEN Leave(o, "failed") /\ UNCHANGED archive
       ELSE /\ archive' = [archive EXCEPT ![op[o].from] =
                              [mode |-> op[o].mode, content |-> op[o].content,
                               counted |-> op[o].counted, identity |-> "here"]]
            /\ Leave(o, "published")
    /\ UNCHANGED <<data, lock, service, sidecar, crashes>>

(* Without the lock: the digest and its file, ...                           *)
WriteChecksum(o) ==
    /\ op[o].pc = "hash"
    /\ sidecar' = IF archive[op[o].from] = NoArchive THEN sidecar
                  ELSE [sidecar EXCEPT ![op[o].from] = archive[op[o].from]]
    /\ Goto(o, IF archive[op[o].from] = NoArchive THEN "failed" ELSE "verify")
    /\ UNCHANGED <<data, lock, service, archive, crashes>>

(* ... and the self-check, which removes both files when it fails.          *)
SelfCheck(o) ==
    /\ op[o].pc = "verify"
    /\ IF Verified(op[o].from)
       THEN Goto(o, "created") /\ UNCHANGED store
       ELSE /\ End(o, "failed")
            /\ archive' = [archive EXCEPT ![op[o].from] = NoArchive]
            /\ sidecar' = [sidecar EXCEPT ![op[o].from] = NoArchive]
    /\ UNCHANGED <<data, lock, service, crashes>>
-----------------------------------------------------------------------------
(* Mutant: only what could be stale is looked for, not what is overwritten.  *)
DerivedConflicts(o) == NonEmpty(Here) \intersect Derived

\* derived data left of something else, and rows that would overwrite data
Conflicts(o) == NonEmpty(Here)

\* raw vectors and indexes of another embedding identity
Incompatible(a) == a.mode = "full" /\ a.identity = "elsewhere"

\* what of an opened archive is staged: the rows of the manifest verified before
Extracted(content, rows) ==
    [canon |-> [r \in Canonical |-> IF r \in rows THEN content.canon[r] ELSE 0],
     index |-> [d \in Derived |-> IF d \in rows THEN content.index[d] ELSE Clean]]

(* The archive is opened, the destination checked, everything extracted.    *)
Stage(o) ==
    LET open == archive[op[o].from]
    IN  /\ op[o].pc = "inspect" /\ open # NoArchive
        /\ op[o].asked.force \/ (Conflicts(o) = {} /\ ~Incompatible(open))
        /\ Set(o, [pc |-> "staged", content |-> Extracted(open.content, Roles(op[o].mode))])
        /\ UNCHANGED <<data, lock, service, store, crashes>>

(* Or not: the destinations overlap, the disk is too small, a member cannot *)
(* be read, or one of the above.                                            *)
StageFails(o) ==
    /\ op[o].pc = "inspect"
    /\ Leave(o, "failed")
    /\ UNCHANGED <<data, lock, service, store, crashes>>

(* Services again, before the first change of the destination.              *)
BeginApply(o) ==
    /\ op[o].pc = "staged"
    /\ IF On # {} THEN Leave(o, "failed")
       ELSE Set(o, [todo |-> Roles(op[o].mode),
                    pc |-> IF ~op[o].asked.force THEN "apply"
                           ELSE IF op[o].mode = "portable" THEN "invalidate" ELSE "clear"])
    /\ UNCHANGED <<data, lock, service, store, crashes>>

\* what is there afterwards
Put(content) == canon' = content.canon /\ index' = content.index /\ UNCHANGED clock

(* Mutant: the vectors are left to the next synchronisation.                *)
InvalidateLexical(o) ==
    /\ op[o].pc = "invalidate"
    /\ Put(Take(Here, Nothing, "index"))
    /\ Goto(o, "clear")
    /\ UNCHANGED <<lock, service, store, crashes>>

(* _invalidate_portable_indexes with force.                                 *)
Invalidate(o) ==
    /\ op[o].pc = "invalidate"
    /\ Put([canon |-> canon, index |-> Nothing.index])
    /\ Goto(o, "clear")
    /\ UNCHANGED <<lock, service, store, crashes>>

Clear(o, r) ==
    /\ op[o].pc = "clear" /\ IsNext(r, op[o].todo)
    /\ Put(Take(Here, Nothing, r))
    /\ IF op[o].todo = {r} THEN Set(o, [pc |-> "apply", todo |-> Roles(op[o].mode)])
                           ELSE Set(o, [todo |-> op[o].todo \ {r}])
    /\ UNCHANGED <<lock, service, store, crashes>>

Apply(o, r) ==
    /\ op[o].pc = "apply" /\ IsNext(r, op[o].todo)
    /\ Put(Take(Here, op[o].content, r))
    /\ Set(o, [todo |-> op[o].todo \ {r}, pc |-> IF op[o].todo = {r} THEN "init" ELSE "apply"])
    /\ UNCHANGED <<lock, service, store, crashes>>

(* init-awoki.sh on the restored layout.                                    *)
RunInit(o) ==
    /\ op[o].pc = "init"
    /\ Goto(o, "reindex") \/ Leave(o, "failed")
    /\ UNCHANGED <<data, lock, service, store, crashes>>

Rebuilt(o) ==
    CASE op[o].asked.reindex = "none" -> {}
      [] op[o].asked.reindex = "auto" -> IF op[o].mode = "portable" THEN {"index"} ELSE {}
      [] op[o].asked.reindex = "lexical" -> {"index"}
      [] op[o].asked.reindex = "vector" -> Derived

(* _reindex_restored; a failure leaves a restored installation behind.      *)
Reindex(o) ==
    /\ op[o].pc = "reindex"
    /\ \E built \in SUBSET Rebuilt(o) :
          /\ Put([canon |-> canon,
                  index |-> [d \in Derived |-> IF d \in built THEN canon ELSE index[d]]])
          /\ \/ built = Rebuilt(o) /\ Leave(o, "restored")
             \/ Rebuilt(o) # {} /\ Leave(o, "warned")
    /\ UNCHANGED <<lock, service, store, crashes>>

(* The process dies; its lock and what it changed remain.                   *)
Crash(o) ==
    /\ op[o].pc \notin Final \union {"idle"} /\ crashes < MaxCrashes
    /\ crashes' = crashes + 1
    /\ End(o, "dead")
    /\ UNCHANGED <<data, lock, service, store>>
-----------------------------------------------------------------------------
(* `awoki-backup lock-check' of a launcher, and `docker compose up' after it *)
LockCheck(s) ==
    /\ service[s] = "off" /\ (lock = Free \/ Stale)
    /\ service' = [service EXCEPT ![s] =
                      IF lock = Free \/ PromptRecovery THEN "checked" ELSE "stale"]
    /\ lock' = IF PromptRecovery THEN Free ELSE lock
    /\ UNCHANGED <<data, op, store, crashes>>

LockClear(s) ==
    /\ service[s] = "stale"
    /\ service' = [service EXCEPT ![s] = "checked"]
    /\ lock' = Free
    /\ UNCHANGED <<data, op, store, crashes>>

Up(s) ==
    /\ service[s] = "checked"
    /\ service' = [service EXCEPT ![s] = "on"]
    /\ UNCHANGED <<data, lock, op, store, crashes>>

(* The user stops a service, also between the two looks of a capture.       *)
Down(s) ==
    /\ service[s] = "on"
    /\ service' = [service EXCEPT ![s] = "off"]
    /\ op' = [o \in Op |-> [op[o] EXCEPT !.bounced =
                               @ \/ op[o].pc \in {"enumerate", "capture"}]]
    /\ UNCHANGED <<data, lock, store, crashes>>

Write(r) ==
    /\ On # {} /\ clock < MaxClock
    /\ clock' = clock + 1
    /\ IF r \in Canonical
       THEN canon' = [canon EXCEPT ![r] = clock + 1] /\ UNCHANGED index
       ELSE index' = [index EXCEPT ![r] = canon] /\ UNCHANGED canon
    /\ UNCHANGED <<lock, service, op, store, crashes>>

BackupNext ==
    \/ \E o \in Op :
          \/ \E a \in Requests : StartCreate(o, a) \/ \E n \in Name : StartRestore(o, a, n)
          \/ Acquire(o) \/ WritePid(o) \/ Refuse(o) \/ FindStale(o) \/ RemoveStale(o)
          \/ CheckServices(o) \/ Enumerate(o) \/ Publish(o) \/ Unlock(o)
          \/ WriteChecksum(o) \/ SelfCheck(o)
          \/ Stage(o) \/ StageFails(o) \/ BeginApply(o) \/ Invalidate(o) \/ RunInit(o) \/ Reindex(o) \/ Crash(o)
          \/ \E r \in Role : Capture(o, r) \/ Clear(o, r) \/ Apply(o, r)
    \/ \E s \in Service : LockCheck(s) \/ LockClear(s) \/ Up(s) \/ Down(s)
    \/ \E r \in Role : Write(r)

BackupSpec == BackupInit /\ [][BackupNext]_backupVars
-----------------------------------------------------------------------------
(* At most one backup or restore works on the installation, whatever died   *)
(* before it and whoever recovers a stale lock meanwhile (_operation_lock). *)
OneOperation ==
    \A o, p \in Op : op[o].pc \in Holding /\ op[p].pc \in Holding => o = p

(* What create_backup reports as created verifies, and unless live capture  *)
(* was allowed it is the installation as it was at one moment: the second   *)
(* look at the services discards what they can have torn.  The one way past *)
(* it is a service that starts and is stopped between the two looks.        *)
CreatedIsSound ==
    \A o \in Op : op[o].pc = "created" =>
        /\ Verified(op[o].from)
        /\ op[o].asked.live \/ op[o].bounced \/
              \A r \in Roles(op[o].mode) :
                 Take(Nothing, archive[op[o].from].content, r) = Take(Nothing, op[o].base, r)

(* A restore that is about to report success left exactly the archive's     *)
(* payloads, and no index of any other data: what is derived is empty, was  *)
(* rebuilt from what was restored, or came with a full archive, of another  *)
(* embedding identity only by force.  (Unless a service, let in by a        *)
(* launcher that had checked the lock before, wrote meanwhile.)             *)
RestoredIsTheArchive ==
    \A o \in Op :
        /\ op[o].pc = "release" /\ op[o].outcome \in {"restored", "warned"}
        /\ op[o].at = clock
        => /\ canon = op[o].content.canon
           /\ \A d \in Derived :
                 \/ index[d] \in {Clean, canon}
                 \/ /\ op[o].mode = "full" /\ index[d] = op[o].content.index[d]
                    /\ op[o].asked.force \/ ~Incompatible(archive[op[o].from])

Kept ==
    \A r \in Canonical :
        canon[r] # 0 /\ canon'[r] # canon[r] /\ clock' = clock =>
            \E o \in Op : /\ op[o].pc \in {"clear", "apply"}
                          /\ op[o].asked.force \/ op[o].at < clock

(* Without --force a restore never replaces authoritative data that was     *)
(* there when it looked, and no operation ever changes the installation     *)
(* while nothing is staged; only a write after its look can be lost.        *)
UnforcedKeepsData == [][Kept]_backupVars
=============================================================================
