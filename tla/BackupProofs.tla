---------------------------- MODULE BackupProofs ----------------------------
(***************************************************************************)
(* Theorems about Backup, for any operations, services, payloads and       *)
(* options, any number of writes and of crashes.                           *)
(*                                                                         *)
(* The lock is kept by whoever works, so only services and their writes    *)
(* come between the steps of a capture or of a restore.  What a capture    *)
(* has read is the installation as it was when the services were looked    *)
(* for, unless one is on now or was stopped meanwhile; what a restore has  *)
(* replaced is the archive, unless something was written meanwhile; and an *)
(* archive that has once verified stays as it is.                          *)
(***************************************************************************)
EXTENDS Backup, TLAPS

Fields == {"pc", "asked", "from", "mode", "tries", "todo", "counted", "content", "at", "base",
           "bounced", "outcome"}
Pcs == Holding \union Final \union {"idle", "lock", "stale", "hash", "verify"}
Outcomes == {"published", "restored", "warned", "failed"}
Datum == [Canonical -> Nat]
Content == [canon : Datum, index : [Derived -> Datum]]

Shape == op = [o \in Op |-> op[o]] /\ \A o \in Op : DOMAIN op[o] = Fields

Typed(o) ==
    /\ op[o].pc \in Pcs /\ op[o].from \in Name /\ op[o].mode \in Modes /\ op[o].at \in Nat
    /\ op[o].pc # "idle" => op[o].asked \in Options
    /\ op[o].todo \subseteq Roles(op[o].mode) /\ (op[o].pc = "idle" => op[o].todo = {})
    /\ op[o].content \in Content /\ op[o].base \in Content
    /\ op[o].bounced \in BOOLEAN /\ op[o].outcome \in Outcomes

TypeOK ==
    /\ Shape /\ \A o \in Op : Typed(o)
    /\ Here \in Content /\ clock \in Nat
    /\ lock \in [by : Op \union {NoOne}, named : BOOLEAN]
    /\ service \in [Service -> {"off", "checked", "stale", "on"}]
    /\ archive = [a \in Name |-> archive[a]] /\ sidecar = [a \in Name |-> sidecar[a]]
    /\ \A a \in Name : archive[a] # NoArchive =>
           archive[a].content \in Content /\ archive[a].mode \in Modes

(* Whoever works has the lock; nobody is between the read and the removal   *)
(* of a stale one.                                                         *)
LockInv ==
    /\ \A o \in Op : op[o].pc \in Holding => lock.by = o
    /\ \A o \in Op : op[o].pc # "stale"
    /\ \A s \in Service : service[s] # "stale"

(* Which steps are whose.                                                  *)
Creates(o) == op[o].asked.kind = "create"
Finishing(o) == op[o].pc = "release" /\ op[o].outcome \in {"restored", "warned"}
Staged(o) ==
    \/ op[o].pc \in {"staged", "invalidate", "clear", "apply", "init", "reindex"}
    \/ Finishing(o)
Published(o) ==
    \/ op[o].pc \in {"hash", "verify", "created"}
    \/ op[o].pc = "release" /\ op[o].outcome = "published"
KindInv(o) ==
    /\ op[o].pc \in {"enumerate", "capture"} \/ Published(o) => Creates(o)
    /\ op[o].pc = "inspect" \/ Staged(o) => ~Creates(o)

(* An archive has the name of the operation that makes it, and is not there *)
(* before; one that is restored has verified.                              *)
NameInv(o) ==
    op[o].pc \notin Final \union {"idle"} =>
        IF Creates(o)
        THEN /\ op[o].from = o
             /\ op[o].pc \in {"lock", "name", "check", "enumerate", "capture"} =>
                    archive[o] = NoArchive
        ELSE Verified(op[o].from) /\ op[o].mode = archive[op[o].from].mode

\* The contents agree on a payload.
SameAt(c, d, r) == IF r \in Canonical THEN c.canon[r] = d.canon[r] ELSE c.index[r] = d.index[r]

Torn(o) == op[o].asked.live \/ op[o].bounced

(* What a capture has read is what was there when it looked.               *)
CaptureInv(o) ==
    /\ op[o].pc \in {"enumerate", "capture"} /\ ~Torn(o) /\ On = {} =>
        /\ Here = op[o].base
        /\ op[o].pc = "capture" =>
              \A r \in Roles(op[o].mode) \ op[o].todo : SameAt(op[o].content, op[o].base, r)
    /\ Published(o) /\ ~Torn(o) =>
          \A r \in Roles(op[o].mode) : SameAt(archive[op[o].from].content, op[o].base, r)
    /\ op[o].pc = "created" => op[o].from = o /\ Verified(o)

(* What a restore has staged, and what of it is in place.                  *)
Undisturbed(o) == op[o].at = clock
Portable(o) == op[o].mode = "portable"
StagedInv(o) ==
    /\ op[o].pc = "inspect" \/ Staged(o) => op[o].at <= clock
    /\ Staged(o) =>
        /\ op[o].asked.force \/ ~Incompatible(archive[op[o].from])
        /\ op[o].pc = "invalidate" => op[o].asked.force /\ Portable(o)
        /\ op[o].pc = "clear" => op[o].asked.force
PlaceInv(o) ==
    Undisturbed(o) =>
        /\ op[o].pc = "staged" /\ ~op[o].asked.force => Here = Nothing
        /\ op[o].pc \in {"clear", "apply"} /\ Portable(o) => index = Nothing.index
        /\ op[o].pc = "apply" =>
              /\ \A r \in Roles(op[o].mode) \ op[o].todo : SameAt(Here, op[o].content, r)
              /\ ~op[o].asked.force => \A r \in Canonical \intersect op[o].todo : canon[r] = 0
        /\ op[o].pc \in {"init", "reindex"} \/ Finishing(o) =>
              /\ canon = op[o].content.canon
              /\ \A d \in Derived :
                    \/ index[d] \in {Clean, canon}
                    \/ ~Portable(o) /\ index[d] = op[o].content.index[d]

BackupInv ==
    /\ TypeOK /\ LockInv
    /\ \A o \in Op : KindInv(o) /\ NameInv(o) /\ CaptureInv(o) /\ StagedInv(o) /\ PlaceInv(o)
-----------------------------------------------------------------------------
(* What a step does to the operation that takes it.                        *)

LEMMA SetFields ==
    ASSUME Shape, NEW o \in Op, NEW changes, Set(o, changes)
    PROVE  /\ Shape' /\ \A p \in Op \ {o} : op'[p] = op[p]
           /\ \A f \in Fields : op'[o][f] = IF f \in DOMAIN changes THEN changes[f] ELSE op[o][f]
  <1>1. \A p \in Op : op'[p] = IF p = o THEN [f \in DOMAIN op[o] |->
                                 IF f \in DOMAIN changes THEN changes[f] ELSE op[o][f]] ELSE op[p]
    BY DEF Shape, Set
  <1>2. op' = [p \in Op |-> op'[p]]
    BY DEF Shape, Set
  <1>3. \A p \in Op : DOMAIN op'[p] = Fields
    BY <1>1 DEF Shape
  <1> QED
    BY <1>1, <1>2, <1>3 DEF Shape

\* The others are as typed as before.
LEMMA TypedAfter ==
    ASSUME TypeOK, NEW o \in Op, NEW changes, Set(o, changes), Typed(o)'
    PROVE  Shape' /\ \A p \in Op : Typed(p)'
  BY SetFields DEF TypeOK, Typed

LEMMA RolesAre ==
    ASSUME BackupAssumption
    PROVE  /\ Derived \subseteq Role /\ Canonical \subseteq Role /\ Canonical \intersect Derived = {}
           /\ Role = Canonical \union Derived
           /\ Roles("full") = Role /\ Roles("portable") = Canonical
           /\ \A mode \in Modes : Roles(mode) \subseteq Role /\ Canonical \subseteq Roles(mode)
  BY DEF BackupAssumption, Derived, Role, Canonical, Roles, Modes

LEMMA NothingType == Clean \in Datum /\ Nothing \in Content
                     /\ Nothing.canon = Clean /\ \A d \in Derived : Nothing.index[d] = Clean
  BY DEF Clean, Nothing, Datum, Content

LEMMA TakeType ==
    ASSUME NEW c \in Content, NEW d \in Content, NEW r \in Role
    PROVE  /\ Take(c, d, r) \in Content /\ SameAt(Take(c, d, r), d, r)
           /\ \A q \in Role \ {r} : SameAt(Take(c, d, r), c, q)
           /\ r \in Canonical => Take(c, d, r).index = c.index
           /\ r \notin Canonical => Take(c, d, r).canon = c.canon
  <1> DEFINE a == [c.canon EXCEPT ![r] = d.canon[r]]
             b == [c.index EXCEPT ![r] = d.index[r]]
  <1>0. c.canon \in Datum /\ c.index \in [Derived -> Datum] /\ d.canon \in Datum
        /\ d.index \in [Derived -> Datum] /\ c = [canon |-> c.canon, index |-> c.index]
    BY DEF Content
  <1>1. CASE r \in Canonical
    <2>1. Take(c, d, r) = [canon |-> a, index |-> c.index]
      BY <1>0, <1>1 DEF Take
    <2>2. a \in Datum /\ a[r] = d.canon[r] /\ \A q \in Canonical \ {r} : a[q] = c.canon[q]
      BY <1>0, <1>1 DEF Datum
    <2>3. [canon |-> a, index |-> c.index] \in Content
      BY <1>0, <2>2 DEF Content
    <2> HIDE DEF a
    <2> QED
      BY <1>0, <1>1, <2>1, <2>2, <2>3 DEF SameAt
  <1>2. CASE r \notin Canonical
    <2>0. r \in Derived
      BY <1>2 DEF Canonical
    <2>1. Take(c, d, r) = [canon |-> c.canon, index |-> b]
      BY <1>0, <1>2 DEF Take
    <2>2. b \in [Derived -> Datum] /\ b[r] = d.index[r]
          /\ \A q \in Derived \ {r} : b[q] = c.index[q]
      BY <1>0, <2>0
    <2>3. [canon |-> c.canon, index |-> b] \in Content
      BY <1>0, <2>2 DEF Content
    <2>4. \A q \in Role \ Canonical : q \in Derived
      BY DEF Canonical
    <2> HIDE DEF b
    <2> QED
      BY <1>0, <1>2, <2>1, <2>2, <2>3, <2>4 DEF SameAt
  <1> QED
    BY <1>1, <1>2

LEMMA ExtractedType ==
    ASSUME NEW c \in Content, NEW rows
    PROVE  /\ Extracted(c, rows) \in Content
           /\ Canonical \subseteq rows => Extracted(c, rows).canon = c.canon
           /\ \A d \in Derived : Extracted(c, rows).index[d] = IF d \in rows THEN c.index[d] ELSE Clean
  BY NothingType DEF Extracted, Content, Datum
-----------------------------------------------------------------------------
(* Types, and the lock.                                                    *)

LEMMA ImportedType ==
    ASSUME NEW mode \in Modes, NEW from
    PROVE  Imported(mode, from).content \in Content /\ Imported(mode, from).mode = mode
  BY NothingType DEF Imported, Content, Datum

LEMMA TypeInit == BackupAssumption /\ BackupInit => TypeOK
  <1> SUFFICES ASSUME BackupAssumption, BackupInit PROVE TypeOK
    OBVIOUS
  <1>1. Here \in Content /\ clock \in Nat
    <2>1. PICK used \in BOOLEAN :
              /\ canon = [r \in Canonical |-> IF used THEN 1 ELSE 0]
              /\ index = [d \in Derived |-> IF used THEN canon ELSE Clean]
      BY DEF BackupInit
    <2>2. canon \in Datum /\ index \in [Derived -> Datum]
      BY <2>1, NothingType DEF Datum
    <2> QED
      BY <2>2 DEF BackupInit, Here, Content
  <1>2. PICK mode \in Modes, from \in {"here", "elsewhere"} :
          /\ archive = [n \in Name |-> IF n = "imported" THEN Imported(mode, from) ELSE NoArchive]
          /\ op = [o \in Op |->
                     [pc |-> "idle", asked |-> CHOOSE a \in Requests : TRUE, from |-> "imported",
                      mode |-> mode, tries |-> 0, todo |-> {}, counted |-> {},
                      content |-> Nothing, at |-> 0, base |-> Nothing, bounced |-> FALSE,
                      outcome |-> "failed"]]
    BY DEF BackupInit
  <1>3. Shape
    BY <1>2 DEF Shape, Fields
  <1>4. ASSUME NEW o \in Op PROVE Typed(o)
    <2>1. /\ op[o].pc = "idle" /\ op[o].from = "imported" /\ op[o].mode = mode /\ op[o].at = 0
          /\ op[o].todo = {} /\ op[o].content = Nothing /\ op[o].base = Nothing
          /\ op[o].bounced = FALSE /\ op[o].outcome = "failed"
      BY <1>2
    <2>2. "idle" \in Pcs /\ "imported" \in Name /\ "failed" \in Outcomes /\ mode \in Modes
          /\ Nothing \in Content /\ 0 \in Nat /\ FALSE \in BOOLEAN
      BY NothingType DEF Pcs, Name, Outcomes
    <2> QED
      BY <2>1, <2>2 DEF Typed
  <1>5. /\ archive = [a \in Name |-> archive[a]] /\ sidecar = [a \in Name |-> sidecar[a]]
        /\ \A a \in Name : archive[a] # NoArchive =>
               archive[a].content \in Content /\ archive[a].mode \in Modes
    <2>1. archive = [a \in Name |-> archive[a]] /\ sidecar = archive
      BY <1>2 DEF BackupInit
    <2>2. ASSUME NEW a \in Name, archive[a] # NoArchive
          PROVE  archive[a].content \in Content /\ archive[a].mode \in Modes
      BY <1>2, <2>2, ImportedType
    <2> QED
      BY <2>1, <2>2
  <1>6. lock \in [by : Op \union {NoOne}, named : BOOLEAN]
        /\ service \in [Service -> {"off", "checked", "stale", "on"}]
    BY DEF BackupInit, Free
  <1> QED
    BY <1>1, <1>3, <1>4, <1>5, <1>6 DEF TypeOK

\* A step of an operation keeps the types of the operations when its own result is typed.
LEMMA TypeOfOps ==
    ASSUME BackupAssumption, TypeOK, NEW o \in Op, NEW changes, Set(o, changes), Typed(o)',
           Here' \in Content, clock' \in Nat,
           lock' \in [by : Op \union {NoOne}, named : BOOLEAN],
           service' \in [Service -> {"off", "checked", "stale", "on"}],
           archive' = [a \in Name |-> archive'[a]], sidecar' = [a \in Name |-> sidecar'[a]],
           \A a \in Name : archive'[a] # NoArchive =>
               archive'[a].content \in Content /\ archive'[a].mode \in Modes
    PROVE  TypeOK'
  BY TypedAfter DEF TypeOK

\* What most steps leave as it is.
LEMMA TypeOfSets ==
    ASSUME BackupAssumption, TypeOK, NEW o \in Op, NEW changes, Set(o, changes), Typed(o)',
           UNCHANGED <<data, service, store>>,
           lock' \in [by : Op \union {NoOne}, named : BOOLEAN]
    PROVE  TypeOK'
  <1>1. Here' = Here /\ clock' = clock /\ service' = service /\ archive' = archive
        /\ sidecar' = sidecar
    BY DEF data, store, Here
  <1> QED
    BY <1>1, TypeOfOps DEF TypeOK

\* Nobody goes anywhere else.
LEMMA GotoTyped ==
    ASSUME TypeOK, NEW o \in Op, NEW pc \in Pcs \ {"idle"}, op[o].pc # "idle",
           \/ Goto(o, pc)
           \/ \E n : Set(o, [pc |-> pc, tries |-> n])
           \/ \E r \in Outcomes : Set(o, [pc |-> pc, outcome |-> r])
           \/ \E rest \in SUBSET op[o].todo : Set(o, [pc |-> pc, todo |-> rest])
    PROVE  Typed(o)'
  <1>0. Shape /\ Typed(o)
    BY DEF TypeOK
  <1>1. CASE Goto(o, pc)
    BY <1>0, <1>1, SetFields DEF Goto, Fields, Typed
  <1>2. ASSUME NEW n, Set(o, [pc |-> pc, tries |-> n]) PROVE Typed(o)'
    BY <1>0, <1>2, SetFields DEF Fields, Typed
  <1>3. ASSUME NEW r \in Outcomes, Set(o, [pc |-> pc, outcome |-> r]) PROVE Typed(o)'
    BY <1>0, <1>3, SetFields DEF Fields, Typed
  <1>4. ASSUME NEW rest \in SUBSET op[o].todo, Set(o, [pc |-> pc, todo |-> rest]) PROVE Typed(o)'
    BY <1>0, <1>4, SetFields DEF Fields, Typed
  <1> QED
    BY <1>1, <1>2, <1>3, <1>4

LEMMA EndTyped ==
    ASSUME TypeOK, NEW o \in Op, NEW pc \in Pcs \ {"idle"}, op[o].pc # "idle", End(o, pc)
    PROVE  Typed(o)'
  <1>1. Shape /\ Typed(o)
    BY DEF TypeOK
  <1>2. /\ op'[o].pc = pc /\ op'[o].todo = {} /\ op'[o].at = 0 /\ op'[o].content = Nothing
        /\ op'[o].base = Nothing /\ op'[o].bounced = FALSE
    BY <1>1, SetFields DEF End, Fields
  <1>3. /\ op'[o].asked = op[o].asked /\ op'[o].from = op[o].from /\ op'[o].mode = op[o].mode
        /\ op'[o].outcome = op[o].outcome
    BY <1>1, SetFields DEF End, Fields
  <1>4. pc # "idle" /\ pc \in Pcs /\ Nothing \in Content /\ 0 \in Nat /\ FALSE \in BOOLEAN
    BY NothingType
  <1> QED
    BY <1>1, <1>2, <1>3, <1>4 DEF Typed
-----------------------------------------------------------------------------
\* Where a program counter is.
LEMMA PcsAre ==
    /\ Holding \subseteq Pcs \ {"idle"} /\ Final \subseteq Pcs \ {"idle"}
    /\ {"lock", "stale", "hash", "verify"} \subseteq Pcs \ {"idle"}
    /\ Holding \intersect (Final \union {"idle", "lock", "stale", "hash", "verify"}) = {}
    /\ Final \intersect {"idle", "lock", "stale", "hash", "verify"} = {}
    /\ {"name", "check", "enumerate", "capture", "inspect", "staged", "invalidate", "clear",
        "apply", "init", "reindex", "release"} = Holding
    /\ {"created", "restored", "warned", "failed", "dead"} = Final
    /\ {"published", "restored", "warned", "failed"} = Outcomes
  BY DEF Pcs, Holding, Final, Outcomes

LEMMA StartTyped ==
    ASSUME BackupAssumption, TypeOK, NEW o \in Op, NEW a \in Requests, NEW n \in Name,
           StartCreate(o, a) \/ StartRestore(o, a, n)
    PROVE  TypeOK'
  <1>1. Shape /\ Typed(o) /\ a \in Options /\ "lock" \in Pcs /\ op[o].pc = "idle"
    BY PcsAre DEF TypeOK, BackupAssumption, StartCreate, StartRestore
  <1>2. a.mode \in Modes /\ ArchiveName(o, a.mode) \in Name
    BY <1>1 DEF Options, ArchiveName, Name
  <1>3. CASE StartCreate(o, a)
    <2> DEFINE c == [pc |-> "lock", asked |-> a, from |-> ArchiveName(o, a.mode), mode |-> a.mode]
    <2>1. Set(o, c)
      BY <1>3 DEF StartCreate
    <2>2. Typed(o)'
      BY <1>1, <1>2, <2>1, SetFields DEF Fields, Typed
    <2> QED
      BY <1>3, <2>1, <2>2, TypeOfSets DEF StartCreate, TypeOK
  <1>4. CASE StartRestore(o, a, n)
    <2> DEFINE c == [pc |-> "lock", asked |-> a, from |-> n, mode |-> archive[n].mode]
    <2>1. Set(o, c) /\ archive[n].mode \in Modes
      BY <1>4 DEF StartRestore, TypeOK, Verified
    <2>2. Typed(o)'
      BY <1>1, <2>1, SetFields DEF Fields, Typed
    <2> QED
      BY <1>4, <2>1, <2>2, TypeOfSets DEF StartRestore, TypeOK
  <1> QED
    BY <1>3, <1>4

LEMMA LockTyped ==
    ASSUME BackupAssumption, TypeOK, NEW o \in Op,
           Acquire(o) \/ WritePid(o) \/ Refuse(o) \/ FindStale(o) \/ RemoveStale(o) \/ Unlock(o)
    PROVE  TypeOK'
  <1>1. Free \in [by : Op \union {NoOne}, named : BOOLEAN]
        /\ lock \in [by : Op \union {NoOne}, named : BOOLEAN]
    BY DEF Free, TypeOK
  <1>2. lock' \in [by : Op \union {NoOne}, named : BOOLEAN]
    <2>1. [by |-> o, named |-> FALSE] \in [by : Op \union {NoOne}, named : BOOLEAN]
          /\ [lock EXCEPT !.named = TRUE] \in [by : Op \union {NoOne}, named : BOOLEAN]
      BY <1>1
    <2>2. lock' \in {lock, Free, [by |-> o, named |-> FALSE], [lock EXCEPT !.named = TRUE]}
      BY DEF Acquire, WritePid, Refuse, FindStale, RemoveStale, Unlock
    <2> QED
      BY <1>1, <2>1, <2>2
  <1>3. UNCHANGED <<data, service, store>> /\ op[o].pc # "idle"
    <2>1. CASE Acquire(o) \/ Refuse(o) \/ FindStale(o)
      BY <2>1 DEF Acquire, Refuse, FindStale
    <2>2. CASE WritePid(o) \/ RemoveStale(o) \/ Unlock(o)
      BY <2>2 DEF WritePid, RemoveStale, Unlock
    <2> QED
      BY <2>1, <2>2
  <1>4. ASSUME NEW pc \in Pcs \ {"idle"}, NEW n,
               Goto(o, pc) \/ Set(o, [pc |-> pc, tries |-> n])
        PROVE  TypeOK'
    <2>1. Typed(o)'
      BY <1>3, <1>4, GotoTyped
    <2> QED
      BY <1>2, <1>3, <1>4, <2>1, TypeOfSets DEF Goto
  <1>5. CASE Acquire(o) \/ WritePid(o) \/ Refuse(o)
    BY <1>4, <1>5, PcsAre DEF Acquire, WritePid, Refuse
  <1>6. CASE FindStale(o) \/ RemoveStale(o)
    <2>1. AfterRecovery(o) \in Pcs \ {"idle"} /\ "stale" \in Pcs \ {"idle"}
      BY PcsAre DEF AfterRecovery
    <2> QED
      BY <1>4, <1>6, <2>1 DEF FindStale, RemoveStale
  <1>7. CASE Unlock(o)
    <2>1. CASE op[o].outcome = "published"
      BY <1>4, <1>7, <2>1, PcsAre DEF Unlock
    <2>2. CASE op[o].outcome # "published"
      <3>1. op[o].outcome \in Pcs \ {"idle"} /\ End(o, op[o].outcome)
        BY <1>7, <2>2, PcsAre DEF Unlock, TypeOK, Typed
      <3>2. Typed(o)'
        BY <1>3, <3>1, EndTyped
      <3> QED
        BY <1>2, <1>3, <3>1, <3>2, TypeOfSets DEF End
    <2> QED
      BY <2>1, <2>2
  <1> QED
    BY <1>5, <1>6, <1>7

\* A step that leaves the lock, the services and the archives to the others.
LEMMA WorkTyped ==
    ASSUME BackupAssumption, TypeOK, NEW o \in Op, op[o].pc # "idle", NEW pc \in Pcs \ {"idle"},
           Here' \in Content, clock' = clock, UNCHANGED <<lock, service, store>>,
           \/ Goto(o, pc) \/ Leave(o, "failed") \/ Leave(o, "restored") \/ Leave(o, "warned")
           \/ \E rest \in SUBSET op[o].todo : Set(o, [pc |-> pc, todo |-> rest])
    PROVE  TypeOK'
  <1>1. Typed(o)'
    <2>1. ASSUME NEW r \in Outcomes, Leave(o, r) PROVE Typed(o)'
      <3>1. "release" \in Pcs \ {"idle"} /\ Set(o, [pc |-> "release", outcome |-> r])
        BY <2>1, PcsAre DEF Leave
      <3> QED
        BY <3>1, GotoTyped
    <2>2. {"failed", "restored", "warned"} \subseteq Outcomes
      BY PcsAre
    <2> QED
      BY <2>1, <2>2, GotoTyped
  <1>2. \E changes : Set(o, changes)
    BY DEF Goto, Leave
  <1> QED
    BY <1>1, <1>2, TypeOfOps DEF TypeOK, store

LEMMA CreateTyped ==
    ASSUME BackupAssumption, TypeOK, NEW o \in Op, NEW r \in Role,
           CheckServices(o) \/ Enumerate(o) \/ Capture(o, r)
    PROVE  TypeOK'
  <1>1. Shape /\ Typed(o) /\ Here \in Content /\ clock \in Nat
    BY DEF TypeOK
  <1>2. CASE CheckServices(o)
    <2>1. PICK left \in SUBSET Service :
              /\ service' = [s \in Service |-> IF s \in On \ left THEN "off" ELSE service[s]]
              /\ IF Intolerable(o, left) THEN Leave(o, "failed")
                 ELSE Set(o, [pc |-> IF op[o].asked.kind = "create" THEN "enumerate" ELSE "inspect",
                              at |-> clock, base |-> Here])
      BY <1>2 DEF CheckServices, On
    <2>2. service' \in [Service -> {"off", "checked", "stale", "on"}]
      BY <2>1 DEF TypeOK
    <2>3. op[o].pc = "check" /\ UNCHANGED <<data, lock, store>>
      BY <1>2 DEF CheckServices
    <2>4. \E changes : Set(o, changes)
      BY <2>1 DEF Leave
    <2>5. Typed(o)'
      <3>1. CASE Leave(o, "failed")
        <4>1. "release" \in Pcs \ {"idle"} /\ "failed" \in Outcomes
          BY PcsAre
        <4> QED
          BY <2>3, <3>1, <4>1, GotoTyped DEF Leave
      <3>2. ASSUME NEW pc \in Pcs \ {"idle"}, Set(o, [pc |-> pc, at |-> clock, base |-> Here])
            PROVE  Typed(o)'
        BY <1>1, <2>3, <3>2, SetFields DEF Fields, Typed
      <3> QED
        BY <2>1, <3>1, <3>2, PcsAre
    <2>6. Here' = Here /\ clock' = clock /\ archive' = archive /\ sidecar' = sidecar
      BY <2>3 DEF data, store, Here
    <2> QED
      BY <2>2, <2>3, <2>4, <2>5, <2>6, TypeOfOps DEF TypeOK
  <1>3. CASE Enumerate(o)
    <2>1. Set(o, [pc |-> "capture", todo |-> Roles(op[o].mode),
                  counted |-> NonEmpty(Here) \intersect Roles(op[o].mode)])
          /\ op[o].pc = "enumerate" /\ "capture" \in Pcs /\ UNCHANGED <<data, lock, service, store>>
      BY <1>3, PcsAre DEF Enumerate
    <2>2. Typed(o)'
      BY <1>1, <2>1, SetFields DEF Fields, Typed
    <2> QED
      BY <2>1, <2>2, TypeOfSets DEF TypeOK
  <1>4. CASE Capture(o, r)
    <2>1. Set(o, [todo |-> op[o].todo \ {r}, content |-> Take(op[o].content, Here, r)])
          /\ op[o].pc = "capture" /\ UNCHANGED <<data, lock, service, store>>
      BY <1>4 DEF Capture
    <2>2. Take(op[o].content, Here, r) \in Content
      BY <1>1, TakeType DEF Typed
    <2>3. Typed(o)'
      BY <1>1, <2>1, <2>2, SetFields DEF Fields, Typed
    <2> QED
      BY <2>1, <2>3, TypeOfSets DEF TypeOK
  <1> QED
    BY <1>2, <1>3, <1>4
-----------------------------------------------------------------------------
LEMMA PublishTyped ==
    ASSUME BackupAssumption, TypeOK, NEW o \in Op, Publish(o) \/ WriteChecksum(o) \/ SelfCheck(o)
    PROVE  TypeOK'
  <1>1. Shape /\ Typed(o) /\ op[o].from \in Name /\ op[o].mode \in Modes /\ op[o].content \in Content
    BY DEF TypeOK, Typed
  <1>2. UNCHANGED <<data, lock, service>> /\ op[o].pc # "idle"
    BY DEF Publish, WriteChecksum, SelfCheck
  <1>3. Here' = Here /\ clock' = clock /\ lock' = lock /\ service' = service
    BY <1>2 DEF data, Here
  <1>4. Typed(o)' /\ \E changes : Set(o, changes)
    <2>1. CASE Publish(o)
      <3>1. "release" \in Pcs \ {"idle"} /\ {"failed", "published"} \subseteq Outcomes
            /\ (Leave(o, "failed") \/ Leave(o, "published"))
        BY <2>1, PcsAre DEF Publish
      <3> QED
        BY <1>2, <3>1, GotoTyped DEF Leave
    <2>2. CASE WriteChecksum(o)
      <3>1. {"failed", "verify"} \subseteq Pcs \ {"idle"} /\ (Goto(o, "failed") \/ Goto(o, "verify"))
        BY <2>2, PcsAre DEF WriteChecksum
      <3> QED
        BY <1>2, <3>1, GotoTyped DEF Goto
    <2>3. CASE SelfCheck(o)
      <3>1. {"failed", "created"} \subseteq Pcs \ {"idle"} /\ (Goto(o, "created") \/ End(o, "failed"))
        BY <2>3, PcsAre DEF SelfCheck
      <3> QED
        BY <1>2, <3>1, GotoTyped, EndTyped DEF Goto, End
    <2> QED
      BY <2>1, <2>2, <2>3
  <1> DEFINE new == [mode |-> op[o].mode, content |-> op[o].content,
                     counted |-> op[o].counted, identity |-> "here"]
  <1>5. archive' \in {archive, [archive EXCEPT ![op[o].from] = new],
                      [archive EXCEPT ![op[o].from] = NoArchive]}
        /\ sidecar' \in {sidecar, [sidecar EXCEPT ![op[o].from] = archive[op[o].from]],
                         [sidecar EXCEPT ![op[o].from] = NoArchive]}
    <2>1. CASE Publish(o)
      BY <2>1 DEF Publish
    <2>2. CASE WriteChecksum(o)
      BY <2>2 DEF WriteChecksum
    <2>3. CASE SelfCheck(o)
      BY <2>3 DEF SelfCheck, store
    <2> QED
      BY <2>1, <2>2, <2>3
  <1>6. new.content \in Content /\ new.mode \in Modes
    BY <1>1
  <1> HIDE DEF new
  <1>7. /\ archive' = [a \in Name |-> archive'[a]] /\ sidecar' = [a \in Name |-> sidecar'[a]]
        /\ \A a \in Name : archive'[a] # NoArchive =>
               archive'[a].content \in Content /\ archive'[a].mode \in Modes
    BY <1>1, <1>5, <1>6 DEF TypeOK
  <1> QED
    BY <1>3, <1>4, <1>7, TypeOfOps DEF TypeOK

\* What is put in place is typed.
LEMMA PutType ==
    ASSUME NEW c \in Content, Put(c)
    PROVE  Here' = c /\ clock' = clock
  BY DEF Content, Put, Here

LEMMA RestoreTyped ==
    ASSUME BackupAssumption, TypeOK, NEW o \in Op, NEW r \in Role,
           \/ Stage(o) \/ StageFails(o) \/ BeginApply(o) \/ Invalidate(o) \/ RunInit(o)
           \/ Reindex(o) \/ Crash(o) \/ Clear(o, r) \/ Apply(o, r)
    PROVE  TypeOK'
  <1>0. Shape /\ Typed(o) /\ Here \in Content /\ clock \in Nat
    BY DEF TypeOK
  <1>1. Here.canon = canon /\ Here.index = index /\ canon \in Datum /\ index \in [Derived -> Datum]
    BY <1>0 DEF Here, Content
  <1>2. CASE Stage(o)
    <2> DEFINE c == Extracted(archive[op[o].from].content, Roles(op[o].mode))
    <2>1. /\ Set(o, [pc |-> "staged", content |-> c]) /\ UNCHANGED <<data, lock, service, store>>
          /\ op[o].pc = "inspect" /\ archive[op[o].from] # NoArchive /\ "staged" \in Pcs
      BY <1>2, PcsAre DEF Stage
    <2>2. c \in Content
      BY <1>0, <2>1, ExtractedType DEF TypeOK, Typed
    <2> HIDE DEF c
    <2>3. Typed(o)'
      BY <1>0, <2>1, <2>2, SetFields DEF Fields, Typed
    <2> QED
      BY <2>1, <2>3, TypeOfSets DEF TypeOK
  <1>3. CASE StageFails(o)
    <2>1. op[o].pc # "idle" /\ "release" \in Pcs \ {"idle"} /\ UNCHANGED <<data, lock, service, store>>
          /\ Leave(o, "failed")
      BY <1>3, PcsAre DEF StageFails
    <2>2. Here' = Here /\ clock' = clock
      BY <2>1 DEF data, Here
    <2> QED
      BY <1>0, <2>1, <2>2, WorkTyped
  <1>4. CASE BeginApply(o)
    <2>1. op[o].pc = "staged" /\ UNCHANGED <<data, lock, service, store>>
      BY <1>4 DEF BeginApply
    <2>2. Typed(o)' /\ \E changes : Set(o, changes)
      <3>1. CASE Leave(o, "failed")
        <4>1. "release" \in Pcs \ {"idle"} /\ "failed" \in Outcomes
          BY PcsAre
        <4> QED
          BY <2>1, <3>1, <4>1, GotoTyped DEF Leave
      <3>2. ASSUME NEW pc \in Pcs \ {"idle"}, Set(o, [todo |-> Roles(op[o].mode), pc |-> pc])
            PROVE  Typed(o)'
        BY <1>0, <2>1, <3>2, SetFields DEF Fields, Typed
      <3>3. \/ Leave(o, "failed")
            \/ \E pc \in {"apply", "invalidate", "clear"} : Set(o, [todo |-> Roles(op[o].mode), pc |-> pc])
        BY <1>4 DEF BeginApply
      <3> QED
        BY <3>1, <3>2, <3>3, PcsAre DEF Leave
    <2> QED
      BY <2>1, <2>2, TypeOfSets DEF TypeOK
  <1>5. CASE Invalidate(o)
    <2>1. [canon |-> canon, index |-> Nothing.index] \in Content
      BY <1>1, NothingType DEF Content
    <2>2. Here' \in Content /\ clock' = clock
      BY <1>5, <2>1, PutType DEF Invalidate
    <2> QED
      BY <1>5, <2>2, PcsAre, WorkTyped DEF Invalidate
  <1>6. CASE RunInit(o)
    <2>1. op[o].pc # "idle" /\ "reindex" \in Pcs \ {"idle"} /\ UNCHANGED <<data, lock, service, store>>
          /\ (Goto(o, "reindex") \/ Leave(o, "failed"))
      BY <1>6, PcsAre DEF RunInit
    <2>2. Here' = Here /\ clock' = clock
      BY <2>1 DEF data, Here
    <2> QED
      BY <1>0, <2>1, <2>2, WorkTyped
  <1>7. CASE Reindex(o)
    <2>1. PICK built \in SUBSET Rebuilt(o) :
              /\ Put([canon |-> canon,
                      index |-> [d \in Derived |-> IF d \in built THEN canon ELSE index[d]]])
              /\ (Leave(o, "restored") \/ Leave(o, "warned"))
      BY <1>7 DEF Reindex
    <2>2. [canon |-> canon, index |-> [d \in Derived |-> IF d \in built THEN canon ELSE index[d]]]
              \in Content
      BY <1>1 DEF Content
    <2>3. Here' \in Content /\ clock' = clock
      BY <2>1, <2>2, PutType
    <2> QED
      BY <1>7, <2>1, <2>3, PcsAre, WorkTyped DEF Reindex
  <1>8. CASE Crash(o)
    <2>1. op[o].pc # "idle" /\ "dead" \in Pcs \ {"idle"} /\ UNCHANGED <<data, lock, service, store>>
          /\ End(o, "dead")
      BY <1>8, PcsAre DEF Crash
    <2> QED
      BY <2>1, EndTyped, TypeOfSets DEF TypeOK, End
  <1>9. CASE Clear(o, r)
    <2>1. Take(Here, Nothing, r) \in Content
      BY <1>0, NothingType, TakeType
    <2>2. Here' \in Content /\ clock' = clock
      BY <1>9, <2>1, PutType DEF Clear
    <2>3. op[o].pc = "clear" /\ UNCHANGED <<lock, service, store>>
      BY <1>9 DEF Clear
    <2>4. Typed(o)' /\ \E changes : Set(o, changes)
      <3>1. ASSUME Set(o, [pc |-> "apply", todo |-> Roles(op[o].mode)]) PROVE Typed(o)'
        <4>1. "apply" \in Pcs \ {"idle"}
          BY PcsAre
        <4>2. op'[o].pc = "apply" /\ op'[o].todo = Roles(op[o].mode) /\ op'[o].mode = op[o].mode
              /\ op'[o].bounced = op[o].bounced
          BY <1>0, <3>1, SetFields DEF Fields
        <4>3. /\ op'[o].asked = op[o].asked /\ op'[o].from = op[o].from /\ op'[o].at = op[o].at
              /\ op'[o].content = op[o].content /\ op'[o].base = op[o].base
              /\ op'[o].outcome = op[o].outcome
          BY <1>0, <3>1, SetFields DEF Fields
        <4> QED
          BY <1>0, <2>3, <4>1, <4>2, <4>3 DEF Typed
      <3>2. ASSUME Set(o, [todo |-> op[o].todo \ {r}]) PROVE Typed(o)'
        BY <1>0, <2>3, <3>2, SetFields DEF Fields, Typed
      <3> QED
        BY <1>9, <3>1, <3>2 DEF Clear
    <2> QED
      BY <1>0, <2>2, <2>3, <2>4, TypeOfOps DEF TypeOK, store
  <1>10. CASE Apply(o, r)
    <2>1. Take(Here, op[o].content, r) \in Content
      BY <1>0, TakeType DEF Typed
    <2>2. Here' \in Content /\ clock' = clock
      BY <1>10, <2>1, PutType DEF Apply
    <2>3. /\ op[o].pc = "apply" /\ UNCHANGED <<lock, service, store>>
          /\ Set(o, [todo |-> op[o].todo \ {r}, pc |-> IF op[o].todo = {r} THEN "init" ELSE "apply"])
      BY <1>10 DEF Apply
    <2>4. Typed(o)'
      BY <1>0, <2>3, PcsAre, SetFields DEF Fields, Typed
    <2> QED
      BY <1>0, <2>2, <2>3, <2>4, TypeOfOps DEF TypeOK, store
  <1> QED
    BY <1>2, <1>3, <1>4, <1>5, <1>6, <1>7, <1>8, <1>9, <1>10

\* A service that is stopped is noticed by nobody but this history.
LEMMA DownOps ==
    ASSUME TypeOK, NEW s \in Service, Down(s), NEW o \in Op
    PROVE  /\ Shape' /\ \A f \in Fields \ {"bounced"} : op'[o][f] = op[o][f]
           /\ op'[o].bounced \in BOOLEAN
           /\ op'[o].bounced = (op[o].bounced \/ op[o].pc \in {"enumerate", "capture"})
  <1>1. \A p \in Op : op'[p] = [op[p] EXCEPT !.bounced = @ \/ op[p].pc \in {"enumerate", "capture"}]
        /\ DOMAIN op[p] = Fields
    BY DEF Down, TypeOK, Shape
  <1>2. op' = [p \in Op |-> op'[p]]
    BY DEF Down
  <1>3. \A p \in Op : DOMAIN op'[p] = Fields
    BY <1>1
  <1>4. "bounced" \in Fields
    BY DEF Fields
  <1> QED
    BY ZenonT(60), <1>1, <1>2, <1>3, <1>4 DEF Shape

LEMMA ServiceTyped ==
    ASSUME BackupAssumption, TypeOK, NEW s \in Service, NEW r \in Role,
           LockCheck(s) \/ LockClear(s) \/ Up(s) \/ Down(s) \/ Write(r)
    PROVE  TypeOK'
  <1>1. CASE LockCheck(s) \/ LockClear(s) \/ Up(s)
    <2>1. UNCHANGED <<data, op, store>> /\ lock' \in {lock, Free}
      BY <1>1 DEF LockCheck, LockClear, Up
    <2>2. service' \in [Service -> {"off", "checked", "stale", "on"}]
      BY <1>1 DEF LockCheck, LockClear, Up, TypeOK
    <2>3. lock' \in [by : Op \union {NoOne}, named : BOOLEAN]
      <3>1. Free \in [by : Op \union {NoOne}, named : BOOLEAN]
        BY DEF Free
      <3>2. lock \in [by : Op \union {NoOne}, named : BOOLEAN]
        BY DEF TypeOK
      <3> QED
        BY <2>1, <3>1, <3>2
    <2> QED
      BY <2>1, <2>2, <2>3 DEF TypeOK, Shape, Typed, data, store, Here
  <1>2. CASE Down(s)
    <2>1. UNCHANGED <<data, lock, store>> /\ service' \in [Service -> {"off", "checked", "stale", "on"}]
      BY <1>2 DEF Down, TypeOK
    <2>2. ASSUME NEW o \in Op PROVE Shape' /\ Typed(o)'
      BY <1>2, DownOps DEF TypeOK, Typed, Fields
    <2>3. Op = {} => Shape'
      BY <1>2 DEF Down, Shape
    <2> QED
      BY <2>1, <2>2, <2>3 DEF TypeOK, data, store, Here
  <1>3. CASE Write(r)
    <2>1. UNCHANGED <<lock, service, op, store>> /\ clock' = clock + 1
      BY <1>3 DEF Write
    <2>2. canon \in Datum /\ index \in [Derived -> Datum] /\ clock + 1 \in Nat
      BY DEF TypeOK, Here, Content
    <2>3. canon' \in Datum /\ index' \in [Derived -> Datum]
      BY <1>3, <2>2 DEF Write, Datum
    <2> QED
      BY <2>1, <2>2, <2>3 DEF TypeOK, Shape, Typed, store, Here, Content
  <1> QED
    BY <1>1, <1>2, <1>3

LEMMA TypeStep == BackupAssumption /\ TypeOK /\ [BackupNext]_backupVars => TypeOK'
  <1> SUFFICES ASSUME BackupAssumption, TypeOK, [BackupNext]_backupVars PROVE TypeOK'
    OBVIOUS
  <1>1. CASE UNCHANGED backupVars
    BY <1>1 DEF backupVars, data, store, TypeOK, Shape, Typed, Here
  <1>2. CASE BackupNext
    <2>0. "index" \in Role
      BY RolesAre DEF Derived
    <2>1. CASE \E s \in Service : LockCheck(s) \/ LockClear(s) \/ Up(s) \/ Down(s)
      BY <2>0, <2>1, ServiceTyped
    <2>2. CASE \E r \in Role : Write(r)
      <3>1. ASSUME NEW r \in Role, Write(r) PROVE Service # {}
        BY <3>1 DEF Write, On
      <3> QED
        BY <2>2, <3>1, ServiceTyped
    <2>3. ASSUME NEW o \in Op,
                 \/ \E a \in Requests : StartCreate(o, a) \/ \E n \in Name : StartRestore(o, a, n)
                 \/ Acquire(o) \/ WritePid(o) \/ Refuse(o) \/ FindStale(o) \/ RemoveStale(o)
                 \/ CheckServices(o) \/ Enumerate(o) \/ Publish(o) \/ Unlock(o)
                 \/ WriteChecksum(o) \/ SelfCheck(o)
                 \/ Stage(o) \/ StageFails(o) \/ BeginApply(o) \/ Invalidate(o) \/ RunInit(o)
                 \/ Reindex(o) \/ Crash(o)
                 \/ \E r \in Role : Capture(o, r) \/ Clear(o, r) \/ Apply(o, r)
          PROVE  TypeOK'
      <3>1. "imported" \in Name
        BY DEF Name
      <3> QED
        BY <2>0, <2>3, <3>1, StartTyped, LockTyped, CreateTyped, PublishTyped, RestoreTyped
    <2> QED
      BY <1>2, <2>1, <2>2, <2>3 DEF BackupNext
  <1> QED
    BY <1>1, <1>2

\* Operations and the installation stay well typed.
THEOREM TypeCorrect == BackupAssumption => (BackupSpec => []TypeOK)
  <1> SUFFICES ASSUME BackupAssumption PROVE BackupSpec => []TypeOK
    OBVIOUS
  <1>1. BackupInit => TypeOK
    BY TypeInit
  <1>2. TypeOK /\ [BackupNext]_backupVars => TypeOK'
    BY TypeStep
  <1> QED
    BY <1>1, <1>2, PTL DEF BackupSpec
-----------------------------------------------------------------------------
\* Where a step brings the operation that takes it; the others stay where they are.
LEMMA PcOf ==
    ASSUME Shape, NEW o \in Op, NEW pc,
           \/ Goto(o, pc) \/ End(o, pc)
           \/ \E r : Leave(o, r) /\ pc = "release"
           \/ \E n : Set(o, [pc |-> pc, tries |-> n])
           \/ \E c : Set(o, [pc |-> pc, content |-> c])
           \/ \E t : Set(o, [pc |-> pc, todo |-> t])
           \/ \E t : Set(o, [todo |-> t, pc |-> pc])
           \/ \E t : Set(o, [todo |-> t]) /\ pc = op[o].pc
           \/ \E t, c : Set(o, [todo |-> t, content |-> c]) /\ pc = op[o].pc
           \/ \E a, b : Set(o, [pc |-> pc, at |-> a, base |-> b])
           \/ \E t, c : Set(o, [pc |-> pc, todo |-> t, counted |-> c])
           \/ \E a, n, m : Set(o, [pc |-> pc, asked |-> a, from |-> n, mode |-> m])
    PROVE  op'[o].pc = pc /\ \A p \in Op \ {o} : op'[p] = op[p]
  <1>1. ASSUME NEW changes, Set(o, changes),
               \/ "pc" \in DOMAIN changes /\ changes.pc = pc
               \/ "pc" \notin DOMAIN changes /\ pc = op[o].pc
        PROVE  op'[o].pc = pc /\ \A p \in Op \ {o} : op'[p] = op[p]
    BY <1>1, SetFields DEF Fields
  <1>2. CASE Goto(o, pc)
    BY <1>1, <1>2 DEF Goto
  <1>3. CASE End(o, pc)
    BY <1>1, <1>3 DEF End
  <1>4. ASSUME NEW r, Leave(o, r), pc = "release" PROVE op'[o].pc = pc /\ \A p \in Op \ {o} : op'[p] = op[p]
    BY <1>1, <1>4 DEF Leave
  <1>5. ASSUME NEW a, NEW b, NEW c, NEW d,
               \/ Set(o, [pc |-> pc, tries |-> a])
               \/ Set(o, [pc |-> pc, content |-> a])
               \/ Set(o, [pc |-> pc, todo |-> a])
               \/ Set(o, [todo |-> a, pc |-> pc])
        PROVE  op'[o].pc = pc /\ \A p \in Op \ {o} : op'[p] = op[p]
    BY <1>1, <1>5
  <1>6. ASSUME NEW a, NEW b, NEW c,
               \/ Set(o, [pc |-> pc, at |-> a, base |-> b])
               \/ Set(o, [pc |-> pc, todo |-> a, counted |-> b])
               \/ Set(o, [pc |-> pc, asked |-> a, from |-> b, mode |-> c])
        PROVE  op'[o].pc = pc /\ \A p \in Op \ {o} : op'[p] = op[p]
    BY <1>1, <1>6
  <1>7. ASSUME NEW a, NEW b, pc = op[o].pc,
               Set(o, [todo |-> a]) \/ Set(o, [todo |-> a, content |-> b])
        PROVE  op'[o].pc = pc /\ \A p \in Op \ {o} : op'[p] = op[p]
    BY <1>1, <1>7
  <1> QED
    BY <1>2, <1>3, <1>4, <1>5, <1>6, <1>7

\* The operations a step leaves alone, and where it brings the one that takes it.
Moved(o, pcs) == op'[o].pc \in pcs /\ \A p \in Op \ {o} : op'[p] = op[p]

LEMMA Moves ==
    ASSUME Shape, NEW o \in Op, NEW r \in Role
    PROVE  /\ \A a \in Requests : StartCreate(o, a) => op[o].pc = "idle" /\ Moved(o, {"lock"})
           /\ \A a \in Requests, n \in Name : StartRestore(o, a, n) => op[o].pc = "idle" /\ Moved(o, {"lock"})
           /\ Acquire(o) => op[o].pc = "lock" /\ Moved(o, {"name"})
           /\ WritePid(o) => op[o].pc = "name" /\ Moved(o, {"check"})
           /\ Refuse(o) => op[o].pc = "lock" /\ Moved(o, {"failed"})
           /\ FindStale(o) /\ PromptRecovery => op[o].pc = "lock" /\ Moved(o, {"lock", "failed"})
           /\ CheckServices(o) => op[o].pc = "check" /\ Moved(o, {"release", "enumerate", "inspect"})
           /\ Enumerate(o) => op[o].pc = "enumerate" /\ Moved(o, {"capture"})
           /\ Capture(o, r) => op[o].pc = "capture" /\ Moved(o, {"capture"})
           /\ Publish(o) => op[o].pc = "capture" /\ Moved(o, {"release"})
           /\ WriteChecksum(o) => op[o].pc = "hash" /\ Moved(o, {"failed", "verify"})
           /\ SelfCheck(o) => op[o].pc = "verify" /\ Moved(o, {"failed", "created"})
           /\ Stage(o) => op[o].pc = "inspect" /\ Moved(o, {"staged"})
           /\ StageFails(o) => op[o].pc = "inspect" /\ Moved(o, {"release"})
           /\ BeginApply(o) => op[o].pc = "staged" /\ Moved(o, {"release", "apply", "invalidate", "clear"})
           /\ Invalidate(o) => op[o].pc = "invalidate" /\ Moved(o, {"clear"})
           /\ Clear(o, r) => op[o].pc = "clear" /\ Moved(o, {"clear", "apply"})
           /\ Apply(o, r) => op[o].pc = "apply" /\ Moved(o, {"init", "apply"})
           /\ RunInit(o) => op[o].pc = "init" /\ Moved(o, {"reindex", "release"})
           /\ Reindex(o) => op[o].pc = "reindex" /\ Moved(o, {"release"})
           /\ Crash(o) => op[o].pc \notin Final \union {"idle"} /\ Moved(o, {"dead"})
           /\ Unlock(o) => op[o].pc = "release" /\ Moved(o, {"hash", op[o].outcome})
  <1>1. /\ \A a \in Requests : StartCreate(o, a) => op[o].pc = "idle" /\ Moved(o, {"lock"})
        /\ \A a \in Requests, n \in Name : StartRestore(o, a, n) => op[o].pc = "idle" /\ Moved(o, {"lock"})
    BY PcOf DEF StartCreate, StartRestore, Moved
  <1>2. /\ Acquire(o) => op[o].pc = "lock" /\ Moved(o, {"name"})
        /\ WritePid(o) => op[o].pc = "name" /\ Moved(o, {"check"})
        /\ Refuse(o) => op[o].pc = "lock" /\ Moved(o, {"failed"})
        /\ Crash(o) => op[o].pc \notin Final \union {"idle"} /\ Moved(o, {"dead"})
    BY PcOf DEF Acquire, WritePid, Refuse, Crash, Moved
  <1>3. FindStale(o) /\ PromptRecovery => op[o].pc = "lock" /\ Moved(o, {"lock", "failed"})
    BY PcOf DEF FindStale, AfterRecovery, Moved
  <1>4. Unlock(o) => op[o].pc = "release" /\ Moved(o, {"hash", op[o].outcome})
    BY PcOf DEF Unlock, Moved
  <1>5. CheckServices(o) => op[o].pc = "check" /\ Moved(o, {"release", "enumerate", "inspect"})
    BY PcOf DEF CheckServices, Moved
  <1>6. /\ Enumerate(o) => op[o].pc = "enumerate" /\ Moved(o, {"capture"})
        /\ Capture(o, r) => op[o].pc = "capture" /\ Moved(o, {"capture"})
        /\ Publish(o) => op[o].pc = "capture" /\ Moved(o, {"release"})
    BY PcOf DEF Enumerate, Capture, Publish, Moved
  <1>7. /\ WriteChecksum(o) => op[o].pc = "hash" /\ Moved(o, {"failed", "verify"})
        /\ SelfCheck(o) => op[o].pc = "verify" /\ Moved(o, {"failed", "created"})
    BY PcOf DEF WriteChecksum, SelfCheck, Moved
  <1>8. /\ Stage(o) => op[o].pc = "inspect" /\ Moved(o, {"staged"})
        /\ StageFails(o) => op[o].pc = "inspect" /\ Moved(o, {"release"})
        /\ BeginApply(o) => op[o].pc = "staged" /\ Moved(o, {"release", "apply", "invalidate", "clear"})
    BY PcOf DEF Stage, StageFails, BeginApply, Moved
  <1>9. /\ Invalidate(o) => op[o].pc = "invalidate" /\ Moved(o, {"clear"})
        /\ Clear(o, r) => op[o].pc = "clear" /\ Moved(o, {"clear", "apply"})
        /\ Apply(o, r) => op[o].pc = "apply" /\ Moved(o, {"init", "apply"})
    BY PcOf DEF Invalidate, Clear, Apply, Moved
  <1>10. /\ RunInit(o) => op[o].pc = "init" /\ Moved(o, {"reindex", "release"})
         /\ Reindex(o) => op[o].pc = "reindex" /\ Moved(o, {"release"})
    BY PcOf DEF RunInit, Reindex, Moved
  <1> QED
    BY <1>1, <1>2, <1>3, <1>4, <1>5, <1>6, <1>7, <1>8, <1>9, <1>10

LEMMA LockInit == BackupAssumption /\ BackupInit => LockInv
  BY PcsAre DEF BackupInit, LockInv

\* Keeping the lock file, one goes on working or stops.
LEMMA GoesOn ==
    ASSUME LockInv, NEW o \in Op, NEW pcs, Moved(o, pcs), UNCHANGED lock, "stale" \notin pcs,
           op[o].pc \in Holding \/ pcs \intersect Holding = {},
           \A s \in Service : service'[s] # "stale"
    PROVE  LockInv'
  BY DEF LockInv, Moved

\* Without a holder the lock can go to anyone, or to nobody.
LEMMA Hands ==
    ASSUME LockInv, NEW o \in Op, NEW pcs, Moved(o, pcs), "stale" \notin pcs, UNCHANGED service,
           \A p \in Op \ {o} : op[p].pc \notin Holding,
           pcs \intersect Holding = {} \/ lock'.by = o
    PROVE  LockInv'
  BY DEF LockInv, Moved

LEMMA LockStep ==
    ASSUME BackupAssumption, PromptRecovery, TypeOK, LockInv, [BackupNext]_backupVars
    PROVE  LockInv'
  <1>0. Shape /\ \A s \in Service : service[s] # "stale"
    BY DEF TypeOK, LockInv
  <1>h. /\ {"name", "check", "enumerate", "capture", "inspect", "staged", "invalidate", "clear",
            "apply", "init", "reindex", "release"} \subseteq Holding
        /\ {"idle", "lock", "stale", "hash", "verify", "failed", "created", "dead"} \intersect Holding = {}
        /\ Final \intersect Holding = {}
    BY PcsAre
  <1>f. lock = Free \/ Stale => \A p \in Op : op[p].pc \notin Holding
    <2>1. CASE lock = Free
      BY <2>1 DEF Free, LockInv, BackupAssumption
    <2>2. CASE Stale
      BY <1>h, <2>2 DEF Stale, LockInv
    <2> QED
      BY <2>1, <2>2
  <1>1. CASE UNCHANGED backupVars
    BY <1>1 DEF backupVars, LockInv
  <1>2. ASSUME NEW o \in Op, NEW r \in Role,
               \/ \E a \in Requests : StartCreate(o, a) \/ \E n \in Name : StartRestore(o, a, n)
               \/ Refuse(o) \/ WriteChecksum(o) \/ SelfCheck(o) \/ Crash(o)
        PROVE  LockInv'
    <2>1. UNCHANGED <<lock, service>>
      BY <1>2 DEF StartCreate, StartRestore, Refuse, WriteChecksum, SelfCheck, Crash
    <2>2. \E pcs \in {{"lock"}, {"failed"}, {"failed", "verify"}, {"failed", "created"}, {"dead"}} :
              Moved(o, pcs)
      BY <1>0, <1>2, Moves
    <2> QED
      BY <1>0, <1>h, <2>1, <2>2, GoesOn
  <1>3. ASSUME NEW o \in Op, NEW r \in Role,
               \/ Enumerate(o) \/ Capture(o, r) \/ Publish(o) \/ Stage(o) \/ StageFails(o)
               \/ BeginApply(o)
        PROVE  LockInv'
    <2>1. UNCHANGED <<lock, service>>
      BY <1>3 DEF Enumerate, Capture, Publish, Stage, StageFails, BeginApply
    <2>2. op[o].pc \in Holding
          /\ Moved(o, {"capture", "release", "staged", "apply", "invalidate", "clear"})
      BY <1>0, <1>h, <1>3, Moves DEF Moved
    <2> QED
      BY <1>0, <2>1, <2>2, GoesOn
  <1>4. ASSUME NEW o \in Op, NEW r \in Role,
               Invalidate(o) \/ Clear(o, r) \/ Apply(o, r) \/ RunInit(o) \/ Reindex(o)
        PROVE  LockInv'
    <2>1. UNCHANGED <<lock, service>>
      BY <1>4 DEF Invalidate, Clear, Apply, RunInit, Reindex
    <2>2. op[o].pc \in Holding /\ Moved(o, {"clear", "apply", "init", "reindex", "release"})
      BY <1>0, <1>h, <1>4, Moves DEF Moved
    <2> QED
      BY <1>0, <2>1, <2>2, GoesOn
  <1>5. ASSUME NEW o \in Op, NEW r \in Role, CheckServices(o) PROVE LockInv'
    <2>1. UNCHANGED lock /\ \A s \in Service : service'[s] # "stale"
      BY <1>0, <1>5 DEF CheckServices
    <2>2. op[o].pc \in Holding /\ Moved(o, {"release", "enumerate", "inspect"})
      BY <1>0, <1>h, <1>5, Moves
    <2> QED
      BY <2>1, <2>2, GoesOn
  <1>6. ASSUME NEW o \in Op, NEW r \in Role, Acquire(o) PROVE LockInv'
    <2>1. lock'.by = o /\ UNCHANGED service /\ Moved(o, {"name"}) /\ lock = Free
      BY <1>0, <1>6, Moves DEF Acquire
    <2> QED
      BY <1>f, <2>1, Hands
  <1>7. ASSUME NEW o \in Op, NEW r \in Role, WritePid(o) PROVE LockInv'
    <2>1. UNCHANGED service /\ Moved(o, {"check"}) /\ op[o].pc \in Holding
      BY <1>0, <1>h, <1>7, Moves DEF WritePid
    <2>2. lock.by = o /\ \A p \in Op \ {o} : op[p].pc \notin Holding
      BY <2>1 DEF LockInv
    <2>3. lock'.by = o
      BY <1>7, <2>2 DEF WritePid, TypeOK
    <2> QED
      BY <2>1, <2>2, <2>3, Hands
  <1>8. ASSUME NEW o \in Op, NEW r \in Role, FindStale(o) \/ RemoveStale(o) PROVE LockInv'
    <2>1. FindStale(o)
      BY <1>8 DEF RemoveStale, LockInv
    <2>2. UNCHANGED service /\ Moved(o, {"lock", "failed"}) /\ Stale
      BY <1>0, <2>1, Moves DEF FindStale
    <2> QED
      BY <1>f, <1>h, <2>2, Hands
  <1>9. ASSUME NEW o \in Op, NEW r \in Role, Unlock(o) PROVE LockInv'
    <2>1. UNCHANGED service /\ op[o].pc \in Holding
      BY <1>h, <1>9 DEF Unlock
    <2>2. \A p \in Op \ {o} : op[p].pc \notin Holding
      BY <2>1 DEF LockInv
    <2>3. CASE op[o].outcome = "published"
      <3>1. Moved(o, {"hash"})
        BY <1>0, <1>9, <2>3, PcOf DEF Unlock, Moved
      <3> QED
        BY <1>h, <2>1, <2>2, <3>1, Hands
    <2>4. CASE op[o].outcome # "published"
      <3>1. Moved(o, {op[o].outcome})
        BY <1>0, <1>9, <2>4, PcOf DEF Unlock, Moved
      <3>2. op[o].outcome \in Final
        BY <2>4, PcsAre DEF TypeOK, Typed
      <3>3. {op[o].outcome} \intersect Holding = {} /\ "stale" \notin {op[o].outcome}
        BY <3>2, PcsAre
      <3> QED
        BY <2>1, <2>2, <3>1, <3>3, Hands
    <2> QED
      BY <2>3, <2>4
  <1>10. ASSUME NEW s \in Service, LockCheck(s) \/ LockClear(s) \/ Up(s) \/ Down(s) PROVE LockInv'
    <2>1. \A t \in Service : service'[t] # "stale"
      BY <1>0, <1>10 DEF LockCheck, LockClear, Up, Down, TypeOK
    <2>2. \A p \in Op : op'[p].pc = op[p].pc
      BY <1>10, DownOps DEF LockCheck, LockClear, Up, Fields
    <2>3. lock' = lock \/ \A p \in Op : op[p].pc \notin Holding
      BY <1>0, <1>10, <1>f DEF LockCheck, LockClear, Up, Down
    <2> QED
      BY <2>1, <2>2, <2>3 DEF LockInv
  <1>11. ASSUME NEW r \in Role, Write(r) PROVE LockInv'
    BY <1>11 DEF Write, LockInv
  <1> QED
    <2>1. "index" \in Role
      BY RolesAre DEF Derived
    <2> QED
      BY <1>1, <1>2, <1>3, <1>4, <1>5, <1>6, <1>7, <1>8, <1>9, <1>10, <1>11, <2>1 DEF BackupNext

LEMMA LockCorrect == BackupAssumption /\ PromptRecovery => (BackupSpec => [](TypeOK /\ LockInv))
  <1> SUFFICES ASSUME BackupAssumption, PromptRecovery PROVE BackupSpec => [](TypeOK /\ LockInv)
    OBVIOUS
  <1>1. BackupInit => TypeOK /\ LockInv
    BY TypeInit, LockInit
  <1>2. TypeOK /\ LockInv /\ [BackupNext]_backupVars => (TypeOK /\ LockInv)'
    BY TypeStep, LockStep
  <1> QED
    BY <1>1, <1>2, PTL DEF BackupSpec

\* One create or restore works at a time, whoever died before it.
THEOREM OneOperationCorrect == BackupAssumption /\ PromptRecovery => (BackupSpec => []OneOperation)
  <1> SUFFICES ASSUME BackupAssumption, PromptRecovery PROVE BackupSpec => []OneOperation
    OBVIOUS
  <1>1. TypeOK /\ LockInv => OneOperation
    BY DEF LockInv, OneOperation
  <1> QED
    BY <1>1, LockCorrect, PTL
-----------------------------------------------------------------------------
(* What others leave to an operation.                                      *)

Acts(o) ==
    \/ \E a \in Requests : StartCreate(o, a) \/ \E n \in Name : StartRestore(o, a, n)
    \/ Acquire(o) \/ WritePid(o) \/ Refuse(o) \/ FindStale(o) \/ RemoveStale(o)
    \/ CheckServices(o) \/ Enumerate(o) \/ Publish(o) \/ Unlock(o)
    \/ WriteChecksum(o) \/ SelfCheck(o)
    \/ Stage(o) \/ StageFails(o) \/ BeginApply(o) \/ Invalidate(o) \/ RunInit(o)
    \/ Reindex(o) \/ Crash(o)
    \/ \E r \in Role : Capture(o, r) \/ Clear(o, r) \/ Apply(o, r)

Good(o) == KindInv(o) /\ NameInv(o) /\ CaptureInv(o) /\ StagedInv(o) /\ PlaceInv(o)

LEMMA Actors ==
    ASSUME BackupNext
    PROVE  \/ \E o \in Op : Acts(o)
           \/ \E s \in Service : LockCheck(s) \/ LockClear(s) \/ Up(s) \/ Down(s)
           \/ \E r \in Role : Write(r)
  BY DEF BackupNext, Acts

LEMMA SetOthers ==
    ASSUME Shape, NEW o \in Op, NEW changes, Set(o, changes)
    PROVE  \A p \in Op \ {o} : op'[p] = op[p]
  BY SetFields

\* One operation acts, and what is not its own business stays as it is.
LEMMA ActsAlone ==
    ASSUME BackupAssumption, Shape, NEW o \in Op, Acts(o)
    PROVE  /\ \A p \in Op \ {o} : op'[p] = op[p]
           /\ op[o].pc \notin Holding => UNCHANGED <<data, service>>
           /\ \/ UNCHANGED store
              \/ Publish(o) \/ WriteChecksum(o) \/ SelfCheck(o)
  <1>0. /\ {"name", "check", "enumerate", "capture", "inspect", "staged", "invalidate", "clear",
            "apply", "init", "reindex", "release"} \subseteq Holding
    BY PcsAre
  <1>1. ASSUME NEW a \in Requests, NEW n \in Name, StartCreate(o, a) \/ StartRestore(o, a, n)
        PROVE  (\A p \in Op \ {o} : op'[p] = op[p]) /\ UNCHANGED <<data, service, store>>
    BY <1>1, SetOthers DEF StartCreate, StartRestore
  <1>2. CASE Acquire(o) \/ WritePid(o) \/ Refuse(o) \/ Crash(o)
    <2>1. UNCHANGED <<data, service, store>>
      BY <1>2 DEF Acquire, WritePid, Refuse, Crash
    <2> QED
      BY <1>2, <2>1, SetOthers DEF Acquire, WritePid, Refuse, Crash, Goto, End
  <1>3. CASE FindStale(o) \/ RemoveStale(o) \/ Unlock(o)
    <2>1. UNCHANGED <<data, service, store>>
      BY <1>3 DEF FindStale, RemoveStale, Unlock
    <2> QED
      BY <1>3, <2>1, SetOthers DEF FindStale, RemoveStale, Unlock, Goto, End
  <1>4. CASE CheckServices(o) \/ Enumerate(o)
    <2>1. op[o].pc \in Holding /\ UNCHANGED <<data, store>>
      BY <1>0, <1>4 DEF CheckServices, Enumerate
    <2> QED
      BY <1>4, <2>1, SetOthers DEF CheckServices, Enumerate, Leave
  <1>5. CASE Publish(o) \/ WriteChecksum(o) \/ SelfCheck(o)
    <2>1. UNCHANGED <<data, service>>
      BY <1>5 DEF Publish, WriteChecksum, SelfCheck
    <2> QED
      BY <1>5, <2>1, SetOthers DEF Publish, WriteChecksum, SelfCheck, Leave, Goto, End
  <1>6. CASE Stage(o) \/ StageFails(o) \/ BeginApply(o)
    <2>1. UNCHANGED <<data, service, store>>
      BY <1>6 DEF Stage, StageFails, BeginApply
    <2> QED
      BY <1>6, <2>1, SetOthers DEF Stage, StageFails, BeginApply, Leave
  <1>7. CASE Invalidate(o) \/ RunInit(o) \/ Reindex(o)
    <2>1. op[o].pc \in Holding /\ UNCHANGED <<service, store>>
      BY <1>0, <1>7 DEF Invalidate, RunInit, Reindex
    <2> QED
      BY <1>7, <2>1, SetOthers DEF Invalidate, RunInit, Reindex, Goto, Leave
  <1>8. ASSUME NEW r \in Role, Capture(o, r) \/ Clear(o, r) \/ Apply(o, r)
        PROVE  (\A p \in Op \ {o} : op'[p] = op[p]) /\ op[o].pc \in Holding /\ UNCHANGED <<service, store>>
    <2>1. op[o].pc \in Holding /\ UNCHANGED <<service, store>>
      BY <1>0, <1>8 DEF Capture, Clear, Apply
    <2> QED
      BY <1>8, <2>1, SetOthers DEF Capture, Clear, Apply
  <1>9. CASE \E a \in Requests : StartCreate(o, a) \/ \E n \in Name : StartRestore(o, a, n)
    <2>1. "imported" \in Name
      BY DEF Name
    <2> QED
      BY <1>1, <1>9, <2>1
  <1>10. CASE \E r \in Role : Capture(o, r) \/ Clear(o, r) \/ Apply(o, r)
    BY <1>8, <1>10
  <1> QED
    BY <1>2, <1>3, <1>4, <1>5, <1>6, <1>7, <1>9, <1>10 DEF Acts

\* Archives are made under the name of the operation, and stay once verified.
LEMMA StoreOf ==
    ASSUME BackupAssumption, TypeOK, NEW o \in Op, Acts(o), KindInv(o), NameInv(o)
    PROVE  /\ \A a \in Name \ {o} : archive'[a] = archive[a] /\ sidecar'[a] = sidecar[a]
           /\ \A a \in Name : Verified(a) =>
                 archive'[a] = archive[a] /\ sidecar'[a] = sidecar[a] /\ Verified(a)'
  <1>0. /\ archive = [a \in Name |-> archive[a]] /\ sidecar = [a \in Name |-> sidecar[a]]
        /\ op[o].from \in Name
    BY DEF TypeOK, Typed
  <1>1. ASSUME \A a \in Name : Verified(a) => archive'[a] = archive[a] /\ sidecar'[a] = sidecar[a]
        PROVE  \A a \in Name : Verified(a) =>
                   archive'[a] = archive[a] /\ sidecar'[a] = sidecar[a] /\ Verified(a)'
    BY <1>1 DEF Verified, WellShaped, NothingExcluded
  <1>2. CASE UNCHANGED store
    BY <1>1, <1>2 DEF store
  <1>3. CASE Publish(o)
    <2>1. op[o].pc = "capture" /\ "capture" \notin Final /\ Creates(o)
      BY <1>3, PcsAre DEF Publish, KindInv
    <2>2. op[o].from = o /\ archive[o] = NoArchive
      BY <2>1 DEF NameInv
    <2>3. \A a \in Name \ {o} : archive'[a] = archive[a] /\ sidecar'[a] = sidecar[a]
      BY <1>0, <1>3, <2>2 DEF Publish
    <2> QED
      BY <1>1, <2>2, <2>3 DEF Verified
  <1>4. CASE WriteChecksum(o)
    <2>1. op[o].pc = "hash" /\ "hash" \notin Final /\ Creates(o)
      BY <1>4, PcsAre DEF WriteChecksum, KindInv, Published
    <2>2. op[o].from = o
      BY <2>1 DEF NameInv
    <2>3. archive' = archive /\ sidecar' \in {sidecar, [sidecar EXCEPT ![o] = archive[o]]}
      BY <1>4, <2>2 DEF WriteChecksum
    <2> QED
      BY <1>0, <1>1, <2>2, <2>3 DEF Verified
  <1>5. CASE SelfCheck(o)
    <2>1. op[o].pc = "verify" /\ "verify" \notin Final /\ Creates(o)
      BY <1>5, PcsAre DEF SelfCheck, KindInv, Published
    <2>2. op[o].from = o
      BY <2>1 DEF NameInv
    <2>3. CASE Verified(o)
      BY <1>1, <1>5, <2>2, <2>3 DEF SelfCheck, store
    <2>4. CASE ~Verified(o)
      BY <1>0, <1>1, <1>5, <2>2, <2>4 DEF SelfCheck
    <2> QED
      BY <2>3, <2>4
  <1> QED
    BY <1>2, <1>3, <1>4, <1>5, ActsAlone DEF TypeOK

\* The archive of a restore is one that has verified.
LEMMA FromVerified ==
    ASSUME NEW o \in Op, KindInv(o), NameInv(o), Staged(o)
    PROVE  ~Creates(o) /\ Verified(op[o].from)
  BY PcsAre DEF KindInv, NameInv, Staged, Finishing
-----------------------------------------------------------------------------
\* The pcs at which the data matter are those of one who works.
LEMMA WorkingPcs ==
    ASSUME NEW o \in Op
    PROVE  /\ op[o].pc \in {"enumerate", "capture"} => op[o].pc \in Holding
           /\ Staged(o) => op[o].pc \in Holding
           /\ Finishing(o) => op[o].pc = "release"
           /\ op[o].pc \in {"staged", "clear", "apply", "init", "reindex"} => Staged(o)
           /\ Published(o) /\ op[o].pc # "created" => op[o].pc \notin Final \union {"idle"}
  BY PcsAre DEF Staged, Finishing, Published

LEMMA OthersGood ==
    ASSUME BackupAssumption, TypeOK, LockInv, NEW o \in Op, Acts(o), Good(o),
           NEW p \in Op \ {o}, Good(p)
    PROVE  Good(p)'
  <1>1. /\ op'[p] = op[p] /\ (op[o].pc \notin Holding => UNCHANGED <<data, service>>)
    BY ActsAlone DEF TypeOK
  <1>2. op[p].pc \in Holding => UNCHANGED <<data, service>>
    BY <1>1 DEF LockInv
  <1>3. /\ \A a \in Name \ {o} : archive'[a] = archive[a] /\ sidecar'[a] = sidecar[a]
        /\ \A a \in Name : Verified(a) =>
              archive'[a] = archive[a] /\ sidecar'[a] = sidecar[a] /\ Verified(a)'
    BY StoreOf DEF Good
  <1>4. p \in Name \ {o} /\ op[p].from \in Name
    BY DEF Name, TypeOK, Typed
  <1>5. KindInv(p)'
    BY <1>1 DEF Good, KindInv, Published, Staged, Finishing, Creates
  <1>6. NameInv(p)'
    BY <1>1, <1>3, <1>4 DEF Good, NameInv, Creates
  <1>7. CaptureInv(p)'
    <2>1. ASSUME op[p].pc \in {"enumerate", "capture"} PROVE On' = On /\ Here' = Here
      BY <1>2, <2>1, WorkingPcs DEF On, Here, data
    <2>2. Published(p) => op[p].from = p
      BY WorkingPcs DEF Good, CaptureInv, NameInv, KindInv
    <2>3. op[p].pc = "created" => Verified(p)'
      BY <1>3, <1>4 DEF Good, CaptureInv
    <2>4. Published(p) => archive'[op[p].from] = archive[op[p].from]
      BY <1>3, <1>4, <2>2
    <2> QED
      BY <1>1, <2>1, <2>3, <2>4 DEF Good, CaptureInv, Torn, Published
  <1>8. StagedInv(p)'
    <2>1. /\ Staged(p) => clock' = clock /\ archive'[op[p].from] = archive[op[p].from]
          /\ op[p].pc = "inspect" => clock' = clock
      BY <1>2, <1>3, <1>4, WorkingPcs, FromVerified, PcsAre DEF Good, data
    <2> QED
      BY <1>1, <2>1 DEF Good, StagedInv, Staged, Finishing, Incompatible, Portable
  <1>9. PlaceInv(p)'
    <2>1. CASE Staged(p)
      <3>1. UNCHANGED <<canon, index, clock>>
        BY <1>2, <2>1, WorkingPcs DEF data
      <3> QED
        BY <1>1, <3>1 DEF Good, PlaceInv, Undisturbed, Portable, Finishing, Here
    <2>2. CASE ~Staged(p)
      BY <1>1, <2>2, WorkingPcs DEF PlaceInv, Finishing, Staged
    <2> QED
      BY <2>1, <2>2
  <1> QED
    BY <1>5, <1>6, <1>7, <1>8, <1>9 DEF Good

LEMMA ServiceGood ==
    ASSUME BackupAssumption, TypeOK, NEW s \in Service, NEW o \in Op, Good(o),
           LockCheck(s) \/ LockClear(s) \/ Up(s) \/ Down(s)
    PROVE  Good(o)'
  <1>1. UNCHANGED <<canon, index, clock, archive, sidecar>>
    BY DEF LockCheck, LockClear, Up, Down, data, store
  <1>2. /\ \A f \in Fields \ {"bounced"} : op'[o][f] = op[o][f]
        /\ op[o].bounced => op'[o].bounced
        /\ op[o].bounced = op'[o].bounced \/ Down(s)
    <2>1. CASE Down(s)
      BY <2>1, DownOps
    <2>2. CASE LockCheck(s) \/ LockClear(s) \/ Up(s)
      BY <2>2 DEF LockCheck, LockClear, Up
    <2> QED
      BY <2>1, <2>2
  <1>3. /\ op'[o].pc = op[o].pc /\ op'[o].asked = op[o].asked /\ op'[o].from = op[o].from
        /\ op'[o].mode = op[o].mode /\ op'[o].todo = op[o].todo /\ op'[o].outcome = op[o].outcome
        /\ op'[o].content = op[o].content /\ op'[o].base = op[o].base /\ op'[o].at = op[o].at
    BY <1>2 DEF Fields
  <1>4. KindInv(o)' /\ NameInv(o)'
    BY <1>1, <1>3 DEF Good, KindInv, NameInv, Published, Staged, Finishing, Creates, Verified,
       WellShaped, NothingExcluded
  <1>5. CaptureInv(o)'
    <2>1. op[o].pc \in {"enumerate", "capture"} /\ ~Torn(o)' /\ On' = {} => ~Torn(o) /\ On = {}
      <3>1. CASE Down(s)
        BY <1>3, <3>1, DownOps DEF Torn
      <3>2. CASE LockCheck(s) \/ LockClear(s) \/ Up(s)
        <4>1. On \subseteq On'
          BY <3>2 DEF LockCheck, LockClear, Up, On, TypeOK
        <4> QED
          BY <1>2, <1>3, <4>1 DEF Torn
      <3> QED
        BY <3>1, <3>2
    <2>2. ~Torn(o)' => ~Torn(o)
      BY <1>2, <1>3 DEF Torn
    <2> QED
      BY <1>1, <1>3, <2>1, <2>2 DEF Good, CaptureInv, Published, Verified, WellShaped,
         NothingExcluded, Here
  <1>6. StagedInv(o)' /\ PlaceInv(o)'
    BY <1>1, <1>3 DEF Good, StagedInv, PlaceInv, Staged, Finishing, Incompatible, Portable,
       Undisturbed, Here
  <1> QED
    BY <1>4, <1>5, <1>6 DEF Good

LEMMA WriteGood ==
    ASSUME BackupAssumption, TypeOK, NEW r \in Role, NEW o \in Op, Good(o), Write(r)
    PROVE  Good(o)'
  <1>1. UNCHANGED <<service, op, archive, sidecar>> /\ clock' = clock + 1 /\ On # {} /\ clock \in Nat
        /\ op[o].at \in Nat
    BY DEF Write, store, TypeOK, Typed
  <1>2. KindInv(o)' /\ NameInv(o)'
    BY <1>1 DEF Good, KindInv, NameInv, Published, Staged, Finishing, Creates, Verified,
       WellShaped, NothingExcluded
  <1>3. CaptureInv(o)'
    BY <1>1 DEF Good, CaptureInv, On, Published, Torn, Verified, WellShaped, NothingExcluded
  <1>4. StagedInv(o)'
    BY <1>1 DEF Good, StagedInv, Staged, Finishing, Incompatible, Portable
  <1>5. PlaceInv(o)'
    <2>1. CASE Staged(o)
      <3>1. ~Undisturbed(o)'
        BY <1>1, <2>1 DEF Good, StagedInv, Undisturbed
      <3> QED
        BY <3>1 DEF PlaceInv
    <2>2. CASE ~Staged(o)
      BY <1>1, <2>2, WorkingPcs DEF PlaceInv, Finishing, Staged
    <2> QED
      BY <2>1, <2>2
  <1> QED
    BY <1>2, <1>3, <1>4, <1>5 DEF Good
-----------------------------------------------------------------------------
(* What an operation does itself.                                          *)

\* Where nothing is captured, published or staged there is only the name to look after.
LEMMA Elsewhere ==
    ASSUME NEW o \in Op, NameInv(o)', op'[o].pc \notin {"enumerate", "capture", "inspect"},
           ~Published(o)', ~Staged(o)'
    PROVE  Good(o)'
  BY DEF Good, KindInv, CaptureInv, StagedInv, PlaceInv, Published, Staged, Finishing

\* An operation keeps what it was asked for.
Keeps(o) == op'[o].asked = op[o].asked /\ op'[o].from = op[o].from /\ op'[o].mode = op[o].mode

LEMMA SetKeepsAsked ==
    ASSUME Shape, NEW o \in Op, NEW changes, Set(o, changes),
           "asked" \notin DOMAIN changes, "from" \notin DOMAIN changes, "mode" \notin DOMAIN changes
    PROVE  Keeps(o)
  BY SetFields DEF Keeps, Fields

LEMMA Goes ==
    ASSUME Shape, NEW o \in Op, NEW pc, Goto(o, pc)
    PROVE  Keeps(o) /\ op'[o].pc = pc /\ \A f \in Fields \ {"pc"} : op'[o][f] = op[o][f]
  BY SetFields DEF Goto, Keeps, Fields

LEMMA Leaves ==
    ASSUME Shape, NEW o \in Op, NEW outcome, Leave(o, outcome)
    PROVE  /\ Keeps(o) /\ op'[o].pc = "release" /\ op'[o].outcome = outcome
           /\ \A f \in Fields \ {"pc", "outcome"} : op'[o][f] = op[o][f]
  BY SetFields DEF Leave, Keeps, Fields

LEMMA KeepsAsked ==
    ASSUME Shape, NEW o \in Op,
           \/ \E pc : Goto(o, pc) \/ End(o, pc) \/ Leave(o, pc)
           \/ \E pc, n : \/ Set(o, [pc |-> pc, tries |-> n]) \/ Set(o, [pc |-> pc, content |-> n])
                         \/ Set(o, [pc |-> pc, todo |-> n]) \/ Set(o, [todo |-> n, pc |-> pc])
           \/ \E t : Set(o, [todo |-> t])
           \/ \E t, c : Set(o, [todo |-> t, content |-> c])
           \/ \E pc, a, b : \/ Set(o, [pc |-> pc, at |-> a, base |-> b])
                            \/ Set(o, [pc |-> pc, todo |-> a, counted |-> b])
    PROVE  Keeps(o)
  <1>1. ASSUME NEW pc, Goto(o, pc) \/ End(o, pc) \/ Leave(o, pc) PROVE Keeps(o)
    BY <1>1, SetKeepsAsked DEF Goto, End, Leave
  <1>2. ASSUME NEW pc, NEW n,
               \/ Set(o, [pc |-> pc, tries |-> n]) \/ Set(o, [pc |-> pc, content |-> n])
               \/ Set(o, [pc |-> pc, todo |-> n]) \/ Set(o, [todo |-> n, pc |-> pc])
        PROVE  Keeps(o)
    BY <1>2, SetKeepsAsked
  <1>3. ASSUME NEW t, Set(o, [todo |-> t]) PROVE Keeps(o)
    BY <1>3, SetKeepsAsked
  <1>4. ASSUME NEW t, NEW c, Set(o, [todo |-> t, content |-> c]) PROVE Keeps(o)
    BY <1>4, SetKeepsAsked
  <1>5. ASSUME NEW pc, NEW a, NEW b,
               \/ Set(o, [pc |-> pc, at |-> a, base |-> b])
               \/ Set(o, [pc |-> pc, todo |-> a, counted |-> b])
        PROVE  Keeps(o)
    BY <1>5, SetKeepsAsked
  <1> QED
    BY <1>1, <1>2, <1>3, <1>4, <1>5

Early == {"lock", "name", "check", "enumerate", "capture"}

\* The name is looked after by what has been said of archives.
LEMMA NameStays ==
    ASSUME BackupAssumption, TypeOK, NEW o \in Op, Acts(o), KindInv(o), NameInv(o), Keeps(o),
           op[o].pc \notin Final \union {"idle"},
           op'[o].pc \in Early => op[o].pc \in Early /\ UNCHANGED store
    PROVE  NameInv(o)'
  <1>1. \A a \in Name : Verified(a) =>
            archive'[a] = archive[a] /\ sidecar'[a] = sidecar[a] /\ Verified(a)'
    BY StoreOf
  <1>2. op[o].from \in Name
    BY DEF TypeOK, Typed
  <1> QED
    BY <1>1, <1>2 DEF NameInv, Keeps, Creates, store, Early

LEMMA StartGood ==
    ASSUME BackupAssumption, DistinctSeconds, TypeOK, NEW o \in Op, Good(o),
           NEW a \in Requests, NEW n \in Name, StartCreate(o, a) \/ StartRestore(o, a, n)
    PROVE  Good(o)'
  <1>0. Shape /\ a \in Options
    BY DEF TypeOK, BackupAssumption
  <1>1. op'[o].pc = "lock" /\ op'[o].asked = a
    <2>1. CASE StartCreate(o, a)
      BY <1>0, <2>1, SetFields DEF StartCreate, Fields
    <2>2. CASE StartRestore(o, a, n)
      BY <1>0, <2>2, SetFields DEF StartRestore, Fields
    <2> QED
      BY <2>1, <2>2
  <1>2. NameInv(o)'
    <2>1. CASE StartCreate(o, a)
      <3>1. op'[o].from = o /\ archive[o] = NoArchive /\ archive' = archive /\ a.kind = "create"
        BY <1>0, <2>1, SetFields DEF StartCreate, Fields, ArchiveName, store
      <3> QED
        BY <1>1, <3>1 DEF NameInv, Creates
    <2>2. CASE StartRestore(o, a, n)
      <3>1. /\ op'[o].from = n /\ op'[o].mode = archive[n].mode /\ a.kind # "create"
            /\ Verified(n) /\ UNCHANGED <<archive, sidecar>>
        BY <1>0, <2>2, SetFields DEF StartRestore, Fields, store
      <3>2. Verified(n)'
        BY <3>1 DEF Verified, WellShaped, NothingExcluded
      <3> QED
        BY <1>1, <3>1, <3>2 DEF NameInv, Creates
    <2> QED
      BY <2>1, <2>2
  <1> QED
    BY <1>1, <1>2, Elsewhere DEF Published, Staged, Finishing

LEMMA LockGood ==
    ASSUME BackupAssumption, PromptRecovery, TypeOK, LockInv, NEW o \in Op, Good(o), Acts(o),
           Acquire(o) \/ WritePid(o) \/ Refuse(o) \/ FindStale(o) \/ RemoveStale(o) \/ Crash(o)
    PROVE  Good(o)'
  <1>0. Shape /\ ~RemoveStale(o)
    BY DEF TypeOK, LockInv, RemoveStale
  <1>1. op'[o].pc \in {"lock", "name", "check", "failed", "dead"} /\ op[o].pc \notin Final \union {"idle"}
    <2>1. "index" \in Role
      BY RolesAre DEF Derived
    <2> QED
      BY <1>0, <2>1, Moves, PcsAre DEF Moved
  <1>2. UNCHANGED store /\ (Crash(o) \/ op[o].pc \in Early) /\ Keeps(o)
    BY <1>0, KeepsAsked DEF Acquire, WritePid, Refuse, FindStale, Crash, Early
  <1>3. Crash(o) => op'[o].pc = "dead"
    BY <1>0, PcOf DEF Crash
  <1>4. NameInv(o)'
    BY <1>1, <1>2, <1>3, NameStays DEF Good, Early
  <1> QED
    BY <1>1, <1>4, Elsewhere DEF Published, Staged, Finishing

LEMMA CheckGood ==
    ASSUME BackupAssumption, TypeOK, NEW o \in Op, Good(o), Acts(o), CheckServices(o)
    PROVE  Good(o)'
  <1>0. Shape /\ op[o].pc = "check" /\ "check" \notin Final \union {"idle"}
        /\ UNCHANGED store /\ Here' = Here
    BY PcsAre DEF TypeOK, CheckServices, data, Here
  <1>1. CASE Leave(o, "failed")
    <2>1. op'[o].pc = "release" /\ op'[o].outcome = "failed" /\ Keeps(o)
      BY <1>0, <1>1, Leaves
    <2>2. NameInv(o)'
      BY <1>0, <2>1, NameStays DEF Good, Early
    <2> QED
      BY <2>1, <2>2, Elsewhere DEF Published, Staged, Finishing
  <1>2. ASSUME NEW pc, Set(o, [pc |-> pc, at |-> clock, base |-> Here]),
               pc = IF Creates(o) THEN "enumerate" ELSE "inspect"
        PROVE  Good(o)'
    <2>1. /\ op'[o].pc = pc /\ op'[o].base = Here /\ op'[o].at = clock /\ clock \in Nat
          /\ clock' = clock /\ Keeps(o)
      BY <1>0, <1>2, SetFields DEF Fields, Keeps, TypeOK, CheckServices, data
    <2>2. NameInv(o)'
      BY <1>0, <2>1, NameStays DEF Good, Early
    <2>3. KindInv(o)'
      BY <1>2, <2>1 DEF KindInv, Published, Staged, Finishing, Creates, Keeps
    <2>4. CaptureInv(o)'
      BY <1>0, <1>2, <2>1 DEF CaptureInv, Published
    <2>5. StagedInv(o)' /\ PlaceInv(o)'
      BY <1>2, <2>1 DEF StagedInv, PlaceInv, Staged, Finishing
    <2> QED
      BY <2>2, <2>3, <2>4, <2>5 DEF Good
  <1> QED
    BY <1>1, <1>2 DEF CheckServices, Creates

LEMMA CaptureGood ==
    ASSUME BackupAssumption, TypeOK, NEW o \in Op, Good(o), Acts(o), NEW r \in Role,
           Enumerate(o) \/ Capture(o, r)
    PROVE  Good(o)'
  <1>0. /\ Shape /\ op[o].pc \in {"enumerate", "capture"} /\ UNCHANGED <<store, service>>
        /\ Here' = Here /\ Here \in Content /\ op[o].content \in Content
    BY DEF TypeOK, Typed, Enumerate, Capture, data, Here
  <1>1. op'[o].pc = "capture" /\ Keeps(o) /\ op'[o].base = op[o].base /\ op'[o].bounced = op[o].bounced
    <2>1. CASE Enumerate(o)
      BY <1>0, <2>1, SetFields DEF Enumerate, Fields, Keeps
    <2>2. CASE Capture(o, r)
      BY <1>0, <2>2, SetFields DEF Capture, Fields, Keeps
    <2> QED
      BY <2>1, <2>2
  <1>2. KindInv(o)'
    BY <1>0, <1>1 DEF Good, KindInv, Published, Staged, Finishing, Creates, Keeps
  <1>3. NameInv(o)'
    BY <1>0, <1>1, NameStays, PcsAre DEF Good, Early
  <1>4. StagedInv(o)' /\ PlaceInv(o)'
    BY <1>1 DEF StagedInv, PlaceInv, Staged, Finishing
  <1>5. CaptureInv(o)'
    <2>1. SUFFICES ASSUME ~Torn(o)', On' = {}
                   PROVE  Here' = op'[o].base
                          /\ \A q \in Roles(op'[o].mode) \ op'[o].todo : SameAt(op'[o].content, op'[o].base, q)
      BY <1>1 DEF CaptureInv, Published
    <2>2. ~Torn(o) /\ On = {}
      BY <1>0, <1>1, <2>1 DEF Torn, Keeps, On
    <2>3. Here = op[o].base
      BY <1>0, <2>2 DEF Good, CaptureInv
    <2>4. CASE Enumerate(o)
      <3>1. op'[o].todo = Roles(op[o].mode)
        BY <1>0, <2>4, SetFields DEF Enumerate, Fields
      <3> QED
        BY <1>0, <1>1, <2>3, <3>1 DEF Keeps
    <2>5. CASE Capture(o, r)
      <3>1. /\ op[o].pc = "capture" /\ op'[o].todo = op[o].todo \ {r}
            /\ op'[o].content = Take(op[o].content, Here, r)
        BY <1>0, <2>5, SetFields DEF Capture, Fields
      <3>2. \A q \in Roles(op[o].mode) \ op[o].todo : SameAt(op[o].content, op[o].base, q)
        BY <2>2, <3>1 DEF Good, CaptureInv
      <3>3. SameAt(Take(op[o].content, Here, r), Here, r)
            /\ \A q \in Role \ {r} : SameAt(Take(op[o].content, Here, r), op[o].content, q)
        BY <1>0, TakeType
      <3>4. ASSUME NEW q \in Roles(op[o].mode) \ (op[o].todo \ {r})
            PROVE  SameAt(Take(op[o].content, Here, r), op[o].base, q)
        <4>1. q \in Role
          BY RolesAre DEF TypeOK, Typed
        <4>2. CASE q = r
          BY <2>3, <3>3, <4>2
        <4>3. CASE q # r
          BY <3>2, <3>3, <4>1, <4>3 DEF SameAt
        <4> QED
          BY <4>2, <4>3
      <3> QED
        BY <1>0, <1>1, <2>3, <3>1, <3>4 DEF Keeps
    <2> QED
      BY <2>4, <2>5
  <1> QED
    BY <1>2, <1>3, <1>4, <1>5 DEF Good
-----------------------------------------------------------------------------
-----------------------------------------------------------------------------
LEMMA PublishGood ==
    ASSUME BackupAssumption, TypeOK, NEW o \in Op, Good(o), Acts(o), Publish(o)
    PROVE  Good(o)'
  <1>0. /\ Shape /\ op[o].pc = "capture" /\ op[o].todo = {} /\ op[o].from \in Name
        /\ "capture" \notin Final \union {"idle"} /\ archive = [a \in Name |-> archive[a]]
        /\ op[o].asked.live \in BOOLEAN
    BY PcsAre DEF TypeOK, Typed, Publish, Options
  <1>1. CASE Leave(o, "failed")
    <2>1. op'[o].pc = "release" /\ op'[o].outcome = "failed" /\ Keeps(o)
      BY <1>0, <1>1, Leaves
    <2>2. NameInv(o)'
      BY <1>0, <2>1, NameStays DEF Good, Early
    <2> QED
      BY <2>1, <2>2, Elsewhere DEF Published, Staged, Finishing
  <1>2. CASE ~Intolerable(o, On) /\ Leave(o, "published")
    <2> DEFINE new == [mode |-> op[o].mode, content |-> op[o].content,
                       counted |-> op[o].counted, identity |-> "here"]
    <2>1. /\ op'[o].pc = "release" /\ op'[o].outcome = "published" /\ Keeps(o)
          /\ op'[o].base = op[o].base /\ op'[o].bounced = op[o].bounced
      BY <1>0, <1>2, Leaves DEF Fields
    <2>2. archive' = [archive EXCEPT ![op[o].from] = new]
      BY <1>2 DEF Publish
    <2>3. archive'[op'[o].from].content = op[o].content
      BY <1>0, <2>1, <2>2 DEF Keeps
    <2>4. NameInv(o)'
      BY <1>0, <2>1, NameStays DEF Good, Early
    <2>5. KindInv(o)' /\ StagedInv(o)' /\ PlaceInv(o)'
      BY <1>0, <2>1 DEF Good, KindInv, StagedInv, PlaceInv, Published, Staged, Finishing, Creates, Keeps
    <2>6. ASSUME ~Torn(o)', NEW r \in Roles(op[o].mode)
          PROVE  SameAt(archive'[op'[o].from].content, op'[o].base, r)
      <3>1. ~Torn(o)
        BY <2>1, <2>6 DEF Torn, Keeps
      <3>2. On = {}
        BY <1>2, <3>1 DEF Torn, Intolerable
      <3>3. SameAt(op[o].content, op[o].base, r)
        BY <1>0, <2>6, <3>1, <3>2 DEF Good, CaptureInv
      <3> QED
        BY <2>1, <2>3, <3>3
    <2>7. CaptureInv(o)'
      BY <2>1, <2>6 DEF CaptureInv, Keeps
    <2> QED
      BY <2>4, <2>5, <2>7 DEF Good
  <1> QED
    BY <1>1, <1>2 DEF Publish

\* What has been published is looked after to the end.
LEMMA PublishedGood ==
    ASSUME BackupAssumption, TypeOK, NEW o \in Op, Good(o), Acts(o), Published(o),
           op[o].pc # "created", NEW pc \in {"hash", "verify", "created"}, Goto(o, pc),
           UNCHANGED archive, pc = "created" => Verified(op[o].from) /\ UNCHANGED sidecar
    PROVE  Good(o)'
  <1>1. /\ Shape /\ op[o].from = o /\ Creates(o) /\ op[o].pc \notin Final \union {"idle"}
        /\ pc \notin Early
    BY WorkingPcs DEF TypeOK, Good, KindInv, NameInv, Early
  <1>2. /\ op'[o].pc = pc /\ Keeps(o) /\ op'[o].base = op[o].base
        /\ op'[o].bounced = op[o].bounced
    BY <1>1, Goes DEF Fields
  <1>3. NameInv(o)'
    BY <1>1, <1>2, NameStays DEF Good
  <1>4. KindInv(o)' /\ StagedInv(o)' /\ PlaceInv(o)'
    BY <1>1, <1>2 DEF KindInv, StagedInv, PlaceInv, Staged, Finishing, Creates, Keeps
  <1>5. pc = "created" => Verified(o)'
    BY <1>1 DEF Verified, WellShaped, NothingExcluded
  <1>6. ~Torn(o)' => \A r \in Roles(op[o].mode) : SameAt(archive[o].content, op[o].base, r)
    BY <1>1, <1>2 DEF Good, CaptureInv, Torn, Keeps
  <1>7. CaptureInv(o)'
    BY <1>1, <1>2, <1>5, <1>6 DEF CaptureInv, Keeps
  <1> QED
    BY <1>3, <1>4, <1>7 DEF Good

\* An operation that ends has nothing to answer for but its name.
LEMMA EndGood ==
    ASSUME BackupAssumption, TypeOK, NEW o \in Op, Good(o), Acts(o), op[o].pc \notin Final \union {"idle"},
           NEW pc \in Final \ {"created"}, End(o, pc) \/ Goto(o, pc)
    PROVE  Good(o)'
  <1>1. Shape /\ pc \notin Early
    BY PcsAre DEF TypeOK, Early
  <1>2. op'[o].pc = pc /\ Keeps(o)
    BY <1>1, PcOf, KeepsAsked
  <1>3. NameInv(o)'
    BY <1>1, <1>2, NameStays DEF Good
  <1> QED
    BY <1>2, <1>3, PcsAre, Elsewhere DEF Published, Staged, Finishing

LEMMA FinishGood ==
    ASSUME BackupAssumption, TypeOK, NEW o \in Op, Good(o), Acts(o),
           Unlock(o) \/ WriteChecksum(o) \/ SelfCheck(o)
    PROVE  Good(o)'
  <1>0. Shape /\ Typed(o) /\ {"release", "hash", "verify"} \intersect (Final \union {"idle"}) = {}
        /\ {"restored", "warned", "failed"} \subseteq Final \ {"created"}
    BY PcsAre DEF TypeOK
  <1>1. CASE Unlock(o)
    <2>1. CASE op[o].outcome = "published"
      BY <1>1, <2>1, PublishedGood DEF Unlock, Published, store
    <2>2. CASE op[o].outcome # "published"
      <3>1. op[o].outcome \in Final \ {"created"}
        BY <1>0, <2>2 DEF Typed, Outcomes
      <3> QED
        BY <1>0, <1>1, <2>2, <3>1, EndGood DEF Unlock
    <2> QED
      BY <2>1, <2>2
  <1>2. CASE WriteChecksum(o)
    <2>1. CASE archive[op[o].from] = NoArchive
      BY <1>0, <1>2, <2>1, EndGood DEF WriteChecksum
    <2>2. CASE archive[op[o].from] # NoArchive
      BY <1>2, <2>2, PublishedGood DEF WriteChecksum, Published
    <2> QED
      BY <2>1, <2>2
  <1>3. CASE SelfCheck(o)
    <2>1. CASE Verified(op[o].from)
      BY <1>3, <2>1, PublishedGood DEF SelfCheck, Published, store
    <2>2. CASE ~Verified(op[o].from)
      BY <1>0, <1>3, <2>2, EndGood DEF SelfCheck
    <2> QED
      BY <2>1, <2>2
  <1> QED
    BY <1>1, <1>2, <1>3
-----------------------------------------------------------------------------
\* While a restore works, only what is in place is in question.
LEMMA StagedStays ==
    ASSUME BackupAssumption, TypeOK, NEW o \in Op, Good(o), Acts(o), Keeps(o),
           op[o].pc = "inspect" \/ Staged(o), Staged(o)', UNCHANGED store, clock' = clock,
           op'[o].at = op[o].at,
           op[o].asked.force \/ ~Incompatible(archive[op[o].from]),
           op'[o].pc = "invalidate" => op[o].asked.force /\ Portable(o),
           op'[o].pc = "clear" => op[o].asked.force,
           PlaceInv(o)'
    PROVE  Good(o)'
  <1>1. /\ op[o].pc \notin Final \union {"idle"} /\ ~Creates(o) /\ op'[o].pc \notin Early
        /\ op'[o].pc \notin {"hash", "verify", "created"} /\ archive' = archive
    BY PcsAre DEF Good, KindInv, Staged, Finishing, Early, store
  <1>2. NameInv(o)'
    BY <1>1, NameStays DEF Good
  <1>3. KindInv(o)' /\ CaptureInv(o)'
    BY <1>1 DEF KindInv, CaptureInv, Published, Staged, Finishing, Creates, Keeps, Early
  <1>4. StagedInv(o)'
    BY <1>1 DEF Good, StagedInv, Incompatible, Portable, Keeps
  <1> QED
    BY <1>2, <1>3, <1>4 DEF Good

\* Or it gives up.
LEMMA FailGood ==
    ASSUME BackupAssumption, TypeOK, NEW o \in Op, Good(o), Acts(o), Leave(o, "failed"),
           op[o].pc \in Holding
    PROVE  Good(o)'
  <1>1. /\ op'[o].pc = "release" /\ op'[o].outcome = "failed" /\ Keeps(o)
        /\ op[o].pc \notin Final \union {"idle"}
    BY Leaves, PcsAre DEF TypeOK
  <1>2. NameInv(o)'
    BY <1>1, NameStays DEF Good, Early
  <1> QED
    BY <1>1, <1>2, Elsewhere DEF Published, Staged, Finishing

LEMMA NothingThere ==
    ASSUME TypeOK, NonEmpty(Here) = {}
    PROVE  Here = Nothing
  <1>1. canon \in Datum /\ index \in [Derived -> Datum]
    BY DEF TypeOK, Here, Content
  <1>2. (\A r \in Canonical : canon[r] = 0) /\ \A d \in Derived : index[d] = Clean
    BY DEF NonEmpty, Here
  <1>3. canon = Clean
    BY <1>1, <1>2 DEF Clean, Datum
  <1>4. index = [d \in Derived |-> Clean]
    BY <1>1, <1>2
  <1> QED
    BY <1>3, <1>4 DEF Here, Nothing

LEMMA StageGood ==
    ASSUME BackupAssumption, TypeOK, NEW o \in Op, Good(o), Acts(o), Stage(o)
    PROVE  Good(o)'
  <1> DEFINE c == Extracted(archive[op[o].from].content, Roles(op[o].mode))
  <1>1. /\ Shape /\ op[o].pc = "inspect" /\ UNCHANGED store /\ clock' = clock /\ Here' = Here
        /\ op[o].asked.force \/ (Conflicts(o) = {} /\ ~Incompatible(archive[op[o].from]))
        /\ Set(o, [pc |-> "staged", content |-> c])
    BY DEF TypeOK, Stage, data, Here
  <1>2. op'[o].pc = "staged" /\ Keeps(o) /\ op'[o].at = op[o].at
    BY <1>1, SetFields DEF Keeps, Fields
  <1>3. ~op[o].asked.force => Here' = Nothing
    BY <1>1, NothingThere DEF Conflicts
  <1>4. PlaceInv(o)'
    BY <1>2, <1>3 DEF PlaceInv, Finishing, Keeps
  <1>5. Staged(o)'
    BY <1>2 DEF Staged
  <1> QED
    BY <1>1, <1>2, <1>4, <1>5, StagedStays

LEMMA BeginGood ==
    ASSUME BackupAssumption, TypeOK, NEW o \in Op, Good(o), Acts(o), BeginApply(o)
    PROVE  Good(o)'
  <1> DEFINE next == IF ~op[o].asked.force THEN "apply"
                     ELSE IF op[o].mode = "portable" THEN "invalidate" ELSE "clear"
  <1>0. /\ Shape /\ op[o].pc = "staged" /\ op[o].pc \in Holding /\ op[o].mode \in Modes
        /\ UNCHANGED <<store, canon, index, clock>>
    BY PcsAre DEF TypeOK, Typed, BeginApply, data
  <1>1. CASE Leave(o, "failed")
    BY <1>0, <1>1, FailGood
  <1>2. CASE Set(o, [todo |-> Roles(op[o].mode), pc |-> next])
    <2>1. /\ op'[o].pc = next /\ op'[o].todo = Roles(op[o].mode) /\ Keeps(o)
          /\ op'[o].at = op[o].at /\ op'[o].content = op[o].content
      BY <1>0, <1>2, SetFields DEF Keeps, Fields
    <2>2. next \in {"apply", "invalidate", "clear"}
      OBVIOUS
    <2>3. op[o].at = clock /\ ~op[o].asked.force => Here = Nothing
      BY <1>0 DEF Good, PlaceInv, Undisturbed
    <2>4. Here = Nothing => index = Nothing.index /\ \A r \in Canonical : canon[r] = 0
      BY DEF Here, Nothing, Clean
    <2>5. PlaceInv(o)'
      BY <1>0, <2>1, <2>2, <2>3, <2>4 DEF PlaceInv, Undisturbed, Portable, Finishing, Keeps
    <2>6. Staged(o) /\ Staged(o)'
      BY <1>0, <2>1, <2>2 DEF Staged
    <2> QED
      BY <1>0, <2>1, <2>2, <2>5, <2>6, StagedStays DEF Good, StagedInv, Portable
  <1> QED
    BY <1>1, <1>2 DEF BeginApply

LEMMA InvalidateGood ==
    ASSUME BackupAssumption, TypeOK, NEW o \in Op, Good(o), Acts(o), Invalidate(o)
    PROVE  Good(o)'
  <1>1. /\ Shape /\ op[o].pc = "invalidate" /\ UNCHANGED <<store, clock>>
        /\ index' = Nothing.index
    BY DEF TypeOK, Invalidate, Put
  <1>2. op'[o].pc = "clear" /\ Keeps(o) /\ op'[o].at = op[o].at
    BY <1>1, Goes DEF Invalidate, Fields
  <1>3. PlaceInv(o)'
    BY <1>1, <1>2 DEF PlaceInv, Finishing
  <1>4. Staged(o) /\ Staged(o)'
    BY <1>1, <1>2 DEF Staged
  <1> QED
    BY <1>1, <1>2, <1>3, <1>4, StagedStays DEF Good, StagedInv

\* One payload is put where another was.
LEMMA PutRow ==
    ASSUME TypeOK, NEW c \in Content, NEW r \in Role, Put(Take(Here, c, r))
    PROVE  /\ Here' = Take(Here, c, r) /\ clock' = clock
           /\ canon' \in Datum /\ index' \in [Derived -> Datum]
           /\ SameAt(Here', c, r) /\ \A q \in Role \ {r} : SameAt(Here', Here, q)
           /\ r \in Canonical => index' = index
           /\ r \notin Canonical => canon' = canon
  <1>1. Take(Here, c, r) \in Content /\ Here \in Content
    BY TakeType DEF TypeOK
  <1>2. Here' = Take(Here, c, r) /\ clock' = clock
    BY <1>1, PutType
  <1>3. canon' = Here'.canon /\ index' = Here'.index /\ Here.index = index /\ Here.canon = canon
    BY DEF Here
  <1> QED
    BY <1>1, <1>2, <1>3, TakeType DEF Content

LEMMA ClearGood ==
    ASSUME BackupAssumption, TypeOK, NEW o \in Op, Good(o), Acts(o), NEW r \in Role, Clear(o, r)
    PROVE  Good(o)'
  <1>1. /\ Shape /\ op[o].pc = "clear" /\ UNCHANGED store /\ r \in op[o].todo
        /\ op[o].todo \subseteq Roles(op[o].mode) /\ Put(Take(Here, Nothing, r))
    BY DEF TypeOK, Typed, Clear, IsNext
  <1>2. clock' = clock /\ (Portable(o) => index' = index)
    BY <1>1, PutRow, NothingType, RolesAre DEF Portable
  <1>3. /\ op'[o].pc \in {"clear", "apply"} /\ Keeps(o) /\ op'[o].at = op[o].at
        /\ op'[o].pc = "apply" => op'[o].todo = Roles(op[o].mode)
    <2>1. CASE Set(o, [pc |-> "apply", todo |-> Roles(op[o].mode)])
      BY <1>1, <2>1, SetFields DEF Keeps, Fields
    <2>2. CASE Set(o, [todo |-> op[o].todo \ {r}])
      BY <1>1, <2>2, SetFields DEF Keeps, Fields
    <2> QED
      BY <2>1, <2>2 DEF Clear
  <1>4. op[o].asked.force
    BY <1>1 DEF Good, StagedInv, Staged
  <1>5. PlaceInv(o)'
    BY <1>1, <1>2, <1>3, <1>4 DEF Good, PlaceInv, Undisturbed, Portable, Finishing, Keeps
  <1>6. Staged(o) /\ Staged(o)'
    BY <1>1, <1>3 DEF Staged
  <1> QED
    BY <1>1, <1>2, <1>3, <1>4, <1>5, <1>6, StagedStays

LEMMA ApplyGood ==
    ASSUME BackupAssumption, TypeOK, NEW o \in Op, Good(o), Acts(o), NEW r \in Role, Apply(o, r)
    PROVE  Good(o)'
  <1>1. /\ Shape /\ op[o].pc = "apply" /\ UNCHANGED store /\ r \in op[o].todo
        /\ op[o].todo \subseteq Roles(op[o].mode) /\ Put(Take(Here, op[o].content, r))
        /\ op[o].content \in Content /\ op[o].mode \in Modes
    BY DEF TypeOK, Typed, Apply, IsNext
  <1>2. /\ clock' = clock /\ canon' \in Datum /\ index' \in [Derived -> Datum]
        /\ SameAt(Here', op[o].content, r) /\ \A q \in Role \ {r} : SameAt(Here', Here, q)
        /\ r \in Canonical => index' = index
    BY <1>1, PutRow
  <1>3. /\ Keeps(o) /\ op'[o].at = op[o].at /\ op'[o].content = op[o].content
        /\ op'[o].todo = op[o].todo \ {r}
        /\ op'[o].pc = IF op[o].todo = {r} THEN "init" ELSE "apply"
    BY <1>1, SetFields DEF Apply, Keeps, Fields
  <1>4. ASSUME Undisturbed(o)
        PROVE  /\ Portable(o) => index' = Nothing.index
               /\ \A q \in Roles(op[o].mode) \ (op[o].todo \ {r}) : SameAt(Here', op[o].content, q)
               /\ ~op[o].asked.force =>
                     \A q \in Canonical \intersect (op[o].todo \ {r}) : canon'[q] = 0
    <2>1. /\ Portable(o) => index = Nothing.index
          /\ \A q \in Roles(op[o].mode) \ op[o].todo : SameAt(Here, op[o].content, q)
          /\ ~op[o].asked.force => \A q \in Canonical \intersect op[o].todo : canon[q] = 0
      BY <1>1, <1>4 DEF Good, PlaceInv
    <2>2. Portable(o) => index' = Nothing.index
      BY <1>1, <1>2, <2>1, RolesAre DEF Portable
    <2>3. Roles(op[o].mode) \subseteq Role /\ Canonical \subseteq Role
      BY <1>1, RolesAre
    <2>4. ASSUME NEW q \in Roles(op[o].mode) \ (op[o].todo \ {r}) PROVE SameAt(Here', op[o].content, q)
      <3>1. CASE q # r
        BY <1>2, <2>1, <2>3, <2>4, <3>1 DEF SameAt
      <3> QED
        BY <1>2, <3>1
    <2>5. ASSUME NEW q \in Canonical \ {r} PROVE canon'[q] = canon[q]
      BY <1>2, <2>3, <2>5 DEF SameAt, Here
    <2> QED
      BY <2>1, <2>2, <2>4, <2>5
  <1>5. CASE op[o].todo # {r}
    <2>1. PlaceInv(o)'
      BY <1>2, <1>3, <1>4, <1>5 DEF PlaceInv, Undisturbed, Portable, Finishing, Keeps
    <2>2. Staged(o) /\ Staged(o)'
      BY <1>1, <1>3, <1>5 DEF Staged
    <2> QED
      BY <1>1, <1>2, <1>3, <1>5, <2>1, <2>2, StagedStays DEF Good, StagedInv
  <1>6. CASE op[o].todo = {r}
    <2>1. ASSUME Undisturbed(o)
          PROVE  /\ canon' = op[o].content.canon
                 /\ \A d \in Derived :
                       index'[d] = Clean \/ (~Portable(o) /\ index'[d] = op[o].content.index[d])
      <3>1. \A q \in Roles(op[o].mode) : SameAt(Here', op[o].content, q)
        BY <1>4, <1>6, <2>1
      <3>2. \A q \in Canonical : canon'[q] = op[o].content.canon[q]
        BY <1>1, <3>1, RolesAre DEF SameAt, Here
      <3>3. canon' = op[o].content.canon
        BY <1>1, <1>2, <3>2 DEF Content, Datum
      <3>4. Portable(o) => \A d \in Derived : index'[d] = Clean
        BY <1>4, <2>1, NothingType
      <3>5. ~Portable(o) => \A d \in Derived : index'[d] = op[o].content.index[d]
        BY <1>1, <3>1, RolesAre DEF Portable, Modes, SameAt, Here
      <3> QED
        BY <3>3, <3>4, <3>5
    <2>2. PlaceInv(o)'
      BY <1>2, <1>3, <1>6, <2>1 DEF PlaceInv, Undisturbed, Portable, Finishing, Keeps
    <2>3. Staged(o) /\ Staged(o)'
      BY <1>1, <1>3, <1>6 DEF Staged
    <2> QED
      BY <1>1, <1>2, <1>3, <1>6, <2>2, <2>3, StagedStays DEF Good, StagedInv
  <1> QED
    BY <1>5, <1>6

LEMMA InitStepGood ==
    ASSUME BackupAssumption, TypeOK, NEW o \in Op, Good(o), Acts(o), RunInit(o)
    PROVE  Good(o)'
  <1>0. /\ Shape /\ op[o].pc = "init" /\ op[o].pc \in Holding
        /\ UNCHANGED <<store, canon, index, clock>>
    BY PcsAre DEF TypeOK, RunInit, data
  <1>1. CASE Leave(o, "failed")
    BY <1>0, <1>1, FailGood
  <1>2. CASE Goto(o, "reindex")
    <2>1. /\ op'[o].pc = "reindex" /\ Keeps(o)
          /\ op'[o].at = op[o].at /\ op'[o].content = op[o].content
      BY <1>0, <1>2, Goes DEF Fields
    <2>2. PlaceInv(o)'
      BY <1>0, <2>1 DEF Good, PlaceInv, Undisturbed, Portable, Finishing, Keeps
    <2>3. Staged(o) /\ Staged(o)'
      BY <1>0, <2>1 DEF Staged
    <2> QED
      BY <1>0, <2>1, <2>2, <2>3, StagedStays DEF Good, StagedInv
  <1> QED
    BY <1>1, <1>2 DEF RunInit

LEMMA ReindexGood ==
    ASSUME BackupAssumption, TypeOK, NEW o \in Op, Good(o), Acts(o), Reindex(o)
    PROVE  Good(o)'
  <1>0. Shape /\ op[o].pc = "reindex" /\ UNCHANGED store
    BY DEF TypeOK, Reindex
  <1>1. PICK built \in SUBSET Rebuilt(o) :
            /\ Put([canon |-> canon,
                    index |-> [d \in Derived |-> IF d \in built THEN canon ELSE index[d]]])
            /\ \/ built = Rebuilt(o) /\ Leave(o, "restored")
               \/ Rebuilt(o) # {} /\ Leave(o, "warned")
    BY DEF Reindex
  <1>2. /\ canon' = canon /\ clock' = clock
        /\ \A d \in Derived : index'[d] \in {canon, index[d]}
    BY <1>1 DEF Put
  <1>3. /\ op'[o].pc = "release" /\ op'[o].outcome \in {"restored", "warned"} /\ Keeps(o)
        /\ op'[o].at = op[o].at /\ op'[o].content = op[o].content
    BY <1>0, <1>1, Leaves DEF Fields
  <1>4. PlaceInv(o)'
    <2>1. SUFFICES ASSUME Undisturbed(o)
                   PROVE  /\ canon' = op[o].content.canon
                          /\ \A d \in Derived :
                                \/ index'[d] \in {Clean, canon'}
                                \/ ~Portable(o) /\ index'[d] = op[o].content.index[d]
      BY <1>2, <1>3 DEF PlaceInv, Undisturbed, Portable, Finishing, Keeps
    <2> QED
      BY <1>0, <1>2, <2>1 DEF Good, PlaceInv
  <1>5. Staged(o) /\ Staged(o)'
    BY <1>0, <1>3 DEF Staged, Finishing
  <1> QED
    BY <1>0, <1>2, <1>3, <1>4, <1>5, StagedStays DEF Good, StagedInv
-----------------------------------------------------------------------------
(* Everything together: whoever steps, everyone stays good.                *)
LEMMA OwnGood ==
    ASSUME BackupAssumption, PromptRecovery, DistinctSeconds, TypeOK, LockInv,
           NEW o \in Op, Good(o), Acts(o)
    PROVE  Good(o)'
  <1>1. ASSUME NEW a \in Requests, NEW n \in Name, StartCreate(o, a) \/ StartRestore(o, a, n)
        PROVE  Good(o)'
    BY <1>1, StartGood
  <1>2. CASE Acquire(o) \/ WritePid(o) \/ Refuse(o) \/ FindStale(o) \/ RemoveStale(o) \/ Crash(o)
    BY <1>2, LockGood
  <1>3. CASE CheckServices(o) \/ Publish(o)
    BY <1>3, CheckGood, PublishGood
  <1>4. CASE Unlock(o) \/ WriteChecksum(o) \/ SelfCheck(o)
    BY <1>4, FinishGood
  <1>5. CASE Enumerate(o)
    <2>1. "index" \in Role
      BY RolesAre DEF Derived
    <2> QED
      BY <1>5, <2>1, CaptureGood
  <1>6. CASE StageFails(o)
    BY <1>6, FailGood, PcsAre DEF StageFails
  <1>7. CASE Stage(o) \/ BeginApply(o) \/ Invalidate(o) \/ RunInit(o) \/ Reindex(o)
    BY <1>7, StageGood, BeginGood, InvalidateGood, InitStepGood, ReindexGood
  <1>8. ASSUME NEW r \in Role, Capture(o, r) \/ Clear(o, r) \/ Apply(o, r) PROVE Good(o)'
    BY <1>8, CaptureGood, ClearGood, ApplyGood
  <1>9. ASSUME NEW a \in Requests, StartCreate(o, a) PROVE Good(o)'
    BY <1>1, <1>9 DEF Name
  <1> QED
    BY <1>1, <1>2, <1>3, <1>4, <1>5, <1>6, <1>7, <1>8, <1>9 DEF Acts

LEMMA InitGood == BackupAssumption /\ BackupInit => \A o \in Op : Good(o)
  <1> SUFFICES ASSUME BackupAssumption, BackupInit, NEW o \in Op PROVE Good(o)
    OBVIOUS
  <1>1. op[o].pc = "idle" /\ op[o].at = 0
    BY DEF BackupInit
  <1>2. clock \in Nat /\ clock # 0
    BY DEF BackupInit
  <1> QED
    BY <1>1, <1>2, PcsAre DEF Good, KindInv, NameInv, CaptureInv, StagedInv, PlaceInv, Published, Staged,
       Finishing, Undisturbed

LEMMA BackupStep ==
    ASSUME BackupAssumption, PromptRecovery, DistinctSeconds, BackupInv, [BackupNext]_backupVars
    PROVE  BackupInv'
  <1>0. TypeOK /\ LockInv /\ \A o \in Op : Good(o)
    BY DEF BackupInv, Good
  <1>1. TypeOK' /\ LockInv'
    BY <1>0, TypeStep, LockStep
  <1>2. ASSUME NEW o \in Op PROVE Good(o)'
    <2>1. CASE UNCHANGED backupVars
      <3>1. UNCHANGED <<canon, index, clock, lock, service, op, archive, sidecar>>
        BY <2>1 DEF backupVars, data, store
      <3>2. Good(o)
        BY <1>0
      <3> QED
        BY SMTT(60), <3>1, <3>2 DEF Good, KindInv, NameInv, CaptureInv, StagedInv, PlaceInv, Published, Staged, Finishing,
           Creates, Verified, WellShaped, NothingExcluded, Torn, On, Here, Undisturbed, Portable,
           Incompatible
    <2>2. ASSUME NEW p \in Op, Acts(p) PROVE Good(o)'
      <3>1. CASE o = p
        BY <1>0, <2>2, <3>1, OwnGood
      <3>2. CASE o # p
        BY <1>0, <2>2, <3>2, OthersGood
      <3> QED
        BY <3>1, <3>2
    <2>3. ASSUME NEW s \in Service, LockCheck(s) \/ LockClear(s) \/ Up(s) \/ Down(s) PROVE Good(o)'
      BY <1>0, <2>3, ServiceGood
    <2>4. ASSUME NEW r \in Role, Write(r) PROVE Good(o)'
      BY <1>0, <2>4, WriteGood
    <2> QED
      BY <2>1, <2>2, <2>3, <2>4, Actors
  <1> QED
    BY <1>1, <1>2 DEF BackupInv, Good

\* What is behind the three theorems that follow.
THEOREM BackupInvCorrect ==
    BackupAssumption /\ PromptRecovery /\ DistinctSeconds => (BackupSpec => []BackupInv)
  <1> SUFFICES ASSUME BackupAssumption, PromptRecovery, DistinctSeconds PROVE BackupSpec => []BackupInv
    OBVIOUS
  <1>1. BackupInit => BackupInv
    BY TypeInit, LockInit, InitGood DEF BackupInv, Good
  <1>2. BackupInv /\ [BackupNext]_backupVars => BackupInv'
    BY BackupStep
  <1> QED
    BY <1>1, <1>2, PTL DEF BackupSpec

\* An archive reported as created verifies, and is the installation as it was when the capture
\* looked, if neither live capture was asked for nor a service stopped behind its back.
THEOREM CreatedIsSoundCorrect ==
    BackupAssumption /\ PromptRecovery /\ DistinctSeconds => (BackupSpec => []CreatedIsSound)
  <1> SUFFICES ASSUME BackupAssumption, PromptRecovery, DistinctSeconds PROVE BackupSpec => []CreatedIsSound
    OBVIOUS
  <1>1. BackupInv => CreatedIsSound
    <2> SUFFICES ASSUME BackupInv, NEW o \in Op, op[o].pc = "created"
                 PROVE  /\ Verified(op[o].from)
                        /\ op[o].asked.live \/ op[o].bounced \/
                              \A r \in Roles(op[o].mode) :
                                 Take(Nothing, archive[op[o].from].content, r)
                                    = Take(Nothing, op[o].base, r)
      BY DEF CreatedIsSound
    <2>1. op[o].from = o /\ Verified(o) /\ Published(o)
      BY DEF BackupInv, CaptureInv, Published
    <2>2. ~Torn(o) => \A r \in Roles(op[o].mode) : SameAt(archive[o].content, op[o].base, r)
      BY <2>1 DEF BackupInv, CaptureInv
    <2>3. ASSUME NEW c, NEW d, NEW r, SameAt(c, d, r) PROVE Take(Nothing, c, r) = Take(Nothing, d, r)
      BY <2>3 DEF SameAt, Take
    <2> QED
      BY <2>1, <2>2, <2>3 DEF Torn
  <1> QED
    BY <1>1, BackupInvCorrect, PTL

\* A restore that reports success left the payloads of its archive, and no index of other data.
THEOREM RestoredIsTheArchiveCorrect ==
    BackupAssumption /\ PromptRecovery /\ DistinctSeconds => (BackupSpec => []RestoredIsTheArchive)
  <1> SUFFICES ASSUME BackupAssumption, PromptRecovery, DistinctSeconds
               PROVE  BackupSpec => []RestoredIsTheArchive
    OBVIOUS
  <1>1. BackupInv => RestoredIsTheArchive
    <2> SUFFICES ASSUME BackupInv, NEW o \in Op, Finishing(o), op[o].at = clock
                 PROVE  /\ canon = op[o].content.canon
                        /\ \A d \in Derived :
                              \/ index[d] \in {Clean, canon}
                              \/ /\ op[o].mode = "full" /\ index[d] = op[o].content.index[d]
                                 /\ op[o].asked.force \/ ~Incompatible(archive[op[o].from])
      BY DEF RestoredIsTheArchive, Finishing
    <2>1. ~Portable(o) => op[o].mode = "full"
      BY DEF BackupInv, TypeOK, Typed, Portable, Modes
    <2>2. op[o].asked.force \/ ~Incompatible(archive[op[o].from])
      BY DEF BackupInv, StagedInv, Staged
    <2>3. /\ canon = op[o].content.canon
          /\ \A d \in Derived :
                \/ index[d] \in {Clean, canon}
                \/ ~Portable(o) /\ index[d] = op[o].content.index[d]
      BY DEF BackupInv, PlaceInv, Undisturbed
    <2> QED
      BY <2>1, <2>2, <2>3
  <1> QED
    BY <1>1, BackupInvCorrect, PTL

\* A step of a restore replaces no payload that was there when the restore looked, unless forced.
LEMMA KeptByRestores ==
    ASSUME BackupAssumption, BackupInv, NEW o \in Op, Acts(o), NEW r \in Canonical,
           canon[r] # 0, canon'[r] # canon[r]
    PROVE  op[o].pc \in {"clear", "apply"} /\ (op[o].asked.force \/ op[o].at < clock)
  <1>0. Shape /\ Typed(o) /\ Here \in Content /\ canon \in Datum /\ r \in Role /\ clock \in Nat
    BY RolesAre DEF BackupInv, TypeOK, Here, Content
  <1>1. ~UNCHANGED data
    BY DEF data
  <1>2. PICK q \in Role : Invalidate(o) \/ Reindex(o) \/ Clear(o, q) \/ Apply(o, q)
    <2>1. "index" \in Role
      BY RolesAre DEF Derived
    <2> QED
      BY <1>1, <2>1 DEF Acts, StartCreate, StartRestore, Acquire, WritePid, Refuse, FindStale, RemoveStale, CheckServices, Enumerate,
         Publish, Unlock, WriteChecksum, SelfCheck, Stage, StageFails, BeginApply, RunInit, Crash, Capture
  <1>3. ~Invalidate(o) /\ ~Reindex(o)
    BY DEF Invalidate, Reindex, Put
  <1>4. CASE Clear(o, q)
    BY <1>4 DEF Clear, BackupInv, StagedInv, Staged
  <1>5. CASE Apply(o, q)
    <2>1. /\ op[o].pc = "apply" /\ q \in op[o].todo /\ Put(Take(Here, op[o].content, q))
          /\ op[o].content \in Content
      BY <1>0, <1>5 DEF Apply, IsNext, Typed
    <2>2. q = r
      <3>1. q # r => canon'[r] = canon[r]
        BY <1>0, <2>1, PutRow DEF BackupInv, SameAt, Here
      <3> QED
        BY <3>1
    <2>3. op[o].at \in Nat /\ op[o].at <= clock
      BY <1>0, <2>1 DEF BackupInv, StagedInv, Staged, Typed
    <2>4. op[o].at = clock => op[o].asked.force
      BY <2>1, <2>2 DEF BackupInv, PlaceInv, Undisturbed
    <2> QED
      BY <1>0, <2>1, <2>3, <2>4
  <1> QED
    BY <1>2, <1>3, <1>4, <1>5

\* Without force no restore replaces authoritative data that was there when it looked.
THEOREM UnforcedKeepsDataCorrect ==
    BackupAssumption /\ PromptRecovery /\ DistinctSeconds => (BackupSpec => UnforcedKeepsData)
  <1> SUFFICES ASSUME BackupAssumption, PromptRecovery, DistinctSeconds PROVE BackupSpec => UnforcedKeepsData
    OBVIOUS
  <1>1. BackupInv /\ [BackupNext]_backupVars => [Kept]_backupVars
    <2> SUFFICES ASSUME BackupInv, BackupNext, NEW r \in Canonical, canon[r] # 0, canon'[r] # canon[r],
                        clock' = clock
                 PROVE  \E o \in Op : /\ op[o].pc \in {"clear", "apply"}
                                      /\ op[o].asked.force \/ op[o].at < clock
      BY DEF Kept
    <2>1. ASSUME NEW q \in Role, Write(q) PROVE FALSE
      <3>1. clock \in Nat /\ clock' = clock + 1
        BY <2>1 DEF Write, BackupInv, TypeOK
      <3> QED
        BY <3>1
    <2>2. ASSUME NEW s \in Service, LockCheck(s) \/ LockClear(s) \/ Up(s) \/ Down(s) PROVE FALSE
      BY <2>2 DEF LockCheck, LockClear, Up, Down, data
    <2>3. PICK o \in Op : Acts(o)
      BY <2>1, <2>2, Actors
    <2> QED
      BY <2>3, KeptByRestores
  <1> QED
    BY <1>1, BackupInvCorrect, PTL DEF BackupSpec, UnforcedKeepsData
=============================================================================
