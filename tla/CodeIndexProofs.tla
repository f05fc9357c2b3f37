-------------------------- MODULE CodeIndexProofs --------------------------
(***************************************************************************)
(* Theorems about CodeIndex, for every set of processes, scopes, files and *)
(* contents and every bound, and about the corpora of CorpusEvidence.      *)
(*                                                                         *)
(* Whoever takes the lock of a project finds what the last call left, and  *)
(* keeps it to itself to its commit point; the points of the collection    *)
(* are shared by all, but written by one synchronisation at a time, from   *)
(* an inventory that nobody changes meanwhile.  LockInv, RowsInv,          *)
(* InventoryInv and VectorsInv say what that makes of each store.          *)
(***************************************************************************)
EXTENDS CodeIndex, TLAPS

(* At most one call holds the lock of a project, and at most one the lock  *)
(* of the installation.                                                    *)
LockInv ==
    /\ \A v, w \in Worker :
           HoldsIndexLock(v) /\ HoldsIndexLock(w) /\ v # w
           => Project(call[v].scope) # Project(call[w].scope)
    /\ \A v, w \in Worker : HoldsVectorLock(v) /\ HoldsVectorLock(w) => v = w

(* What a call has brought the rows to, and then the state row.            *)
RowsOf(w) == LET s == call[w].scope  scan == call[w].scan IN
    /\ call[w].phase = "files" =>
           \A f \in File : f \notin call[w].files /\ scan.work[f] # Absent
                           => rows[s][f] = scan.work[f]
    /\ call[w].phase # "files" => rows[s] = scan.work
    /\ call[w].phase = "manifest" /\ state[s] # None => state[s].probe = scan.work

(* Where no call was abandoned, the rows are those of the scan the state   *)
(* row tells of.                                                           *)
RowsInv ==
    /\ \A s \in Scope : state[s] # None => state[s].dirty = (state[s].head # state[s].probe)
    /\ \A s \in Scope : Quiet(s) /\ ~aborted[s] /\ state[s] # None => rows[s] = state[s].probe
    /\ \A w \in Worker : HoldsIndexLock(w) /\ ~aborted[call[w].scope] => RowsOf(w)

(* While a call synchronises, the points it has yet to write are as in its *)
(* inventory, and the others have the memberships it wants.                *)
Inventoried(w) == LET s == call[w].scope IN
    /\ collection => \A c \in call[w].writes : points[c] = call[w].seen[c]
    /\ collection \/ ~lost[s] =>
           \A c \in Content \ call[w].writes : Memberships(s, Target(w), c) \subseteq points[c]

InventoryInv == \A w \in Worker : HoldsVectorLock(w) => Inventoried(w)

(* The rows of a tree have their memberships in the collection.            *)
Present(s, tree) == \A f \in File : tree[f] # Absent => <<s, f>> \in points[tree[f]]

Indexed(s) == state[s] # None /\ state[s].vector = "indexed"

(* Which rows are in the collection, as far as a call has come.            *)
PresentFor(w) == LET s == call[w].scope IN
    /\ call[w].phase \in {"files", "rows", "vwait"} /\ Indexed(s) =>
           state[s].published.rows \in Tree /\ Present(s, state[s].published.rows)
    /\ call[w].phase = "sync" /\ PriorMatches(w) => Present(s, rows[s])
    /\ call[w].phase = "record" => Present(s, rows[s])
    /\ call[w].phase = "commit" /\ call[w].outcome \in {"indexed", "current", "preserved"} =>
           Present(s, rows[s])
    /\ call[w].phase = "commit" /\ call[w].outcome = "preserved" => PriorMatches(w)
    /\ call[w].phase = "manifest" /\ Indexed(s) =>
           state[s].published.rows = rows[s] /\ Present(s, rows[s])

(* Where no call was abandoned and the collection is not lost, a snapshot  *)
(* that is on record as indexed is that of the rows, and in the collection.*)
VectorsInv ==
    /\ \A s \in Scope : Quiet(s) /\ ~aborted[s] /\ ~lost[s] /\ Indexed(s) =>
           state[s].published.rows = rows[s] /\ Present(s, rows[s])
    /\ \A w \in Worker : HoldsIndexLock(w) /\ ~aborted[call[w].scope] /\ ~lost[call[w].scope] =>
           PresentFor(w)

(* What the outcome of a synchronisation says of the snapshots on record.   *)
OutcomeOf(w) == LET s == call[w].scope IN
    /\ call[w].outcome = "indexed" => synced[s] = Target(w)
    /\ call[w].outcome = "current" => PriorMatches(w)

OutcomeInv == \A w \in Worker : call[w].phase = "commit" => OutcomeOf(w)

-----------------------------------------------------------------------------
(* Types.                                                                  *)

LEMMA CallFields ==
    ASSUME NEW k \in [Worker -> Call], NEW w \in Worker
    PROVE  /\ \A p \in Phase : [k EXCEPT ![w].phase = p] \in [Worker -> Call]
           /\ \A o \in Outcome : [k EXCEPT ![w].outcome = o] \in [Worker -> Call]
           /\ \A i \in Points : [k EXCEPT ![w].seen = i] \in [Worker -> Call]
           /\ \A cs \in SUBSET Content : [k EXCEPT ![w].writes = cs] \in [Worker -> Call]
           /\ \A fs \in SUBSET File : [k EXCEPT ![w].files = fs] \in [Worker -> Call]
  <1>1. \A p \in Phase : [k EXCEPT ![w].phase = p] \in [Worker -> Call]
    BY DEF Call
  <1>2. \A o \in Outcome : [k EXCEPT ![w].outcome = o] \in [Worker -> Call]
    BY DEF Call
  <1>3. \A i \in Points : [k EXCEPT ![w].seen = i] \in [Worker -> Call]
    BY DEF Call
  <1>4. \A cs \in SUBSET Content : [k EXCEPT ![w].writes = cs] \in [Worker -> Call]
    BY DEF Call
  <1>5. \A fs \in SUBSET File : [k EXCEPT ![w].files = fs] \in [Worker -> Call]
    BY DEF Call
  <1>6. QED
    BY <1>1, <1>2, <1>3, <1>4, <1>5

LEMMA EmptyTypes == Empty \in Tree /\ NoPoints \in Points
  BY DEF Empty, Tree, NoPoints, Points, Member

LEMMA FreeType == Free \in Call
  <1>1. (CHOOSE s \in Scope : TRUE) \in Scope
    BY CodeIndexAssumption
  <1>2. [head |-> Empty, work |-> Empty] \in View
    BY EmptyTypes DEF View
  <1>3. QED
    BY <1>1, <1>2, EmptyTypes DEF Free, Call, Phase, Outcome

LEMMA FreeFields ==
    /\ Free.phase = "idle" /\ Free.files = {} /\ Free.writes = {}
    /\ \A s \in Scope, v \in View, full, force \in BOOLEAN :
           [Free EXCEPT !.phase = "waiting", !.scope = s, !.scan = v,
                        !.full = full, !.force = force] \in Call
  <1>1. Free.phase = "idle" /\ Free.files = {} /\ Free.writes = {}
    BY DEF Free
  <1>2. ASSUME NEW s \in Scope, NEW v \in View, NEW full \in BOOLEAN, NEW force \in BOOLEAN
        PROVE  [Free EXCEPT !.phase = "waiting", !.scope = s, !.scan = v,
                            !.full = full, !.force = force] \in Call
    BY FreeType DEF Call, Phase
  <1>3. QED
    BY <1>1, <1>2

LEMMA TargetType ==
    ASSUME TypeOK, NEW w \in Worker
    PROVE  /\ Target(w) \in Hash
           /\ Target(w).rows = rows[call[w].scope]
           /\ Target(w) # None
  <1>1. call[w].scan \in View /\ rows[call[w].scope] \in Tree
    BY DEF TypeOK, Call
  <1>2. Dirty(call[w].scan) \in BOOLEAN
    BY DEF Dirty
  <1>3. QED
    BY <1>1, <1>2, NoneAssumption DEF Target, Stamped, Hash, View

LEMMA WritesType ==
    ASSUME NEW w \in Worker
    PROVE  Writes(w) \in SUBSET Content
  BY DEF Writes, Keys

LEMMA MergedType ==
    ASSUME TypeOK, NEW w \in Worker, NEW c \in Content
    PROVE  Merged(w, c) \in SUBSET Member
  <1>1. call[w].scope \in Scope /\ call[w].seen \in Points
    BY DEF TypeOK, Call
  <1>2. call[w].seen[c] \in SUBSET Member
    BY <1>1 DEF Points
  <1>3. Memberships(call[w].scope, Target(w), c) \in SUBSET Member
    BY <1>1 DEF Memberships, Member
  <1>4. QED
    BY <1>2, <1>3 DEF Merged

(* The parts of TypeOK about the stores and about the calls.               *)
StoresTyped ==
    /\ source \in [Scope -> View] /\ rows \in [Scope -> Tree]
    /\ synced \in [Scope -> Hash \cup {None}]
    /\ state \in [Scope -> State \cup {None}]
    /\ manifest \in [Scope -> Manifest \cup {None}]
    /\ points \in Points /\ collection \in BOOLEAN
    /\ aborted \in [Scope -> BOOLEAN] /\ lost \in [Scope -> BOOLEAN]
    /\ edits \in 0..MaxEdits /\ runs \in 0..MaxRuns /\ faults \in 0..MaxFaults

CallsTyped ==
    /\ call \in [Worker -> Call]
    /\ \A w \in Worker :
          /\ call[w].phase # "files" => call[w].files = {}
          /\ ~HoldsVectorLock(w) => call[w].writes = {}

LEMMA TypeParts ==
    /\ TypeOK <=> StoresTyped /\ CallsTyped
    /\ TypeOK' <=> StoresTyped' /\ CallsTyped'
  BY DEF TypeOK, StoresTyped, CallsTyped

LEMMA TypeInit == Init => TypeOK
  <1> SUFFICES ASSUME Init PROVE TypeOK
    OBVIOUS
  <1>1. [head |-> InitialTree, work |-> InitialTree] \in View
    BY CodeIndexAssumption DEF View, Tree
  <1>2. /\ source \in [Scope -> View] /\ rows \in [Scope -> Tree]
        /\ synced \in [Scope -> Hash \cup {None}]
        /\ state \in [Scope -> State \cup {None}]
        /\ manifest \in [Scope -> Manifest \cup {None}]
        /\ points \in Points /\ collection \in BOOLEAN
        /\ aborted \in [Scope -> BOOLEAN] /\ lost \in [Scope -> BOOLEAN]
    BY <1>1, EmptyTypes DEF Init
  <1>3. edits \in 0..MaxEdits /\ runs \in 0..MaxRuns /\ faults \in 0..MaxFaults
    BY CodeIndexAssumption DEF Init
  <1>4. CallsTyped
    BY FreeType, FreeFields DEF Init, CallsTyped
  <1>5. QED
    BY <1>2, <1>3, <1>4, TypeParts DEF StoresTyped

(* A call that ends is free again.                                         *)
LEMMA CallEnds ==
    ASSUME CallsTyped, NEW w \in Worker, call' = [call EXCEPT ![w] = Free]
    PROVE  CallsTyped'
  BY FreeType, FreeFields DEF CallsTyped, HoldsVectorLock

LEMMA AbandonTypes ==
    ASSUME TypeOK, NEW w \in Worker, Abandon(w)
    PROVE  CallsTyped' /\ aborted' \in [Scope -> BOOLEAN]
  BY CallEnds, TypeParts DEF Abandon, TypeOK

LEMMA TypeChange ==
    ASSUME TypeOK, NEW s \in Scope, NEW view \in View, Change(s, view)
    PROVE  TypeOK'
  <1>1. source' \in [Scope -> View] /\ edits' \in 0..MaxEdits
    BY CodeIndexAssumption DEF TypeOK, Change
  <1>2. CallsTyped'
    BY TypeParts DEF Change, CallsTyped, HoldsVectorLock
  <1>3. QED
    BY <1>1, <1>2, TypeParts DEF Change, StoresTyped, stores, remote

LEMMA TypeEdits ==
    ASSUME TypeOK, NEW s \in Scope, Edit(s) \/ Checkout(s)
    PROVE  TypeOK'
  <1>1. CASE Edit(s)
    <2>1. PICK f \in File, c \in Content \cup {Absent} : Change(s, [source[s] EXCEPT !.work[f] = c])
      BY <1>1 DEF Edit
    <2>2. [source[s] EXCEPT !.work[f] = c] \in View
      BY ZenonT(60) DEF TypeOK, View, Tree
    <2>3. QED
      BY <2>1, <2>2, TypeChange
  <1>2. CASE Checkout(s)
    BY <1>2, TypeChange DEF Checkout, View
  <1>3. QED
    BY <1>1, <1>2

LEMMA TypeBegin ==
    ASSUME TypeOK, NEW w \in Worker, NEW s \in Scope, NEW full \in BOOLEAN, NEW force \in BOOLEAN,
           Begin(w, s, full, force)
    PROVE  TypeOK'
  <1> DEFINE new == [Free EXCEPT !.phase = "waiting", !.scope = s, !.scan = source[s],
                                 !.full = full, !.force = force]
  <1>a. source[s] \in View
    BY DEF TypeOK
  <1>b. new \in Call
    BY <1>a, FreeFields
  <1>c. new.phase = "waiting" /\ new.files = {} /\ new.writes = {}
    BY FreeType, FreeFields DEF Call
  <1>1. new \in Call /\ new.phase = "waiting" /\ new.files = {} /\ new.writes = {}
    BY <1>b, <1>c
  <1> HIDE DEF new
  <1>2. call' = [call EXCEPT ![w] = new]
    BY DEF Begin, new
  <1>3. CallsTyped'
    BY <1>1, <1>2, TypeParts DEF CallsTyped, HoldsVectorLock
  <1>4. runs' \in 0..MaxRuns
    BY CodeIndexAssumption DEF TypeOK, Begin
  <1>5. QED
    BY <1>3, <1>4, TypeParts DEF Begin, StoresTyped, stores, remote

(* Most steps of a call only move it on: to another phase, with files left  *)
(* in "files" alone and writes left in "sync" alone.                       *)
LEMMA CallMoves ==
    ASSUME TypeOK, NEW w \in Worker, call' \in [Worker -> Call],
           \A v \in Worker \ {w} : call'[v] = call[v],
           call'[w].phase # "files" => call'[w].files = {},
           call'[w].phase # "sync" => call'[w].writes = {}
    PROVE  CallsTyped'
  BY TypeParts DEF CallsTyped, HoldsVectorLock

LEMMA TypeFiles ==
    ASSUME TypeOK, NEW w \in Worker,
           \/ EnterLock(w) \/ DeleteStaleFiles(w)
           \/ \E f \in File : ReuseFile(w, f) \/ ReplaceFile(w, f) \/ StaleFile(w, f)
    PROVE  TypeOK'
  <1>0. /\ call \in [Worker -> Call] /\ call[w].scope \in Scope /\ call[w].scan \in View
        /\ call[w].phase \in Phase /\ call[w].files \in SUBSET File
        /\ call[w].phase # "files" => call[w].files = {}
        /\ call[w].phase # "sync" => call[w].writes = {}
        /\ "files" \in Phase /\ "rows" \in Phase
    BY DEF TypeOK, Call, HoldsVectorLock, Phase
  <1>1. CASE EnterLock(w)
    <2> DEFINE p == IF call[w].force \/ ~FreshLexical(w) THEN "files" ELSE "rows"
               fs == IF call[w].force \/ ~FreshLexical(w)
                     THEN {f \in File : call[w].scan.work[f] # Absent} ELSE {}
    <2>1. p \in Phase /\ fs \in SUBSET File /\ (p # "files" => fs = {}) /\ p # "sync"
      BY <1>0
    <2>2. call' = [call EXCEPT ![w].phase = p, ![w].files = fs]
      BY <1>1 DEF EnterLock
    <2> HIDE DEF p, fs
    <2>3. PICK k : k = [call EXCEPT ![w].phase = p]
      OBVIOUS
    <2>4. k \in [Worker -> Call] /\ call' = [k EXCEPT ![w].files = fs]
      BY <1>0, <2>1, <2>2, <2>3, CallFields
    <2>5. call' \in [Worker -> Call]
      BY <2>1, <2>4, CallFields
    <2>6. /\ \A v \in Worker \ {w} : call'[v] = call[v]
          /\ call'[w].phase = p /\ call'[w].files = fs /\ call'[w].writes = call[w].writes
      BY <1>0, <2>2 DEF Call
    <2>7. CallsTyped'
      BY <1>0, <1>1, <2>1, <2>5, <2>6, CallMoves DEF EnterLock
    <2>8. QED
      BY <1>1, <2>7, TypeParts DEF EnterLock, StoresTyped, stores, remote
  <1>2. CASE DeleteStaleFiles(w)
    <2>1. call' = [call EXCEPT ![w].phase = "rows"]
      BY <1>2 DEF DeleteStaleFiles
    <2>2. call' \in [Worker -> Call]
      BY <1>0, <2>1, CallFields
    <2>3. CallsTyped'
      BY <1>0, <1>2, <2>1, <2>2, CallMoves DEF DeleteStaleFiles, Call
    <2>4. rows' \in [Scope -> Tree]
      BY <1>0, <1>2 DEF DeleteStaleFiles, TypeOK, Tree, View
    <2>5. QED
      BY <1>2, <2>3, <2>4, TypeParts DEF DeleteStaleFiles, StoresTyped, remote
  <1>3. ASSUME NEW f \in File, ReuseFile(w, f) PROVE TypeOK'
    <2>1. call' = [call EXCEPT ![w].files = call[w].files \ {f}]
      BY <1>3 DEF ReuseFile
    <2>2. call' \in [Worker -> Call]
      BY <1>0, <2>1, CallFields
    <2>3. CallsTyped'
      BY <1>0, <1>3, <2>1, <2>2, CallMoves DEF ReuseFile, Call
    <2>4. QED
      BY <1>3, <2>3, TypeParts DEF ReuseFile, StoresTyped, stores, remote
  <1>4. ASSUME NEW f \in File, ReplaceFile(w, f) PROVE TypeOK'
    <2>1. call' = [call EXCEPT ![w].files = call[w].files \ {f}] /\ call[w].phase = "files"
      BY <1>4 DEF ReplaceFile, MustRead
    <2>2. call' \in [Worker -> Call]
      BY <1>0, <2>1, CallFields
    <2>3. CallsTyped'
      BY <1>0, <2>1, <2>2, CallMoves DEF Call
    <2>4. rows' \in [Scope -> Tree]
      BY <1>0, <1>4 DEF ReplaceFile, TypeOK, Tree, View
    <2>5. QED
      BY <1>4, <2>3, <2>4, TypeParts DEF ReplaceFile, StoresTyped, remote
  <1>5. ASSUME NEW f \in File, StaleFile(w, f) PROVE TypeOK'
    BY <1>5, AbandonTypes, TypeParts DEF StaleFile, StoresTyped, stores, remote
  <1>6. QED
    BY <1>1, <1>2, <1>3, <1>4, <1>5

LEMMA TypeVectors ==
    ASSUME TypeOK, NEW w \in Worker,
           \/ SkipVectors(w) \/ WantVectors(w) \/ SyncBegin(w) \/ SyncEnds(w)
           \/ RecordSynced(w) \/ SyncFails(w)
           \/ \E c \in Content : SyncWrite(w, c)
    PROVE  TypeOK'
  <1>0. /\ call \in [Worker -> Call] /\ call[w].scope \in Scope /\ call[w].scan \in View
        /\ call[w].phase \in Phase /\ call[w].writes \in SUBSET Content
        /\ call[w].phase # "files" => call[w].files = {}
        /\ call[w].phase # "sync" => call[w].writes = {}
        /\ {"commit", "vwait", "sync", "record"} \subseteq Phase
        /\ {"current", "stale", "degraded", "indexed", "preserved"} \subseteq Outcome
    BY DEF TypeOK, Call, HoldsVectorLock, Phase, Outcome
  <1>a. ASSUME NEW p \in Phase, NEW o \in Outcome, call[w].phase # "files", call[w].phase # "sync",
               p # "files", call' = [call EXCEPT ![w].phase = p, ![w].outcome = o]
        PROVE  CallsTyped'
    <2>1. PICK k : k = [call EXCEPT ![w].phase = p]
      OBVIOUS
    <2>2. k \in [Worker -> Call] /\ call' = [k EXCEPT ![w].outcome = o]
      BY <1>0, <1>a, <2>1, CallFields
    <2>3. call' \in [Worker -> Call]
      BY <2>2, CallFields
    <2>4. /\ \A v \in Worker \ {w} : call'[v] = call[v]
          /\ call'[w].phase = p /\ call'[w].files = call[w].files /\ call'[w].writes = call[w].writes
      BY <1>0, <1>a DEF Call
    <2>5. QED
      BY <1>0, <1>a, <2>3, <2>4, CallMoves
  <1>1. CASE SkipVectors(w)
    <2>1. CallsTyped'
      BY <1>0, <1>1, <1>a DEF SkipVectors
    <2>2. QED
      BY <1>1, <2>1, TypeParts DEF SkipVectors, StoresTyped, stores, remote
  <1>2. CASE WantVectors(w)
    <2>1. call' = [call EXCEPT ![w].phase = "vwait"]
      BY <1>2 DEF WantVectors
    <2>2. call' \in [Worker -> Call]
      BY <1>0, <2>1, CallFields
    <2>3. CallsTyped'
      BY <1>0, <1>2, <2>1, <2>2, CallMoves DEF WantVectors, Call
    <2>4. QED
      BY <1>2, <2>3, TypeParts DEF WantVectors, StoresTyped, stores, remote
  <1>3. CASE SyncBegin(w)
    <2>1. CallsTyped'
      <3>1. CASE call' = [call EXCEPT ![w].phase = "commit", ![w].outcome = "degraded"]
        BY <1>0, <1>3, <1>a, <3>1 DEF SyncBegin
      <3>2. CASE call' = [call EXCEPT ![w].phase = "sync", ![w].seen = points, ![w].writes = Writes(w)]
        <4>1. PICK k : k = [call EXCEPT ![w].phase = "sync"]
          OBVIOUS
        <4>2. PICK l : l = [k EXCEPT ![w].seen = points]
          OBVIOUS
        <4>3. k \in [Worker -> Call] /\ points \in Points
          BY <1>0, <4>1, CallFields DEF TypeOK
        <4>4. l \in [Worker -> Call]
          BY <4>2, <4>3, CallFields
        <4>5. call' = [l EXCEPT ![w].writes = Writes(w)]
          BY <1>0, <3>2, <4>1, <4>2
        <4>6. call' \in [Worker -> Call]
          BY <4>4, <4>5, CallFields, WritesType
        <4>7. /\ \A v \in Worker \ {w} : call'[v] = call[v]
              /\ call'[w].phase = "sync" /\ call'[w].files = call[w].files
          BY <1>0, <3>2 DEF Call
        <4>8. QED
          BY <1>0, <1>3, <4>6, <4>7, CallMoves DEF SyncBegin
      <3>3. QED
        BY <1>3, <3>1, <3>2 DEF SyncBegin
    <2>2. collection' \in BOOLEAN
      BY <1>3 DEF SyncBegin, TypeOK
    <2>3. QED
      BY <1>3, <2>1, <2>2, TypeParts DEF SyncBegin, StoresTyped, stores
  <1>b. ASSUME NEW p \in Phase, NEW o \in Outcome, call[w].phase = "sync", p # "files", p # "sync",
               \/ call' = [call EXCEPT ![w].phase = p, ![w].writes = {}, ![w].seen = NoPoints,
                                       ![w].outcome = o]
               \/ call' = [call EXCEPT ![w].phase = p, ![w].seen = NoPoints] /\ call[w].writes = {}
        PROVE  CallsTyped'
    <2>1. PICK k : k = [call EXCEPT ![w].phase = p]
      OBVIOUS
    <2>2. PICK l : l = [k EXCEPT ![w].writes = {}]
      OBVIOUS
    <2>3. PICK n : n = [l EXCEPT ![w].seen = NoPoints]
      OBVIOUS
    <2>4. PICK q : q = [k EXCEPT ![w].seen = NoPoints]
      OBVIOUS
    <2>5. k \in [Worker -> Call]
      BY <1>0, <2>1, CallFields
    <2>6. l \in [Worker -> Call] /\ q \in [Worker -> Call]
      BY <2>2, <2>4, <2>5, CallFields, EmptyTypes
    <2>7. n \in [Worker -> Call]
      BY <2>3, <2>6, CallFields, EmptyTypes
    <2>8. call' = [n EXCEPT ![w].outcome = o] \/ call' = q
      BY <1>0, <1>b, <2>1, <2>2, <2>3, <2>4
    <2>9. call' \in [Worker -> Call]
      BY <2>6, <2>7, <2>8, CallFields
    <2>10. /\ \A v \in Worker \ {w} : call'[v] = call[v]
           /\ call'[w].phase = p /\ call'[w].files = call[w].files /\ call'[w].writes = {}
      BY <1>0, <1>b DEF Call
    <2>11. QED
      BY <1>0, <1>b, <2>9, <2>10, CallMoves
  <1>4. CASE SyncEnds(w)
    <2>1. CallsTyped'
      BY <1>0, <1>4, <1>b DEF SyncEnds
    <2>2. lost' \in [Scope -> BOOLEAN]
      BY <1>0, <1>4 DEF SyncEnds, TypeOK
    <2>3. QED
      BY <1>4, <2>1, <2>2, TypeParts DEF SyncEnds, StoresTyped, stores, remote
  <1>5. CASE SyncFails(w)
    <2>1. CallsTyped'
      BY <1>0, <1>5, <1>b DEF SyncFails
    <2>2. faults' \in 0..MaxFaults
      BY <1>5, CodeIndexAssumption DEF SyncFails, TypeOK
    <2>3. QED
      BY <1>5, <2>1, <2>2, TypeParts DEF SyncFails, StoresTyped, stores, remote
  <1>6. CASE RecordSynced(w)
    <2>1. CallsTyped'
      BY <1>0, <1>6, <1>a DEF RecordSynced
    <2>2. synced' \in [Scope -> Hash \cup {None}]
      BY <1>0, <1>6, TargetType DEF RecordSynced, TypeOK
    <2>3. QED
      BY <1>6, <2>1, <2>2, TypeParts DEF RecordSynced, StoresTyped, remote
  <1>7. ASSUME NEW c \in Content, SyncWrite(w, c) PROVE TypeOK'
    <2>1. call' = [call EXCEPT ![w].writes = call[w].writes \ {c}] /\ call[w].phase = "sync"
      BY <1>7 DEF SyncWrite
    <2>2. call' \in [Worker -> Call]
      BY <1>0, <2>1, CallFields
    <2>3. CallsTyped'
      BY <1>0, <2>1, <2>2, CallMoves DEF Call
    <2>4. points' \in Points
      BY <1>7, MergedType DEF SyncWrite, TypeOK, Points
    <2>5. QED
      BY <1>7, <2>3, <2>4, TypeParts DEF SyncWrite, StoresTyped, stores
  <1>8. QED
    BY <1>1, <1>2, <1>3, <1>4, <1>5, <1>6, <1>7

LEMMA PublishedType ==
    ASSUME TypeOK, NEW w \in Worker
    PROVE  Published(w) \in Hash \cup {None}
  <1>1. state[call[w].scope] \in State \cup {None} /\ Target(w) \in Hash
    BY TargetType DEF TypeOK, Call
  <1>2. QED
    BY <1>1 DEF Published, State

LEMMA TypeCommit ==
    ASSUME TypeOK, NEW w \in Worker, StaleSource(w) \/ WriteState(w) \/ WriteManifest(w)
    PROVE  TypeOK'
  <1>0. /\ call \in [Worker -> Call] /\ call[w].scope \in Scope /\ call[w].scan \in View
        /\ call[w].phase # "files" => call[w].files = {}
        /\ call[w].phase # "sync" => call[w].writes = {}
        /\ call[w].outcome \in Outcome
    BY DEF TypeOK, Call, HoldsVectorLock
  <1>1. CASE StaleSource(w)
    BY <1>1, AbandonTypes, TypeParts DEF StaleSource, StoresTyped, stores, remote
  <1>2. CASE WriteState(w)
    <2>1. call' = [call EXCEPT ![w].phase = "manifest"] /\ call[w].phase = "commit"
      BY <1>2 DEF WriteState
    <2>2. call' \in [Worker -> Call]
      BY <1>0, <2>1, CallFields DEF Phase
    <2>3. CallsTyped'
      BY <1>0, <2>1, <2>2, CallMoves DEF Call
    <2> DEFINE s == call[w].scope
               scan == call[w].scan
               new == [probe |-> scan.work, head |-> scan.head, dirty |-> Dirty(scan),
                       rows |-> rows[s], published |-> Published(w), vector |-> VectorState(w)]
    <2>4. new \in State
      <3>1. scan.work \in Tree /\ scan.head \in Tree /\ Dirty(scan) \in BOOLEAN /\ rows[s] \in Tree
        BY <1>0 DEF View, Dirty, TypeOK
      <3>2. VectorState(w) \in VectorStatus
        BY <1>0, <1>2 DEF VectorState, VectorStatus, Outcome
      <3>3. QED
        BY <3>1, <3>2, PublishedType DEF State
    <2>5. state' = [state EXCEPT ![s] = new]
      BY <1>2 DEF WriteState
    <2>6. state' \in [Scope -> State \cup {None}]
      BY <2>4, <2>5 DEF TypeOK
    <2>7. QED
      BY <1>2, <2>3, <2>6, TypeParts DEF WriteState, StoresTyped, remote
  <1>3. CASE WriteManifest(w)
    <2>1. CallsTyped'
      BY <1>3, CallEnds, TypeParts DEF WriteManifest
    <2>2. ASSUME manifest[call[w].scope] # None PROVE manifest[call[w].scope].collection \in BOOLEAN
      BY <1>0, <2>2 DEF TypeOK, Manifest
    <2>3. [head |-> call[w].scan.head,
           collection |-> \/ call[w].outcome \in {"indexed", "current"}
                          \/ manifest[call[w].scope] # None /\ manifest[call[w].scope].collection]
              \in Manifest
      BY <1>0, <2>2 DEF Manifest, View
    <2>4. manifest' \in [Scope -> Manifest \cup {None}]
      BY <1>3, <2>3 DEF WriteManifest, TypeOK
    <2>5. QED
      BY <1>3, <2>1, <2>4, TypeParts DEF WriteManifest, StoresTyped, remote
  <1>4. QED
    BY <1>1, <1>2, <1>3

LEMMA TypeFaults ==
    ASSUME TypeOK, (\E w \in Worker : Crash(w)) \/ LoseCollection
    PROVE  TypeOK'
  <1>1. ASSUME NEW w \in Worker, Crash(w) PROVE TypeOK'
    <2>1. CallsTyped' /\ aborted' \in [Scope -> BOOLEAN]
      <3>1. CASE HoldsIndexLock(w)
        BY <1>1, <3>1, AbandonTypes DEF Crash
      <3>2. CASE ~HoldsIndexLock(w)
        BY <1>1, <3>2, CallEnds, TypeParts DEF Crash, TypeOK
      <3>3. QED
        BY <3>1, <3>2
    <2>2. faults' \in 0..MaxFaults
      BY <1>1, CodeIndexAssumption DEF Crash, TypeOK
    <2>3. QED
      BY <1>1, <2>1, <2>2, TypeParts DEF Crash, StoresTyped, stores, remote
  <1>2. CASE LoseCollection
    <2>1. CallsTyped'
      BY <1>2, TypeParts DEF LoseCollection, CallsTyped, HoldsVectorLock
    <2>2. faults' \in 0..MaxFaults
      BY <1>2, CodeIndexAssumption DEF LoseCollection, TypeOK
    <2>3. QED
      BY <1>2, <2>1, <2>2, EmptyTypes, TypeParts DEF LoseCollection, StoresTyped, stores
  <1>3. QED
    BY <1>1, <1>2

LEMMA TypeStep == TypeOK /\ [Next]_vars => TypeOK'
  <1> SUFFICES ASSUME TypeOK, [Next]_vars PROVE TypeOK'
    OBVIOUS
  <1>1. CASE UNCHANGED vars
    BY <1>1 DEF vars, stores, remote, TypeOK, HoldsVectorLock
  <1>2. ASSUME NEW w \in Worker, Work(w) PROVE TypeOK'
    BY <1>2, TypeFiles, TypeVectors, TypeCommit DEF Work
  <1>3. QED
    BY <1>1, <1>2, TypeEdits, TypeBegin, TypeVectors, TypeFaults DEF Next

\* The index stays well typed: the rows are those of a tree, the snapshots and the
\* points are of scopes and files that exist, a call has files left only while it goes
\* through them and an inventory of the points only under the lock of the installation.
THEOREM TypeCorrect == Spec => []TypeOK
  BY TypeInit, TypeStep, PTL DEF Spec

-----------------------------------------------------------------------------
(* The locks.                                                              *)

(* A call keeps its scope and its scan, and takes a lock when it is free.   *)
Proceeds(w) ==
    /\ \A v \in Worker \ {w} : call'[v] = call[v]
    /\ HoldsIndexLock(w)' =>
          /\ call'[w].scope = call[w].scope
          /\ call'[w].scan = call[w].scan
          /\ HoldsIndexLock(w) \/ IndexLockFree(call[w].scope)
    /\ HoldsVectorLock(w)' => HoldsVectorLock(w) \/ VectorLockFree

LEMMA AbandonProceeds ==
    ASSUME TypeOK, NEW w \in Worker, call' = [call EXCEPT ![w] = Free]
    PROVE  Proceeds(w) /\ ~HoldsIndexLock(w)'
  BY FreeFields DEF Proceeds, HoldsIndexLock, HoldsVectorLock, TypeOK

LEMMA WorkProceeds ==
    ASSUME TypeOK, NEW w \in Worker, Work(w) \/ SyncFails(w) \/ Crash(w)
    PROVE  Proceeds(w)
  <1>0. call \in [Worker -> Call]
    BY DEF TypeOK
  <1> USE DEF Proceeds, HoldsIndexLock, HoldsVectorLock
  <1>1. CASE EnterLock(w)
    BY <1>0, <1>1 DEF EnterLock, Call
  <1>2. CASE DeleteStaleFiles(w)
    BY <1>0, <1>2 DEF DeleteStaleFiles, Call
  <1>3. ASSUME NEW f \in File, ReuseFile(w, f) PROVE Proceeds(w)
    BY <1>0, <1>3 DEF ReuseFile, Call
  <1>4. ASSUME NEW f \in File, ReplaceFile(w, f) PROVE Proceeds(w)
    BY <1>0, <1>4 DEF ReplaceFile, MustRead, Call
  <1>5. ASSUME NEW f \in File, StaleFile(w, f) PROVE Proceeds(w)
    BY <1>5, AbandonProceeds DEF StaleFile, Abandon
  <1>6. CASE SkipVectors(w)
    BY <1>0, <1>6 DEF SkipVectors, Call
  <1>7. CASE WantVectors(w)
    BY <1>0, <1>7 DEF WantVectors, Call
  <1>8. CASE SyncBegin(w)
    <2>1. CASE call' = [call EXCEPT ![w].phase = "commit", ![w].outcome = "degraded"]
      BY <1>0, <1>8, <2>1 DEF SyncBegin, Call
    <2>2. CASE call' = [call EXCEPT ![w].phase = "sync", ![w].seen = points, ![w].writes = Writes(w)]
      BY <1>0, <1>8, <2>2 DEF SyncBegin, Call
    <2>3. QED
      BY <1>8, <2>1, <2>2 DEF SyncBegin
  <1>9. CASE SyncEnds(w)
    BY <1>0, <1>9 DEF SyncEnds, Call
  <1>10. CASE RecordSynced(w)
    BY <1>0, <1>10 DEF RecordSynced, Call
  <1>11. ASSUME NEW c \in Content, SyncWrite(w, c) PROVE Proceeds(w)
    BY <1>0, <1>11 DEF SyncWrite, Call
  <1>12. CASE StaleSource(w)
    BY <1>12, AbandonProceeds DEF StaleSource, Abandon
  <1>13. CASE WriteState(w)
    BY <1>0, <1>13 DEF WriteState, Call
  <1>14. CASE WriteManifest(w)
    BY <1>14, AbandonProceeds DEF WriteManifest
  <1>15. CASE SyncFails(w)
    BY <1>0, <1>15 DEF SyncFails, Call
  <1>16. CASE Crash(w)
    BY <1>16, AbandonProceeds DEF Crash, Abandon
  <1>17. QED
    BY <1>1, <1>2, <1>3, <1>4, <1>5, <1>6, <1>7, <1>8, <1>9, <1>10, <1>11, <1>12, <1>13,
       <1>14, <1>15, <1>16 DEF Work

LEMMA BeginProceeds ==
    ASSUME TypeOK, NEW w \in Worker, NEW s \in Scope, NEW full \in BOOLEAN, NEW force \in BOOLEAN,
           Begin(w, s, full, force)
    PROVE  Proceeds(w) /\ ~HoldsIndexLock(w) /\ ~HoldsIndexLock(w)'
  <1> DEFINE new == [Free EXCEPT !.phase = "waiting", !.scope = s, !.scan = source[s],
                                 !.full = full, !.force = force]
  <1>1. new.phase = "waiting" /\ call' = [call EXCEPT ![w] = new]
    BY FreeType DEF Begin, Call
  <1> HIDE DEF new
  <1>2. QED
    BY <1>1 DEF Begin, TypeOK, Proceeds, HoldsIndexLock, HoldsVectorLock

LEMMA LockProceeds ==
    ASSUME TypeOK, LockInv, NEW w \in Worker, Proceeds(w)
    PROVE  LockInv'
  <1>1. ASSUME NEW v \in Worker, HoldsIndexLock(v)', v # w
        PROVE  HoldsIndexLock(v) /\ call'[v].scope = call[v].scope
    BY <1>1 DEF Proceeds, HoldsIndexLock
  <1>2. ASSUME NEW v \in Worker, HoldsVectorLock(v)', v # w
        PROVE  HoldsVectorLock(v)
    BY <1>2 DEF Proceeds, HoldsVectorLock
  <1>3. ASSUME NEW v \in Worker, NEW u \in Worker, HoldsIndexLock(u)', HoldsIndexLock(v)', u # v
        PROVE  Project(call'[u].scope) # Project(call'[v].scope)
    <2>1. CASE u # w /\ v # w
      BY <1>1, <1>3, <2>1 DEF LockInv
    <2>2. CASE u = w
      BY <1>1, <1>3, <2>2 DEF LockInv, Proceeds, IndexLockFree
    <2>3. CASE v = w
      BY <1>1, <1>3, <2>3 DEF LockInv, Proceeds, IndexLockFree
    <2>4. QED
      BY <2>1, <2>2, <2>3
  <1>4. ASSUME NEW v \in Worker, NEW u \in Worker, HoldsVectorLock(u)', HoldsVectorLock(v)'
        PROVE  u = v
    BY <1>2, <1>4 DEF LockInv, Proceeds, VectorLockFree
  <1>5. QED
    BY <1>3, <1>4 DEF LockInv

LEMMA LockStep == TypeOK /\ LockInv /\ [Next]_vars => LockInv'
  <1> SUFFICES ASSUME TypeOK, LockInv, [Next]_vars PROVE LockInv'
    OBVIOUS
  <1>1. CASE UNCHANGED call
    BY <1>1 DEF LockInv, HoldsIndexLock, HoldsVectorLock
  <1>2. ASSUME NEW w \in Worker, Work(w) \/ SyncFails(w) \/ Crash(w) PROVE LockInv'
    BY <1>2, WorkProceeds, LockProceeds
  <1>3. ASSUME NEW w \in Worker, NEW s \in Scope, NEW full \in BOOLEAN, NEW force \in BOOLEAN,
               Begin(w, s, full, force)
        PROVE  LockInv'
    BY <1>3, BeginProceeds, LockProceeds
  <1>4. (\E s \in Scope : Edit(s) \/ Checkout(s)) \/ LoseCollection \/ UNCHANGED vars => UNCHANGED call
    BY DEF Edit, Checkout, Change, LoseCollection, vars
  <1>5. QED
    BY <1>1, <1>2, <1>3, <1>4 DEF Next

\* However many processes index, at most one call is at work under the lock of a
\* project, and at most one under the lock of the installation.
THEOREM LocksExclude == Spec => []LockInv
  <1>1. Init => LockInv
    BY FreeFields DEF Init, LockInv, HoldsIndexLock, HoldsVectorLock
  <1>2. QED
    BY <1>1, LockStep, TypeCorrect, PTL DEF Spec

-----------------------------------------------------------------------------
(* The rows and the state row.                                             *)

(* No other call at work is on the scope of w.                             *)
Alone(w) == \A v \in Worker \ {w} : HoldsIndexLock(v) => call[v].scope # call[w].scope

LEMMA HolderIsAlone ==
    ASSUME TypeOK, LockInv, NEW w \in Worker, HoldsIndexLock(w) \/ IndexLockFree(call[w].scope)
    PROVE  Alone(w)
  BY DEF LockInv, Alone, IndexLockFree

LEMMA FreeIsQuiet ==
    ASSUME NEW s \in Scope, IndexLockFree(s)
    PROVE  Quiet(s)
  BY DEF IndexLockFree, Quiet

(* Quiet scopes and calls other than that of w, alone on its scope, do not  *)
(* notice its step.                                                        *)
LEMMA OthersNotice ==
    ASSUME TypeOK, NEW w \in Worker, Alone(w), Proceeds(w)
    PROVE  /\ \A s \in Scope \ {call[w].scope} : Quiet(s)' => Quiet(s)
           /\ \A s \in Scope : s = call[w].scope /\ Quiet(s)' => ~HoldsIndexLock(w)'
           /\ \A v \in Worker \ {w} : HoldsIndexLock(v)' =>
                  /\ HoldsIndexLock(v) /\ call'[v] = call[v]
                  /\ call[v].scope \in Scope \ {call[w].scope}
  <1>1. \A s \in Scope \ {call[w].scope} : Quiet(s)' => Quiet(s)
    BY DEF Quiet, Proceeds, HoldsIndexLock
  <1>2. \A s \in Scope : s = call[w].scope /\ Quiet(s)' => ~HoldsIndexLock(w)'
    BY DEF Quiet, Proceeds
  <1>3. \A v \in Worker \ {w} : HoldsIndexLock(v)' =>
            /\ HoldsIndexLock(v) /\ call'[v] = call[v]
            /\ call[v].scope \in Scope \ {call[w].scope}
    BY DEF Alone, Proceeds, HoldsIndexLock, TypeOK, Call
  <1>4. QED
    BY <1>1, <1>2, <1>3

(* What a step of w has to show for RowsInv: its own scope is in order.     *)
LEMMA RowsFrame ==
    ASSUME TypeOK, RowsInv, NEW w \in Worker, Alone(w), Proceeds(w), NEW s, s = call[w].scope,
           \A t \in Scope \ {s} : /\ rows'[t] = rows[t] /\ state'[t] = state[t]
                                  /\ aborted'[t] = aborted[t],
           state'[s] # None => state'[s].dirty = (state'[s].head # state'[s].probe),
           ~HoldsIndexLock(w)' /\ ~aborted'[s] /\ state'[s] # None => rows'[s] = state'[s].probe,
           HoldsIndexLock(w)' /\ ~aborted'[s] => RowsOf(w)'
    PROVE  RowsInv'
  <1>1. ASSUME NEW t \in Scope, state'[t] # None
        PROVE  state'[t].dirty = (state'[t].head # state'[t].probe)
    BY <1>1 DEF RowsInv
  <1>2. ASSUME NEW t \in Scope, Quiet(t)', ~aborted'[t], state'[t] # None
        PROVE  rows'[t] = state'[t].probe
    <2>1. CASE t = s
      BY <1>2, <2>1, OthersNotice
    <2>2. CASE t # s
      BY <1>2, <2>2, OthersNotice DEF RowsInv
    <2>3. QED
      BY <2>1, <2>2
  <1>3. ASSUME NEW v \in Worker, HoldsIndexLock(v)', ~aborted'[call'[v].scope]
        PROVE  RowsOf(v)'
    <2>1. CASE v = w
      BY <1>3, <2>1 DEF Proceeds
    <2>2. CASE v # w
      <3>1. HoldsIndexLock(v) /\ call'[v] = call[v] /\ call[v].scope \in Scope \ {s}
        BY <1>3, <2>2, OthersNotice
      <3>2. RowsOf(v)
        BY <1>3, <3>1 DEF RowsInv
      <3>3. QED
        BY <3>1, <3>2 DEF RowsOf
    <2>3. QED
      BY <2>1, <2>2
  <1>4. QED
    BY <1>1, <1>2, <1>3 DEF RowsInv

(* A call that ends abandoned, or before it got to work, leaves RowsInv.    *)
LEMMA RowsAbandoned ==
    ASSUME TypeOK, RowsInv, NEW w \in Worker, Alone(w), Abandon(w), UNCHANGED <<rows, state>>
    PROVE  RowsInv'
  <1>1. Proceeds(w) /\ ~HoldsIndexLock(w)' /\ call[w].scope \in Scope
    BY AbandonProceeds DEF Abandon, TypeOK, Call
  <1>2. /\ \A t \in Scope \ {call[w].scope} : aborted'[t] = aborted[t]
        /\ aborted'[call[w].scope] = TRUE
    BY <1>1 DEF Abandon, TypeOK
  <1>3. state'[call[w].scope] # None =>
            state'[call[w].scope].dirty = (state'[call[w].scope].head # state'[call[w].scope].probe)
    BY <1>1 DEF RowsInv
  <1>4. QED
    BY <1>1, <1>2, <1>3, RowsFrame

LEMMA RowsIdle ==
    ASSUME TypeOK, RowsInv, NEW w \in Worker, ~HoldsIndexLock(w), ~HoldsIndexLock(w)', Proceeds(w),
           UNCHANGED <<rows, state, aborted>>
    PROVE  RowsInv'
  <1>1. \A v \in Worker : HoldsIndexLock(v) <=> HoldsIndexLock(v)'
    BY DEF Proceeds, HoldsIndexLock
  <1>2. \A s \in Scope : Quiet(s)' => Quiet(s)
    BY <1>1 DEF Quiet, Proceeds, HoldsIndexLock
  <1>3. ASSUME NEW v \in Worker, HoldsIndexLock(v)', ~aborted'[call'[v].scope]
        PROVE  RowsOf(v)'
    <2>1. v # w /\ HoldsIndexLock(v) /\ call'[v] = call[v]
      BY <1>1, <1>3 DEF Proceeds
    <2>2. QED
      BY <1>3, <2>1 DEF RowsInv, RowsOf
  <1>4. QED
    BY <1>2, <1>3 DEF RowsInv

LEMMA RowsFiles ==
    ASSUME TypeOK, LockInv, RowsInv, NEW w \in Worker,
           \/ EnterLock(w) \/ DeleteStaleFiles(w)
           \/ \E f \in File : ReuseFile(w, f) \/ ReplaceFile(w, f) \/ StaleFile(w, f)
    PROVE  RowsInv'
  <1> DEFINE s == call[w].scope
             scan == call[w].scan
  <1>0. /\ call \in [Worker -> Call] /\ s \in Scope /\ scan \in View
        /\ rows \in [Scope -> Tree] /\ rows[s] \in Tree /\ scan.work \in Tree
        /\ HoldsIndexLock(w) => Alone(w) /\ (~aborted[s] => RowsOf(w))
        /\ Proceeds(w)
    BY WorkProceeds, HolderIsAlone DEF TypeOK, Call, View, RowsInv, Work
  <1>a. state[s] # None => state[s].dirty = (state[s].head # state[s].probe)
    BY <1>0 DEF RowsInv
  <1>1. CASE EnterLock(w)
    <2>1. Alone(w) /\ Quiet(s)
      BY <1>0, <1>1, HolderIsAlone, FreeIsQuiet DEF EnterLock
    <2>2. /\ UNCHANGED <<rows, state, aborted>> /\ call'[w].scope = s /\ call'[w].scan = scan
          /\ call'[w].phase = (IF call[w].force \/ ~FreshLexical(w) THEN "files" ELSE "rows")
          /\ call'[w].files = (IF call[w].force \/ ~FreshLexical(w)
                               THEN {f \in File : scan.work[f] # Absent} ELSE {})
      BY <1>0, <1>1 DEF EnterLock, Call, stores
    <2>3. ~aborted[s] => RowsOf(w)'
      BY <1>0, <2>1, <2>2 DEF RowsOf, FreshLexical, RowsInv
    <2>4. HoldsIndexLock(w)'
      BY <2>2 DEF HoldsIndexLock
    <2>5. QED
      BY <1>0, <1>a, <2>1, <2>2, <2>3, <2>4, RowsFrame
  <1>2. CASE DeleteStaleFiles(w)
    <2> DEFINE kept == [f \in File |-> IF scan.work[f] = Absent THEN Absent ELSE rows[s][f]]
    <2>1. /\ HoldsIndexLock(w) /\ UNCHANGED <<state, aborted>>
          /\ call'[w].scope = s /\ call'[w].scan = scan /\ call'[w].phase = "rows"
          /\ \A t \in Scope \ {s} : rows'[t] = rows[t]
          /\ rows'[s] = kept
      BY <1>0, <1>2 DEF DeleteStaleFiles, HoldsIndexLock, Call
    <2>2. ~aborted[s] => rows'[s] = scan.work
      <3>1. ASSUME ~aborted[s] PROVE kept = scan.work
        <4>1. \A f \in File : scan.work[f] # Absent => rows[s][f] = scan.work[f]
          BY <1>0, <1>2, <2>1, <3>1 DEF RowsOf, DeleteStaleFiles
        <4>2. scan.work = [f \in File |-> scan.work[f]]
          BY <1>0 DEF Tree
        <4>3. QED
          BY <4>1, <4>2
      <3> HIDE DEF kept
      <3>2. QED
        BY <2>1, <3>1
    <2> HIDE DEF kept
    <2>3. ~aborted[s] => RowsOf(w)'
      BY <2>1, <2>2 DEF RowsOf
    <2>4. HoldsIndexLock(w)'
      BY <2>1 DEF HoldsIndexLock
    <2>5. QED
      BY <1>0, <1>a, <2>1, <2>3, <2>4, RowsFrame
  <1>3. ASSUME NEW f \in File, ReuseFile(w, f) PROVE RowsInv'
    <2>1. /\ HoldsIndexLock(w) /\ UNCHANGED <<rows, state, aborted>>
          /\ call'[w].scope = s /\ call'[w].scan = scan /\ call'[w].phase = "files"
          /\ call'[w].files = call[w].files \ {f}
      BY <1>0, <1>3 DEF ReuseFile, HoldsIndexLock, Call, stores
    <2>2. ~aborted[s] => RowsOf(w)'
      BY <1>0, <1>3, <2>1 DEF RowsOf, ReuseFile
    <2>3. HoldsIndexLock(w)'
      BY <2>1 DEF HoldsIndexLock
    <2>4. QED
      BY <1>0, <1>a, <2>1, <2>2, <2>3, RowsFrame
  <1>4. ASSUME NEW f \in File, ReplaceFile(w, f) PROVE RowsInv'
    <2>1. /\ HoldsIndexLock(w) /\ UNCHANGED <<state, aborted>>
          /\ call'[w].scope = s /\ call'[w].scan = scan /\ call'[w].phase = "files"
          /\ call'[w].files = call[w].files \ {f}
          /\ \A t \in Scope \ {s} : rows'[t] = rows[t]
          /\ rows'[s] = [rows[s] EXCEPT ![f] = scan.work[f]]
      BY <1>0, <1>4 DEF ReplaceFile, MustRead, HoldsIndexLock, Call
    <2>2. ~aborted[s] => RowsOf(w)'
      <3>1. /\ scan.work \in Tree /\ rows[s] \in Tree /\ call[w].phase = "files"
        BY <1>0, <1>4 DEF ReplaceFile, MustRead, View, Call
      <3>2. ASSUME ~aborted[s], NEW g \in File, g \notin call[w].files \ {f}, scan.work[g] # Absent
            PROVE  rows'[s][g] = scan.work[g]
        BY <1>0, <2>1, <3>1, <3>2 DEF RowsOf, Tree
      <3> QED
        BY <2>1, <3>2 DEF RowsOf
    <2>3. HoldsIndexLock(w)'
      BY <2>1 DEF HoldsIndexLock
    <2>4. QED
      BY <1>0, <1>a, <2>1, <2>2, <2>3, RowsFrame
  <1>5. ASSUME NEW f \in File, StaleFile(w, f) PROVE RowsInv'
    BY <1>0, <1>5, RowsAbandoned DEF StaleFile, MustRead, HoldsIndexLock, stores
  <1>6. QED
    BY <1>1, <1>2, <1>3, <1>4, <1>5

LEMMA RowsVectors ==
    ASSUME TypeOK, LockInv, RowsInv, NEW w \in Worker,
           \/ SkipVectors(w) \/ WantVectors(w) \/ SyncBegin(w) \/ SyncEnds(w)
           \/ RecordSynced(w) \/ SyncFails(w)
           \/ \E c \in Content : SyncWrite(w, c)
    PROVE  RowsInv'
  <1> DEFINE s == call[w].scope
  <1>0. call \in [Worker -> Call] /\ s \in Scope /\ Proceeds(w)
    BY WorkProceeds DEF TypeOK, Call, Work
  <1>1. /\ call[w].phase \in {"rows", "vwait", "sync", "record"}
        /\ call'[w].phase \in {"vwait", "sync", "record", "commit"}
        /\ UNCHANGED <<rows, state, aborted>>
    <2>1. CASE SkipVectors(w)
      BY <1>0, <2>1 DEF SkipVectors, Call, stores
    <2>2. CASE WantVectors(w)
      BY <1>0, <2>2 DEF WantVectors, Call, stores
    <2>3. CASE SyncBegin(w)
      <3>1. CASE call' = [call EXCEPT ![w].phase = "commit", ![w].outcome = "degraded"]
        BY <1>0, <2>3, <3>1 DEF SyncBegin, Call, stores
      <3>2. CASE call' = [call EXCEPT ![w].phase = "sync", ![w].seen = points, ![w].writes = Writes(w)]
        BY <1>0, <2>3, <3>2 DEF SyncBegin, Call, stores
      <3>3. QED
        BY <2>3, <3>1, <3>2 DEF SyncBegin
    <2>4. CASE SyncEnds(w)
      BY <1>0, <2>4 DEF SyncEnds, Call, stores
    <2>5. CASE RecordSynced(w)
      BY <1>0, <2>5 DEF RecordSynced, Call
    <2>6. CASE SyncFails(w)
      BY <1>0, <2>6 DEF SyncFails, Call, stores
    <2>7. ASSUME NEW c \in Content, SyncWrite(w, c)
          PROVE  /\ call[w].phase = "sync" /\ call'[w].phase = "sync"
                 /\ UNCHANGED <<rows, state, aborted>>
      BY <1>0, <2>7 DEF SyncWrite, Call, stores
    <2>8. QED
      BY <2>1, <2>2, <2>3, <2>4, <2>5, <2>6, <2>7
  <1>2. HoldsIndexLock(w) /\ HoldsIndexLock(w)' /\ Alone(w)
    BY <1>1, HolderIsAlone DEF HoldsIndexLock
  <1>3. call'[w].scope = s /\ call'[w].scan = call[w].scan
    BY <1>0, <1>2 DEF Proceeds
  <1>4. ~aborted[s] => RowsOf(w)'
    BY <1>1, <1>2, <1>3 DEF RowsInv, RowsOf
  <1>5. state[s] # None => state[s].dirty = (state[s].head # state[s].probe)
    BY <1>0 DEF RowsInv
  <1>6. QED
    BY <1>0, <1>1, <1>2, <1>4, <1>5, RowsFrame

LEMMA RowsCommit ==
    ASSUME TypeOK, LockInv, RowsInv, NEW w \in Worker,
           StaleSource(w) \/ WriteState(w) \/ WriteManifest(w) \/ Crash(w)
    PROVE  RowsInv'
  <1> DEFINE s == call[w].scope
             scan == call[w].scan
  <1>0. /\ call \in [Worker -> Call] /\ s \in Scope /\ state \in [Scope -> State \cup {None}]
        /\ HoldsIndexLock(w) => Alone(w) /\ (~aborted[s] => RowsOf(w))
        /\ Proceeds(w)
    BY WorkProceeds, HolderIsAlone DEF TypeOK, Call, RowsInv, Work
  <1>a. state[s] # None => state[s].dirty = (state[s].head # state[s].probe)
    BY <1>0 DEF RowsInv
  <1>1. CASE StaleSource(w)
    BY <1>0, <1>1, RowsAbandoned DEF StaleSource, HoldsIndexLock, stores
  <1>2. CASE WriteState(w)
    <2>1. /\ call[w].phase = "commit" /\ UNCHANGED <<rows, aborted>>
          /\ call'[w].phase = "manifest" /\ call'[w].scope = s /\ call'[w].scan = scan
          /\ \A t \in Scope \ {s} : state'[t] = state[t]
          /\ state'[s].probe = scan.work /\ state'[s].head = scan.head
          /\ state'[s].dirty = Dirty(scan)
      BY <1>0, <1>2 DEF WriteState, Call
    <2>2. HoldsIndexLock(w) /\ HoldsIndexLock(w)'
      BY <2>1 DEF HoldsIndexLock
    <2>3. ~aborted[s] => RowsOf(w)'
      BY <1>0, <2>1, <2>2 DEF RowsOf
    <2>4. QED
      BY <1>0, <2>1, <2>2, <2>3, RowsFrame DEF Dirty
  <1>3. CASE WriteManifest(w)
    <2>1. /\ call[w].phase = "manifest" /\ UNCHANGED <<rows, state, aborted>>
          /\ HoldsIndexLock(w)
      BY <1>3 DEF WriteManifest, HoldsIndexLock
    <2>2. ~HoldsIndexLock(w)'
      BY <1>3, AbandonProceeds DEF WriteManifest
    <2>3. ~aborted[s] /\ state[s] # None => rows[s] = state[s].probe
      BY <1>0, <2>1 DEF RowsOf
    <2>4. QED
      BY <1>0, <1>a, <2>1, <2>2, <2>3, RowsFrame
  <1>4. CASE Crash(w)
    <2>1. CASE HoldsIndexLock(w)
      BY <1>0, <1>4, <2>1, RowsAbandoned DEF Crash, stores
    <2>2. CASE ~HoldsIndexLock(w)
      <3>1. call' = [call EXCEPT ![w] = Free] /\ UNCHANGED <<rows, state, aborted>>
        BY <1>4, <2>2 DEF Crash, stores
      <3>2. QED
        BY <1>0, <2>2, <3>1, RowsIdle, AbandonProceeds
    <2>3. QED
      BY <2>1, <2>2
  <1>5. QED
    BY <1>1, <1>2, <1>3, <1>4

LEMMA RowsStep == TypeOK /\ LockInv /\ RowsInv /\ [Next]_vars => RowsInv'
  <1> SUFFICES ASSUME TypeOK, LockInv, RowsInv, [Next]_vars PROVE RowsInv'
    OBVIOUS
  <1>1. CASE UNCHANGED <<rows, state, aborted, call>>
    BY <1>1 DEF RowsInv, RowsOf, Quiet, HoldsIndexLock
  <1>2. (\E s \in Scope : Edit(s) \/ Checkout(s)) \/ LoseCollection \/ UNCHANGED vars
            => UNCHANGED <<rows, state, aborted, call>>
    BY DEF Edit, Checkout, Change, LoseCollection, vars, stores
  <1>3. ASSUME NEW w \in Worker, Work(w) \/ SyncFails(w) \/ Crash(w) PROVE RowsInv'
    BY <1>3, RowsFiles, RowsVectors, RowsCommit DEF Work
  <1>4. ASSUME NEW w \in Worker, NEW s \in Scope, NEW full \in BOOLEAN, NEW force \in BOOLEAN,
               Begin(w, s, full, force)
        PROVE  RowsInv'
    BY <1>4, BeginProceeds, RowsIdle DEF Begin, stores
  <1>5. QED
    BY <1>1, <1>2, <1>3, <1>4 DEF Next

LEMMA RowsAlways == Spec => []RowsInv
  <1>1. Init => RowsInv
    BY FreeFields DEF Init, RowsInv, HoldsIndexLock
  <1>2. QED
    BY <1>1, RowsStep, LocksExclude, TypeCorrect, PTL DEF Spec

\* The index that either verification reports as current is the index of the source as
\* it is, for any number of processes, edits and faults, unless a call on the scope was
\* abandoned under the lock.
THEOREM CurrentIndexIsOfSource == Spec => []CurrentIndexMatchesSource
  <1>1. TypeOK /\ RowsInv => CurrentIndexMatchesSource
    <2> SUFFICES ASSUME TypeOK, RowsInv, NEW s \in Scope, Quiet(s), ~aborted[s],
                        LexicalCurrent(s) \/ DeepLexicalCurrent(s)
                 PROVE  rows[s] = source[s].work
      BY DEF CurrentIndexMatchesSource
    <2>1. state[s] # None /\ rows[s] = state[s].probe
      BY DEF RowsInv, LexicalCurrent, DeepLexicalCurrent
    <2>2. CASE LexicalCurrent(s)
      BY <2>1, <2>2 DEF RowsInv, LexicalCurrent, Dirty
    <2>3. CASE DeepLexicalCurrent(s)
      BY <2>1, <2>3 DEF DeepLexicalCurrent
    <2>4. QED
      BY <2>2, <2>3
  <1>2. QED
    BY <1>1, RowsAlways, TypeCorrect, PTL

-----------------------------------------------------------------------------
(* The points of the collection.                                           *)

(* What a step of a call leaves alone: the other scopes; the stores when it *)
(* is not at work; the collection when it has not the lock of it.          *)
LEMMA StoresStep ==
    ASSUME TypeOK, NEW w \in Worker, Work(w) \/ SyncFails(w) \/ Crash(w)
    PROVE  /\ \A t \in Scope : t # call[w].scope =>
                  /\ rows'[t] = rows[t] /\ synced'[t] = synced[t] /\ state'[t] = state[t]
                  /\ manifest'[t] = manifest[t] /\ aborted'[t] = aborted[t] /\ lost'[t] = lost[t]
           /\ ~HoldsIndexLock(w) => UNCHANGED <<rows, state, manifest, aborted, lost, points>>
           /\ ~HoldsVectorLock(w) => UNCHANGED <<lost, points>>
           /\ ~HoldsVectorLock(w) => UNCHANGED collection \/ VectorLockFree
  <1>0. /\ call[w].scope \in Scope
        /\ rows \in [Scope -> Tree] /\ synced \in [Scope -> Hash \cup {None}]
        /\ state \in [Scope -> State \cup {None}] /\ manifest \in [Scope -> Manifest \cup {None}]
        /\ aborted \in [Scope -> BOOLEAN] /\ lost \in [Scope -> BOOLEAN]
    BY DEF TypeOK, Call
  <1> USE DEF HoldsIndexLock, HoldsVectorLock, stores, remote
  <1>1. CASE EnterLock(w)
    BY <1>0, <1>1 DEF EnterLock
  <1>2. CASE DeleteStaleFiles(w)
    BY <1>0, <1>2 DEF DeleteStaleFiles
  <1>3. CASE \E f \in File : ReuseFile(w, f)
    BY <1>0, <1>3 DEF ReuseFile
  <1>4. CASE \E f \in File : ReplaceFile(w, f)
    BY <1>0, <1>4 DEF ReplaceFile, MustRead
  <1>5. CASE \E f \in File : StaleFile(w, f)
    BY <1>0, <1>5 DEF StaleFile, Abandon, MustRead
  <1>6. CASE SkipVectors(w) \/ WantVectors(w)
    BY <1>0, <1>6 DEF SkipVectors, WantVectors
  <1>7. CASE SyncBegin(w)
    BY <1>0, <1>7 DEF SyncBegin
  <1>8. CASE SyncEnds(w)
    BY <1>0, <1>8 DEF SyncEnds
  <1>9. CASE RecordSynced(w)
    BY <1>0, <1>9 DEF RecordSynced
  <1>10. CASE \E c \in Content : SyncWrite(w, c)
    BY <1>0, <1>10 DEF SyncWrite
  <1>11. CASE StaleSource(w)
    BY <1>0, <1>11 DEF StaleSource, Abandon
  <1>12. CASE WriteState(w)
    BY <1>0, <1>12 DEF WriteState
  <1>13. CASE WriteManifest(w)
    BY <1>0, <1>13 DEF WriteManifest
  <1>14. CASE SyncFails(w)
    BY <1>0, <1>14 DEF SyncFails
  <1>15. CASE Crash(w)
    BY <1>0, <1>15 DEF Crash, Abandon
  <1>16. QED
    BY <1>1, <1>2, <1>3, <1>4, <1>5, <1>6, <1>7, <1>8, <1>9, <1>10, <1>11, <1>12, <1>13,
       <1>14, <1>15 DEF Work

(* The target of a call is that of its rows and its scan.                  *)
LEMMA TargetKept ==
    ASSUME TypeOK, NEW w \in Worker, call'[w].scope = call[w].scope, call'[w].scan = call[w].scan,
           rows'[call[w].scope] = rows[call[w].scope]
    PROVE  Target(w)' = Target(w)
  BY DEF Target, Stamped, Dirty

(* Another call does not disturb a synchronisation.                        *)
LEMMA InventoryOthers ==
    ASSUME TypeOK, LockInv, InventoryInv, NEW w \in Worker, Work(w) \/ SyncFails(w) \/ Crash(w),
           NEW v \in Worker, v # w, HoldsVectorLock(v)'
    PROVE  Inventoried(v)'
  <1>1. HoldsVectorLock(v) /\ HoldsIndexLock(v) /\ call'[v] = call[v] /\ Inventoried(v)
    BY WorkProceeds DEF Proceeds, HoldsVectorLock, HoldsIndexLock, InventoryInv
  <1>2. ~HoldsVectorLock(w) /\ ~VectorLockFree
    BY <1>1 DEF LockInv, VectorLockFree
  <1>3. call[v].scope # call[w].scope \/ ~HoldsIndexLock(w)
    BY <1>1 DEF LockInv
  <1>4. rows'[call[v].scope] = rows[call[v].scope]
    BY <1>3, StoresStep DEF TypeOK, Call
  <1>5. UNCHANGED <<points, collection, lost>>
    BY <1>2, StoresStep
  <1>6. Target(v)' = Target(v)
    BY <1>1, <1>4, TargetKept
  <1>7. QED
    BY <1>1, <1>5, <1>6 DEF Inventoried, Memberships

LEMMA InventoryWork ==
    ASSUME TypeOK, LockInv, InventoryInv, NEW w \in Worker, Work(w) \/ SyncFails(w) \/ Crash(w),
           HoldsVectorLock(w)'
    PROVE  Inventoried(w)'
  <1> DEFINE s == call[w].scope
  <1>0. /\ call \in [Worker -> Call] /\ s \in Scope /\ Proceeds(w)
        /\ points \in Points /\ Target(w) \in Hash /\ Target(w) # None
    BY WorkProceeds, TargetType DEF TypeOK, Call
  <1>1. /\ HoldsIndexLock(w)' /\ call'[w].scope = s /\ call'[w].scan = call[w].scan
    BY <1>0 DEF HoldsVectorLock, HoldsIndexLock, Proceeds
  <1>2. CASE SyncBegin(w)
    <2>1. /\ call'[w].seen = points /\ call'[w].writes = Writes(w)
          /\ UNCHANGED <<rows, points, lost, synced>>
      BY <1>0, <1>2 DEF SyncBegin, HoldsVectorLock, Call, stores
    <2>2. Target(w)' = Target(w)
      BY <1>1, <2>1, TargetKept
    <2>3. ASSUME NEW c \in Content, c \notin Writes(w)
          PROVE  Memberships(s, Target(w), c) \subseteq points[c]
      <3>1. CASE c \in Keys(Target(w))
        BY <2>3, <3>1 DEF Writes
      <3>2. CASE c \notin Keys(Target(w))
        BY <1>0, <3>2 DEF Keys, Memberships
      <3>3. QED
        BY <3>1, <3>2
    <2>4. QED
      BY <1>1, <2>1, <2>2, <2>3 DEF Inventoried, Memberships
  <1>3. ASSUME NEW c \in Content, SyncWrite(w, c) PROVE Inventoried(w)'
    <2>1. /\ call'[w].seen = call[w].seen /\ call'[w].writes = call[w].writes \ {c}
          /\ UNCHANGED <<rows, collection, lost, synced>> /\ points'[c] = Merged(w, c)
          /\ \A d \in Content \ {c} : points'[d] = points[d]
          /\ Inventoried(w) /\ call[w].writes \in SUBSET Content
      BY <1>0, <1>3 DEF SyncWrite, Call, stores, InventoryInv, HoldsVectorLock, Points
    <2>2. Target(w)' = Target(w)
      BY <1>1, <2>1, TargetKept
    <2>3. Memberships(s, Target(w), c) \subseteq points'[c]
      BY <2>1 DEF Merged
    <2>4. QED
      BY <1>1, <2>1, <2>2, <2>3 DEF Inventoried, Memberships
  <1>4. SyncBegin(w) \/ \E c \in Content : SyncWrite(w, c)
    <2>1. ~(\E f \in File : StaleFile(w, f)) /\ ~StaleSource(w) /\ ~WriteManifest(w) /\ ~Crash(w)
      BY <1>1, AbandonProceeds DEF StaleFile, StaleSource, WriteManifest, Crash, Abandon
    <2>2. call'[w].phase = "sync"
      BY DEF HoldsVectorLock
    <2>3. ~EnterLock(w)
      BY <1>0, <2>2 DEF EnterLock, Call
    <2>4. ~DeleteStaleFiles(w) /\ ~SkipVectors(w) /\ ~WantVectors(w)
      BY <1>0, <2>2 DEF DeleteStaleFiles, SkipVectors, WantVectors, Call
    <2>5. ASSUME NEW f \in File PROVE ~ReuseFile(w, f) /\ ~ReplaceFile(w, f)
      <3>1. CASE ReuseFile(w, f)
        BY <1>0, <2>2, <3>1 DEF ReuseFile, Call
      <3>2. CASE ReplaceFile(w, f)
        BY <1>0, <2>2, <3>2 DEF ReplaceFile, MustRead, Call
      <3>3. QED
        BY <3>1, <3>2
    <2>6. ~SyncEnds(w) /\ ~RecordSynced(w) /\ ~WriteState(w)
      BY <1>0, <2>2 DEF SyncEnds, RecordSynced, WriteState, Call
    <2>7. ~SyncFails(w)
      BY <1>0, <2>2 DEF SyncFails, Call
    <2>8. QED
      BY <2>1, <2>3, <2>4, <2>5, <2>6, <2>7 DEF Work
  <1>5. QED
    BY <1>2, <1>3, <1>4

LEMMA InventoryStep == TypeOK /\ LockInv /\ InventoryInv /\ [Next]_vars => InventoryInv'
  <1> SUFFICES ASSUME TypeOK, LockInv, InventoryInv, [Next]_vars PROVE InventoryInv'
    OBVIOUS
  <1>1. ASSUME NEW w \in Worker, Work(w) \/ SyncFails(w) \/ Crash(w) PROVE InventoryInv'
    BY <1>1, InventoryOthers, InventoryWork DEF InventoryInv
  <1>2. ASSUME NEW w \in Worker, NEW s \in Scope, NEW full \in BOOLEAN, NEW force \in BOOLEAN,
               Begin(w, s, full, force)
        PROVE  InventoryInv'
    <2>1. \A v \in Worker : HoldsVectorLock(v)' => HoldsVectorLock(v) /\ call'[v] = call[v]
      BY <1>2, BeginProceeds DEF Proceeds, HoldsVectorLock, HoldsIndexLock
    <2>2. UNCHANGED <<rows, points, collection, lost>>
      BY <1>2 DEF Begin, stores, remote
    <2>3. \A v \in Worker : HoldsVectorLock(v)' => Target(v)' = Target(v)
      BY <2>1, <2>2, TargetKept
    <2>4. QED
      BY <2>1, <2>2, <2>3 DEF InventoryInv, Inventoried, Memberships
  <1>3. CASE UNCHANGED <<rows, points, collection, lost, call>>
    BY <1>3 DEF InventoryInv, Inventoried, Memberships, HoldsVectorLock, Target
  <1>4. CASE LoseCollection
    BY <1>4 DEF LoseCollection, InventoryInv, Inventoried, HoldsVectorLock, TypeOK, Call
  <1>5. (\E s \in Scope : Edit(s) \/ Checkout(s)) \/ UNCHANGED vars
            => UNCHANGED <<rows, points, collection, lost, call>>
    BY DEF Edit, Checkout, Change, vars, stores, remote
  <1>6. QED
    BY <1>1, <1>2, <1>3, <1>4, <1>5 DEF Next

LEMMA InventoryAlways == Spec => []InventoryInv
  <1>1. Init => InventoryInv
    BY FreeFields DEF Init, InventoryInv, HoldsVectorLock
  <1>2. QED
    BY <1>1, InventoryStep, LocksExclude, TypeCorrect, PTL DEF Spec

\* A membership leaves the points of a content only by a write of a call on its own
\* scope: no synchronisation, whatever inventory it started from, drops or resurrects
\* the memberships that another scope has on a shared point.
THEOREM OthersAreKept == Spec => OthersKept
  <1> DEFINE Keeps == collection' =>
                 \A c \in Content : \A m \in points[c] :
                     \/ m \in points'[c]
                     \/ \E w \in Worker : call[w].scope = m[1] /\ call'[w].writes # call[w].writes
  <1>1. ASSUME TypeOK, LockInv, InventoryInv, [Next]_vars PROVE Keeps
    <2>1. CASE UNCHANGED points
      BY <2>1
    <2>2. ASSUME NEW w \in Worker, NEW d \in Content, SyncWrite(w, d) PROVE Keeps
      <3>0. call \in [Worker -> Call]
        BY <1>1 DEF TypeOK
      <3>1. /\ call[w].phase = "sync" /\ collection /\ d \in call[w].writes
            /\ points' = [points EXCEPT ![d] = Merged(w, d)]
            /\ call'[w].writes = call[w].writes \ {d}
        BY <2>2, <3>0 DEF SyncWrite, Call
      <3>2. points[d] = call[w].seen[d]
        BY <1>1, <3>1 DEF InventoryInv, Inventoried, HoldsVectorLock
      <3>3. ASSUME NEW m \in points[d], m \notin points'[d] PROVE call[w].scope = m[1]
        <4>1. m \in Memberships(call[w].scope, synced[call[w].scope], d)
          BY <1>1, <3>1, <3>2, <3>3 DEF Merged, TypeOK, Points
        <4>2. QED
          BY <4>1 DEF Memberships
      <3>4. \A c \in Content \ {d} : points'[c] = points[c]
        BY <1>1, <3>1 DEF TypeOK, Points
      <3>5. QED
        BY <3>1, <3>3, <3>4
    <2>3. CASE LoseCollection
      BY <2>3 DEF LoseCollection
    <2>4. ASSUME NEW w \in Worker, Work(w) \/ SyncFails(w) \/ Crash(w),
                 ~\E c \in Content : SyncWrite(w, c)
          PROVE  UNCHANGED points
      BY <2>4 DEF Work, EnterLock, DeleteStaleFiles, ReuseFile, ReplaceFile, StaleFile, SkipVectors,
            WantVectors, SyncBegin, SyncEnds, RecordSynced, StaleSource, WriteState, WriteManifest,
            SyncFails, Crash, remote
    <2>5. (\E s \in Scope : Edit(s) \/ Checkout(s)) \/ UNCHANGED vars => UNCHANGED points
      BY DEF Edit, Checkout, Change, vars, remote
    <2>6. ASSUME NEW w \in Worker, NEW s \in Scope, NEW full \in BOOLEAN, NEW force \in BOOLEAN,
                 Begin(w, s, full, force)
          PROVE  UNCHANGED points
      BY <2>6 DEF Begin, remote
    <2>7. QED
      BY <1>1, <2>1, <2>2, <2>3, <2>4, <2>5, <2>6 DEF Next
  <1>2. TypeOK /\ LockInv /\ InventoryInv /\ [Next]_vars => [Keeps]_vars
    BY <1>1
  <1>3. QED
    BY <1>2, TypeCorrect, LocksExclude, InventoryAlways, PTL DEF Spec, OthersKept

-----------------------------------------------------------------------------
(* The memberships of the published snapshot.                              *)

(* What a step of w has to show for VectorsInv: the points keep the members *)
(* of other scopes, and its own scope is in order.                         *)
LEMMA VectorsFrame ==
    ASSUME TypeOK, VectorsInv, NEW w \in Worker, Alone(w), Proceeds(w),
           NEW s \in Scope, s = call[w].scope,
           \A t \in Scope : t # s =>
                  /\ rows'[t] = rows[t] /\ synced'[t] = synced[t] /\ state'[t] = state[t]
                  /\ manifest'[t] = manifest[t] /\ aborted'[t] = aborted[t] /\ lost'[t] = lost[t],
           \A t \in Scope, f \in File, c \in Content :
                  t # s /\ <<t, f>> \in points[c] => <<t, f>> \in points'[c],
           ~HoldsIndexLock(w)' /\ ~aborted'[s] /\ ~lost'[s] /\ Indexed(s)'
               => state'[s].published.rows = rows'[s] /\ Present(s, rows[s])',
           HoldsIndexLock(w)' /\ ~aborted'[s] /\ ~lost'[s] => PresentFor(w)'
    PROVE  VectorsInv'
  <1>0. rows \in [Scope -> Tree]
    BY DEF TypeOK
  <1>1. ASSUME NEW t \in Scope, t # s, NEW tree \in Tree, Present(t, tree)
        PROVE  \A f \in File : tree[f] # Absent => <<t, f>> \in points'[tree[f]]
    BY <1>1 DEF Present, Tree
  <1>2. ASSUME NEW t \in Scope, Quiet(t)', ~aborted'[t], ~lost'[t], Indexed(t)'
        PROVE  state'[t].published.rows = rows'[t] /\ Present(t, rows[t])'
    <2>1. CASE t = s
      BY <1>2, <2>1, OthersNotice
    <2>2. CASE t # s
      <3>1. Quiet(t) /\ ~aborted[t] /\ ~lost[t] /\ Indexed(t)
        BY <1>2, <2>2, OthersNotice DEF Indexed
      <3>2. state[t].published.rows = rows[t] /\ Present(t, rows[t])
        BY <3>1 DEF VectorsInv
      <3>3. \A f \in File : rows[t][f] # Absent => <<t, f>> \in points'[rows[t][f]]
        BY <1>0, <1>1, <2>2, <3>2
      <3>4. rows'[t] = rows[t] /\ state'[t] = state[t]
        BY <2>2
      <3>5. QED
        BY <3>2, <3>3, <3>4 DEF Present
    <2>3. QED
      BY <2>1, <2>2
  <1>3. ASSUME NEW v \in Worker, HoldsIndexLock(v)', ~aborted'[call'[v].scope], ~lost'[call'[v].scope]
        PROVE  PresentFor(v)'
    <2>1. CASE v = w
      BY <1>3, <2>1 DEF Proceeds
    <2>2. CASE v # w
      <3>1. HoldsIndexLock(v) /\ call'[v] = call[v]
        BY <1>3, <2>2, OthersNotice
      <3>t. PICK t \in Scope : t = call[v].scope /\ t = call'[v].scope /\ t # s
        BY <1>3, <2>2, <3>1, OthersNotice
      <3>2. /\ rows'[t] = rows[t] /\ synced'[t] = synced[t] /\ state'[t] = state[t]
            /\ manifest'[t] = manifest[t] /\ ~aborted[t] /\ ~lost[t]
        BY <1>3, <3>t
      <3>3. PresentFor(v)
        BY <3>1, <3>2, <3>t DEF VectorsInv
      <3>4. PriorMatches(v)' <=> PriorMatches(v)
        BY <3>1, <3>2, <3>t DEF PriorMatches, Target, Stamped, Dirty
      <3>5. Indexed(t)' <=> Indexed(t)
        BY <3>2 DEF Indexed
      <3>6. Present(t, rows[t]) => Present(t, rows[t])'
        BY <1>0, <1>1, <3>2, <3>t DEF Present
      <3>7. state[t].published.rows \in Tree /\ Present(t, state[t].published.rows)
            => Present(t, state[t].published.rows)'
        BY SMTT(60), <1>1, <3>2, <3>t DEF Present
      <3>8. QED
        BY <3>1, <3>2, <3>3, <3>4, <3>5, <3>6, <3>7, <3>t DEF PresentFor
    <2>3. QED
      BY <2>1, <2>2
  <1>4. QED
    BY <1>2, <1>3 DEF VectorsInv

LEMMA VectorsIdle ==
    ASSUME TypeOK, VectorsInv, NEW w \in Worker, ~HoldsIndexLock(w), ~HoldsIndexLock(w)', Proceeds(w),
           UNCHANGED <<rows, state, manifest, aborted, lost, points>>
    PROVE  VectorsInv'
  <1>1. \A v \in Worker : HoldsIndexLock(v) <=> HoldsIndexLock(v)'
    BY DEF Proceeds, HoldsIndexLock
  <1>2. ASSUME NEW s \in Scope, Quiet(s)', ~aborted'[s], ~lost'[s], Indexed(s)'
        PROVE  state'[s].published.rows = rows'[s] /\ Present(s, rows[s])'
    <2>1. Quiet(s)
      BY <1>1, <1>2 DEF Quiet, Proceeds, HoldsIndexLock
    <2>2. QED
      BY <1>2, <2>1 DEF VectorsInv, Indexed, Present
  <1>3. ASSUME NEW v \in Worker, HoldsIndexLock(v)', ~aborted'[call'[v].scope], ~lost'[call'[v].scope]
        PROVE  PresentFor(v)'
    <2>1. v # w /\ HoldsIndexLock(v) /\ call'[v] = call[v]
      BY <1>1, <1>3 DEF Proceeds
    <2>2. PresentFor(v)
      BY <1>3, <2>1 DEF VectorsInv
    <2>3. PriorMatches(v)' <=> PriorMatches(v)
      BY <2>1 DEF PriorMatches, Target, Stamped, Dirty
    <2>4. QED
      BY <2>1, <2>2, <2>3 DEF PresentFor, Present, Indexed
  <1>4. QED
    BY <1>2, <1>3 DEF VectorsInv

(* A call that is abandoned, before or after it got to work.               *)
LEMMA VectorsAbandoned ==
    ASSUME TypeOK, LockInv, VectorsInv, NEW w \in Worker,
           (\E f \in File : StaleFile(w, f)) \/ StaleSource(w) \/ Crash(w)
    PROVE  VectorsInv'
  <1>1. /\ call[w].scope \in Scope /\ Proceeds(w) /\ ~HoldsIndexLock(w)'
        /\ UNCHANGED <<rows, synced, state, manifest, lost, points>>
        /\ aborted \in [Scope -> BOOLEAN]
    BY AbandonProceeds DEF TypeOK, Call, StaleFile, StaleSource, Crash, Abandon, stores, remote
  <1>2. CASE HoldsIndexLock(w)
    <2>1. aborted' = [aborted EXCEPT ![call[w].scope] = TRUE]
      BY <1>2 DEF StaleFile, StaleSource, Crash, Abandon
    <2>2. Alone(w)
      BY <1>2, HolderIsAlone
    <2>3. aborted'[call[w].scope] /\ \A t \in Scope : t # call[w].scope => aborted'[t] = aborted[t]
      BY <1>1, <2>1
    <2>4. QED
      BY <1>1, <2>2, <2>3, VectorsFrame
  <1>3. CASE ~HoldsIndexLock(w)
    <2>1. UNCHANGED aborted
      BY <1>3 DEF StaleFile, MustRead, StaleSource, Crash, HoldsIndexLock
    <2>2. QED
      BY <1>1, <1>3, <2>1, VectorsIdle
  <1>4. QED
    BY <1>2, <1>3

LEMMA PriorKept ==
    ASSUME TypeOK, NEW w \in Worker, NEW s \in Scope, s = call[w].scope,
           call'[w].scope = s, call'[w].scan = call[w].scan,
           rows'[s] = rows[s], state'[s] = state[s], manifest'[s] = manifest[s]
    PROVE  PriorMatches(w)' <=> PriorMatches(w)
  BY DEF PriorMatches, Target, Stamped, Dirty

(* A snapshot that matches is on record as indexed, and that of the rows.   *)
LEMMA PriorIsOfRows ==
    ASSUME TypeOK, NEW w \in Worker, PriorMatches(w)
    PROVE  /\ Indexed(call[w].scope) /\ state[call[w].scope].published = Target(w)
           /\ state[call[w].scope].published.rows = rows[call[w].scope]
  BY TargetType DEF PriorMatches, Indexed

LEMMA VectorsFiles ==
    ASSUME TypeOK, LockInv, VectorsInv, NEW w \in Worker,
           \/ EnterLock(w) \/ DeleteStaleFiles(w)
           \/ \E f \in File : ReuseFile(w, f) \/ ReplaceFile(w, f)
    PROVE  VectorsInv'
  <1>0. call \in [Worker -> Call] /\ Proceeds(w) /\ rows \in [Scope -> Tree]
    BY WorkProceeds DEF TypeOK, Work
  <1>s. PICK s \in Scope : s = call[w].scope
    BY DEF TypeOK, Call
  <1> DEFINE Kept == /\ UNCHANGED <<state, manifest, aborted, lost, points>>
                     /\ call'[w].scope = s
                     /\ call'[w].phase \in {"files", "rows"}
  <1>1. Kept
    <2>1. CASE EnterLock(w)
      BY <1>0, <1>s, <2>1 DEF EnterLock, Call, stores, remote
    <2>2. CASE DeleteStaleFiles(w)
      BY <1>0, <1>s, <2>2 DEF DeleteStaleFiles, Call, remote
    <2>3. ASSUME NEW f \in File, ReuseFile(w, f) PROVE Kept
      BY <1>0, <1>s, <2>3 DEF ReuseFile, Call, stores, remote
    <2>4. ASSUME NEW f \in File, ReplaceFile(w, f) PROVE Kept
      BY <1>0, <1>s, <2>4 DEF ReplaceFile, MustRead, Call, remote
    <2>5. QED
      BY <2>1, <2>2, <2>3, <2>4
  <1>2. Alone(w) /\ HoldsIndexLock(w)'
    <2>1. HoldsIndexLock(w) \/ IndexLockFree(call[w].scope)
      BY DEF EnterLock, DeleteStaleFiles, ReuseFile, ReplaceFile, MustRead, HoldsIndexLock
    <2>2. QED
      BY <1>1, <2>1, HolderIsAlone DEF HoldsIndexLock
  <1>3. ASSUME ~aborted[s], ~lost[s], Indexed(s)
        PROVE  state[s].published.rows \in Tree /\ Present(s, state[s].published.rows)
    <2>1. CASE EnterLock(w)
      BY <1>0, <1>s, <1>3, <2>1, FreeIsQuiet DEF EnterLock, VectorsInv
    <2>2. CASE ~EnterLock(w)
      <3>1. HoldsIndexLock(w) /\ call[w].phase = "files"
        BY <2>2 DEF DeleteStaleFiles, ReuseFile, ReplaceFile, MustRead, HoldsIndexLock
      <3>2. PresentFor(w)
        BY <1>s, <1>3, <3>1 DEF VectorsInv
      <3>3. QED
        BY <1>s, <1>3, <3>1, <3>2 DEF PresentFor
    <2>3. QED
      BY <2>1, <2>2
  <1>4. ~aborted[s] /\ ~lost[s] => PresentFor(w)'
    <2>1. Indexed(s)' <=> Indexed(s)
      BY <1>1 DEF Indexed
    <2>2. QED
      BY <1>1, <1>3, <2>1 DEF PresentFor, Present
  <1>5. \A t \in Scope : t # s => rows'[t] = rows[t] /\ synced'[t] = synced[t]
    BY <1>s, StoresStep DEF Work
  <1>6. QED
    BY <1>0, <1>s, <1>1, <1>2, <1>4, <1>5, VectorsFrame

LEMMA VectorsSync ==
    ASSUME TypeOK, LockInv, InventoryInv, VectorsInv, NEW w \in Worker,
           \/ SkipVectors(w) \/ WantVectors(w) \/ SyncBegin(w) \/ SyncEnds(w)
           \/ RecordSynced(w) \/ SyncFails(w)
           \/ \E c \in Content : SyncWrite(w, c)
    PROVE  VectorsInv'
  <1>0. call \in [Worker -> Call] /\ Proceeds(w) /\ rows \in [Scope -> Tree]
    BY WorkProceeds DEF TypeOK, Work
  <1>s. PICK s \in Scope : s = call[w].scope
    BY DEF TypeOK, Call
  <1> DEFINE Kept == /\ UNCHANGED <<rows, state, manifest, aborted>>
                     /\ HoldsIndexLock(w) /\ HoldsIndexLock(w)'
  <1>1. Kept
    <2>1. CASE SkipVectors(w)
      BY <1>0, <2>1 DEF SkipVectors, Call, stores, HoldsIndexLock
    <2>2. CASE WantVectors(w)
      BY <1>0, <2>2 DEF WantVectors, Call, stores, HoldsIndexLock
    <2>3. CASE SyncBegin(w)
      <3>1. CASE call' = [call EXCEPT ![w].phase = "commit", ![w].outcome = "degraded"]
        BY <1>0, <2>3, <3>1 DEF SyncBegin, Call, stores, HoldsIndexLock
      <3>2. CASE call' = [call EXCEPT ![w].phase = "sync", ![w].seen = points, ![w].writes = Writes(w)]
        BY <1>0, <2>3, <3>2 DEF SyncBegin, Call, stores, HoldsIndexLock
      <3>3. QED
        BY <2>3, <3>1, <3>2 DEF SyncBegin
    <2>4. CASE SyncEnds(w)
      BY <1>0, <2>4 DEF SyncEnds, Call, stores, HoldsIndexLock
    <2>5. CASE RecordSynced(w)
      BY <1>0, <2>5 DEF RecordSynced, Call, HoldsIndexLock
    <2>6. CASE SyncFails(w)
      BY <1>0, <2>6 DEF SyncFails, Call, stores, HoldsIndexLock
    <2>7. ASSUME NEW c \in Content, SyncWrite(w, c) PROVE Kept
      BY <1>0, <2>7 DEF SyncWrite, Call, stores, HoldsIndexLock
    <2>8. QED
      BY <2>1, <2>2, <2>3, <2>4, <2>5, <2>6, <2>7
  <1>2. Alone(w) /\ call'[w].scope = s /\ call'[w].scan = call[w].scan
    BY <1>0, <1>s, <1>1, HolderIsAlone DEF Proceeds
  <1>3. /\ PriorMatches(w)' <=> PriorMatches(w)
        /\ Indexed(s)' <=> Indexed(s)
    BY <1>s, <1>1, <1>2, PriorKept DEF Indexed
  <1>4. ~aborted[s] /\ ~lost[s] => PresentFor(w)
    BY <1>s, <1>1 DEF VectorsInv
  <1>5. \A t \in Scope : t # s => synced'[t] = synced[t] /\ lost'[t] = lost[t]
    BY <1>s, StoresStep DEF Work
  <1>6. ASSUME \A t \in Scope, f \in File, c \in Content :
                   t # s /\ <<t, f>> \in points[c] => <<t, f>> \in points'[c],
               ~aborted[s] /\ ~lost'[s] => PresentFor(w)'
        PROVE  VectorsInv'
    BY <1>0, <1>s, <1>1, <1>2, <1>5, <1>6, VectorsFrame
  <1>7. CASE SkipVectors(w)
    <2>1. /\ call[w].phase = "rows" /\ call'[w].phase = "commit" /\ UNCHANGED <<points, lost>>
          /\ call'[w].outcome = (IF PriorMatches(w) THEN "current" ELSE "stale")
      BY <1>0, <1>7 DEF SkipVectors, Call, remote
    <2>2. ~aborted[s] /\ ~lost[s] => PresentFor(w)'
      BY <1>s, <1>1, <1>2, <1>4, <2>1, PriorIsOfRows DEF PresentFor, Present
    <2>3. QED
      BY <1>6, <2>1, <2>2
  <1>8. CASE WantVectors(w)
    <2>1. call[w].phase = "rows" /\ call'[w].phase = "vwait" /\ UNCHANGED <<points, lost>>
      BY <1>0, <1>8 DEF WantVectors, Call, remote
    <2>2. ~aborted[s] /\ ~lost[s] => PresentFor(w)'
      BY <1>s, <1>1, <1>2, <1>3, <1>4, <2>1 DEF PresentFor, Present
    <2>3. QED
      BY <1>6, <2>1, <2>2
  <1>9. CASE SyncBegin(w)
    <2>1. /\ call[w].phase = "vwait" /\ UNCHANGED <<points, lost>>
          /\ \/ call'[w].phase = "commit" /\ call'[w].outcome = "degraded"
             \/ call'[w].phase = "sync"
      <3>1. CASE call' = [call EXCEPT ![w].phase = "commit", ![w].outcome = "degraded"]
        BY <1>0, <1>9, <3>1 DEF SyncBegin, Call
      <3>2. CASE call' = [call EXCEPT ![w].phase = "sync", ![w].seen = points, ![w].writes = Writes(w)]
        BY <1>0, <1>9, <3>2 DEF SyncBegin, Call
      <3>3. QED
        BY <1>9, <3>1, <3>2 DEF SyncBegin
    <2>2. ~aborted[s] /\ ~lost[s] => PresentFor(w)'
      BY <1>s, <1>1, <1>2, <1>3, <1>4, <2>1, PriorIsOfRows DEF PresentFor, Present
    <2>3. QED
      BY <1>6, <2>1, <2>2
  <1>10. ASSUME NEW c \in Content, SyncWrite(w, c) PROVE VectorsInv'
    <2>1. /\ call[w].phase = "sync" /\ call'[w].phase = "sync" /\ UNCHANGED lost
          /\ collection /\ c \in call[w].writes
      BY <1>0, <1>10 DEF SyncWrite, Call
    <2>2. points[c] = call[w].seen[c]
      BY <2>1 DEF InventoryInv, Inventoried, HoldsVectorLock
    <2>3. points' = [points EXCEPT ![c] = Merged(w, c)] /\ points \in Points
      BY <1>10 DEF SyncWrite, TypeOK
    <2>4. points'[c] = Merged(w, c) /\ \A d \in Content : d # c => points'[d] = points[d]
      BY <2>3 DEF Points
    <2>5. ASSUME NEW t \in Scope, NEW f \in File, t # s, <<t, f>> \in points[c]
          PROVE  <<t, f>> \in points'[c]
      BY <1>s, <2>2, <2>4, <2>5 DEF Merged, Memberships
    <2>6. ASSUME NEW f \in File, rows[s][f] = c
          PROVE  <<s, f>> \in points'[c]
      BY <1>s, <2>4, <2>6, TargetType DEF Merged, Memberships
    <2>7. ASSUME Present(s, rows[s]) PROVE Present(s, rows[s])'
      <3>1. ASSUME NEW f \in File, rows[s][f] # Absent
            PROVE  <<s, f>> \in points'[rows[s][f]]
        <4>1. rows[s][f] \in Content /\ <<s, f>> \in points[rows[s][f]]
          BY <1>0, <2>7, <3>1 DEF Present, Tree
        <4>2. QED
          BY <2>4, <2>6, <4>1
      <3>2. QED
        BY <1>1, <3>1 DEF Present
    <2>8. ~aborted[s] /\ ~lost[s] => PresentFor(w)'
      BY <1>s, <1>1, <1>2, <1>3, <1>4, <2>1, <2>7 DEF PresentFor
    <2>9. \A t \in Scope, f \in File, d \in Content :
              t # s /\ <<t, f>> \in points[d] => <<t, f>> \in points'[d]
      BY <2>4, <2>5
    <2>10. QED
      BY <1>6, <2>1, <2>8, <2>9
  <1>11. CASE SyncFails(w)
    <2>1. /\ call[w].phase = "sync" /\ call'[w].phase = "commit" /\ UNCHANGED <<points, lost>>
          /\ call'[w].outcome = (IF PriorMatches(w) THEN "preserved" ELSE "degraded")
      BY <1>0, <1>11 DEF SyncFails, Call, remote
    <2>2. ~aborted[s] /\ ~lost[s] => PresentFor(w)'
      BY <1>s, <1>1, <1>2, <1>3, <1>4, <2>1 DEF PresentFor, Present
    <2>3. QED
      BY <1>6, <2>1, <2>2
  <1>12. CASE SyncEnds(w)
    <2>1. /\ call[w].phase = "sync" /\ call'[w].phase = "record" /\ UNCHANGED points
          /\ call[w].writes = {} /\ lost'[s] = (lost[s] /\ ~collection)
      BY <1>0, <1>s, <1>12 DEF SyncEnds, Call, remote, TypeOK
    <2>2. ASSUME ~lost'[s] PROVE Present(s, rows[s])
      <3>1. \A c \in Content : Memberships(s, Target(w), c) \subseteq points[c]
        BY <1>s, <2>1, <2>2 DEF InventoryInv, Inventoried, HoldsVectorLock
      <3>2. \A f \in File : rows[s][f] # Absent => rows[s][f] \in Content
        BY <1>0 DEF Tree
      <3>3. QED
        BY <1>s, <3>1, <3>2, TargetType DEF Present, Memberships
    <2>3. ~aborted[s] /\ ~lost'[s] => PresentFor(w)'
      BY <1>1, <1>2, <2>1, <2>2 DEF PresentFor, Present
    <2>4. QED
      BY <1>6, <2>1, <2>3
  <1>13. CASE RecordSynced(w)
    <2>1. /\ call[w].phase = "record" /\ call'[w].phase = "commit" /\ UNCHANGED <<points, lost>>
          /\ call'[w].outcome = "indexed"
      BY <1>0, <1>13 DEF RecordSynced, Call, remote
    <2>2. ~aborted[s] /\ ~lost[s] => PresentFor(w)'
      BY <1>s, <1>1, <1>2, <1>4, <2>1 DEF PresentFor, Present
    <2>3. QED
      BY <1>6, <2>1, <2>2
  <1>14. QED
    BY <1>7, <1>8, <1>9, <1>10, <1>11, <1>12, <1>13

LEMMA VectorsCommit ==
    ASSUME TypeOK, LockInv, VectorsInv, NEW w \in Worker, WriteState(w) \/ WriteManifest(w)
    PROVE  VectorsInv'
  <1>0. call \in [Worker -> Call] /\ Proceeds(w) /\ HoldsIndexLock(w) /\ Alone(w)
        /\ UNCHANGED <<rows, synced, aborted, lost, points>>
    BY WorkProceeds, HolderIsAlone
       DEF TypeOK, Work, WriteState, WriteManifest, HoldsIndexLock, remote
  <1>s. PICK s \in Scope : s = call[w].scope
    BY DEF TypeOK, Call
  <1>1. ~aborted[s] /\ ~lost[s] => PresentFor(w)
    BY <1>s, <1>0 DEF VectorsInv
  <1>2. \A t \in Scope : t # s => state'[t] = state[t] /\ manifest'[t] = manifest[t]
    BY <1>s, StoresStep DEF Work
  <1>3. CASE WriteState(w)
    <2>1. /\ call[w].phase = "commit" /\ call'[w].phase = "manifest" /\ call'[w].scope = s
          /\ HoldsIndexLock(w)'
      BY <1>0, <1>s, <1>3 DEF WriteState, Call, HoldsIndexLock
    <2>2. state'[s].published = Published(w) /\ state'[s].vector = VectorState(w)
      BY <1>s, <1>3 DEF WriteState, TypeOK
    <2>3. ASSUME ~aborted[s], ~lost[s], VectorState(w) = "indexed"
          PROVE  Published(w).rows = rows[s] /\ Present(s, rows[s])
      <3>1. call[w].outcome \in {"indexed", "current", "preserved"}
        BY <2>3 DEF VectorState
      <3>2. Present(s, rows[s]) /\ (call[w].outcome = "preserved" => PriorMatches(w))
        BY <1>s, <1>1, <2>1, <2>3, <3>1 DEF PresentFor
      <3>3. Published(w) = Target(w)
        BY <3>1, <3>2 DEF Published, PriorMatches
      <3>4. QED
        BY <1>s, <3>2, <3>3, TargetType
    <2>4. ~aborted[s] /\ ~lost[s] => PresentFor(w)'
      BY <1>0, <2>1, <2>2, <2>3 DEF PresentFor, Present, Indexed
    <2>5. QED
      BY <1>0, <1>s, <1>2, <2>1, <2>4, VectorsFrame
  <1>4. CASE WriteManifest(w)
    <2>1. call[w].phase = "manifest" /\ UNCHANGED state /\ ~HoldsIndexLock(w)'
      BY <1>4, AbandonProceeds DEF WriteManifest
    <2>2. ~aborted[s] /\ ~lost[s] /\ Indexed(s) =>
              state[s].published.rows = rows[s] /\ Present(s, rows[s])
      BY <1>s, <1>1, <2>1 DEF PresentFor
    <2>3. ~aborted[s] /\ ~lost[s] /\ Indexed(s)' =>
              state'[s].published.rows = rows'[s] /\ Present(s, rows[s])'
      BY <1>0, <2>1, <2>2 DEF Present, Indexed
    <2>4. QED
      BY <1>0, <1>s, <1>2, <2>1, <2>3, VectorsFrame
  <1>5. QED
    BY <1>3, <1>4

LEMMA VectorsStep == TypeOK /\ LockInv /\ InventoryInv /\ VectorsInv /\ [Next]_vars => VectorsInv'
  <1> SUFFICES ASSUME TypeOK, LockInv, InventoryInv, VectorsInv, [Next]_vars PROVE VectorsInv'
    OBVIOUS
  <1>1. ASSUME NEW w \in Worker, Work(w) \/ SyncFails(w) \/ Crash(w) PROVE VectorsInv'
    BY <1>1, VectorsFiles, VectorsSync, VectorsCommit, VectorsAbandoned DEF Work
  <1>2. ASSUME NEW w \in Worker, NEW s \in Scope, NEW full \in BOOLEAN, NEW force \in BOOLEAN,
               Begin(w, s, full, force)
        PROVE  VectorsInv'
    BY <1>2, BeginProceeds, VectorsIdle DEF Begin, stores, remote
  <1>3. CASE LoseCollection
    BY <1>3 DEF LoseCollection, VectorsInv, TypeOK, Call
  <1>4. CASE UNCHANGED <<rows, state, manifest, points, call, aborted, lost>>
    <2>1. \A v \in Worker : PriorMatches(v)' <=> PriorMatches(v)
      BY <1>4 DEF PriorMatches, Target, Stamped, Dirty
    <2>2. QED
      BY <1>4, <2>1 DEF VectorsInv, PresentFor, Present, Indexed, Quiet, HoldsIndexLock
  <1>5. (\E s \in Scope : Edit(s) \/ Checkout(s)) \/ UNCHANGED vars
            => UNCHANGED <<rows, state, manifest, points, call, aborted, lost>>
    BY DEF Edit, Checkout, Change, vars, stores, remote
  <1>6. QED
    BY <1>1, <1>2, <1>3, <1>4, <1>5 DEF Next

LEMMA VectorsAlways == Spec => []VectorsInv
  <1>1. Init => VectorsInv
    BY FreeFields DEF Init, VectorsInv, HoldsIndexLock, Indexed
  <1>2. QED
    BY <1>1, VectorsStep, InventoryAlways, LocksExclude, TypeCorrect, PTL DEF Spec

\* A vector snapshot that either verification reports as current is in the collection,
\* whole, unless a call on the scope was abandoned or the collection was lost since:
\* failed synchronisations, preserved snapshots and the calls of other scopes on the
\* shared points take none of its memberships.
THEOREM CurrentVectorsArePresent == Spec => []CurrentVectorsPresent
  <1>1. VectorsInv => CurrentVectorsPresent
    <2> SUFFICES ASSUME VectorsInv, NEW s \in Scope, Quiet(s), ~aborted[s], ~lost[s],
                        VectorCurrent(s) \/ DeepVectorCurrent(s)
                 PROVE  \A f \in File : rows[s][f] # Absent => <<s, f>> \in points[rows[s][f]]
      BY DEF CurrentVectorsPresent
    <2>1. Indexed(s)
      BY DEF VectorCurrent, DeepVectorCurrent, VectorRecorded, LexicalCurrent, DeepLexicalCurrent,
             Indexed
    <2>2. QED
      BY <2>1 DEF VectorsInv, Present
  <1>2. QED
    BY <1>1, VectorsAlways, PTL

-----------------------------------------------------------------------------
(* The published snapshot.                                                 *)

LEMMA OutcomeOthers ==
    ASSUME TypeOK, LockInv, OutcomeInv, NEW w \in Worker, Work(w) \/ SyncFails(w) \/ Crash(w),
           NEW v \in Worker, v # w, call'[v].phase = "commit"
    PROVE  OutcomeOf(v)'
  <1>1. call'[v] = call[v] /\ HoldsIndexLock(v) /\ OutcomeOf(v) /\ call[v].scope \in Scope
    BY WorkProceeds DEF Proceeds, HoldsIndexLock, OutcomeInv, TypeOK, Call
  <1>2. PICK s \in Scope : s = call[v].scope /\ s = call'[v].scope
    BY <1>1
  <1>3. rows'[s] = rows[s] /\ synced'[s] = synced[s] /\ state'[s] = state[s] /\ manifest'[s] = manifest[s]
    <2>1. CASE HoldsIndexLock(w)
      BY <1>1, <1>2, <2>1, StoresStep DEF LockInv
    <2>2. CASE ~HoldsIndexLock(w)
      <3>1. UNCHANGED <<rows, state, manifest>>
        BY <2>2, StoresStep
      <3>2. UNCHANGED synced
        BY <2>2 DEF HoldsIndexLock, Work, EnterLock, DeleteStaleFiles, ReuseFile, ReplaceFile, StaleFile,
           SkipVectors, WantVectors, SyncBegin, SyncEnds, RecordSynced, SyncWrite, StaleSource,
           WriteState, WriteManifest, SyncFails, Crash, stores
      <3>3. QED
        BY <3>1, <3>2
    <2>3. QED
      BY <2>1, <2>2
  <1>4. Target(v)' = Target(v)
    BY <1>1, <1>2, <1>3, TargetKept
  <1>5. PriorMatches(v)' <=> PriorMatches(v)
    BY <1>1, <1>2, <1>3, PriorKept
  <1>6. QED
    BY <1>1, <1>2, <1>3, <1>4, <1>5 DEF OutcomeOf

LEMMA OutcomeWork ==
    ASSUME TypeOK, OutcomeInv, NEW w \in Worker, Work(w) \/ SyncFails(w) \/ Crash(w),
           call'[w].phase = "commit"
    PROVE  OutcomeOf(w)'
  <1>0. call \in [Worker -> Call] /\ Proceeds(w)
    BY WorkProceeds DEF TypeOK
  <1>s. PICK s \in Scope : s = call[w].scope
    BY DEF TypeOK, Call
  <1>1. HoldsIndexLock(w)' /\ call'[w].scope = s /\ call'[w].scan = call[w].scan
    BY <1>0, <1>s DEF Proceeds, HoldsIndexLock
  <1>2. CASE SkipVectors(w)
    <2>1. /\ UNCHANGED <<rows, state, manifest>>
          /\ call'[w].outcome = (IF PriorMatches(w) THEN "current" ELSE "stale")
      BY <1>0, <1>2 DEF SkipVectors, Call, stores
    <2>2. QED
      BY <1>s, <1>1, <2>1, PriorKept DEF OutcomeOf
  <1>3. CASE RecordSynced(w)
    <2>1. /\ UNCHANGED rows /\ synced'[s] = Target(w) /\ call'[w].outcome = "indexed"
      BY <1>0, <1>s, <1>3 DEF RecordSynced, Call, TypeOK
    <2>2. Target(w)' = Target(w)
      BY <1>s, <1>1, <2>1, TargetKept
    <2>3. QED
      BY <1>1, <2>1, <2>2 DEF OutcomeOf
  <1>4. CASE SyncBegin(w)
    <2>1. CASE call' = [call EXCEPT ![w].phase = "commit", ![w].outcome = "degraded"]
      BY <1>0, <2>1 DEF OutcomeOf, Call
    <2>2. CASE call' = [call EXCEPT ![w].phase = "sync", ![w].seen = points, ![w].writes = Writes(w)]
      BY <1>0, <2>2 DEF Call
    <2>3. QED
      BY <1>4, <2>1, <2>2 DEF SyncBegin
  <1>5. CASE SyncFails(w)
    BY <1>0, <1>5 DEF SyncFails, OutcomeOf, Call
  <1>6. SkipVectors(w) \/ RecordSynced(w) \/ SyncBegin(w) \/ SyncFails(w)
    <2>1. ~(\E f \in File : StaleFile(w, f)) /\ ~StaleSource(w) /\ ~WriteManifest(w) /\ ~Crash(w)
      BY <1>1, AbandonProceeds DEF StaleFile, StaleSource, WriteManifest, Crash, Abandon
    <2>2. ~EnterLock(w) /\ ~WriteState(w)
      BY <1>0 DEF EnterLock, WriteState, Call
    <2>3. ~DeleteStaleFiles(w) /\ ~WantVectors(w) /\ ~SyncEnds(w)
      BY <1>0 DEF DeleteStaleFiles, WantVectors, SyncEnds, Call
    <2>4. ASSUME NEW f \in File PROVE ~ReuseFile(w, f) /\ ~ReplaceFile(w, f)
      <3>1. CASE ReuseFile(w, f)
        BY <1>0, <3>1 DEF ReuseFile, Call
      <3>2. CASE ReplaceFile(w, f)
        BY <1>0, <3>2 DEF ReplaceFile, MustRead, Call
      <3>3. QED
        BY <3>1, <3>2
    <2>5. ASSUME NEW c \in Content PROVE ~SyncWrite(w, c)
      BY <1>0 DEF SyncWrite, Call
    <2>6. QED
      BY <2>1, <2>2, <2>3, <2>4, <2>5 DEF Work
  <1>7. QED
    BY <1>2, <1>3, <1>4, <1>5, <1>6

LEMMA OutcomeStep == TypeOK /\ LockInv /\ OutcomeInv /\ [Next]_vars => OutcomeInv'
  <1> SUFFICES ASSUME TypeOK, LockInv, OutcomeInv, [Next]_vars PROVE OutcomeInv'
    OBVIOUS
  <1>1. ASSUME NEW w \in Worker, Work(w) \/ SyncFails(w) \/ Crash(w) PROVE OutcomeInv'
    BY <1>1, OutcomeOthers, OutcomeWork DEF OutcomeInv
  <1>2. ASSUME UNCHANGED stores,
               \A v \in Worker : call'[v].phase = "commit" => call'[v] = call[v]
        PROVE  OutcomeInv'
    BY <1>2 DEF OutcomeInv, OutcomeOf, PriorMatches, Target, Stamped, Dirty, stores
  <1>3. ASSUME NEW w \in Worker, NEW s \in Scope, NEW full \in BOOLEAN, NEW force \in BOOLEAN,
               Begin(w, s, full, force)
        PROVE  OutcomeInv'
    BY <1>2, <1>3, BeginProceeds DEF Proceeds, HoldsIndexLock, Begin
  <1>4. (\E s \in Scope : Edit(s) \/ Checkout(s)) \/ LoseCollection \/ UNCHANGED vars
            => UNCHANGED <<stores, call>>
    BY DEF Edit, Checkout, Change, LoseCollection, vars
  <1>5. QED
    BY <1>1, <1>2, <1>3, <1>4 DEF Next

LEMMA OutcomeAlways == Spec => []OutcomeInv
  <1>1. Init => OutcomeInv
    BY FreeFields DEF Init, OutcomeInv
  <1>2. QED
    BY <1>1, OutcomeStep, LocksExclude, TypeCorrect, PTL DEF Spec

\* The snapshot on record as published changes only to the one that the database has
\* confirmed: a lexical rebuild never publishes a target that was not synchronised.
THEOREM PublishedIsConfirmed == Spec => PublishedWasSynced
  <1> DEFINE Confirmed == \A s \in Scope :
                 /\ state'[s] # state[s] /\ state'[s].published # None
                 /\ state[s] # None => state'[s].published # state[s].published
                 => state'[s].published = synced[s]
  <1>1. ASSUME TypeOK, OutcomeInv, [Next]_vars PROVE Confirmed
    <2>1. CASE UNCHANGED state
      BY <2>1
    <2>2. ASSUME NEW w \in Worker, WriteState(w) PROVE Confirmed
      <3>s. PICK s \in Scope : s = call[w].scope
        BY <1>1 DEF TypeOK, Call
      <3>1. /\ call[w].phase = "commit" /\ state'[s].published = Published(w)
            /\ \A t \in Scope : t # s => state'[t] = state[t]
        BY <1>1, <2>2, <3>s DEF WriteState, TypeOK
      <3>2. OutcomeOf(w)
        BY <1>1, <3>1 DEF OutcomeInv
      <3>3. CASE call[w].outcome = "indexed"
        BY <3>s, <3>1, <3>2, <3>3 DEF OutcomeOf, Published
      <3>4. CASE call[w].outcome = "current"
        BY <3>s, <3>1, <3>2, <3>4 DEF OutcomeOf, Published, PriorMatches
      <3>5. CASE call[w].outcome \notin {"indexed", "current"}
        BY <3>s, <3>1, <3>5 DEF Published
      <3>6. QED
        BY <3>3, <3>4, <3>5
    <2>3. ASSUME NEW w \in Worker, Work(w) \/ SyncFails(w) \/ Crash(w), ~WriteState(w)
          PROVE  UNCHANGED state
      BY <2>3 DEF Work, EnterLock, DeleteStaleFiles, ReuseFile, ReplaceFile, StaleFile, SkipVectors,
            WantVectors, SyncBegin, SyncEnds, RecordSynced, SyncWrite, StaleSource, WriteManifest,
            SyncFails, Crash, stores
    <2>4. (\E s \in Scope : Edit(s) \/ Checkout(s)) \/ LoseCollection \/ UNCHANGED vars
              => UNCHANGED state
      BY DEF Edit, Checkout, Change, LoseCollection, vars, stores
    <2>5. ASSUME NEW w \in Worker, NEW s \in Scope, NEW full \in BOOLEAN, NEW force \in BOOLEAN,
                 Begin(w, s, full, force)
          PROVE  UNCHANGED state
      BY <2>5 DEF Begin, stores
    <2>6. QED
      BY <1>1, <2>1, <2>2, <2>3, <2>4, <2>5 DEF Next
  <1>2. TypeOK /\ OutcomeInv /\ [Next]_vars => [Confirmed]_vars
    BY <1>1
  <1>3. QED
    BY <1>2, TypeCorrect, OutcomeAlways, PTL DEF Spec, PublishedWasSynced

-----------------------------------------------------------------------------
(* CorpusEvidence: revisions that are walks instead of commits, for every   *)
(* set of files and callers and every number of edits and calls.           *)
(*                                                                         *)
(* As long as nothing is put back, a file's content only grows: whatever a *)
(* walk, a row or a token has of a file is at most what the file has now.  *)
(* A walk that finds what was found before has the corpus of the moments   *)
(* in between.                                                             *)
CONSTANTS CorpusFile, CorpusCaller, MaxCorpusEdits, MaxCorpusCalls, NoCorpus

VARIABLES corpus, corpusRows, corpusState, corpusManifest, corpusCall, corpusToken,
          corpusAnswer, corpusRestored, corpusCount

Corpus == INSTANCE CorpusEvidence WITH
    File <- CorpusFile, Caller <- CorpusCaller, MaxEdits <- MaxCorpusEdits,
    MaxCalls <- MaxCorpusCalls, None <- NoCorpus, rows <- corpusRows, state <- corpusState,
    manifest <- corpusManifest, call <- corpusCall, token <- corpusToken,
    answer <- corpusAnswer, restored <- corpusRestored, count <- corpusCount

Row == [rev : Corpus!Revision, file : CorpusFile, hash : Nat]
Token == [file : CorpusFile \union {NoCorpus}, bytes : Nat, rev : Corpus!Revision]   \* None only by its type
Publication == [rev : Corpus!Revision, probe : Corpus!Revision]
Steps == {"free", "walk", "scan", "rows", "final", "manifest", "decide", "look", "bytes"}
CallRecord == [pc : Steps, does : {"none", "index", "search", "window", "verify"},
         force : BOOLEAN, left : SUBSET CorpusFile, seen : Corpus!Revision, branch : Corpus!Revision,
         scan : Corpus!Revision, file : CorpusFile \union {NoCorpus},
         bytes : Nat, token : Token \union {NoCorpus},
         same : BOOLEAN]

CorpusTypeOK ==
    /\ corpus \in Corpus!Revision
    /\ corpusRows \subseteq Row
    /\ corpusState \subseteq Publication
    /\ corpusManifest \in Corpus!Revision \union {NoCorpus}
    /\ corpusCall \in [CorpusCaller -> CallRecord]
    /\ corpusToken \in Token \union {NoCorpus}
    /\ corpusRestored \in BOOLEAN

Older(a, b) == \A f \in CorpusFile : a[f] <= b[f]

\* The store ro has a row of every file in fs for a revision.
Has(ro, rev, fs) == \A f \in fs : \E r \in ro : r.rev = rev /\ r.file = f

\* What a call k has found, with the corpus co and the rows ro as they are now.
Good(k, co, ro) ==
    /\ Older(k.branch, co)
    /\ k.pc \in {"walk", "scan", "final"} => \A f \in CorpusFile \ k.left : k.seen[f] <= co[f]
    /\ k.pc = "scan" => \A f \in CorpusFile \ k.left : k.branch[f] <= k.seen[f]
    /\ k.pc = "rows" => Older(k.branch, k.scan) /\ Has(ro, k.branch, CorpusFile \ k.left)
    /\ k.pc \in {"final", "manifest"} => Has(ro, k.branch, CorpusFile)
    /\ k.does = "verify" =>
         /\ k.pc = "walk"
         /\ k.token \in Token
         /\ Older(k.token.rev, k.scan) /\ Older(k.scan, co)
         /\ k.same => k.token.bytes = k.scan[k.token.file]
         /\ \A f \in CorpusFile \ k.left : k.scan[f] <= k.seen[f]

RowsBetween == \A r \in corpusRows : r.rev[r.file] <= r.hash /\ r.hash <= corpus[r.file]
StateWhole == \A s \in corpusState : Has(corpusRows, s.rev, CorpusFile)
TokenOlder == corpusToken # NoCorpus => Older(corpusToken.rev, corpus)
CallsGood == \A c \in CorpusCaller : Good(corpusCall[c], corpus, corpusRows)
AnswerHolds ==
    /\ corpusAnswer.says = "current" => Corpus!Published(corpusAnswer.rev)
    /\ corpusAnswer.says = "bound" =>
         /\ corpusAnswer.token.rev = corpusAnswer.began
         /\ corpusAnswer.token.bytes = corpusAnswer.began[corpusAnswer.token.file]

Told == RowsBetween /\ StateWhole /\ TokenOlder /\ CallsGood /\ AnswerHolds
CorpusInv == CorpusTypeOK /\ (~corpusRestored => Told)

-----------------------------------------------------------------------------
(* Types.                                                                  *)

LEMMA RestingType == Corpus!Free \in CallRecord /\ Corpus!Nothing \in Corpus!Revision
  BY DEF Corpus!Free, CallRecord, Corpus!Nothing, Corpus!Revision, Steps

\* A step of a call to a new record.
LEMMA GoesType ==
    ASSUME CorpusTypeOK, NEW c \in CorpusCaller, NEW new \in CallRecord, Corpus!Goes(c, new)
    PROVE  /\ corpusCall' \in [CorpusCaller -> CallRecord]
           /\ corpusCall'[c] = new
           /\ \A d \in CorpusCaller \ {c} : corpusCall'[d] = corpusCall[d]
  BY DEF CorpusTypeOK, Corpus!Goes

Sees(k, f, v) == [k EXCEPT !.left = @ \ {f}, !.seen[f] = v]
Identifies(k, pc, fs) == [k EXCEPT !.branch = k.seen, !.pc = pc, !.left = fs]
Turns(k, pc, fs) == [k EXCEPT !.pc = pc, !.left = fs]
Looks(k, b) == [k EXCEPT !.pc = "bytes", !.bytes = b]
Scans(k, pc) == [k EXCEPT !.scan = k.seen, !.left = CorpusFile, !.pc = pc]

LEMMA WalkUpdate ==
    ASSUME NEW k \in CallRecord, NEW f \in CorpusFile, NEW v \in Nat
    PROVE  LET new == Sees(k, f, v)
           IN  /\ new \in CallRecord
               /\ new.pc = k.pc /\ new.does = k.does /\ new.branch = k.branch /\ new.scan = k.scan
               /\ new.token = k.token /\ new.same = k.same
               /\ new.left = k.left \ {f}
               /\ new.seen = [k.seen EXCEPT ![f] = v]
  BY DEF CallRecord, Corpus!Revision, Sees

LEMMA LeftUpdate ==
    ASSUME NEW k \in CallRecord, NEW pc \in Steps, NEW fs \in SUBSET CorpusFile
    PROVE  LET new == Turns(k, pc, fs)
           IN  /\ new \in CallRecord
               /\ new.pc = pc /\ new.does = k.does /\ new.branch = k.branch /\ new.scan = k.scan
               /\ new.left = fs
  BY DEF CallRecord, Turns

LEMMA BranchUpdate ==
    ASSUME NEW k \in CallRecord, NEW pc \in Steps, NEW fs \in SUBSET CorpusFile
    PROVE  LET new == Identifies(k, pc, fs)
           IN  /\ new \in CallRecord
               /\ new.pc = pc /\ new.does = k.does /\ new.branch = k.seen
               /\ new.left = fs
  BY DEF CallRecord, Identifies

LEMMA ScanUpdate ==
    ASSUME NEW k \in CallRecord, NEW pc \in Steps
    PROVE  LET new == Scans(k, pc)
           IN  /\ new \in CallRecord
               /\ new.pc = pc /\ new.does = k.does /\ new.branch = k.branch
               /\ new.scan = k.seen /\ new.left = CorpusFile
  BY DEF CallRecord, Scans

LEMMA BytesUpdate ==
    ASSUME NEW k \in CallRecord, NEW b \in Nat
    PROVE  LET new == Looks(k, b)
           IN  /\ new \in CallRecord
               /\ new.pc = "bytes" /\ new.does = k.does /\ new.branch = k.branch
  BY DEF CallRecord, Steps, Looks

LEMMA PcUpdate ==
    ASSUME NEW k \in CallRecord, NEW pc \in Steps
    PROVE  LET new == [k EXCEPT !.pc = pc]
           IN  /\ new \in CallRecord
               /\ new.pc = pc /\ new.does = k.does /\ new.branch = k.branch /\ new.seen = k.seen
               /\ new.left = k.left
  BY DEF CallRecord

LEMMA PassUpdate ==
    ASSUME NEW k \in CallRecord, NEW f \in CorpusFile
    PROVE  LET new == [k EXCEPT !.left = @ \ {f}]
           IN  /\ new \in CallRecord
               /\ new.pc = k.pc /\ new.does = k.does /\ new.branch = k.branch /\ new.scan = k.scan
               /\ new.left = k.left \ {f}
  BY DEF CallRecord

LEMMA FreeGood == ASSUME NEW co \in Corpus!Revision, NEW ro PROVE Good(Corpus!Free, co, ro)
  BY DEF Good, Corpus!Free, Older, Corpus!Nothing, Corpus!Revision

-----------------------------------------------------------------------------
(* What no step takes away.                                                *)

\* A call goes on knowing what it knows while the corpus grows and no row of the
\* store goes without another in its place.
LEMMA StaysGood ==
    ASSUME NEW k \in CallRecord, NEW co \in Corpus!Revision, NEW now \in Corpus!Revision, NEW ro, NEW rnow,
           Good(k, co, ro), Older(co, now),
           \A rev \in Corpus!Revision, f \in CorpusFile : Has(ro, rev, {f}) => Has(rnow, rev, {f})
    PROVE  Good(k, now, rnow)
  <1>1. /\ k.branch \in Corpus!Revision /\ k.seen \in Corpus!Revision /\ k.scan \in Corpus!Revision
        /\ k.left \subseteq CorpusFile
    BY DEF CallRecord
  <1>2. ASSUME NEW a \in Corpus!Revision, Older(a, co) PROVE Older(a, now)
    <2>1. ASSUME NEW f \in CorpusFile PROVE a[f] <= now[f]
      <3>1. a[f] \in Nat /\ co[f] \in Nat /\ now[f] \in Nat
        BY DEF Corpus!Revision
      <3>2. a[f] <= co[f] /\ co[f] <= now[f]
        BY <1>2 DEF Older
      <3> QED
        BY <3>1, <3>2
    <2> QED
      BY <2>1 DEF Older
  <1>3. \A f \in CorpusFile : k.seen[f] <= co[f] => k.seen[f] <= now[f]
    BY <1>1 DEF Older, Corpus!Revision
  <1>4. ASSUME NEW fs \in SUBSET CorpusFile, Has(ro, k.branch, fs) PROVE Has(rnow, k.branch, fs)
    BY <1>1, <1>4 DEF Has
  <1>5. Older(k.branch, now)
    BY <1>1, <1>2 DEF Good
  <1>6. k.pc \in {"walk", "scan", "final"} => \A f \in CorpusFile \ k.left : k.seen[f] <= now[f]
    BY <1>3 DEF Good
  <1>7. /\ k.pc = "rows" => Has(rnow, k.branch, CorpusFile \ k.left)
        /\ k.pc \in {"final", "manifest"} => Has(rnow, k.branch, CorpusFile)
    BY <1>4 DEF Good
  <1>8. k.does = "verify" => Older(k.scan, now)
    BY <1>1, <1>2 DEF Good
  <1> QED
    BY <1>5, <1>6, <1>7, <1>8 DEF Good

\* A step of one call that leaves corpus, rows and states alone.
LEMMA CallStep ==
    ASSUME CorpusTypeOK, NEW c \in CorpusCaller, NEW new \in CallRecord, Corpus!Goes(c, new),
           UNCHANGED <<corpus, corpusRows, corpusState, corpusManifest, corpusRestored>>,
                       corpusToken' \in Token \union {NoCorpus}
    PROVE  CorpusTypeOK'
  BY GoesType DEF CorpusTypeOK

LEMMA CallTold ==
    ASSUME CorpusTypeOK, Told, NEW c \in CorpusCaller, NEW new \in CallRecord, Corpus!Goes(c, new),
           UNCHANGED <<corpus, corpusRows, corpusState>>, Good(new, corpus, corpusRows),
                       TokenOlder', AnswerHolds'
    PROVE  Told'
  <1>1. RowsBetween' /\ StateWhole'
    BY DEF Told, RowsBetween, StateWhole
  <1>2. ASSUME NEW d \in CorpusCaller PROVE Good(corpusCall'[d], corpus, corpusRows)
    <2>1. CASE d = c
      BY <2>1, GoesType
    <2>2. CASE d # c
      <3>1. corpusCall'[d] = corpusCall[d]
        BY <2>2, GoesType
      <3> QED
        BY <3>1 DEF Told, CallsGood
    <2> QED
      BY <2>1, <2>2
  <1>3. CallsGood'
    BY <1>2 DEF CallsGood
  <1> QED
    BY <1>1, <1>3 DEF Told

\* Most of them leave the token and the answer alone as well.
LEMMA QuietStep ==
    ASSUME CorpusInv, NEW c \in CorpusCaller, NEW new \in CallRecord, Corpus!Goes(c, new),
           UNCHANGED <<corpus, corpusRows, corpusState, corpusManifest, corpusToken,
                       corpusAnswer, corpusRestored>>,
           ~corpusRestored => Good(new, corpus, corpusRows)
    PROVE  CorpusInv'
  <1>1. CorpusTypeOK'
    BY CallStep DEF CorpusInv, CorpusTypeOK
  <1>2. ASSUME ~corpusRestored PROVE Told'
    <2>1. TokenOlder' /\ AnswerHolds'
      BY <1>2 DEF CorpusInv, Told, TokenOlder, AnswerHolds, Corpus!Published, Older
    <2> QED
      BY <1>2, <2>1, CallTold DEF CorpusInv
  <1> QED
    BY <1>1, <1>2 DEF CorpusInv

-----------------------------------------------------------------------------
(* The actions.                                                            *)

LEMMA EditKeeps == ASSUME CorpusInv, NEW f \in CorpusFile, Corpus!Edit(f) PROVE CorpusInv'
  <1>0. corpus \in Corpus!Revision /\ corpus[f] \in Nat /\ corpusRestored \in BOOLEAN
    BY DEF CorpusInv, CorpusTypeOK, Corpus!Revision
  <1>1. corpus' \in Corpus!Revision /\ corpusRestored' \in BOOLEAN
    <2>1. CASE corpus' = [corpus EXCEPT ![f] = @ + 1] /\ corpusRestored' = corpusRestored
      BY <1>0, <2>1 DEF Corpus!Revision
    <2>2. CASE \E v \in 0..(corpus[f] - 1) : corpus' = [corpus EXCEPT ![f] = v] /\ corpusRestored' = TRUE
      BY <1>0, <2>2 DEF Corpus!Revision
    <2> QED
      BY <2>1, <2>2 DEF Corpus!Edit
  <1>2. CorpusTypeOK'
    BY <1>1 DEF Corpus!Edit, CorpusInv, CorpusTypeOK
  <1>3. ASSUME ~corpusRestored' PROVE Told'
    <2>1. ~corpusRestored /\ corpus' = [corpus EXCEPT ![f] = @ + 1]
      BY <1>3, <1>0 DEF Corpus!Edit
    <2>2. Told
      BY <2>1 DEF CorpusInv
    <2>3. ASSUME NEW g \in CorpusFile PROVE corpus[g] \in Nat /\ corpus'[g] \in Nat /\ corpus[g] <= corpus'[g]
      BY <2>1, <1>0 DEF Corpus!Revision
    <2>4. Older(corpus, corpus')
      BY <2>3 DEF Older
    <2>5. UNCHANGED <<corpusRows, corpusState, corpusCall, corpusToken, corpusAnswer>>
      BY DEF Corpus!Edit
    <2>6. RowsBetween'
      <3> SUFFICES ASSUME NEW r \in corpusRows
                   PROVE  r.rev[r.file] <= r.hash /\ r.hash <= corpus'[r.file]
        BY <2>5 DEF RowsBetween
      <3>1. r.file \in CorpusFile /\ r.hash \in Nat
        BY DEF CorpusInv, CorpusTypeOK, Row
      <3>2. r.rev[r.file] <= r.hash /\ r.hash <= corpus[r.file]
        BY <2>2 DEF Told, RowsBetween
      <3> QED
        BY <3>1, <3>2, <2>3
    <2>7. StateWhole' /\ AnswerHolds'
      BY <2>2, <2>5 DEF Told, StateWhole, AnswerHolds, Corpus!Published
    <2>8. TokenOlder'
      <3> SUFFICES ASSUME corpusToken # NoCorpus, NEW g \in CorpusFile PROVE corpusToken.rev[g] <= corpus'[g]
        BY <2>5 DEF TokenOlder, Older
      <3>1. corpusToken.rev[g] \in Nat
        BY DEF CorpusInv, CorpusTypeOK, Token, Corpus!Revision
      <3>2. corpusToken.rev[g] <= corpus[g]
        BY <2>2 DEF Told, TokenOlder, Older
      <3> QED
        BY <3>1, <3>2, <2>3
    <2>9. CallsGood'
      <3> SUFFICES ASSUME NEW c \in CorpusCaller PROVE Good(corpusCall[c], corpus', corpusRows)
        BY <2>5 DEF CallsGood
      <3>1. corpusCall[c] \in CallRecord /\ Good(corpusCall[c], corpus, corpusRows)
        BY <2>2 DEF Told, CallsGood, CorpusInv, CorpusTypeOK
      <3> QED
        BY <3>1, <2>4, <1>0, <1>1, StaysGood
    <2> QED
      BY <2>6, <2>7, <2>8, <2>9 DEF Told
  <1> QED
    BY <1>2, <1>3 DEF CorpusInv

\* The calls begin with nothing found.
LEMMA BeginKeeps ==
    ASSUME CorpusInv, NEW c \in CorpusCaller, NEW new, Corpus!Begin(c, new),
           [new EXCEPT !.left = CorpusFile] \in CallRecord,
           ~corpusRestored => Good([new EXCEPT !.left = CorpusFile], corpus, corpusRows)
    PROVE  CorpusInv'
  BY QuietStep DEF Corpus!Begin

LEMMA IndexCall ==
    ASSUME NEW force \in BOOLEAN
    PROVE  LET new == [[Corpus!Free EXCEPT !.pc = "walk", !.does = "index", !.force = force]
                            EXCEPT !.left = CorpusFile]
           IN  new \in CallRecord /\ new.does = "index" /\ new.pc = "walk" /\ new.left = CorpusFile /\ new.branch = Corpus!Nothing
  BY RestingType DEF Corpus!Free, CallRecord, Steps

LEMMA SearchCall ==
    LET new == [[Corpus!Free EXCEPT !.pc = "walk", !.does = "search"] EXCEPT !.left = CorpusFile]
    IN  new \in CallRecord /\ new.does = "search" /\ new.pc = "walk" /\ new.left = CorpusFile /\ new.branch = Corpus!Nothing
  BY RestingType DEF Corpus!Free, CallRecord, Steps

LEMMA WindowCall ==
    ASSUME NEW f \in CorpusFile
    PROVE  LET new == [[Corpus!Free EXCEPT !.pc = "walk", !.does = "window", !.file = f]
                            EXCEPT !.left = CorpusFile]
           IN  new \in CallRecord /\ new.does = "window" /\ new.pc = "walk" /\ new.left = CorpusFile /\ new.branch = Corpus!Nothing
  BY RestingType DEF Corpus!Free, CallRecord, Steps

LEMMA VerifyCall ==
    ASSUME NEW t \in Token, NEW co \in Corpus!Revision
    PROVE  LET new == [Corpus!Verifying(t, co) EXCEPT !.left = CorpusFile]
           IN  /\ new \in CallRecord /\ new.does = "verify" /\ new.pc = "walk" /\ new.left = CorpusFile
               /\ new.branch = Corpus!Nothing /\ new.token = t /\ new.scan = co
               /\ new.same => co[t.file] = t.bytes
  <1> DEFINE same == co[t.file] = t.bytes
  <1>1. same \in BOOLEAN
    BY Zenon
  <1>2. Corpus!Verifying(t, co) = [Corpus!Free EXCEPT !.pc = "walk", !.does = "verify", !.token = t,
                                        !.same = same, !.scan = co]
    BY DEF Corpus!Verifying
  <1>3. same => co[t.file] = t.bytes
    BY Zenon
  <1> HIDE DEF same
  <1> QED
    BY ZenonT(120), <1>1, <1>2, <1>3, RestingType DEF Corpus!Free, CallRecord, Steps

LEMMA NothingOlder == ASSUME NEW co \in Corpus!Revision PROVE Older(Corpus!Nothing, co)
  BY DEF Older, Corpus!Nothing, Corpus!Revision

\* A call at the start of its walk.
LEMMA StartGood ==
    ASSUME NEW k \in CallRecord, k.pc = "walk", k.left = CorpusFile, k.branch = Corpus!Nothing,
           k.does # "verify", NEW co \in Corpus!Revision, NEW ro
    PROVE  Good(k, co, ro)
  BY NothingOlder DEF Good

LEMMA BeginsKeep ==
    ASSUME CorpusInv, NEW c \in CorpusCaller, Corpus!BeginIndex(c) \/ Corpus!BeginSearch(c) \/ Corpus!BeginWindow(c)
    PROVE  CorpusInv'
  <1>0. corpus \in Corpus!Revision
    BY DEF CorpusInv, CorpusTypeOK
  <1>1. CASE Corpus!BeginIndex(c)
    <2>1. PICK force \in BOOLEAN :
            Corpus!Begin(c, [Corpus!Free EXCEPT !.pc = "walk", !.does = "index", !.force = force])
      BY <1>1 DEF Corpus!BeginIndex
    <2> DEFINE new == [Corpus!Free EXCEPT !.pc = "walk", !.does = "index", !.force = force]
    <2>2. [new EXCEPT !.left = CorpusFile] \in CallRecord /\ Good([new EXCEPT !.left = CorpusFile], corpus, corpusRows)
      BY IndexCall, StartGood, <1>0
    <2> QED
      BY <2>1, <2>2, BeginKeeps
  <1>2. CASE Corpus!BeginSearch(c)
    <2> DEFINE new == [Corpus!Free EXCEPT !.pc = "walk", !.does = "search"]
    <2>1. [new EXCEPT !.left = CorpusFile] \in CallRecord /\ Good([new EXCEPT !.left = CorpusFile], corpus, corpusRows)
      BY SearchCall, StartGood, <1>0
    <2> QED
      BY <1>2, <2>1, BeginKeeps DEF Corpus!BeginSearch
  <1>3. CASE Corpus!BeginWindow(c)
    <2>1. PICK f \in CorpusFile :
            Corpus!Begin(c, [Corpus!Free EXCEPT !.pc = "walk", !.does = "window", !.file = f])
      BY <1>3 DEF Corpus!BeginWindow
    <2> DEFINE new == [Corpus!Free EXCEPT !.pc = "walk", !.does = "window", !.file = f]
    <2>2. [new EXCEPT !.left = CorpusFile] \in CallRecord /\ Good([new EXCEPT !.left = CorpusFile], corpus, corpusRows)
      BY WindowCall, StartGood, <1>0
    <2> QED
      BY <2>1, <2>2, BeginKeeps
  <1> QED
    BY <1>1, <1>2, <1>3

LEMMA BeginVerifyKeeps ==
    ASSUME CorpusInv, NEW c \in CorpusCaller, Corpus!BeginVerify(c)
    PROVE  CorpusInv'
  <1>0. corpus \in Corpus!Revision /\ corpusToken \in Token
    BY DEF CorpusInv, CorpusTypeOK, Corpus!BeginVerify
  <1> DEFINE k == [Corpus!Verifying(corpusToken, corpus) EXCEPT !.left = CorpusFile]
  <1>1. /\ k \in CallRecord /\ k.does = "verify" /\ k.pc = "walk" /\ k.left = CorpusFile
        /\ k.branch = Corpus!Nothing /\ k.token = corpusToken /\ k.scan = corpus
        /\ k.same => corpus[corpusToken.file] = corpusToken.bytes
    BY ZenonT(60), <1>0, VerifyCall
  <1> HIDE DEF k
  <1>2. Older(corpus, corpus) /\ Older(k.branch, corpus)
    BY <1>0, <1>1, NothingOlder DEF Older, Corpus!Revision
  <1>3. k.same => k.token.bytes = k.scan[k.token.file]
    BY <1>1
  <1>4. ASSUME ~corpusRestored PROVE Good(k, corpus, corpusRows)
    <2>1. Older(k.token.rev, k.scan)
      BY <1>4, <1>0, <1>1 DEF CorpusInv, Told, TokenOlder, Corpus!BeginVerify
    <2> QED
      BY <2>1, <1>0, <1>1, <1>2, <1>3 DEF Good
  <1> QED
    BY <1>1, <1>4, BeginKeeps DEF k, Corpus!BeginVerify

LEMMA WalkKeeps ==
    ASSUME CorpusInv, NEW c \in CorpusCaller, NEW f \in CorpusFile, Corpus!WalkFile(c, f)
    PROVE  CorpusInv'
  <1> DEFINE k == corpusCall[c]
             new == Sees(k, f, corpus[f])
  <1>0. /\ corpus \in Corpus!Revision /\ corpus[f] \in Nat
        /\ k \in CallRecord /\ k.seen \in Corpus!Revision /\ k.branch \in Corpus!Revision /\ k.scan \in Corpus!Revision
    BY DEF CorpusInv, CorpusTypeOK, Corpus!Revision, CallRecord
  <1>2. Corpus!Goes(c, new)
    BY DEF Corpus!WalkFile, Sees
  <1>p. k.pc \in {"walk", "scan", "final"}
    BY DEF Corpus!WalkFile, Corpus!Walking
  <1>k. k = corpusCall[c]
    OBVIOUS
  <1> HIDE DEF k
  <1>1. /\ new \in CallRecord
        /\ new.pc = k.pc /\ new.does = k.does /\ new.branch = k.branch /\ new.scan = k.scan
        /\ new.token = k.token /\ new.same = k.same
        /\ new.left = k.left \ {f}
        /\ new.seen = [k.seen EXCEPT ![f] = corpus[f]]
    BY <1>0, WalkUpdate
  <1> HIDE DEF new
  <1>3. ASSUME ~corpusRestored PROVE Good(new, corpus, corpusRows)
    <2>1. Good(k, corpus, corpusRows)
      BY <1>3, <1>k DEF CorpusInv, Told, CallsGood
    <2>2. \A g \in CorpusFile \ new.left :
             \/ g = f /\ new.seen[g] = corpus[g]
             \/ g \in CorpusFile \ k.left /\ new.seen[g] = k.seen[g]
      BY <1>0, <1>1 DEF Corpus!Revision
    <2>3. \A g \in CorpusFile : corpus[g] <= corpus[g]
      BY <1>0 DEF Corpus!Revision
    <2>4. \A g \in CorpusFile \ new.left : new.seen[g] <= corpus[g]
      BY <2>1, <2>2, <2>3, <1>p DEF Good
    <2>5. new.pc = "scan" => \A g \in CorpusFile \ new.left : new.branch[g] <= new.seen[g]
      BY <2>1, <2>2, <1>1 DEF Good, Older
    <2>6. new.does = "verify" =>
             /\ new.pc = "walk"
             /\ new.token \in Token
             /\ Older(new.token.rev, new.scan) /\ Older(new.scan, corpus)
             /\ new.same => new.token.bytes = new.scan[new.token.file]
      BY <2>1, <1>1 DEF Good
    <2>7. new.does = "verify" => \A g \in CorpusFile \ new.left : new.scan[g] <= new.seen[g]
      BY <2>1, <2>2, <1>1 DEF Good, Older
    <2>8. Older(new.branch, corpus) /\ (new.pc = "final" => Has(corpusRows, new.branch, CorpusFile))
      BY <2>1, <1>1 DEF Good
    <2>9. new.pc \notin {"rows", "manifest"}
      BY <1>p, <1>1
    <2> QED
      BY <2>4, <2>5, <2>6, <2>7, <2>8, <2>9 DEF Good
  <1> QED
    BY <1>1, <1>2, <1>3, QuietStep DEF Corpus!WalkFile

LEMMA IdentifiedKeeps ==
    ASSUME CorpusInv, NEW c \in CorpusCaller, Corpus!Identified(c)
    PROVE  CorpusInv'
  <1> DEFINE k == corpusCall[c]
             pc == IF k.does = "index" THEN "scan" ELSE IF k.does = "search" THEN "decide" ELSE "look"
             fs == IF k.does = "index" THEN CorpusFile ELSE {}
             new == Identifies(k, pc, fs)
  <1>0. k \in CallRecord /\ k.seen \in Corpus!Revision
    BY DEF CorpusInv, CorpusTypeOK, CallRecord
  <1>1. /\ k.pc = "walk" /\ k.left = {} /\ k.does # "verify"
        /\ Corpus!Goes(c, new)
        /\ UNCHANGED <<corpus, corpusRows, corpusState, corpusManifest, corpusToken,
                       corpusAnswer, corpusRestored>>
    BY DEF Corpus!Identified, Corpus!Walked, Identifies
  <1>2. pc \in {"scan", "decide", "look"} /\ fs \in SUBSET CorpusFile /\ (pc = "scan" => fs = CorpusFile)
    BY Zenon
  <1>k. k = corpusCall[c]
    OBVIOUS
  <1> HIDE DEF pc, fs, k
  <1>p. pc \in Steps
    BY <1>2 DEF Steps
  <1>3. /\ new \in CallRecord
        /\ new.pc = pc /\ new.does = k.does /\ new.branch = k.seen
        /\ new.left = fs
    BY <1>0, <1>2, <1>p, BranchUpdate
  <1> HIDE DEF new
  <1>4. ASSUME ~corpusRestored PROVE Good(new, corpus, corpusRows)
    <2>1. Good(k, corpus, corpusRows)
      BY <1>4, <1>k DEF CorpusInv, Told, CallsGood
    <2>2. Older(k.seen, corpus)
      BY <2>1, <1>1 DEF Good, Older
    <2> QED
      BY <2>2, <1>1, <1>2, <1>3 DEF Good
  <1> QED
    BY <1>1, <1>3, <1>4, QuietStep

LEMMA EnterLockKeeps ==
    ASSUME CorpusInv, NEW c \in CorpusCaller, Corpus!EnterLock(c)
    PROVE  CorpusInv'
  <1> DEFINE k == corpusCall[c]
             fresh == [rev |-> k.branch, probe |-> k.seen] \in corpusState
             pc == IF fresh /\ ~k.force THEN "final" ELSE "rows"
             new == Scans(k, pc)
  <1>0. k \in CallRecord /\ k.seen \in Corpus!Revision /\ k.branch \in Corpus!Revision
    BY DEF CorpusInv, CorpusTypeOK, CallRecord
  <1>1. /\ k.pc = "scan" /\ k.left = {}
        /\ UNCHANGED <<corpus, corpusRows, corpusState, corpusManifest, corpusToken,
                       corpusAnswer, corpusRestored>>
    BY DEF Corpus!EnterLock, Corpus!Walked
  <1>2. Corpus!Goes(c, new)
    BY Zenon DEF Corpus!EnterLock, Scans
  <1>3. pc \in {"final", "rows"} /\ (pc = "final" => fresh)
    BY Zenon
  <1>k. k = corpusCall[c]
    OBVIOUS
  <1> HIDE DEF pc, k
  <1>p. pc \in Steps
    BY <1>3 DEF Steps
  <1>4. /\ new \in CallRecord
        /\ new.pc = pc /\ new.does = k.does /\ new.branch = k.branch
        /\ new.scan = k.seen /\ new.left = CorpusFile
    BY <1>0, <1>p, ScanUpdate
  <1> HIDE DEF new
  <1>5. ASSUME ~corpusRestored PROVE Good(new, corpus, corpusRows)
    <2>1. Good(k, corpus, corpusRows)
      BY <1>5, <1>k DEF CorpusInv, Told, CallsGood
    <2>2. Older(k.branch, corpus) /\ Older(k.branch, k.seen) /\ k.does # "verify"
      BY <2>1, <1>1 DEF Good, Older
    <2>3. pc = "final" => Has(corpusRows, k.branch, CorpusFile)
      <3> SUFFICES ASSUME fresh PROVE Has(corpusRows, k.branch, CorpusFile)
        BY <1>3
      <3> DEFINE s == [rev |-> k.branch, probe |-> k.seen]
      <3>1. s \in corpusState /\ s.rev = k.branch
        OBVIOUS
      <3> HIDE DEF s
      <3> QED
        BY <3>1, <1>5 DEF CorpusInv, Told, StateWhole
    <2>4. Has(corpusRows, k.branch, CorpusFile \ new.left)
      BY <1>4 DEF Has
    <2> QED
      BY <2>2, <2>3, <2>4, <1>3, <1>4 DEF Good
  <1> QED
    BY <1>1, <1>2, <1>4, <1>5, QuietStep

\* A file is done with when it has a row.
LEMMA RowGood ==
    ASSUME NEW k \in CallRecord, NEW new \in CallRecord, NEW f \in CorpusFile, NEW co, NEW ro,
           Good(k, co, ro), k.pc = "rows", Has(ro, k.branch, {f}),
           new.pc = k.pc, new.does = k.does, new.branch = k.branch, new.scan = k.scan,
           new.left = k.left \ {f}
    PROVE  Good(new, co, ro)
  <1>1. Has(ro, new.branch, CorpusFile \ new.left)
    BY ZenonT(60) DEF Good, Has
  <1>2. Older(new.branch, co) /\ Older(new.branch, new.scan) /\ new.does # "verify"
    BY DEF Good
  <1> QED
    BY <1>1, <1>2 DEF Good

LEMMA ReuseRowKeeps ==
    ASSUME CorpusInv, NEW c \in CorpusCaller, NEW f \in CorpusFile, Corpus!ReuseRow(c, f)
    PROVE  CorpusInv'
  <1> DEFINE k == corpusCall[c]
             new == [k EXCEPT !.left = @ \ {f}]
  <1>1. k \in CallRecord /\ k.pc = "rows" /\ Corpus!Goes(c, new) /\ Has(corpusRows, k.branch, {f})
    BY DEF CorpusInv, CorpusTypeOK, Corpus!ReuseRow, Corpus!Passes, Corpus!RowOf, Has
  <1>2. /\ new \in CallRecord
        /\ new.pc = k.pc /\ new.does = k.does /\ new.branch = k.branch /\ new.scan = k.scan
        /\ new.left = k.left \ {f}
    BY <1>1, PassUpdate
  <1>3. ~corpusRestored => Good(k, corpus, corpusRows)
    BY DEF CorpusInv, Told, CallsGood
  <1> HIDE DEF k, new
  <1>4. ~corpusRestored => Good(new, corpus, corpusRows)
    BY <1>1, <1>2, <1>3, RowGood
  <1> QED
    BY <1>1, <1>2, <1>4, QuietStep DEF Corpus!ReuseRow

LEMMA WriteRowKeeps ==
    ASSUME CorpusInv, NEW c \in CorpusCaller, NEW f \in CorpusFile, Corpus!WriteRow(c, f)
    PROVE  CorpusInv'
  <1> DEFINE k == corpusCall[c]
             new == [k EXCEPT !.left = @ \ {f}]
             row == [rev |-> k.branch, file |-> f, hash |-> corpus[f]]
  <1>1. k \in CallRecord /\ k.pc = "rows" /\ corpus[f] = k.scan[f] /\ Corpus!Goes(c, new)
    BY DEF CorpusInv, CorpusTypeOK, Corpus!WriteRow, Corpus!MustRead
  <1>2. /\ corpusRows' = (corpusRows \ Corpus!RowOf(k.branch, f)) \union {row}
        /\ UNCHANGED <<corpus, corpusState, corpusManifest, corpusToken, corpusAnswer, corpusRestored>>
    BY DEF Corpus!WriteRow
  <1>3. /\ k.branch \in Corpus!Revision /\ k.scan \in Corpus!Revision
        /\ corpus \in Corpus!Revision /\ corpus[f] \in Nat
    BY <1>1 DEF CorpusInv, CorpusTypeOK, CallRecord, Corpus!Revision
  <1>4. row \in Row /\ row.rev = k.branch /\ row.file = f /\ row.hash = corpus[f]
    BY <1>3 DEF Row
  <1>k. k = corpusCall[c]
    OBVIOUS
  <1> HIDE DEF row, k
  <1>5. /\ new \in CallRecord
        /\ new.pc = k.pc /\ new.does = k.does /\ new.branch = k.branch /\ new.scan = k.scan
        /\ new.left = k.left \ {f}
    BY <1>1, PassUpdate
  <1> HIDE DEF new
  <1>6. CorpusTypeOK'
    <2>1. corpusRows' \subseteq Row
      BY <1>2, <1>4 DEF CorpusInv, CorpusTypeOK
    <2>2. corpusCall' \in [CorpusCaller -> CallRecord]
      BY <1>1, <1>5, GoesType DEF CorpusInv
    <2> QED
      BY <1>2, <2>1, <2>2 DEF CorpusInv, CorpusTypeOK
  <1>7. ASSUME NEW rev \in Corpus!Revision, NEW g \in CorpusFile, Has(corpusRows, rev, {g})
        PROVE  Has(corpusRows', rev, {g})
    <2>1. CASE rev = k.branch /\ g = f
      BY <2>1, <1>2, <1>4 DEF Has
    <2>2. CASE ~(rev = k.branch /\ g = f)
      BY <2>2, <1>2, <1>7 DEF Has, Corpus!RowOf
    <2> QED
      BY <2>1, <2>2
  <1>8. ASSUME ~corpusRestored PROVE Told'
    <2>1. Told /\ Good(k, corpus, corpusRows)
      BY <1>8, <1>k DEF CorpusInv, Told, CallsGood
    <2>2. RowsBetween'
      <3>1. row.rev[row.file] <= row.hash /\ row.hash <= corpus[row.file]
        <4>1. k.branch[f] <= k.scan[f]
          BY <2>1, <1>1 DEF Good, Older
        <4> QED
          BY <4>1, <1>1, <1>3, <1>4
      <3> QED
        BY <3>1, <2>1, <1>2 DEF Told, RowsBetween
    <2>3. StateWhole'
      <3> SUFFICES ASSUME NEW s \in corpusState, NEW g \in CorpusFile PROVE Has(corpusRows', s.rev, {g})
        BY <1>2 DEF StateWhole, Has
      <3>1. s.rev \in Corpus!Revision
        BY DEF CorpusInv, CorpusTypeOK, Publication
      <3>2. Has(corpusRows, s.rev, {g})
        BY <2>1 DEF Told, StateWhole, Has
      <3> QED
        BY <3>1, <3>2, <1>7
    <2>4. TokenOlder' /\ AnswerHolds'
      BY <2>1, <1>2 DEF Told, TokenOlder, AnswerHolds, Corpus!Published, Older
    <2>5. Older(corpus, corpus)
      BY <1>3 DEF Older, Corpus!Revision
    <2>6. ASSUME NEW d \in CorpusCaller PROVE Good(corpusCall'[d], corpus, corpusRows')
      <3>1. CASE d = c
        <4>1. Good(k, corpus, corpusRows')
          BY <2>1, <2>5, <1>1, <1>3, <1>7, StaysGood
        <4>2. Has(corpusRows', k.branch, {f})
          BY <1>2, <1>4 DEF Has
        <4>3. Good(new, corpus, corpusRows')
          BY <4>1, <4>2, <1>1, <1>5, RowGood
        <4> QED
          BY <3>1, <4>3, <1>1, <1>5, GoesType DEF CorpusInv
      <3>2. CASE d # c
        <4>1. corpusCall'[d] = corpusCall[d] /\ corpusCall[d] \in CallRecord
          BY <3>2, <1>1, <1>5, GoesType DEF CorpusInv, CorpusTypeOK
        <4>2. Good(corpusCall[d], corpus, corpusRows)
          BY <2>1 DEF Told, CallsGood
        <4> QED
          BY <4>1, <4>2, <2>5, <1>3, <1>7, StaysGood
      <3> QED
        BY <3>1, <3>2
    <2>7. CallsGood'
      BY <2>6, <1>2 DEF CallsGood
    <2> QED
      BY <2>2, <2>3, <2>4, <2>7 DEF Told
  <1> QED
    BY <1>2, <1>6, <1>8 DEF CorpusInv

\* A call that ends leaves nothing of itself behind.
LEMMA EndKeeps ==
    ASSUME CorpusInv, NEW c \in CorpusCaller, Corpus!Goes(c, Corpus!Free),
           UNCHANGED <<corpus, corpusRows, corpusState, corpusRestored>>,
           corpusManifest' \in Corpus!Revision \union {NoCorpus}, corpusToken' \in Token \union {NoCorpus},
           ~corpusRestored => TokenOlder' /\ AnswerHolds'
    PROVE  CorpusInv'
  <1>1. Corpus!Free \in CallRecord /\ Good(Corpus!Free, corpus, corpusRows)
    BY RestingType, FreeGood DEF CorpusInv, CorpusTypeOK
  <1>2. corpusCall' \in [CorpusCaller -> CallRecord]
    BY <1>1, GoesType DEF CorpusInv
  <1>3. CorpusTypeOK'
    BY <1>2 DEF CorpusInv, CorpusTypeOK
  <1>4. ~corpusRestored => Told'
    BY <1>1, CallTold DEF CorpusInv
  <1> QED
    BY <1>3, <1>4 DEF CorpusInv

LEMMA StaleRowKeeps ==
    ASSUME CorpusInv, NEW c \in CorpusCaller, NEW f \in CorpusFile, Corpus!StaleRow(c, f)
    PROVE  CorpusInv'
  <1>1. Corpus!Free \in CallRecord /\ Good(Corpus!Free, corpus, corpusRows)
    BY RestingType, FreeGood DEF CorpusInv, CorpusTypeOK
  <1> QED
    BY <1>1, QuietStep DEF Corpus!StaleRow

LEMMA RowsDoneKeeps ==
    ASSUME CorpusInv, NEW c \in CorpusCaller, Corpus!RowsDone(c)
    PROVE  CorpusInv'
  <1> DEFINE k == corpusCall[c]
             new == Turns(k, "final", CorpusFile)
  <1>1. /\ k \in CallRecord /\ k.pc = "rows" /\ k.left = {}
        /\ Corpus!Goes(c, new)
        /\ UNCHANGED <<corpus, corpusRows, corpusState, corpusManifest, corpusToken,
                       corpusAnswer, corpusRestored>>
    BY DEF CorpusInv, CorpusTypeOK, Corpus!RowsDone, Corpus!Walked, Turns
  <1>2. ~corpusRestored => Good(k, corpus, corpusRows)
    BY DEF CorpusInv, Told, CallsGood
  <1> HIDE DEF k
  <1>3. /\ new \in CallRecord
        /\ new.pc = "final" /\ new.does = k.does /\ new.branch = k.branch /\ new.left = CorpusFile
    BY <1>1, LeftUpdate DEF Steps
  <1> HIDE DEF new
  <1>4. ASSUME ~corpusRestored PROVE Good(new, corpus, corpusRows)
    <2>1. /\ Older(k.branch, corpus) /\ Has(corpusRows, k.branch, CorpusFile \ k.left)
          /\ k.does # "verify"
      BY <1>1, <1>2, <1>4 DEF Good
    <2>2. Has(corpusRows, new.branch, CorpusFile) /\ Older(new.branch, corpus)
      BY <2>1, <1>1, <1>3 DEF Has
    <2> QED
      BY <2>1, <2>2, <1>3 DEF Good
  <1> QED
    BY <1>1, <1>3, <1>4, QuietStep

LEMMA WriteStateKeeps ==
    ASSUME CorpusInv, NEW c \in CorpusCaller, Corpus!WriteState(c)
    PROVE  CorpusInv'
  <1>1. CASE corpusCall[c].seen = corpusCall[c].branch
    <2> DEFINE k == corpusCall[c]
               new == [k EXCEPT !.pc = "manifest"]
               s == [rev |-> k.branch, probe |-> k.scan]
    <2>1. /\ k \in CallRecord /\ k.pc = "final" /\ Corpus!Goes(c, new)
          /\ corpusState' = {t \in corpusState : t.rev # k.branch} \union {s}
          /\ UNCHANGED <<corpus, corpusRows, corpusManifest, corpusToken, corpusAnswer, corpusRestored>>
      BY <1>1 DEF CorpusInv, CorpusTypeOK, Corpus!WriteState, Corpus!Walked
    <2>2. ~corpusRestored => Good(k, corpus, corpusRows)
      BY DEF CorpusInv, Told, CallsGood
    <2> HIDE DEF k
    <2>3. s \in Publication /\ s.rev = k.branch
      BY <2>1 DEF Publication, CallRecord
    <2>4. /\ new \in CallRecord
          /\ new.pc = "manifest" /\ new.does = k.does /\ new.branch = k.branch
      BY <2>1, PcUpdate DEF Steps
    <2> HIDE DEF s, new
    <2>5. CorpusTypeOK'
      <3>1. corpusState' \subseteq Publication
        BY <2>1, <2>3 DEF CorpusInv, CorpusTypeOK
      <3>2. corpusCall' \in [CorpusCaller -> CallRecord]
        BY <2>1, <2>4, GoesType DEF CorpusInv
      <3> QED
        BY <2>1, <3>1, <3>2 DEF CorpusInv, CorpusTypeOK
    <2>6. ASSUME ~corpusRestored PROVE Told'
      <3>1. Told /\ Older(k.branch, corpus) /\ Has(corpusRows, k.branch, CorpusFile) /\ k.does # "verify"
        BY <2>1, <2>2, <2>6 DEF CorpusInv, Good
      <3>2. RowsBetween' /\ TokenOlder'
        BY <3>1, <2>1 DEF Told, RowsBetween, TokenOlder, Older
      <3>3. StateWhole'
        BY <3>1, <2>1, <2>3 DEF Told, StateWhole, Has
      <3>4. AnswerHolds'
        <4>1. ASSUME NEW rev, Corpus!Published(rev) PROVE Corpus!Published(rev)'
          BY <4>1, <2>1, <2>3 DEF Corpus!Published
        <4> QED
          BY <4>1, <3>1, <2>1 DEF Told, AnswerHolds, Corpus!Published
      <3>5. Good(new, corpus, corpusRows)
        BY <3>1, <2>4 DEF Good
      <3>6. ASSUME NEW d \in CorpusCaller PROVE Good(corpusCall'[d], corpus, corpusRows)
        <4>1. corpusCall'[c] = new /\ (d # c => corpusCall'[d] = corpusCall[d])
          BY <2>1, <2>4, GoesType DEF CorpusInv
        <4>2. Good(corpusCall[d], corpus, corpusRows)
          BY <3>1 DEF Told, CallsGood
        <4> QED
          BY <4>1, <4>2, <3>5
      <3>7. CallsGood'
        BY <3>6, <2>1 DEF CallsGood
      <3> QED
        BY <3>2, <3>3, <3>4, <3>7 DEF Told
    <2> QED
      BY <2>1, <2>5, <2>6 DEF CorpusInv
  <1>2. CASE corpusCall[c].seen # corpusCall[c].branch
    <2>1. Corpus!Goes(c, Corpus!Free) /\ UNCHANGED <<corpus, corpusRows, corpusState,
                                                     corpusManifest, corpusToken, corpusAnswer, corpusRestored>>
      BY <1>2 DEF Corpus!WriteState
    <2>2. Corpus!Free \in CallRecord /\ Good(Corpus!Free, corpus, corpusRows)
      BY RestingType, FreeGood DEF CorpusInv, CorpusTypeOK
    <2> QED
      BY <2>1, <2>2, QuietStep
  <1> QED
    BY <1>1, <1>2

LEMMA WriteManifestKeeps ==
    ASSUME CorpusInv, NEW c \in CorpusCaller, Corpus!WriteManifest(c)
    PROVE  CorpusInv'
  <1>1. corpusManifest' \in Corpus!Revision
    BY DEF CorpusInv, CorpusTypeOK, CallRecord, Corpus!WriteManifest
  <1>2. Corpus!Goes(c, Corpus!Free) /\ UNCHANGED <<corpus, corpusRows, corpusState, corpusToken,
                                                   corpusAnswer, corpusRestored>>
    BY DEF Corpus!WriteManifest
  <1>3. ~corpusRestored => TokenOlder' /\ AnswerHolds'
    BY <1>2 DEF CorpusInv, Told, TokenOlder, AnswerHolds, Corpus!Published, Older
  <1>4. corpusToken' \in Token \union {NoCorpus}
    BY <1>2 DEF CorpusInv, CorpusTypeOK
  <1> QED
    BY <1>1, <1>2, <1>3, <1>4, EndKeeps

LEMMA CurrentAnswer ==
    ASSUME NEW rev, corpusAnswer' = [says |-> "current", rev |-> rev]
    PROVE  corpusAnswer'.says = "current" /\ corpusAnswer'.rev = rev
  OBVIOUS

LEMMA OtherAnswer ==
    ASSUME NEW w, corpusAnswer' = [says |-> w]
    PROVE  corpusAnswer'.says = w
  OBVIOUS

LEMMA BoundAnswer ==
    ASSUME NEW t, NEW co, corpusAnswer' = [says |-> "bound", token |-> t, began |-> co]
    PROVE  corpusAnswer'.says = "bound" /\ corpusAnswer'.token = t /\ corpusAnswer'.began = co
  OBVIOUS

LEMMA SearchDecideKeeps ==
    ASSUME CorpusInv, NEW c \in CorpusCaller, Corpus!SearchDecide(c)
    PROVE  CorpusInv'
  <1> DEFINE rev == corpusCall[c].branch
  <1>1. Corpus!Goes(c, Corpus!Free) /\ UNCHANGED <<corpus, corpusRows, corpusState,
                                                   corpusManifest, corpusToken, corpusRestored>>
    BY DEF Corpus!SearchDecide
  <1>2. AnswerHolds'
    <2>1. CASE Corpus!Reusable(rev)
      <3>1. corpusAnswer' = [says |-> "current", rev |-> rev]
        BY <2>1 DEF Corpus!SearchDecide
      <3>2. corpusAnswer'.says = "current" /\ corpusAnswer'.rev = rev
        BY <3>1, CurrentAnswer
      <3>3. Corpus!Published(rev)
        BY <2>1 DEF Corpus!Reusable
      <3>4. Corpus!Published(corpusAnswer.rev)'
        BY <3>2, <3>3, <1>1 DEF Corpus!Published
      <3> QED
        BY <3>2, <3>4 DEF AnswerHolds
    <2>2. CASE ~Corpus!Reusable(rev)
      <3>1. corpusAnswer' = [says |-> "stale"]
        BY <2>2 DEF Corpus!SearchDecide
      <3> QED
        BY <3>1, OtherAnswer DEF AnswerHolds
    <2> QED
      BY <2>1, <2>2
  <1>3. ~corpusRestored => TokenOlder'
    BY <1>1 DEF CorpusInv, Told, TokenOlder, Older
  <1>4. corpusToken' \in Token \union {NoCorpus} /\ corpusManifest' \in Corpus!Revision \union {NoCorpus}
    BY <1>1 DEF CorpusInv, CorpusTypeOK
  <1> QED
    BY <1>1, <1>2, <1>3, <1>4, EndKeeps

LEMMA PassiveStatusKeeps ==
    ASSUME CorpusInv, NEW c \in CorpusCaller, Corpus!PassiveStatus(c)
    PROVE  CorpusInv'
  <1>1. UNCHANGED <<corpus, corpusRows, corpusState, corpusManifest, corpusCall, corpusToken,
                    corpusRestored>>
    BY DEF Corpus!PassiveStatus
  <1>2. AnswerHolds'
    <2>1. PICK w \in {"not_indexed", "unverified"} : corpusAnswer' = [says |-> w]
      BY DEF Corpus!PassiveStatus
    <2> QED
      BY <2>1, OtherAnswer DEF AnswerHolds
  <1>3. CorpusTypeOK'
    BY <1>1 DEF CorpusInv, CorpusTypeOK
  <1>4. ~corpusRestored => RowsBetween' /\ StateWhole' /\ TokenOlder'
    BY <1>1 DEF CorpusInv, Told, RowsBetween, StateWhole, TokenOlder, Older
  <1>5. ~corpusRestored => CallsGood'
    BY <1>1 DEF CorpusInv, Told, CallsGood
  <1> QED
    BY <1>1, <1>2, <1>3, <1>4, <1>5 DEF CorpusInv, Told

LEMMA LookRowKeeps ==
    ASSUME CorpusInv, NEW c \in CorpusCaller, Corpus!LookRow(c)
    PROVE  CorpusInv'
  <1>0. /\ corpusCall[c] \in CallRecord /\ corpusCall[c].pc = "look"
        /\ UNCHANGED <<corpus, corpusRows, corpusState, corpusManifest, corpusToken,
                       corpusAnswer, corpusRestored>>
        /\ corpus \in Corpus!Revision
    BY DEF CorpusInv, CorpusTypeOK, Corpus!LookRow
  <1>1. CASE \E r \in Corpus!RowOf(corpusCall[c].branch, corpusCall[c].file) : Corpus!Goes(c, Looks(corpusCall[c], r.hash))
    <2> DEFINE k == corpusCall[c]
    <2>1. PICK r \in Corpus!RowOf(k.branch, k.file) : Corpus!Goes(c, Looks(k, r.hash))
      BY <1>1
    <2>2. r.hash \in Nat
      BY DEF Corpus!RowOf, CorpusInv, CorpusTypeOK, Row
    <2>3. k \in CallRecord /\ k.pc = "look"
      BY <1>0
    <2>4. ~corpusRestored => Good(k, corpus, corpusRows)
      BY DEF CorpusInv, Told, CallsGood
    <2> HIDE DEF k
    <2> DEFINE new == Looks(k, r.hash)
    <2>5. new \in CallRecord /\ new.pc = "bytes" /\ new.does = k.does /\ new.branch = k.branch
      BY <2>2, <2>3, BytesUpdate
    <2> HIDE DEF new
    <2>6. ~corpusRestored => Good(new, corpus, corpusRows)
      BY <2>3, <2>4, <2>5 DEF Good
    <2>7. Corpus!Goes(c, new)
      BY <2>1 DEF new
    <2> QED
      BY <1>0, <2>5, <2>6, <2>7, QuietStep
  <1>2. CASE Corpus!Goes(c, Corpus!Free)
    BY <1>0, <1>2, RestingType, FreeGood, QuietStep
  <1> QED
    BY <1>1, <1>2 DEF Corpus!LookRow, Looks

LEMMA GiveWindowKeeps ==
    ASSUME CorpusInv, NEW c \in CorpusCaller, Corpus!GiveWindow(c)
    PROVE  CorpusInv'
  <1> DEFINE k == corpusCall[c]
             new == Corpus!TokenOf(k)
  <1>1. /\ Corpus!Goes(c, Corpus!Free) /\ UNCHANGED <<corpus, corpusRows, corpusState,
                                                      corpusManifest, corpusAnswer, corpusRestored>>
        /\ corpusToken' = (IF corpus[k.file] = k.bytes THEN new ELSE corpusToken)
    BY DEF Corpus!GiveWindow
  <1>2. corpusManifest' \in Corpus!Revision \union {NoCorpus}
    BY <1>1 DEF CorpusInv, CorpusTypeOK
  <1>3. ~corpusRestored => AnswerHolds'
    BY <1>1 DEF CorpusInv, Told, AnswerHolds, Corpus!Published
  <1>4. corpusToken' \in Token \union {NoCorpus} /\ (~corpusRestored => TokenOlder')
    <2>1. CASE corpusToken' = corpusToken
      BY <1>1, <2>1 DEF CorpusInv, CorpusTypeOK, Told, TokenOlder, Older
    <2>2. CASE corpusToken' = new
      <3>1. k.bytes \in Nat /\ k.branch \in Corpus!Revision /\ k.file \in CorpusFile \union {NoCorpus}
        BY DEF CorpusInv, CorpusTypeOK, CallRecord
      <3>2. new \in Token /\ new.rev = k.branch
        BY <3>1 DEF Token, Corpus!TokenOf
      <3>3. ~corpusRestored => Older(k.branch, corpus)
        BY DEF CorpusInv, Told, CallsGood, Good
      <3> HIDE DEF k, new
      <3> QED
        BY <3>2, <3>3, <2>2, <1>1 DEF TokenOlder, Older
    <2> QED
      BY <1>1, <2>1, <2>2
  <1> QED
    BY <1>1, <1>2, <1>3, <1>4, EndKeeps

\* What the walk of a verification found is, between two equal walks, what was
\* there when it began.
LEMMA Sandwich ==
    ASSUME NEW a \in Corpus!Revision, NEW b \in Corpus!Revision, Older(a, b), Older(b, a)
    PROVE  a = b
  <1>1. ASSUME NEW f \in CorpusFile PROVE a[f] = b[f]
    <2>1. a[f] \in Nat /\ b[f] \in Nat
      BY DEF Corpus!Revision
    <2>2. a[f] <= b[f] /\ b[f] <= a[f]
      BY DEF Older
    <2> QED
      BY <2>1, <2>2
  <1> QED
    BY <1>1 DEF Corpus!Revision

LEMMA VerifyDecideKeeps ==
    ASSUME CorpusInv, NEW c \in CorpusCaller, Corpus!VerifyDecide(c)
    PROVE  CorpusInv'
  <1> DEFINE k == corpusCall[c]
  <1>1. /\ Corpus!Goes(c, Corpus!Free) /\ UNCHANGED <<corpus, corpusRows, corpusState,
                                                      corpusManifest, corpusToken, corpusRestored>>
        /\ k.pc = "walk" /\ k.left = {} /\ k.does = "verify" /\ k \in CallRecord
    BY DEF Corpus!VerifyDecide, Corpus!Walked, CorpusInv, CorpusTypeOK
  <1>2. ASSUME ~corpusRestored PROVE AnswerHolds'
    <2>1. Good(k, corpus, corpusRows)
      BY <1>2 DEF CorpusInv, Told, CallsGood
    <2>2. CASE Corpus!SourceCurrent(k)
      <3>1. corpusAnswer' = [says |-> "bound", token |-> k.token, began |-> k.scan]
        BY <2>2 DEF Corpus!VerifyDecide
      <3>2. corpusAnswer'.says = "bound" /\ corpusAnswer'.token = k.token /\ corpusAnswer'.began = k.scan
        BY <3>1, BoundAnswer
      <3> HIDE DEF k
      <3>3. /\ k.token \in Token /\ k.scan \in Corpus!Revision /\ k.seen = k.token.rev
            /\ Older(k.token.rev, k.scan) /\ \A f \in CorpusFile : k.scan[f] <= k.seen[f]
            /\ k.token.bytes = k.scan[k.token.file]
        BY <1>1, <2>1, <2>2 DEF Good, Corpus!SourceCurrent, CallRecord
      <3>4. k.token.rev = k.scan
        BY <3>3, Sandwich DEF Older, Token
      <3> QED
        BY <3>2, <3>3, <3>4 DEF AnswerHolds
    <2>3. CASE ~Corpus!SourceCurrent(k)
      <3>1. corpusAnswer' = [says |-> "stale"]
        BY <2>3 DEF Corpus!VerifyDecide
      <3> QED
        BY <3>1, OtherAnswer DEF AnswerHolds
    <2> QED
      BY <2>2, <2>3
  <1>3. ~corpusRestored => TokenOlder'
    BY <1>1 DEF CorpusInv, Told, TokenOlder, Older
  <1>4. corpusToken' \in Token \union {NoCorpus} /\ corpusManifest' \in Corpus!Revision \union {NoCorpus}
    BY <1>1 DEF CorpusInv, CorpusTypeOK
  <1> QED
    BY <1>1, <1>2, <1>3, <1>4, EndKeeps

-----------------------------------------------------------------------------
(* The theorems.                                                           *)

LEMMA CorpusInitInv == Corpus!CorpusInit => CorpusInv
  <1> SUFFICES ASSUME Corpus!CorpusInit PROVE CorpusInv
    OBVIOUS
  <1>1. Corpus!Nothing \in Corpus!Revision /\ Corpus!Free \in CallRecord
    BY RestingType
  <1>2. CorpusTypeOK
    BY <1>1 DEF Corpus!CorpusInit, CorpusTypeOK
  <1>3. RowsBetween /\ StateWhole /\ TokenOlder
    BY DEF Corpus!CorpusInit, RowsBetween, StateWhole, TokenOlder
  <1>4. CallsGood
    BY <1>1, FreeGood DEF Corpus!CorpusInit, CallsGood
  <1>5. AnswerHolds
    BY DEF Corpus!CorpusInit, AnswerHolds
  <1> QED
    BY <1>2, <1>3, <1>4, <1>5 DEF CorpusInv, Told

LEMMA CorpusStepInv == CorpusInv /\ [Corpus!CorpusNext]_(Corpus!corpusVars) => CorpusInv'
  <1> SUFFICES ASSUME CorpusInv, [Corpus!CorpusNext]_(Corpus!corpusVars) PROVE CorpusInv'
    OBVIOUS
  <1>1. ASSUME NEW f \in CorpusFile, Corpus!Edit(f) PROVE CorpusInv'
    BY <1>1, EditKeeps
  <1>2. ASSUME NEW c \in CorpusCaller, Corpus!BeginIndex(c) \/ Corpus!BeginSearch(c) \/ Corpus!BeginWindow(c) \/ Corpus!BeginVerify(c)
        PROVE  CorpusInv'
    BY <1>2, BeginsKeep, BeginVerifyKeeps
  <1>3. ASSUME NEW c \in CorpusCaller, NEW f \in CorpusFile,
               Corpus!WalkFile(c, f) \/ Corpus!ReuseRow(c, f) \/ Corpus!WriteRow(c, f) \/ Corpus!StaleRow(c, f)
        PROVE  CorpusInv'
    BY <1>3, WalkKeeps, ReuseRowKeeps, WriteRowKeeps, StaleRowKeeps
  <1>4. ASSUME NEW c \in CorpusCaller,
               Corpus!Identified(c) \/ Corpus!EnterLock(c) \/ Corpus!RowsDone(c) \/ Corpus!WriteState(c) \/ Corpus!WriteManifest(c)
        PROVE  CorpusInv'
    BY <1>4, IdentifiedKeeps, EnterLockKeeps, RowsDoneKeeps, WriteStateKeeps, WriteManifestKeeps
  <1>5. ASSUME NEW c \in CorpusCaller,
               \/ Corpus!SearchDecide(c) \/ Corpus!PassiveStatus(c) \/ Corpus!LookRow(c) \/ Corpus!GiveWindow(c) \/ Corpus!VerifyDecide(c)
        PROVE  CorpusInv'
    BY <1>5, SearchDecideKeeps, PassiveStatusKeeps, LookRowKeeps, GiveWindowKeeps, VerifyDecideKeeps
  <1>6. CASE UNCHANGED Corpus!corpusVars
    <2>0. UNCHANGED <<corpus, corpusRows, corpusState, corpusManifest, corpusCall, corpusToken,
                      corpusAnswer, corpusRestored>>
      BY <1>6 DEF Corpus!corpusVars
    <2>1. CorpusTypeOK'
      BY <2>0 DEF CorpusInv, CorpusTypeOK
    <2>2. ~corpusRestored => RowsBetween' /\ StateWhole' /\ TokenOlder'
      BY <2>0 DEF CorpusInv, Told, RowsBetween, StateWhole, TokenOlder, Older
    <2>3. ~corpusRestored => CallsGood' /\ AnswerHolds'
      BY <2>0 DEF CorpusInv, Told, CallsGood, AnswerHolds, Corpus!Published
    <2> QED
      BY <2>0, <2>1, <2>2, <2>3 DEF CorpusInv, Told
  <1> QED
    BY <1>1, <1>2, <1>3, <1>4, <1>5, <1>6 DEF Corpus!CorpusNext

\* Types hold, and while nothing was put back everything found of the corpus is
\* no newer than the corpus, every row of a revision is no older than what the
\* revision says of its file, and every published revision has all its rows.
THEOREM CorpusInvCorrect == Corpus!CorpusSpec => []CorpusInv
  <1>1. Corpus!CorpusInit => CorpusInv
    BY CorpusInitInv
  <1>2. CorpusInv /\ [Corpus!CorpusNext]_(Corpus!corpusVars) => CorpusInv'
    BY CorpusStepInv
  <1> QED
    BY <1>1, <1>2, PTL DEF Corpus!CorpusSpec

\* What a search, a status or a verification says of a corpus is true
\* (engine.py _search_index_readiness, verify_evidence).
THEOREM CorpusIsAsToldCorrect == Corpus!CorpusSpec => []Corpus!CorpusIsAsTold
  <1>1. ASSUME CorpusInv PROVE Corpus!CorpusIsAsTold
    <2> SUFFICES ASSUME ~corpusRestored
                 PROVE  /\ corpusAnswer.says = "current" =>
                             \A f \in CorpusFile : \E r \in corpusRows :
                                /\ r.rev = corpusAnswer.rev /\ r.file = f
                                /\ corpusAnswer.rev[f] <= r.hash /\ r.hash <= corpus[f]
                        /\ corpusAnswer.says = "bound" =>
                             /\ corpusAnswer.token.rev = corpusAnswer.began
                             /\ corpusAnswer.token.bytes = corpusAnswer.began[corpusAnswer.token.file]
      BY DEF Corpus!CorpusIsAsTold
    <2>1. Told
      BY <1>1 DEF CorpusInv
    <2>2. ASSUME corpusAnswer.says = "current", NEW f \in CorpusFile
          PROVE  \E r \in corpusRows : /\ r.rev = corpusAnswer.rev /\ r.file = f
                                 /\ corpusAnswer.rev[f] <= r.hash /\ r.hash <= corpus[f]
      <3>1. PICK s \in corpusState : s.rev = corpusAnswer.rev
        BY <2>1, <2>2 DEF Told, AnswerHolds, Corpus!Published
      <3>2. PICK r \in corpusRows : r.rev = s.rev /\ r.file = f
        BY <2>1 DEF Told, StateWhole, Has
      <3>3. r.rev[r.file] <= r.hash /\ r.hash <= corpus[r.file]
        BY <2>1 DEF Told, RowsBetween
      <3> QED
        BY <3>1, <3>2, <3>3
    <2> QED
      BY <2>1, <2>2 DEF Told, AnswerHolds
  <1>2. Corpus!CorpusSpec => []CorpusInv
    BY CorpusInvCorrect
  <1> QED
    BY <1>1, <1>2, PTL
=============================================================================
