----------------------------- MODULE WorkLedger -----------------------------
(***************************************************************************)
(* The mirror of a session's TODO list and of the references it works with *)
(* (work_ledger.py).  The host's TODOs have no reliable identity: each     *)
(* synchronisation reconciles the new list with the one on disk and gives  *)
(* every row the identity of the row it continues, or a new one.           *)
(*                                                                         *)
(* Every operation is one critical section of the ledger's lock.  The text *)
(* of a row, its status, and the identity the host may have given it are   *)
(* model values; the session's attachment is changed by others.            *)
(***************************************************************************)
EXTENDS Naturals, Sequences, FiniteSets, SequencesExt

CONSTANTS
    Row,             \* [content, status, source]: what the host sends
    NoSource,        \* the host has given no identity
    LedgerProject,   \* what the session may be attached to, Nowhere among them
    Nowhere,
    Reference,
    Trigger,         \* what a compaction may be put down to
    MaxTodos,        \* MAX_TODOS
    MaxReferences,   \* MAX_ACTIVE_REFERENCES
    MaxSyncs,        \* bound: synchronisations
    MaxUserTurns     \* bound: user turns

\* What the constants are assumed to be.
LedgerAssumption ==
    /\ Nowhere \in LedgerProject
    /\ {MaxTodos, MaxReferences, MaxSyncs, MaxUserTurns} \subseteq Nat

VARIABLES
    scope,       \* what the session is attached to
    todos,       \* the rows of the ledger, each with its durable id
    nextId,      \* next_todo_sequence
    listed,      \* project_id: the attachment at the last accepted list
    review,      \* todos_need_review
    omitted,     \* todos_omitted
    syncs,       \* todo_generation
    userTurns,   \* user_turn_generation
    references,  \* active_references, oldest first, with the turn they are of
    stale,       \* references_need_review
    trigger,     \* pending_compaction_trigger
    lastTrigger  \* last_compaction_trigger

ledger == <<todos, nextId, listed, review, omitted, syncs, userTurns, references, stale,
            trigger, lastTrigger>>
ledgervars == <<scope, ledger>>

LedgerInit ==
    /\ scope \in LedgerProject
    /\ todos = <<>> /\ nextId = 1 /\ listed = Nowhere
    /\ review = FALSE /\ omitted = 0 /\ syncs = 0
    /\ userTurns = 0 /\ references = <<>> /\ stale = FALSE
    /\ trigger = "" /\ lastTrigger = "unknown"

-----------------------------------------------------------------------------
(* _reconcile_todo_ids.                                                    *)

SameSource(a, b) == b.source # NoSource /\ a.source = b.source
SameRow(a, b) == a.content = b.content /\ a.status = b.status
SameContent(a, b) == a.content = b.content

First(S) == CHOOSE i \in S : \A j \in S : i <= j

\* Mutant: a row of a list of the same length continues the row at its place.
ContinuedByPlace(old, new, used, i) ==
    IF Len(old) = Len(new) /\ i \notin used THEN i ELSE 0

\* The old row that row i of the new list continues, 0 for none: by the host's
\* identity, by all it says, by its text; else, when the lists are of one length, by
\* its place, if as many rows of the one are left as of the other.
Continued(old, new, used, i) ==
    LET free == DOMAIN old \ used
        By(Same(_, _)) == {k \in free : Same(old[k], new[i])}
        places == {k \in {i} : /\ Len(old) = Len(new)
                               /\ k \in free
                               /\ Cardinality(free) = Len(new) - (i - 1)}
    IN  CASE By(SameSource) # {} -> First(By(SameSource))
          [] By(SameSource) = {} /\ By(SameRow) # {} -> First(By(SameRow))
          [] By(SameSource) = {} /\ By(SameRow) = {} /\ By(SameContent) # {} ->
                First(By(SameContent))
          [] By(SameSource) = {} /\ By(SameRow) = {} /\ By(SameContent) = {} ->
                IF places = {} THEN 0 ELSE i

\* The rows in turn: what has been claimed is not claimed again.
Reconciled(old, new) ==
    LET Assign(done, i) ==
            LET k == Continued(old, new, done.used, i)
                id == IF k = 0 THEN done.next ELSE old[k].id
                source == IF k # 0 /\ new[i].source = NoSource THEN old[k].source
                          ELSE new[i].source
            IN  [used |-> IF k = 0 THEN done.used ELSE done.used \union {k},
                 next |-> IF k = 0 THEN done.next + 1 ELSE done.next,
                 rows |-> Append(done.rows, [content |-> new[i].content, status |-> new[i].status,
                                             source |-> source, id |-> id])]
    IN  FoldLeft(Assign, [used |-> {}, next |-> nextId, rows |-> <<>>],
                 [i \in DOMAIN new |-> i])

Text(rows) == [i \in DOMAIN rows |-> <<rows[i].content, rows[i].status>>]

-----------------------------------------------------------------------------
(* Operations.                                                             *)

\* Attaching and detaching, by other components.
Attach ==
    /\ scope' \in LedgerProject \ {scope}
    /\ UNCHANGED ledger

\* A list that says what the ledger has does not settle the review a user turn asks
\* for, and one of another project's rows asks for a review itself.
StillToReview(unchanged, other) == other \/ (unchanged /\ review)

\* sync_todos.
SyncTodos(sent) ==
    LET new == IF Len(sent) > MaxTodos THEN SubSeq(sent, 1, MaxTodos) ELSE sent
        r == Reconciled(todos, new)
        unchanged == Text(todos) = Text(r.rows)
        other == listed \notin {Nowhere, scope} /\ todos # <<>> /\ unchanged
    IN  /\ syncs < MaxSyncs
        /\ syncs' = syncs + 1
        /\ todos' = r.rows
        /\ nextId' = r.next
        /\ listed' = IF other THEN listed ELSE scope
        /\ review' = StillToReview(unchanged, other)
        /\ omitted' = Len(sent) - Len(new)
        /\ UNCHANGED <<scope, userTurns, references, stale, trigger, lastTrigger>>

\* mark_user_turn, for a message it has not seen yet.
UserTurns ==
    /\ userTurns < MaxUserTurns
    /\ userTurns' = userTurns + 1
    /\ review' = (todos # <<>>)
    /\ stale' = (references # <<>>)
    /\ UNCHANGED <<scope, todos, nextId, listed, omitted, syncs, references, trigger, lastTrigger>>

\* touch_reference: the newest last, the oldest forgotten.
TouchReference(ref) ==
    LET others == SelectSeq(references, LAMBDA x : x.ref # ref)
        rows == Append(others, [ref |-> ref, turn |-> userTurns])
        kept == IF Len(rows) > MaxReferences
                THEN SubSeq(rows, Len(rows) - MaxReferences + 1, Len(rows)) ELSE rows
    IN  /\ references' = kept
        /\ stale' = \E i \in DOMAIN kept : kept[i].turn < userTurns
        /\ UNCHANGED <<scope, todos, nextId, listed, review, omitted, syncs, userTurns,
                       trigger, lastTrigger>>

\* mark_compaction_trigger, and mark_compacted, which uses it up.
CompactionTrigger(t) ==
    /\ trigger' = t
    /\ UNCHANGED <<scope, todos, nextId, listed, review, omitted, syncs, userTurns,
                   references, stale, lastTrigger>>

MarkCompacted ==
    /\ lastTrigger' = IF trigger = "" THEN "unknown" ELSE trigger
    /\ trigger' = ""
    /\ UNCHANGED <<scope, todos, nextId, listed, review, omitted, syncs, userTurns,
                   references, stale>>

LedgerNext ==
    \/ Attach
    \/ \E n \in 0 .. MaxTodos + 1 : \E sent \in [1 .. n -> Row] : SyncTodos(sent)
    \/ UserTurns
    \/ \E ref \in Reference : TouchReference(ref)
    \/ \E t \in Trigger : CompactionTrigger(t)
    \/ MarkCompacted

LedgerSpec == LedgerInit /\ [][LedgerNext]_ledgervars

-----------------------------------------------------------------------------
(* Properties.                                                             *)

Alone(rows, c) == Cardinality({i \in DOMAIN rows : rows[i].content = c}) = 1
IdOf(rows, c) == rows[CHOOSE i \in DOMAIN rows : rows[i].content = c].id
Contents(rows) == {rows[i].content : i \in DOMAIN rows}

Recognized ==
    (/\ Contents(todos') = Contents(todos)
     /\ \A c \in Contents(todos) : Alone(todos, c) /\ Alone(todos', c)
     /\ \A i \in DOMAIN todos' : todos'[i].source = NoSource)
    => \A c \in Contents(todos) : IdOf(todos', c) = IdOf(todos, c)

\* Reordering a list, or changing the status of its rows, keeps the identity of each,
\* when the host gives none of its own (_reconcile_todo_ids).
ReorderKeepsIdentity == [][Recognized]_ledgervars

=============================================================================
