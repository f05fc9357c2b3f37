------------------------------ MODULE CallGraph ------------------------------
(***************************************************************************)
(* The static call graph of code_search/store.py: how a call is resolved   *)
(* to a symbol (resolve_call_graph), what a refresh of single files does   *)
(* to the edges (foreign keys with ON DELETE CASCADE), and the two bounded *)
(* walks that read it, graph_path and reachable_graph.  A walk reads the   *)
(* edges of one symbol at a time, each in a transaction of its own, so a   *)
(* refresh may come between any two reads.                                 *)
(*                                                                         *)
(* A qualified name is a sequence of parts.  The exact identities of       *)
(* textual IRs (Smali's "Lcom/foo/Token;->verify()Z") have no dots: one    *)
(* part, marked as exact.                                                  *)
(***************************************************************************)
EXTENDS Naturals, FiniteSets, SequencesExt

CONSTANTS File,
          Versions,             \* the contents a file can have
          SymbolsIn(_, _),      \* the symbols of a file with a content
          CallsIn(_, _),        \* its calls: [caller, line, name, hint, exact]
          ImportsIn(_, _),      \* its imports: [name, hint]
          PathDepth, PathNodes, \* max_depth and max_nodes of graph_path
          FlowDepth, FlowNodes, FlowEdges, \* the limits of reachable_graph
          MaxChanges,           \* bound: files replaced
          MaxWalks,             \* bound: walks
          None

VARIABLES stored,  \* the content whose rows the store has, for each file
          edges,   \* code_edges
          whole,   \* ghost: the edges are those of the stored rows
          walk,    \* the walk at work
          answer,  \* what the last walk returned
          count

vars == <<stored, edges, whole, walk, answer, count>>

Self == {"self", "this"}

Symbols == UNION {SymbolsIn(f, stored[f]) : f \in File}
Calls == UNION {CallsIn(f, stored[f]) : f \in File}

-----------------------------------------------------------------------------
(* resolve_call_graph *)

\* _merge_import_qualification: the longest tail of the one that the other
\* starts with is written once.
MergeQualification(base, suffix) ==
    LET overlaps == {n \in 0..Len(base) : /\ n <= Len(suffix)
                                          /\ IsSuffix(SubSeq(suffix, 1, n), base)}
        longest == CHOOSE n \in overlaps : \A m \in overlaps : m <= n
    IN base \o SubSeq(suffix, longest + 1, Len(suffix))

\* _qualified_candidates for a dotted name.
Qualified(suffix) == IF suffix = <<>> THEN {}
                     ELSE {s \in Symbols : ~s.exact /\ IsSuffix(suffix, s.qualified)}

Dotted(call) == Len(call.hint) > 1

ExactCandidates(call) ==
    {s \in Symbols : call.exact /\ s.exact /\ s.qualified = call.hint}

OwnCandidates(call) ==
    {s \in Symbols : /\ call.caller.owner # None /\ Dotted(call) /\ Head(call.hint) \in Self
                     /\ s.file = call.caller.file /\ s.owner = call.caller.owner
                     /\ s.name = call.name}

FileCandidates(call) ==
    {s \in Symbols : ~Dotted(call) /\ s.file = call.caller.file /\ s.name = call.name}

ImportCandidates(call) ==
    LET root == IF call.hint = <<>> THEN call.name ELSE Head(call.hint)
        bound == {i \in ImportsIn(call.caller.file, stored[call.caller.file]) : i.name = root}
    IN UNION {Qualified(IF Dotted(call) THEN MergeQualification(i.hint, Tail(call.hint))
                        ELSE i.hint) : i \in bound}

NamedCandidates(call) == {s \in Symbols : ~Dotted(call) /\ s.name = call.name}

\* Each rule is asked when the ones before it have not settled the call: the
\* first two and the file by finding anything, the others by finding one.
Candidates(call) ==
    LET precise == ExactCandidates(call) \union OwnCandidates(call)
        near == IF precise = {} THEN FileCandidates(call) ELSE precise
        imported == IF Cardinality(near) # 1 /\ ImportCandidates(call) # {}
                    THEN ImportCandidates(call) ELSE near
    IN IF Cardinality(imported) # 1 /\ ~Dotted(call) THEN NamedCandidates(call) ELSE imported

Resolved(call) ==
    LET found == Candidates(call)
    IN [call |-> call,
        status |-> CASE found = {} -> "unresolved" [] Cardinality(found) = 1 -> "resolved"
                     [] OTHER -> "ambiguous",
        target |-> IF Cardinality(found) = 1 THEN CHOOSE s \in found : TRUE ELSE None]

AllResolved == {Resolved(call) : call \in Calls}

-----------------------------------------------------------------------------
(* The refresh, as far as the graph sees it. *)

GraphInit ==
    /\ stored = [f \in File |-> CHOOSE v \in Versions : \A w \in Versions : v <= w]
    /\ edges = {}
    /\ whole = FALSE
    /\ walk = None /\ answer = None
    /\ count = [changes |-> 0, walks |-> 0]

\* A walk whose reads fall on both sides of a change is not calm; an answer is
\* about the graph before the change.
Disturbed == IF walk = None THEN None ELSE [walk EXCEPT !.calm = FALSE]

\* Mutant: the edges into the file stay.
KeptOutgoing(f) == {e \in edges : e.call.caller.file # f}

\* replace_file and delete_stale_files delete the row of the file, and with it
\* its symbols, its references and every edge from or to one of its symbols.
Kept(f) == {e \in edges : e.call.caller.file # f /\ (e.target # None => e.target.file # f)}

ReplaceFile(f, v) ==
    /\ count.changes < MaxChanges /\ v # stored[f]
    /\ count' = [count EXCEPT !.changes = @ + 1]
    /\ stored' = [stored EXCEPT ![f] = v]
    /\ edges' = Kept(f)
    /\ whole' = FALSE
    /\ walk' = Disturbed /\ answer' = None

\* resolve_call_graph replaces all the edges in one transaction.
ResolveCallGraph ==
    /\ ~whole
    /\ edges' = AllResolved
    /\ whole' = TRUE
    /\ walk' = Disturbed /\ answer' = None
    /\ UNCHANGED <<stored, count>>

-----------------------------------------------------------------------------
(* The walks. *)

EdgesOf(s) == {e \in edges : e.call.caller = s}
InLineOrder(found) == SetToSortSeq(found, LAMBDA d, e : d.call.line < e.call.line)

\* The exact symbol a client names; its definition is looked up before the walk.
BeginPath(s, t) ==
    /\ walk = None /\ count.walks < MaxWalks
    /\ {s, t} \subseteq Symbols
    /\ count' = [count EXCEPT !.walks = @ + 1]
    /\ walk' = [kind |-> "path", source |-> s, target |-> t, calm |-> whole,
                frontier |-> <<[at |-> s, trace |-> <<>>]>>, seen |-> {s}, explored |-> 0]
    /\ answer' = None
    /\ UNCHANGED <<stored, edges, whole>>

Answer(found, trace) ==
    /\ walk' = None
    /\ answer' = [kind |-> "path", source |-> walk.source, target |-> walk.target, calm |-> walk.calm,
                  found |-> found, trace |-> trace, truncated |-> walk.explored >= PathNodes]

\* The targets of the rows that were not visited, each with the trace to it.
Unvisited(rows, trace, seen) ==
    FoldLeft(LAMBDA new, e :
                 IF e.target \in seen \/ \E n \in Range(new) : n.at = e.target THEN new
                 ELSE Append(new, [at |-> e.target, trace |-> Append(trace, e)]),
             <<>>, rows)

PathStep ==
    /\ walk # None /\ walk.kind = "path"
    /\ IF walk.frontier = <<>> \/ walk.explored >= PathNodes THEN Answer(FALSE, <<>>)
       ELSE LET here == Head(walk.frontier)
                rest == Tail(walk.frontier)
                rows == InLineOrder({e \in EdgesOf(here.at) : e.status = "resolved"})
                hits == {i \in DOMAIN rows : rows[i].target = walk.target}
                new == Unvisited(rows, here.trace, walk.seen)
            IN CASE here.at = walk.target -> Answer(TRUE, here.trace)
                 [] here.at # walk.target /\ Len(here.trace) >= PathDepth ->
                      walk' = [walk EXCEPT !.frontier = rest] /\ UNCHANGED answer
                 [] here.at # walk.target /\ Len(here.trace) < PathDepth /\ hits # {} ->
                      Answer(TRUE, Append(here.trace, rows[CHOOSE i \in hits : \A j \in hits : i <= j]))
                 [] OTHER ->
                      /\ walk' = [walk EXCEPT !.frontier = rest \o new, !.explored = @ + 1,
                                              !.seen = @ \union {n.at : n \in Range(new)}]
                      /\ UNCHANGED answer
    /\ UNCHANGED <<stored, edges, whole, count>>

BeginFlow(s) ==
    /\ walk = None /\ count.walks < MaxWalks
    /\ s \in Symbols
    /\ count' = [count EXCEPT !.walks = @ + 1]
    /\ walk' = [kind |-> "flow", source |-> s, calm |-> whole, frontier |-> <<[at |-> s, depth |-> 0]>>,
                seen |-> {}, nodes |-> {}, edges |-> <<>>]
    /\ answer' = None
    /\ UNCHANGED <<stored, edges, whole>>

FlowAnswer(nodes, shown, truncated) ==
    /\ walk' = None
    /\ answer' = [kind |-> "flow", source |-> walk.source, calm |-> walk.calm,
                  nodes |-> nodes, edges |-> shown, truncated |-> truncated]

\* Edges that are not resolved are boundaries: shown, never followed.
Rows(s) == InLineOrder(EdgesOf(s))

\* Mutant: the symbols to visit form a stack.
NextFirst(new, frontier) == new \o frontier

\* The symbols to visit form a queue.
NextLast(new, frontier) == frontier \o new

FlowStep ==
    /\ walk # None /\ walk.kind = "flow"
    /\ IF walk.frontier = <<>> THEN FlowAnswer(walk.nodes, walk.edges, FALSE)
       ELSE LET here == Head(walk.frontier)
                rest == Tail(walk.frontier)
                nodes == walk.nodes \union {n \in {here} : n.at \in Symbols}
                rows == Rows(here.at)
                room == FlowEdges - Len(walk.edges)
                shown == walk.edges \o (IF Len(rows) > room THEN SubSeq(rows, 1, room) ELSE rows)
                seen == walk.seen \union {here.at}
                followed == SelectSeq(rows, LAMBDA e : e.status = "resolved" /\ e.target \notin seen)
                new == [i \in DOMAIN followed |-> [at |-> followed[i].target, depth |-> here.depth + 1]]
            IN CASE here.at \in walk.seen -> walk' = [walk EXCEPT !.frontier = rest] /\ UNCHANGED answer
                 [] here.at \notin walk.seen /\ Cardinality(walk.seen) >= FlowNodes ->
                      FlowAnswer(walk.nodes, walk.edges, TRUE)
                 [] here.at \notin walk.seen /\ Cardinality(walk.seen) < FlowNodes
                    /\ here.depth < FlowDepth /\ Len(rows) > room ->
                      FlowAnswer(nodes, shown, TRUE)
                 [] OTHER ->
                      /\ walk' = [walk EXCEPT !.seen = seen, !.nodes = nodes,
                             !.frontier = IF here.depth < FlowDepth THEN NextLast(new, rest) ELSE rest,
                             !.edges = IF here.depth < FlowDepth THEN shown ELSE @]
                      /\ UNCHANGED answer
    /\ UNCHANGED <<stored, edges, whole, count>>

GraphNext ==
    \/ \E f \in File, v \in Versions : ReplaceFile(f, v)
    \/ ResolveCallGraph
    \/ \E s, t \in Symbols : BeginPath(s, t)
    \/ \E s \in Symbols : BeginFlow(s)
    \/ PathStep \/ FlowStep

GraphSpec == GraphInit /\ [][GraphNext]_vars

-----------------------------------------------------------------------------
(* Properties *)

\* The symbols at most n resolved calls away.
Within(n, s) ==
    LET ball[k \in 0..n] == IF k = 0 THEN {s}
                            ELSE ball[k - 1] \union {e.target : e \in {d \in edges :
                                     d.status = "resolved" /\ d.call.caller \in ball[k - 1]}}
    IN ball[n]

Distance(s, t) == CHOOSE n \in 0..Cardinality(Symbols) :
                      t \in Within(n, s) /\ \A m \in 0..(n - 1) : t \notin Within(m, s)

\* An edge never leads to a symbol whose file was replaced, in whatever order
\* files are replaced and walks read.
EdgesJoinStored ==
    \A e \in edges : e.call \in Calls /\ (e.target # None => e.target \in Symbols)

\* What a walk answers on a graph that keeps still.  graph_path: a shortest chain
\* of resolved calls, and when it says "not_found" without "truncated" there is
\* none of max_depth calls or fewer.  reachable_graph, when it does not say
\* "truncated": every symbol within max_depth calls at its distance, and every
\* edge that leaves one nearer than that, boundaries included.
AnswersAreRight ==
    (answer # None /\ answer.calm /\ whole) =>
        /\ (answer.kind = "path" /\ answer.found) =>
             LET ends == <<answer.source>> \o [i \in DOMAIN answer.trace |-> answer.trace[i].target]
             IN /\ Last(ends) = answer.target
                /\ \A i \in DOMAIN answer.trace : /\ answer.trace[i] \in edges
                                                  /\ answer.trace[i].call.caller = ends[i]
                /\ Len(answer.trace) = Distance(answer.source, answer.target)
        /\ (answer.kind = "path" /\ ~answer.found) =>
             answer.truncated \/ answer.target \notin Within(PathDepth, answer.source)
        /\ (answer.kind = "flow" /\ ~answer.truncated) =>
             /\ answer.nodes = {[at |-> t, depth |-> Distance(answer.source, t)] :
                                   t \in Within(FlowDepth, answer.source)}
             /\ Range(answer.edges) = {e \in edges : /\ FlowDepth > 0
                                          /\ e.call.caller \in Within(FlowDepth - 1, answer.source)}
             /\ IsInjective(answer.edges)

=============================================================================
