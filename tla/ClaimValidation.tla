--------------------------- MODULE ClaimValidation ---------------------------
(***************************************************************************)
(* validate_claim of code_search/engine.py: a claim about the code is      *)
(* answered with a verdict.  The symbols come from the index, one query    *)
(* after the other; every proof then reads the file again and is made on   *)
(* the text that was read.  Files are edited and re-indexed meanwhile.     *)
(*                                                                         *)
(* A text is what the proofs look at: blocks (definitions of functions and *)
(* classes, each with the line it starts at and the block it is in), the   *)
(* names a function binds otherwise, its calls of bare names, its branches *)
(* that may raise or return, and the names that module code rebinds.  The  *)
(* hash of a text is the text.  A symbol's id covers its path, place and   *)
(* body: it is the file and the block.                                     *)
(***************************************************************************)
EXTENDS Naturals, FiniteSets, Sequences

CONSTANTS File,
          Python,       \* the files in Python; the others have no proofs
          Shapes,       \* the texts the files can have at first, a set for each
          Rewrites,     \* the texts an edit can leave
          Claims,       \* [kind, first, second] and what else the kind needs
          MaxLine,      \* no block starts after it
          MaxEdits, MaxRefreshes, MaxCalls, \* bounds
          None

VARIABLES text,    \* the source
          index,   \* the text whose rows the store has, for each file
          call,    \* the validation at work
          answer,  \* what the last one returned
          count

vars == <<text, index, call, answer, count>>

Module == 0
Bound == {"parameter", "imported", "nonlocal", "local"}

-----------------------------------------------------------------------------
(* Python, as the proofs analyse it. *)

FunctionAt(t, name, at) ==
    {b \in t.blocks : b.kind = "function" /\ b.name = name /\ b.at = at}

NestedDef(t, f, name) == {b \in t.blocks : b.in = f.at /\ b.name = name}

\* What symtable says of a name in a function.  Of a name that a function around
\* it binds, and of one that comprehensions bind, it says none of the four.
Binding(t, f, name) ==
    IF f.binds[name] \in Bound THEN f.binds[name]
    ELSE IF NestedDef(t, f, name) # {} THEN "local" ELSE "none"

\* _module_name_is_rebound
Rebound(t, f) ==
    \/ f.name \in t.rebound
    \/ \E b \in t.blocks : b.in = Module /\ b.name = f.name /\ b.at # f.at

\* _direct_calls_in_function: those of its comprehensions too.
CallsIn(f, name) == {c \in f.calls : c.name = name}

\* _validate_python_direct_call, once it has read the text.
DirectCall(t, caller, callee) ==
    \E f \in FunctionAt(t, caller.name, caller.at), g \in FunctionAt(t, callee.name, callee.at) :
        /\ ~f.decorated /\ ~g.decorated
        /\ CallsIn(f, g.name) # {}
        /\ Binding(t, f, g.name) \notin {"parameter", "imported", "nonlocal"}
        /\ Binding(t, f, g.name) = "local" => g.in = f.at
        /\ g.in = f.at \/ (g.in = Module /\ ~Rebound(t, g))

\* _validate_python_condition_claim: the branch is the first thing the function
\* does, so on no other condition, and the outcome the first thing it does.
Behaves(t, row, claim) ==
    \E g \in FunctionAt(t, row.name, row.at) :
        /\ ~g.decorated
        /\ \E b \in g.branches : /\ b.test = claim.test /\ b.first
                                 /\ b.verb = claim.verb /\ b.outcome = claim.outcome

-----------------------------------------------------------------------------
Idle == [pc |-> "idle", claim |-> None, first |-> {}, second |-> {}, path |-> <<>>,
         caller |-> None, proofs |-> <<>>, calm |-> TRUE]

ClaimInit ==
    /\ text \in [File -> UNION {Shapes[f] : f \in File}]
    /\ \A f \in File : text[f] \in Shapes[f]
    /\ index = text
    /\ call = Idle
    /\ answer = None
    /\ count = [edits |-> 0, refreshes |-> 0, calls |-> 0]

\* The definitions of a name, in the index.
Defined(name) ==
    UNION {{[file |-> f, block |-> b, text |-> index[f]] : b \in {c \in index[f].blocks : c.name = name}} :
              f \in File}

Id(row) == [file |-> row.file, block |-> row.block]
Only(rows) == CHOOSE r \in rows : TRUE

\* ensure_current: the index is refreshed unless it is current.
Begin(claim) ==
    /\ call.pc = "idle" /\ count.calls < MaxCalls
    /\ count' = [count EXCEPT !.calls = @ + 1]
    /\ index' = text
    /\ call' = [Idle EXCEPT !.pc = "first", !.claim = claim]
    /\ answer' = None
    /\ UNCHANGED text

Answers(verdict, proofs) ==
    /\ answer' = [claim |-> call.claim, verdict |-> verdict, proofs |-> proofs, calm |-> call.calm]
    /\ call' = Idle

TwoNames(claim) == claim.kind \in {"calls", "reaches"}

LookFirst ==
    /\ call.pc = "first"
    /\ LET rows == Defined(call.claim.first) IN
       IF ~TwoNames(call.claim) /\ Cardinality(rows) # 1 THEN Answers("AMBIGUOUS_SYMBOL", <<>>)
       ELSE /\ call' = [call EXCEPT !.pc = IF TwoNames(call.claim) THEN "second" ELSE "read",
                                    !.first = rows]
            /\ UNCHANGED answer
    /\ UNCHANGED <<text, index, count>>

LookSecond ==
    /\ call.pc = "second"
    /\ LET rows == Defined(call.claim.second) IN
       IF Cardinality(call.first) # 1 \/ Cardinality(rows) # 1
       THEN Answers("AMBIGUOUS_SYMBOL", <<>>)
       ELSE /\ call' = [call EXCEPT !.pc = IF call.claim.kind = "calls" THEN "prove" ELSE "path",
                                    !.second = rows]
            /\ UNCHANGED answer
    /\ UNCHANGED <<text, index, count>>

\* Mutant: the record of the callee may be of another text.
SameBytesCaller(caller, callee, t) == caller.text = t

\* The file as read is the one both records are of.
SameBytes(caller, callee, t) == caller.text = t /\ callee.text = t

\* The proof of one call: the file is read and everything is looked for in it.
Proof(caller, callee) ==
    LET t == text[caller.file] IN
    [text |-> t, caller |-> Id(caller), callee |-> Id(callee),
     verdict |->
        CASE {caller.file, callee.file} \subseteq Python /\ caller.file = callee.file
             /\ SameBytes(caller, callee, t) /\ DirectCall(t, caller.block, callee.block) -> "VERIFIED"
          [] {caller.file, callee.file} \subseteq Python /\ caller.file = callee.file
             /\ ~SameBytes(caller, callee, t) -> "STALE_SOURCE"
          [] OTHER -> "INCONCLUSIVE"]

ProveCall ==
    /\ call.pc = "prove"
    /\ LET p == Proof(Only(call.first), Only(call.second)) IN Answers(p.verdict, <<p>>)
    /\ UNCHANGED <<text, index, count>>

\* What a bare name is taken for when the call graph is built: the one in the
\* file, or the one there is (CallGraph has all of it).
Targets(r, name) ==
    LET near == {s \in Defined(name) : s.file = r.file}
    IN IF Cardinality(near) = 1 THEN near ELSE Defined(name)

Edges ==
    LET rows == UNION {Defined(b.name) : b \in UNION {index[f].blocks : f \in File}}
    IN UNION {{<<Id(r), Id(Only(Targets(r, c.name)))>> :
                  c \in {d \in r.block.calls : Cardinality(Targets(r, d.name)) = 1}} : r \in rows}

\* The chains of one call and of two.
Paths(from, to) ==
    {<<e>> : e \in {d \in Edges : d = <<from, to>>}} \union
    {p \in Edges \X Edges : p[1][1] = from /\ p[1][2] = p[2][1] /\ p[2][2] = to}

\* graph_path finds a shortest chain.
FindPath ==
    /\ call.pc = "path"
    /\ LET paths == Paths(Id(Only(call.first)), Id(Only(call.second))) IN
       IF paths = {} THEN Answers("INCONCLUSIVE", <<>>)
       ELSE \E p \in paths : /\ \A q \in paths : Len(p) <= Len(q)
                             /\ call' = [call EXCEPT !.pc = "edge", !.path = p]
                             /\ UNCHANGED answer
    /\ UNCHANGED <<text, index, count>>

\* symbol_by_id
ById(id) == {r \in Defined(id.block.name) : Id(r) = id}

EdgeCaller ==
    /\ call.pc = "edge"
    /\ call' = [call EXCEPT !.pc = "prove_edge", !.caller = ById(Head(call.path)[1])]
    /\ UNCHANGED <<text, index, answer, count>>

\* Every edge is proved, also after one that could not be.
ProveEdge ==
    /\ call.pc = "prove_edge"
    /\ LET callee == ById(Head(call.path)[2])
           p == IF call.caller = {} \/ callee = {}
                THEN [text |-> None, caller |-> None, callee |-> None, verdict |-> "INCONCLUSIVE"]
                ELSE Proof(Only(call.caller), Only(callee))
           proofs == Append(call.proofs, p)
       IN IF Len(call.path) > 1
          THEN /\ call' = [call EXCEPT !.pc = "edge", !.path = Tail(@), !.caller = None, !.proofs = proofs]
               /\ UNCHANGED answer
          ELSE Answers(IF \A i \in DOMAIN proofs : proofs[i].verdict = "VERIFIED"
                       THEN "VERIFIED" ELSE "INCONCLUSIVE", proofs)
    /\ UNCHANGED <<text, index, count>>

\* "X is defined in PATH" and "X raises OUTCOME when CONDITION".
ProveOne ==
    /\ call.pc = "read"
    /\ LET row == Only(call.first)
           t == text[row.file]
           p == <<[text |-> t, caller |-> Id(row), callee |-> None, verdict |-> "READ"]>>
           claim == call.claim
       IN \/ /\ claim.kind = "behaves" /\ row.file \notin Python
             /\ Answers("INCONCLUSIVE", <<>>)
          \/ /\ claim.kind = "behaves" => row.file \in Python
             /\ row.text # t
             /\ Answers("STALE_SOURCE", <<>>)
          \/ /\ claim.kind = "behaves" /\ row.file \in Python /\ row.text = t
             /\ Answers(IF Behaves(t, row.block, claim) THEN "VERIFIED" ELSE "INCONCLUSIVE", p)
          \/ /\ claim.kind = "defined" /\ row.text = t
             /\ Answers(IF row.file = claim.file THEN "VERIFIED" ELSE "REFUTED", p)
    /\ UNCHANGED <<text, index, count>>

-----------------------------------------------------------------------------
Disturbed == [call EXCEPT !.calm = FALSE]

Edit(f, t) ==
    /\ count.edits < MaxEdits /\ t # text[f]
    /\ count' = [count EXCEPT !.edits = @ + 1]
    /\ text' = [text EXCEPT ![f] = t]
    /\ call' = Disturbed /\ answer' = None
    /\ UNCHANGED index

\* Another process re-indexes a file.
Refresh(f) ==
    /\ count.refreshes < MaxRefreshes /\ index[f] # text[f]
    /\ count' = [count EXCEPT !.refreshes = @ + 1]
    /\ index' = [index EXCEPT ![f] = text[f]]
    /\ call' = Disturbed /\ answer' = None
    /\ UNCHANGED text

ClaimNext ==
    \/ \E claim \in Claims : Begin(claim)
    \/ LookFirst \/ LookSecond \/ ProveCall \/ FindPath \/ EdgeCaller \/ ProveEdge \/ ProveOne
    \/ \E f \in File, t \in Rewrites : Edit(f, t)
    \/ \E f \in File : Refresh(f)

ClaimSpec == ClaimInit /\ [][ClaimNext]_vars

-----------------------------------------------------------------------------
(* What a bare name denotes, by the scoping rules of the language. *)

\* The functions around a block; a class is no scope for the code in it.
Around(t, f) ==
    LET block(at) == CHOOSE b \in t.blocks : b.at = at
        up[at \in 0..MaxLine] == IF at = Module THEN {} ELSE {block(at)} \union up[block(at).in]
    IN {b \in up[f.in] : b.kind = "function"}

Binders(t, f, name) == {g \in {f} \union Around(t, f) : Binding(t, g, name) # "none"}
Nearest(fs) == CHOOSE g \in fs : \A h \in fs : h.at <= g.at

\* The definitions that a call of a function may run; nothing when the name is
\* bound to what no definition says.
Denotes(t, f, c) ==
    LET binders == Binders(t, f, c.name) IN
    IF c.bound THEN {}
    ELSE IF binders # {}
    THEN IF Nearest(binders).binds[c.name] \in Bound THEN {} ELSE NestedDef(t, Nearest(binders), c.name)
    ELSE IF c.name \in t.rebound THEN {} ELSE {b \in t.blocks : b.in = Module /\ b.name = c.name}

Tied(p) == \E c \in CallsIn(p.caller.block, p.callee.block.name) :
              Denotes(p.text, p.caller.block, c) = {p.callee.block}

\* The bindings that the analysis passes over: of a comprehension, of a function
\* around the caller, and a second one beside a definition in the caller.
Shadowed(p) ==
    LET f == p.caller.block
        name == p.callee.block.name
    IN \/ \E c \in CallsIn(f, name) : c.bound
       \/ Binders(p.text, f, name) \ {f} # {}
       \/ f.binds[name] = "local" /\ NestedDef(p.text, f, name) # {}

One(t, name) == Cardinality({b \in t.blocks : b.name = name}) = 1
Everywhere(name) == UNION {{[file |-> f, block |-> b] : b \in {c \in text[f].blocks : c.name = name}} : f \in File}

ProofHolds(p) ==
    /\ p.caller.block \in p.text.blocks /\ p.callee.block \in p.text.blocks
    /\ p.caller.file = p.callee.file
    /\ Tied(p) \/ Shadowed(p)

\* Every answer given while nothing moves is true of the whole source, and a
\* definite one is, whatever moved, true of the texts its proofs read: the two
\* records, looked up one after the other, are of one text, in which the names
\* are of one definition each; the proofs of a chain join its ends.  Calls that
\* a binding shadows in a way the analysis passes over are left to
\* VerifiedCallsAreTied.
VerdictsAreProofs ==
    answer # None =>
        LET claim == answer.claim
            proofs == answer.proofs
            definite == answer.verdict \in {"VERIFIED", "REFUTED"}
        IN /\ claim.kind \in {"calls", "reaches"} /\ definite =>
                /\ \A i \in DOMAIN proofs : ProofHolds(proofs[i])
                /\ proofs[1].caller.block.name = claim.first
                /\ proofs[Len(proofs)].callee.block.name = claim.second
                /\ \A i \in 1..(Len(proofs) - 1) : proofs[i].callee = proofs[i + 1].caller
           /\ claim.kind = "calls" /\ definite =>
                One(proofs[1].text, claim.first) /\ One(proofs[1].text, claim.second)
           /\ claim.kind \in {"defined", "behaves"} /\ definite =>
                One(proofs[1].text, claim.first)
           /\ claim.kind = "behaves" /\ definite =>
                \E b \in proofs[1].text.blocks : b.name = claim.first /\ Behaves(proofs[1].text, b, claim)
           /\ answer.calm /\ claim.kind = "defined" =>
                /\ answer.verdict = "VERIFIED" <=> {d.file : d \in Everywhere(claim.first)} = {claim.file}
                                                   /\ Cardinality(Everywhere(claim.first)) = 1
                /\ answer.verdict # "STALE_SOURCE"
           /\ answer.calm /\ TwoNames(claim) /\ definite =>
                Cardinality(Everywhere(claim.first)) = 1 /\ Cardinality(Everywhere(claim.second)) = 1

\* Stated in docs/CODE_SEARCH.md: a verified call is tied to the indexed
\* definition without shadowing and without rebinding.
VerifiedCallsAreTied ==
    answer # None /\ answer.verdict = "VERIFIED" /\ TwoNames(answer.claim) =>
        \A i \in DOMAIN answer.proofs : Tied(answer.proofs[i])
=============================================================================
