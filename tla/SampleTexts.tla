----------------------------- MODULE SampleTexts -----------------------------
(* Texts for small instances of ClaimValidation: a function a that calls b   *)
(* in every way the proofs of a call tell apart, and texts for the edits.    *)

Names == {"a", "b", "c"}
Unbound == [n \in Names |-> "none"]
BindsB(how) == [Unbound EXCEPT !["b"] = how]

Plain(n) == [name |-> n, bound |-> FALSE]
Comprehended(n) == [name |-> n, bound |-> TRUE]

Block(name, at, in, kind, binds, calls) ==
    [name |-> name, at |-> at, in |-> in, kind |-> kind, decorated |-> FALSE,
     binds |-> binds, calls |-> calls, branches |-> {}]
Function(name, at, in, calls) == Block(name, at, in, "function", Unbound, calls)

Decorated(b, how) == [b EXCEPT !.decorated = how]
Raising(b, outcome, first) ==
    [b EXCEPT !.branches = {[test |-> "t", verb |-> "raises", outcome |-> outcome, first |-> first]}]

Text(blocks, rebound) == [blocks |-> blocks, rebound |-> rebound]
Empty == Text({}, {})

\* The scopes: a around or beside b, in a function or class or not, b bound in
\* the functions or not, called plainly, in a comprehension that binds it, or both.
Scoped ==
    LET around == {{}, {Block("o", 1, 0, "class", Unbound, {})}}
                    \union {{Block("o", 1, 0, "function", BindsB(how), {})} : how \in {"none", "parameter"}}
    IN {Text(out \union {Block("a", 2, IF out = {} THEN 0 ELSE 1, "function", BindsB(how), calls),
                         Function("b", 4, place, {})}, {}) :
           out \in around, how \in {"none", "parameter", "imported", "nonlocal", "local"},
           calls \in {{Plain("b")}, {Comprehended("b")}, {Plain("b"), Comprehended("b")}},
           place \in {0, 2}}
       \union {Text(out \union {Function("a", 2, 1, {Plain("b")}), Function("b", 4, 1, {})}, {}) :
                  out \in around \ {{}}}

\* The bindings of the module: decorators, a second definition, rebinding.
Bound ==
    {Text({Decorated(Function("a", 2, 0, calls), da), Decorated(Function("b", 4, 0, {}), db)} \union more, again) :
        calls \in {{}, {Plain("b")}}, da \in BOOLEAN, db \in BOOLEAN, again \in {{}, {"b"}},
        more \in {{}, {Function("b", 5, 0, {})}, {Block("b", 5, 0, "class", Unbound, {})}}}

\* A chain, a function that raises, and what edits make of them.
Chain == Text({Function("a", 2, 0, {Plain("b")}), Function("b", 4, 0, {Plain("c")}),
               Function("c", 5, 0, {})}, {})
Broken == Text({Function("a", 2, 0, {Plain("b")}), Function("b", 4, 0, {}), Function("c", 5, 0, {})}, {})
Twice == Text({Function("a", 2, 0, {Plain("b")}), Function("b", 4, 0, {Plain("c")}),
               Function("c", 5, 0, {}), Function("b", 3, 2, {})}, {})
Raises(outcome, first) == Text({Raising(Function("a", 2, 0, {Plain("b")}), outcome, first)}, {})
Other == Text({Function("b", 4, 0, {}), Function("c", 5, 0, {})}, {})

Claim(kind, first, second) ==
    [kind |-> kind, first |-> first, second |-> second, test |-> "t", verb |-> "raises",
     outcome |-> "e", file |-> "main"]
=============================================================================
