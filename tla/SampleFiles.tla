----------------------------- MODULE SampleFiles -----------------------------
(* What the files of small instances of CallGraph define and call: two      *)
(* Python files, of which one imports the other, and a Smali file.          *)
EXTENDS TLC

CONSTANTS fa, fb, fs, NoOwner

Sym(f, owner, name, body) ==
    [file |-> f, owner |-> owner, name |-> name, body |-> body, exact |-> FALSE,
     qualified |-> IF owner = NoOwner THEN <<ToString(f), name>> ELSE <<ToString(f), owner, name>>]
Method(class, name) ==
    [file |-> fs, owner |-> class, name |-> name, body |-> 0, exact |-> TRUE, qualified |-> <<<<class, name>>>>]

Called(caller, line, hint, name) ==
    [caller |-> caller, line |-> line, hint |-> hint, name |-> name, exact |-> FALSE]
Invoke(caller, line, class, name) ==
    [caller |-> caller, line |-> line, hint |-> <<<<class, name>>>>, name |-> name, exact |-> TRUE]

\* fa: main calls run of the other module by an import and its own helper,
\* which calls itself and main; the other content calls a function by its name.
Defined(f, v) ==
    CASE f = fa -> {Sym(fa, NoOwner, "main", v), Sym(fa, NoOwner, "help", 0)}
      [] f = fb -> {Sym(fb, "C", "run", v), Sym(fb, "C", "stop", 0), Sym(fb, NoOwner, "log", 0)}
      [] f = fs -> {Method("Auth", "check"), Method("Auth", "create")}

Calling(f, v) ==
    CASE f = fa /\ v = 0 -> {Called(Sym(fa, NoOwner, "main", 0), 1, <<"C", "run">>, "run"),
                             Called(Sym(fa, NoOwner, "main", 0), 2, <<>>, "help"),
                             Called(Sym(fa, NoOwner, "help", 0), 3, <<>>, "main"),
                             Called(Sym(fa, NoOwner, "help", 0), 4, <<"x", "log">>, "log")}
      [] f = fa /\ v = 1 -> {Called(Sym(fa, NoOwner, "main", 1), 1, <<>>, "log"),
                             Called(Sym(fa, NoOwner, "main", 1), 0, <<"C", "run">>, "run"),
                             Called(Sym(fa, NoOwner, "main", 1), 2, <<>>, "create"),
                             Called(Sym(fa, NoOwner, "help", 0), 3, <<"C">>, "C")}
      [] f = fb -> {Called(Sym(fb, "C", "run", v), 1, <<"self", "stop">>, "stop"),
                    Called(Sym(fb, "C", "run", v), 2, <<>>, "missing"),
                    Called(Sym(fb, "C", "run", v), 3, <<>>, "log"),
                    Called(Sym(fb, "C", "stop", 0), 3, <<>>, "log"),
                    Called(Sym(fb, "C", "stop", 0), 4, <<>>, "help")}
      [] f = fs -> {Invoke(Method("Auth", "check"), 1, "Auth", "create"),
                    Invoke(Method("Auth", "create"), 2, "Activity", "create")}

Imported(f, v) == IF f = fa THEN {[name |-> "C", hint |-> <<ToString(fb), "C">>]} ELSE {}
=============================================================================
