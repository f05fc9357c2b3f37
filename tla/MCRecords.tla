------------------------------ MODULE MCRecords ------------------------------
(***************************************************************************)
(* What awoki remembers of the work, on small instances: the evidence runs *)
(* (ReliabilityRuns, AcceptanceRuns), sessions (SessionContinuity), turns  *)
(* (TerminalTurns), plans (WorkLedger), tasks (TaskCheckpoints), global    *)
(* memory (Promotions) and the traffic of Burp (BurpRuns).  They share no  *)
(* state that their models represent, so a behaviour is one of one of      *)
(* them.  Turns, plans and the traffic share the cells; each of the others *)
(* has variables of its own, and in a behaviour of another component they  *)
(* are nothing, or the least that the properties can be read on.           *)
(***************************************************************************)
EXTENDS ReliabilityRuns, AcceptanceRuns, SessionContinuity, TaskCheckpoints, Promotions, TLC

CONSTANTS test, k1, k2, n1, n2, e1, e2, None, x, y, s1, p1, p2, r1, search, start, a, b, inv,
          t1, w1, u, v, w, elsewhere, NoSource, Nowhere, NoId

TwoProcesses == {x, y}

-----------------------------------------------------------------------------
(* A run with a declared check, a contract claim, and evidence of two      *)
(* scopes, a piece of it degraded.                                         *)

Checks == {test}
Claims == {k1, k2}
ContractClaims == {k1}
Nodes == {n1, n2}
Refs == {e1, e2}
Scopes == {1, 2}
Scoping == [r \in Refs |-> IF r = e1 THEN 1 ELSE 2]
DegradedRefs == {e2}

Assess(kind, state, authority, required, refs, requirements) ==
    [kind |-> kind, status |-> state, authority |-> authority, required |-> required,
     refs |-> refs, requirements |-> requirements]

TheAssessments == {
    Assess("claim", "supported", "model_inference", TRUE, {}, {}),
    Assess("observation", "supported", "tool_evidence", FALSE, {e1}, {}),
    Assess("observation", "supported", "tool_evidence", TRUE, {e1, e2}, {"single_evidence_scope"}),
    Assess("contradiction", "open", "analyst_observation", TRUE, {e2}, {"reranker_complete"}) }

Received(value, state, required, negates, receipt) ==
    [about |-> 1, value |-> value, status |-> state, required |-> required,
     negates |-> negates, receipt |-> receipt]

TheReceipts == {
    Received(1, "VERIFIED", FALSE, {}, FALSE),
    Received(2, "VERIFIED", FALSE, {}, TRUE), Received(1, "VERIFIED", FALSE, {k2}, TRUE) }

TheEmbedded == {{}, {<<"derived_from", n2>>}}

-----------------------------------------------------------------------------
(* Two tests and an invariant: the first test needs one search of this run; *)
(* the second, taken up again after a first attempt, is not to search.     *)
Contracts == (a :> [required |-> {search}, limit |-> (search :> 1) @@ (start :> 9),
                    forbidden |-> {}, minRefs |-> 1, current |-> TRUE, prior |-> 0]) @@
             (b :> [required |-> {}, limit |-> (search :> 9) @@ (start :> 9),
                    forbidden |-> {search}, minRefs |-> 0, current |-> FALSE, prior |-> 1])

TwoTests == {a, b}
FirstThenSecond == <<a, b>>
OneInvariant == {inv}
TwoTools == {search, start}
TwoStates == {1, 2}

(* Sessions and tasks.                                                     *)
OneSession == {s1}
TwoProjects == {p1, p2}
OneRun == {r1}
OneTask == {t1}
OneStep == {w1}

(* Rows of a list: one content twice, in two states, and one with an id.   *)
Rows == {[content |-> u, status |-> "pending", source |-> NoSource],
         [content |-> u, status |-> "completed", source |-> NoSource],
         [content |-> v, status |-> "pending", source |-> NoSource],
         [content |-> w, status |-> "pending", source |-> elsewhere]}

(* Pages of Burp: one and two numbered requests, two that have no number,  *)
(* and one that starts later.                                              *)
Request(number, what) == [id |-> number, what |-> what]
Pages == {<<Request(1, "a")>>, <<Request(1, "a"), Request(2, "b")>>,
          <<Request(NoId, "b"), Request(NoId, "a")>>, <<Request(2, "c")>>}

-----------------------------------------------------------------------------
VARIABLES component, c1, c2, c3, c4, c5, c6, c7, c8, c9, c10, c11, c12, c13, c14, c15

cells == <<c1, c2, c3, c4, c5, c6, c7, c8, c9, c10, c11, c12, c13, c14, c15>>

Turns == INSTANCE TerminalTurns WITH
    MaxMessages <- 5, MaxLosses <- 1, MaxStarts <- 1, UpdatesOld <- FALSE,
    log <- c1, running <- c2, idle <- c3, user <- c4, answer <- c5, seen <- c6, turn <- c7,
    durable <- c8, calls <- c9, checks <- c10, witness <- c11, receipt <- c12, store <- c13,
    losses <- c14, starts <- c15

Todo == INSTANCE WorkLedger WITH
    Row <- Rows, LedgerProject <- {p1, Nowhere}, Reference <- {r1},
    Trigger <- {"explicit_request"}, MaxTodos <- 2, MaxReferences <- 1, MaxSyncs <- 2,
    MaxUserTurns <- 1,
    scope <- c1, todos <- c2, nextId <- c3, listed <- c4, review <- c5, omitted <- c6,
    syncs <- c7, userTurns <- c8, references <- c9, stale <- c10, trigger <- c11,
    lastTrigger <- c12

Burp == INSTANCE BurpRuns WITH
    Process <- {x, y}, Run <- {r1}, Page <- Pages, Source <- {"history"}, Offset <- {0, 1},
    MaxPulls <- 2,
    made <- c1, latest <- c2, rows <- c3, evidence <- c4, total <- c5, pointers <- c6,
    process <- c7, pulls <- c8, replaced <- c9, alone <- c10

ASSUME Turns!TurnsAssumption
ASSUME Todo!LedgerAssumption
ASSUME Burp!BurpAssumption

CellsInit ==
    \/ /\ component \notin {"turns", "plan", "burp"}
       /\ c1 = None /\ c2 = None /\ c3 = None /\ c4 = None /\ c5 = None /\ c6 = None
       /\ c7 = None /\ c8 = None /\ c9 = None /\ c10 = None /\ c11 = None /\ c12 = None
       /\ c13 = None /\ c14 = None /\ c15 = None
    \/ component = "turns" /\ Turns!TurnsInit
    \/ /\ component = "plan" /\ Todo!LedgerInit
       /\ c13 = None /\ c14 = None /\ c15 = None
    \/ /\ component = "burp" /\ Burp!BurpInit
       /\ c11 = None /\ c12 = None /\ c13 = None /\ c14 = None /\ c15 = None

NoAcceptance ==
    /\ ledger = [r \in Run |-> [outcome |-> "", history |-> [t \in Test |-> <<>>]]]
    /\ pointer = None /\ source = None /\ artifact = None /\ captures = None /\ call = None
    /\ watching = None /\ toolCalls = None /\ faults = None /\ records = None
NoSession ==
    /\ events = 0 /\ proj = [p \in Project |-> [snapshot |-> 0, generation |-> 0, viewed |-> 0]]
    /\ session = None /\ covered = None /\ op = None /\ origin = None /\ operations = None
NoTasks ==
    /\ journal = <<>> /\ latest = NoTask /\ between = {}
    /\ burpFiles = None /\ agent = None /\ writes = None
NoPromotions ==
    /\ candidates = <<>> /\ serial = FALSE
    /\ memories = None /\ markers = None /\ approvals = None /\ copies = None /\ index = None
    /\ vectors = None /\ manifest = None /\ caller = None /\ calls = None /\ deaths = None

RecordsInit ==
    /\ component \in {"reliability", "acceptance", "session", "tasks", "global",
                      "turns", "plan", "burp"}
    /\ Init
    /\ IF component = "acceptance" THEN AcceptanceInit ELSE NoAcceptance
    /\ IF component = "session" THEN SessionInit ELSE NoSession
    /\ IF component = "tasks" THEN TasksInit ELSE NoTasks
    /\ IF component = "global" THEN PromotionsInit ELSE NoPromotions
    /\ CellsInit

RecordsNext ==
    /\ UNCHANGED component
    /\ \/ component = "reliability" /\ Next
          /\ UNCHANGED <<acceptanceVars, sessionVars, taskvars, promotionvars, cells>>
       \/ component = "acceptance" /\ AcceptanceNext
          /\ UNCHANGED <<vars, sessionVars, taskvars, promotionvars, cells>>
       \/ component = "session" /\ SessionNext
          /\ UNCHANGED <<vars, acceptanceVars, taskvars, promotionvars, cells>>
       \/ component = "tasks" /\ TasksNext
          /\ UNCHANGED <<vars, acceptanceVars, sessionVars, promotionvars, cells>>
       \/ component = "global" /\ PromotionsNext
          /\ UNCHANGED <<vars, acceptanceVars, sessionVars, taskvars, cells>>
       \/ /\ \/ component = "turns" /\ Turns!TurnsNext
             \/ component = "plan" /\ Todo!LedgerNext /\ UNCHANGED <<c13, c14, c15>>
             \/ component = "burp" /\ Burp!BurpNext /\ UNCHANGED <<c11, c12, c13, c14, c15>>
          /\ UNCHANGED <<vars, acceptanceVars, sessionVars, taskvars, promotionvars>>

RecordsSpec ==
    RecordsInit /\ [][RecordsNext]_<<component, cells, vars, acceptanceVars, sessionVars,
                                    taskvars, promotionvars>>

-----------------------------------------------------------------------------
\* TerminalTurns: a turn is completed by the answer to it.
CompletedByItsAnswer == component = "turns" => Turns!CompletedByItsAnswer

\* TerminalTurns: an answer that ended a turn is on disk when nothing is under way.
AnswerIsRecorded == component = "turns" => Turns!AnswerIsRecorded

\* TerminalTurns: the current user message never goes back.
CurrentNeverGoesBack == [][component = "turns" => Turns!NotBack]_cells

\* WorkLedger: a list in another order keeps the identities of its rows.
ReorderKeepsIdentity == [][component = "plan" => Todo!Recognized]_cells

\* BurpRuns: a reference names the same request for good.
ReferencesKeepNaming == [][component = "burp" => Burp!NamesKept]_cells

\* BurpRuns: what is extracted is what was listed.
ShownAsItIs == component = "burp" => Burp!ShownAsItIs

\* Processes, calls and projects are only compared for equality.
Symmetry == Permutations({x, y}) \union Permutations({p1, p2})
=============================================================================
