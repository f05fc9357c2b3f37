--------------------------- MODULE AcceptanceRuns ---------------------------
(***************************************************************************)
(* Acceptance runs and the evidence they rest on (acceptance_runs.py,      *)
(* evidence_store.py, the capture of a search in harness_core.py and the   *)
(* tool hooks of the continuity plugin).                                   *)
(*                                                                         *)
(* A run judges the claims of a model about a list of tests against what   *)
(* was observed: the plugin reports the start and the completion of every  *)
(* tool call of the session, each from a process of its own, and the run   *)
(* counts it for the first expected test that has no record.  A search can *)
(* capture its result as an artifact, labelled with the identity of the    *)
(* source it is of; a record cites artifacts.  The ledger of a run is      *)
(* updated under its lock; the pointer from the session to its run, the    *)
(* artifacts and their provenance are not under it.                        *)
(*                                                                         *)
(* Data: the identity of a source (revision and published membership) and  *)
(* the result of a search are the state of the source they are of.         *)
(* Observations either meet the pass requirements of the test or do not.   *)
(* The two domains of provenance are one count: a tool is in one of them.  *)
(* Migrations of ledgers of older versions are left out.                   *)
(***************************************************************************)
EXTENDS Integers, Sequences, FiniteSets, SequencesExt

CONSTANTS
    Run, NoRun,
    Test,           \* identifiers of tests
    Plan,           \* sequence: the expected tests, in order
    Inv,            \* the expected invariants
    Tool, SearchTool, StartTool,    \* tools the plugin reports
    TestContract,   \* [Test -> what its pass requires]
    Call,           \* tool calls of the session that may be in progress
    State, Origin,  \* states of the source, and the one it has at first
    MaxAttempts,    \* MAX_ATTEMPTS_PER_TEST
    MaxCited,       \* MAX_EVIDENCE_REFS
    MaxToolCalls, MaxFaults, MaxRecords     \* bounds of the environment

ContractType == [required : SUBSET Tool, limit : [Tool -> Nat], forbidden : SUBSET Tool,
                 minRefs : Nat, current : BOOLEAN, prior : Nat]

\* What the constants are assumed to be.
AcceptanceAssumption ==
    /\ NoRun \notin Run
    /\ Plan \in Seq(Test)
    /\ SearchTool \in Tool /\ StartTool \in Tool
    /\ TestContract \in [Test -> ContractType]
    /\ Origin \in State
    /\ MaxAttempts \in Nat \ {0} /\ MaxCited \in Nat
    /\ MaxToolCalls \in Nat /\ MaxFaults \in Nat /\ MaxRecords \in Nat

Expected == Range(Plan)

(* An artifact is addressed by its content: a result and its label. *)
EvidenceRef == [result : State, scope : State]

VARIABLES
    ledger,     \* run -> its acr_ file: status, outcome, scope, the counts of calls by test
                \* and tool, the attempts at each test (each with its copy of the counts
                \* and of the captures it cites), and the invariants
    pointer,    \* Run \cup {NoRun} the run of the session
    source,     \* State: what index_status reports of the source
    artifact,   \* [EvidenceRef -> {"absent", "intact", "corrupt"}] the ev_ files
    captures,   \* [EvidenceRef -> SUBSET Run] the provenance sidecars
    call,       \* the tool calls in progress; run: the one a capture is for, events: the
                \* one the hook's process found
    watching,   \* the plugin knows that the session has a run
    toolCalls, faults, records

acceptanceVars ==
    <<ledger, pointer, source, artifact, captures, call, watching, toolCalls, faults, records>>

Zero == [tool \in Tool |-> [started |-> 0, completed |-> 0]]
NoLedger == [status |-> "none", outcome |-> "", scope |-> Origin,
             counts |-> [t \in Test |-> Zero], history |-> [t \in Test |-> << >>],
             invariants |-> [i \in Inv |-> ""]]
IdleCall == [step |-> "idle", tool |-> StartTool, run |-> NoRun, events |-> NoRun,
             result |-> Origin, scope |-> Origin]

AcceptanceInit ==
    /\ ledger = [r \in Run |-> NoLedger]
    /\ pointer = NoRun
    /\ source = Origin
    /\ artifact = [ref \in EvidenceRef |-> "absent"]
    /\ captures = [ref \in EvidenceRef |-> {}]
    /\ call = [c \in Call |-> IdleCall]
    /\ watching = FALSE
    /\ toolCalls = 0 /\ faults = 0 /\ records = 0

Running(r) == ledger[r].status = "running"
HasRecord(r, t) == ledger[r].history[t] # << >>

-----------------------------------------------------------------------------
(* Provenance: an event counts for the first expected test of a running run *)
(* that has no record.                                                     *)

(* Mutant: a test stays the pending one until it passes. *)
PendingUntilPass(r) ==
    {i \in DOMAIN Plan :
        ~HasRecord(r, Plan[i]) \/ Last(ledger[r].history[Plan[i]]).outcome # "pass"}

PendingTests(r) == {i \in DOMAIN Plan : ~HasRecord(r, Plan[i])}

Counted(r, tool, phase) ==
    IF r \in Run /\ Running(r) /\ PendingTests(r) # {}
    THEN [ledger EXCEPT ![r].counts[Plan[Min(PendingTests(r))]][tool][phase] = @ + 1]
    ELSE ledger

-----------------------------------------------------------------------------
(* A tool call: the hook before it, the work, the hook after it.  A hook    *)
(* runs a bridge process that reads the pointer of the session and then    *)
(* takes the lock of the run it found; it is killed after 15 seconds, and  *)
(* the call goes on without its event.                                     *)

Step(c, step) == call' = [call EXCEPT ![c].step = step]
Answered(c) == call' = [call EXCEPT ![c] = [IdleCall EXCEPT !.step = "answered", !.tool = call[c].tool]]

BeginCall(c, tool, r) ==
    /\ call[c].step = "idle" /\ toolCalls < MaxToolCalls
    /\ tool # SearchTool => r = NoRun
    /\ toolCalls' = toolCalls + 1
    /\ call' = [call EXCEPT ![c] = [IdleCall EXCEPT
                    !.step = IF watching THEN "start_event" ELSE "working",
                    !.tool = tool, !.run = r,
                    !.events = IF watching THEN pointer ELSE NoRun]]
    /\ UNCHANGED <<ledger, pointer, source, artifact, captures, watching, faults, records>>

StartEvent(c) ==
    /\ call[c].step = "start_event"
    /\ call' = [call EXCEPT ![c].step = "working", ![c].events = NoRun]
    /\ ledger' = Counted(call[c].events, call[c].tool, "started")
    /\ UNCHANGED <<pointer, source, artifact, captures, watching, toolCalls, faults, records>>

(* acceptance_run_start snapshots the scope, writes the ledger and then    *)
(* moves the pointer of the session; the run is nobody's before that.      *)
StartRun(c, r) ==
    /\ call[c].step = "working" /\ call[c].tool = StartTool
    /\ ledger[r].status = "none"
    /\ ledger' = [ledger EXCEPT ![r] = [NoLedger EXCEPT !.status = "running", !.scope = source]]
    /\ pointer' = r
    /\ Answered(c)
    /\ UNCHANGED <<source, artifact, captures, watching, toolCalls, faults, records>>

(* The answer; of a call that captured nothing, or failed, as well. *)
EndCall(c) ==
    /\ call[c].step \in {"working", "answered"}
    /\ watching' = (watching \/ call[c].tool = StartTool)
    /\ call' = IF watching'
               THEN [call EXCEPT ![c] = [IdleCall EXCEPT !.step = "complete_event",
                                         !.tool = call[c].tool, !.events = pointer]]
               ELSE [call EXCEPT ![c] = IdleCall]
    /\ UNCHANGED <<ledger, pointer, source, artifact, captures, toolCalls, faults, records>>

CompleteEvent(c) ==
    /\ call[c].step = "complete_event"
    /\ call' = [call EXCEPT ![c] = IdleCall]
    /\ ledger' = Counted(call[c].events, call[c].tool, "completed")
    /\ UNCHANGED <<pointer, source, artifact, captures, watching, toolCalls, faults, records>>

LoseEvent(c) ==
    /\ faults < MaxFaults /\ faults' = faults + 1
    /\ call[c].step \in {"start_event", "complete_event"}
    /\ call' = IF call[c].step = "start_event"
               THEN [call EXCEPT ![c].step = "working", ![c].events = NoRun]
               ELSE [call EXCEPT ![c] = IdleCall]
    /\ UNCHANGED <<ledger, pointer, source, artifact, captures, watching, toolCalls, records>>

-----------------------------------------------------------------------------
(* A search that captures its result. *)

RunSearch(c) ==
    /\ call[c].step = "working" /\ call[c].tool = SearchTool
    /\ call' = [call EXCEPT ![c].step = "searched", ![c].result = source]
    /\ UNCHANGED <<ledger, pointer, source, artifact, captures, watching, toolCalls, faults, records>>

(* A capture for a run is refused unless the run is of the labelled scope. *)
CaptureAllowed(c) ==
    call[c].run \in Run => Running(call[c].run) /\ ledger[call[c].run].scope = source

(* The label is the state of the source now, after the search. *)
Label(c) ==
    /\ call[c].step = "searched"
    /\ call' = IF CaptureAllowed(c)
               THEN [call EXCEPT ![c].step = "labelled", ![c].scope = source]
               ELSE [call EXCEPT ![c] = [IdleCall EXCEPT !.step = "answered", !.tool = SearchTool]]
    /\ UNCHANGED <<ledger, pointer, source, artifact, captures, watching, toolCalls, faults, records>>

CaptureRef(c) == [result |-> call[c].result, scope |-> call[c].scope]

(* Reading an artifact checks it against its address and its digests. *)
Readable(ref) == artifact[ref] = "intact"

(* An artifact that exists must be intact to be captured again. *)
Put(c) ==
    /\ call[c].step = "labelled"
    /\ IF artifact[CaptureRef(c)] # "absent" /\ ~Readable(CaptureRef(c))
       THEN Answered(c) /\ UNCHANGED artifact
       ELSE Step(c, "stored") /\ artifact' = [artifact EXCEPT ![CaptureRef(c)] = "intact"]
    /\ UNCHANGED <<ledger, pointer, source, captures, watching, toolCalls, faults, records>>

RecordCapture(c) ==
    /\ call[c].step = "stored"
    /\ Answered(c)
    /\ captures' = [captures EXCEPT ![CaptureRef(c)] = @ \cup (Run \cap {call[c].run})]
    /\ UNCHANGED <<ledger, pointer, source, artifact, watching, toolCalls, faults, records>>

-----------------------------------------------------------------------------
(* Records.  One critical section of the run's ledger; every operation that *)
(* writes it first compares the source with the scope of the run.          *)

ScopeHolds(r) == Running(r) /\ source = ledger[r].scope

(* The artifacts a record may cite. *)
Citable(r) == {ref \in EvidenceRef : Readable(ref) /\ ref.scope = ledger[r].scope}

(* The conditions of a pass that were not met yet. *)
Incomplete(r, t, refs, met) ==
    LET k == ledger[r].counts[t]  need == TestContract[t]
    IN \/ \E tool \in need.required : k[tool].completed = 0
       \/ ~met
       \/ Len(ledger[r].history[t]) < need.prior
       \/ Len(refs) < need.minRefs

(* What was observed and the contract excludes. *)
Violated(r, t, refs) ==
    LET k == ledger[r].counts[t]  need == TestContract[t]
    IN \/ \E tool \in Tool : k[tool].started > need.limit[tool]
       \/ \E tool \in need.forbidden : k[tool].started > 0
       \/ need.current /\ \E i \in DOMAIN refs : ~refs[i].captured

Effective(r, t, claimed, refs, met) ==
    CASE claimed = "pass" /\ Violated(r, t, refs) -> "protocol_deviation"
      [] claimed = "pass" /\ ~Violated(r, t, refs) /\ Incomplete(r, t, refs, met) -> "incomplete"
      [] OTHER -> claimed

(* cited: references, one of them more than once perhaps; any test, in any *)
(* order, expected or not.                                                 *)
Record(r, t, claimed, cited, met) ==
    LET refs == [i \in DOMAIN cited |-> [ref |-> cited[i], captured |-> r \in captures[cited[i]]]]
    IN /\ ScopeHolds(r) /\ records < MaxRecords
       /\ Range(cited) \subseteq Citable(r)
       /\ Len(ledger[r].history[t]) < MaxAttempts
       /\ ledger' = [ledger EXCEPT ![r].history[t] = Append(@,
              [claimed |-> claimed, outcome |-> Effective(r, t, claimed, refs, met),
               refs |-> refs, judged |-> ledger[r].counts[t]])]
       /\ records' = records + 1
       /\ UNCHANGED <<pointer, source, artifact, captures, call, watching, toolCalls, faults>>

RecordInvariant(r, i, outcome) ==
    /\ ScopeHolds(r) /\ records < MaxRecords
    /\ records' = records + 1
    /\ ledger' = [ledger EXCEPT ![r].invariants[i] = outcome]
    /\ UNCHANGED <<pointer, source, artifact, captures, call, watching, toolCalls, faults>>

LastOutcome(r, t) == Last(ledger[r].history[t]).outcome

AllPass(r) ==
    /\ \A t \in Test : HasRecord(r, t) => LastOutcome(r, t) = "pass"
    /\ \A i \in Inv : ledger[r].invariants[i] = "hold"

(* A run with tests or invariants missing is refused and stays running. *)
FinalizeRun(r) ==
    /\ ScopeHolds(r)
    /\ \A t \in Expected : HasRecord(r, t)
    /\ \A i \in Inv : ledger[r].invariants[i] # ""
    /\ ledger' = [ledger EXCEPT ![r].status = "completed",
                                ![r].outcome = IF AllPass(r) THEN "complete" ELSE "not_passed"]
    /\ UNCHANGED <<pointer, source, artifact, captures, call, watching, toolCalls, faults, records>>

-----------------------------------------------------------------------------
(* The environment. *)

(* The source is edited or another revision is checked out and indexed. *)
Drift ==
    /\ faults < MaxFaults
    /\ faults' = faults + 1
    /\ source' \in State \ {source}
    /\ UNCHANGED <<ledger, pointer, artifact, captures, call, watching, toolCalls, records>>

CorruptArtifact(ref) ==
    /\ Readable(ref) /\ faults < MaxFaults
    /\ faults' = faults + 1
    /\ artifact' = [artifact EXCEPT ![ref] = "corrupt"]
    /\ UNCHANGED <<ledger, pointer, source, captures, call, watching, toolCalls, records>>

(* OpenCode ends, with the tool calls and the bridge processes in progress; *)
(* the plugin of the next one learns of the run when it recovers it.       *)
Restart ==
    /\ watching /\ faults < MaxFaults
    /\ faults' = faults + 1
    /\ watching' = (pointer \in Run /\ Running(pointer))
    /\ call' = [c \in Call |-> IdleCall]
    /\ UNCHANGED <<ledger, pointer, source, artifact, captures, toolCalls, records>>

Citations(r) == BoundedSeq(Citable(r), MaxCited)

AcceptanceNext ==
    \/ \E c \in Call :
         \/ \E tool \in Tool, r \in Run \cup {NoRun} : BeginCall(c, tool, r)
         \/ \E r \in Run : StartRun(c, r)
         \/ StartEvent(c) \/ EndCall(c) \/ CompleteEvent(c) \/ LoseEvent(c)
         \/ RunSearch(c) \/ Label(c) \/ Put(c) \/ RecordCapture(c)
    \/ \E r \in Run :
         \/ \E t \in Test, claimed \in {"pass", "fail"}, cited \in Citations(r), met \in BOOLEAN :
                Record(r, t, claimed, cited, met)
         \/ \E i \in Inv, outcome \in {"hold", "violation"} : RecordInvariant(r, i, outcome)
         \/ FinalizeRun(r)
    \/ \E ref \in EvidenceRef : CorruptArtifact(ref)
    \/ Drift \/ Restart

AcceptanceSpec == AcceptanceInit /\ [][AcceptanceNext]_acceptanceVars

-----------------------------------------------------------------------------
(* Properties. *)

(* A test is met by what the ledger and the provenance say now: its counts  *)
(* satisfy the contract, and what its last attempt cites was captured under *)
(* the scope of the run and, when the contract asks for it, in the run.    *)
Earned(r, t) ==
    LET k == ledger[r].counts[t]  need == TestContract[t]  final == Last(ledger[r].history[t])
    IN /\ HasRecord(r, t) /\ final.claimed = "pass"
       /\ \A tool \in need.required : k[tool].completed > 0
       /\ \A tool \in Tool : k[tool].started <= need.limit[tool]
       /\ \A tool \in need.forbidden : k[tool].started = 0
       /\ Len(ledger[r].history[t]) > need.prior
       /\ Len(final.refs) >= need.minRefs
       /\ \A i \in DOMAIN final.refs : LET ref == final.refs[i].ref
              IN ref.scope = ledger[r].scope /\ (need.current => r \in captures[ref])

(* A run that ended "complete" has earned every expected test, however the *)
(* events of overlapping calls, captures, records and faults interleaved;  *)
(* and every attempt was judged on the provenance the ledger still shows   *)
(* for it: a test that has a record collects no further event, also from   *)
(* calls that were in progress when it was recorded.                       *)
VerdictsStand ==
    \A r \in Run :
        /\ ledger[r].outcome = "complete" =>
              /\ \A t \in Expected : Earned(r, t)
              /\ \A i \in Inv : ledger[r].invariants[i] = "hold"
        /\ \A t \in Expected : \A i \in DOMAIN ledger[r].history[t] :
              ledger[r].history[t][i].judged = ledger[r].counts[t]

=============================================================================
