------------------------ MODULE ReliabilityRunsProofs ------------------------
(***************************************************************************)
(* Proofs about ReliabilityRuns, for every set of checks, claims, nodes and *)
(* evidence, any contract and any bound on the operations.                 *)
(*                                                                         *)
(* What a run ends as is decided from what a checkpoint found earlier, so   *)
(* the argument goes through CheckpointInv: a checkpoint that is not stale  *)
(* is the verdict on the graph and the claims as they are now, over some    *)
(* evidence that was readable at least until now.  A verdict depends on the *)
(* evidence only through what is cited (VerdictOverCited), and one that     *)
(* lets a run pass found all of it (PassingVerdict).                       *)
(*                                                                         *)
(* And about AcceptanceRuns, for any tests, contracts and tool calls and   *)
(* any number of faults (the second half).  A verdict is given on counts   *)
(* that calls in flight may still change, so the argument is about the     *)
(* events: a test that is recorded is no longer pending, a call that ends  *)
(* is counted where it started, and a ledger that is completed is closed.  *)
(***************************************************************************)
EXTENDS ReliabilityRuns, AcceptanceRuns, WellFoundedInduction, TLAPS

(* A claim that is decided has a receipt, and one of the contract is        *)
(* required.                                                               *)
ClaimsInv ==
    \A c \in Claim : claims[c] # Absent =>
        /\ claims[c].status \in {"VERIFIED", "REFUTED"} => claims[c].receipt
        /\ c \in Contract => claims[c].required

(* A check that is required has a status of its own. *)
ChecksInv == \A c \in Check : checks[c].required => checks[c].status # "absent"

(* A fresh checkpoint is the verdict over evidence that includes all that   *)
(* can be read now: evidence is lost and never regained.                   *)
CheckpointInv ==
    ~stale /\ checkpoint # "none" =>
        \E seen \in SUBSET Ref : readable \subseteq seen /\ checkpoint = Verdict(seen)

IInv == TypeOK /\ ClaimsInv /\ ChecksInv /\ CheckpointInv /\ PassedIsEarned

-----------------------------------------------------------------------------
(* Operators. *)

LEMMA NormalizedType ==
    ASSUME NEW x \in Receipt, NEW b \in BOOLEAN
    PROVE  [Normalized(x) EXCEPT !.required = @ \/ b] \in Receipt
<1>1. Normalized(x) \in Receipt
  BY DEF Normalized, Receipt, ClaimStatus
<1>2. Normalized(x).required \in BOOLEAN
  BY <1>1 DEF Receipt
<1> QED
  BY <1>1, <1>2 DEF Receipt

(* What is written of a claim: it is decided only by a receipt. *)
LEMMA NormalizedIsReceipted ==
    ASSUME NEW x \in Receipt, NEW b \in BOOLEAN, NEW y,
           y = [Normalized(x) EXCEPT !.required = @ \/ b]
    PROVE  /\ y.status \in {"VERIFIED", "REFUTED"} => y.receipt
           /\ b => y.required
<1>1. Normalized(x) \in Receipt /\ Normalized(x).required \in BOOLEAN
  BY DEF Normalized, Receipt, ClaimStatus
<1>2. y.status = Normalized(x).status /\ y.receipt = Normalized(x).receipt
      /\ y.required = (Normalized(x).required \/ b)
  BY <1>1 DEF Receipt
<1>3. Normalized(x).status \in {"VERIFIED", "REFUTED"} => Normalized(x).receipt
  BY DEF Normalized, Receipt, ClaimStatus
<1> QED
  BY <1>2, <1>3

LEMMA GateType ==
    ASSUME NEW requested \in Final PROVE Gate(requested) \in Final
BY DEF Gate, Final

LEMMA VerdictType ==
    ASSUME NEW seen PROVE Verdict(seen) \in Result
BY DEF Verdict, Result

(* The verdict over two sets of evidence that both have what is cited is    *)
(* the same.                                                               *)
LEMMA VerdictOverCited ==
    ASSUME NEW one, NEW other, Cited \subseteq one, Cited \subseteq other
    PROVE  Verdict(one) = Verdict(other)
<1>1. \A n \in Recorded(nodes) :
        nodes[n].refs \cap one = nodes[n].refs \cap other
  BY DEF Cited
<1>2. Cited \cap one = Cited \cap other
  OBVIOUS
<1>3. Backed(one) = Backed(other)
  BY <1>1 DEF Backed
<1>4. \A n \in Required : Grounded(n, one) <=> Grounded(n, other)
  BY <1>3 DEF Grounded
<1>5. \A n \in Required : Unsatisfied(n, one) <=> Unsatisfied(n, other)
  <2> TAKE n \in Required
  <2>1. nodes[n].refs \cap one = nodes[n].refs \cap other
    BY <1>1 DEF Required
  <2> QED
    BY <2>1 DEF Unsatisfied
<1>6. Findings(one) <=> Findings(other)
  BY <1>2 DEF Findings
<1>7. (\E n \in Required : ~Settled(n) \/ ~Grounded(n, one) \/ Unsatisfied(n, one))
      <=> (\E n \in Required : ~Settled(n) \/ ~Grounded(n, other) \/ Unsatisfied(n, other))
  BY <1>4, <1>5
<1> QED
  BY <1>6, <1>7 DEF Verdict

(* A verdict that lets a run pass saw all the evidence that is cited, and   *)
(* every required assessment settled and grounded in it.                   *)
LEMMA PassingVerdict ==
    ASSUME NEW seen, Verdict(seen) \in Passing
    PROVE  /\ Cited \subseteq seen
           /\ \A n \in Required : Settled(n) /\ Grounded(n, seen) /\ ~Unsatisfied(n, seen)
<1>1. "VERIFIED" \in Passing /\ "VERIFIED_WITH_FINDINGS" \in Passing /\ "BLOCKED" \notin Passing
      /\ "CONTRADICTED" \notin Passing /\ "INCOMPLETE" \notin Passing
      /\ "NOT_APPLICABLE" \notin Passing
  BY DEF Passing
<1> QED
  BY <1>1 DEF Verdict

(* More evidence keeps an assertion grounded. *)
LEMMA GroundedMore ==
    ASSUME NEW n \in Recorded(nodes), NEW seen, NEW more, seen \subseteq more, Grounded(n, seen)
    PROVE  Grounded(n, more)
<1>1. Backed(seen) \subseteq Backed(more)
  BY DEF Backed
<1> QED
  BY <1>1 DEF Grounded

(* The gate of the claims stands open only when all of the contract is      *)
(* recorded and what is required is verified, without a conflict.          *)
LEMMA OpenGate ==
    ASSUME ClaimGate(claims) \notin {"failed", "blocked"}
    PROVE  /\ Contract \subseteq Recorded(claims)
           /\ RequiredClaims(claims) # {} =>
                /\ ~Conflict(claims)
                /\ \A c \in RequiredClaims(claims) : claims[c].status = "VERIFIED"
<1>1. CASE ~(Contract \subseteq Recorded(claims))
  BY <1>1 DEF ClaimGate
<1>2. CASE Contract \subseteq Recorded(claims) /\ RequiredClaims(claims) = {}
  BY <1>2
<1>3. CASE Contract \subseteq Recorded(claims) /\ RequiredClaims(claims) # {}
  <2>1. ClaimGate(claims) =
            IF Conflict(claims) \/ \E c \in RequiredClaims(claims) : claims[c].status \in {"REFUTED", "CONFLICT"}
            THEN "failed"
            ELSE IF \A c \in RequiredClaims(claims) : claims[c].status = "VERIFIED" THEN "passed" ELSE "blocked"
    BY <1>3 DEF ClaimGate
  <2> QED
    BY <1>3, <2>1
<1> QED
  BY <1>1, <1>2, <1>3

(* A gate that lets the run pass: each of its conditions, from its order.   *)
LEMMA PassingGate ==
    ASSUME NEW requested \in Final, Gate(requested) = "passed"
    PROVE  /\ Required # {} => ~stale /\ checkpoint # "none" /\ checkpoint \in Passing
           /\ ClaimGate(claims) \notin {"failed", "blocked"}
           /\ \A c \in RequiredChecks : checks[c].status \notin {"failed", "blocked", "skipped"}
<1> DEFINE paused == IF requested = "reliably-paused" THEN requested ELSE "blocked"
<1>1. paused # "passed" /\ "failed" # "passed"
  OBVIOUS
<1> QED
  BY <1>1 DEF Gate

-----------------------------------------------------------------------------
(* The inductive invariant. *)

THEOREM InitInv == Init => IInv
<1> SUFFICES ASSUME Init PROVE IInv
  OBVIOUS
<1> USE DEF Init
<1>1. TypeOK
  <2>1. checks \in [Check -> [status : CheckStatus, required : BOOLEAN]]
    BY DEF AbsentCheck, CheckStatus
  <2>2. used \in 0..Budget
    BY ReliabilityAssumption
  <2> QED
    BY <2>1, <2>2 DEF TypeOK
<1>2. ClaimsInv /\ ChecksInv
  BY DEF ClaimsInv, ChecksInv, AbsentCheck
<1>3. CheckpointInv /\ PassedIsEarned
  BY DEF CheckpointInv, PassedIsEarned
<1> QED
  BY <1>1, <1>2, <1>3 DEF IInv

LEMMA TypeNext == TypeOK /\ [Next]_vars => TypeOK'
<1> SUFFICES ASSUME TypeOK, [Next]_vars PROVE TypeOK'
  OBVIOUS
<1> USE DEF TypeOK
<1>1. ASSUME NEW c \in Check, NEW outcome \in CheckStatus \ {"absent"}, NEW required \in BOOLEAN,
             RecordCheck(c, outcome, required)
      PROVE  TypeOK'
  BY <1>1 DEF RecordCheck, Open
<1>2. ASSUME NEW c \in Claim, NEW receipt \in Receipts, RecordClaim(c, receipt)
      PROVE  TypeOK'
  <2>1. PICK y \in Receipt : y = [Normalized(receipt) EXCEPT !.required = @ \/ c \in Contract]
    BY ReliabilityAssumption, NormalizedType
  <2>2. claims' = [claims EXCEPT ![c] = y]
    BY <1>2, <2>1 DEF RecordClaim
  <2>3. claims' \in [Claim -> Receipt \cup {Absent}]
    BY <2>2
  <2> QED
    BY <1>2, <2>3 DEF RecordClaim, Open
<1>3. ASSUME NEW n \in Node, NEW a \in Assessments, NEW rels \in Embedded,
             RecordAssessment(n, a, rels)
      PROVE  TypeOK'
  <2>1. nodes' \in [Node -> Assessment \cup {Absent}]
    BY <1>3, ReliabilityAssumption DEF RecordAssessment
  <2>2. relations' \subseteq Node \X RelationType \X Node
    <3>1. \A rel \in rels : rel[1] \in RelationType /\ rel[2] \in Node
      BY ReliabilityAssumption
    <3>2. \A rel \in rels : <<n, rel[1], rel[2]>> \in Node \X RelationType \X Node
      BY <3>1
    <3> QED
      BY <1>3, <3>2 DEF RecordAssessment
  <2> QED
    BY <1>3, <2>1, <2>2 DEF RecordAssessment, Open
<1>4. ASSUME NEW from \in Node, NEW to \in Node, NEW type \in RelationType,
             RecordRelation(from, type, to)
      PROVE  TypeOK'
  <2>1. <<from, type, to>> \in Node \X RelationType \X Node
    OBVIOUS
  <2> QED
    BY <1>4, <2>1 DEF RecordRelation, Open
<1>5. CASE Consume
  BY <1>5, ReliabilityAssumption DEF Consume, Open
<1>6. CASE Checkpoint
  <2>1. checkpoint' \in Result \cup {"none"}
    BY <1>6, VerdictType DEF Checkpoint
  <2>2. stale' = FALSE /\ ops' = ops + 1
    BY <1>6 DEF Checkpoint, Open
  <2>3. UNCHANGED <<status, checks, claims, nodes, relations, used, readable>>
    BY <1>6 DEF Checkpoint
  <2>4. stale' \in BOOLEAN
    BY <2>2
  <2>5. ops' \in Nat
    BY <2>2
  <2> QED
    BY <2>1, <2>3, <2>4, <2>5
<1>7. ASSUME NEW requested \in Final, Finish(requested)
      PROVE  TypeOK'
  BY <1>7, GateType, ReliabilityAssumption DEF Finish
<1>8. ASSUME NEW r \in Ref, Corrupt(r)
      PROVE  TypeOK'
  BY <1>8 DEF Corrupt
<1>9. CASE UNCHANGED vars
  BY <1>9 DEF vars
<1> QED
  BY <1>1, <1>2, <1>3, <1>4, <1>5, <1>6, <1>7, <1>8, <1>9 DEF Next

LEMMA ClaimsNext == TypeOK /\ ClaimsInv /\ [Next]_vars => ClaimsInv'
<1> SUFFICES ASSUME TypeOK, ClaimsInv, [Next]_vars PROVE ClaimsInv'
  OBVIOUS
<1>0. claims \in [Claim -> Receipt \cup {Absent}]
  BY DEF TypeOK
<1>1. ASSUME NEW c \in Claim, NEW receipt \in Receipts, RecordClaim(c, receipt)
      PROVE  ClaimsInv'
  <2>1. PICK y : y = [Normalized(receipt) EXCEPT !.required = @ \/ c \in Contract]
    OBVIOUS
  <2>2. /\ y.status \in {"VERIFIED", "REFUTED"} => y.receipt
        /\ c \in Contract => y.required
    BY <2>1, ReliabilityAssumption, NormalizedIsReceipted
  <2>3. claims' = [claims EXCEPT ![c] = y]
    BY <1>1, <2>1 DEF RecordClaim
  <2>4. claims'[c] = y /\ \A d \in Claim \ {c} : claims'[d] = claims[d]
    BY <1>0, <2>3
  <2> QED
    BY <2>2, <2>4 DEF ClaimsInv
<1>2. CASE UNCHANGED claims
  BY <1>2 DEF ClaimsInv
<1> QED
  BY <1>1, <1>2 DEF Next, vars, RecordCheck, RecordAssessment, RecordRelation, Consume,
     Checkpoint, Finish, Corrupt

LEMMA ChecksNext == TypeOK /\ ChecksInv /\ [Next]_vars => ChecksInv'
<1> SUFFICES ASSUME TypeOK, ChecksInv, [Next]_vars PROVE ChecksInv'
  OBVIOUS
<1>0. checks \in [Check -> [status : CheckStatus, required : BOOLEAN]]
  BY DEF TypeOK
<1>1. ASSUME NEW c \in Check, NEW outcome \in CheckStatus \ {"absent"}, NEW required \in BOOLEAN,
             RecordCheck(c, outcome, required)
      PROVE  ChecksInv'
  BY <1>0, <1>1 DEF RecordCheck, ChecksInv
<1>2. CASE UNCHANGED checks
  BY <1>2 DEF ChecksInv
<1> QED
  BY <1>1, <1>2 DEF Next, vars, RecordClaim, RecordAssessment, RecordRelation, Consume,
     Checkpoint, Finish, Corrupt

(* A step that neither marks the checkpoint as stale nor takes one leaves   *)
(* alone what it read, or loses evidence.                                  *)
LEMMA CheckpointNext == TypeOK /\ CheckpointInv /\ [Next]_vars => CheckpointInv'
<1> SUFFICES ASSUME TypeOK, CheckpointInv, [Next]_vars PROVE CheckpointInv'
  OBVIOUS
<1>1. CASE stale'
  BY <1>1 DEF CheckpointInv
<1>2. CASE Checkpoint
  <2>1. readable \in SUBSET Ref
    BY DEF TypeOK
  <2>2. checkpoint' = Verdict(readable) /\ UNCHANGED <<claims, nodes, relations, readable>>
    BY <1>2 DEF Checkpoint
  <2>3. Verdict(readable)' = Verdict(readable)
    BY <2>2 DEF Verdict, ClaimGate, Cited, BrokenRelations, Findings, Required, Settled,
       Grounded, Unsatisfied, Backed, Supporters, Recorded, RequiredClaims, Conflict
  <2>4. readable' \in SUBSET Ref /\ readable' \subseteq readable'
    BY <1>2, <2>1 DEF Checkpoint
  <2> QED
    BY <2>2, <2>3, <2>4 DEF CheckpointInv
<1>3. CASE /\ stale' = stale /\ checkpoint' = checkpoint /\ readable' \subseteq readable
           /\ UNCHANGED <<claims, nodes, relations>>
  <2> SUFFICES ASSUME ~stale, checkpoint # "none"
               PROVE  \E seen \in SUBSET Ref : readable' \subseteq seen /\ checkpoint' = Verdict(seen)'
    BY <1>3 DEF CheckpointInv
  <2>1. PICK seen \in SUBSET Ref : readable \subseteq seen /\ checkpoint = Verdict(seen)
    BY DEF CheckpointInv
  <2>2. Verdict(seen)' = Verdict(seen)
    BY <1>3 DEF Verdict, ClaimGate, Cited, BrokenRelations, Findings, Required, Settled,
       Grounded, Unsatisfied, Backed, Supporters, Recorded, RequiredClaims, Conflict
  <2> QED
    BY <1>3, <2>1, <2>2
<1> QED
  BY <1>1, <1>2, <1>3 DEF Next, vars, RecordCheck, RecordClaim, RecordAssessment, RecordRelation,
     Consume, Finish, Corrupt

(* Only Finish decides how a run ended, and a run that has ended is changed *)
(* by nothing but another end; what makes the run pass is then in the gate, *)
(* in the checkpoint that CheckpointInv describes, and in the claims.       *)
LEMMA PassedNext == IInv /\ [Next]_vars => PassedIsEarned'
<1> SUFFICES ASSUME IInv, [Next]_vars, status' = "passed" PROVE PassedIsEarned'
  BY DEF PassedIsEarned
<1> DEFINE Justified ==
      /\ \A c \in RequiredChecks : checks[c].status = "passed"
      /\ \A c \in Contract : /\ claims[c] # Absent
                             /\ claims[c].status = "VERIFIED" /\ claims[c].receipt
      /\ RequiredClaims(claims) # {} => \A c, d \in Recorded(claims) :
             claims[c].status = "VERIFIED" /\ claims[d].status = "VERIFIED" =>
                 /\ claims[c].about = claims[d].about => claims[c].value = claims[d].value
                 /\ d \notin claims[c].negates
      /\ \A n \in Required : Settled(n) /\ Grounded(n, Ref) /\ ~Unsatisfied(n, Ref)
<1>1. Justified /\ UNCHANGED <<checks, claims, nodes, relations>> => Justified'
  BY DEF RequiredChecks, RequiredClaims, Recorded, Required, Settled, Grounded, Unsatisfied,
     Backed, Supporters
<1>2. (status = "passed" => Justified) /\ (Justified' => PassedIsEarned')
  BY DEF IInv, PassedIsEarned
<1>3. ASSUME NEW requested \in Final, Finish(requested)
      PROVE  Justified
  <2>1. Gate(requested) = "passed"
    BY <1>3 DEF Finish
  <2>2. /\ Required # {} => ~stale /\ checkpoint # "none" /\ checkpoint \in Passing
        /\ ClaimGate(claims) \notin {"failed", "blocked"}
        /\ \A c \in RequiredChecks : checks[c].status \notin {"failed", "blocked", "skipped"}
    BY <2>1, PassingGate
  <2>3. \A c \in RequiredChecks : checks[c].status = "passed"
    BY <2>2 DEF IInv, TypeOK, ChecksInv, CheckStatus, RequiredChecks
  <2>4. /\ Contract \subseteq Recorded(claims)
        /\ RequiredClaims(claims) # {} =>
             /\ ~Conflict(claims)
             /\ \A c \in RequiredClaims(claims) : claims[c].status = "VERIFIED"
    BY <2>2, OpenGate
  <2>5. \A c \in Contract : /\ claims[c] # Absent
                            /\ claims[c].status = "VERIFIED" /\ claims[c].receipt
    <3> TAKE c \in Contract
    <3>1. c \in Claim /\ c \in Recorded(claims) /\ claims[c] # Absent
      BY <2>4, ReliabilityAssumption DEF Recorded
    <3>2. c \in RequiredClaims(claims)
      BY <3>1 DEF RequiredClaims
    <3> QED
      BY <2>4, <3>1, <3>2 DEF IInv, ClaimsInv
  <2>6. RequiredClaims(claims) # {} => \A c, d \in Recorded(claims) :
             claims[c].status = "VERIFIED" /\ claims[d].status = "VERIFIED" =>
                 /\ claims[c].about = claims[d].about => claims[c].value = claims[d].value
                 /\ d \notin claims[c].negates
    BY <2>4 DEF Conflict
  <2>7. ASSUME NEW n \in Required
        PROVE  Settled(n) /\ Grounded(n, Ref) /\ ~Unsatisfied(n, Ref)
    <3>1. PICK seen \in SUBSET Ref : checkpoint = Verdict(seen)
      BY <2>2 DEF IInv, CheckpointInv
    <3>2. /\ Cited \subseteq seen
          /\ Settled(n) /\ Grounded(n, seen) /\ ~Unsatisfied(n, seen)
      BY <2>2, <3>1, PassingVerdict
    <3>3. n \in Recorded(nodes)
      BY DEF Required
    <3>4. Grounded(n, Ref)
      BY <3>1, <3>2, <3>3, GroundedMore
    <3>5. nodes[n].refs \cap seen = nodes[n].refs \cap Ref
      BY <3>1, <3>2, <3>3 DEF Cited
    <3>6. ~Unsatisfied(n, Ref)
      BY <3>2, <3>5 DEF Unsatisfied
    <3> QED
      BY <3>2, <3>4, <3>6
  <2> QED
    BY <2>3, <2>5, <2>6, <2>7
<1>4. CASE UNCHANGED <<status, checks, claims, nodes, relations>>
  BY <1>1, <1>2, <1>4
<1>5. ASSUME NEW requested \in Final, Finish(requested)
      PROVE  UNCHANGED <<checks, claims, nodes, relations>>
  BY <1>5 DEF Finish
<1>6. ASSUME Open, UNCHANGED status
      PROVE  FALSE
  BY <1>6 DEF Open
<1> HIDE DEF Justified
<1> QED
  BY <1>1, <1>2, <1>3, <1>4, <1>5, <1>6 DEF Next, vars, RecordCheck, RecordClaim, RecordAssessment,
     RecordRelation, Consume, Checkpoint, Corrupt

THEOREM InvNext == IInv /\ [Next]_vars => IInv'
BY TypeNext, ClaimsNext, ChecksNext, CheckpointNext, PassedNext DEF IInv

(* A fresh checkpoint that found nothing missing was made over evidence     *)
(* that had all that is cited, and so is the verdict over what can be read  *)
(* now, as long as that has all of it too.                                 *)
LEMMA InvGivesFreshCheckpoint == IInv => FreshCheckpointHolds
<1> SUFFICES ASSUME IInv, ~stale, checkpoint \notin {"none", "BLOCKED"}, Cited \subseteq readable
             PROVE  checkpoint = Verdict(readable)
  BY DEF FreshCheckpointHolds
<1>1. PICK seen \in SUBSET Ref : readable \subseteq seen /\ checkpoint = Verdict(seen)
  BY DEF IInv, CheckpointInv
<1>2. Verdict(seen) = Verdict(readable)
  BY <1>1, VerdictOverCited
<1> QED
  BY <1>1, <1>2

-----------------------------------------------------------------------------
(* Theorems. *)

THEOREM Invariance == Spec => []IInv
BY InitInv, InvNext, PTL DEF Spec

(* Every reachable state of a run is well typed; no more corrections are    *)
(* consumed than the budget has.                                           *)
THEOREM TypeCorrect == Spec => []TypeOK
<1>1. IInv => TypeOK
  BY DEF IInv
<1> QED
  BY <1>1, Invariance, PTL

(* A run that ends as passed has everything it needs in the state it ended  *)
(* in: the gate may trust the checkpoint (finish_run, reliability.py).      *)
THEOREM PassedIsEarnedCorrect == Spec => []PassedIsEarned
<1>1. IInv => PassedIsEarned
  BY DEF IInv
<1> QED
  BY <1>1, Invariance, PTL

(* A checkpoint that no operation has marked as stale says what a new one   *)
(* would say, unless evidence that is cited was missing or has been lost.  *)
THEOREM FreshCheckpointHoldsCorrect == Spec => []FreshCheckpointHolds
BY InvGivesFreshCheckpoint, Invariance, PTL

-----------------------------------------------------------------------------
(* Acceptance runs, for any tests, contracts and tool calls and any number *)
(* of faults.                                                              *)

CallCount == [started : Nat, completed : Nat]
Counts == [Tool -> CallCount]
CitedRef == [ref : EvidenceRef, captured : BOOLEAN]
Outcome == {"pass", "fail", "incomplete", "protocol_deviation"}
Attempt == [claimed : {"pass", "fail"}, outcome : Outcome, refs : Seq(CitedRef), judged : Counts]
Ledger == [status : {"none", "running", "completed"}, outcome : {"", "complete", "not_passed"},
           scope : State, counts : [Test -> Counts], history : [Test -> Seq(Attempt)],
           invariants : [Inv -> {"", "hold", "violation"}]]
CallState == [step : {"idle", "start_event", "working", "searched", "labelled", "stored",
                      "answered", "complete_event"},
              tool : Tool, run : Run \cup {NoRun}, events : Run \cup {NoRun},
              result : State, scope : State]

AcceptanceTyped ==
    /\ ledger \in [Run -> Ledger]
    /\ pointer \in Run \cup {NoRun}
    /\ source \in State
    /\ captures \in [EvidenceRef -> SUBSET Run]
    /\ call \in [Call -> CallState]

(* An attempt that is the n-th at a test of the run was judged on the counts *)
(* the ledger still has; what it cites is of the scope of the run, and was  *)
(* captured in it when the attempt says so; and it passed if it met all     *)
(* that the contract asks for.                                             *)
Met(need, n, try) ==
    /\ try.claimed = "pass"
    /\ \A tool \in need.required : try.judged[tool].completed > 0
    /\ \A tool \in Tool : try.judged[tool].started <= need.limit[tool]
    /\ \A tool \in need.forbidden : try.judged[tool].started = 0
    /\ n > need.prior
    /\ Len(try.refs) >= need.minRefs
    /\ need.current => \A j \in DOMAIN try.refs : try.refs[j].captured

CitesItsOwn(r, scope, refs) ==
    \A j \in DOMAIN refs :
        /\ refs[j].ref.scope = scope
        /\ refs[j].captured => r \in captures[refs[j].ref]

AttemptsInv(r) ==
    \A t \in Test : \A n \in DOMAIN ledger[r].history[t] :
        LET try == ledger[r].history[t][n] IN
        /\ try.judged = ledger[r].counts[t]
        /\ CitesItsOwn(r, ledger[r].scope, try.refs)
        /\ try.outcome = "pass" => Met(TestContract[t], n, try)

CompleteInv(r) ==
    ledger[r].outcome = "complete" =>
        /\ ledger[r].status = "completed"
        /\ \A t \in Expected : HasRecord(r, t) /\ LastOutcome(r, t) = "pass"
        /\ \A i \in Inv : ledger[r].invariants[i] = "hold"

AcceptanceInv ==
    /\ AcceptanceTyped
    /\ \A r \in Run : AttemptsInv(r) /\ CompleteInv(r)

-----------------------------------------------------------------------------
(* What a ledger changes to.                                               *)

Counting(r, l) ==
    \E t \in Test, k \in Counts :
        ~HasRecord(r, t) /\ l = [ledger[r] EXCEPT !.counts = [ledger[r].counts EXCEPT ![t] = k]]

Starting(r, l) ==
    /\ ledger[r].status = "none"
    /\ l = [NoLedger EXCEPT !.status = "running", !.scope = source]

Judging(r, l) ==
    \E t \in Test, try \in Attempt :
        /\ l = [ledger[r] EXCEPT !.history =
                   [ledger[r].history EXCEPT ![t] = Append(ledger[r].history[t], try)]]
        /\ try.judged = ledger[r].counts[t]
        /\ CitesItsOwn(r, ledger[r].scope, try.refs)
        /\ try.outcome = "pass" => Met(TestContract[t], Len(ledger[r].history[t]) + 1, try)

Holding(r, l) ==
    \E v \in [Inv -> {"", "hold", "violation"}] : l = [ledger[r] EXCEPT !.invariants = v]

Completing(r, l) ==
    \E o \in {"complete", "not_passed"} :
        /\ l = [ledger[r] EXCEPT !.status = "completed", !.outcome = o]
        /\ o = "complete" =>
              /\ \A t \in Expected : HasRecord(r, t) /\ LastOutcome(r, t) = "pass"
              /\ \A i \in Inv : ledger[r].invariants[i] = "hold"

Change(r, l) ==
    \/ Starting(r, l)
    \/ Running(r) /\ (Counting(r, l) \/ Judging(r, l) \/ Holding(r, l) \/ Completing(r, l))

\* The fields of a ledger, and of what becomes of it when one of them changes.
LEMMA LedgerFields ==
    ASSUME NEW l \in Ledger
    PROVE  /\ l.scope \in State /\ l.counts \in [Test -> Counts]
           /\ l.history \in [Test -> Seq(Attempt)]
           /\ l.invariants \in [Inv -> {"", "hold", "violation"}]
  BY DEF Ledger

SameBut(l, m, fields) ==
    /\ "counts" \notin fields => m.counts = l.counts
    /\ "history" \notin fields => m.history = l.history
    /\ "invariants" \notin fields => m.invariants = l.invariants
    /\ "status" \notin fields => m.status = l.status /\ m.outcome = l.outcome
    /\ m.scope = l.scope

LEMMA WithCounts ==
    ASSUME NEW l \in Ledger, NEW k \in [Test -> Counts], NEW m, m = [l EXCEPT !.counts = k]
    PROVE  m \in Ledger /\ m.counts = k /\ SameBut(l, m, {"counts"})
  BY DEF Ledger, SameBut

LEMMA WithHistory ==
    ASSUME NEW l \in Ledger, NEW h \in [Test -> Seq(Attempt)], NEW m, m = [l EXCEPT !.history = h]
    PROVE  m \in Ledger /\ m.history = h /\ SameBut(l, m, {"history"})
  BY DEF Ledger, SameBut

LEMMA WithInvariants ==
    ASSUME NEW l \in Ledger, NEW v \in [Inv -> {"", "hold", "violation"}], NEW m,
           m = [l EXCEPT !.invariants = v]
    PROVE  m \in Ledger /\ m.invariants = v /\ SameBut(l, m, {"invariants"})
  BY DEF Ledger, SameBut

LEMMA AsCompleted ==
    ASSUME NEW l \in Ledger, NEW o \in {"complete", "not_passed"}, NEW m,
           m = [l EXCEPT !.status = "completed", !.outcome = o]
    PROVE  m \in Ledger /\ m.status = "completed" /\ m.outcome = o /\ SameBut(l, m, {"status"})
  BY DEF Ledger, SameBut

LEMMA ZeroIsCounts == Zero \in Counts
  BY DEF Zero, Counts, CallCount

LEMMA NoLedgerIsLedger ==
    ASSUME AcceptanceAssumption, NEW s \in State
    PROVE  /\ NoLedger \in Ledger
           /\ [NoLedger EXCEPT !.status = "running", !.scope = s] \in Ledger
           /\ [NoLedger EXCEPT !.status = "running", !.scope = s].history = [t \in Test |-> << >>]
           /\ [NoLedger EXCEPT !.status = "running", !.scope = s].outcome = ""
           /\ NoLedger.history = [t \in Test |-> << >>] /\ NoLedger.outcome = ""
  <1>1. NoLedger \in Ledger
    <2>1. [t \in Test |-> Zero] \in [Test -> Counts]
      BY ZeroIsCounts
    <2>2. [t \in Test |-> << >>] \in [Test -> Seq(Attempt)]
      OBVIOUS
    <2>3. [i \in Inv |-> ""] \in [Inv -> {"", "hold", "violation"}]
      OBVIOUS
    <2>4. Origin \in State
      BY DEF AcceptanceAssumption
    <2> QED
      BY <2>1, <2>2, <2>3, <2>4 DEF NoLedger, Ledger
  <1>2. NoLedger.history = [t \in Test |-> << >>] /\ NoLedger.outcome = ""
    BY DEF NoLedger
  <1>3. \A l \in Ledger : LET m == [l EXCEPT !.status = "running", !.scope = s] IN
           m \in Ledger /\ m.history = l.history /\ m.outcome = l.outcome
    BY DEF Ledger
  <1> QED
    BY <1>1, <1>2, <1>3

\* A set of numbers that is not empty has a least one.
LEMMA LeastIsThere ==
    ASSUME NEW S \in SUBSET Nat, S # {}
    PROVE  Min(S) \in S
  <1>1. PICK m \in S : \A y \in S : ~(<<y, m>> \in OpToRel(<, Nat))
    BY WFMin, NatLessThanWellFounded
  <1>2. ASSUME NEW y \in S
        PROVE  m <= y
    <2>1. m \in Nat /\ y \in Nat
      OBVIOUS
    <2>2. ASSUME y < m PROVE FALSE
      <3>1. <<y, m>> \in OpToRel(<, Nat)
        BY <2>1, <2>2 DEF OpToRel
      <3> QED
        BY <1>1, <3>1
    <2> QED
      BY <2>1, <2>2
  <1> QED
    BY <1>2 DEF Min

LEMMA PlanIsOfTests ==
    ASSUME AcceptanceAssumption
    PROVE  /\ DOMAIN Plan \subseteq Nat /\ \A i \in DOMAIN Plan : Plan[i] \in Test
           /\ Expected \subseteq Test
  BY DEF AcceptanceAssumption, Expected, Range

\* An event counts for a test that has no record.
LEMMA CountedIsPending ==
    ASSUME AcceptanceAssumption, AcceptanceTyped, NEW r, NEW tool \in Tool,
           NEW phase \in {"started", "completed"}
    PROVE  \/ Counted(r, tool, phase) = ledger
           \/ \E l \in Ledger : /\ r \in Run /\ Running(r) /\ Counting(r, l)
                                /\ Counted(r, tool, phase) = [ledger EXCEPT ![r] = l]
  <1>1. SUFFICES ASSUME r \in Run, Running(r), PendingTests(r) # {}
                 PROVE  \E l \in Ledger : /\ Counting(r, l)
                                          /\ Counted(r, tool, phase) = [ledger EXCEPT ![r] = l]
    BY DEF Counted
  <1> DEFINE t == Plan[Min(PendingTests(r))]
             k == [ledger[r].counts[t] EXCEPT ![tool][phase] = @ + 1]
             l == [ledger[r] EXCEPT !.counts = [ledger[r].counts EXCEPT ![t] = k]]
  <1>2. t \in Test /\ ~HasRecord(r, t)
    <2>1. PendingTests(r) \in SUBSET Nat
      BY PlanIsOfTests DEF PendingTests
    <2>2. Min(PendingTests(r)) \in PendingTests(r)
      BY <1>1, <2>1, LeastIsThere
    <2> QED
      BY <2>2, PlanIsOfTests DEF PendingTests
  <1>3. ledger[r] \in Ledger /\ ledger[r].counts \in [Test -> Counts]
    BY <1>1, LedgerFields DEF AcceptanceTyped
  <1>4. Counted(r, tool, phase) = [ledger EXCEPT ![r] = l]
    BY <1>1 DEF Counted
  <1> HIDE DEF t
  <1>5. k \in Counts
    <2>1. ledger[r].counts[t] \in Counts
      BY <1>2, <1>3
    <2>2. ledger[r].counts[t][tool] \in CallCount
      BY <2>1 DEF Counts
    <2>3. [ledger[r].counts[t][tool] EXCEPT ![phase] = ledger[r].counts[t][tool][phase] + 1] \in CallCount
      BY <2>2 DEF CallCount
    <2> QED
      BY <2>1, <2>3 DEF Counts
  <1> HIDE DEF k
  <1>6. [ledger[r].counts EXCEPT ![t] = k] \in [Test -> Counts]
    BY <1>3, <1>5
  <1>7. l \in Ledger
    BY <1>3, <1>6, WithCounts
  <1> QED
    BY <1>2, <1>4, <1>5, <1>7 DEF Counting

(* Records.                                                                *)

LEMMA CitationsAre ==
    ASSUME NEW r, NEW cited \in Citations(r)
    PROVE  /\ cited \in Seq(EvidenceRef) /\ DOMAIN cited = 1 .. Len(cited)
           /\ \A j \in DOMAIN cited : cited[j] \in EvidenceRef
  <1>1. PICK n \in Nat : cited \in [1 .. n -> Citable(r)]
    BY DEF Citations, BoundedSeq, SeqOf
  <1>2. Citable(r) \subseteq EvidenceRef
    BY DEF Citable
  <1>3. cited \in [1 .. n -> EvidenceRef]
    BY <1>1, <1>2
  <1> QED
    BY <1>3

\* An attempt says what its contract made of the claim.
LEMMA RecordIsJudged ==
    ASSUME AcceptanceAssumption, AcceptanceTyped, NEW r \in Run, NEW t \in Test,
           NEW claimed \in {"pass", "fail"}, NEW cited \in Citations(r), NEW met \in BOOLEAN,
           Record(r, t, claimed, cited, met)
    PROVE  \E l \in Ledger : Running(r) /\ Judging(r, l) /\ ledger' = [ledger EXCEPT ![r] = l]
  <1> DEFINE refs == [i \in DOMAIN cited |-> [ref |-> cited[i], captured |-> r \in captures[cited[i]]]]
             need == TestContract[t]
             try == [claimed |-> claimed, outcome |-> Effective(r, t, claimed, refs, met),
                     refs |-> refs, judged |-> ledger[r].counts[t]]
             history == [ledger[r].history EXCEPT ![t] = Append(ledger[r].history[t], try)]
             l == [ledger[r] EXCEPT !.history = history]
  <1>1. ledger[r] \in Ledger /\ ledger[r].counts[t] \in Counts /\ ledger[r].history \in [Test -> Seq(Attempt)]
    <2>1. ledger[r] \in Ledger
      BY DEF AcceptanceTyped
    <2> QED
      BY <2>1, LedgerFields
  <1>2. /\ cited \in Seq(EvidenceRef) /\ DOMAIN cited = 1 .. Len(cited)
        /\ \A j \in DOMAIN cited : cited[j] \in EvidenceRef
    BY CitationsAre
  <1>3. refs \in Seq(CitedRef) /\ DOMAIN refs = DOMAIN cited
    <2>1. refs \in [1 .. Len(cited) -> CitedRef] /\ Len(cited) \in Nat
      BY <1>2 DEF CitedRef
    <2> QED
      BY <2>1
  <1>4. \A j \in DOMAIN refs : /\ refs[j].ref = cited[j]
                              /\ refs[j].captured = (r \in captures[cited[j]])
    BY <1>3
  <1>5. CitesItsOwn(r, ledger[r].scope, refs)
    <2>1. \A j \in DOMAIN cited : cited[j] \in Citable(r)
      BY DEF Record, Range
    <2> QED
      BY <1>3, <1>4, <2>1 DEF CitesItsOwn, Citable
  <1>6. Running(r) /\ ledger' = [ledger EXCEPT ![r] = l]
    BY DEF Record, ScopeHolds
  <1> HIDE DEF refs
  <1>7. Effective(r, t, claimed, refs, met) \in Outcome
    BY DEF Effective, Outcome
  <1>8. try \in Attempt
    BY <1>1, <1>3, <1>7 DEF Attempt
  <1>9. try.outcome = "pass" => Met(need, Len(ledger[r].history[t]) + 1, try)
    <2>1. SUFFICES ASSUME Effective(r, t, claimed, refs, met) = "pass"
                   PROVE  Met(need, Len(ledger[r].history[t]) + 1, try)
      OBVIOUS
    <2>2. claimed = "pass" /\ ~Violated(r, t, refs) /\ ~Incomplete(r, t, refs, met)
      BY <2>1 DEF Effective
    <2>3. need \in ContractType /\ need.required \subseteq Tool /\ need.forbidden \subseteq Tool
          /\ need.limit \in [Tool -> Nat] /\ need.minRefs \in Nat /\ need.prior \in Nat
      BY DEF AcceptanceAssumption, ContractType
    <2> HIDE DEF need
    <2>4. \A tool \in Tool : /\ ledger[r].counts[t][tool].started \in Nat
                             /\ ledger[r].counts[t][tool].completed \in Nat
      BY <1>1 DEF Counts, CallCount
    <2>5. Len(ledger[r].history[t]) \in Nat /\ Len(refs) \in Nat
      BY <1>1, <1>3
    <2>6. /\ \A tool \in need.required : ledger[r].counts[t][tool].completed # 0
          /\ ~(Len(ledger[r].history[t]) < need.prior) /\ ~(Len(refs) < need.minRefs)
      BY <2>2 DEF Incomplete, need
    <2>7. /\ \A tool \in Tool : ~(ledger[r].counts[t][tool].started > need.limit[tool])
          /\ \A tool \in need.forbidden : ~(ledger[r].counts[t][tool].started > 0)
          /\ need.current => \A j \in DOMAIN refs : refs[j].captured
      BY <2>2 DEF Violated, need
    <2>8. try.claimed = claimed /\ try.judged = ledger[r].counts[t] /\ try.refs = refs
      OBVIOUS
    <2> HIDE DEF try
    <2>9. \A tool \in need.required : ledger[r].counts[t][tool].completed > 0
      BY <2>3, <2>4, <2>6
    <2>10. \A tool \in Tool : ledger[r].counts[t][tool].started <= need.limit[tool]
      BY <2>3, <2>4, <2>7
    <2>11. \A tool \in need.forbidden : ledger[r].counts[t][tool].started = 0
      BY <2>3, <2>4, <2>7
    <2>12. Len(ledger[r].history[t]) + 1 > need.prior /\ Len(refs) >= need.minRefs
      BY <2>3, <2>5, <2>6
    <2> QED
      BY <2>2, <2>7, <2>8, <2>9, <2>10, <2>11, <2>12 DEF Met
  <1>10. try.judged = ledger[r].counts[t] /\ try.refs = refs
    OBVIOUS
  <1> HIDE DEF try
  <1>11. history \in [Test -> Seq(Attempt)]
    BY <1>1, <1>8
  <1>12. l \in Ledger
    <2> HIDE DEF history
    <2> QED
      BY <1>1, <1>11, WithHistory
  <1>13. Judging(r, l)
    BY <1>5, <1>8, <1>9, <1>10 DEF Judging
  <1> QED
    BY <1>6, <1>12, <1>13

LEMMA LedgersChange ==
    ASSUME AcceptanceAssumption, AcceptanceTyped, AcceptanceNext
    PROVE  \/ ledger' = ledger
           \/ \E r \in Run, l \in Ledger : Change(r, l) /\ ledger' = [ledger EXCEPT ![r] = l]
  <1>t. \A r \in Run : ledger[r] \in Ledger
    BY DEF AcceptanceTyped
  <1>1. ASSUME NEW c \in Call, StartEvent(c) \/ CompleteEvent(c)
        PROVE  \/ ledger' = ledger
               \/ \E r \in Run, l \in Ledger : Change(r, l) /\ ledger' = [ledger EXCEPT ![r] = l]
    <2>1. call[c].tool \in Tool
      BY DEF AcceptanceTyped, CallState
    <2>2. PICK phase \in {"started", "completed"} : ledger' = Counted(call[c].events, call[c].tool, phase)
      BY <1>1 DEF StartEvent, CompleteEvent
    <2> QED
      BY <2>1, <2>2, CountedIsPending DEF Change
  <1>2. ASSUME NEW c \in Call, NEW r \in Run, StartRun(c, r)
        PROVE  \E l \in Ledger : Change(r, l) /\ ledger' = [ledger EXCEPT ![r] = l]
    <2>1. [NoLedger EXCEPT !.status = "running", !.scope = source] \in Ledger
      BY NoLedgerIsLedger DEF AcceptanceTyped
    <2> QED
      BY <1>2, <2>1 DEF StartRun, Change, Starting
  <1>3. ASSUME NEW r \in Run, NEW i \in Inv, NEW outcome \in {"hold", "violation"},
               RecordInvariant(r, i, outcome)
        PROVE  \E l \in Ledger : Change(r, l) /\ ledger' = [ledger EXCEPT ![r] = l]
    <2> DEFINE v == [ledger[r].invariants EXCEPT ![i] = outcome]
               l == [ledger[r] EXCEPT !.invariants = v]
    <2>1. v \in [Inv -> {"", "hold", "violation"}]
      BY <1>t, LedgerFields
    <2>2. ledger' = [ledger EXCEPT ![r] = l] /\ Running(r)
      BY <1>3 DEF RecordInvariant, ScopeHolds
    <2>3. l \in Ledger
      BY <1>t, <2>1, WithInvariants
    <2> HIDE DEF v
    <2> QED
      BY <2>1, <2>2, <2>3 DEF Change, Holding
  <1>4. ASSUME NEW r \in Run, FinalizeRun(r)
        PROVE  \E l \in Ledger : Change(r, l) /\ ledger' = [ledger EXCEPT ![r] = l]
    <2> DEFINE o == IF AllPass(r) THEN "complete" ELSE "not_passed"
               l == [ledger[r] EXCEPT !.status = "completed", !.outcome = o]
    <2>1. ledger' = [ledger EXCEPT ![r] = l] /\ Running(r)
      BY <1>4 DEF FinalizeRun, ScopeHolds
    <2>2. l \in Ledger
      BY <1>t, AsCompleted
    <2>3. o = "complete" =>
              /\ \A t \in Expected : HasRecord(r, t) /\ LastOutcome(r, t) = "pass"
              /\ \A i \in Inv : ledger[r].invariants[i] = "hold"
      BY <1>4, PlanIsOfTests DEF FinalizeRun, AllPass
    <2>4. o \in {"complete", "not_passed"}
      OBVIOUS
    <2> HIDE DEF o
    <2> QED
      BY <2>1, <2>2, <2>3, <2>4 DEF Change, Completing
  <1>5. ASSUME NEW r \in Run, NEW t \in Test, NEW claimed \in {"pass", "fail"},
               NEW cited \in Citations(r), NEW met \in BOOLEAN, Record(r, t, claimed, cited, met)
        PROVE  \E l \in Ledger : Change(r, l) /\ ledger' = [ledger EXCEPT ![r] = l]
    BY <1>5, RecordIsJudged DEF Change
  <1>6. ASSUME \/ \E c \in Call :
                    \/ \E tool \in Tool, r \in Run \cup {NoRun} : BeginCall(c, tool, r)
                    \/ EndCall(c) \/ LoseEvent(c) \/ RunSearch(c) \/ Label(c) \/ Put(c)
                    \/ RecordCapture(c)
               \/ \E ref \in EvidenceRef : CorruptArtifact(ref)
               \/ Drift \/ Restart
        PROVE  ledger' = ledger
    BY <1>6 DEF BeginCall, EndCall, LoseEvent, RunSearch, Label, Put, RecordCapture,
                CorruptArtifact, Drift, Restart
  <1> QED
    BY <1>1, <1>2, <1>3, <1>4, <1>5, <1>6 DEF AcceptanceNext

-----------------------------------------------------------------------------
(* The other variables.                                                    *)

LEMMA CallFields ==
    ASSUME AcceptanceAssumption, NEW w \in CallState
    PROVE  /\ w.tool \in Tool /\ w.run \in Run \cup {NoRun} /\ w.events \in Run \cup {NoRun}
           /\ w.result \in State /\ w.scope \in State
           /\ \A s \in {"working", "searched", "labelled", "stored"} :
                 /\ [w EXCEPT !.step = s] \in CallState
                 /\ [w EXCEPT !.step = s, !.events = NoRun] \in CallState
                 /\ \A o \in State : /\ [w EXCEPT !.step = s, !.result = o] \in CallState
                                     /\ [w EXCEPT !.step = s, !.scope = o] \in CallState
  BY DEF CallState

LEMMA IdleFields ==
    ASSUME AcceptanceAssumption
    PROVE  /\ IdleCall \in CallState
           /\ \A s \in {"start_event", "working", "answered", "complete_event"}, tool \in Tool,
                 q, e \in Run \cup {NoRun} :
                    /\ [IdleCall EXCEPT !.step = s, !.tool = tool] \in CallState
                    /\ [IdleCall EXCEPT !.step = s, !.tool = tool, !.events = e] \in CallState
                    /\ [IdleCall EXCEPT !.step = s, !.tool = tool, !.run = q, !.events = e] \in CallState
  <1>1. IdleCall \in CallState
    BY DEF IdleCall, CallState, AcceptanceAssumption
  <1>2. ASSUME NEW s \in {"start_event", "working", "answered", "complete_event"}, NEW tool \in Tool,
               NEW q \in Run \cup {NoRun}, NEW e \in Run \cup {NoRun}
        PROVE  /\ [IdleCall EXCEPT !.step = s, !.tool = tool] \in CallState
               /\ [IdleCall EXCEPT !.step = s, !.tool = tool, !.events = e] \in CallState
               /\ [IdleCall EXCEPT !.step = s, !.tool = tool, !.run = q, !.events = e] \in CallState
    BY <1>1 DEF CallState
  <1> QED
    BY <1>1, <1>2

\* The calls in progress, the pointer and the source.
LEMMA CallsTypeStep ==
    ASSUME AcceptanceAssumption, AcceptanceTyped, AcceptanceNext
    PROVE  call' \in [Call -> CallState] /\ pointer' \in Run \cup {NoRun} /\ source' \in State
  <1>0. (\E c \in Call, r \in Run : StartRun(c, r)) \/ Drift \/ UNCHANGED <<pointer, source>>
    <2>1. ASSUME NEW c \in Call,
                 \/ \E tool \in Tool, r \in Run \cup {NoRun} : BeginCall(c, tool, r)
                 \/ StartEvent(c) \/ EndCall(c) \/ CompleteEvent(c) \/ LoseEvent(c)
                 \/ RunSearch(c) \/ Label(c) \/ Put(c) \/ RecordCapture(c)
          PROVE  UNCHANGED <<pointer, source>>
      BY <2>1 DEF BeginCall, StartEvent, EndCall, CompleteEvent, LoseEvent, RunSearch, Label, Put,
                  RecordCapture
    <2>2. ASSUME NEW r \in Run,
                 \/ \E t \in Test, claimed \in {"pass", "fail"}, cited \in Citations(r), met \in BOOLEAN :
                        Record(r, t, claimed, cited, met)
                 \/ \E i \in Inv, outcome \in {"hold", "violation"} : RecordInvariant(r, i, outcome)
                 \/ FinalizeRun(r)
          PROVE  UNCHANGED <<pointer, source>>
      BY <2>2 DEF Record, RecordInvariant, FinalizeRun
    <2> QED
      BY <2>1, <2>2 DEF AcceptanceNext, CorruptArtifact, Restart
  <1>1. pointer' \in Run \cup {NoRun}
    BY <1>0 DEF AcceptanceTyped, StartRun, Drift
  <1>2. source' \in State
    BY <1>0 DEF AcceptanceTyped, StartRun, Drift
  <1>3. \/ call' = call
        \/ call' = [c \in Call |-> IdleCall]
        \/ \E c \in Call, w \in CallState : call' = [call EXCEPT ![c] = w]
    <2>f. \A c \in Call : call[c] \in CallState
      BY DEF AcceptanceTyped
    <2>1. ASSUME NEW c \in Call, NEW tool \in Tool, NEW r \in Run \cup {NoRun}, BeginCall(c, tool, r)
          PROVE  \E w \in CallState : call' = [call EXCEPT ![c] = w]
      <3>1. PICK s \in {"start_event", "working"}, e \in Run \cup {NoRun} :
                call' = [call EXCEPT ![c] = [IdleCall EXCEPT !.step = s, !.tool = tool, !.run = r,
                                                             !.events = e]]
        BY <2>1 DEF BeginCall, AcceptanceTyped
      <3> QED
        BY <3>1, IdleFields
    <2>2. ASSUME NEW c \in Call, EndCall(c)
          PROVE  \E w \in CallState : call' = [call EXCEPT ![c] = w]
      <3>1. [IdleCall EXCEPT !.step = "complete_event", !.tool = call[c].tool, !.events = pointer]
              \in CallState
        BY <2>f, CallFields, IdleFields DEF AcceptanceTyped
      <3> QED
        BY <2>2, <3>1, IdleFields DEF EndCall
    <2>3. ASSUME NEW c \in Call, Answered(c)
          PROVE  \E w \in CallState : call' = [call EXCEPT ![c] = w]
      <3>1. [IdleCall EXCEPT !.step = "answered", !.tool = call[c].tool] \in CallState
        BY <2>f, CallFields, IdleFields
      <3> QED
        BY <2>3, <3>1 DEF Answered
    <2>4. ASSUME NEW c \in Call, StartEvent(c) \/ CompleteEvent(c) \/ LoseEvent(c)
          PROVE  \E w \in CallState : call' = [call EXCEPT ![c] = w]
      <3>1. \/ call' = [call EXCEPT ![c] = [call[c] EXCEPT !.step = "working", !.events = NoRun]]
            \/ call' = [call EXCEPT ![c] = IdleCall]
        BY <2>4 DEF StartEvent, CompleteEvent, LoseEvent
      <3> QED
        BY <2>f, <3>1, CallFields, IdleFields
    <2>5. ASSUME NEW c \in Call, RunSearch(c) \/ Label(c)
          PROVE  \E w \in CallState : call' = [call EXCEPT ![c] = w]
      <3>1. \/ call' = [call EXCEPT ![c] = [call[c] EXCEPT !.step = "searched", !.result = source]]
            \/ call' = [call EXCEPT ![c] = [call[c] EXCEPT !.step = "labelled", !.scope = source]]
            \/ call' = [call EXCEPT ![c] = [IdleCall EXCEPT !.step = "answered", !.tool = SearchTool]]
        BY <2>5 DEF RunSearch, Label
      <3>2. source \in State /\ SearchTool \in Tool
        BY DEF AcceptanceTyped, AcceptanceAssumption
      <3> QED
        BY <2>f, <3>1, <3>2, CallFields, IdleFields
    <2>6. ASSUME NEW c \in Call, Put(c)
          PROVE  \E w \in CallState : call' = [call EXCEPT ![c] = w]
      <3>1. CASE Answered(c)
        BY <2>3, <3>1
      <3>2. CASE Step(c, "stored")
        <4>1. call' = [call EXCEPT ![c] = [call[c] EXCEPT !.step = "stored"]]
          BY <3>2 DEF Step
        <4> QED
          BY <2>f, <4>1, CallFields
      <3> QED
        BY <2>6, <3>1, <3>2 DEF Put
    <2>7. ASSUME NEW c \in Call, (\E r \in Run : StartRun(c, r)) \/ RecordCapture(c)
          PROVE  \E w \in CallState : call' = [call EXCEPT ![c] = w]
      BY <2>3, <2>7 DEF StartRun, RecordCapture
    <2>8. ASSUME \/ \E r \in Run :
                      \/ \E t \in Test, claimed \in {"pass", "fail"}, cited \in Citations(r), met \in BOOLEAN :
                             Record(r, t, claimed, cited, met)
                      \/ \E i \in Inv, outcome \in {"hold", "violation"} : RecordInvariant(r, i, outcome)
                      \/ FinalizeRun(r)
                 \/ \E ref \in EvidenceRef : CorruptArtifact(ref)
                 \/ Drift
          PROVE  call' = call
      <3>1. ASSUME NEW r \in Run,
                   \/ \E t \in Test, claimed \in {"pass", "fail"}, cited \in Citations(r), met \in BOOLEAN :
                          Record(r, t, claimed, cited, met)
                   \/ \E i \in Inv, outcome \in {"hold", "violation"} : RecordInvariant(r, i, outcome)
                   \/ FinalizeRun(r)
            PROVE  call' = call
        BY <3>1 DEF Record, RecordInvariant, FinalizeRun
      <3>2. ASSUME (\E ref \in EvidenceRef : CorruptArtifact(ref)) \/ Drift
            PROVE  call' = call
        BY <3>2 DEF CorruptArtifact, Drift
      <3> QED
        BY <2>8, <3>1, <3>2
    <2>9. Restart => call' = [c \in Call |-> IdleCall]
      BY DEF Restart
    <2> QED
      BY <2>1, <2>2, <2>4, <2>5, <2>6, <2>7, <2>8, <2>9 DEF AcceptanceNext
  <1>4. call' \in [Call -> CallState]
    <2>1. IdleCall \in CallState
      BY IdleFields
    <2> QED
      BY <1>3, <2>1 DEF AcceptanceTyped
  <1> QED
    BY <1>1, <1>2, <1>4

\* A capture that was recorded stays so.
LEMMA CapturesStay ==
    ASSUME AcceptanceTyped, AcceptanceNext
    PROVE  /\ captures' \in [EvidenceRef -> SUBSET Run]
           /\ \A ref \in EvidenceRef : captures[ref] \subseteq captures'[ref]
  <1>1. ASSUME NEW c \in Call, RecordCapture(c)
        PROVE  /\ captures' \in [EvidenceRef -> SUBSET Run]
               /\ \A ref \in EvidenceRef : captures[ref] \subseteq captures'[ref]
    <2>1. captures' = [captures EXCEPT ![CaptureRef(c)] =
                          captures[CaptureRef(c)] \cup (Run \cap {call[c].run})]
      BY <1>1 DEF RecordCapture
    <2> QED
      BY <2>1 DEF AcceptanceTyped
  <1>2. CASE captures' = captures
    BY <1>2 DEF AcceptanceTyped
  <1>3. ASSUME NEW c \in Call,
               \/ \E tool \in Tool, r \in Run \cup {NoRun} : BeginCall(c, tool, r)
               \/ \E r \in Run : StartRun(c, r)
               \/ StartEvent(c) \/ EndCall(c) \/ CompleteEvent(c) \/ LoseEvent(c)
               \/ RunSearch(c) \/ Label(c) \/ Put(c)
        PROVE  captures' = captures
    BY <1>3 DEF BeginCall, StartRun, StartEvent, EndCall, CompleteEvent, LoseEvent, RunSearch, Label, Put
  <1>4. ASSUME NEW r \in Run,
               \/ \E t \in Test, claimed \in {"pass", "fail"}, cited \in Citations(r), met \in BOOLEAN :
                      Record(r, t, claimed, cited, met)
               \/ \E i \in Inv, outcome \in {"hold", "violation"} : RecordInvariant(r, i, outcome)
               \/ FinalizeRun(r)
        PROVE  captures' = captures
    BY <1>4 DEF Record, RecordInvariant, FinalizeRun
  <1>5. ASSUME (\E ref \in EvidenceRef : CorruptArtifact(ref)) \/ Drift \/ Restart
        PROVE  captures' = captures
    BY <1>5 DEF CorruptArtifact, Drift, Restart
  <1>6. (\E c \in Call : RecordCapture(c)) \/ captures' = captures
    BY <1>3, <1>4, <1>5 DEF AcceptanceNext
  <1> QED
    BY <1>1, <1>2, <1>6

-----------------------------------------------------------------------------

\* What a changed ledger says of its attempts and its outcome.
LEMMA ChangedLedger ==
    ASSUME AcceptanceAssumption, AcceptanceInv, AcceptanceNext,
           NEW r \in Run, NEW l \in Ledger, Change(r, l), ledger'[r] = l
    PROVE  AttemptsInv(r)' /\ CompleteInv(r)'
  <1>1. /\ ledger[r] \in Ledger /\ AttemptsInv(r) /\ CompleteInv(r)
        /\ ledger[r].history \in [Test -> Seq(Attempt)]
    <2>1. ledger[r] \in Ledger
      BY DEF AcceptanceInv, AcceptanceTyped
    <2> QED
      BY <2>1, LedgerFields DEF AcceptanceInv
  <1>2. \A ref \in EvidenceRef : captures[ref] \subseteq captures'[ref]
    BY CapturesStay DEF AcceptanceInv
  <1>3. ASSUME NEW refs \in Seq(CitedRef), CitesItsOwn(r, ledger[r].scope, refs)
        PROVE  \A j \in DOMAIN refs :
                  /\ refs[j].ref.scope = ledger[r].scope
                  /\ refs[j].captured => r \in captures'[refs[j].ref]
    <2>1. \A j \in DOMAIN refs : refs[j].ref \in EvidenceRef
      <3>1. \A j \in DOMAIN refs : refs[j] \in CitedRef
        OBVIOUS
      <3> QED
        BY <3>1 DEF CitedRef
    <2> QED
      BY <1>2, <1>3, <2>1 DEF CitesItsOwn
  <1>4. ASSUME NEW t \in Test, NEW n \in DOMAIN ledger[r].history[t]
        PROVE  LET try == ledger[r].history[t][n] IN
               /\ try.judged = ledger[r].counts[t]
               /\ \A j \in DOMAIN try.refs :
                     /\ try.refs[j].ref.scope = ledger[r].scope
                     /\ try.refs[j].captured => r \in captures'[try.refs[j].ref]
               /\ try.outcome = "pass" => Met(TestContract[t], n, try)
    <2>1. ledger[r].history[t][n] \in Attempt
      BY <1>1
    <2>2. ledger[r].history[t][n].refs \in Seq(CitedRef)
      BY <2>1 DEF Attempt
    <2> QED
      BY <1>1, <1>3, <2>2 DEF AttemptsInv
  <1>5. CASE Starting(r, l)
    <2>1. l.history = [t \in Test |-> << >>] /\ l.outcome = ""
      BY <1>5, NoLedgerIsLedger DEF Starting, AcceptanceInv, AcceptanceTyped
    <2>2. \A t \in Test : DOMAIN ledger'[r].history[t] = {}
      <3>1. \A t \in Test : ledger'[r].history[t] = << >>
        BY <2>1
      <3> QED
        BY <3>1
    <2> QED
      BY <2>1, <2>2 DEF AttemptsInv, CompleteInv
  <1>6. ASSUME Running(r), l.history = ledger[r].history, l.scope = ledger[r].scope,
               \A t \in Test : HasRecord(r, t) => l.counts[t] = ledger[r].counts[t]
        PROVE  AttemptsInv(r)'
    <2>1. ASSUME NEW t \in Test, NEW n \in DOMAIN ledger'[r].history[t]
          PROVE  LET try == ledger'[r].history[t][n] IN
                 /\ try.judged = ledger'[r].counts[t]
                 /\ \A j \in DOMAIN try.refs :
                       /\ try.refs[j].ref.scope = ledger'[r].scope
                       /\ try.refs[j].captured => r \in captures'[try.refs[j].ref]
                 /\ try.outcome = "pass" => Met(TestContract[t], n, try)
      <3>1. n \in DOMAIN ledger[r].history[t] /\ HasRecord(r, t)
        BY <1>6 DEF HasRecord
      <3>2. /\ ledger'[r].history[t][n] = ledger[r].history[t][n]
            /\ ledger'[r].counts[t] = ledger[r].counts[t] /\ ledger'[r].scope = ledger[r].scope
        BY <1>6, <3>1
      <3> QED
        BY <1>4, <3>1, <3>2
    <2> QED
      BY <2>1 DEF AttemptsInv, CitesItsOwn
  <1>7. CASE Running(r) /\ Counting(r, l)
    <2>1. PICK t \in Test, k \in Counts :
              ~HasRecord(r, t) /\ l = [ledger[r] EXCEPT !.counts = [ledger[r].counts EXCEPT ![t] = k]]
      BY <1>7 DEF Counting
    <2>2. ledger[r].counts \in [Test -> Counts]
      BY <1>1, LedgerFields
    <2>3. [ledger[r].counts EXCEPT ![t] = k] \in [Test -> Counts]
          /\ \A q \in Test \ {t} : [ledger[r].counts EXCEPT ![t] = k][q] = ledger[r].counts[q]
      BY <2>2
    <2>4. /\ l.counts = [ledger[r].counts EXCEPT ![t] = k] /\ l.history = ledger[r].history
          /\ l.scope = ledger[r].scope /\ l.outcome = ledger[r].outcome
      BY <1>1, <2>1, <2>3, WithCounts DEF SameBut
    <2>5. AttemptsInv(r)'
      BY <1>6, <1>7, <2>1, <2>3, <2>4
    <2> QED
      BY <1>1, <1>7, <2>4, <2>5 DEF CompleteInv, Running
  <1>8. CASE Running(r) /\ Holding(r, l)
    <2>1. /\ l.counts = ledger[r].counts /\ l.history = ledger[r].history
          /\ l.scope = ledger[r].scope /\ l.outcome = ledger[r].outcome
      <3>1. PICK v \in [Inv -> {"", "hold", "violation"}] : l = [ledger[r] EXCEPT !.invariants = v]
        BY <1>8 DEF Holding
      <3> QED
        <4>1. l.invariants = v /\ SameBut(ledger[r], l, {"invariants"})
          BY <1>1, <3>1, WithInvariants
        <4> QED
          BY <4>1 DEF SameBut
    <2> QED
      BY <1>1, <1>6, <1>8, <2>1 DEF CompleteInv, Running
  <1>9. CASE Running(r) /\ Completing(r, l)
    <2>1. PICK o \in {"complete", "not_passed"} :
              /\ l = [ledger[r] EXCEPT !.status = "completed", !.outcome = o]
              /\ o = "complete" =>
                    /\ \A t \in Expected : HasRecord(r, t) /\ LastOutcome(r, t) = "pass"
                    /\ \A i \in Inv : ledger[r].invariants[i] = "hold"
      BY <1>9 DEF Completing
    <2>2. /\ l.counts = ledger[r].counts /\ l.history = ledger[r].history
          /\ l.scope = ledger[r].scope /\ l.outcome = o /\ l.status = "completed"
          /\ l.invariants = ledger[r].invariants
      <3>1. l = [ledger[r] EXCEPT !.status = "completed", !.outcome = o]
        BY <2>1
      <3>2. l.status = "completed" /\ l.outcome = o /\ SameBut(ledger[r], l, {"status"})
        BY <1>1, <3>1, AsCompleted
      <3> QED
        BY <3>2 DEF SameBut
    <2>3. CompleteInv(r)'
      BY <2>1, <2>2 DEF CompleteInv, HasRecord, LastOutcome
    <2> QED
      BY <1>6, <1>9, <2>2, <2>3
  <1>10. CASE Running(r) /\ Judging(r, l)
    <2>1. PICK t \in Test, try \in Attempt :
              /\ l = [ledger[r] EXCEPT !.history =
                         [ledger[r].history EXCEPT ![t] = Append(ledger[r].history[t], try)]]
              /\ try.judged = ledger[r].counts[t]
              /\ CitesItsOwn(r, ledger[r].scope, try.refs)
              /\ try.outcome = "pass" => Met(TestContract[t], Len(ledger[r].history[t]) + 1, try)
      BY <1>10 DEF Judging
    <2> DEFINE h == [ledger[r].history EXCEPT ![t] = Append(ledger[r].history[t], try)]
    <2>2. /\ h \in [Test -> Seq(Attempt)] /\ h[t] = Append(ledger[r].history[t], try)
          /\ \A q \in Test \ {t} : h[q] = ledger[r].history[q]
      BY <1>1
    <2> HIDE DEF h
    <2>3. /\ l.counts = ledger[r].counts /\ l.history = h
          /\ l.scope = ledger[r].scope /\ l.outcome = ledger[r].outcome
      BY <1>1, <2>1, <2>2, WithHistory DEF h, SameBut
    <2>4. ASSUME NEW q \in Test, NEW n \in DOMAIN ledger'[r].history[q]
          PROVE  LET it == ledger'[r].history[q][n] IN
                 /\ it.judged = ledger'[r].counts[q]
                 /\ \A j \in DOMAIN it.refs :
                       /\ it.refs[j].ref.scope = ledger'[r].scope
                       /\ it.refs[j].captured => r \in captures'[it.refs[j].ref]
                 /\ it.outcome = "pass" => Met(TestContract[q], n, it)
      <3>1. CASE q # t
        <4>1. ledger'[r].history[q] = ledger[r].history[q]
          BY <2>2, <2>3, <3>1
        <4> QED
          BY <1>4, <2>3, <4>1
      <3>2. CASE q = t
        <4>1. ledger[r].history[t] \in Seq(Attempt) /\ ledger'[r].history[q] = Append(ledger[r].history[t], try)
          BY <1>1, <2>2, <2>3, <3>2
        <4>2. CASE n \in DOMAIN ledger[r].history[t]
          <5>1. /\ ledger'[r].history[q][n] = ledger[r].history[q][n] /\ n \in DOMAIN ledger[r].history[q]
                /\ ledger'[r].counts[q] = ledger[r].counts[q] /\ ledger'[r].scope = ledger[r].scope
            BY <2>3, <3>2, <4>1, <4>2
          <5>2. LET it == ledger[r].history[q][n] IN
                /\ it.judged = ledger[r].counts[q]
                /\ \A j \in DOMAIN it.refs :
                      /\ it.refs[j].ref.scope = ledger[r].scope
                      /\ it.refs[j].captured => r \in captures'[it.refs[j].ref]
                /\ it.outcome = "pass" => Met(TestContract[q], n, it)
            BY <1>4, <5>1
          <5> QED
            BY <5>1, <5>2
        <4>3. CASE n = Len(ledger[r].history[t]) + 1
          <5>1. ledger'[r].history[q][n] = try
            BY <4>1, <4>3
          <5>2. try.refs \in Seq(CitedRef)
            BY DEF Attempt
          <5>3. \A j \in DOMAIN try.refs :
                   /\ try.refs[j].ref.scope = ledger[r].scope
                   /\ try.refs[j].captured => r \in captures'[try.refs[j].ref]
            BY <1>3, <2>1, <5>2
          <5>4. ledger'[r].counts[q] = ledger[r].counts[t] /\ ledger'[r].scope = ledger[r].scope
            BY <2>3, <3>2
          <5> QED
            BY <2>1, <3>2, <4>3, <5>1, <5>3, <5>4
        <4>4. n \in DOMAIN ledger[r].history[t] \/ n = Len(ledger[r].history[t]) + 1
          BY <4>1
        <4> QED
          BY <4>2, <4>3, <4>4
      <3> QED
        BY <3>1, <3>2
    <2>5. AttemptsInv(r)'
      BY <2>4 DEF AttemptsInv, CitesItsOwn
    <2> QED
      BY <1>1, <1>10, <2>3, <2>5 DEF CompleteInv, Running
  <1> QED
    BY <1>5, <1>7, <1>8, <1>9, <1>10 DEF Change

\* Of what a ledger says while the source, the captures and other ledgers change.
LEMMA SameLedger ==
    ASSUME AcceptanceInv, NEW r \in Run, ledger'[r] = ledger[r],
           \A ref \in EvidenceRef : captures[ref] \subseteq captures'[ref]
    PROVE  AttemptsInv(r)' /\ CompleteInv(r)'
  <1>1. ASSUME NEW t \in Test, NEW n \in DOMAIN ledger'[r].history[t]
        PROVE  LET try == ledger'[r].history[t][n] IN
               /\ try.judged = ledger'[r].counts[t]
               /\ \A j \in DOMAIN try.refs :
                     /\ try.refs[j].ref.scope = ledger'[r].scope
                     /\ try.refs[j].captured => r \in captures'[try.refs[j].ref]
               /\ try.outcome = "pass" => Met(TestContract[t], n, try)
    <2>1. ledger[r].history[t] \in Seq(Attempt)
      <3>1. ledger[r] \in Ledger
        BY DEF AcceptanceInv, AcceptanceTyped
      <3> QED
        BY <3>1, LedgerFields
    <2>2. ledger[r].history[t][n] \in Attempt
      BY <2>1
    <2>3. \A j \in DOMAIN ledger[r].history[t][n].refs : ledger[r].history[t][n].refs[j].ref \in EvidenceRef
      <3>1. ledger[r].history[t][n].refs \in Seq(CitedRef)
        BY <2>2 DEF Attempt
      <3>2. \A j \in DOMAIN ledger[r].history[t][n].refs : ledger[r].history[t][n].refs[j] \in CitedRef
        BY <3>1
      <3> QED
        BY <3>2 DEF CitedRef
    <2>4. /\ ledger[r].history[t][n].judged = ledger[r].counts[t]
          /\ CitesItsOwn(r, ledger[r].scope, ledger[r].history[t][n].refs)
          /\ ledger[r].history[t][n].outcome = "pass" => Met(TestContract[t], n, ledger[r].history[t][n])
      BY DEF AcceptanceInv, AttemptsInv
    <2>5. \A j \in DOMAIN ledger[r].history[t][n].refs :
             /\ ledger[r].history[t][n].refs[j].ref.scope = ledger[r].scope
             /\ ledger[r].history[t][n].refs[j].captured => r \in captures'[ledger[r].history[t][n].refs[j].ref]
      BY <2>3, <2>4 DEF CitesItsOwn
    <2> QED
      BY <2>4, <2>5
  <1>2. AttemptsInv(r)'
    BY <1>1 DEF AttemptsInv, CitesItsOwn
  <1>3. CompleteInv(r)'
    BY DEF AcceptanceInv, CompleteInv, HasRecord, LastOutcome
  <1> QED
    BY <1>2, <1>3

\* Every attempt is judged on what its ledger still says: the inductive invariant.
THEOREM AcceptanceInvCorrect ==
    ASSUME AcceptanceAssumption
    PROVE  AcceptanceSpec => []AcceptanceInv
  <1>1. AcceptanceInit => AcceptanceInv
    <2>1. SUFFICES ASSUME AcceptanceInit PROVE AcceptanceInv
      OBVIOUS
    <2>2. Origin \in State
      BY DEF AcceptanceAssumption
    <2>3. AcceptanceTyped
      BY <2>1, <2>2, NoLedgerIsLedger, IdleFields DEF AcceptanceInit, AcceptanceTyped
    <2>4. \A r \in Run : ledger[r].history = [t \in Test |-> << >>] /\ ledger[r].outcome = ""
      BY <2>1, <2>2, NoLedgerIsLedger DEF AcceptanceInit
    <2>5. \A r \in Run, t \in Test : DOMAIN ledger[r].history[t] = {}
      <3>1. \A r \in Run, t \in Test : ledger[r].history[t] = << >>
        BY <2>4
      <3> QED
        BY <3>1
    <2> QED
      BY <2>3, <2>4, <2>5 DEF AcceptanceInv, AttemptsInv, CompleteInv
  <1>2. AcceptanceInv /\ [AcceptanceNext]_acceptanceVars => AcceptanceInv'
    <2>1. ASSUME AcceptanceInv, AcceptanceNext PROVE AcceptanceInv'
      <3>1. /\ call' \in [Call -> CallState] /\ pointer' \in Run \cup {NoRun} /\ source' \in State
            /\ captures' \in [EvidenceRef -> SUBSET Run]
            /\ \A ref \in EvidenceRef : captures[ref] \subseteq captures'[ref]
        BY <2>1, CallsTypeStep, CapturesStay DEF AcceptanceInv
      <3>2. CASE ledger' = ledger
        BY <2>1, <3>1, <3>2, SameLedger DEF AcceptanceInv, AcceptanceTyped
      <3>3. ASSUME NEW r \in Run, NEW l \in Ledger, Change(r, l), ledger' = [ledger EXCEPT ![r] = l]
            PROVE  AcceptanceInv'
        <4>1. /\ ledger' \in [Run -> Ledger] /\ ledger'[r] = l
              /\ \A q \in Run \ {r} : ledger'[q] = ledger[q]
          BY <2>1, <3>3 DEF AcceptanceInv, AcceptanceTyped
        <4>2. AttemptsInv(r)' /\ CompleteInv(r)'
          BY <2>1, <3>3, <4>1, ChangedLedger
        <4>3. \A q \in Run \ {r} : AttemptsInv(q)' /\ CompleteInv(q)'
          BY <2>1, <3>1, <4>1, SameLedger
        <4> QED
          BY <3>1, <4>1, <4>2, <4>3 DEF AcceptanceInv, AcceptanceTyped
      <3> QED
        BY <2>1, <3>2, <3>3, LedgersChange DEF AcceptanceInv
    <2>2. ASSUME AcceptanceInv, UNCHANGED acceptanceVars PROVE AcceptanceInv'
      <3>1. UNCHANGED <<ledger, pointer, source, captures, call>>
        BY <2>2 DEF acceptanceVars
      <3>2. \A r \in Run : AttemptsInv(r)' /\ CompleteInv(r)'
        BY <2>2, <3>1, SameLedger
      <3> QED
        BY <2>2, <3>1, <3>2 DEF AcceptanceInv, AcceptanceTyped
    <2> QED
      BY <2>1, <2>2
  <1> QED
    BY <1>1, <1>2, PTL DEF AcceptanceSpec

\* A run that ended "complete" has earned every expected test, and every attempt was judged on
\* the provenance the ledger still shows for it.
THEOREM VerdictsStandCorrect ==
    ASSUME AcceptanceAssumption
    PROVE  AcceptanceSpec => []VerdictsStand
  <1>1. AcceptanceInv => VerdictsStand
    <2>1. SUFFICES ASSUME AcceptanceInv PROVE VerdictsStand
      OBVIOUS
    <2>2. \A r \in Run, t \in Expected : \A i \in DOMAIN ledger[r].history[t] :
              ledger[r].history[t][i].judged = ledger[r].counts[t]
      BY <2>1, PlanIsOfTests DEF AcceptanceInv, AttemptsInv
    <2>3. ASSUME NEW r \in Run, ledger[r].outcome = "complete", NEW t \in Expected
          PROVE  Earned(r, t)
      <3>1. t \in Test /\ HasRecord(r, t) /\ LastOutcome(r, t) = "pass"
        BY <2>1, <2>3, PlanIsOfTests DEF AcceptanceInv, CompleteInv
      <3>2. ledger[r].history[t] \in Seq(Attempt)
        <4>1. ledger[r] \in Ledger
          BY <2>1 DEF AcceptanceInv, AcceptanceTyped
        <4> QED
          BY <3>1, <4>1, LedgerFields
      <3> DEFINE n == Len(ledger[r].history[t])
                 final == ledger[r].history[t][n]
      <3>3. n \in DOMAIN ledger[r].history[t] /\ Last(ledger[r].history[t]) = final
        BY <3>1, <3>2 DEF HasRecord, Last
      <3>4. final.outcome = "pass"
        BY <3>1, <3>3 DEF LastOutcome
      <3>5. /\ final.judged = ledger[r].counts[t] /\ CitesItsOwn(r, ledger[r].scope, final.refs)
            /\ Met(TestContract[t], n, final)
        BY <2>1, <3>1, <3>3, <3>4 DEF AcceptanceInv, AttemptsInv
      <3> HIDE DEF final
      <3> QED
        BY <3>1, <3>3, <3>5 DEF Earned, Met, CitesItsOwn
    <2> QED
      BY <2>1, <2>2, <2>3 DEF VerdictsStand, AcceptanceInv, CompleteInv
  <1> QED
    BY <1>1, AcceptanceInvCorrect, PTL
=============================================================================
