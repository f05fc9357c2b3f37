--------------------------- MODULE ReliabilityRuns ---------------------------
(***************************************************************************)
(* One reliability run (reliability.py, claim_graph.py): checks, claims     *)
(* with verifier receipts, a graph of assessments with the evidence they    *)
(* cite, verification checkpoints, a corrective budget and the gate that    *)
(* decides how the run ends.                                                *)
(*                                                                         *)
(* Every operation reads the file of the run under its lock, changes it and *)
(* writes it back, so each is one step here, whichever of the clients makes *)
(* it.  What a checkpoint found is stored; the gate at the end trusts it as *)
(* long as no operation has marked it stale, while evidence is outside the *)
(* lock and may become unreadable at any time.                             *)
(*                                                                         *)
(* Data: an assessment is its kind, status, authority, whether it is        *)
(* required, its evidence and its requirements; a relation is identified by *)
(* its ends and its type, as when no identifier is given.  The report and   *)
(* the capture of the result in the project's continuity are left out.      *)
(***************************************************************************)
EXTENDS Integers, FiniteSets

CONSTANTS
    Check,          \* names of checks
    Declared,       \* required_checks and required_properties of the start
    Claim,          \* identifiers of claims
    Contract,       \* required_claims of the start
    Ship,           \* the mode is "ship"
    Node,           \* identifiers of assessments
    Ref, Scope, ScopeOf,    \* evidence and the scope it is of
    Degraded,       \* evidence of a search whose reranker failed
    Budget,         \* corrective_budget
    Assessments,    \* the assessments the clients record
    Receipts,       \* the claims they record
    Embedded,       \* the sets of relations they record with an assessment
    MaxOps          \* bound: operations of a run

Kind == {"claim", "hypothesis", "observation", "question", "contradiction", "gap",
         "decision", "note"}
NodeStatus == {"open", "supported", "contradicted", "resolved", "incomplete", "not_established"}
Authority == {"tool_evidence", "source_evidence", "user_supplied_evidence",
              "environment_observation", "analyst_observation", "model_inference",
              "external_reference", "legacy_observation", "runtime_observation"}
RelationType == {"supports", "derived_from"}    \* the ones the checkpoint reads

Assessment == [kind : Kind, status : NodeStatus, authority : Authority, required : BOOLEAN,
               refs : SUBSET Ref, requirements : SUBSET {"reranker_complete", "single_evidence_scope"}]
ClaimStatus == {"VERIFIED", "REFUTED", "INCONCLUSIVE", "STALE", "CONFLICT"}
(* about stands for the repository, the subject and the predicate. *)
Receipt == [about : Nat, value : Nat, status : ClaimStatus, required : BOOLEAN,
            negates : SUBSET Claim, receipt : BOOLEAN]
CheckStatus == {"absent", "passed", "failed", "blocked", "skipped"}

\* What the constants are assumed to be.
ASSUME ReliabilityAssumption ==
    /\ Declared \subseteq Check /\ Declared # {} /\ Contract \subseteq Claim
    /\ Ship \in BOOLEAN /\ Budget \in 0..8 /\ MaxOps \in Nat
    /\ ScopeOf \in [Ref -> Scope] /\ Degraded \subseteq Ref
    /\ Assessments \subseteq Assessment /\ Receipts \subseteq Receipt
    /\ Embedded \subseteq SUBSET (RelationType \X Node)
    \* a note is never required
    /\ \A a \in Assessments : a.kind = "note" => ~a.required

Result == {"CONTRADICTED", "BLOCKED", "INCOMPLETE", "NOT_APPLICABLE", "VERIFIED",
           "VERIFIED_WITH_FINDINGS"}
Passing == {"VERIFIED", "VERIFIED_WITH_FINDINGS"}
Final == {"passed", "failed", "blocked", "reliably-paused"}
Absent == [absent |-> TRUE]
AbsentCheck == [status |-> "absent", required |-> FALSE]

VARIABLES
    status,     \* of the run
    checks,     \* [Check -> status and required]
    claims,     \* [Claim -> Receipt \cup {Absent}]
    nodes,      \* [Node -> Assessment \cup {Absent}]
    relations,  \* set of <<from, type, to>>
    checkpoint, \* result of the latest checkpoint, or "none"
    stale,      \* verification_stale
    used,       \* corrective budget used
    readable,   \* the evidence whose integrity holds
    ops

vars == <<status, checks, claims, nodes, relations, checkpoint, stale, used, readable, ops>>

(* start_run: what was declared is a required check that is not run yet. *)
Init ==
    /\ status = "in_progress"
    /\ checks = [c \in Check |-> IF c \in Declared THEN [status |-> "blocked", required |-> TRUE]
                                                   ELSE AbsentCheck]
    /\ claims = [c \in Claim |-> Absent]
    /\ nodes = [n \in Node |-> Absent]
    /\ relations = {}
    /\ checkpoint = "none" /\ stale = FALSE
    /\ used = 0 /\ readable = Ref /\ ops = 0

Recorded(f) == {x \in DOMAIN f : f[x] # Absent}

-----------------------------------------------------------------------------
(* Claims and their gate. *)

(* A claim certifies nothing about itself without a verifier's receipt. *)
Normalized(claim) ==
    IF claim.status \in {"VERIFIED", "REFUTED"} /\ ~claim.receipt
    THEN [claim EXCEPT !.status = "INCONCLUSIVE"] ELSE claim

(* Mutant: negations are looked up from one side only. *)
ConflictByValue(f) ==
    \E c, d \in Recorded(f) :
        /\ f[c].status = "VERIFIED" /\ f[d].status = "VERIFIED"
        /\ f[c].about = f[d].about /\ f[c].value # f[d].value

(* Two verified claims that give one thing two values, or one negates. *)
Conflict(f) ==
    \E c, d \in Recorded(f) :
        /\ f[c].status = "VERIFIED" /\ f[d].status = "VERIFIED"
        /\ \/ f[c].about = f[d].about /\ f[c].value # f[d].value
           \/ d \in f[c].negates

RequiredClaims(f) == {c \in Recorded(f) : f[c].required \/ c \in Contract}

ClaimGate(f) ==
    CASE ~(Contract \subseteq Recorded(f)) -> "blocked"
      [] Contract \subseteq Recorded(f) /\ RequiredClaims(f) = {} ->
            IF Ship THEN "blocked" ELSE "not_applicable"
      [] OTHER ->
            IF Conflict(f) \/ \E c \in RequiredClaims(f) : f[c].status \in {"REFUTED", "CONFLICT"}
            THEN "failed"
            ELSE IF \A c \in RequiredClaims(f) : f[c].status = "VERIFIED" THEN "passed" ELSE "blocked"

-----------------------------------------------------------------------------
(* The verification of the graph, over the evidence that can be read. *)

Cited == UNION {nodes[n].refs : n \in Recorded(nodes)}
Backed(available) == {n \in Recorded(nodes) : nodes[n].refs \cap available # {}}

(* What supports a node, by a relation of either direction. *)
Supporters(n) == {m \in Node : <<n, "derived_from", m>> \in relations
                            \/ <<m, "supports", n>> \in relations}

Settled(n) ==
    IF nodes[n].kind \in {"gap", "question", "contradiction"}
    THEN nodes[n].status = "resolved"
    ELSE nodes[n].kind \in {"claim", "decision", "observation"}
         => nodes[n].status \in {"supported", "resolved"}

(* An assertion rests on evidence of its own, or an inference on evidence   *)
(* of a node it is related to; statements of people need none.             *)
Grounded(n, available) ==
    nodes[n].kind \in {"claim", "decision", "observation"} =>
        CASE nodes[n].authority \in {"tool_evidence", "source_evidence", "environment_observation",
                                     "runtime_observation", "external_reference"} ->
                n \in Backed(available)
          [] nodes[n].authority = "model_inference" ->
                n \in Backed(available) \/ Supporters(n) \cap Backed(available) # {}
          [] OTHER -> TRUE

Required == {n \in Recorded(nodes) : nodes[n].required}

Unsatisfied(n, available) ==
    LET seen == nodes[n].refs \cap available
    IN \/ "reranker_complete" \in nodes[n].requirements /\ seen \cap Degraded # {}
       \/ "single_evidence_scope" \in nodes[n].requirements /\ Cardinality({ScopeOf[r] : r \in seen}) > 1

BrokenRelations == {rel \in relations : ~({rel[1], rel[3]} \subseteq Recorded(nodes))}

Findings(available) ==
    \/ \E n \in Recorded(nodes) : nodes[n].kind \in {"gap", "question", "contradiction"}
                                  /\ nodes[n].status # "resolved"
    \/ Cited \cap available \cap Degraded # {}
    \/ Cardinality({ScopeOf[r] : r \in Cited \cap available}) > 1

Verdict(available) ==
    IF \/ \E n \in Required : nodes[n].kind = "contradiction" /\ nodes[n].status # "resolved"
       \/ ClaimGate(claims) = "failed"
    THEN "CONTRADICTED"
    ELSE IF ~(Cited \subseteq available) \/ BrokenRelations # {} THEN "BLOCKED"
    ELSE IF \/ \E n \in Required : ~Settled(n) \/ ~Grounded(n, available) \/ Unsatisfied(n, available)
            \/ ClaimGate(claims) = "blocked"
         THEN "INCOMPLETE"
    ELSE IF Recorded(nodes) = {} /\ ClaimGate(claims) = "not_applicable" THEN "NOT_APPLICABLE"
    ELSE IF Findings(available) THEN "VERIFIED_WITH_FINDINGS" ELSE "VERIFIED"

-----------------------------------------------------------------------------
(* Operations. *)

Open == status = "in_progress" /\ ops < MaxOps /\ ops' = ops + 1

(* required is the caller's word, also for a check the run declared. *)
RecordCheck(c, outcome, required) ==
    /\ Open
    /\ checks' = [checks EXCEPT ![c] = [status |-> outcome, required |-> required]]
    /\ UNCHANGED <<status, claims, nodes, relations, checkpoint, stale, used, readable>>

(* A claim the contract names stays required. *)
RecordClaim(c, receipt) ==
    /\ Open
    /\ claims' = [claims EXCEPT ![c] = [Normalized(receipt) EXCEPT !.required = @ \/ c \in Contract]]
    /\ stale' = TRUE
    /\ UNCHANGED <<status, checks, nodes, relations, checkpoint, used, readable>>

(* Mutant: an assessment that replaces one keeps the checkpoint current. *)
RecordAssessmentKeeping(n, a, rels) ==
    /\ Open
    /\ a.refs \subseteq readable
    /\ nodes' = [nodes EXCEPT ![n] = a]
    /\ relations' = relations \cup {<<n, rel[1], rel[2]>> : rel \in rels}
    /\ stale' = (stale \/ nodes[n] = Absent)
    /\ UNCHANGED <<status, checks, claims, checkpoint, used, readable>>

(* Recorded again, a node is replaced; its relations stay, also those the   *)
(* new version does not name.                                              *)
RecordAssessment(n, a, rels) ==
    /\ Open
    /\ a.refs \subseteq readable
    /\ \A rel \in rels : rel[2] \in Recorded(nodes) \cup {n}
    /\ nodes' = [nodes EXCEPT ![n] = a]
    /\ relations' = relations \cup {<<n, rel[1], rel[2]>> : rel \in rels}
    /\ stale' = TRUE
    /\ UNCHANGED <<status, checks, claims, checkpoint, used, readable>>

RecordRelation(from, type, to) ==
    /\ Open
    /\ {from, to} \subseteq Recorded(nodes)
    /\ relations' = relations \cup {<<from, type, to>>}
    /\ stale' = TRUE
    /\ UNCHANGED <<status, checks, claims, nodes, checkpoint, used, readable>>

Consume ==
    /\ Open
    /\ used < Budget
    /\ used' = used + 1
    /\ UNCHANGED <<status, checks, claims, nodes, relations, checkpoint, stale, readable>>

Checkpoint ==
    /\ Open
    /\ checkpoint' = Verdict(readable)
    /\ stale' = FALSE
    /\ UNCHANGED <<status, checks, claims, nodes, relations, used, readable>>

RequiredChecks == {c \in Check : checks[c].required}

(* The gate: what keeps the run from ending as requested, in order. *)
Gate(requested) ==
    LET paused == IF requested = "reliably-paused" THEN requested ELSE "blocked"
    IN IF Required # {} /\ (stale \/ checkpoint = "none") THEN paused
       ELSE IF Required # {} /\ checkpoint = "CONTRADICTED" THEN "failed"
       ELSE IF Required # {} /\ checkpoint \notin Passing THEN paused
       ELSE IF ClaimGate(claims) = "failed" THEN "failed"
       ELSE IF ClaimGate(claims) = "blocked" THEN paused
       ELSE IF \E c \in RequiredChecks : checks[c].status = "failed" THEN "failed"
       ELSE IF \E c \in RequiredChecks : checks[c].status \in {"blocked", "skipped"} THEN paused
       ELSE requested

(* Unlike the other operations it does not ask whether the run has ended:   *)
(* a run can be finished again.                                            *)
Finish(requested) ==
    /\ ops < MaxOps /\ ops' = ops + 1
    /\ status' = Gate(requested)
    /\ UNCHANGED <<checks, claims, nodes, relations, checkpoint, stale, used, readable>>

(* An artifact is lost, or fails its integrity check. *)
Corrupt(r) ==
    /\ r \in readable
    /\ readable' = readable \ {r}
    /\ UNCHANGED <<status, checks, claims, nodes, relations, checkpoint, stale, used, ops>>

Next ==
    \/ \E c \in Check, outcome \in CheckStatus \ {"absent"}, required \in BOOLEAN :
           RecordCheck(c, outcome, required)
    \/ \E c \in Claim, receipt \in Receipts : RecordClaim(c, receipt)
    \/ \E n \in Node, a \in Assessments, rels \in Embedded : RecordAssessment(n, a, rels)
    \/ \E from, to \in Node, type \in RelationType : RecordRelation(from, type, to)
    \/ Consume \/ Checkpoint
    \/ \E requested \in Final : Finish(requested)
    \/ \E r \in Ref : Corrupt(r)

Spec == Init /\ [][Next]_vars

-----------------------------------------------------------------------------
(* Properties. *)

TypeOK ==
    /\ status \in Final \cup {"in_progress"}
    /\ checks \in [Check -> [status : CheckStatus, required : BOOLEAN]]
    /\ claims \in [Claim -> Receipt \cup {Absent}]
    /\ nodes \in [Node -> Assessment \cup {Absent}]
    /\ relations \subseteq Node \X RelationType \X Node
    /\ checkpoint \in Result \cup {"none"}
    /\ stale \in BOOLEAN
    /\ used \in 0..Budget
    /\ readable \subseteq Ref
    /\ ops \in Nat

(* Everything a run needs to end as passed is there in the state it ended   *)
(* in, and not only in a checkpoint: the required checks passed; the claims *)
(* of the contract were verified by receipts and no two verified claims     *)
(* conflict where claims are required; every required assessment is settled *)
(* and grounded in the evidence that is cited, in its requirements.        *)
PassedIsEarned ==
    status = "passed" =>
        /\ \A c \in RequiredChecks : checks[c].status = "passed"
        /\ \A c \in Contract : /\ claims[c] # Absent
                               /\ claims[c].status = "VERIFIED" /\ claims[c].receipt
        /\ RequiredClaims(claims) # {} => \A c, d \in Recorded(claims) :
               claims[c].status = "VERIFIED" /\ claims[d].status = "VERIFIED" =>
                   /\ claims[c].about = claims[d].about => claims[c].value = claims[d].value
                   /\ d \notin claims[c].negates
        /\ \A n \in Required : Settled(n) /\ Grounded(n, Ref) /\ ~Unsatisfied(n, Ref)

(* A checkpoint that is not stale still says what a new one would say, if   *)
(* it found nothing missing: every operation on what it reads marks it.    *)
FreshCheckpointHolds ==
    ~stale /\ checkpoint \notin {"none", "BLOCKED"} /\ Cited \subseteq readable =>
        checkpoint = Verdict(readable)

=============================================================================
