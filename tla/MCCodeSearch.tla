---------------------------- MODULE MCCodeSearch ----------------------------
(***************************************************************************)
(* The components of the code search on small instances: what may be       *)
(* indexed (SourceRegistry), the index and its vectors (CodeIndex), the    *)
(* exact search (TextSearch), the evidence of what is shown                *)
(* (SourceEvidence for Git, CorpusEvidence for corpora), the call graph    *)
(* (CallGraph) and the validation of claims about it (ClaimValidation).    *)
(* They share no state that their models represent, so a behaviour is one  *)
(* of one of them: CodeIndex has its variables, the others share the cells.*)
(***************************************************************************)
EXTENDS CodeIndex, TLC

CONSTANTS w1, w2, a, b, f1, c1, c2, x, y, NoCaller, NoRun, fa, fb, fs

TwoWorkers == {w1, w2}
TwoScopes == {a, b}
OneWorker == {w1}
OneScope == {a}
OneFile == {f1}
TwoContents == {c1, c2}
Start == [f \in File |-> c1]
Each(s) == s

VARIABLES component, s1, s2, s3, s4, s5, s6, s7, s8, s9, s10, s11, s12

cells == <<s1, s2, s3, s4, s5, s6, s7, s8, s9, s10, s11, s12>>

\* Two files; an edit gives the first one match more and takes those of the second.
HitsOf == <<[v \in 0..1 |-> IF v = 0 THEN 1 ELSE 2], [v \in 0..1 |-> IF v = 0 THEN 2 ELSE 0]>>

Text == INSTANCE TextSearch WITH
    Caller <- {x, y}, NumFiles <- 2, Hits <- HitsOf, PageSize <- 2, MaxShard <- 2,
    MaxRuns <- 1, MaxEdits <- 1, MaxCalls <- 4, MaxLapses <- 1,
    source <- s1, runs <- s2, recent <- s3, old <- s4, matches <- s5, lock <- s6,
    call <- s7, chain <- s8, edited <- s9, orphaned <- s10, dropped <- s11, count <- s12

Evidence == INSTANCE SourceEvidence WITH
    File <- {f1}, Version <- 0..1, MaxActs <- 3, MaxOps <- 4,
    git <- s1, rows <- s2, state <- s3, manifest <- s4, indexing <- s5, reading <- s6,
    token <- s7, verdict <- s8, moved <- s9, count <- s10

Corpus == INSTANCE CorpusEvidence WITH
    File <- {1, 2}, Caller <- {x, y}, MaxEdits <- 2, MaxCalls <- 3,
    corpus <- s1, rows <- s2, state <- s3, manifest <- s4, call <- s5, token <- s6,
    answer <- s7, restored <- s8, count <- s9

Sample == INSTANCE SampleFiles WITH NoOwner <- None

Graph == INSTANCE CallGraph WITH
    File <- {fa, fb, fs}, Versions <- 0..1,
    SymbolsIn <- Sample!Defined, CallsIn <- Sample!Calling, ImportsIn <- Sample!Imported,
    PathDepth <- 2, PathNodes <- 4, FlowDepth <- 3, FlowNodes <- 5, FlowEdges <- 7,
    MaxChanges <- 2, MaxWalks <- 2,
    stored <- s1, edges <- s2, whole <- s3, walk <- s4, answer <- s5, count <- s6

Registry == INSTANCE SourceRegistry WITH
    Caller <- {x, y}, NumIds <- 2, MaxCalls <- 4,
    meta <- s1, call <- s2, kept <- s3, taken <- s4, count <- s5

Texts == INSTANCE SampleTexts

\* Every text, none of which moves; then few texts that are edited.
Still == INSTANCE ClaimValidation WITH
    File <- {"main", "other"}, Python <- {"main"}, MaxLine <- 5,
    Shapes <- [f \in {"main", "other"} |->
                 IF f = "main" THEN Texts!Scoped \union Texts!Bound \union
                                    {Texts!Chain, Texts!Broken} \union
                                    {Texts!Raises(o, first) : o \in {"e", "f"}, first \in BOOLEAN}
                 ELSE {Texts!Empty, Texts!Other}],
    Rewrites <- {},
    Claims <- {Texts!Claim("calls", "a", "b"), Texts!Claim("reaches", "a", "b"), Texts!Claim("reaches", "a", "c"),
               Texts!Claim("defined", "b", None), Texts!Claim("behaves", "a", None),
               Texts!Claim("behaves", "c", None)},
    MaxEdits <- 0, MaxRefreshes <- 0, MaxCalls <- 1,
    text <- s1, index <- s2, call <- s3, answer <- s4, count <- s5

Moving == INSTANCE ClaimValidation WITH
    File <- {"main", "other"}, Python <- {"main", "other"}, MaxLine <- 5,
    Shapes <- [f \in {"main", "other"} |-> IF f = "main" THEN {Texts!Chain} ELSE {Texts!Empty}],
    Rewrites <- {Texts!Chain, Texts!Broken, Texts!Twice, Texts!Raises("e", TRUE), Texts!Other},
    Claims <- {Texts!Claim("calls", "a", "b"), Texts!Claim("reaches", "a", "c"),
               Texts!Claim("defined", "b", None), Texts!Claim("behaves", "a", None)},
    MaxEdits <- 3, MaxRefreshes <- 2, MaxCalls <- 1,
    text <- s1, index <- s2, call <- s3, answer <- s4, count <- s5

ASSUME Registry!RegistryAssumption
ASSUME Text!SearchAssumption
ASSUME Evidence!EvidenceAssumption
ASSUME Corpus!CorpusAssumption

SearchInit ==
    /\ Init
    /\ \/ /\ component = "index"
          /\ s1 = None /\ s2 = None /\ s3 = None /\ s4 = None /\ s5 = None /\ s6 = None
          /\ s7 = None /\ s8 = None /\ s9 = None /\ s10 = None /\ s11 = None /\ s12 = None
       \/ component = "text" /\ Text!SearchInit
       \/ /\ component = "evidence" /\ Evidence!EvidenceInit
          /\ s11 = None /\ s12 = None
       \/ /\ component = "corpus" /\ Corpus!CorpusInit
          /\ s10 = None /\ s11 = None /\ s12 = None
       \/ /\ component = "graph" /\ Graph!GraphInit
          /\ s7 = None /\ s8 = None /\ s9 = None /\ s10 = None /\ s11 = None /\ s12 = None
       \/ /\ component = "registry" /\ Registry!RegistryInit
          /\ s6 = None /\ s7 = None /\ s8 = None /\ s9 = None /\ s10 = None /\ s11 = None
          /\ s12 = None
       \/ /\ \/ component = "claims" /\ Still!ClaimInit
             \/ component = "moving" /\ Moving!ClaimInit
          /\ s6 = None /\ s7 = None /\ s8 = None /\ s9 = None /\ s10 = None /\ s11 = None
          /\ s12 = None

SearchNext ==
    \/ component = "index" /\ Next /\ UNCHANGED <<component, cells>>
    \/ component = "text" /\ Text!SearchNext /\ UNCHANGED <<component, vars>>
    \/ component = "evidence" /\ Evidence!EvidenceNext /\ UNCHANGED <<component, vars, s11, s12>>
    \/ component = "corpus" /\ Corpus!CorpusNext /\ UNCHANGED <<component, vars, s10, s11, s12>>
    \/ component = "graph" /\ Graph!GraphNext
       /\ UNCHANGED <<component, vars, s7, s8, s9, s10, s11, s12>>
    \/ component = "registry" /\ Registry!RegistryNext
       /\ UNCHANGED <<component, vars, s6, s7, s8, s9, s10, s11, s12>>
    \/ /\ \/ component = "claims" /\ Still!ClaimNext
          \/ component = "moving" /\ Moving!ClaimNext
       /\ UNCHANGED <<component, vars, s6, s7, s8, s9, s10, s11, s12>>

SearchSpec == SearchInit /\ [][SearchNext]_<<component, cells, vars>>

\* SourceRegistry: corpora stay corpora, and the default a repository.
RegistrationsHold == component = "registry" => Registry!RegistrationsHold

\* TextSearch: complete pages are the matches, and pages go forward.
PagesAreExact == component = "text" => Text!PagesAreExact

\* SourceEvidence: an index called current without a scan is the work tree's.
CurrentIndexIsTheWork == component = "evidence" => Evidence!CurrentIndexIsTheWork

\* SourceEvidence: tokens of the verified snapshot hold committed bytes.
TokenBytesAreCommitted == component = "evidence" => Evidence!TokenBytesAreCommitted

\* CorpusEvidence: searches and verifications are told the truth of a corpus.
CorpusIsAsTold == component = "corpus" => Corpus!CorpusIsAsTold

\* CallGraph: edges join stored symbols, and walks answer with shortest paths
\* and whole flows.
AnswersAreRight == component = "graph" => Graph!EdgesJoinStored /\ Graph!AnswersAreRight

\* ClaimValidation: answers are true, and definite ones proved of one text.
VerdictsAreProofs ==
    /\ component = "claims" => Still!VerdictsAreProofs
    /\ component = "moving" => Moving!VerdictsAreProofs

\* ClaimValidation: verified calls are tied to the definition, shadowed or not.
VerifiedCallsAreTied == component = "claims" => Still!VerifiedCallsAreTied

\* Processes are only compared for equality.
Symmetry == Permutations({w1, w2}) \union Permutations({x, y})
=============================================================================
