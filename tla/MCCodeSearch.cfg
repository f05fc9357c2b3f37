\* Two processes, two scopes with locks of their own and one shared collection;
\* the other components as MCCodeSearch says.
SPECIFICATION SearchSpec
CHECK_DEADLOCK FALSE
CONSTANTS
    w1 = w1
    w2 = w2
    a = a
    b = b
    f1 = f1
    c1 = c1
    c2 = c2
    x = x
    y = y
    fa = fa
    fb = fb
    fs = fs
    NoCaller = NoCaller
    NoRun = NoRun
    Worker <- TwoWorkers
    Scope <- TwoScopes
    Project <- Each
    File <- OneFile
    Content <- TwoContents
    Absent = Absent
    None = None
    InitialTree <- Start
    MaxEdits = 1
    MaxRuns = 3
    MaxFaults = 1
SYMMETRY Symmetry
INVARIANTS
    
    CurrentVectorsPresent
    RegistrationsHold
    PagesAreExact
    CurrentIndexIsTheWork
    TokenBytesAreCommitted
    CorpusIsAsTold
    AnswersAreRight
    VerdictsAreProofs
PROPERTIES
    OthersKept
