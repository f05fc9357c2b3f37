\* Claims about calls that a binding shadows; the index does not move.
SPECIFICATION SearchSpec
CHECK_DEADLOCK FALSE
CONSTANTS
    w1 = w1
    w2 = w2
    a = a
    b = b
    f1 = f1
    c1 = c1
    c2 = c2
    x = x
    y = y
    fa = fa
    fb = fb
    fs = fs
    NoCaller = NoCaller
    NoRun = NoRun
    Worker <- OneWorker
    Scope <- OneScope
    Project <- Each
    File <- OneFile
    Content <- TwoContents
    Absent = Absent
    None = None
    InitialTree <- Start
    MaxEdits = 0
    MaxRuns = 0
    MaxFaults = 0
INVARIANT
    VerifiedCallsAreTied
