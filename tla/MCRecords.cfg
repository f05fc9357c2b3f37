\* A small instance of every component, as MCRecords says.
SPECIFICATION RecordsSpec
CHECK_DEADLOCK FALSE
CONSTANTS
    test = test
    k1 = k1
    k2 = k2
    n1 = n1
    n2 = n2
    e1 = e1
    e2 = e2
    None = None
    x = x
    y = y
    s1 = s1
    p1 = p1
    p2 = p2
    NoProject = NoProject
    r1 = r1
    NoRun = NoRun
    search = search
    start = start
    a = a
    b = b
    inv = inv
    t1 = t1
    w1 = w1
    NoTask = NoTask
    u = u
    v = v
    w = w
    elsewhere = elsewhere
    NoSource = NoSource
    Nowhere = Nowhere
    NoId = NoId
    Check <- Checks
    Declared <- Checks
    Claim <- Claims
    Contract <- ContractClaims
    Ship = FALSE
    Node <- Nodes
    Ref <- Refs
    Scope <- Scopes
    ScopeOf <- Scoping
    Degraded <- DegradedRefs
    Budget = 1
    Assessments <- TheAssessments
    Receipts <- TheReceipts
    Embedded <- TheEmbedded
    MaxOps = 5
    Run <- OneRun
    Test <- TwoTests
    Plan <- FirstThenSecond
    Inv <- OneInvariant
    Tool <- TwoTools
    SearchTool = search
    StartTool = start
    TestContract <- Contracts
    Call <- TwoProcesses
    State <- TwoStates
    Origin = 1
    MaxCited = 1
    MaxAttempts = 2
    MaxToolCalls = 2
    MaxFaults = 1
    MaxRecords = 4
    Session <- OneSession
    Project <- TwoProjects
    Proc <- TwoProcesses
    MaxEvents = 2
    MaxOperations = 4
    Agent <- TwoProcesses
    Task <- OneTask
    WorkStep <- OneStep
    MaxWrites = 3
    Caller <- TwoProcesses
    SessionKnown = FALSE
    MaxLines = 2
    MaxCalls = 5
    MaxDeaths = 1
SYMMETRY Symmetry
INVARIANTS
    PassedIsEarned
    FreshCheckpointHolds
    NothingLost
    CompletedByItsAnswer
    AnswerIsRecorded
    ReviewedOnce
    DemotedStaysHidden
    CheckpointsHold
    ShownAsItIs
    VerdictsStand
PROPERTIES
    
    ReorderKeepsIdentity
    ReferencesKeepNaming
