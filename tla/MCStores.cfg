\* A small instance of every store, as MCStores says.
SPECIFICATION StoresSpec
CHECK_DEADLOCK FALSE
CONSTANTS
    p1 = p1
    p2 = p2
    w1 = w1
    j1 = j1
    j2 = j2
    d1 = d1
    d2 = d2
    a1 = a1
    x = x
    y = y
    s1 = s1
    NoOne = NoOne
    NoArchive = NoArchive
    None = None
    NoProject = NoProject
    NoJob = NoJob
    Unavailable = Unavailable
    Project <- TwoProjects
    Workflow <- OneWorkflow
    Job <- TwoJobs
    Direction <- TwoDirections
    Poller <- OnePoller
    Resumer <- TwoResumers
    Op <- TwoResumers
    Service <- OneService
    Payloads <- FourRoles
    MaxClock = 2
    MaxCrashes = 1
    Requests <- AllOptions
    PromptRecovery = TRUE
    DistinctSeconds = TRUE
    MaxGenerations = 3
    MaxAttempts = 3
SYMMETRY Symmetry
INVARIANTS
    BoundedResumes
    ResumesAfterTheJob
    
    CreatedIsSound
    RestoredIsTheArchive
    NotesKept
    IndexMatchesWhenAlone
PROPERTIES
    UnforcedKeepsData
    GoalChangesInvalidate
