\* One continuation of a session with two handlers, one refresh job of two scopes
\* with two clients.
SPECIFICATION LiveSpec
CHECK_DEADLOCK FALSE
CONSTANTS
    p1 = p1
    w1 = w1
    j1 = j1
    d1 = d1
    h1 = h1
    h2 = h2
    x1 = x1
    x2 = x2
    a1 = a1
    NoClient = NoClient
    NoScope = NoScope
    None = None
    Project <- Projects
    Workflow <- Workflows
    Job <- JobsOf
    Direction <- Directions
    Poller <- Handlers
    Resumer <- Handlers
    NoProject = NoProject
    NoJob = NoJob
    Unavailable = Unavailable
    MaxGenerations = 2
    MaxAttempts = 2
    MaxTurns = 1
    MaxFailures = 1
    MaxRestarts = 1
    Ordered = TRUE
INVARIANTS
    OnePrompt
PROPERTIES
    
    EventuallySettled
