SPECIFICATION Spec
CONSTANTS
    c1 = c1
    c2 = c2
    s1 = s1
    Client <- TwoClients
    Scope <- OneScope
    MaxJobs = 2
    ScopeCount = 1
    NoClient = NoClient
    NoScope = NoScope
    PromptPublish = FALSE
    CrashInPublish = FALSE
    PidReuse = FALSE
SYMMETRY Symmetry
INVARIANTS
    OneWorkerPerScope
