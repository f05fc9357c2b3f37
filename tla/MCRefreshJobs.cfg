\* Two clients and two jobs of one scope; the pid is recorded before the worker boots.
SPECIFICATION Spec
CHECK_DEADLOCK FALSE
CONSTANTS
    c1 = c1
    c2 = c2
    s1 = s1
    Client <- TwoClients
    Scope <- OneScope
    MaxJobs = 2
    ScopeCount = 1
    NoClient = NoClient
    NoScope = NoScope
    PromptPublish = TRUE
    CrashInPublish = FALSE
    PidReuse = TRUE
SYMMETRY Symmetry
INVARIANTS
    OneWorkerPerScope
PROPERTIES
    LedgerSpec
