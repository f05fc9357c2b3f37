------------------------------- MODULE MCLive -------------------------------
(***************************************************************************)
(* What comes to an end without anybody looking, on small instances: a     *)
(* continuation the plugin resumes (ContinuityPlugin) and a refresh job    *)
(* (RefreshJobs).  A behaviour is one of one of them: the plugin has its   *)
(* variables, the job has the cells.  The fairness of each is its own,     *)
(* restated for the behaviours of that component.                          *)
(***************************************************************************)
EXTENDS ContinuityPlugin

CONSTANTS p1, w1, j1, d1, h1, h2, x1, x2, a1, NoClient, NoScope, None

Projects == {p1}
Workflows == {w1}
JobsOf == {j1}
Directions == {d1}
Handlers == {h1, h2}

VARIABLES component, c1, c2, c3, c4, c5, c6, c7, c8

cells == <<c1, c2, c3, c4, c5, c6, c7, c8>>
everything == <<component, cells, all>>

Refresh == INSTANCE RefreshJobs WITH
    Client <- {x1, x2}, Scope <- {a1}, MaxJobs <- 1, ScopeCount <- 2,
    PromptPublish <- TRUE, CrashInPublish <- FALSE, PidReuse <- FALSE,
    file <- c1, scopeOf <- c2, lock <- c3, call <- c4, view <- c5, proc <- c6,
    parent <- c7, worker <- c8

ASSUME Refresh!JobsAssumption

LiveInit ==
    /\ PluginInit
    /\ \/ /\ component = "plugin"
          /\ c1 = None /\ c2 = None /\ c3 = None /\ c4 = None /\ c5 = None /\ c6 = None
          /\ c7 = None /\ c8 = None
       \/ component = "refresh" /\ Refresh!Init

LiveNext ==
    \/ component = "plugin" /\ PluginNext /\ UNCHANGED <<component, cells>>
    \/ component = "refresh" /\ Refresh!Next /\ UNCHANGED <<component, all>>

\* PluginFairness
PluginLive ==
    /\ WF_all(component = "plugin" /\ \E h \in Handler : SessionIdle(h))
    /\ WF_all(component = "plugin" /\ \E h \in Handler : Fire(h))
    /\ \A h \in Handler : WF_all(component = "plugin" /\ HandlerStep(h) /\ ~At(h, "free"))
    /\ WF_all(component = "plugin" /\ Outside /\ ended' # ended)
    /\ WF_all(component = "plugin" /\ Outside /\ ended' = ended /\ record'.late = record.late)

\* Fairness of RefreshJobs
RefreshLive ==
    /\ WF_cells(component = "refresh" /\ Refresh!Holder)
    /\ \A j \in 1 .. 1 :
        /\ WF_cells(component = "refresh" /\ Refresh!WorkerStep(j))
        /\ SF_cells(component = "refresh" /\ (Refresh!WorkerIndexed(j) \/ Refresh!WorkerRaise(j)))
        /\ SF_cells(component = "refresh" /\ \E x \in {x1, x2} : Refresh!BeginCall(x, "status", j))
        /\ SF_cells(component = "refresh" /\ c4.job = j /\ Refresh!CallStale)
    /\ \A x \in {x1, x2} : WF_cells(component = "refresh" /\ Refresh!Reap(x))

LiveSpec == LiveInit /\ [][LiveNext]_everything /\ PluginLive /\ RefreshLive

-----------------------------------------------------------------------------
\* RefreshJobs: every job that was started is at last on record as ended, for good.
EventuallySettled ==
    \A j \in 1 .. 1 :
        component = "refresh" /\ c1[j].status # "none"
            ~> [](component = "refresh" /\ c1[j].status \in Refresh!Terminal)
=============================================================================
