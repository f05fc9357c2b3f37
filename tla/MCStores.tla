------------------------------ MODULE MCStores ------------------------------
(***************************************************************************)
(* The records awoki keeps on disk, on small instances: the continuation   *)
(* of a session (Continuations), the notes of a project and the index of   *)
(* them (ProjectMemory), and the archives of all of it (Backup).  They     *)
(* share no state that their models represent, so a behaviour is one of    *)
(* one of them: the notes have the cells, the others their own variables.  *)
(***************************************************************************)
EXTENDS Continuations, Backup, TLC

CONSTANTS p1, p2, w1, j1, j2, d1, d2, a1, x, y, s1, None

TwoProjects == {p1, p2}
OneWorkflow == {w1}
TwoJobs == {j1, j2}
TwoDirections == {d1, d2}
OnePoller == {a1}
TwoResumers == {x, y}

-----------------------------------------------------------------------------
(* Backups and restores, with their options.                               *)

Creating == [kind |-> "create", mode |-> "portable", live |-> FALSE, stop |-> FALSE,
             force |-> FALSE, reindex |-> "none"]
Restoring == [Creating EXCEPT !.kind = "restore", !.reindex = "auto"]
Full == [Creating EXCEPT !.mode = "full", !.live = TRUE]
Stopping == [Creating EXCEPT !.mode = "full", !.stop = TRUE]

AllOptions ==
    {Creating, Stopping, [Creating EXCEPT !.live = TRUE], Full, Restoring,
     [Restoring EXCEPT !.force = TRUE], [Restoring EXCEPT !.force = TRUE, !.reindex = "vector"]}

OneService == {s1}
FourRoles == <<"workspace", "global", "index", "qdrant">>

-----------------------------------------------------------------------------
(* A direction plain, with a caveat, hidden, and closed by name; a follow-up *)
(* of any note; and a correction of whatever is alike.                      *)

Ask(what, kind, caveats, private, link) ==
    [claim |-> what, kind |-> kind, closed |-> FALSE, caveats |-> caveats,
     private |-> private, link |-> link]

Directions ==
    {Ask("goal", "direction", {}, FALSE, "none"), Ask("goal", "direction", {}, TRUE, "none")}

AllNotes ==
    Directions \union
    {Ask("goal", "direction", {"unsure"}, FALSE, "none"),
     [Ask("goal", "direction", {}, FALSE, "supersedes") EXCEPT !.closed = TRUE],
     Ask("step", "note", {}, FALSE, "based_on"),
     Ask("fix", "correction", {}, FALSE, "none")}

-----------------------------------------------------------------------------
VARIABLES component, c1, c2, c3, c4, c5, c6, c7, c8, c9, c10, c11

cells == <<c1, c2, c3, c4, c5, c6, c7, c8, c9, c10, c11>>

\* Besides creates and restores: creates alone, over more writes of a service.
Creates == INSTANCE Backup WITH MaxClock <- 3, Requests <- {Creating, Stopping, Full}

\* Notes of every sort; and directions, while the project's own files change.
Notes == INSTANCE ProjectMemory WITH
    Agent <- {x, y}, Request <- AllNotes, MaxNotes <- 3, MaxOps <- 3, MaxEdits <- 0,
    MaxCrashes <- 1, DedupeRecent <- 1,
    journal <- c1, gen <- c2, files <- c3, fts <- c4, vectors <- c5, manifest <- c6, proc <- c7,
    ops <- c8, edits <- c9, crashes <- c10, alone <- c11

Edited == INSTANCE ProjectMemory WITH
    Agent <- {x, y}, Request <- Directions, MaxNotes <- 3, MaxOps <- 3, MaxEdits <- 1,
    MaxCrashes <- 1, DedupeRecent <- 1,
    journal <- c1, gen <- c2, files <- c3, fts <- c4, vectors <- c5, manifest <- c6, proc <- c7,
    ops <- c8, edits <- c9, crashes <- c10, alone <- c11

ASSUME BackupAssumption
ASSUME Creates!BackupAssumption
ASSUME Notes!MemoryAssumption
ASSUME Edited!MemoryAssumption

NoContinuation ==
    /\ Init
    /\ attached = NoProject /\ ended = {}
    /\ \A p, q \in Project : direction[p] = direction[q]
NoBackup ==
    /\ canon = Clean /\ index = None /\ clock = 0 /\ lock = None /\ service = None
    /\ op = [o \in Op |-> [pc |-> "idle"]] /\ archive = None /\ sidecar = None /\ crashes = 0
NoNotes == /\ c1 = None /\ c2 = None /\ c3 = None /\ c4 = None /\ c5 = None /\ c6 = None
           /\ c7 = None /\ c8 = None /\ c9 = None /\ c10 = None /\ c11 = None

StoresInit ==
    /\ component \in {"continuation", "archives", "creates", "notes", "edited"}
    /\ IF component = "continuation" THEN Init ELSE NoContinuation
    /\ CASE component = "archives" -> BackupInit
         [] component = "creates" -> Creates!BackupInit
         [] OTHER -> NoBackup
    /\ CASE component = "notes" -> Notes!Init
         [] component = "edited" -> Edited!Init
         [] OTHER -> NoNotes

StoresNext ==
    /\ UNCHANGED component
    /\ \/ component = "continuation" /\ Next /\ UNCHANGED <<backupVars, cells>>
       \/ component = "archives" /\ BackupNext /\ UNCHANGED <<vars, cells>>
       \/ component = "creates" /\ Creates!BackupNext /\ UNCHANGED <<vars, cells>>
       \/ component = "notes" /\ Notes!Next /\ UNCHANGED <<vars, backupVars>>
       \/ component = "edited" /\ Edited!Next /\ UNCHANGED <<vars, backupVars>>

StoresSpec == StoresInit /\ [][StoresNext]_<<component, cells, vars, backupVars>>

-----------------------------------------------------------------------------
\* ProjectMemory: what was noted is kept, and not twice.
NotesKept ==
    /\ component = "notes" => Notes!NotesKept
    /\ component = "edited" => Edited!NotesKept

\* ProjectMemory: a current index is one of the notes, while nothing came in between.
IndexMatchesWhenAlone ==
    /\ component = "notes" => Notes!IndexMatchesWhenAlone
    /\ component = "edited" => Edited!IndexMatchesWhenAlone

\* ProjectMemory: what rests on a goal that changes is to be looked at again.
GoalChangesInvalidate ==
    [][/\ component = "notes" => Notes!GoalInvalidated
       /\ component = "edited" => Edited!GoalInvalidated]_cells

\* Everything is only compared for equality.
Symmetry ==
    Permutations(Project) \union Permutations(Job) \union Permutations(Direction)
        \union Permutations(Resumer)
=============================================================================
