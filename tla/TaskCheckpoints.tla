-------------------------- MODULE TaskCheckpoints --------------------------
(***************************************************************************)
(* Checkpoints of long-running work: those of a project, which are records *)
(* of its continuity journal (harness_core.py), and those of the Burp      *)
(* integration, a file each and a pointer to the latest (burp.py).         *)
(*                                                                         *)
(* A checkpoint says what is left to do.  Finalizing reads the checkpoint  *)
(* first and writes later; agents of several sessions do both.  Records    *)
(* and files are written one at a time, and a process may die in between.  *)
(***************************************************************************)
EXTENDS Naturals, Sequences, FiniteSets

CONSTANTS
    Agent, Task,
    WorkStep,       \* what may be left to do
    NoTask,
    MaxWrites       \* bound: records in the journal, and writes of files

\* What the constants are assumed to be.
TaskAssumption == NoTask \notin Task \union WorkStep /\ MaxWrites \in Nat

VARIABLES
    journal,   \* the task records of the project: [task, done, left, by]
    burpFiles, \* the file of each Burp task: [done, left], or none
    latest,    \* latest-task.txt
    agent,     \* what each agent is doing
    writes,
    between    \* tasks checkpointed while they were being finalized (a history)

taskvars == <<journal, burpFiles, latest, agent, writes, between>>

IdleAgent == [pc |-> "idle"]
NoFile == [done |-> FALSE, left |-> {NoTask}]
Doing(a, where) == agent[a].pc = where
Does(a, state) == agent' = [agent EXCEPT ![a] = state]

TasksInit ==
    /\ journal = <<>>
    /\ burpFiles = [t \in Task |-> NoFile]
    /\ latest = NoTask
    /\ agent = [a \in Agent |-> IdleAgent]
    /\ writes = 0
    /\ between = {}

Finalizing(t) == \E a \in Agent : ~Doing(a, "idle") /\ agent[a].task = t
Disturbed(t) == IF Finalizing(t) THEN between \union {t} ELSE between

Records(t) == {i \in DOMAIN journal : journal[i].task = t}
LastOf(S) == CHOOSE i \in S : \A k \in S : k <= i

-----------------------------------------------------------------------------
(* Tasks of a project.                                                     *)

\* Mutant: completion may retain steps.
AcceptedAlways(done, left) == TRUE

\* A checkpoint that calls the task complete and names steps that are left is refused.
Accepted(done, left) == ~(done /\ left # {})

\* project_task_checkpoint.
TaskCheckpoint(t, done, left) ==
    /\ Accepted(done, left)
    /\ Len(journal) < MaxWrites
    /\ journal' = Append(journal, [task |-> t, done |-> done, left |-> left, by |-> "checkpoint"])
    /\ between' = Disturbed(t)
    /\ UNCHANGED <<burpFiles, latest, agent, writes>>

\* project_task_status: the journal's order tells checkpoints of one second apart.
TaskStatus(t) == journal[LastOf(Records(t))]

\* project_task_finalize: the status is read; steps that are left are no completion.
Finalize(a, t) ==
    /\ Doing(a, "idle") /\ Records(t) # {}
    /\ TaskStatus(t).left = {}
    /\ Does(a, [pc |-> "close", task |-> t])
    /\ UNCHANGED <<journal, burpFiles, latest, writes, between>>

Close(a) ==
    /\ Doing(a, "close") /\ Len(journal) < MaxWrites
    /\ journal' = Append(journal, [task |-> agent[a].task, done |-> TRUE, left |-> {},
                                   by |-> "finalize"])
    /\ Does(a, IdleAgent)
    /\ UNCHANGED <<burpFiles, latest, writes, between>>

-----------------------------------------------------------------------------
(* Burp tasks.                                                             *)

\* burp_task_checkpoint: the file, whole, and then the pointer (and a record of the
\* project's journal that nothing here reads).
BurpCheckpoint(a, t, done, left) ==
    /\ Doing(a, "idle") /\ writes < MaxWrites
    /\ writes' = writes + 1
    /\ burpFiles' = [burpFiles EXCEPT ![t] = [done |-> done, left |-> left]]
    /\ between' = Disturbed(t)
    /\ Does(a, [pc |-> "point", task |-> t])
    /\ UNCHANGED <<journal, latest>>

Point(a) ==
    /\ Doing(a, "point")
    /\ latest' = agent[a].task
    /\ Does(a, IdleAgent)
    /\ UNCHANGED <<journal, burpFiles, writes, between>>

\* burp_task_finalize reads the task it is given, or the latest ...
BurpFinalize(a, t) ==
    /\ Doing(a, "idle") /\ burpFiles[t] # NoFile
    /\ Does(a, [pc |-> "file", task |-> t, state |-> [burpFiles[t] EXCEPT !.done = TRUE]])
    /\ UNCHANGED <<journal, burpFiles, latest, writes, between>>

BurpFinalizeLatest(a) == latest # NoTask /\ BurpFinalize(a, latest)

\* ... and writes all of it back; steps that are left do not keep it from that.
WriteFile(a) ==
    /\ Doing(a, "file") /\ writes < MaxWrites
    /\ writes' = writes + 1
    /\ burpFiles' = [burpFiles EXCEPT ![agent[a].task] = agent[a].state]
    /\ Does(a, IdleAgent)
    /\ UNCHANGED <<journal, latest, between>>

AgentDies(a) ==
    /\ ~Doing(a, "idle")
    /\ Does(a, IdleAgent)
    /\ UNCHANGED <<journal, burpFiles, latest, writes, between>>

TasksNext ==
    \/ \E t \in Task, done \in BOOLEAN, left \in SUBSET WorkStep : TaskCheckpoint(t, done, left)
    \/ \E a \in Agent :
        \/ \E t \in Task : Finalize(a, t) \/ BurpFinalize(a, t)
        \/ \E t \in Task, done \in BOOLEAN, left \in SUBSET WorkStep :
              BurpCheckpoint(a, t, done, left)
        \/ Close(a) \/ Point(a) \/ BurpFinalizeLatest(a) \/ WriteFile(a)
        \/ AgentDies(a)

TasksSpec == TasksInit /\ [][TasksNext]_taskvars

-----------------------------------------------------------------------------
(* Properties.                                                             *)

\* A task of a project that is shown as done has nothing left, and neither had its
\* checkpoint before the one that closed it, unless it was checkpointed while another
\* session was finalizing it (project_task_finalize); and the latest Burp task can be
\* continued: its checkpoint is there, wherever a process died (burp_task_checkpoint).
CheckpointsHold ==
    /\ \A t \in Task \ between : Records(t) # {} /\ TaskStatus(t).done =>
        /\ TaskStatus(t).left = {}
        /\ TaskStatus(t).by = "finalize" =>
              journal[LastOf(Records(t) \ {LastOf(Records(t))})].left = {}
    /\ latest # NoTask => burpFiles[latest] # NoFile

=============================================================================
