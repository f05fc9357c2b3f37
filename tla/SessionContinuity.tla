-------------------------- MODULE SessionContinuity --------------------------
(***************************************************************************)
(* Sessions, their observed activity, and the continuity of the projects   *)
(* (project_workspace.py, opencode_events.py).                             *)
(*                                                                         *)
(* A session file says which project the session is attached to and what   *)
(* activity was observed since the last checkpoint.  The plugin records    *)
(* activity and checkpoints from a process per event; the agent opens,     *)
(* captures into and pauses projects through the server; the operator      *)
(* recovers stale sessions.  Every update of a session file or of the      *)
(* metadata of a project is one critical section of a file lock, but the   *)
(* operations take several: a checkpoint reads the activity, appends a     *)
(* record to the project without the lock of the session, and reconciles.  *)
(*                                                                         *)
(* Data: a record is its position in the log of its project; activity is   *)
(* the set of the observed events.  Two windows of activity look different *)
(* when their events differ (the code compares counts, names and times of  *)
(* one second).  Projects are not removed.                                 *)
(***************************************************************************)
EXTENDS Integers, FiniteSets

CONSTANTS
    Session, Project,
    NoProject,      \* the session never was attached
    Proc,           \* processes that serve one operation at a time
    MaxEvents,      \* bound: observed events
    MaxOperations          \* bound: operations other than observed events

\* What the constants are assumed to be.
SessionAssumption ==
    /\ NoProject \notin Project
    /\ MaxEvents \in Nat /\ MaxOperations \in Nat

Event == 1..MaxEvents

(* The threshold of an idle checkpoint, in events. *)
Meaningful(events, force) == events # {} /\ (force \/ Cardinality(events) >= 2)

VARIABLES
    session,    \* [Session -> status, project, activity, stamp] the session files
    proj,       \* project -> continuity.jsonl, project.json, the views: length of the log,
                \* the generation and the last one a view was made of, the records in
                \* the view, those it lists as new, and the handoff baseline
    covered,    \* [Project -> SUBSET Event] what the records of the log tell of
    op,         \* process -> the operations in progress; project: the one it captures
                \* into or refreshes, target: the one it opens
    origin,     \* history: [Event -> Project \cup {NoProject}] where it was observed
    events, operations

sessionVars == <<session, proj, covered, op, origin, events, operations>>

NewSession == [status |-> "unattached", project |-> NoProject, activity |-> {}, stamp |-> 0]
NewProject == [log |-> 0, generation |-> 0, snapshot |-> 0, viewed |-> 0,
               changes |-> {}, handoff |-> 0]
NoOperation == [
    step |-> "idle", kind |-> "capture", session |-> CHOOSE s \in Session : TRUE,
    project |-> NoProject, target |-> NoProject, force |-> FALSE, detach |-> FALSE,
    observed |-> NewSession, expected |-> -1, events |-> {}, latest |-> 0]

SessionInit ==
    /\ session = [s \in Session |-> NewSession]
    /\ proj = [p \in Project |-> NewProject]
    /\ covered = [p \in Project |-> {}]
    /\ op = [x \in Proc |-> NoOperation]
    /\ origin = [e \in Event |-> NoProject]
    /\ events = 0 /\ operations = 0

Active(s) == session[s].status = "active"
Goto(x, step) == op' = [op EXCEPT ![x].step = step]
Done(x) == op' = [op EXCEPT ![x] = NoOperation]

-----------------------------------------------------------------------------
(* The plugin observes an event: an attached session only. *)

RecordActivity(s) ==
    /\ events < MaxEvents /\ Active(s)
    /\ events' = events + 1
    /\ session' = [session EXCEPT ![s].activity = @ \cup {events + 1},
                                  ![s].stamp = @ + 1]
    /\ origin' = [origin EXCEPT ![events + 1] = session[s].project]
    /\ UNCHANGED <<proj, covered, op, operations>>

-----------------------------------------------------------------------------
(* Operations begin. *)

Start(x, local) ==
    /\ op[x].step = "idle" /\ operations < MaxOperations
    /\ operations' = operations + 1
    /\ op' = [op EXCEPT ![x] = local]
    /\ UNCHANGED <<session, proj, covered, origin, events>>

(* The server of an agent answers one call at a time. *)
AgentFree(s) == \A x \in Proc : op[x].step # "idle" /\ op[x].session = s
                                => op[x].kind = "checkpoint"

StartOpen(x, s, p) == AgentFree(s) /\
    Start(x, [NoOperation EXCEPT !.step = "observe", !.kind = "open", !.session = s, !.target = p])

StartCapture(x, s, p) == AgentFree(s) /\
    Start(x, [NoOperation EXCEPT !.step = "append", !.kind = "capture", !.session = s, !.project = p])

(* session.idle checkpoints when there is enough; compaction forces it. *)
StartCheckpoint(x, s, force) ==
    Start(x, [NoOperation EXCEPT !.step = "observe", !.kind = "checkpoint",
                          !.session = s, !.force = force])

(* project_pause, the deletion of a session and the switch the plugin makes *)
(* before project_open checkpoint the last activity and detach; the plugin *)
(* does so while the agent may be in a call.                               *)
StartDetach(x, s) ==
    Start(x, [NoOperation EXCEPT !.step = "observe", !.kind = "checkpoint",
                          !.session = s, !.force = TRUE, !.detach = TRUE])

(* The operator's plan notes the time of the last activity of a session it  *)
(* takes for stale; the agent may come back while it is applied.           *)
StartRecover(x, s) == Active(s) /\
    Start(x, [NoOperation EXCEPT !.step = "plan", !.kind = "checkpoint", !.session = s,
                          !.force = session[s].activity # {}, !.detach = TRUE,
                          !.expected = session[s].stamp])

ApplyPlan(x) ==
    /\ op[x].step = "plan"
    /\ Goto(x, "observe")
    /\ UNCHANGED <<session, proj, covered, origin, events, operations>>

-----------------------------------------------------------------------------
(* checkpoint_session. *)

(* First critical section: what is attached, and the activity to capture.  *)
ObserveCheckpoint(x) ==
    /\ op[x].step = "observe" /\ op[x].kind = "checkpoint"
    /\ LET s == op[x].session  seen == session[s] IN
       IF \/ ~Active(s)
          \/ op[x].expected # -1 /\ seen.stamp # op[x].expected
       THEN Done(x)
       ELSE LET capture == Meaningful(seen.activity, op[x].force) IN
            op' = [op EXCEPT ![x].observed = seen, ![x].project = seen.project,
                             ![x].events = IF capture THEN seen.activity ELSE {},
                             ![x].step = IF capture THEN "append" ELSE "reconcile"]
    /\ UNCHANGED <<session, proj, covered, origin, events, operations>>

(* Mutant: the activity is reset whatever arrived meanwhile. *)
ReconcileAnyActivity(x) ==
    /\ op[x].step = "reconcile"
    /\ LET s == op[x].session IN
       IF ~Active(s) \/ session[s].project # op[x].project
       THEN Done(x) /\ UNCHANGED session
       ELSE /\ session' = [session EXCEPT ![s] =
                 [@ EXCEPT !.activity = IF op[x].events # {} THEN {} ELSE @,
                           !.status = IF op[x].detach THEN "paused" ELSE @]]
            /\ Goto(x, "refresh")
    /\ UNCHANGED <<proj, covered, origin, events, operations>>

(* Second critical section, after the capture. *)
Reconcile(x) ==
    /\ op[x].step = "reconcile"
    /\ LET s == op[x].session
           current == session[s]
           newer == current.activity # op[x].observed.activity
       IN IF ~Active(s) \/ current.project # op[x].project
          THEN Done(x) /\ UNCHANGED session                    \* checkpoint_conflict
          ELSE /\ session' = [session EXCEPT ![s] =
                    [current EXCEPT
                       !.activity = IF newer THEN @
                                    ELSE IF op[x].events # {} THEN {} ELSE @,
                       !.status = IF op[x].detach /\ ~newer THEN "paused" ELSE @,
                       !.stamp = IF op[x].detach /\ ~newer THEN @ + 1 ELSE @]]
               /\ IF op[x].detach /\ newer THEN Done(x) ELSE Goto(x, "refresh")
    /\ UNCHANGED <<proj, covered, origin, events, operations>>

-----------------------------------------------------------------------------
(* project_capture: append to the log, then advance the generation, then    *)
(* touch the attached sessions.                                            *)

AppendRecord(x) ==
    /\ op[x].step = "append"
    /\ LET p == op[x].project IN
       /\ proj' = [proj EXCEPT ![p].log = @ + 1]
       /\ covered' = [covered EXCEPT ![p] = @ \cup op[x].events]
    /\ Goto(x, "bump")
    /\ UNCHANGED <<session, origin, events, operations>>

AfterCapture(x) ==
    CASE op[x].kind = "capture" -> "refresh"
      [] op[x].kind = "checkpoint" -> "reconcile"
      [] op[x].kind = "open" -> "leave"

Bump(x) ==
    /\ op[x].step = "bump"
    /\ LET p == op[x].project IN
       /\ proj' = [proj EXCEPT ![p].generation = @ + 1]
       /\ session' = [s \in Session |->
              IF Active(s) /\ session[s].project = p
              THEN [session[s] EXCEPT !.stamp = @ + 1] ELSE session[s]]
    /\ Goto(x, AfterCapture(x))
    /\ UNCHANGED <<covered, origin, events, operations>>

(* refresh_project_files, in one critical section of the metadata: the      *)
(* views hold every record, and list those after the handoff baseline.     *)
RefreshedFrom(state) ==
    [state EXCEPT !.viewed = state.log, !.snapshot = state.generation,
                  !.changes = (state.handoff + 1)..state.log]

Refresh(x) ==
    /\ op[x].step \in {"refresh", "leave"}
    /\ proj' = [proj EXCEPT ![op[x].project] = RefreshedFrom(@)]
    /\ CASE op[x].step = "leave" -> Goto(x, "attach")
         [] op[x].step = "refresh" /\ op[x].kind = "open" -> Goto(x, "pack")
         [] OTHER -> Done(x)
    /\ UNCHANGED <<session, covered, origin, events, operations>>

-----------------------------------------------------------------------------
(* project_resume: attach the session, refresh, hand over, acknowledge.     *)

(* First critical section of attach_session_project: a session of another   *)
(* project with activity is captured into that project first.              *)
Switching(state, target) == state.status = "active" /\ state.project # target

ObserveOpen(x) ==
    /\ op[x].step = "observe" /\ op[x].kind = "open"
    /\ LET seen == session[op[x].session]
           capture == Switching(seen, op[x].target) /\ seen.activity # {}
       IN op' = [op EXCEPT ![x].observed = seen,
                           ![x].project = IF capture THEN seen.project ELSE @,
                           ![x].events = IF capture THEN seen.activity ELSE {},
                           ![x].step = IF capture THEN "append" ELSE "attach"]
    /\ UNCHANGED <<session, proj, covered, origin, events, operations>>

(* Second critical section: refused when the session is not the observed    *)
(* one any more (switch_conflict).                                         *)
Attach(x) ==
    /\ op[x].step = "attach"
    /\ LET s == op[x].session
           target == op[x].target
           seen == op[x].observed
           previous == session[s]
           same == previous.status = "active" /\ previous.project = target
       IN IF /\ Switching(seen, target)
             /\ \/ previous.status # seen.status
                \/ previous.project # seen.project
                \/ previous.activity # seen.activity
          THEN Done(x) /\ UNCHANGED session
          ELSE /\ session' = [session EXCEPT ![s] =
                    [status |-> "active", project |-> target,
                     activity |-> IF same THEN previous.activity ELSE {},
                     stamp |-> previous.stamp + 1]]
               /\ op' = [op EXCEPT ![x].project = target, ![x].step = "refresh"]
    /\ UNCHANGED <<proj, covered, origin, events, operations>>

(* The pack lists the changes the metadata of the view names. *)
Pack(x) ==
    /\ op[x].step = "pack"
    /\ Goto(x, "latest")
    /\ UNCHANGED <<session, proj, covered, origin, events, operations>>

Latest(x) ==
    /\ op[x].step = "latest"
    /\ op' = [op EXCEPT ![x].latest = proj[op[x].project].log, ![x].step = "acknowledge"]
    /\ UNCHANGED <<session, proj, covered, origin, events, operations>>

Acknowledge(x) ==
    /\ op[x].step = "acknowledge"
    /\ proj' = [proj EXCEPT ![op[x].project].handoff = op[x].latest]
    /\ Done(x)
    /\ UNCHANGED <<session, covered, origin, events, operations>>

-----------------------------------------------------------------------------
(* A process dies between two steps of its operation. *)
Crash(x) ==
    /\ op[x].step # "idle"
    /\ Done(x)
    /\ UNCHANGED <<session, proj, covered, origin, events, operations>>

BeginOperation(x) == \E s \in Session :
    \/ StartCheckpoint(x, s, FALSE) \/ StartCheckpoint(x, s, TRUE)
    \/ StartDetach(x, s) \/ StartRecover(x, s)
    \/ \E p \in Project : StartOpen(x, s, p) \/ StartCapture(x, s, p)

Proceed(x) ==
    \/ ApplyPlan(x) \/ ObserveCheckpoint(x) \/ Reconcile(x)
    \/ AppendRecord(x) \/ Bump(x) \/ Refresh(x)
    \/ ObserveOpen(x) \/ Attach(x) \/ Pack(x) \/ Latest(x) \/ Acknowledge(x)

SessionNext ==
    \/ \E s \in Session : RecordActivity(s)
    \/ \E x \in Proc : BeginOperation(x) \/ Proceed(x) \/ Crash(x)

SessionSpec == SessionInit /\ [][SessionNext]_sessionVars

-----------------------------------------------------------------------------
(* No observed activity is lost or told of the wrong project: an event is    *)
(* in the activity of a session that is attached to the project it was       *)
(* observed in, or a record of that project covers it - through checkpoints, *)
(* switches, recovery and crashes that interleave.  And a view whose         *)
(* generation is that of the project holds every record the generation       *)
(* counts: the log is appended to before the generation advances, and a      *)
(* refresh reads both in one critical section.                               *)
NothingLost ==
    /\ \A e \in 1..events :
          \/ e \in covered[origin[e]]
          \/ \E s \in Session : /\ e \in session[s].activity
                                /\ Active(s) /\ session[s].project = origin[e]
    /\ \A p \in Project :
          proj[p].snapshot = proj[p].generation => proj[p].viewed >= proj[p].generation

=============================================================================
