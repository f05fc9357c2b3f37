---------------------------- MODULE Continuations ----------------------------
(***************************************************************************)
(* The continuation of one OpenCode session (continuations.py): a durable  *)
(* note that a detached job is waited for, and that the model is to be     *)
(* resumed, a bounded number of times, once the job has ended.             *)
(*                                                                         *)
(* The record lives in the session's state file; every operation but       *)
(* poll_due is one critical section of that file's lock.  poll_due asks for*)
(* the job between two sections.  Those who call it, and those who claim   *)
(* and release, are bridge processes the plugin starts, possibly of several*)
(* OpenCode instances; attaching a project rewrites the same file under the*)
(* same lock and keeps the record.                                         *)
(*                                                                         *)
(* Time is what the code compares with it: a date is passed or not.        *)
(***************************************************************************)
EXTENDS Naturals

CONSTANTS
    Project, Workflow, Job,
    Direction,       \* fingerprints of a project's saved direction
    Poller,          \* processes that poll the waited job
    Resumer,         \* processes that claim, prompt the model, and release
    NoProject,       \* no project attached
    NoJob,
    Unavailable,     \* the direction cannot be read
    MaxGenerations,  \* bound: calls of schedule
    MaxAttempts      \* MAX_AUTO_RESUME_ATTEMPTS

ASSUME ContinuationAssumption ==
    /\ NoProject \notin Project
    /\ "none" \notin Workflow
    /\ NoJob \notin Job
    /\ Unavailable \notin Direction
    /\ MaxGenerations \in Nat
    /\ MaxAttempts \in Nat

VARIABLES
    attached,   \* the project the session is attached to
    direction,  \* project -> what its saved direction reads as
    ended,      \* the jobs whose status is terminal, or that do not exist
    record,     \* the continuation in the session's state file
    poll,       \* poller -> what it knows of the record it polls for
    claim,      \* resumer -> the generation it has claimed and not yet released
    claims      \* claims granted since the record's chain was started

vars == <<attached, direction, ended, record, poll, claim, claims>>

-----------------------------------------------------------------------------
Closed == {"done", "cancelled", "blocked"}
Live == {"waiting", "ready", "claimed"}
Generation == 0 .. MaxGenerations

\* due: not_before has passed.  leased: lease_until has not.  late: deadline_at has.
Record == [status : {"none"} \union Live \union Closed,
           workflow : Workflow \union {"none"},
           project : Project \union {NoProject},
           origin : Project \union {NoProject},
           direction : Direction \union {Unavailable},
           job : Job \union {NoJob},
           auto : BOOLEAN,
           generation : Generation,
           attempts : 0 .. MaxAttempts,
           due : BOOLEAN,
           leased : BOOLEAN,
           late : BOOLEAN]

NoRecord == [status |-> "none", workflow |-> "none", project |-> NoProject,
             origin |-> NoProject, direction |-> Unavailable, job |-> NoJob,
             auto |-> FALSE, generation |-> 0, attempts |-> 0,
             due |-> FALSE, leased |-> FALSE, late |-> FALSE]

Poll == [pc : {"idle", "ask", "write"}, generation : Generation,
         job : Job \union {NoJob}, over : BOOLEAN]

NoPoll == [pc |-> "idle", generation |-> 0, job |-> NoJob, over |-> FALSE]

Init ==
    /\ attached \in Project \union {NoProject}
    /\ direction \in [Project -> Direction]
    /\ ended \in SUBSET Job
    /\ record = NoRecord
    /\ poll = [p \in Poller |-> NoPoll]
    /\ claim = [r \in Resumer |-> 0]
    /\ claims = 0

-----------------------------------------------------------------------------
(* The session, the projects, the jobs, the clock.                         *)

\* attach_session_project and detach_session_project keep the continuation.
Attach ==
    /\ attached' \in (Project \union {NoProject}) \ {attached}
    /\ UNCHANGED <<direction, ended, record, poll, claim, claims>>

Redirect(p) ==
    /\ \E d \in (Direction \union {Unavailable}) \ {direction[p]} :
        direction' = [direction EXCEPT ![p] = d]
    /\ UNCHANGED <<attached, ended, record, poll, claim, claims>>

JobEnds ==
    /\ \E j \in Job \ ended : ended' = ended \union {j}
    /\ UNCHANGED <<attached, direction, record, poll, claim, claims>>

TimePasses ==
    /\ \/ /\ record.status \in {"waiting", "ready"}
          /\ ~record.due
          /\ record' = [record EXCEPT !.due = TRUE]
       \/ /\ record.status = "claimed"
          /\ record.leased
          /\ record' = [record EXCEPT !.leased = FALSE]
       \/ /\ record.status \in Live
          /\ ~record.late
          /\ record' = [record EXCEPT !.late = TRUE]
    /\ UNCHANGED <<attached, direction, ended, poll, claim, claims>>

-----------------------------------------------------------------------------
(* Tools the model and the user call.                                      *)

\* Mutant: every schedule starts a new chain.
NeverSameChain(w, p) == record.workflow = w /\ record.project = p /\ record.status \in Closed

\* A record that is rescheduled before it is closed goes on with the bounds of
\* the one it replaces.
SameChain(w, p) ==
    /\ record.workflow = w
    /\ record.project = p
    /\ record.status \notin Closed

Scheduled(w, p, j, auto) ==
    LET same == SameChain(w, p)
    IN  [status |-> "waiting", workflow |-> w, project |-> p,
         origin |-> IF same THEN record.origin ELSE attached,
         direction |-> direction[p], job |-> j, auto |-> auto,
         generation |-> record.generation + 1,
         attempts |-> IF same THEN record.attempts ELSE 0,
         due |-> FALSE, leased |-> FALSE,
         late |-> same /\ record.late]

Schedule ==
    /\ record.generation < MaxGenerations
    /\ \E w \in Workflow, p \in Project, j \in Job, auto \in BOOLEAN :
        /\ direction[p] # Unavailable
        /\ record' = Scheduled(w, p, j, auto)
        /\ claims' = IF /\ record.status \in Live
                        /\ <<record.workflow, record.project>> = <<w, p>>
                     THEN claims ELSE 0
    /\ UNCHANGED <<attached, direction, ended, poll, claim>>

\* finalize and cancel name no generation.
Close(as) ==
    /\ record.status # "none"
    /\ record' = [record EXCEPT !.status = as, !.leased = FALSE]
    /\ UNCHANGED <<attached, direction, ended, poll, claim, claims>>

-----------------------------------------------------------------------------
(* poll_due.                                                               *)

Block == record' = [record EXCEPT !.status = "blocked", !.leased = FALSE]

PollLate(p) ==
    /\ poll[p].pc = "idle"
    /\ record.auto
    /\ record.status = "waiting"
    /\ record.late
    /\ Block
    /\ UNCHANGED <<attached, direction, ended, poll, claim, claims>>

PollDue(p) ==
    /\ poll[p].pc = "idle"
    /\ record.auto
    /\ record.status = "waiting"
    /\ ~record.late
    /\ record.due
    /\ poll' = [poll EXCEPT ![p] = [NoPoll EXCEPT !.pc = "ask", !.job = record.job,
                                                 !.generation = record.generation]]
    /\ UNCHANGED <<attached, direction, ended, record, claim, claims>>

\* _poll_job, under the lock of the job.
PollAsk(p) ==
    /\ poll[p].pc = "ask"
    /\ poll' = [poll EXCEPT ![p].pc = "write", ![p].over = poll[p].job \in ended]
    /\ UNCHANGED <<attached, direction, ended, record, claim, claims>>

\* Mutant: the generation is not compared.
PollWriteAny(p) ==
    /\ poll[p].pc = "write"
    /\ poll' = [poll EXCEPT ![p] = NoPoll]
    /\ IF record.status = "waiting"
       THEN record' = [record EXCEPT !.status = IF poll[p].over THEN "ready" ELSE @,
                                     !.due = poll[p].over]
       ELSE record' = record
    /\ UNCHANGED <<attached, direction, ended, claim, claims>>

PollWrite(p) ==
    /\ poll[p].pc = "write"
    /\ poll' = [poll EXCEPT ![p] = NoPoll]
    /\ IF record.generation = poll[p].generation /\ record.status = "waiting"
       THEN record' = [record EXCEPT !.status = IF poll[p].over THEN "ready" ELSE @,
                                     !.due = poll[p].over]
       ELSE record' = record
    /\ UNCHANGED <<attached, direction, ended, claim, claims>>

PollerDies(p) ==
    /\ poll[p].pc # "idle"
    /\ poll' = [poll EXCEPT ![p] = NoPoll]
    /\ UNCHANGED <<attached, direction, ended, record, claim, claims>>

-----------------------------------------------------------------------------
(* claim_due and release.                                                  *)

\* Another project is attached, or the one it was scheduled under is not.
ScopeConflict ==
    \/ attached \notin {NoProject, record.project}
    \/ attached = NoProject /\ record.origin # NoProject

Expired == record.status = "claimed" /\ ~record.leased
Resumable == (record.status = "ready" /\ record.due) \/ Expired

Examined(r) ==
    /\ claim[r] = 0
    /\ record.auto
    /\ record.status \in Live
    /\ ~ScopeConflict

ClaimLate(r) ==
    /\ Examined(r)
    /\ record.late
    /\ Block
    /\ UNCHANGED <<attached, direction, ended, poll, claim, claims>>

\* The attempts are used up, or the direction is not the one that was saved.
ClaimHeld(r) ==
    /\ Examined(r)
    /\ ~record.late
    /\ Resumable
    /\ \/ record.attempts >= MaxAttempts
       \/ direction[record.project] # record.direction
    /\ Block
    /\ UNCHANGED <<attached, direction, ended, poll, claim, claims>>

ClaimDue(r) ==
    /\ Examined(r)
    /\ ~record.late
    /\ Resumable
    /\ record.attempts < MaxAttempts
    /\ direction[record.project] = record.direction
    /\ record' = [record EXCEPT !.status = "claimed", !.attempts = @ + 1, !.leased = TRUE]
    /\ claim' = [claim EXCEPT ![r] = record.generation]
    /\ claims' = claims + 1
    /\ UNCHANGED <<attached, direction, ended, poll>>

\* An expired claim is written back as ready first; the process dies after that.
ClaimDies(r) ==
    /\ Examined(r)
    /\ ~record.late
    /\ Expired
    /\ record' = [record EXCEPT !.status = "ready", !.due = TRUE]
    /\ UNCHANGED <<attached, direction, ended, poll, claim, claims>>

\* The prompt failed, or the model came back without closing or rescheduling.
Release(r) ==
    /\ claim[r] # 0
    /\ claim' = [claim EXCEPT ![r] = 0]
    /\ IF record.generation = claim[r] /\ record.status = "claimed"
       THEN record' = [record EXCEPT !.status = "ready", !.leased = FALSE, !.due = FALSE]
       ELSE record' = record
    /\ UNCHANGED <<attached, direction, ended, poll, claims>>

\* The plugin dies with its prompt, or finds that nothing has to be released.
Forget(r) ==
    /\ claim[r] # 0
    /\ claim' = [claim EXCEPT ![r] = 0]
    /\ UNCHANGED <<attached, direction, ended, record, poll, claims>>

-----------------------------------------------------------------------------
Next ==
    \/ Attach
    \/ \E p \in Project : Redirect(p)
    \/ JobEnds
    \/ TimePasses
    \/ Schedule
    \/ Close("done")
    \/ Close("cancelled")
    \/ \E p \in Poller :
        PollLate(p) \/ PollDue(p) \/ PollAsk(p) \/ PollWrite(p) \/ PollerDies(p)
    \/ \E r \in Resumer :
        ClaimLate(r) \/ ClaimHeld(r) \/ ClaimDue(r) \/ ClaimDies(r) \/ Release(r) \/ Forget(r)

Spec == Init /\ [][Next]_vars

-----------------------------------------------------------------------------
(* Properties.                                                             *)

TypeOK ==
    /\ attached \in Project \union {NoProject}
    /\ direction \in [Project -> Direction \union {Unavailable}]
    /\ ended \subseteq Job
    /\ record \in Record
    /\ poll \in [Poller -> Poll]
    /\ claim \in [Resumer -> Generation]
    /\ claims \in Nat

\* The model is resumed at most MAX_AUTO_RESUME_ATTEMPTS times in one chain,
\* however often the chain is rescheduled, its claims expire or are released by
\* somebody who no longer holds them.
BoundedResumes == claims <= MaxAttempts

\* A continuation is only ready, and the model only resumed, when the job that
\* this generation of it waits for has ended; a poll that was under way when the
\* continuation was rescheduled does not count.
ResumesAfterTheJob == record.status \in {"ready", "claimed"} => record.job \in ended

\* Done, cancelled and blocked are left by a new schedule only: neither a poll nor
\* a release that was under way opens the continuation again.
ClosedStaysClosed ==
    [][record.status \in Closed /\ record'.status \notin Closed
        => record'.generation > record.generation]_vars

\* Once the deadline of a chain has passed nothing resumes it, and rescheduling it
\* does not give it a fresh lifetime.
LateStaysLate ==
    [][record.status \in Live /\ record.late /\ record'.status \in Live
        => \/ record'.late /\ claims' = claims
           \/ <<record'.workflow, record'.project>> # <<record.workflow, record.project>>]_vars

=============================================================================
