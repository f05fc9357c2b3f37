-------------------------- MODULE ContinuityPlugin --------------------------
(***************************************************************************)
(* The OpenCode plugin (awoki-continuity.ts) and the continuation of one   *)
(* session: the plugin keeps a timer, polls the waited job, looks whether  *)
(* the session is idle, claims the continuation and prompts the model.     *)
(*                                                                         *)
(* The plugin's callbacks are asynchronous: each call of the event bridge  *)
(* starts a process, which is served by the store (module Continuations)   *)
(* at one moment and answers at a later one.  Between the two other events *)
(* of the session are handled, and they use the same timer and the same    *)
(* set of idle sessions.  A callback is a handler here: what it waits for, *)
(* and the answer it has been given and not yet read.                      *)
(*                                                                         *)
(* The session stays attached to one project whose direction is settled;   *)
(* module Continuations has the others.  Handlers are its pollers and its  *)
(* resumers.                                                               *)
(***************************************************************************)
EXTENDS Continuations

CONSTANTS
    MaxTurns,      \* bound: messages of the user
    MaxFailures,   \* bound: bridge calls without an answer
    MaxRestarts,   \* bound: restarts of OpenCode
    Ordered        \* the calls under way answer before session.idle is through
                   \* with its first two

Handler == Poller

ASSUME PluginAssumption ==
    /\ Resumer = Poller
    /\ MaxTurns \in Nat
    /\ MaxFailures \in Nat
    /\ MaxRestarts \in Nat
    /\ Ordered \in BOOLEAN

VARIABLES
    timer,      \* what the session's timer will do
    idle,       \* the session is in idleSessions
    busy,       \* the host runs the model for the session
    handler,    \* handler -> the step it is at and the answer it has
    turns,      \* messages of the user so far
    failures,   \* calls without an answer so far
    restarts

plugin == <<timer, idle, busy, handler, turns, failures, restarts>>
all == <<vars, plugin>>

Step == {"free", "settle", "poll", "polled", "look", "looked", "claim", "answered",
         "prompt", "returned", "after", "release", "sync", "synced"}
View == {"", "none", "manual", "superseded", "conflict", "due", "lost", "busy", "idle",
         "racing"}
            \union Live \union Closed

Free == [at |-> "free", view |-> ""]

PluginInit ==
    /\ Init
    /\ attached # NoProject
    /\ ended = {}
    /\ timer = "none"
    /\ idle = FALSE
    /\ busy = FALSE
    /\ handler = [h \in Handler |-> Free]
    /\ turns = 0
    /\ failures = 0
    /\ restarts = 0

-----------------------------------------------------------------------------
At(h, step) == handler[h].at = step
Goes(h, step, view) == handler' = [handler EXCEPT ![h] = [at |-> step, view |-> view]]

\* The record as a reader of an answer sees it.
Shown(r) == IF r.status = "none" THEN "none" ELSE IF r.auto THEN r.status ELSE "manual"

\* Mutant: a claim that was seen is left to whoever holds it.
ArmUnclaimed(view) ==
    CASE view = "waiting" -> "poll"
      [] view = "ready" -> "resume"
      [] OTHER -> "none"

\* armContinuation: the timer is cleared, and set again for a live record.
Arm(view) ==
    CASE view = "waiting" -> "poll"
      [] view \in {"ready", "claimed"} -> "resume"
      [] OTHER -> "none"

-----------------------------------------------------------------------------
(* The host.                                                               *)

UserMessage ==
    /\ ~busy
    /\ turns < MaxTurns
    /\ turns' = turns + 1
    /\ busy' = TRUE
    /\ idle' = FALSE
    /\ UNCHANGED <<vars, timer, handler, failures, restarts>>

\* Every status of the session, also that it has become idle, takes it out of
\* idleSessions.
SessionStatus ==
    /\ idle
    /\ idle' = FALSE
    /\ UNCHANGED <<vars, timer, busy, handler, turns, failures, restarts>>

\* The model calls a continuation tool; the plugin then reads the record.
ContinuationTool(h) ==
    /\ busy
    /\ At(h, "free")
    /\ Schedule \/ Close("done") \/ Close("cancelled")
    /\ Goes(h, "sync", "")
    /\ idle' = FALSE
    /\ UNCHANGED <<timer, busy, turns, failures, restarts>>

\* The model is through; the prompts it was given return.
SessionIdle(h) ==
    /\ busy
    /\ At(h, "free")
    /\ busy' = FALSE
    /\ idle' = TRUE
    /\ handler' = [g \in Handler |->
                     IF g = h THEN [at |-> "settle", view |-> ""]
                     ELSE IF At(g, "prompt") THEN [at |-> "returned", view |-> ""]
                     ELSE handler[g]]
    /\ UNCHANGED <<vars, timer, turns, failures, restarts>>

\* OpenCode and the plugin stop; their successor restores the pending ones.
Restart(h) ==
    /\ restarts < MaxRestarts
    /\ restarts' = restarts + 1
    /\ timer' = "none"
    /\ idle' = FALSE
    /\ busy' = FALSE
    /\ handler' = [[g \in Handler |-> Free] EXCEPT ![h] = [at |-> "sync", view |-> ""]]
    /\ poll' = [g \in Poller |-> NoPoll]
    /\ claim' = [g \in Resumer |-> 0]
    /\ UNCHANGED <<attached, direction, ended, record, claims, turns, failures>>

-----------------------------------------------------------------------------
(* Timers and the answers of the bridge.                                   *)

Fire(h) ==
    /\ timer # "none"
    /\ At(h, "free")
    /\ timer' = "none"
    /\ Goes(h, IF timer = "poll" THEN "poll" ELSE "look", "")
    /\ UNCHANGED <<vars, idle, busy, turns, failures, restarts>>

\* session.idle first records the terminal turn and a checkpoint.
Settled(h) ==
    /\ At(h, "settle")
    /\ Ordered => \A g \in Handler \ {h} :
                    handler[g].at \in {"free", "settle", "prompt", "sync"}
    /\ Goes(h, "sync", "")
    /\ UNCHANGED <<vars, timer, idle, busy, turns, failures, restarts>>

SyncServed(h) ==
    /\ At(h, "sync")
    /\ Goes(h, "synced", Shown(record))
    /\ UNCHANGED <<vars, timer, idle, busy, turns, failures, restarts>>

SyncRead(h) ==
    /\ At(h, "synced")
    /\ timer' = Arm(handler[h].view)
    /\ Goes(h, "free", "")
    /\ UNCHANGED <<vars, idle, busy, turns, failures, restarts>>

-----------------------------------------------------------------------------
(* pollContinuation.                                                       *)

Pollable == record.auto /\ record.status = "waiting" /\ (record.late \/ record.due)

PollServed(h) ==
    /\ At(h, "poll")
    /\ \/ /\ PollDue(h) \/ PollAsk(h)
          /\ handler' = handler
       \/ /\ PollLate(h)
          /\ Goes(h, "polled", "blocked")
       \/ /\ PollWrite(h)
          /\ Goes(h, "polled", IF record.generation = poll[h].generation
                               THEN record'.status ELSE "superseded")
       \/ /\ poll[h].pc = "idle"
          /\ ~Pollable
          /\ Goes(h, "polled", Shown(record))
          /\ UNCHANGED vars
    /\ UNCHANGED <<timer, idle, busy, turns, failures, restarts>>

PollRead(h) ==
    /\ At(h, "polled")
    /\ IF handler[h].view = "ready"
       THEN Goes(h, "look", "") /\ timer' = timer
       ELSE /\ Goes(h, "free", "")
            /\ timer' = IF handler[h].view \in {"waiting", "claimed"}
                        THEN Arm(handler[h].view) ELSE "none"
    /\ UNCHANGED <<vars, idle, busy, turns, failures, restarts>>

-----------------------------------------------------------------------------
(* resumeIfIdle.                                                           *)

Granted(h) == At(h, "answered") /\ handler[h].view = "due"

\* explicitSessionIdle: what the plugin remembers, else what the host says.
Look(h) ==
    /\ At(h, "look")
    /\ Goes(h, "looked", IF ~idle /\ busy THEN "busy"
                         ELSE IF \E g \in Handler : Granted(g) THEN "racing" ELSE "idle")
    /\ UNCHANGED <<vars, timer, idle, busy, turns, failures, restarts>>

Looked(h) ==
    /\ At(h, "looked")
    /\ IF handler[h].view # "busy"
       THEN Goes(h, "claim", handler[h].view) /\ timer' = timer
       ELSE Goes(h, "free", "") /\ timer' = "none"
    /\ UNCHANGED <<vars, idle, busy, turns, failures, restarts>>

Claimable ==
    /\ record.auto
    /\ record.status \in Live
    /\ ~ScopeConflict
    /\ record.late \/ Resumable

ClaimServed(h) ==
    /\ At(h, "claim")
    /\ \/ /\ ClaimLate(h) \/ ClaimHeld(h)
          /\ Goes(h, "answered", "blocked")
       \/ /\ ClaimDue(h)
          /\ handler' = [g \in Handler |->
                          IF g = h THEN [at |-> "answered", view |-> "due"]
                          ELSE IF handler[g].view = "idle" THEN [handler[g] EXCEPT !.view = "racing"]
                          ELSE handler[g]]
       \/ /\ ~Claimable
          /\ Goes(h, "answered",
                  IF record.auto /\ record.status \in Live /\ ScopeConflict
                  THEN "conflict" ELSE Shown(record))
          /\ UNCHANGED vars
    /\ UNCHANGED <<timer, idle, busy, turns, failures, restarts>>

\* Mutant: the session is not taken to be busy with the prompt.
ClaimReadIdle(h) ==
    /\ At(h, "answered")
    /\ IF handler[h].view = "due"
       THEN /\ Goes(h, "prompt", "")
            /\ timer' = Arm("claimed")
            /\ UNCHANGED <<idle, busy>>
       ELSE /\ Goes(h, "free", "")
            /\ timer' = IF handler[h].view \in {"none", "lost"}
                        THEN timer ELSE Arm(handler[h].view)
            /\ UNCHANGED <<idle, busy>>
    /\ UNCHANGED <<vars, turns, failures, restarts>>

\* Nothing looks again whether the session is idle before the prompt is sent.
ClaimRead(h) ==
    /\ At(h, "answered")
    /\ IF handler[h].view = "due"
       THEN /\ Goes(h, "prompt", "")
            /\ timer' = "none"
            /\ idle' = FALSE
            /\ busy' = TRUE
       ELSE /\ Goes(h, "free", "")
            /\ timer' = IF handler[h].view \in {"none", "lost"}
                        THEN timer ELSE Arm(handler[h].view)
            /\ UNCHANGED <<idle, busy>>
    /\ UNCHANGED <<vars, turns, failures, restarts>>

PromptFails(h) ==
    /\ At(h, "prompt")
    /\ Goes(h, "release", "")
    /\ UNCHANGED <<vars, timer, idle, busy, turns, failures, restarts>>

\* The prompt has returned: the record is read again.
ReturnServed(h) ==
    /\ At(h, "returned")
    /\ IF record.generation = claim[h] /\ record.status = "claimed"
       THEN Goes(h, "release", "") /\ UNCHANGED vars
       ELSE Goes(h, "sync", "") /\ Forget(h)
    /\ UNCHANGED <<timer, idle, busy, turns, failures, restarts>>

ReleaseServed(h) ==
    /\ At(h, "release")
    /\ Release(h)
    /\ Goes(h, "sync", "")
    /\ UNCHANGED <<timer, idle, busy, turns, failures, restarts>>

\* A process that is killed, or whose answer is unreadable, answers nothing; it
\* may have been served.
Lost(h) ==
    /\ failures < MaxFailures
    /\ failures' = failures + 1
    /\ \/ /\ At(h, "poll") \/ At(h, "polled")
          /\ Goes(h, "polled", "lost")
          /\ UNCHANGED claim
       \/ /\ At(h, "sync") \/ At(h, "synced")
          /\ Goes(h, "synced", "lost")
          /\ UNCHANGED claim
       \/ /\ At(h, "look")
          /\ Goes(h, "looked", "busy")
          /\ UNCHANGED claim
       \/ /\ At(h, "claim") \/ At(h, "answered")
          /\ Goes(h, "answered", "lost")
          /\ claim' = [claim EXCEPT ![h] = 0]
       \/ /\ At(h, "returned") \/ At(h, "release")
          /\ Goes(h, "sync", "")
          /\ claim' = [claim EXCEPT ![h] = 0]
    /\ poll' = [poll EXCEPT ![h] = NoPoll]
    /\ UNCHANGED <<attached, direction, ended, record, claims, timer, idle, busy, turns, restarts>>

-----------------------------------------------------------------------------
HandlerStep(h) ==
    \/ Fire(h) \/ Settled(h) \/ SyncServed(h) \/ SyncRead(h)
    \/ PollServed(h) \/ PollRead(h)
    \/ Look(h) \/ Looked(h) \/ ClaimServed(h) \/ ClaimRead(h)
    \/ ReturnServed(h) \/ ReleaseServed(h)

\* A lease of ten minutes, and the minute after a release, outlast the calls, of
\* fifteen seconds at the most, that were under way between a look and a prompt
\* when the claim was granted.
Outlasted == \A h \in Handler : handler[h].view # "racing" /\ ~Granted(h)

Outside ==
    /\ \/ JobEnds
       \/ /\ TimePasses
          /\ record.status = "claimed" /\ record'.leased # record.leased => Outlasted
          /\ record.status = "ready" /\ record'.due # record.due => Outlasted
    /\ UNCHANGED plugin

PluginNext ==
    \/ UserMessage \/ SessionStatus \/ Outside
    \/ \E h \in Handler :
        \/ ContinuationTool(h) \/ SessionIdle(h) \/ Restart(h)
        \/ HandlerStep(h) \/ PromptFails(h) \/ Lost(h)

\* The host ends what it runs and dispatches timers and answers, a refresh job
\* ends, and time passes; nothing makes the user write or the model call a tool.
PluginFairness ==
    /\ WF_all(\E h \in Handler : SessionIdle(h))
    /\ WF_all(\E h \in Handler : Fire(h))
    /\ \A h \in Handler : WF_all(HandlerStep(h) /\ ~At(h, "free"))
    /\ WF_all(Outside /\ ended' # ended)
    /\ WF_all(Outside /\ ended' = ended /\ record'.late = record.late)

PluginSpec == PluginInit /\ [][PluginNext]_all /\ PluginFairness

-----------------------------------------------------------------------------
(* Properties.                                                             *)

\* No generation of a continuation has two prompts under way at once, whatever has
\* become of its lease meanwhile: timers that fire while the model runs find the
\* session busy, and a resume that looked before it did finds the lease.  (A resume
\* that looked before can still prompt for a later generation, one the model
\* schedules and whose job ends while the call is under way.)
OnePrompt ==
    \A g, h \in Handler : At(g, "prompt") /\ At(h, "prompt") /\ claim[g] = claim[h] => g = h

\* A continuation the plugin may resume is not forgotten: it is resumed until it is
\* closed or its attempts are used up, over user messages, tools, and restarts,
\* as long as the bridge answers.
NotForgotten ==
    record.status \in Live /\ record.auto
        ~> record.status \in Closed \/ ~record.auto \/ failures > 0

=============================================================================
