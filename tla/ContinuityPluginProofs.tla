----------------------- MODULE ContinuityPluginProofs -----------------------
(***************************************************************************)
(* Theorems about ContinuityPlugin, for every number of handlers, projects,*)
(* jobs, generations, attempts, turns, failures and restarts.              *)
(*                                                                         *)
(* A handler holds a claim from the moment it is granted until its prompt  *)
(* has returned.  Two handlers never hold the same generation, because     *)
(* nobody who looked before the grant finds the record claimable, and      *)
(* nobody who looks during the prompt finds the session idle.              *)
(***************************************************************************)
EXTENDS ContinuityPlugin, ContinuationsProofs

Holds(g) == At(g, "prompt") \/ Granted(g)

HandlersTyped == handler \in [Handler -> [at : Step, view : View]]

\* The session is busy with a prompt of the plugin.
BusyInv == \A g \in Handler : At(g, "prompt") => busy /\ ~idle

\* A handler goes on to claim when it has found the session idle; while a claim is
\* held, nobody has found that without knowing that it raced with the grant.
LookInv ==
    /\ \A h \in Handler :
        /\ At(h, "looked") => handler[h].view \in {"busy", "idle", "racing"}
        /\ At(h, "claim") => handler[h].view \in {"idle", "racing"}
    /\ (\E g \in Handler : Holds(g)) => \A h \in Handler : handler[h].view # "idle"

\* Nobody who races with a grant can be granted the same generation.
Refused(rec, racing) ==
    \/ rec.status \in Closed
    \/ rec.status = "claimed" /\ (racing => rec.leased)
    \/ rec.status = "ready" /\ (racing => ~rec.due)

HoldInv ==
    /\ \A g \in Handler : claim[g] <= record.generation
    /\ \A g \in Handler :
        Holds(g) /\ claim[g] = record.generation => Refused(record, ~Outlasted)
    /\ \A g, h \in Handler : Holds(g) /\ Holds(h) /\ claim[g] = claim[h] => g = h

PluginInv == HandlersTyped /\ BusyInv /\ LookInv /\ HoldInv

-----------------------------------------------------------------------------
(* Types.                                                                  *)

\* What the plugin has the store do is what the store can do, but that a process
\* which is lost, or all of them, forget what they know.
StoreStep == [Next]_vars
Forgets ==
    /\ UNCHANGED <<attached, direction, ended, record, claims>>
    /\ poll' \in [Poller -> Poll]
    /\ \A p \in Poller : poll'[p] = poll[p] \/ poll'[p] = NoPoll
    /\ \A h \in Handler : claim'[h] = claim[h] \/ claim'[h] = 0
    /\ claim' \in [Resumer -> Generation]

LEMMA NoPollType == NoPoll \in Poll /\ 0 \in Generation
  BY ContinuationAssumption DEF NoPoll, Poll, Generation

LEMMA StoreSteps ==
    ASSUME TypeOK, PluginNext
    PROVE  StoreStep \/ Forgets
  <1> USE PluginAssumption DEF Handler
  <1>1. CASE UserMessage \/ SessionStatus
    BY <1>1 DEF UserMessage, SessionStatus, StoreStep
  <1>2. CASE Outside
    BY <1>2 DEF Outside, StoreStep, Next
  <1>3. ASSUME NEW h \in Handler, ContinuationTool(h) PROVE StoreStep
    BY <1>3 DEF ContinuationTool, StoreStep, Next
  <1>4. ASSUME NEW h \in Handler, SessionIdle(h) \/ PromptFails(h) PROVE StoreStep
    BY <1>4 DEF SessionIdle, PromptFails, StoreStep
  <1>5. ASSUME NEW h \in Handler, Restart(h) PROVE Forgets
    <2>1. /\ poll' = [g \in Poller |-> NoPoll] /\ claim' = [g \in Resumer |-> 0]
          /\ UNCHANGED <<attached, direction, ended, record, claims>>
      BY <1>5 DEF Restart
    <2> QED
      BY <2>1, NoPollType DEF Forgets
  <1>6. ASSUME NEW h \in Handler, Lost(h) PROVE Forgets
    <2>1. /\ poll' = [poll EXCEPT ![h] = NoPoll]
          /\ claim' = claim \/ claim' = [claim EXCEPT ![h] = 0]
          /\ UNCHANGED <<attached, direction, ended, record, claims>>
      BY <1>6 DEF Lost
    <2>2. poll \in [Poller -> Poll] /\ claim \in [Resumer -> Generation]
      BY DEF TypeOK
    <2> QED
      BY <2>1, <2>2, NoPollType DEF Forgets
  <1>7. ASSUME NEW h \in Handler, HandlerStep(h) PROVE StoreStep
    <2>1. CASE \/ Fire(h) \/ Settled(h) \/ SyncServed(h) \/ SyncRead(h) \/ PollRead(h)
               \/ Look(h) \/ Looked(h) \/ ClaimRead(h)
      <3>1. UNCHANGED vars
        BY <2>1 DEF Fire, Settled, SyncServed, SyncRead, PollRead, Look, Looked, ClaimRead, vars
      <3> QED
        BY <3>1 DEF StoreStep
    <2>2. CASE PollServed(h)
      BY <2>2 DEF PollServed, StoreStep, Next
    <2>3. CASE ClaimServed(h)
      BY <2>3 DEF ClaimServed, StoreStep, Next
    <2>4. CASE ReturnServed(h) \/ ReleaseServed(h)
      BY <2>4 DEF ReturnServed, ReleaseServed, StoreStep, Next
    <2> QED
      BY <1>7, <2>1, <2>2, <2>3, <2>4 DEF HandlerStep
  <1> QED
    BY <1>1, <1>2, <1>3, <1>4, <1>5, <1>6, <1>7 DEF PluginNext

LEMMA StoreTypes == TypeOK /\ [PluginNext]_all => TypeOK'
  <1> SUFFICES ASSUME TypeOK, [PluginNext]_all PROVE TypeOK'
    OBVIOUS
  <1>1. CASE UNCHANGED vars
    BY <1>1, TypeStep
  <1>2. CASE StoreStep
    BY <1>2, TypeStep DEF StoreStep
  <1>3. CASE Forgets
    BY <1>3 DEF Forgets, TypeOK
  <1> QED
    BY <1>1, <1>2, <1>3, StoreSteps DEF all

\* What a record shows is never what a look or a claim answers.
LEMMA ShownView ==
    ASSUME NEW rec \in Record
    PROVE  /\ rec.status \in View \ {"due", "idle", "racing", "busy"}
           /\ Shown(rec) \in View \ {"due", "idle", "racing", "busy"}
  BY DEF Shown, View, Record, Live, Closed

-----------------------------------------------------------------------------
(* What the steps do to the record.                                        *)

\* No operation of the store but a grant makes a record claimable that was not,
\* unless it starts a new generation.
RecordEffect ==
    /\ record'.generation >= record.generation
    /\ \A racing \in BOOLEAN :
        record'.generation = record.generation /\ Refused(record, racing) => Refused(record', racing)

LEMMA RecordSame == ASSUME TypeOK, record' = record PROVE RecordEffect
  BY ContinuationAssumption DEF RecordEffect, TypeOK, Record, Generation

LEMMA RecordBlocked == ASSUME TypeOK, Block PROVE RecordEffect
  BY ContinuationAssumption DEF RecordEffect, Refused, Block, Closed, TypeOK, Record, Generation

LEMMA RecordTool ==
    ASSUME TypeOK, Schedule \/ Close("done") \/ Close("cancelled")
    PROVE  RecordEffect
  <1>0. record \in Record /\ record.generation \in Nat
    BY ContinuationAssumption DEF TypeOK, Record, Generation
  <1>1. CASE Schedule
    <2>1. record'.generation = record.generation + 1
      BY <1>1 DEF Schedule, Scheduled
    <2> QED
      BY <1>0, <2>1 DEF RecordEffect
  <1>2. CASE Close("done") \/ Close("cancelled")
    <2>1. PICK as \in {"done", "cancelled"} : record' = [record EXCEPT !.status = as, !.leased = FALSE]
      BY <1>2 DEF Close
    <2>2. record'.status \in Closed /\ record'.generation = record.generation
      BY <1>0, <2>1 DEF Record, Closed
    <2> QED
      BY <1>0, <2>2 DEF RecordEffect, Refused
  <1> QED
    BY <1>1, <1>2

LEMMA RecordPolled ==
    ASSUME TypeOK, NEW p \in Poller, PollLate(p) \/ PollDue(p) \/ PollAsk(p) \/ PollWrite(p)
    PROVE  RecordEffect
  <1>0. record \in Record /\ record.generation \in Nat
    BY ContinuationAssumption DEF TypeOK, Record, Generation
  <1>1. CASE PollLate(p)
    BY <1>1, RecordBlocked DEF PollLate
  <1>2. CASE PollDue(p) \/ PollAsk(p)
    BY <1>2, RecordSame DEF PollDue, PollAsk
  <1>3. CASE PollWrite(p)
    <2>1. CASE record.status = "waiting"
      <3>1. record'.generation = record.generation
        BY <1>0, <1>3 DEF PollWrite, Record
      <3>2. \A racing \in BOOLEAN : ~Refused(record, racing)
        BY <2>1 DEF Refused, Closed
      <3> QED
        BY <1>0, <3>1, <3>2 DEF RecordEffect
    <2>2. CASE record.status # "waiting"
      BY <1>3, <2>2, RecordSame DEF PollWrite
    <2> QED
      BY <2>1, <2>2
  <1> QED
    BY <1>1, <1>2, <1>3

LEMMA RecordReleased ==
    ASSUME TypeOK, NEW r \in Resumer, Release(r) \/ Forget(r)
    PROVE  RecordEffect
  <1>1. CASE record' = record
    BY <1>1, RecordSame
  <1>2. CASE record' = [record EXCEPT !.status = "ready", !.leased = FALSE, !.due = FALSE]
    BY <1>2, ContinuationAssumption
    DEF RecordEffect, Refused, Closed, TypeOK, Record, Generation
  <1> QED
    BY <1>1, <1>2 DEF Release, Forget

-----------------------------------------------------------------------------
(* Most steps only move one handler on, which neither holds a claim nor     *)
(* races with one afterwards, unless it goes on from a look to its claim.  *)

Moves(h) ==
    /\ \A g \in Handler \ {h} : handler'[g] = handler[g] /\ claim'[g] = claim[g]
    /\ handler'[h].at \notin {"prompt", "looked"}
    /\ handler'[h].view # "due"
    /\ \/ handler'[h].view \notin {"idle", "racing"} /\ handler'[h].at # "claim"
       \/ /\ At(h, "looked") /\ handler'[h].at = "claim"
          /\ handler'[h].view \in {"idle", "racing"}
          /\ handler'[h].view = handler[h].view
    /\ claim'[h] \in {claim[h], 0}
    /\ RecordEffect
    /\ busy' = busy
    /\ idle' \in {idle, FALSE}

LEMMA MovesKeep ==
    ASSUME TypeOK, TypeOK', PluginInv, HandlersTyped', NEW h \in Handler, Moves(h)
    PROVE  PluginInv'
  <1>0. /\ \A g \in Handler : Holds(g)' => Holds(g) /\ g # h
        /\ \A g \in Handler : claim'[g] \in Nat /\ claim[g] \in Nat
        /\ record.generation \in Nat /\ record'.generation \in Nat
        /\ record'.generation >= record.generation
    <2>1. \A g \in Handler : Holds(g)' => Holds(g) /\ g # h
      BY DEF Moves, Holds, At, Granted
    <2>2. /\ \A g \in Handler : claim'[g] \in Nat /\ claim[g] \in Nat
          /\ record.generation \in Nat /\ record'.generation \in Nat
      BY ContinuationAssumption, PluginAssumption DEF TypeOK, Record, Generation, Handler
    <2> QED
      BY <2>1, <2>2 DEF Moves, RecordEffect
  <1>1. BusyInv'
    BY <1>0 DEF PluginInv, BusyInv, Moves, At, Holds
  <1>2. LookInv'
    <2>1. ASSUME NEW g \in Handler
          PROVE  /\ At(g, "looked")' => handler'[g].view \in {"busy", "idle", "racing"}
                 /\ At(g, "claim")' => handler'[g].view \in {"idle", "racing"}
      BY DEF PluginInv, LookInv, Moves, At
    <2>2. ASSUME NEW g \in Handler, Holds(g)', NEW f \in Handler PROVE handler'[f].view # "idle"
      <3>1. handler[f].view # "idle"
        BY <1>0, <2>2 DEF PluginInv, LookInv
      <3> QED
        BY <3>1 DEF Moves
    <2> QED
      BY <2>1, <2>2 DEF LookInv
  <1>3. HoldInv'
    <2>1. \A g \in Handler : claim'[g] <= record'.generation
      BY <1>0 DEF PluginInv, HoldInv, Moves
    <2>2. ~Outlasted' => ~Outlasted
      BY DEF Outlasted, Moves, Granted, At
    <2>3. ASSUME NEW g \in Handler, Holds(g)', claim'[g] = record'.generation
          PROVE  Refused(record', ~Outlasted')
      <3>1. Holds(g) /\ claim'[g] = claim[g]
        BY <1>0, <2>3 DEF Moves
      <3>2. record'.generation = record.generation /\ claim[g] = record.generation
        BY <1>0, <2>3, <3>1 DEF PluginInv, HoldInv
      <3>3. Refused(record, ~Outlasted)
        BY <3>1, <3>2 DEF PluginInv, HoldInv
      <3>4. (~Outlasted) \in BOOLEAN
        OBVIOUS
      <3>5. Refused(record', ~Outlasted)
        BY <3>2, <3>3, <3>4 DEF Moves, RecordEffect
      <3> QED
        BY <2>2, <3>5 DEF Refused
    <2>4. \A f, g \in Handler : Holds(f)' /\ Holds(g)' /\ claim'[f] = claim'[g] => f = g
      BY <1>0 DEF PluginInv, HoldInv, Moves
    <2> QED
      BY <2>1, <2>3, <2>4 DEF HoldInv
  <1> QED
    BY <1>1, <1>2, <1>3 DEF PluginInv

\* Where a handler that goes to a step is, and the others.
LEMMA GoesTo ==
    ASSUME HandlersTyped, NEW h \in Handler, NEW step \in Step, NEW view \in View, Goes(h, step, view)
    PROVE  /\ HandlersTyped'
           /\ handler'[h] = [at |-> step, view |-> view]
           /\ handler'[h].at = step /\ handler'[h].view = view
           /\ \A g \in Handler \ {h} : handler'[g] = handler[g]
  BY DEF HandlersTyped, Goes

\* A step to where no claim is made, that leaves the store alone but for a claim
\* that is forgotten.
LEMMA GoesOn ==
    ASSUME TypeOK, TypeOK', PluginInv, NEW h \in Handler,
           NEW step \in Step \ {"prompt", "looked", "claim"},
           NEW view \in View \ {"due", "idle", "racing"}, Goes(h, step, view),
           claim'[h] \in {claim[h], 0}, \A g \in Handler \ {h} : claim'[g] = claim[g],
           RecordEffect, busy' = busy, idle' \in {idle, FALSE}
    PROVE  PluginInv'
  <1>1. HandlersTyped
    BY DEF PluginInv
  <1>2. /\ HandlersTyped'
        /\ handler'[h].at = step /\ handler'[h].view = view
        /\ \A g \in Handler \ {h} : handler'[g] = handler[g]
    BY ZenonT(60), <1>1, GoesTo
  <1>3. Moves(h)
    BY <1>2 DEF Moves
  <1> QED
    BY <1>2, <1>3, MovesKeep

LEMMA StepsAndViews ==
    /\ {"free", "settle", "poll", "polled", "look", "answered", "returned", "after", "release",
        "sync", "synced"} \subseteq Step \ {"prompt", "looked", "claim"}
    /\ {"", "none", "manual", "superseded", "conflict", "lost", "busy", "blocked"}
          \subseteq View \ {"due", "idle", "racing"}
  BY DEF Step, View, Live, Closed

LEMMA PlainSteps ==
    ASSUME TypeOK, TypeOK', PluginInv, NEW h \in Handler,
           \/ ContinuationTool(h) \/ Fire(h) \/ Settled(h) \/ SyncServed(h) \/ SyncRead(h)
           \/ PollRead(h) \/ PromptFails(h) \/ ReturnServed(h) \/ ReleaseServed(h)
    PROVE  PluginInv'
  <1> USE PluginAssumption, StepsAndViews DEF Handler
  <1>0. /\ record \in Record /\ claim \in [Resumer -> Generation]
        /\ handler \in [Handler -> [at : Step, view : View]]
    BY DEF TypeOK, PluginInv, HandlersTyped
  <1>1. CASE ContinuationTool(h)
    <2>1. claim' = claim /\ RecordEffect
      BY <1>1, RecordTool DEF ContinuationTool, Schedule, Close
    <2> QED
      BY <1>1, <2>1, GoesOn DEF ContinuationTool
  <1>2. CASE Fire(h) \/ Settled(h) \/ SyncServed(h) \/ SyncRead(h) \/ PollRead(h) \/ PromptFails(h)
    <2>1. UNCHANGED <<record, claim, busy, idle>>
      BY <1>2 DEF Fire, Settled, SyncServed, SyncRead, PollRead, PromptFails, vars
    <2>2. RecordEffect
      BY <2>1, RecordSame
    <2>3. CASE Fire(h)
      BY <2>1, <2>2, <2>3, GoesOn DEF Fire
    <2>4. CASE Settled(h)
      BY <2>1, <2>2, <2>4, GoesOn DEF Settled
    <2>5. CASE SyncServed(h)
      <3>1. Shown(record) \in View \ {"due", "idle", "racing"}
        BY <1>0, ShownView
      <3> QED
        BY <2>1, <2>2, <2>5, <3>1, GoesOn DEF SyncServed
    <2>6. CASE SyncRead(h)
      BY <2>1, <2>2, <2>6, GoesOn DEF SyncRead
    <2>7. CASE PollRead(h)
      BY <2>1, <2>2, <2>7, GoesOn DEF PollRead
    <2>8. CASE PromptFails(h)
      BY <2>1, <2>2, <2>8, GoesOn DEF PromptFails
    <2> QED
      BY <1>2, <2>3, <2>4, <2>5, <2>6, <2>7, <2>8
  <1>3. CASE ReturnServed(h) \/ ReleaseServed(h)
    <2>1. RecordEffect
      BY <1>3, RecordSame, RecordReleased DEF ReturnServed, ReleaseServed, vars
    <2>2. claim' = claim \/ claim' = [claim EXCEPT ![h] = 0]
      BY <1>3 DEF ReturnServed, ReleaseServed, Release, Forget, vars
    <2>3. claim'[h] \in {claim[h], 0} /\ \A g \in Handler \ {h} : claim'[g] = claim[g]
      BY <1>0, <2>2
    <2>4. (Goes(h, "release", "") \/ Goes(h, "sync", "")) /\ busy' = busy /\ idle' = idle
      BY <1>3 DEF ReturnServed, ReleaseServed
    <2> QED
      BY <2>1, <2>3, <2>4, GoesOn
  <1> QED
    BY <1>1, <1>2, <1>3

LEMMA LostStep ==
    ASSUME TypeOK, TypeOK', PluginInv, NEW h \in Handler, Lost(h)
    PROVE  PluginInv'
  <1> USE PluginAssumption, StepsAndViews DEF Handler
  <1>0. claim \in [Resumer -> Generation]
    BY DEF TypeOK
  <1>1. claim' = claim \/ claim' = [claim EXCEPT ![h] = 0]
    BY DEF Lost
  <1>2. claim'[h] \in {claim[h], 0} /\ \A g \in Handler \ {h} : claim'[g] = claim[g]
    BY <1>0, <1>1
  <1>3. record' = record /\ busy' = busy /\ idle' = idle
    BY DEF Lost
  <1>4. RecordEffect
    BY <1>3, RecordSame
  <1>5. CASE \/ Goes(h, "polled", "lost") \/ Goes(h, "synced", "lost")
             \/ Goes(h, "answered", "lost") \/ Goes(h, "sync", "")
    BY <1>2, <1>3, <1>4, <1>5, GoesOn
  <1>6. CASE Goes(h, "looked", "busy") /\ claim' = claim
    <2>1. "looked" \in Step /\ "busy" \in View
      BY DEF Step, View
    <2>2. /\ HandlersTyped'
          /\ handler'[h].at = "looked" /\ handler'[h].view = "busy"
          /\ \A g \in Handler \ {h} : handler'[g] = handler[g]
      BY <1>6, <2>1, GoesTo DEF PluginInv
    <2>3. \A g \in Handler : Holds(g)' => Holds(g) /\ g # h
      BY <2>2 DEF Holds, At, Granted
    <2>4. BusyInv'
      BY <1>3, <2>2 DEF PluginInv, BusyInv, At
    <2>5. LookInv'
      BY <2>2, <2>3 DEF PluginInv, LookInv, At
    <2>6. ~Outlasted' => ~Outlasted
      BY <2>2 DEF Outlasted, Granted, At
    <2>7. HoldInv'
      BY <1>3, <1>6, <2>3, <2>6 DEF PluginInv, HoldInv, Refused
    <2> QED
      BY <2>2, <2>4, <2>5, <2>7 DEF PluginInv
  <1> QED
    BY <1>5, <1>6 DEF Lost

LEMMA PollSteps ==
    ASSUME TypeOK, TypeOK', PluginInv, NEW h \in Handler, PollServed(h)
    PROVE  PluginInv'
  <1> USE PluginAssumption, StepsAndViews DEF Handler
  <1>0. record \in Record /\ record' \in Record /\ claim' = claim /\ busy' = busy /\ idle' = idle
    BY DEF TypeOK, PollServed, PollDue, PollAsk, PollLate, PollWrite, vars
  <1>1. RecordEffect
    BY RecordPolled, RecordSame DEF PollServed, vars
  <1>2. CASE handler' = handler
    <2>1. CASE PollDue(h) \/ PollAsk(h)
      <3>1. record' = record
        BY <2>1 DEF PollDue, PollAsk
      <3>2. UNCHANGED <<handler, record, claim, busy, idle>>
        BY <1>0, <1>2, <3>1
      <3> QED
        BY <3>2 DEF PluginInv, HandlersTyped, BusyInv, LookInv, HoldInv, Holds, Granted, At,
                    Refused, Outlasted
    <2>2. CASE ~(PollDue(h) \/ PollAsk(h))
      <3>1. \E view \in View \ {"due", "idle", "racing"} : Goes(h, "polled", view)
        BY <1>0, <2>2, ShownView DEF PollServed
      <3> QED
        BY <1>0, <1>1, <3>1, GoesOn
    <2> QED
      BY <2>1, <2>2
  <1>3. CASE handler' # handler
    <2>1. \E view \in View \ {"due", "idle", "racing"} : Goes(h, "polled", view)
      BY <1>0, <1>3, ShownView DEF PollServed
    <2> QED
      BY <1>0, <1>1, <2>1, GoesOn
  <1> QED
    BY <1>2, <1>3

\* The host: while it is idle no prompt is under way, and its restart ends all.
LEMMA HostSteps ==
    ASSUME TypeOK, TypeOK', PluginInv, UserMessage \/ SessionStatus
    PROVE  PluginInv'
  <1>1. UNCHANGED <<handler, record, claim>>
    BY DEF UserMessage, SessionStatus, vars
  <1>2. BusyInv'
    BY <1>1 DEF PluginInv, BusyInv, At, UserMessage, SessionStatus
  <1>3. HandlersTyped' /\ LookInv' /\ HoldInv'
    BY <1>1 DEF PluginInv, HandlersTyped, LookInv, HoldInv, Holds, Granted, At, Refused, Outlasted
  <1> QED
    BY <1>2, <1>3 DEF PluginInv

LEMMA OutsideStep ==
    ASSUME TypeOK, TypeOK', PluginInv, Outside
    PROVE  PluginInv'
  <1>0. UNCHANGED <<handler, claim, busy, idle>> /\ record \in Record
    BY DEF Outside, plugin, JobEnds, TimePasses, TypeOK
  <1>1. HandlersTyped' /\ BusyInv' /\ LookInv'
    BY <1>0 DEF PluginInv, HandlersTyped, BusyInv, LookInv, Holds, Granted, At
  <1>2. (\A g \in Handler : Holds(g)' <=> Holds(g)) /\ (Outlasted' <=> Outlasted)
    BY <1>0 DEF Holds, Granted, At, Outlasted
  <1>3. record'.generation = record.generation /\ record'.status = record.status
    BY <1>0 DEF Outside, JobEnds, TimePasses, Record
  <1>4. Refused(record, ~Outlasted) => Refused(record', ~Outlasted)
    <2>1. record'.status = "claimed" /\ ~Outlasted => record'.leased = record.leased
      BY <1>3 DEF Outside, JobEnds
    <2>2. record'.status = "ready" /\ ~Outlasted => record'.due = record.due
      BY <1>3 DEF Outside, JobEnds
    <2> QED
      BY <1>3, <2>1, <2>2 DEF Refused
  <1>5. HoldInv'
    <2>1. ASSUME NEW g \in Handler, Holds(g)', claim'[g] = record'.generation
          PROVE  Refused(record', ~Outlasted')
      <3>1. Refused(record, ~Outlasted)
        BY <1>0, <1>2, <1>3, <2>1 DEF PluginInv, HoldInv
      <3> QED
        BY <1>2, <1>4, <3>1 DEF Refused
    <2> QED
      BY <1>0, <1>2, <1>3, <2>1 DEF PluginInv, HoldInv
  <1> QED
    BY <1>1, <1>5 DEF PluginInv

\* What a step with nothing to view is made of.
LEMMA Fields ==
    ASSUME NEW s, NEW step, s = [at |-> step, view |-> ""]
    PROVE  s.at = step /\ s.view = ""
  OBVIOUS

LEMMA GrantedFields ==
    ASSUME NEW s, s = [at |-> "answered", view |-> "due"]
    PROVE  s.at = "answered" /\ s.view = "due"
  OBVIOUS

LEMMA IdleStep ==
    ASSUME TypeOK, TypeOK', PluginInv, NEW h \in Handler, SessionIdle(h)
    PROVE  PluginInv'
  <1>0. /\ UNCHANGED <<record, claim>>
        /\ \A g \in Handler :
             handler'[g] = IF g = h THEN [at |-> "settle", view |-> ""]
                           ELSE IF At(g, "prompt") THEN [at |-> "returned", view |-> ""]
                           ELSE handler[g]
    BY DEF SessionIdle, vars
  <1>1. HandlersTyped'
    <2>1. {"settle", "returned"} \subseteq Step /\ "" \in View
      BY DEF Step, View
    <2> QED
      BY <2>1 DEF SessionIdle, HandlersTyped, PluginInv
  <1>p. ASSUME NEW g \in Handler
        PROVE  \/ handler'[g] = handler[g] /\ ~At(g, "prompt")
               \/ handler'[g].view = "" /\ handler'[g].at \in {"settle", "returned"}
    <2>1. CASE g = h
      <3>1. handler'[g] = [at |-> "settle", view |-> ""]
        BY <1>0, <2>1, Zenon
      <3>2. handler'[g].at = "settle" /\ handler'[g].view = ""
        BY <3>1, Fields
      <3> QED
        BY <3>2, Zenon
    <2>2. CASE g # h /\ At(g, "prompt")
      <3>1. handler'[g] = [at |-> "returned", view |-> ""]
        BY <1>0, <2>2, Zenon
      <3>2. handler'[g].at = "returned" /\ handler'[g].view = ""
        BY <3>1, Fields
      <3> QED
        BY <3>2, Zenon
    <2>3. CASE g # h /\ ~At(g, "prompt")
      BY <1>0, <2>3, Zenon
    <2> QED
      BY <2>1, <2>2, <2>3
  <1>2. \A g \in Handler : ~At(g, "prompt")' /\ (Granted(g)' => Granted(g))
    BY <1>p DEF At, Granted
  <1>3. \A g \in Handler :
          \/ handler'[g] = handler[g]
          \/ handler'[g].view = "" /\ handler'[g].at \in {"settle", "returned"}
    BY <1>p
  <1>4. BusyInv' /\ LookInv'
    BY <1>2, <1>3 DEF PluginInv, BusyInv, LookInv, Holds, At
  <1>5. ~Outlasted' => ~Outlasted
    BY <1>2, <1>3 DEF Outlasted
  <1>6. HoldInv'
    BY <1>0, <1>2, <1>5 DEF PluginInv, HoldInv, Holds, Refused
  <1> QED
    BY <1>1, <1>4, <1>6 DEF PluginInv

LEMMA RestartStep ==
    ASSUME TypeOK, TypeOK', PluginInv, NEW h \in Handler, Restart(h)
    PROVE  PluginInv'
  <1> USE PluginAssumption DEF Handler
  <1> DEFINE none == [g \in Handler |-> Free]
             sync == [at |-> "sync", view |-> ""]
  <1>0. handler' = [none EXCEPT ![h] = sync]
    BY DEF Restart, Free
  <1>1. \A g \in Handler : handler'[g] \in {Free, sync}
    BY <1>0
  <1>2. HandlersTyped'
    <2>1. Free \in [at : Step, view : View] /\ sync \in [at : Step, view : View]
      BY <1>0 DEF Step, View, Free
    <2> QED
      BY <1>0, <2>1 DEF HandlersTyped
  <1>a. \A g \in Handler : handler'[g].at \in {"free", "sync"} /\ handler'[g].view = ""
    BY <1>0, <1>1 DEF Free
  <1>3. \A g \in Handler : ~Holds(g)' /\ ~At(g, "prompt")'
    BY <1>a DEF Holds, At, Granted
  <1>4. \A g \in Handler : claim'[g] = 0
    BY DEF Restart
  <1>5. record'.generation \in Nat
    BY ContinuationAssumption DEF TypeOK, Record, Generation
  <1>6. BusyInv' /\ LookInv'
    BY <1>3, <1>a DEF BusyInv, LookInv, At
  <1>7. HoldInv'
    BY <1>3, <1>4, <1>5 DEF HoldInv
  <1> QED
    BY <1>2, <1>6, <1>7 DEF PluginInv

\* A look finds the session busy with a prompt, or knows of the grant it races with.
LEMMA LookStep ==
    ASSUME TypeOK, TypeOK', PluginInv, NEW h \in Handler, Look(h)
    PROVE  PluginInv'
  <1> DEFINE view == IF ~idle /\ busy THEN "busy"
                     ELSE IF \E g \in Handler : Granted(g) THEN "racing" ELSE "idle"
  <1>0. /\ UNCHANGED <<record, claim, busy, idle>>
        /\ Goes(h, "looked", view)
        /\ view \in {"busy", "racing", "idle"}
    BY DEF Look, vars
  <1>1. (\E g \in Handler : Holds(g)) => view # "idle"
    BY DEF PluginInv, BusyInv, Holds
  <1>2. view = "racing" => ~Outlasted
    BY DEF Outlasted
  <1> HIDE DEF view
  <1>3. "looked" \in Step /\ {"busy", "racing", "idle"} \subseteq View
    BY DEF Step, View
  <1>4. /\ HandlersTyped'
        /\ handler'[h].at = "looked" /\ handler'[h].view = view
        /\ \A g \in Handler \ {h} : handler'[g] = handler[g]
    BY <1>0, <1>3, GoesTo DEF PluginInv
  <1>5. \A g \in Handler : (Holds(g)' => Holds(g) /\ g # h) /\ (Granted(g)' => Granted(g))
    BY <1>4 DEF Holds, At, Granted
  <1>6. BusyInv'
    <2>1. \A g \in Handler : At(g, "prompt")' => At(g, "prompt")
      BY <1>4 DEF At
    <2> QED
      BY <1>0, <2>1 DEF PluginInv, BusyInv
  <1>7. LookInv'
    BY <1>0, <1>1, <1>4, <1>5 DEF PluginInv, LookInv, At
  <1>8. ~Outlasted' => ~Outlasted
    BY <1>2, <1>4, <1>5 DEF Outlasted
  <1>9. HoldInv'
    BY <1>0, <1>5, <1>8 DEF PluginInv, HoldInv, Refused
  <1> QED
    BY <1>4, <1>6, <1>7, <1>9 DEF PluginInv

LEMMA LookedStep ==
    ASSUME TypeOK, TypeOK', PluginInv, NEW h \in Handler, Looked(h)
    PROVE  PluginInv'
  <1> USE PluginAssumption, StepsAndViews DEF Handler
  <1>0. UNCHANGED <<record, claim, busy, idle>>
    BY DEF Looked, vars
  <1>1. RecordEffect
    BY <1>0, RecordSame
  <1>2. CASE handler[h].view = "busy"
    BY <1>0, <1>1, <1>2, GoesOn DEF Looked
  <1>3. CASE handler[h].view # "busy"
    <2>1. Goes(h, "claim", handler[h].view) /\ handler[h].view \in {"idle", "racing"} /\ At(h, "looked")
      BY <1>3 DEF Looked, PluginInv, LookInv
    <2>2. "claim" \in Step /\ {"idle", "racing"} \subseteq View
      BY DEF Step, View
    <2>3. /\ HandlersTyped'
          /\ handler'[h].at = "claim" /\ handler'[h].view = handler[h].view
          /\ \A g \in Handler \ {h} : handler'[g] = handler[g]
      BY <2>1, <2>2, GoesTo DEF PluginInv
    <2>4. Moves(h)
      BY <1>0, <1>1, <2>1, <2>3 DEF Moves
    <2> QED
      BY <2>3, <2>4, MovesKeep
  <1> QED
    BY <1>2, <1>3

LEMMA RecordClaimed ==
    ASSUME TypeOK, NEW h \in Resumer, ClaimDue(h)
    PROVE  /\ record'.status = "claimed" /\ record'.leased
           /\ record'.generation = record.generation
           /\ \A racing \in BOOLEAN : Refused(record', racing)
  <1>1. record \in Record
    BY DEF TypeOK
  <1>2. record' = [record EXCEPT !.status = "claimed", !.attempts = @ + 1, !.leased = TRUE]
    BY DEF ClaimDue
  <1>3. record'.status = "claimed" /\ record'.leased /\ record'.generation = record.generation
    BY <1>1, <1>2 DEF Record
  <1> QED
    BY <1>3 DEF Refused

\* A grant: whoever holds a claim of the same generation has seen to it that the
\* record is not resumable for those who race with it.
LEMMA GrantStep ==
    ASSUME TypeOK, TypeOK', PluginInv, NEW h \in Handler, ClaimServed(h), ClaimDue(h),
           handler' = [g \in Handler |->
                          IF g = h THEN [at |-> "answered", view |-> "due"]
                          ELSE IF handler[g].view = "idle" THEN [handler[g] EXCEPT !.view = "racing"]
                          ELSE handler[g]]
    PROVE  PluginInv'
  <1> USE PluginAssumption DEF Handler
  <1>0. /\ At(h, "claim") /\ Resumable /\ claim' = [claim EXCEPT ![h] = record.generation]
        /\ claim \in [Resumer -> Generation] /\ record.generation \in Nat
        /\ busy' = busy /\ idle' = idle
    BY ContinuationAssumption DEF ClaimServed, ClaimDue, TypeOK, Record, Generation
  <1>1. /\ record'.generation = record.generation
        /\ \A racing \in BOOLEAN : Refused(record', racing)
    BY RecordClaimed
  <1>2. \A g \in Handler : claim[g] \in Nat
    BY <1>0, ContinuationAssumption DEF Generation
  \* Where the handlers are.
  <1>3. ASSUME NEW g \in Handler, g # h
        PROVE  /\ handler'[g] \in [at : Step, view : View]
               /\ handler'[g].at = handler[g].at
               /\ handler'[g].view = IF handler[g].view = "idle" THEN "racing" ELSE handler[g].view
    <2>1. handler[g] \in [at : Step, view : View] /\ "racing" \in View
      BY DEF PluginInv, HandlersTyped, View
    <2>2. CASE handler[g].view = "idle"
      <3>1. handler'[g] = [handler[g] EXCEPT !.view = "racing"]
        BY <1>3, <2>2, Zenon
      <3> QED
        BY <2>1, <2>2, <3>1
    <2>3. CASE handler[g].view # "idle"
      <3>1. handler'[g] = handler[g]
        BY <1>3, <2>3, Zenon
      <3> QED
        BY <2>1, <2>3, <3>1
    <2> QED
      BY <2>2, <2>3
  <1>4. /\ handler'[h] = [at |-> "answered", view |-> "due"]
        /\ handler'[h].at = "answered" /\ handler'[h].view = "due"
    <2>1. handler'[h] = [at |-> "answered", view |-> "due"]
      BY Zenon
    <2> QED
      BY <2>1, GrantedFields
  <1>5. HandlersTyped'
    <2>1. "answered" \in Step /\ "due" \in View
      BY DEF Step, View
    <2>2. \A g \in Handler : handler'[g] \in [at : Step, view : View]
      BY <1>3, <1>4, <2>1
    <2>3. handler' = [g \in Handler |-> handler'[g]]
      BY Zenon
    <2> QED
      BY <2>2, <2>3 DEF HandlersTyped
  <1>6. \A g \in Handler \ {h} : Holds(g)' => Holds(g)
    BY <1>3 DEF Holds, At, Granted
  <1>7. \A g \in Handler : handler'[g].view # "idle"
    BY <1>3, <1>4
  \* Nobody else holds the generation that is granted.
  <1>8. ASSUME NEW g \in Handler \ {h}, Holds(g) PROVE claim[g] # record.generation
    <2>1. handler[h].view = "racing"
      BY <1>0, <1>8 DEF PluginInv, LookInv
    <2>2. ~Outlasted
      BY <2>1 DEF Outlasted
    <2>3. ~Refused(record, ~Outlasted)
      BY <1>0, <2>2 DEF Refused, Resumable, Expired, Closed
    <2> QED
      BY <1>8, <2>3 DEF PluginInv, HoldInv
  <1>9. BusyInv'
    <2>1. \A g \in Handler : At(g, "prompt")' => At(g, "prompt")
      BY <1>3, <1>4 DEF At
    <2> QED
      BY <1>0, <2>1 DEF PluginInv, BusyInv
  <1>10. LookInv'
    <2>1. ASSUME NEW g \in Handler
          PROVE  /\ At(g, "looked")' => handler'[g].view \in {"busy", "idle", "racing"}
                 /\ At(g, "claim")' => handler'[g].view \in {"idle", "racing"}
      BY <1>3, <1>4 DEF PluginInv, LookInv, At
    <2> QED
      BY <1>7, <2>1 DEF LookInv
  <1>11. HoldInv'
    <2>1. \A g \in Handler : claim'[g] <= record'.generation
      BY <1>0, <1>1, <1>2 DEF PluginInv, HoldInv
    <2>2. Refused(record', ~Outlasted')
      <3>1. (~Outlasted') \in BOOLEAN
        OBVIOUS
      <3> QED
        BY <1>1, <3>1
    <2>3. ASSUME NEW f \in Handler, NEW g \in Handler, Holds(f)', Holds(g)', claim'[f] = claim'[g]
          PROVE  f = g
      <3>1. \A e \in Handler \ {h} : claim'[e] = claim[e]
        BY <1>0
      <3>2. claim'[h] = record.generation
        BY <1>0
      <3>3. CASE f # h /\ g # h
        BY <1>6, <2>3, <3>1, <3>3 DEF PluginInv, HoldInv
      <3>4. CASE f = h /\ g # h
        BY <1>6, <1>8, <2>3, <3>1, <3>2, <3>4
      <3>5. CASE f # h /\ g = h
        BY <1>6, <1>8, <2>3, <3>1, <3>2, <3>5
      <3> QED
        BY <3>3, <3>4, <3>5
    <2> QED
      BY <2>1, <2>2, <2>3 DEF HoldInv
  <1> QED
    BY <1>5, <1>9, <1>10, <1>11 DEF PluginInv

LEMMA ClaimSteps ==
    ASSUME TypeOK, TypeOK', PluginInv, NEW h \in Handler, ClaimServed(h)
    PROVE  PluginInv'
  <1> USE PluginAssumption, StepsAndViews DEF Handler
  <1>0. record \in Record /\ busy' = busy /\ idle' = idle
    BY DEF ClaimServed, TypeOK
  <1>1. CASE (ClaimLate(h) \/ ClaimHeld(h)) /\ Goes(h, "answered", "blocked")
    <2>1. RecordEffect /\ claim' = claim
      BY <1>1, RecordBlocked DEF ClaimLate, ClaimHeld
    <2> QED
      BY <1>0, <1>1, <2>1, GoesOn
  <1>2. CASE /\ Goes(h, "answered",
                  IF record.auto /\ record.status \in Live /\ ScopeConflict
                  THEN "conflict" ELSE Shown(record))
             /\ UNCHANGED vars
    <2>1. RecordEffect /\ claim' = claim
      BY <1>2, RecordSame DEF vars
    <2>2. \E view \in View \ {"due", "idle", "racing"} : Goes(h, "answered", view)
      BY <1>0, <1>2, ShownView
    <2> QED
      BY <1>0, <2>1, <2>2, GoesOn
  <1>3. CASE /\ ClaimDue(h)
             /\ handler' = [g \in Handler |->
                          IF g = h THEN [at |-> "answered", view |-> "due"]
                          ELSE IF handler[g].view = "idle" THEN [handler[g] EXCEPT !.view = "racing"]
                          ELSE handler[g]]
    BY <1>3, GrantStep
  <1> QED
    BY <1>1, <1>2, <1>3 DEF ClaimServed

\* The plugin reads the grant and prompts: the claim is held as before.
LEMMA ClaimReadStep ==
    ASSUME TypeOK, TypeOK', PluginInv, NEW h \in Handler, ClaimRead(h)
    PROVE  PluginInv'
  <1> USE PluginAssumption, StepsAndViews DEF Handler
  <1>0. UNCHANGED <<record, claim>>
    BY DEF ClaimRead, vars
  <1>1. CASE handler[h].view # "due"
    <2>1. RecordEffect
      BY <1>0, RecordSame
    <2> QED
      BY <1>0, <1>1, <2>1, GoesOn DEF ClaimRead
  <1>2. CASE handler[h].view = "due"
    <2>1. Granted(h) /\ Goes(h, "prompt", "") /\ busy' = TRUE /\ idle' = FALSE
      BY <1>2 DEF ClaimRead, Granted
    <2>2. "prompt" \in Step /\ "" \in View
      BY DEF Step, View
    <2>3. /\ HandlersTyped'
          /\ handler'[h].at = "prompt" /\ handler'[h].view = ""
          /\ \A g \in Handler \ {h} : handler'[g] = handler[g]
      BY <2>1, <2>2, GoesTo DEF PluginInv
    <2>4. \A g \in Handler : Holds(g)' => Holds(g)
      BY <2>1, <2>3 DEF Holds, At, Granted
    <2>5. BusyInv'
      BY <2>1 DEF BusyInv
    <2>6. LookInv'
      BY <2>3, <2>4 DEF PluginInv, LookInv, At
    <2>7. ~Outlasted' => ~Outlasted
      BY <2>3 DEF Outlasted, Granted, At
    <2>8. HoldInv'
      BY <1>0, <2>4, <2>7 DEF PluginInv, HoldInv, Refused
    <2> QED
      BY <2>3, <2>5, <2>6, <2>8 DEF PluginInv
  <1> QED
    BY <1>1, <1>2

-----------------------------------------------------------------------------
LEMMA PluginStarts == PluginInit => TypeOK /\ PluginInv
  <1> SUFFICES ASSUME PluginInit PROVE TypeOK /\ PluginInv
    OBVIOUS
  <1> USE PluginAssumption DEF Handler
  <1>1. TypeOK
    BY TypeInit DEF PluginInit
  <1>2. Free \in [at : Step, view : View] /\ Free.at = "free" /\ Free.view = ""
    BY DEF Free, Step, View
  <1>3. HandlersTyped /\ \A g \in Handler : handler[g] = Free
    BY <1>2 DEF PluginInit, HandlersTyped
  <1>4. \A g \in Handler : handler[g].at = "free" /\ handler[g].view = ""
    BY <1>2, <1>3
  <1>5. BusyInv /\ LookInv
    BY <1>4 DEF BusyInv, LookInv, At
  <1>6. \A g \in Handler : ~Holds(g)
    BY <1>4 DEF Holds, At, Granted
  <1>7. \A g \in Handler : claim[g] <= record.generation
    <2>1. record.generation \in Nat
      BY <1>1, ContinuationAssumption DEF TypeOK, Record, Generation
    <2>2. \A g \in Handler : claim[g] = 0
      BY DEF PluginInit, Init
    <2> QED
      BY <2>1, <2>2
  <1> QED
    BY <1>1, <1>3, <1>5, <1>6, <1>7 DEF PluginInv, HoldInv

LEMMA PluginSteps == TypeOK /\ PluginInv /\ [PluginNext]_all => (TypeOK /\ PluginInv)'
  <1> SUFFICES ASSUME TypeOK, PluginInv, [PluginNext]_all PROVE TypeOK' /\ PluginInv'
    OBVIOUS
  <1>1. TypeOK'
    BY StoreTypes
  <1>2. CASE UNCHANGED all
    <2>1. UNCHANGED <<record, claim, handler, busy, idle>>
      BY <1>2 DEF all, vars, plugin
    <2>2. HandlersTyped' /\ BusyInv'
      BY <2>1 DEF PluginInv, HandlersTyped, BusyInv, At
    <2>3. LookInv'
      BY <2>1 DEF PluginInv, LookInv, Holds, Granted, At
    <2>4. HoldInv'
      BY <2>1 DEF PluginInv, HoldInv, Holds, Granted, At, Refused, Outlasted
    <2> QED
      BY <1>1, <2>2, <2>3, <2>4 DEF PluginInv
  <1>3. CASE UserMessage \/ SessionStatus
    BY <1>1, <1>3, HostSteps
  <1>4. CASE Outside
    BY <1>1, <1>4, OutsideStep
  <1>5. ASSUME NEW h \in Handler,
               \/ ContinuationTool(h) \/ SessionIdle(h) \/ Restart(h)
               \/ HandlerStep(h) \/ PromptFails(h) \/ Lost(h)
        PROVE  PluginInv'
    <2>1. CASE \/ ContinuationTool(h) \/ Fire(h) \/ Settled(h) \/ SyncServed(h) \/ SyncRead(h)
               \/ PollRead(h) \/ PromptFails(h) \/ ReturnServed(h) \/ ReleaseServed(h)
      BY <1>1, <2>1, PlainSteps
    <2>2. CASE SessionIdle(h)
      BY <1>1, <2>2, IdleStep
    <2>3. CASE Restart(h)
      BY <1>1, <2>3, RestartStep
    <2>4. CASE Lost(h)
      BY <1>1, <2>4, LostStep
    <2>5. CASE PollServed(h)
      BY <1>1, <2>5, PollSteps
    <2>6. CASE Look(h)
      BY <1>1, <2>6, LookStep
    <2>7. CASE Looked(h)
      BY <1>1, <2>7, LookedStep
    <2>8. CASE ClaimServed(h)
      BY <1>1, <2>8, ClaimSteps
    <2>9. CASE ClaimRead(h)
      BY <1>1, <2>9, ClaimReadStep
    <2> QED
      BY <1>5, <2>1, <2>2, <2>3, <2>4, <2>5, <2>6, <2>7, <2>8, <2>9 DEF HandlerStep
  <1> QED
    BY <1>1, <1>2, <1>3, <1>4, <1>5 DEF PluginNext

\* What the handlers of the plugin hold and have seen stays consistent, for every
\* number of handlers, jobs, generations and attempts.
THEOREM PluginInvCorrect == PluginSpec => [](TypeOK /\ PluginInv)
  BY PluginStarts, PluginSteps, PTL DEF PluginSpec

\* OnePrompt: no generation of a continuation is prompted for twice at once,
\* however looks, claims, polls and prompts of awoki-continuity.ts interleave, and
\* whatever is lost, restarted or rescheduled meanwhile.
THEOREM OnePromptCorrect == PluginSpec => []OnePrompt
  <1>1. PluginInv => OnePrompt
    BY DEF PluginInv, HoldInv, Holds, OnePrompt
  <1> QED
    BY <1>1, PluginInvCorrect, PTL

-----------------------------------------------------------------------------
(* What the store promises holds while the plugin's callbacks drive it.     *)

LEMMA StoreInit == Init => CountsAgree /\ PollsRemember /\ ResumesAfterTheJob
  BY DEF Init, CountsAgree, PollsRemember, ResumesAfterTheJob, NoRecord, NoPoll

LEMMA StoreKeeps ==
    TypeOK /\ CountsAgree /\ PollsRemember /\ ResumesAfterTheJob /\ [PluginNext]_all
        => CountsAgree' /\ PollsRemember' /\ ResumesAfterTheJob'
  <1> SUFFICES ASSUME TypeOK, CountsAgree, PollsRemember, ResumesAfterTheJob, [PluginNext]_all
               PROVE  CountsAgree' /\ PollsRemember' /\ ResumesAfterTheJob'
    OBVIOUS
  <1>1. CASE StoreStep \/ UNCHANGED vars
    BY <1>1, CountsAgreeInductive, PollsRememberInductive DEF StoreStep
  <1>2. CASE Forgets
    <2>1. CountsAgree' /\ ResumesAfterTheJob'
      BY <1>2 DEF Forgets, CountsAgree, ResumesAfterTheJob
    <2>2. PollsRemember'
      BY <1>2 DEF Forgets, PollsRemember, NoPoll
    <2> QED
      BY <2>1, <2>2
  <1> QED
    BY <1>1, <1>2, StoreSteps DEF all

\* Killed calls, restarts and stale views cost the store nothing of what it
\* promises: a chain is resumed within its bound, and after its job.
THEOREM PluginKeepsTheStore == PluginSpec => [](BoundedResumes /\ ResumesAfterTheJob)
  <1>1. PluginInit => TypeOK /\ CountsAgree /\ PollsRemember /\ ResumesAfterTheJob
    BY PluginStarts, StoreInit DEF PluginInit
  <1>2. TypeOK /\ CountsAgree => BoundedResumes
    BY ContinuationAssumption DEF TypeOK, Record, CountsAgree, BoundedResumes
  <1> QED
    BY <1>1, <1>2, StoreKeeps, StoreTypes, PTL DEF PluginSpec
=============================================================================
