----------------------- MODULE SessionContinuityProofs -----------------------
(***************************************************************************)
(* Theorems about SessionContinuity, for every set of sessions, projects   *)
(* and processes and every number of events and operations.                *)
(*                                                                         *)
(* Activity is dropped from a session in two places, the reconciliation of *)
(* a checkpoint and the attachment of another project, both long after the *)
(* operation has looked at the session.  What makes that right is that the *)
(* activity which is dropped is the one that was looked at, that a record  *)
(* of its project covers it by then, and that nobody else moves a session  *)
(* between two projects meanwhile.                                         *)
(*                                                                         *)
(* And about two other components that keep what was done, after that:     *)
(* TaskCheckpoints, where a task is closed on a checkpoint that left       *)
(* nothing, and Promotions, where a candidate has one verdict and a line   *)
(* that was demoted comes back through no index that is still being built. *)
(***************************************************************************)
EXTENDS SessionContinuity, TaskCheckpoints, Promotions, FiniteSetTheorems, WellFoundedInduction, TLAPS

Statuses == {"unattached", "active", "paused"}
State == [status : Statuses, project : Project \cup {NoProject}, activity : SUBSET Event,
          stamp : Nat]
Steps == {"idle", "plan", "observe", "append", "bump", "reconcile", "leave", "attach", "refresh",
          "pack", "latest", "acknowledge"}
Local == [step : Steps, kind : {"capture", "checkpoint", "open"},
          session : Session \cup {NoOperation.session}, project : Project \cup {NoProject},
          target : Project \cup {NoProject}, force : BOOLEAN, detach : BOOLEAN,
          observed : State, expected : Nat \cup {-1}, events : SUBSET Event, latest : Nat]
Memory == [log : Nat, generation : Nat, snapshot : Nat, viewed : Nat, changes : SUBSET Nat,
           handoff : Nat]

TypeOK ==
    /\ session \in [Session -> State]
    /\ proj \in [Project -> Memory]
    /\ covered \in [Project -> SUBSET Event]
    /\ op \in [Proc -> Local]
    /\ origin \in [Event -> Project \cup {NoProject}]
    /\ events \in 0..MaxEvents /\ operations \in Nat

(* An attached session has a project.                                      *)
Attached == \A s \in Session : Active(s) => session[s].project \in Project

(* Where an operation is, and what it works on.                            *)
Placed(o) ==
    /\ o.step # "idle" => o.session \in Session
    /\ o.step \in {"plan", "reconcile"} => o.kind = "checkpoint"
    /\ o.step \in {"leave", "attach", "pack", "latest", "acknowledge"} => o.kind = "open"
    /\ o.step # "idle" /\ o.kind = "open" => o.target \in Project
    /\ o.step = "observe" => o.kind # "capture"
    /\ o.step \in {"append", "bump", "reconcile", "leave", "refresh", "pack", "latest",
                   "acknowledge"} => o.project \in Project

(* What it captures is the activity it has looked at, and once appended is *)
(* covered; when it has nothing to capture, nothing was there.             *)
Captures(o, cov) ==
    /\ o.step \in {"append", "bump", "reconcile", "leave", "attach"} /\ o.events # {} =>
           o.events = o.observed.activity /\ o.project = o.observed.project
    /\ o.step \in {"bump", "reconcile", "leave", "attach"} /\ o.events # {} =>
           o.project \in Project /\ o.events \subseteq cov[o.project]
    /\ o.step \in {"append", "bump", "reconcile"} /\ o.kind = "checkpoint" /\ o.detach
           /\ o.events = {} => o.observed.activity = {}
    /\ o.step \in {"append", "bump", "leave", "attach"} /\ o.kind = "open" /\ o.events = {}
           /\ Switching(o.observed, o.target) => o.observed.activity = {}

(* A plan without force is of a session without activity, unless that has  *)
(* moved on.                                                               *)
Planned(o, ses) ==
    o.step \in {"plan", "observe"} /\ o.kind = "checkpoint" /\ o.detach /\ ~o.force =>
        /\ o.expected \in Nat /\ o.expected <= ses[o.session].stamp
        /\ o.expected = ses[o.session].stamp => ses[o.session].activity = {}

(* While a session is being opened, whoever else works on it only pauses it.*)
Opening(o, ses) ==
    o.step \in {"append", "bump", "leave", "attach"} /\ o.kind = "open"
    /\ ses[o.session].status = "active" =>
        o.observed.status = "active" /\ ses[o.session].project = o.observed.project

Good(o, cov, ses) == Placed(o) /\ Captures(o, cov) /\ Planned(o, ses) /\ Opening(o, ses)

(* The server of an agent has one call under way.                          *)
Calling(o) == o.step # "idle" /\ o.kind # "checkpoint"
OneCall == \A x, y \in Proc :
    Calling(op[x]) /\ Calling(op[y]) /\ op[x].session = op[y].session => x = y

OpInv == OneCall /\ \A x \in Proc : Good(op[x], covered, session)

(* Every event observed so far is in the activity of a session attached to *)
(* the project of the event, or covered by it.                             *)
Kept(e) ==
    \/ e \in covered[origin[e]]
    \/ \E s \in Session : e \in session[s].activity /\ Active(s) /\ session[s].project = origin[e]

EventsKept == \A e \in 1..events : origin[e] \in Project /\ Kept(e)

(* Records appended and not yet counted by the generation.                 *)
Bumping(p) == {x \in Proc : op[x].step = "bump" /\ op[x].project = p}
CountedInv == \A p \in Project :
    /\ IsFiniteSet(Bumping(p))
    /\ proj[p].generation + Cardinality(Bumping(p)) <= proj[p].log
    /\ proj[p].snapshot <= proj[p].viewed

SessionInv == TypeOK /\ Attached /\ OpInv /\ EventsKept /\ CountedInv

-----------------------------------------------------------------------------
(* Types.                                                                  *)

LEMMA IdleType ==
    /\ NoOperation \in Local /\ NewSession \in State
    /\ NoOperation.step = "idle" /\ NoOperation.kind = "capture" /\ NoOperation.events = {} /\ ~NoOperation.force /\ ~NoOperation.detach
  <1>1. NewSession \in State
    BY DEF NewSession, State, Statuses
  <1> QED
    BY <1>1 DEF NoOperation, Local, Steps

LEMMA NewProjectType == SessionAssumption => NewProject \in Memory /\ 0 \in Nat
  BY DEF NewProject, Memory

LEMMA InitType == SessionAssumption /\ SessionInit => TypeOK /\ Attached
  <1> SUFFICES ASSUME SessionAssumption, SessionInit PROVE TypeOK /\ Attached
    OBVIOUS
  <1>1. \A s \in Session : ~Active(s)
    BY DEF SessionInit, Active, NewSession
  <1> QED
    BY <1>1, IdleType, NewProjectType DEF SessionInit, TypeOK, Attached, SessionAssumption

\* An operation that goes on, or keeps what it has looked at.
LEMMA GoType ==
    ASSUME NEW o \in Local, NEW st \in Steps
    PROVE  /\ [o EXCEPT !.step = st] \in Local
           /\ [o EXCEPT !.step = st].step = st
           /\ [o EXCEPT !.step = st].kind = o.kind
           /\ [o EXCEPT !.step = st].session = o.session
           /\ [o EXCEPT !.step = st].project = o.project
           /\ [o EXCEPT !.step = st].target = o.target
           /\ [o EXCEPT !.step = st].force = o.force
           /\ [o EXCEPT !.step = st].detach = o.detach
           /\ [o EXCEPT !.step = st].observed = o.observed
           /\ [o EXCEPT !.step = st].expected = o.expected
           /\ [o EXCEPT !.step = st].events = o.events
  BY DEF Local

\* What an operation has become.
Became(x, n) == n \in Local /\ op' = [op EXCEPT ![x] = n]

LEMMA GoesOn ==
    ASSUME TypeOK, NEW x \in Proc, NEW st \in Steps, Goto(x, st)
    PROVE  Became(x, [op[x] EXCEPT !.step = st])
  <1>1. op[x] \in Local
    BY DEF TypeOK
  <1> QED
    BY <1>1, GoType DEF Goto, Became

LEMMA IsDone ==
    ASSUME NEW x \in Proc, Done(x)
    PROVE  Became(x, NoOperation)
  BY IdleType DEF Done, Became

LEMMA BecameType ==
    ASSUME TypeOK, NEW x \in Proc, NEW n, Became(x, n)
    PROVE  /\ op' \in [Proc -> Local] /\ op'[x] = n
           /\ \A y \in Proc \ {x} : op'[y] = op[y]
  BY DEF Became, TypeOK

\* The operations an agent, the plugin or the operator begins.
Begun(x, n) ==
    /\ op[x].step = "idle" /\ Became(x, n)
    /\ n.session \in Session /\ n.events = {}
    /\ UNCHANGED <<session, proj, covered, origin, events>> /\ operations' = operations + 1

LEMMA Begins ==
    ASSUME TypeOK, NEW x \in Proc, NEW s \in Session
    PROVE  /\ \A f \in BOOLEAN : StartCheckpoint(x, s, f) =>
                 \E n : Begun(x, n) /\ n.step = "observe" /\ n.kind = "checkpoint" /\ ~n.detach
           /\ StartDetach(x, s) =>
                 \E n : Begun(x, n) /\ n.step = "observe" /\ n.kind = "checkpoint" /\ n.force
           /\ StartRecover(x, s) =>
                 \E n : /\ Begun(x, n) /\ n.step = "plan" /\ n.kind = "checkpoint" /\ n.session = s
                        /\ n.force = (session[s].activity # {}) /\ n.expected = session[s].stamp
           /\ \A p \in Project : StartOpen(x, s, p) =>
                 \E n : /\ Begun(x, n) /\ n.step = "observe" /\ n.kind = "open" /\ n.session = s
                        /\ n.target = p /\ AgentFree(s)
           /\ \A p \in Project : StartCapture(x, s, p) =>
                 \E n : /\ Begun(x, n) /\ n.step = "append" /\ n.kind = "capture" /\ n.session = s
                        /\ n.project = p /\ AgentFree(s)
  <1>1. ASSUME NEW f \in BOOLEAN, StartCheckpoint(x, s, f)
        PROVE  \E n : Begun(x, n) /\ n.step = "observe" /\ n.kind = "checkpoint" /\ ~n.detach
    <2> DEFINE n == [NoOperation EXCEPT !.step = "observe", !.kind = "checkpoint", !.session = s, !.force = f]
    <2>1. /\ n \in Local /\ n.step = "observe" /\ n.kind = "checkpoint" /\ ~n.detach
          /\ n.session = s /\ n.events = {}
      BY IdleType DEF Local, Steps
    <2>2. Begun(x, n)
      BY <1>1, <2>1 DEF StartCheckpoint, Start, Begun, Became
    <2> QED
      BY <2>1, <2>2
  <1>2. ASSUME StartDetach(x, s)
        PROVE  \E n : Begun(x, n) /\ n.step = "observe" /\ n.kind = "checkpoint" /\ n.force
    <2> DEFINE n == [NoOperation EXCEPT !.step = "observe", !.kind = "checkpoint", !.session = s,
                                 !.force = TRUE, !.detach = TRUE]
    <2>1. /\ n \in Local /\ n.step = "observe" /\ n.kind = "checkpoint" /\ n.force
          /\ n.session = s /\ n.events = {}
      BY IdleType DEF Local, Steps
    <2>2. Begun(x, n)
      BY <1>2, <2>1 DEF StartDetach, Start, Begun, Became
    <2> QED
      BY <2>1, <2>2
  <1>3. ASSUME StartRecover(x, s)
        PROVE  \E n : /\ Begun(x, n) /\ n.step = "plan" /\ n.kind = "checkpoint" /\ n.session = s
                      /\ n.force = (session[s].activity # {}) /\ n.expected = session[s].stamp
    <2> DEFINE n == [NoOperation EXCEPT !.step = "plan", !.kind = "checkpoint", !.session = s,
                                 !.force = session[s].activity # {}, !.detach = TRUE,
                                 !.expected = session[s].stamp]
    <2>1. session[s] \in State /\ session[s].stamp \in Nat
      BY DEF TypeOK, State
    <2>2. /\ n \in Local /\ n.step = "plan" /\ n.kind = "checkpoint" /\ n.session = s /\ n.events = {}
          /\ n.force = (session[s].activity # {}) /\ n.expected = session[s].stamp
      BY <2>1, IdleType DEF Local, Steps
    <2>3. Begun(x, n)
      BY <1>3, <2>2 DEF StartRecover, Start, Begun, Became
    <2> QED
      BY <2>2, <2>3
  <1>4. ASSUME NEW p \in Project, StartOpen(x, s, p)
        PROVE  \E n : /\ Begun(x, n) /\ n.step = "observe" /\ n.kind = "open" /\ n.session = s
                      /\ n.target = p /\ AgentFree(s)
    <2> DEFINE n == [NoOperation EXCEPT !.step = "observe", !.kind = "open", !.session = s, !.target = p]
    <2>1. /\ n \in Local /\ n.step = "observe" /\ n.kind = "open" /\ n.session = s /\ n.target = p
          /\ n.events = {}
      BY IdleType DEF Local, Steps
    <2>2. Begun(x, n) /\ AgentFree(s)
      BY <1>4, <2>1 DEF StartOpen, Start, Begun, Became
    <2> QED
      BY <2>1, <2>2
  <1>5. ASSUME NEW p \in Project, StartCapture(x, s, p)
        PROVE  \E n : /\ Begun(x, n) /\ n.step = "append" /\ n.kind = "capture" /\ n.session = s
                      /\ n.project = p /\ AgentFree(s)
    <2> DEFINE n == [NoOperation EXCEPT !.step = "append", !.kind = "capture", !.session = s, !.project = p]
    <2>1. /\ n \in Local /\ n.step = "append" /\ n.kind = "capture" /\ n.session = s /\ n.project = p
          /\ n.events = {}
      BY IdleType DEF Local, Steps
    <2>2. Begun(x, n) /\ AgentFree(s)
      BY <1>5, <2>1 DEF StartCapture, Start, Begun, Became
    <2> QED
      BY <2>1, <2>2
  <1> QED
    BY <1>1, <1>2, <1>3, <1>4, <1>5

-----------------------------------------------------------------------------
(* What the steps do to the sessions.                                      *)

LEMMA StateFields ==
    ASSUME NEW a \in State
    PROVE  /\ a.stamp \in Nat /\ a.activity \in SUBSET Event /\ a.status \in Statuses
           /\ a.project \in Project \cup {NoProject}
  BY DEF State

\* A session that is observed, touched or paused, but not attached.
Ages(a, b) ==
    /\ b \in State /\ a.stamp <= b.stamp
    /\ a.stamp = b.stamp => b.activity \subseteq a.activity
    /\ b.status = "active" => a.status = "active" /\ b.project = a.project

LEMMA AgesNot == ASSUME NEW a \in State PROVE Ages(a, a)
  BY StateFields DEF Ages

LEMMA RecordEffect ==
    ASSUME SessionAssumption, TypeOK, NEW s \in Session, RecordActivity(s)
    PROVE  /\ events + 1 \in Event /\ Active(s)
           /\ session' \in [Session -> State]
           /\ \A t \in Session : Ages(session[t], session'[t])
           /\ \A t \in Session : /\ session'[t].status = session[t].status
                                 /\ session'[t].project = session[t].project
                                 /\ session[t].activity \subseteq session'[t].activity
           /\ events + 1 \in session'[s].activity
           /\ origin' \in [Event -> Project \cup {NoProject}]
           /\ origin'[events + 1] = session[s].project
           /\ \A e \in Event \ {events + 1} : origin'[e] = origin[e]
  <1> DEFINE e == events + 1
             n == [session[s] EXCEPT !.activity = @ \cup {e}, !.stamp = @ + 1]
  <1>1. e \in Event /\ e # events
    BY DEF RecordActivity, TypeOK, Event, SessionAssumption
  <1>2. session[s] \in State /\ \A t \in Session : session[t] \in State
    BY DEF TypeOK
  <1>3. /\ n \in State /\ n.status = session[s].status /\ n.project = session[s].project
        /\ n.activity = session[s].activity \cup {e} /\ n.stamp = session[s].stamp + 1
        /\ session[s].stamp \in Nat
    <2> DEFINE a == session[s]  seen == a.activity \cup {e}  k == a.stamp + 1
    <2>1. a \in State /\ seen \in SUBSET Event /\ k \in Nat /\ a.stamp \in Nat
      BY <1>1, <1>2, StateFields
    <2>2. n = [a EXCEPT !.activity = seen, !.stamp = k]
      OBVIOUS
    <2> HIDE DEF a, seen, k, n
    <2>3. /\ n \in State /\ n.status = a.status /\ n.project = a.project
          /\ n.activity = seen /\ n.stamp = k
      BY <2>1, <2>2 DEF State
    <2> QED
      BY <2>1, <2>3 DEF a, seen, k
  <1>4. session' = [session EXCEPT ![s] = n]
    BY DEF RecordActivity
  <1>5. session' \in [Session -> State] /\ session'[s] = n
        /\ \A t \in Session \ {s} : session'[t] = session[t]
    BY <1>3, <1>4 DEF TypeOK
  <1>6. Ages(session[s], n)
    BY <1>3 DEF Ages, Statuses
  <1>7. \A t \in Session : Ages(session[t], session'[t])
    BY <1>2, <1>5, <1>6, AgesNot
  <1>8. /\ origin' \in [Event -> Project \cup {NoProject}] /\ origin'[e] = session[s].project
        /\ \A d \in Event \ {e} : origin'[d] = origin[d]
    <2>1. session[s].project \in Project \cup {NoProject}
      BY <1>2 DEF State
    <2> QED
      BY <1>1, <2>1 DEF RecordActivity, TypeOK
  <1>9. Active(s)
    BY DEF RecordActivity
  <1> QED
    BY <1>1, <1>2, <1>3, <1>5, <1>7, <1>8, <1>9

\* What a checkpoint makes of the session it reconciles with.
Reconciled(o, a, b) ==
    /\ a.status = "active" /\ a.project = o.project
    /\ b \in State /\ b.project = a.project /\ a.stamp <= b.stamp
    /\ \/ b.activity = a.activity
       \/ b.activity = {} /\ o.events # {} /\ a.activity = o.observed.activity
    /\ \/ b.status = a.status
       \/ b.status = "paused" /\ o.detach /\ a.activity = o.observed.activity

LEMMA ReconcileEffect ==
    ASSUME TypeOK, NEW x \in Proc, op[x].session \in Session, Reconcile(x)
    PROVE  /\ Became(x, NoOperation) \/ Became(x, [op[x] EXCEPT !.step = "refresh"])
           /\ session' \in [Session -> State]
           /\ \A s \in Session : session'[s] # session[s] =>
                  s = op[x].session /\ Reconciled(op[x], session[s], session'[s])
           /\ \A s \in Session : Ages(session[s], session'[s])
  <1> DEFINE s == op[x].session
             a == session[s]
             newer == a.activity # op[x].observed.activity
             seen == IF newer THEN a.activity ELSE IF op[x].events # {} THEN {} ELSE a.activity
             st == IF op[x].detach /\ ~newer THEN "paused" ELSE a.status
             k == IF op[x].detach /\ ~newer THEN a.stamp + 1 ELSE a.stamp
             b == [a EXCEPT !.activity = seen, !.status = st, !.stamp = k]
  <1>1. a \in State /\ a.stamp \in Nat /\ a.activity \in SUBSET Event /\ a.status \in Statuses
    <2>1. a \in State
      BY DEF TypeOK
    <2> QED
      BY <2>1, StateFields
  <1>2. seen \in SUBSET Event /\ st \in Statuses /\ k \in Nat
    BY <1>1 DEF Statuses
  <1>3. /\ b \in State /\ b.activity = seen /\ b.status = st /\ b.stamp = k /\ b.project = a.project
    <2> HIDE DEF a, seen, st, k
    <2>1. a \in State
      BY <1>1
    <2> QED
      BY <2>1, <1>2 DEF State
  <1>4. CASE ~Active(s) \/ session[s].project # op[x].project
    <2>1. session' = session /\ Done(x)
      BY <1>4 DEF Reconcile
    <2>2. \A t \in Session : session[t] \in State
      BY DEF TypeOK
    <2> QED
      BY <2>1, <2>2, IsDone, AgesNot DEF TypeOK
  <1>5. CASE ~(~Active(s) \/ session[s].project # op[x].project)
    <2>1. /\ session' = [session EXCEPT ![s] = b]
          /\ Done(x) \/ Goto(x, "refresh")
      BY <1>5 DEF Reconcile
    <2>2. session' \in [Session -> State] /\ session'[s] = b
          /\ \A t \in Session \ {s} : session'[t] = session[t] /\ session[t] \in State
      BY <1>3, <2>1 DEF TypeOK
    <2>3. Reconciled(op[x], a, b)
      BY SMTT(30), <1>1, <1>3, <1>5 DEF Reconciled, Active
    <2>4. Ages(a, b)
      BY SMTT(30), <1>1, <1>3, <1>5 DEF Ages, Active
    <2>5. \A t \in Session : Ages(session[t], session'[t])
      BY <2>2, <2>4, AgesNot
    <2>6. Became(x, NoOperation) \/ Became(x, [op[x] EXCEPT !.step = "refresh"])
      BY <2>1, IsDone, GoesOn DEF Steps
    <2> QED
      BY <2>2, <2>3, <2>5, <2>6
  <1> QED
    BY <1>4, <1>5

LEMMA BumpEffect ==
    ASSUME TypeOK, NEW x \in Proc, Bump(x)
    PROVE  /\ session' \in [Session -> State]
           /\ \A s \in Session : Ages(session[s], session'[s])
           /\ \A s \in Session : /\ session'[s].status = session[s].status
                                 /\ session'[s].project = session[s].project
                                 /\ session'[s].activity = session[s].activity
  <1> SUFFICES ASSUME NEW s \in Session
               PROVE  /\ session'[s] \in State /\ Ages(session[s], session'[s])
                      /\ session'[s].status = session[s].status
                      /\ session'[s].project = session[s].project
                      /\ session'[s].activity = session[s].activity
    BY DEF Bump
  <1> DEFINE a == session[s]  n == [a EXCEPT !.stamp = @ + 1]
  <1>1. a \in State /\ a.stamp \in Nat /\ a.stamp + 1 \in Nat
    BY DEF TypeOK, State
  <1>2. /\ n \in State /\ n.status = a.status /\ n.project = a.project /\ n.activity = a.activity
        /\ n.stamp = a.stamp + 1
    BY <1>1 DEF State
  <1>3. session'[s] = n \/ session'[s] = a
    BY DEF Bump
  <1>4. Ages(a, n)
    BY <1>1, <1>2 DEF Ages
  <1> QED
    BY <1>1, <1>2, <1>3, <1>4, AgesNot

LEMMA AttachEffect ==
    ASSUME TypeOK, NEW x \in Proc, op[x].session \in Session, op[x].target \in Project, Attach(x)
    PROVE  LET s == op[x].session  a == session[s]  seen == op[x].observed IN
           \/ session' = session /\ Became(x, NoOperation)
           \/ /\ Became(x, [op[x] EXCEPT !.project = op[x].target, !.step = "refresh"])
              /\ session' \in [Session -> State]
              /\ session'[s].status = "active" /\ session'[s].project = op[x].target
              /\ session'[s].stamp = a.stamp + 1
              /\ session'[s].activity = IF a.status = "active" /\ a.project = op[x].target
                                        THEN a.activity ELSE {}
              /\ \A t \in Session \ {s} : session'[t] = session[t]
              /\ Switching(seen, op[x].target) =>
                    a.status = seen.status /\ a.project = seen.project /\ a.activity = seen.activity
  <1> DEFINE s == op[x].session  a == session[s]  seen == op[x].observed  target == op[x].target
             same == a.status = "active" /\ a.project = target
             kept == IF same THEN a.activity ELSE {}
             b == [status |-> "active", project |-> target, activity |-> kept, stamp |-> a.stamp + 1]
             o == [op[x] EXCEPT !.project = target, !.step = "refresh"]
  <1>1. a \in State /\ a.stamp \in Nat /\ kept \in SUBSET Event
    BY DEF TypeOK, State
  <1>2. b \in State
    BY <1>1 DEF State, Statuses
  <1>3. o \in Local
    <2>1. op[x] \in Local
      BY DEF TypeOK
    <2> QED
      BY <2>1 DEF Local, Steps
  <1>4. CASE Switching(seen, target) /\ (a.status # seen.status \/ a.project # seen.project
                                         \/ a.activity # seen.activity)
    <2>1. session' = session /\ Done(x)
      BY <1>4 DEF Attach
    <2> QED
      BY <2>1, IsDone
  <1>5. CASE ~(Switching(seen, target) /\ (a.status # seen.status \/ a.project # seen.project
                                           \/ a.activity # seen.activity))
    <2>1. session' = [session EXCEPT ![s] = b] /\ op' = [op EXCEPT ![x].project = target, ![x].step = "refresh"]
      BY <1>5 DEF Attach
    <2>2. Became(x, o)
      BY <1>3, <2>1 DEF Became, TypeOK
    <2>3. session' \in [Session -> State] /\ session'[s] = b
          /\ \A t \in Session \ {s} : session'[t] = session[t]
      BY <1>2, <2>1 DEF TypeOK
    <2> QED
      BY <1>5, <2>2, <2>3
  <1> QED
    BY <1>4, <1>5

-----------------------------------------------------------------------------
(* The operations under way.                                               *)

LEMMA LocalFields ==
    ASSUME NEW o \in Local
    PROVE  /\ o.step \in Steps /\ o.kind \in {"capture", "checkpoint", "open"}
           /\ o.project \in Project \cup {NoProject} /\ o.target \in Project \cup {NoProject}
           /\ o.force \in BOOLEAN /\ o.detach \in BOOLEAN /\ o.observed \in State
           /\ o.expected \in Nat \cup {-1} /\ o.events \in SUBSET Event /\ o.latest \in Nat
  BY DEF Local

LEMMA IdleGood ==
    ASSUME NEW cov, NEW ses
    PROVE  Good(NoOperation, cov, ses) /\ ~Calling(NoOperation)
  BY IdleType DEF Good, Placed, Captures, Planned, Opening, Calling

\* What others do to the records and to the sessions leaves an operation as good.
LEMMA GoodKept ==
    ASSUME NEW o \in Local, NEW cov, NEW ses, NEW cov2, NEW ses2,
           Good(o, cov, ses), \A p \in Project : cov[p] \subseteq cov2[p],
           o.session \in Session => ses[o.session] \in State /\ ses2[o.session] \in State,
           \/ o.step = "idle"
           \/ Ages(ses[o.session], ses2[o.session])
           \/ ~Calling(o) /\ ses[o.session].stamp < ses2[o.session].stamp
    PROVE  Good(o, cov2, ses2)
  <1>1. Placed(o) /\ Captures(o, cov) /\ Planned(o, ses) /\ Opening(o, ses)
    BY DEF Good
  <1>2. Captures(o, cov2)
    BY <1>1 DEF Captures
  <1>3. Planned(o, ses2)
    <2> SUFFICES ASSUME o.step \in {"plan", "observe"}, o.kind = "checkpoint", o.detach, ~o.force
                 PROVE  /\ o.expected \in Nat /\ o.expected <= ses2[o.session].stamp
                        /\ o.expected = ses2[o.session].stamp => ses2[o.session].activity = {}
      BY DEF Planned
    <2>1. o.session \in Session
      BY <1>1 DEF Placed
    <2>2. /\ ses[o.session].stamp \in Nat /\ ses2[o.session].stamp \in Nat
      BY <2>1, StateFields
    <2>3. /\ o.expected \in Nat /\ o.expected <= ses[o.session].stamp
          /\ o.expected = ses[o.session].stamp => ses[o.session].activity = {}
      BY <1>1 DEF Planned
    <2>4. CASE Ages(ses[o.session], ses2[o.session])
      BY <2>2, <2>3, <2>4 DEF Ages
    <2>5. CASE ses[o.session].stamp < ses2[o.session].stamp
      BY <2>2, <2>3, <2>5
    <2> QED
      BY <2>4, <2>5
  <1>4. Opening(o, ses2)
    BY <1>1 DEF Opening, Ages, Calling
  <1> QED
    BY <1>1, <1>2, <1>3, <1>4 DEF Good

LEMMA OthersGood ==
    ASSUME TypeOK, OpInv, NEW y \in Proc,
           \A p \in Project : covered[p] \subseteq covered'[p],
           session' \in [Session -> State],
           \A s \in Session : Ages(session[s], session'[s])
    PROVE  Good(op[y], covered', session')
  <1>1. op[y] \in Local /\ Good(op[y], covered, session)
    BY DEF TypeOK, OpInv
  <1>2. op[y].step = "idle" \/ op[y].session \in Session
    BY <1>1 DEF Good, Placed
  <1>3. \A s \in Session : session[s] \in State /\ session'[s] \in State
    BY DEF TypeOK
  <1> QED
    BY <1>1, <1>2, <1>3, GoodKept

LEMMA OpKept ==
    ASSUME TypeOK, OpInv, NEW x \in Proc, NEW n, Became(x, n), Good(n, covered', session'),
           Calling(n) => \A y \in Proc \ {x} : Calling(op[y]) => op[y].session # n.session,
           \A y \in Proc \ {x} : Good(op[y], covered', session')
    PROVE  OpInv'
  <1>1. op' \in [Proc -> Local] /\ op'[x] = n /\ \A y \in Proc \ {x} : op'[y] = op[y]
    BY BecameType
  <1>2. \A y \in Proc : Good(op'[y], covered', session')
    BY <1>1
  <1>3. ASSUME NEW y \in Proc, NEW z \in Proc, Calling(op'[y]), Calling(op'[z]),
               op'[y].session = op'[z].session
        PROVE  y = z
    BY <1>1, <1>3 DEF OpInv, OneCall
  <1> QED
    BY <1>2, <1>3 DEF OpInv, OneCall

\* An operation that goes on is the one call of its session, if it was.
LEMMA SameCall ==
    ASSUME TypeOK, OpInv, NEW x \in Proc, NEW n, n.session = op[x].session, n.kind = op[x].kind,
           op[x].step # "idle"
    PROVE  Calling(n) => \A y \in Proc \ {x} : Calling(op[y]) => op[y].session # n.session
  BY DEF OpInv, OneCall, Calling

\* Operations of which neither the records nor the sessions know.
LEMMA OpQuiet ==
    ASSUME TypeOK, OpInv, NEW x \in Proc, NEW n, Became(x, n), UNCHANGED <<session, covered>>,
           Good(n, covered, session),
           Calling(n) => \A y \in Proc \ {x} : Calling(op[y]) => op[y].session # n.session
    PROVE  OpInv'
  <1>1. \A y \in Proc \ {x} : Good(op[y], covered', session')
    BY DEF OpInv
  <1> QED
    BY <1>1, OpKept

LEMMA BeginOp ==
    ASSUME TypeOK, OpInv, NEW x \in Proc, BeginOperation(x)
    PROVE  OpInv'
  <1>1. PICK s \in Session :
            \/ \E f \in BOOLEAN : StartCheckpoint(x, s, f)
            \/ StartDetach(x, s) \/ StartRecover(x, s)
            \/ \E p \in Project : StartOpen(x, s, p) \/ StartCapture(x, s, p)
    BY DEF BeginOperation
  <1>2. ASSUME AgentFree(s), NEW n, n.session = s
        PROVE  \A y \in Proc \ {x} : Calling(op[y]) => op[y].session # n.session
    BY <1>2 DEF AgentFree, Calling
  <1>3. session[s] \in State
    BY DEF TypeOK
  <1>4. CASE \E f \in BOOLEAN : StartCheckpoint(x, s, f)
    <2>1. PICK n : Begun(x, n) /\ n.step = "observe" /\ n.kind = "checkpoint" /\ ~n.detach
      BY <1>4, Begins
    <2>2. Good(n, covered, session) /\ ~Calling(n)
      BY <2>1 DEF Begun, Good, Placed, Captures, Planned, Opening, Calling
    <2> QED
      BY <2>1, <2>2, OpQuiet DEF Begun
  <1>5. CASE StartDetach(x, s)
    <2>1. PICK n : Begun(x, n) /\ n.step = "observe" /\ n.kind = "checkpoint" /\ n.force
      BY <1>5, Begins
    <2>2. Good(n, covered, session) /\ ~Calling(n)
      BY <2>1 DEF Begun, Good, Placed, Captures, Planned, Opening, Calling
    <2> QED
      BY <2>1, <2>2, OpQuiet DEF Begun
  <1>6. CASE StartRecover(x, s)
    <2>1. PICK n : /\ Begun(x, n) /\ n.step = "plan" /\ n.kind = "checkpoint" /\ n.session = s
                   /\ n.force = (session[s].activity # {}) /\ n.expected = session[s].stamp
      BY <1>6, Begins
    <2>2. Placed(n) /\ Captures(n, covered) /\ Opening(n, session) /\ ~Calling(n)
      BY <2>1 DEF Begun, Placed, Captures, Opening, Calling
    <2>3. Planned(n, session)
      <3>1. ~n.force => session[s].activity = {}
        BY <2>1, Zenon
      <3>2. session[s].stamp \in Nat /\ session[s].stamp <= session[s].stamp
        BY <1>3, StateFields
      <3> QED
        BY <2>1, <3>1, <3>2, Zenon DEF Planned
    <2>4. Good(n, covered, session)
      BY <2>2, <2>3 DEF Good
    <2> QED
      BY <2>1, <2>2, <2>4, OpQuiet DEF Begun
  <1>7. ASSUME NEW p \in Project, StartOpen(x, s, p) PROVE OpInv'
    <2>1. PICK n : /\ Begun(x, n) /\ n.step = "observe" /\ n.kind = "open" /\ n.session = s
                   /\ n.target = p /\ AgentFree(s)
      BY <1>7, Begins
    <2>2. Good(n, covered, session)
      BY <2>1 DEF Begun, Good, Placed, Captures, Planned, Opening
    <2> QED
      BY <1>2, <2>1, <2>2, OpQuiet DEF Begun
  <1>8. ASSUME NEW p \in Project, StartCapture(x, s, p) PROVE OpInv'
    <2>1. PICK n : /\ Begun(x, n) /\ n.step = "append" /\ n.kind = "capture" /\ n.session = s
                   /\ n.project = p /\ AgentFree(s)
      BY <1>8, Begins
    <2>2. Good(n, covered, session)
      BY <2>1 DEF Begun, Good, Placed, Captures, Planned, Opening
    <2> QED
      BY <1>2, <2>1, <2>2, OpQuiet DEF Begun
  <1> QED
    BY <1>1, <1>4, <1>5, <1>6, <1>7, <1>8

LEMMA RecordOp ==
    ASSUME SessionAssumption, TypeOK, OpInv, NEW s \in Session, RecordActivity(s)
    PROVE  OpInv'
  <1>1. op' = op /\ covered' = covered
    BY DEF RecordActivity
  <1>2. \A y \in Proc : Good(op[y], covered', session')
    BY <1>1, RecordEffect, OthersGood
  <1> QED
    BY <1>1, <1>2 DEF OpInv, OneCall

LEMMA CrashOp ==
    ASSUME TypeOK, OpInv, NEW x \in Proc, Done(x), UNCHANGED <<session, covered>>
    PROVE  OpInv'
  BY IsDone, IdleGood, OpQuiet

LEMMA PlanOp ==
    ASSUME TypeOK, OpInv, NEW x \in Proc, ApplyPlan(x)
    PROVE  OpInv'
  <1> DEFINE n == [op[x] EXCEPT !.step = "observe"]
  <1>1. op[x] \in Local /\ Good(op[x], covered, session) /\ op[x].step = "plan"
    BY DEF TypeOK, OpInv, ApplyPlan
  <1>2. Became(x, n)
    BY GoesOn DEF ApplyPlan, Steps
  <1>3. /\ n.step = "observe" /\ n.kind = op[x].kind /\ n.session = op[x].session
        /\ n.detach = op[x].detach /\ n.force = op[x].force /\ n.expected = op[x].expected
    BY <1>1, GoType DEF Steps
  <1> HIDE DEF n
  <1>4. n.kind = "checkpoint" /\ n.session \in Session
    BY <1>1, <1>3 DEF Good, Placed
  <1>5. Good(n, covered, session)
    BY <1>1, <1>3, <1>4 DEF Good, Placed, Captures, Planned, Opening
  <1> QED
    BY <1>2, <1>4, <1>5, OpQuiet DEF ApplyPlan, Calling

LEMMA ObserveCheckpointOp ==
    ASSUME TypeOK, Attached, OpInv, NEW x \in Proc, ObserveCheckpoint(x)
    PROVE  /\ OpInv'
           /\ \E n : Became(x, n) /\ n.step # "bump"
  <1> DEFINE o == op[x]
             s == o.session
             seen == session[s]
             capture == Meaningful(seen.activity, o.force)
             n == [o EXCEPT !.observed = seen, !.project = seen.project,
                            !.events = IF capture THEN seen.activity ELSE {},
                            !.step = IF capture THEN "append" ELSE "reconcile"]
  <1>1. /\ o \in Local /\ Good(o, covered, session) /\ o.step = "observe" /\ o.kind = "checkpoint"
        /\ UNCHANGED <<session, covered>>
    BY DEF TypeOK, OpInv, ObserveCheckpoint
  <1>2. s \in Session /\ seen \in State
    BY <1>1 DEF Good, Placed, TypeOK
  <1>3. CASE ~Active(s) \/ (o.expected # -1 /\ seen.stamp # o.expected)
    <2>1. Done(x)
      BY <1>3 DEF ObserveCheckpoint
    <2> QED
      BY <1>1, <2>1, CrashOp, IsDone, IdleType
  <1>4. CASE ~(~Active(s) \/ (o.expected # -1 /\ seen.stamp # o.expected))
    <2>1. op' = [op EXCEPT ![x] = n]
      BY <1>4 DEF ObserveCheckpoint, TypeOK
    <2>2. seen.project \in Project /\ seen.activity \in SUBSET Event
      BY <1>2, <1>4, StateFields DEF Attached
    <2>3. /\ n \in Local /\ n.observed = seen /\ n.project = seen.project
          /\ n.events = (IF capture THEN seen.activity ELSE {})
          /\ n.step = (IF capture THEN "append" ELSE "reconcile")
          /\ n.kind = "checkpoint" /\ n.session = s /\ n.detach = o.detach
      <3> DEFINE ev == IF capture THEN seen.activity ELSE {}
                 st == IF capture THEN "append" ELSE "reconcile"
      <3>1. ev \in SUBSET Event /\ st \in Steps
        BY <2>2 DEF Steps
      <3>2. n = [o EXCEPT !.observed = seen, !.project = seen.project, !.events = ev, !.step = st]
        OBVIOUS
      <3>3. seen \in State /\ seen.project \in Project /\ o \in Local /\ s = o.session /\ o.kind = "checkpoint"
        BY <1>1, <1>2, <2>2
      <3> HIDE DEF n, ev, st, seen, s, o
      <3>4. /\ n \in Local /\ n.observed = seen /\ n.project = seen.project /\ n.events = ev
            /\ n.step = st /\ n.kind = "checkpoint" /\ n.session = s /\ n.detach = o.detach
        BY <3>1, <3>2, <3>3 DEF Local
      <3> QED
        BY <3>4 DEF ev, st
    <2>4. ~capture /\ o.detach => seen.activity = {}
      <3>1. CASE o.force
        BY <3>1 DEF Meaningful
      <3>2. CASE ~o.force
        <4> SUFFICES ASSUME o.detach PROVE seen.activity = {}
          OBVIOUS
        <4>1. /\ o.expected \in Nat
              /\ o.expected = seen.stamp => seen.activity = {}
          BY <1>1, <3>2 DEF Good, Planned
        <4> QED
          BY <1>4, <4>1
      <3> QED
        BY <3>1, <3>2
    <2>5. Good(n, covered, session) /\ ~Calling(n)
      <3> HIDE DEF n, o, seen, s, capture
      <3>1. Placed(n)
        BY <1>2, <2>2, <2>3 DEF Placed
      <3>2. Captures(n, covered)
        BY <2>3, <2>4 DEF Captures, Meaningful
      <3>3. Planned(n, session) /\ Opening(n, session) /\ ~Calling(n)
        BY <2>3 DEF Planned, Opening, Calling
      <3> QED
        BY <3>1, <3>2, <3>3 DEF Good
    <2>6. Became(x, n) /\ n.step # "bump"
      BY <2>1, <2>3 DEF Became
    <2> HIDE DEF n
    <2> QED
      BY <1>1, <2>5, <2>6, OpQuiet
  <1> QED
    BY <1>3, <1>4

LEMMA ReconcileOp ==
    ASSUME TypeOK, OpInv, NEW x \in Proc, Reconcile(x)
    PROVE  OpInv'
  <1>1. /\ op[x] \in Local /\ Good(op[x], covered, session) /\ op[x].step = "reconcile"
        /\ covered' = covered
    BY DEF TypeOK, OpInv, Reconcile
  <1>2. op[x].session \in Session /\ op[x].kind = "checkpoint" /\ op[x].project \in Project
    BY <1>1 DEF Good, Placed
  <1>3. \A y \in Proc \ {x} : Good(op[y], covered', session')
    BY <1>1, <1>2, ReconcileEffect, OthersGood
  <1>4. CASE Became(x, NoOperation)
    BY <1>3, <1>4, IdleGood, OpKept
  <1>5. CASE Became(x, [op[x] EXCEPT !.step = "refresh"])
    <2> DEFINE n == [op[x] EXCEPT !.step = "refresh"]
    <2>1. n.step = "refresh" /\ n.kind = "checkpoint" /\ n.session \in Session /\ n.project \in Project
      BY <1>1, <1>2, GoType DEF Steps
    <2>2. Good(n, covered', session') /\ ~Calling(n)
      BY <2>1 DEF Good, Placed, Captures, Planned, Opening, Calling
    <2> QED
      BY <1>3, <1>5, <2>2, OpKept
  <1> QED
    BY <1>2, <1>4, <1>5, ReconcileEffect

LEMMA AppendOp ==
    ASSUME TypeOK, OpInv, NEW x \in Proc, AppendRecord(x)
    PROVE  /\ OpInv' /\ covered' \in [Project -> SUBSET Event]
           /\ op[x].project \in Project /\ op[x].events \subseteq covered'[op[x].project]
           /\ \A p \in Project : covered[p] \subseteq covered'[p]
           /\ Became(x, [op[x] EXCEPT !.step = "bump"])
  <1> DEFINE p == op[x].project
             n == [op[x] EXCEPT !.step = "bump"]
  <1>1. /\ op[x] \in Local /\ Good(op[x], covered, session) /\ op[x].step = "append"
        /\ session' = session /\ covered' = [covered EXCEPT ![p] = @ \cup op[x].events]
    BY DEF TypeOK, OpInv, AppendRecord
  <1>2. p \in Project /\ op[x].events \in SUBSET Event /\ op[x].session \in Session
    BY <1>1, LocalFields DEF Good, Placed
  <1>3. /\ covered' \in [Project -> SUBSET Event] /\ op[x].events \subseteq covered'[p]
        /\ \A q \in Project : covered[q] \subseteq covered'[q]
    BY <1>1, <1>2 DEF TypeOK
  <1>4. Became(x, n)
    BY GoesOn DEF AppendRecord, Steps
  <1>5. /\ n.step = "bump" /\ n.kind = op[x].kind /\ n.session = op[x].session /\ n.project = p
        /\ n.target = op[x].target /\ n.detach = op[x].detach /\ n.observed = op[x].observed
        /\ n.events = op[x].events
    BY <1>1, GoType DEF Steps
  <1>6. \A s \in Session : Ages(session[s], session'[s])
    BY <1>1, AgesNot DEF TypeOK
  <1>7. \A y \in Proc \ {x} : Good(op[y], covered', session')
    BY <1>1, <1>3, <1>6, OthersGood DEF TypeOK
  <1>8. Good(n, covered', session')
    <2>1. Placed(n)
      BY <1>1, <1>2, <1>5 DEF Good, Placed
    <2>2. Captures(n, covered')
      BY <1>1, <1>2, <1>3, <1>5 DEF Good, Captures
    <2>3. Planned(n, session') /\ Opening(n, session')
      BY <1>1, <1>5 DEF Good, Planned, Opening
    <2> QED
      BY <2>1, <2>2, <2>3 DEF Good
  <1>9. Calling(n) => \A y \in Proc \ {x} : Calling(op[y]) => op[y].session # n.session
    BY <1>1, <1>5, SameCall
  <1>10. OpInv'
    BY <1>4, <1>7, <1>8, <1>9, OpKept
  <1> QED
    BY <1>2, <1>3, <1>4, <1>10

LEMMA BumpOp ==
    ASSUME TypeOK, OpInv, NEW x \in Proc, Bump(x)
    PROVE  /\ OpInv' /\ op[x].project \in Project
           /\ \E st \in Steps \ {"bump"} : Became(x, [op[x] EXCEPT !.step = st])
  <1> DEFINE st == AfterCapture(x)
             n == [op[x] EXCEPT !.step = st]
  <1>1. /\ op[x] \in Local /\ Good(op[x], covered, session) /\ op[x].step = "bump"
        /\ covered' = covered
    BY DEF TypeOK, OpInv, Bump
  <1>2. /\ op[x].kind \in {"capture", "checkpoint", "open"}
        /\ op[x].project \in Project /\ op[x].session \in Session
    BY <1>1, LocalFields DEF Good, Placed
  <1>3. /\ st \in Steps \ {"bump"}
        /\ op[x].kind = "capture" => st = "refresh"
        /\ op[x].kind = "checkpoint" => st = "reconcile"
        /\ op[x].kind = "open" => st = "leave"
    BY <1>2 DEF AfterCapture, Steps
  <1>4. Became(x, n)
    BY <1>3, GoesOn DEF Bump
  <1> HIDE DEF st
  <1>5. /\ n.step = st /\ n.kind = op[x].kind /\ n.session = op[x].session /\ n.project = op[x].project
        /\ n.target = op[x].target /\ n.detach = op[x].detach /\ n.observed = op[x].observed
        /\ n.events = op[x].events
    BY <1>1, <1>3, GoType
  <1>6. /\ session' \in [Session -> State]
        /\ \A s \in Session : Ages(session[s], session'[s])
        /\ \A s \in Session : /\ session'[s].status = session[s].status
                              /\ session'[s].project = session[s].project
    BY BumpEffect
  <1>7. \A y \in Proc \ {x} : Good(op[y], covered', session')
    BY <1>1, <1>6, OthersGood
  <1>8. Good(n, covered', session')
    <2>1. Placed(n)
      BY <1>1, <1>2, <1>3, <1>5 DEF Good, Placed
    <2>2. Captures(n, covered')
      BY <1>1, <1>2, <1>3, <1>5 DEF Good, Captures
    <2>3. Planned(n, session') /\ Opening(n, session')
      BY <1>1, <1>2, <1>3, <1>5, <1>6 DEF Good, Planned, Opening
    <2> QED
      BY <2>1, <2>2, <2>3 DEF Good
  <1>9. Calling(n) => \A y \in Proc \ {x} : Calling(op[y]) => op[y].session # n.session
    BY <1>1, <1>5, SameCall
  <1>10. OpInv'
    BY <1>4, <1>7, <1>8, <1>9, OpKept
  <1> QED
    BY <1>2, <1>3, <1>4, <1>10

\* An operation whose next step depends on nothing it has captured.
LEMMA RestOp ==
    ASSUME TypeOK, OpInv, NEW x \in Proc, NEW st \in {"refresh", "pack", "latest", "acknowledge"},
           op[x].step \in {"refresh", "leave", "pack", "latest"}, op[x].kind = "open",
           NEW n, Became(x, n), UNCHANGED <<session, covered>>,
           n.step = st, n.kind = op[x].kind, n.session = op[x].session,
           n.project = op[x].project, n.target = op[x].target
    PROVE  OpInv'
  <1>1. Good(op[x], covered, session)
    BY DEF OpInv
  <1>2. Good(n, covered, session)
    BY <1>1 DEF Good, Placed, Captures, Planned, Opening
  <1>3. Calling(n) => \A y \in Proc \ {x} : Calling(op[y]) => op[y].session # n.session
    BY SameCall
  <1> QED
    BY <1>2, <1>3, OpQuiet

LEMMA RefreshOp ==
    ASSUME TypeOK, OpInv, NEW x \in Proc, Refresh(x)
    PROVE  /\ OpInv' /\ op[x].project \in Project
           /\ \E n : Became(x, n) /\ n.step # "bump"
  <1>1. /\ op[x] \in Local /\ Good(op[x], covered, session) /\ op[x].step \in {"refresh", "leave"}
        /\ UNCHANGED <<session, covered>>
    BY DEF TypeOK, OpInv, Refresh
  <1>2. op[x].project \in Project /\ op[x].session \in Session
    BY <1>1 DEF Good, Placed
  <1>3. CASE op[x].step = "leave"
    <2> DEFINE n == [op[x] EXCEPT !.step = "attach"]
    <2>1. Became(x, n)
      BY <1>3, GoesOn DEF Refresh, Steps
    <2>2. /\ n.step = "attach" /\ n.kind = op[x].kind /\ n.session = op[x].session
          /\ n.project = op[x].project /\ n.target = op[x].target /\ n.detach = op[x].detach
          /\ n.observed = op[x].observed /\ n.events = op[x].events
      BY <1>1, GoType DEF Steps
    <2> HIDE DEF n
    <2>3. Placed(n)
      BY <1>1, <1>3, <2>2 DEF Good, Placed
    <2>4. Captures(n, covered) /\ Planned(n, session) /\ Opening(n, session)
      BY <1>1, <1>3, <2>2 DEF Good, Captures, Planned, Opening
    <2>5. Good(n, covered, session)
      BY <2>3, <2>4 DEF Good
    <2>6. Calling(n) => \A y \in Proc \ {x} : Calling(op[y]) => op[y].session # n.session
      BY <1>3, <2>2, SameCall
    <2>7. OpInv'
      BY <1>1, <2>1, <2>5, <2>6, OpQuiet
    <2> QED
      BY <1>2, <2>1, <2>2, <2>7
  <1>4. CASE op[x].step = "refresh" /\ op[x].kind = "open"
    <2> DEFINE n == [op[x] EXCEPT !.step = "pack"]
    <2>1. Became(x, n)
      BY <1>4, GoesOn DEF Refresh, Steps
    <2>2. /\ n.step = "pack" /\ n.kind = op[x].kind /\ n.session = op[x].session
          /\ n.project = op[x].project /\ n.target = op[x].target
      BY <1>1, GoType DEF Steps
    <2>3. OpInv'
      BY <1>1, <1>4, <2>1, <2>2, RestOp
    <2> QED
      BY <1>2, <2>1, <2>2, <2>3
  <1>5. CASE op[x].step = "refresh" /\ op[x].kind # "open"
    <2>1. Done(x)
      BY <1>5 DEF Refresh
    <2> QED
      BY <1>1, <1>2, <2>1, CrashOp, IsDone, IdleType
  <1> QED
    BY <1>1, <1>3, <1>4, <1>5

LEMMA ObserveOpenOp ==
    ASSUME TypeOK, Attached, OpInv, NEW x \in Proc, ObserveOpen(x)
    PROVE  /\ OpInv'
           /\ \E n : Became(x, n) /\ n.step # "bump"
  <1> DEFINE o == op[x]
             seen == session[o.session]
             capture == Switching(seen, o.target) /\ seen.activity # {}
             ev == IF capture THEN seen.activity ELSE {}
             pr == IF capture THEN seen.project ELSE o.project
             st == IF capture THEN "append" ELSE "attach"
             n == [o EXCEPT !.observed = seen, !.project = pr, !.events = ev, !.step = st]
  <1>1. /\ o \in Local /\ Good(o, covered, session) /\ o.step = "observe" /\ o.kind = "open"
        /\ UNCHANGED <<session, covered>>
    BY DEF TypeOK, OpInv, ObserveOpen
  <1>2. o.session \in Session /\ o.target \in Project /\ seen \in State
    BY <1>1 DEF Good, Placed, TypeOK
  <1>3. op' = [op EXCEPT ![x] = n]
    BY DEF ObserveOpen, TypeOK
  <1>4. /\ ev \in SUBSET Event /\ st \in Steps /\ pr \in Project \cup {NoProject}
        /\ capture => seen.project \in Project
    <2>1. capture => Active(o.session)
      BY DEF Switching, Active
    <2> QED
      BY <1>1, <1>2, <2>1, StateFields, LocalFields DEF Attached, Steps
  <1>5. /\ n \in Local /\ n.observed = seen /\ n.project = pr /\ n.events = ev /\ n.step = st
        /\ n.kind = "open" /\ n.session = o.session /\ n.target = o.target
    <2>1. o.kind = "open" /\ o \in Local /\ seen \in State
      BY <1>1, <1>2
    <2> HIDE DEF ev, pr, st, seen, o
    <2> QED
      BY <1>4, <2>1 DEF Local
  <1>6. Good(n, covered, session)
    <2>1. /\ capture => ev = seen.activity /\ pr = seen.project /\ st = "append" /\ pr \in Project
          /\ ~capture => ev = {} /\ st = "attach"
      BY <1>4
    <2>2. ~capture => seen.activity = {} \/ ~Switching(seen, o.target)
      OBVIOUS
    <2>3. session[o.session] = seen
      OBVIOUS
    <2> HIDE DEF n, ev, pr, st, seen, o, capture
    <2>4. Placed(n)
      BY <1>2, <1>5, <2>1 DEF Placed
    <2>5. Captures(n, covered)
      BY <1>5, <2>1, <2>2 DEF Captures
    <2>6. Planned(n, session) /\ Opening(n, session)
      BY <1>5, <2>1, <2>3 DEF Planned, Opening
    <2> QED
      BY <2>4, <2>5, <2>6 DEF Good
  <1>7. Calling(n) => \A y \in Proc \ {x} : Calling(op[y]) => op[y].session # n.session
    <2>1. n.session = op[x].session /\ n.kind = op[x].kind /\ op[x].step # "idle"
      BY <1>1, <1>5
    <2> HIDE DEF n
    <2> QED
      BY <2>1, SameCall
  <1>8. Became(x, n)
    BY <1>3, <1>5 DEF Became
  <1>9. OpInv'
    BY <1>1, <1>6, <1>7, <1>8, OpQuiet
  <1>10. n.step # "bump"
    BY <1>5
  <1> HIDE DEF n
  <1> QED
    BY <1>8, <1>9, <1>10

LEMMA AttachOp ==
    ASSUME TypeOK, OpInv, NEW x \in Proc, Attach(x)
    PROVE  /\ OpInv' /\ op[x].session \in Session /\ op[x].target \in Project
           /\ \E n : Became(x, n) /\ n.step # "bump"
  <1> DEFINE s == op[x].session
             n == [op[x] EXCEPT !.project = op[x].target, !.step = "refresh"]
  <1>1. /\ op[x] \in Local /\ Good(op[x], covered, session) /\ op[x].step = "attach"
        /\ covered' = covered
    BY DEF TypeOK, OpInv, Attach
  <1>2. s \in Session /\ op[x].target \in Project /\ op[x].kind = "open"
    BY <1>1 DEF Good, Placed
  <1>3. CASE session' = session /\ Became(x, NoOperation)
    BY <1>1, <1>2, <1>3, IdleGood, IdleType, OpQuiet
  <1>4. CASE /\ Became(x, n) /\ session' \in [Session -> State]
             /\ session'[s].stamp = session[s].stamp + 1
             /\ \A t \in Session \ {s} : session'[t] = session[t]
    <2>1. n.step = "refresh" /\ n.kind = "open" /\ n.session = s /\ n.project \in Project
          /\ n.target = op[x].target
      BY <1>1, <1>2 DEF Local
    <2>2. Good(n, covered', session')
      BY <1>2, <2>1 DEF Good, Placed, Captures, Planned, Opening
    <2>3. \A y \in Proc \ {x} : Calling(op[y]) => op[y].session # s
      BY <1>1, <1>2 DEF OpInv, OneCall, Calling
    <2>4. ASSUME NEW y \in Proc \ {x} PROVE Good(op[y], covered', session')
      <3>1. op[y] \in Local /\ Good(op[y], covered, session)
        BY DEF TypeOK, OpInv
      <3>2. op[y].session \in Session => session[op[y].session] \in State /\ session'[op[y].session] \in State
        BY <1>4 DEF TypeOK
      <3>3. session[s].stamp < session'[s].stamp
        BY <1>2, <1>4, StateFields DEF TypeOK
      <3>4. CASE op[y].session = s
        BY <1>1, <2>3, <3>1, <3>2, <3>3, <3>4, GoodKept
      <3>5. CASE op[y].session # s /\ op[y].step # "idle"
        <4>1. op[y].session \in Session
          BY <3>1, <3>5 DEF Good, Placed
        <4>2. Ages(session[op[y].session], session'[op[y].session])
          BY <1>4, <3>2, <3>5, <4>1, AgesNot
        <4> QED
          BY <1>1, <3>1, <3>2, <4>2, GoodKept
      <3>6. CASE op[y].step = "idle"
        BY <1>1, <3>1, <3>2, <3>6, GoodKept
      <3> QED
        BY <3>4, <3>5, <3>6
    <2>5. OpInv'
      BY <1>4, <2>1, <2>2, <2>3, <2>4, OpKept
    <2> QED
      BY <1>2, <1>4, <2>1, <2>5
  <1> QED
    BY <1>2, <1>3, <1>4, AttachEffect

LEMMA HandOverOp ==
    ASSUME TypeOK, OpInv, NEW x \in Proc, Pack(x) \/ Latest(x) \/ Acknowledge(x)
    PROVE  /\ OpInv' /\ op[x].project \in Project
           /\ \E n : Became(x, n) /\ n.step # "bump"
           /\ Latest(x) \/ Pack(x) => UNCHANGED proj
  <1>1. /\ op[x] \in Local /\ Good(op[x], covered, session)
        /\ op[x].step \in {"pack", "latest", "acknowledge"}
        /\ UNCHANGED <<session, covered>>
    BY DEF TypeOK, OpInv, Pack, Latest, Acknowledge
  <1>2. op[x].project \in Project /\ op[x].kind = "open"
    BY <1>1 DEF Good, Placed
  <1>3. CASE Pack(x)
    <2> DEFINE n == [op[x] EXCEPT !.step = "latest"]
    <2>1. Became(x, n)
      BY <1>3, GoesOn DEF Pack, Steps
    <2>2. /\ n.step = "latest" /\ n.kind = op[x].kind /\ n.session = op[x].session
          /\ n.project = op[x].project /\ n.target = op[x].target
      BY <1>1, GoType DEF Steps
    <2>3. op[x].step = "pack" /\ UNCHANGED proj
      BY <1>3 DEF Pack
    <2>4. OpInv'
      BY <1>1, <1>2, <2>1, <2>2, <2>3, RestOp
    <2> QED
      BY <1>2, <2>1, <2>2, <2>3, <2>4
  <1>4. CASE Latest(x)
    <2> DEFINE k == proj[op[x].project].log
               n == [op[x] EXCEPT !.latest = k, !.step = "acknowledge"]
    <2>1. k \in Nat
      BY <1>2 DEF TypeOK, Memory
    <2>2. /\ n \in Local /\ n.step = "acknowledge" /\ n.kind = op[x].kind /\ n.session = op[x].session
          /\ n.project = op[x].project /\ n.target = op[x].target
      <3> HIDE DEF k
      <3> QED
        BY <1>1, <2>1 DEF Local, Steps
    <2>3. op' = [op EXCEPT ![x] = n] /\ op[x].step = "latest" /\ UNCHANGED proj
      BY <1>4 DEF Latest, TypeOK
    <2>4. Became(x, n)
      BY <2>2, <2>3 DEF Became
    <2> HIDE DEF n
    <2>5. OpInv'
      BY <1>1, <1>2, <2>2, <2>3, <2>4, RestOp
    <2> QED
      BY <1>2, <2>2, <2>3, <2>4, <2>5
  <1>5. CASE Acknowledge(x)
    <2>1. Done(x) /\ ~Latest(x) /\ ~Pack(x)
      BY <1>5 DEF Acknowledge, Latest, Pack
    <2> QED
      BY <1>1, <1>2, <2>1, CrashOp, IsDone, IdleType
  <1> QED
    BY <1>3, <1>4, <1>5

LEMMA OpStep ==
    ASSUME SessionAssumption, TypeOK, Attached, OpInv, SessionNext
    PROVE  OpInv'
  <1>1. CASE \E s \in Session : RecordActivity(s)
    BY <1>1, RecordOp
  <1>2. ASSUME NEW x \in Proc, BeginOperation(x) PROVE OpInv'
    BY <1>2, BeginOp
  <1>3. ASSUME NEW x \in Proc, Proceed(x) PROVE OpInv'
    BY <1>3, PlanOp, ObserveCheckpointOp, ReconcileOp, AppendOp, BumpOp, RefreshOp, ObserveOpenOp,
       AttachOp, HandOverOp DEF Proceed
  <1>4. ASSUME NEW x \in Proc, Crash(x) PROVE OpInv'
    BY <1>4, CrashOp DEF Crash
  <1> QED
    BY <1>1, <1>2, <1>3, <1>4 DEF SessionNext

-----------------------------------------------------------------------------
(* Every step is one of these.                                             *)

\* A step of one operation that writes no project and leaves the sessions alone.
Quiet(x) ==
    /\ \E n : Became(x, n) /\ n.step # "bump"
    /\ UNCHANGED <<session, proj, covered, origin, events>> /\ operations' \in Nat

Visible(x) == Reconcile(x) \/ AppendRecord(x) \/ Bump(x) \/ Refresh(x) \/ Attach(x) \/ Acknowledge(x)

LEMMA Steppings ==
    ASSUME TypeOK, Attached, OpInv, SessionNext
    PROVE  \/ \E s \in Session : RecordActivity(s)
           \/ \E x \in Proc : Quiet(x) \/ Visible(x)
  <1>1. operations \in Nat /\ operations + 1 \in Nat
    BY DEF TypeOK
  <1>2. ASSUME NEW x \in Proc, NEW s \in Session,
               \/ \E f \in BOOLEAN : StartCheckpoint(x, s, f)
               \/ StartDetach(x, s) \/ StartRecover(x, s)
               \/ \E p \in Project : StartOpen(x, s, p) \/ StartCapture(x, s, p)
        PROVE  Quiet(x)
    <2>1. \E n : Begun(x, n) /\ n.step # "bump"
      <3>1. CASE \E f \in BOOLEAN : StartCheckpoint(x, s, f)
        <4>1. PICK n : Begun(x, n) /\ n.step = "observe"
          BY <3>1, Begins
        <4> QED
          BY <4>1
      <3>2. CASE StartDetach(x, s)
        <4>1. PICK n : Begun(x, n) /\ n.step = "observe"
          BY <3>2, Begins
        <4> QED
          BY <4>1
      <3>3. CASE StartRecover(x, s)
        <4>1. PICK n : Begun(x, n) /\ n.step = "plan"
          BY <3>3, Begins
        <4> QED
          BY <4>1
      <3>4. ASSUME NEW p \in Project, StartOpen(x, s, p) PROVE \E n : Begun(x, n) /\ n.step # "bump"
        <4>1. PICK n : Begun(x, n) /\ n.step = "observe"
          BY <3>4, Begins
        <4> QED
          BY <4>1
      <3>5. ASSUME NEW p \in Project, StartCapture(x, s, p) PROVE \E n : Begun(x, n) /\ n.step # "bump"
        <4>1. PICK n : Begun(x, n) /\ n.step = "append"
          BY <3>5, Begins
        <4> QED
          BY <4>1
      <3> QED
        BY <1>2, <3>1, <3>2, <3>3, <3>4, <3>5
    <2> QED
      BY <1>1, <2>1 DEF Begun, Quiet
  <1>3. ASSUME NEW x \in Proc, ApplyPlan(x) PROVE Quiet(x)
    <2> DEFINE n == [op[x] EXCEPT !.step = "observe"]
    <2>1. Became(x, n) /\ op[x] \in Local
      BY <1>3, GoesOn DEF ApplyPlan, Steps, TypeOK
    <2>2. n.step = "observe"
      BY <2>1, GoType DEF Steps
    <2> HIDE DEF n
    <2> QED
      BY <1>1, <1>3, <2>1, <2>2 DEF ApplyPlan, Quiet
  <1>4. ASSUME NEW x \in Proc, ObserveCheckpoint(x) PROVE Quiet(x)
    <2>1. \E n : Became(x, n) /\ n.step # "bump"
      BY <1>4, ObserveCheckpointOp
    <2> QED
      BY <1>1, <1>4, <2>1 DEF ObserveCheckpoint, Quiet
  <1>5. ASSUME NEW x \in Proc, ObserveOpen(x) PROVE Quiet(x)
    BY <1>1, <1>5, ObserveOpenOp DEF ObserveOpen, Quiet
  <1>6. ASSUME NEW x \in Proc, Pack(x) \/ Latest(x) PROVE Quiet(x)
    BY <1>1, <1>6, HandOverOp DEF Pack, Latest, Quiet
  <1>7. ASSUME NEW x \in Proc, Crash(x) PROVE Quiet(x)
    BY <1>1, <1>7, IsDone, IdleType DEF Crash, Quiet
  <1> QED
    BY <1>2, <1>3, <1>4, <1>5, <1>6, <1>7 DEF SessionNext, BeginOperation, Proceed, Visible

-----------------------------------------------------------------------------
(* The types are kept.                                                     *)

LEMMA MemoryType ==
    ASSUME NEW m \in Memory, NEW n \in Nat
    PROVE  /\ m.log \in Nat /\ m.generation \in Nat /\ m.snapshot \in Nat /\ m.viewed \in Nat
           /\ [m EXCEPT !.log = @ + 1] \in Memory /\ [m EXCEPT !.generation = @ + 1] \in Memory
           /\ [m EXCEPT !.handoff = n] \in Memory
           /\ RefreshedFrom(m) \in Memory
  <1>1. m.log \in Nat /\ m.handoff \in Nat /\ (m.handoff + 1)..m.log \in SUBSET Nat
    BY DEF Memory
  <1>2. RefreshedFrom(m) \in Memory
    <2> DEFINE ch == (m.handoff + 1)..m.log
    <2>1. ch \in SUBSET Nat
      BY <1>1
    <2> HIDE DEF ch
    <2>2. [m EXCEPT !.viewed = m.log, !.snapshot = m.generation, !.changes = ch] \in Memory
      BY <2>1 DEF Memory
    <2> QED
      BY <2>2 DEF RefreshedFrom, ch
  <1> QED
    BY <1>2 DEF Memory

LEMMA VisibleType ==
    ASSUME TypeOK, Attached, OpInv, NEW x \in Proc, Visible(x)
    PROVE  TypeOK' /\ Attached'
  <1>1. UNCHANGED <<origin, events, operations>>
    BY DEF Visible, Reconcile, AppendRecord, Bump, Refresh, Attach, Acknowledge
  <1>2. Good(op[x], covered, session) /\ op[x] \in Local
    BY DEF OpInv, TypeOK
  <1>3. \A p \in Project : proj[p] \in Memory
    BY DEF TypeOK
  <1>4. CASE Reconcile(x)
    <2>1. op[x].session \in Session
      BY <1>2, <1>4 DEF Good, Placed, Reconcile
    <2>2. op' \in [Proc -> Local]
      BY <1>4, <2>1, ReconcileEffect, BecameType
    <2> QED
      BY <1>1, <1>4, <2>1, <2>2, ReconcileEffect DEF TypeOK, Attached, Active, Ages, Reconcile
  <1>5. CASE AppendRecord(x)
    <2>1. /\ op[x].project \in Project /\ covered' \in [Project -> SUBSET Event] /\ op' \in [Proc -> Local]
      BY <1>5, AppendOp, BecameType
    <2>2. session' = session /\ proj' = [proj EXCEPT ![op[x].project] = [proj[op[x].project] EXCEPT !.log = @ + 1]]
      BY <1>5 DEF AppendRecord
    <2>3. proj' \in [Project -> Memory]
      BY <1>3, <2>1, <2>2, MemoryType DEF TypeOK
    <2> QED
      BY <1>1, <2>1, <2>2, <2>3 DEF TypeOK, Attached, Active
  <1>6. CASE Bump(x)
    <2>1. op[x].project \in Project /\ op' \in [Proc -> Local]
      BY <1>6, BumpOp, BecameType
    <2>2. covered' = covered
          /\ proj' = [proj EXCEPT ![op[x].project] = [proj[op[x].project] EXCEPT !.generation = @ + 1]]
      BY <1>6 DEF Bump
    <2>3. proj' \in [Project -> Memory]
      BY <1>3, <2>1, <2>2, MemoryType DEF TypeOK
    <2> QED
      BY <1>1, <1>6, <2>1, <2>2, <2>3, BumpEffect DEF TypeOK, Attached, Active
  <1>7. CASE Refresh(x)
    <2>1. op[x].project \in Project /\ op' \in [Proc -> Local]
      BY <1>7, RefreshOp, BecameType
    <2>2. UNCHANGED <<session, covered>>
          /\ proj' = [proj EXCEPT ![op[x].project] = RefreshedFrom(proj[op[x].project])]
      BY <1>7 DEF Refresh
    <2>3. proj' \in [Project -> Memory]
      BY <1>3, <2>1, <2>2, MemoryType DEF TypeOK
    <2> QED
      BY <1>1, <2>1, <2>2, <2>3 DEF TypeOK, Attached, Active
  <1>8. CASE Attach(x)
    <2>1. op[x].session \in Session /\ op[x].target \in Project /\ op' \in [Proc -> Local]
      BY <1>8, AttachOp, BecameType
    <2>2. UNCHANGED <<proj, covered>>
      BY <1>8 DEF Attach
    <2>3. session' \in [Session -> State] /\ Attached'
      BY <1>8, <2>1, AttachEffect DEF TypeOK, Attached, Active
    <2> QED
      BY <1>1, <2>1, <2>2, <2>3 DEF TypeOK
  <1>9. CASE Acknowledge(x)
    <2>1. op[x].project \in Project /\ op' \in [Proc -> Local]
      BY <1>9, HandOverOp, BecameType
    <2>2. UNCHANGED <<session, covered>> /\ op[x].latest \in Nat
          /\ proj' = [proj EXCEPT ![op[x].project] = [proj[op[x].project] EXCEPT !.handoff = op[x].latest]]
      BY <1>2, <1>9, LocalFields DEF Acknowledge
    <2>3. proj' \in [Project -> Memory]
      BY <1>3, <2>1, <2>2, MemoryType DEF TypeOK
    <2> QED
      BY <1>1, <2>1, <2>2, <2>3 DEF TypeOK, Attached, Active
  <1> QED
    BY <1>4, <1>5, <1>6, <1>7, <1>8, <1>9 DEF Visible

LEMMA TypeStep ==
    ASSUME SessionAssumption, TypeOK, Attached, OpInv, SessionNext
    PROVE  TypeOK' /\ Attached'
  <1>1. ASSUME NEW s \in Session, RecordActivity(s) PROVE TypeOK' /\ Attached'
    <2>1. UNCHANGED <<proj, covered, op, operations>> /\ events' = events + 1 /\ events' \in 0..MaxEvents
      BY <1>1 DEF RecordActivity, TypeOK, SessionAssumption
    <2> QED
      BY <1>1, <2>1, RecordEffect DEF TypeOK, Attached, Active
  <1>2. ASSUME NEW x \in Proc, Quiet(x) PROVE TypeOK' /\ Attached'
    <2>1. op' \in [Proc -> Local]
      BY <1>2, BecameType DEF Quiet
    <2> QED
      BY <1>2, <2>1 DEF Quiet, TypeOK, Attached, Active
  <1> QED
    BY <1>1, <1>2, VisibleType, Steppings

-----------------------------------------------------------------------------
(* Events.                                                                 *)

\* An event stays where it is told of, or is told of there when its session loses it.
LEMMA KeptOn ==
    ASSUME NEW e \in Event, origin[e] \in Project, Kept(e), origin'[e] = origin[e],
           \A p \in Project : covered[p] \subseteq covered'[p],
           \A s \in Session :
               /\ e \in session[s].activity /\ Active(s) /\ session[s].project = origin[e]
               => \/ e \in covered[origin[e]]
                  \/ e \in session'[s].activity /\ session'[s].status = "active"
                     /\ session'[s].project = session[s].project
    PROVE  origin'[e] \in Project /\ Kept(e)'
  BY DEF Kept, Active

LEMMA RecordEvents ==
    ASSUME SessionAssumption, TypeOK, Attached, EventsKept, NEW s \in Session, RecordActivity(s)
    PROVE  EventsKept'
  <1>1. /\ covered' = covered /\ events' = events + 1 /\ events \in Nat /\ 1..events \subseteq Event
        /\ events + 1 \in Event /\ 1..(events + 1) = 1..events \cup {events + 1}
        /\ events + 1 \notin 1..events
    BY DEF RecordActivity, TypeOK, Event, SessionAssumption
  <1>2. ASSUME NEW e \in 1..events PROVE origin'[e] \in Project /\ Kept(e)'
    <2>1. origin'[e] = origin[e]
      BY <1>1, RecordEffect
    <2>2. \A t \in Session :
               /\ e \in session[t].activity /\ Active(t) /\ session[t].project = origin[e]
               => e \in session'[t].activity /\ session'[t].status = "active"
                  /\ session'[t].project = session[t].project
      BY RecordEffect DEF Active
    <2> QED
      BY <1>1, <2>1, <2>2, KeptOn DEF EventsKept
  <1>3. ASSUME NEW e \in Event, e = events + 1 PROVE origin'[e] \in Project /\ Kept(e)'
    <2>1. session[s].project \in Project /\ Active(s)
      BY RecordEffect DEF Attached
    <2>2. /\ e \in session'[s].activity /\ session'[s].status = "active"
          /\ session'[s].project = session[s].project /\ origin'[e] = session[s].project
      BY <1>3, <2>1, RecordEffect DEF Active
    <2> QED
      BY <2>1, <2>2 DEF Kept, Active
  <1>4. \A e \in 1..(events + 1) : origin'[e] \in Project /\ Kept(e)'
    BY <1>1, <1>2, <1>3
  <1> QED
    BY <1>1, <1>4 DEF EventsKept

LEMMA ReconcileEvents ==
    ASSUME TypeOK, OpInv, NEW x \in Proc, Reconcile(x), NEW e \in Event, NEW s \in Session,
           e \in session[s].activity, Active(s), session[s].project = origin[e]
    PROVE  \/ e \in covered[origin[e]]
           \/ e \in session'[s].activity /\ session'[s].status = "active"
              /\ session'[s].project = session[s].project
  <1> DEFINE o == op[x]
  <1>1. o \in Local /\ Good(o, covered, session) /\ o.step = "reconcile"
    BY DEF TypeOK, OpInv, Reconcile
  <1>2. o.session \in Session /\ o.kind = "checkpoint"
    BY <1>1 DEF Good, Placed
  <1>3. CASE session'[s] = session[s]
    BY <1>3 DEF Active
  <1>4. CASE session'[s] # session[s]
    <2>1. Reconciled(o, session[s], session'[s])
      BY <1>2, <1>4, ReconcileEffect
    <2>2. o.events # {} /\ session[s].activity = o.observed.activity => e \in covered[origin[e]]
      BY <1>1, <2>1 DEF Good, Captures, Reconciled
    <2>3. o.detach /\ o.events = {} => o.observed.activity = {}
      BY <1>1, <1>2 DEF Good, Captures
    <2> QED
      BY <2>1, <2>2, <2>3 DEF Reconciled, Active
  <1> QED
    BY <1>3, <1>4

LEMMA AttachEvents ==
    ASSUME TypeOK, OpInv, NEW x \in Proc, Attach(x), NEW e \in Event, NEW s \in Session,
           e \in session[s].activity, Active(s), session[s].project = origin[e]
    PROVE  \/ e \in covered[origin[e]]
           \/ e \in session'[s].activity /\ session'[s].status = "active"
              /\ session'[s].project = session[s].project
  <1> DEFINE o == op[x]
  <1>1. o \in Local /\ Good(o, covered, session) /\ o.step = "attach"
    BY DEF TypeOK, OpInv, Attach
  <1>2. o.session \in Session /\ o.kind = "open" /\ o.target \in Project
    BY <1>1 DEF Good, Placed
  <1>3. CASE session'[s] = session[s]
    BY <1>3 DEF Active
  <1>4. CASE session'[s] # session[s]
    <2>1. /\ s = o.session
          /\ session'[s].status = "active" /\ session'[s].project = o.target
          /\ session'[s].activity = IF session[s].status = "active" /\ session[s].project = o.target
                                    THEN session[s].activity ELSE {}
          /\ Switching(o.observed, o.target) =>
                session[s].project = o.observed.project /\ session[s].activity = o.observed.activity
      BY <1>2, <1>4, AttachEffect
    <2>2. o.observed.status = "active" /\ session[s].project = o.observed.project
      BY <1>1, <1>2, <2>1 DEF Good, Opening, Active
    <2>3. CASE session[s].project = o.target
      BY <2>1, <2>3 DEF Active
    <2>4. CASE session[s].project # o.target
      <3>1. Switching(o.observed, o.target)
        BY <2>2, <2>4 DEF Switching
      <3>2. session[s].activity = o.observed.activity
        BY <2>1, <3>1
      <3>3. o.events # {}
        BY <1>1, <1>2, <3>1, <3>2 DEF Good, Captures
      <3>4. o.events = o.observed.activity /\ o.project = o.observed.project
            /\ o.events \subseteq covered[o.project]
        BY <1>1, <3>3 DEF Good, Captures
      <3> QED
        BY <2>2, <3>2, <3>4
    <2> QED
      BY <2>3, <2>4
  <1> QED
    BY <1>3, <1>4

LEMMA EventsStep ==
    ASSUME SessionAssumption, TypeOK, Attached, OpInv, EventsKept, SessionNext
    PROVE  EventsKept'
  <1>1. 1..events \subseteq Event
    BY DEF TypeOK, Event, SessionAssumption
  <1>2. ASSUME NEW x \in Proc, Quiet(x) \/ Visible(x) PROVE EventsKept'
    <2> SUFFICES ASSUME NEW e \in 1..events PROVE origin'[e] \in Project /\ Kept(e)'
      <3>1. events' = events
        BY <1>2 DEF Quiet, Visible, Reconcile, AppendRecord, Bump, Refresh, Attach, Acknowledge
      <3> QED
        BY <3>1 DEF EventsKept
    <2>1. e \in Event /\ origin[e] \in Project /\ Kept(e)
      BY <1>1 DEF EventsKept
    <2>2. origin' = origin
      BY <1>2 DEF Quiet, Visible, Reconcile, AppendRecord, Bump, Refresh, Attach, Acknowledge
    <2>3. CASE Quiet(x) \/ Refresh(x) \/ Acknowledge(x)
      <3>1. UNCHANGED <<session, covered>>
        BY <2>3 DEF Quiet, Refresh, Acknowledge
      <3> QED
        BY <2>1, <2>2, <3>1, KeptOn DEF Active
    <2>4. CASE AppendRecord(x)
      <3>1. UNCHANGED session /\ \A p \in Project : covered[p] \subseteq covered'[p]
        BY <2>4, AppendOp DEF AppendRecord
      <3> QED
        BY <2>1, <2>2, <3>1, KeptOn DEF Active
    <2>5. CASE Bump(x)
      <3>1. UNCHANGED covered
        BY <2>5 DEF Bump
      <3> QED
        BY <2>1, <2>2, <2>5, <3>1, BumpEffect, KeptOn DEF Active
    <2>6. CASE Reconcile(x)
      <3>1. UNCHANGED covered
        BY <2>6 DEF Reconcile
      <3>2. \A s \in Session :
               /\ e \in session[s].activity /\ Active(s) /\ session[s].project = origin[e]
               => \/ e \in covered[origin[e]]
                  \/ e \in session'[s].activity /\ session'[s].status = "active"
                     /\ session'[s].project = session[s].project
        BY <2>1, <2>6, ReconcileEvents
      <3> QED
        BY <2>1, <2>2, <3>1, <3>2, KeptOn
    <2>7. CASE Attach(x)
      <3>1. UNCHANGED covered
        BY <2>7 DEF Attach
      <3>2. \A s \in Session :
               /\ e \in session[s].activity /\ Active(s) /\ session[s].project = origin[e]
               => \/ e \in covered[origin[e]]
                  \/ e \in session'[s].activity /\ session'[s].status = "active"
                     /\ session'[s].project = session[s].project
        BY <2>1, <2>7, AttachEvents
      <3> QED
        BY <2>1, <2>2, <3>1, <3>2, KeptOn
    <2> QED
      BY <1>2, <2>3, <2>4, <2>5, <2>6, <2>7 DEF Visible
  <1> QED
    BY <1>2, RecordEvents, Steppings

-----------------------------------------------------------------------------
(* Records and generations.                                                *)

\* Where no operation comes to count its record, no more are uncounted.
LEMMA NoMoreUncounted ==
    ASSUME TypeOK, CountedInv, NEW x \in Proc, NEW n, Became(x, n), n.step # "bump",
           NEW p \in Project
    PROVE  /\ IsFiniteSet(Bumping(p)') /\ Cardinality(Bumping(p)') <= Cardinality(Bumping(p))
           /\ Cardinality(Bumping(p)') \in Nat /\ Cardinality(Bumping(p)) \in Nat
           /\ op[x].step = "bump" /\ op[x].project = p =>
                 Cardinality(Bumping(p)') + 1 <= Cardinality(Bumping(p))
  <1>1. op'[x] = n /\ \A y \in Proc \ {x} : op'[y] = op[y]
    BY BecameType
  <1>2. Bumping(p)' = Bumping(p) \ {x}
    BY <1>1 DEF Bumping
  <1>3. IsFiniteSet(Bumping(p)) /\ Cardinality(Bumping(p)) \in Nat
    BY FS_CardinalityType DEF CountedInv
  <1>4. op[x].step = "bump" /\ op[x].project = p => x \in Bumping(p)
    BY DEF Bumping
  <1>5. CASE x \in Bumping(p)
    <2>1. IsFiniteSet(Bumping(p) \ {x}) /\ Cardinality(Bumping(p) \ {x}) = Cardinality(Bumping(p)) - 1
      BY <1>3, <1>5, FS_RemoveElement
    <2>2. Cardinality(Bumping(p) \ {x}) \in Nat
      BY <2>1, FS_CardinalityType
    <2> QED
      BY <1>2, <1>3, <2>1, <2>2
  <1>6. CASE x \notin Bumping(p)
    <2>1. Bumping(p)' = Bumping(p)
      BY <1>2, <1>6
    <2> QED
      BY <1>3, <1>4, <1>6, <2>1
  <1> QED
    BY <1>5, <1>6

LEMMA CountedStep ==
    ASSUME SessionAssumption, TypeOK, Attached, OpInv, CountedInv, SessionNext
    PROVE  CountedInv'
  <1>1. \A p \in Project : proj[p].log \in Nat /\ proj[p].generation \in Nat
                           /\ proj[p].snapshot \in Nat /\ proj[p].viewed \in Nat /\ proj[p] \in Memory
    BY DEF TypeOK, Memory
  <1>2. ASSUME NEW s \in Session, RecordActivity(s) PROVE CountedInv'
    <2>1. UNCHANGED <<proj, op>>
      BY <1>2 DEF RecordActivity
    <2> QED
      BY <2>1 DEF CountedInv, Bumping
  <1>3. ASSUME NEW x \in Proc, \E n : Became(x, n) /\ n.step # "bump",
               \A p \in Project :
                   /\ proj'[p].log = proj[p].log
                   /\ \/ proj'[p].generation = proj[p].generation
                      \/ proj'[p].generation = proj[p].generation + 1
                         /\ op[x].step = "bump" /\ op[x].project = p
                   /\ proj[p].snapshot <= proj[p].viewed => proj'[p].snapshot <= proj'[p].viewed
        PROVE  CountedInv'
    <2> SUFFICES ASSUME NEW p \in Project
                 PROVE  /\ IsFiniteSet(Bumping(p)')
                        /\ proj'[p].generation + Cardinality(Bumping(p)') <= proj'[p].log
                        /\ proj'[p].snapshot <= proj'[p].viewed
      BY DEF CountedInv
    <2>1. PICK n : Became(x, n) /\ n.step # "bump"
      BY <1>3
    <2>2. /\ IsFiniteSet(Bumping(p)') /\ Cardinality(Bumping(p)') <= Cardinality(Bumping(p))
          /\ Cardinality(Bumping(p)') \in Nat /\ Cardinality(Bumping(p)) \in Nat
          /\ op[x].step = "bump" /\ op[x].project = p =>
                Cardinality(Bumping(p)') + 1 <= Cardinality(Bumping(p))
      BY <2>1, NoMoreUncounted
    <2>3. proj[p].generation + Cardinality(Bumping(p)) <= proj[p].log /\ proj[p].snapshot <= proj[p].viewed
      BY DEF CountedInv
    <2> QED
      BY <1>1, <1>3, <2>2, <2>3
  <1>4. ASSUME NEW x \in Proc, Quiet(x) \/ Reconcile(x) \/ Attach(x) PROVE CountedInv'
    <2>1. UNCHANGED proj
      BY <1>4 DEF Quiet, Reconcile, Attach
    <2>2. \E n : Became(x, n) /\ n.step # "bump"
      <3>1. CASE Reconcile(x)
        <4>1. Became(x, NoOperation) \/ Became(x, [op[x] EXCEPT !.step = "refresh"])
          <5>1. op[x].session \in Session
            BY <3>1 DEF OpInv, Good, Placed, Reconcile
          <5> QED
            BY <3>1, <5>1, ReconcileEffect
        <4>2. [op[x] EXCEPT !.step = "refresh"].step = "refresh"
          BY GoType DEF TypeOK, Steps
        <4> QED
          BY <4>1, <4>2, IdleType
      <3> QED
        BY <1>4, <3>1, AttachOp DEF Quiet
    <2> QED
      BY <1>3, <2>1, <2>2
  <1>5. ASSUME NEW x \in Proc, Acknowledge(x) PROVE CountedInv'
    <2>1. op[x].project \in Project /\ \E n : Became(x, n) /\ n.step # "bump"
      BY <1>5, HandOverOp
    <2>2. proj' = [proj EXCEPT ![op[x].project] = [proj[op[x].project] EXCEPT !.handoff = op[x].latest]]
      BY <1>5 DEF Acknowledge
    <2>3. \A p \in Project : /\ proj'[p].log = proj[p].log /\ proj'[p].generation = proj[p].generation
                             /\ proj'[p].snapshot = proj[p].snapshot /\ proj'[p].viewed = proj[p].viewed
      BY <1>1, <2>1, <2>2 DEF TypeOK, Memory
    <2> QED
      BY <1>3, <2>1, <2>3
  <1>6. ASSUME NEW x \in Proc, Refresh(x) PROVE CountedInv'
    <2>1. op[x].project \in Project /\ \E n : Became(x, n) /\ n.step # "bump"
      BY <1>6, RefreshOp
    <2>2. proj' = [proj EXCEPT ![op[x].project] = RefreshedFrom(proj[op[x].project])]
      BY <1>6 DEF Refresh
    <2>3. ASSUME NEW m \in Memory
          PROVE  /\ RefreshedFrom(m).log = m.log /\ RefreshedFrom(m).generation = m.generation
                 /\ RefreshedFrom(m).snapshot = m.generation /\ RefreshedFrom(m).viewed = m.log
      BY DEF RefreshedFrom, Memory
    <2>4. proj[op[x].project].generation <= proj[op[x].project].log
      <3>1. Cardinality(Bumping(op[x].project)) \in Nat
        BY <2>1, FS_CardinalityType DEF CountedInv
      <3> QED
        BY <1>1, <2>1, <3>1 DEF CountedInv
    <2>5. \A p \in Project :
              /\ proj'[p].log = proj[p].log /\ proj'[p].generation = proj[p].generation
              /\ proj[p].snapshot <= proj[p].viewed => proj'[p].snapshot <= proj'[p].viewed
      BY <1>1, <2>1, <2>2, <2>3, <2>4 DEF TypeOK
    <2> QED
      BY <1>3, <2>1, <2>5
  <1>7. ASSUME NEW x \in Proc, Bump(x) PROVE CountedInv'
    <2>1. op[x].project \in Project /\ op[x].step = "bump"
      BY <1>7, BumpOp DEF Bump
    <2>2. \E n : Became(x, n) /\ n.step # "bump"
      <3>1. PICK st \in Steps \ {"bump"} : Became(x, [op[x] EXCEPT !.step = st])
        BY <1>7, BumpOp
      <3>2. [op[x] EXCEPT !.step = st].step = st
        BY GoType DEF TypeOK
      <3> QED
        BY <3>1, <3>2
    <2>3. proj' = [proj EXCEPT ![op[x].project] = [proj[op[x].project] EXCEPT !.generation = @ + 1]]
      BY <1>7 DEF Bump
    <2>4. \A p \in Project :
              /\ proj'[p].log = proj[p].log
              /\ proj'[p].generation = IF p = op[x].project THEN proj[p].generation + 1 ELSE proj[p].generation
              /\ proj'[p].snapshot = proj[p].snapshot /\ proj'[p].viewed = proj[p].viewed
      BY <1>1, <2>1, <2>3 DEF TypeOK, Memory
    <2> QED
      BY <1>3, <2>1, <2>2, <2>4
  <1>8. ASSUME NEW x \in Proc, AppendRecord(x) PROVE CountedInv'
    <2>1. op[x].project \in Project /\ op[x].step = "append" /\ op[x] \in Local
          /\ Became(x, [op[x] EXCEPT !.step = "bump"])
      BY <1>8, AppendOp DEF AppendRecord, TypeOK
    <2>2. proj' = [proj EXCEPT ![op[x].project] = [proj[op[x].project] EXCEPT !.log = @ + 1]]
      BY <1>8 DEF AppendRecord
    <2>3. \A p \in Project :
              /\ proj'[p].log = IF p = op[x].project THEN proj[p].log + 1 ELSE proj[p].log
              /\ proj'[p].generation = proj[p].generation
              /\ proj'[p].snapshot = proj[p].snapshot /\ proj'[p].viewed = proj[p].viewed
      BY <1>1, <2>1, <2>2 DEF TypeOK, Memory
    <2>4. /\ op'[x].step = "bump" /\ op'[x].project = op[x].project
          /\ \A y \in Proc \ {x} : op'[y] = op[y]
      <3>1. "bump" \in Steps /\ [op[x] EXCEPT !.step = "bump"].step = "bump"
            /\ [op[x] EXCEPT !.step = "bump"].project = op[x].project
        BY <2>1, GoType DEF Steps
      <3> QED
        BY <2>1, <3>1, BecameType
    <2>5. ASSUME NEW p \in Project
          PROVE  /\ IsFiniteSet(Bumping(p)')
                 /\ proj'[p].generation + Cardinality(Bumping(p)') <= proj'[p].log
                 /\ proj'[p].snapshot <= proj'[p].viewed
      <3>1. /\ IsFiniteSet(Bumping(p)) /\ Cardinality(Bumping(p)) \in Nat
            /\ proj[p].generation + Cardinality(Bumping(p)) <= proj[p].log
            /\ proj[p].snapshot <= proj[p].viewed
        BY FS_CardinalityType DEF CountedInv
      <3>2. CASE p = op[x].project
        <4>1. Bumping(p)' = Bumping(p) \cup {x} /\ x \notin Bumping(p)
          BY <2>1, <2>4, <3>2 DEF Bumping
        <4>2. IsFiniteSet(Bumping(p)') /\ Cardinality(Bumping(p)') = Cardinality(Bumping(p)) + 1
          BY <3>1, <4>1, FS_AddElement
        <4> QED
          BY <1>1, <2>3, <3>1, <3>2, <4>2
      <3>3. CASE p # op[x].project
        <4>1. Bumping(p)' = Bumping(p)
          BY <2>1, <2>4, <3>3 DEF Bumping
        <4> QED
          BY <2>3, <3>1, <3>3, <4>1
      <3> QED
        BY <3>2, <3>3
    <2> QED
      BY <2>5 DEF CountedInv
  <1> QED
    BY <1>2, <1>4, <1>5, <1>6, <1>7, <1>8, Steppings DEF Visible

-----------------------------------------------------------------------------
(* Theorems.                                                               *)

LEMMA InvAtFirst == SessionAssumption /\ SessionInit => SessionInv
  <1> SUFFICES ASSUME SessionAssumption, SessionInit PROVE SessionInv
    OBVIOUS
  <1>1. OpInv
    BY IdleGood DEF SessionInit, OpInv, OneCall
  <1>2. EventsKept
    BY DEF SessionInit, EventsKept
  <1>3. CountedInv
    <2>1. \A p \in Project : Bumping(p) = {}
      BY IdleType DEF SessionInit, Bumping
    <2>2. \A p \in Project : proj[p].generation = 0 /\ proj[p].log = 0 /\ proj[p].snapshot = 0 /\ proj[p].viewed = 0
      BY DEF SessionInit, NewProject
    <2> QED
      BY <2>1, <2>2, FS_EmptySet DEF CountedInv
  <1> QED
    BY <1>1, <1>2, <1>3, InitType DEF SessionInv

LEMMA SessionStep == SessionAssumption /\ SessionInv /\ [SessionNext]_sessionVars => SessionInv'
  <1> SUFFICES ASSUME SessionAssumption, SessionInv, [SessionNext]_sessionVars PROVE SessionInv'
    OBVIOUS
  <1>1. CASE SessionNext
    BY <1>1, OpStep, TypeStep, EventsStep, CountedStep DEF SessionInv
  <1>2. CASE UNCHANGED sessionVars
    BY <1>2 DEF sessionVars, SessionInv, TypeOK, Attached, Active, OpInv, OneCall, EventsKept, Kept,
       CountedInv, Bumping
  <1> QED
    BY <1>1, <1>2

\* Whoever checkpoints, opens, pauses or recovers sessions, and wherever they die, what is
\* dropped from a session is covered, an agent's call is the only one that moves its
\* session to another project, and no generation counts a record that is not in the log
\* (project_workspace.py attach_session_project, opencode_events.py checkpoint_session).
THEOREM SessionInvCorrect == SessionAssumption => (SessionSpec => []SessionInv)
  <1> SUFFICES ASSUME SessionAssumption PROVE SessionSpec => []SessionInv
    OBVIOUS
  <1>1. SessionInit => SessionInv
    BY InvAtFirst
  <1>2. SessionInv /\ [SessionNext]_sessionVars => SessionInv'
    BY SessionStep
  <1> QED
    BY <1>1, <1>2, PTL DEF SessionSpec

\* No observed activity is lost or told of the wrong project, and a view that is up to
\* date has every record.
THEOREM NothingLostCorrect == SessionAssumption => (SessionSpec => []NothingLost)
  <1> SUFFICES ASSUME SessionAssumption PROVE SessionSpec => []NothingLost
    OBVIOUS
  <1>1. ASSUME SessionInv PROVE NothingLost
    <2>1. \A p \in Project : proj[p].snapshot = proj[p].generation => proj[p].viewed >= proj[p].generation
      BY <1>1 DEF SessionInv, CountedInv, TypeOK, Memory
    <2> QED
      BY <1>1, <2>1 DEF SessionInv, EventsKept, Kept, NothingLost
  <1>2. SessionSpec => []SessionInv
    BY SessionInvCorrect
  <1> QED
    BY <1>1, <1>2, PTL

-----------------------------------------------------------------------------
(* Tasks, for any tasks, steps and agents.                                 *)

TaskRow == [task : Task, done : BOOLEAN, left : SUBSET WorkStep, by : {"checkpoint", "finalize"}]
Checkpointed == [done : BOOLEAN, left : SUBSET WorkStep]
AgentWork ==
    {IdleAgent} \union [pc : {"close", "point"}, task : Task]
        \union [pc : {"file"}, task : Task, state : Checkpointed]

TasksTyped ==
    /\ journal \in Seq(TaskRow)
    /\ burpFiles \in [Task -> Checkpointed \union {NoFile}]
    /\ latest \in Task \union {NoTask}
    /\ agent \in [Agent -> AgentWork]

Earlier(t) == Records(t) \ {LastOf(Records(t))}

(* What a task is closed by was found with nothing left.                   *)
ClosedInv(t) ==
    Records(t) # {} /\ TaskStatus(t).by = "finalize" =>
        /\ Earlier(t) # {}
        /\ t \notin between => journal[LastOf(Earlier(t))].left = {}

(* What a finalizing agent has found is still so, unless it was disturbed; *)
(* the files it refers to are there.                                       *)
AgentInv(a) ==
    /\ agent[a].pc = "close" =>
          /\ Records(agent[a].task) # {}
          /\ agent[a].task \notin between => TaskStatus(agent[a].task).left = {}
    /\ agent[a].pc = "point" => burpFiles[agent[a].task] # NoFile

TasksInv ==
    /\ TasksTyped
    /\ \A i \in DOMAIN journal : journal[i].done => journal[i].left = {}
    /\ \A t \in Task : ClosedInv(t)
    /\ \A a \in Agent : AgentInv(a)
    /\ latest # NoTask => burpFiles[latest] # NoFile

-----------------------------------------------------------------------------

\* A set of lines that is not empty has a last one.
LEMMA LastIsThere ==
    ASSUME NEW n \in Nat, NEW S \in SUBSET (1 .. n), S # {}
    PROVE  LastOf(S) \in S /\ \A k \in S : k <= LastOf(S)
  <1> DEFINE T == {m \in 0 .. n : n - m \in S}
  <1>1. \A k \in S : k \in 1 .. n /\ n - k \in 0 .. n /\ n - (n - k) = k
    OBVIOUS
  <1>2. \A k \in S : n - k \in T
    BY <1>1
  <1>3. T \subseteq 0 .. n /\ T \subseteq Nat /\ \A m \in T : n - m \in S
    OBVIOUS
  <1> HIDE DEF T
  <1>4. T # {}
    BY <1>2
  <1>5. PICK m \in T : \A y \in T : ~(<<y, m>> \in OpToRel(<, Nat))
    BY <1>3, <1>4, WFMin, NatLessThanWellFounded
  <1>6. \A y \in T : ~(y < m)
    <2>1. ASSUME NEW y \in T, y < m PROVE FALSE
      <3>1. y \in Nat /\ m \in Nat
        BY <1>3
      <3>2. <<y, m>> \in OpToRel(<, Nat)
        BY <2>1, <3>1 DEF OpToRel
      <3> QED
        BY <1>5, <3>2
    <2> QED
      BY <2>1
  <1>7. \A k \in S : k <= n - m
    <2>1. ASSUME NEW k \in S PROVE k <= n - m
      <3>1. k \in 1 .. n /\ m \in 0 .. n
        BY <1>1, <1>3
      <3>2. ~(n - k < m)
        BY <1>2, <1>6
      <3> QED
        BY <3>1, <3>2
    <2> QED
      BY <2>1
  <1>8. n - m \in S
    BY <1>3
  <1> QED
    BY <1>7, <1>8 DEF LastOf

\* The last one of a set to which a later line was added is that line.
LEMMA LastIsNew ==
    ASSUME NEW n \in Nat, NEW S \in SUBSET (1 .. n)
    PROVE  LastOf(S \union {n + 1}) = n + 1
  <1>1. n + 1 \in 1 .. n + 1 /\ \A k \in S \union {n + 1} : k <= n + 1
    OBVIOUS
  <1>2. \A i \in S \union {n + 1} : (\A k \in S \union {n + 1} : k <= i) => i = n + 1
    OBVIOUS
  <1> QED
    BY <1>1, <1>2 DEF LastOf

LEMMA WorkFields ==
    ASSUME NEW w \in AgentWork
    PROVE  /\ w.pc \in {"close", "point", "file"} => w.task \in Task
           /\ w.pc = "file" => w.state \in Checkpointed
           /\ w.pc \in {"idle", "close", "point", "file"}
  BY DEF AgentWork, IdleAgent

LEMMA FilesAreNone ==
    ASSUME TaskAssumption
    PROVE  \A f \in Checkpointed : f # NoFile
  BY DEF TaskAssumption, Checkpointed, NoFile

LEMMA AgentMoves ==
    ASSUME TasksTyped, NEW a \in Agent, NEW w, Does(a, w)
    PROVE  /\ agent'[a] = w /\ \A b \in Agent \ {a} : agent'[b] = agent[b]
           /\ w \in AgentWork => agent' \in [Agent -> AgentWork]
  BY DEF TasksTyped, Does

LEMMA JournalLines ==
    ASSUME TasksTyped
    PROVE  /\ Len(journal) \in Nat /\ DOMAIN journal = 1 .. Len(journal)
           /\ \A i \in DOMAIN journal : journal[i] \in TaskRow
           /\ \A t : Records(t) \subseteq 1 .. Len(journal)
  BY DEF TasksTyped, Records

LEMMA JournalAppended ==
    ASSUME TasksTyped, NEW row \in TaskRow, journal' = Append(journal, row)
    PROVE  /\ journal' \in Seq(TaskRow) /\ Len(journal') = Len(journal) + 1
           /\ DOMAIN journal' = 1 .. Len(journal) + 1
           /\ journal'[Len(journal) + 1] = row
           /\ \A i \in 1 .. Len(journal) : journal'[i] = journal[i]
           /\ \A t : Records(t)' = IF t = row.task THEN Records(t) \union {Len(journal) + 1}
                                  ELSE Records(t)
  <1>1. /\ journal' \in Seq(TaskRow) /\ Len(journal') = Len(journal) + 1
        /\ DOMAIN journal' = 1 .. Len(journal) + 1
        /\ journal'[Len(journal) + 1] = row
        /\ \A i \in 1 .. Len(journal) : journal'[i] = journal[i]
    BY DEF TasksTyped
  <1>2. Len(journal) \in Nat /\ DOMAIN journal = 1 .. Len(journal)
    BY DEF TasksTyped
  <1> QED
    BY <1>1, <1>2 DEF Records

\* What a line appended to the journal changes of the other tasks, and of its own.
LEMMA StatusAppended ==
    ASSUME TasksTyped, NEW row \in TaskRow, journal' = Append(journal, row), NEW t
    PROVE  /\ t # row.task /\ Records(t) # {} => TaskStatus(t)' = TaskStatus(t)
           /\ t # row.task => Earlier(t)' = Earlier(t)
           /\ t # row.task /\ Earlier(t) # {} =>
                 journal'[LastOf(Earlier(t))] = journal[LastOf(Earlier(t))]
           /\ t = row.task => TaskStatus(t)' = row /\ Earlier(t)' = Records(t)
           /\ t = row.task /\ Records(t) # {} => journal'[LastOf(Records(t))] = TaskStatus(t)
  <1> DEFINE n == Len(journal)
  <1>1. /\ n \in Nat /\ Records(t) \in SUBSET (1 .. n) /\ n + 1 \notin Records(t)
        /\ Earlier(t) \in SUBSET (1 .. n)
    BY JournalLines DEF Earlier
  <1>2. /\ journal'[n + 1] = row /\ \A i \in 1 .. n : journal'[i] = journal[i]
        /\ Records(t)' = IF t = row.task THEN Records(t) \union {n + 1} ELSE Records(t)
    BY JournalAppended
  <1> HIDE DEF n
  <1>3. Records(t) # {} => LastOf(Records(t)) \in 1 .. n
    BY <1>1, LastIsThere
  <1>4. Earlier(t) # {} => LastOf(Earlier(t)) \in 1 .. n
    BY <1>1, LastIsThere
  <1>5. CASE t # row.task
    BY <1>2, <1>3, <1>4, <1>5 DEF TaskStatus, Earlier
  <1>6. CASE t = row.task
    <2>1. Records(t)' = Records(t) \union {n + 1}
      BY <1>2, <1>6
    <2>2. LastOf(Records(t)') = n + 1
      BY <1>1, <2>1, LastIsNew
    <2>3. Earlier(t)' = Records(t) /\ TaskStatus(t)' = row
      BY <1>1, <1>2, <2>1, <2>2 DEF TaskStatus, Earlier
    <2> QED
      BY <1>2, <1>3, <1>6, <2>3 DEF TaskStatus
  <1> QED
    BY <1>5, <1>6
-----------------------------------------------------------------------------

Checkpoints == \E t \in Task, done \in BOOLEAN, left \in SUBSET WorkStep : TaskCheckpoint(t, done, left)
BurpCheckpoints(a) ==
    \E t \in Task, done \in BOOLEAN, left \in SUBSET WorkStep : BurpCheckpoint(a, t, done, left)

LEMMA TasksSteps ==
    ASSUME TasksTyped, TasksNext
    PROVE  \/ Checkpoints
           \/ \E a \in Agent :
                \/ \E t \in Task : Finalize(a, t) \/ BurpFinalize(a, t)
                \/ BurpCheckpoints(a) \/ Close(a) \/ Point(a) \/ WriteFile(a) \/ AgentDies(a)
  <1>1. ASSUME NEW a \in Agent, BurpFinalizeLatest(a)
        PROVE  \E t \in Task : BurpFinalize(a, t)
    BY <1>1 DEF BurpFinalizeLatest, TasksTyped
  <1> QED
    BY <1>1 DEF TasksNext, Checkpoints, BurpCheckpoints

\* A history only grows, and takes the task that is checkpointed while it is finalized.
LEMMA DisturbedGrows ==
    ASSUME NEW t
    PROVE  /\ between \subseteq Disturbed(t)
           /\ \A a \in Agent : agent[a].pc # "idle" /\ agent[a].task = t => t \in Disturbed(t)
  BY DEF Disturbed, Finalizing, Doing

\* The state an agent takes up.
LEMMA AgentTurns ==
    ASSUME TasksTyped, NEW a \in Agent,
           \/ \E t \in Task : Finalize(a, t) \/ BurpFinalize(a, t)
           \/ BurpCheckpoints(a) \/ Close(a) \/ Point(a) \/ WriteFile(a) \/ AgentDies(a)
    PROVE  /\ agent' \in [Agent -> AgentWork]
           /\ \A b \in Agent \ {a} : agent'[b] = agent[b]
           /\ agent'[a].pc = "close" => \E t \in Task : Finalize(a, t) /\ agent'[a].task = t
           /\ agent'[a].pc = "point" => \E t \in Task, done \in BOOLEAN, left \in SUBSET WorkStep :
                                           BurpCheckpoint(a, t, done, left) /\ agent'[a].task = t
  <1>1. CASE Close(a) \/ Point(a) \/ WriteFile(a) \/ AgentDies(a)
    <2>1. Does(a, IdleAgent)
      BY <1>1 DEF Close, Point, WriteFile, AgentDies
    <2>2. agent'[a] = IdleAgent /\ IdleAgent \in AgentWork /\ IdleAgent.pc = "idle"
      BY <2>1, AgentMoves DEF AgentWork, IdleAgent
    <2> QED
      BY <2>1, <2>2, AgentMoves
  <1>2. CASE \E t \in Task : Finalize(a, t)
    <2>1. PICK t \in Task : Finalize(a, t)
      BY <1>2
    <2>2. [pc |-> "close", task |-> t] \in AgentWork
      BY DEF AgentWork
    <2>3. Does(a, [pc |-> "close", task |-> t])
      BY <2>1 DEF Finalize
    <2>4. agent'[a] = [pc |-> "close", task |-> t]
      BY <2>3, AgentMoves
    <2> QED
      BY <2>1, <2>2, <2>3, <2>4, AgentMoves
  <1>3. CASE \E t \in Task : BurpFinalize(a, t)
    <2>1. PICK t \in Task : BurpFinalize(a, t)
      BY <1>3
    <2>2. burpFiles[t] \in Checkpointed
      BY <2>1 DEF BurpFinalize, TasksTyped
    <2>3. [burpFiles[t] EXCEPT !.done = TRUE] \in Checkpointed
      BY <2>2 DEF Checkpointed
    <2> DEFINE w == [pc |-> "file", task |-> t, state |-> [burpFiles[t] EXCEPT !.done = TRUE]]
    <2>4. w \in AgentWork /\ w.pc = "file"
      BY <2>3 DEF AgentWork
    <2>5. Does(a, w)
      BY <2>1 DEF BurpFinalize
    <2> HIDE DEF w
    <2>6. agent'[a] = w
      BY <2>5, AgentMoves
    <2> QED
      BY <2>4, <2>5, <2>6, AgentMoves
  <1>4. CASE BurpCheckpoints(a)
    <2>1. PICK t \in Task, done \in BOOLEAN, left \in SUBSET WorkStep : BurpCheckpoint(a, t, done, left)
      BY <1>4 DEF BurpCheckpoints
    <2>2. [pc |-> "point", task |-> t] \in AgentWork
      BY DEF AgentWork
    <2>3. Does(a, [pc |-> "point", task |-> t])
      BY <2>1 DEF BurpCheckpoint
    <2>4. agent'[a] = [pc |-> "point", task |-> t]
      BY <2>3, AgentMoves
    <2> QED
      BY <2>1, <2>2, <2>3, <2>4, AgentMoves
  <1> QED
    BY <1>1, <1>2, <1>3, <1>4

\* Files are written and never taken away.
LEMMA FilesStay ==
    ASSUME TaskAssumption, TasksTyped, TasksNext
    PROVE  /\ burpFiles' \in [Task -> Checkpointed \union {NoFile}]
           /\ \A t \in Task : burpFiles[t] # NoFile => burpFiles'[t] # NoFile
  <1>1. burpFiles' = burpFiles \/ \E t \in Task, f \in Checkpointed : burpFiles' = [burpFiles EXCEPT ![t] = f]
    <2>1. CASE \E a \in Agent : BurpCheckpoints(a)
      <3>1. PICK a \in Agent, t \in Task, done \in BOOLEAN, left \in SUBSET WorkStep :
                BurpCheckpoint(a, t, done, left)
        BY <2>1 DEF BurpCheckpoints
      <3>2. [done |-> done, left |-> left] \in Checkpointed
        BY DEF Checkpointed
      <3> QED
        BY <3>1, <3>2 DEF BurpCheckpoint
    <2>2. CASE \E a \in Agent : WriteFile(a)
      <3>1. PICK a \in Agent : WriteFile(a)
        BY <2>2
      <3>2. agent[a].task \in Task /\ agent[a].state \in Checkpointed
        BY <3>1, WorkFields DEF WriteFile, Doing, TasksTyped
      <3> QED
        BY <3>1, <3>2 DEF WriteFile
    <2> QED
      BY <2>1, <2>2, TasksSteps
         DEF Checkpoints, TaskCheckpoint, Finalize, BurpFinalize, Close, Point, AgentDies
  <1>2. CASE burpFiles' = burpFiles
    BY <1>2 DEF TasksTyped
  <1>3. CASE \E t \in Task, f \in Checkpointed : burpFiles' = [burpFiles EXCEPT ![t] = f]
    <2>1. PICK t \in Task, f \in Checkpointed : burpFiles' = [burpFiles EXCEPT ![t] = f]
      BY <1>3
    <2>2. \A u \in Task : burpFiles'[u] = IF u = t THEN f ELSE burpFiles[u]
      BY <2>1 DEF TasksTyped
    <2>3. burpFiles' \in [Task -> Checkpointed \union {NoFile}]
      BY <2>1 DEF TasksTyped
    <2> QED
      BY <2>2, <2>3, FilesAreNone
  <1> QED
    BY <1>1, <1>2, <1>3

LEMMA TasksTypeStep ==
    ASSUME TaskAssumption, TasksTyped, TasksNext
    PROVE  TasksTyped'
  <1>1. burpFiles' \in [Task -> Checkpointed \union {NoFile}]
    BY FilesStay
  <1>2. agent' \in [Agent -> AgentWork]
    BY TasksSteps, AgentTurns DEF Checkpoints, TaskCheckpoint, TasksTyped
  <1>3. latest' \in Task \union {NoTask}
    <2>1. ASSUME NEW a \in Agent, Point(a) PROVE latest' \in Task
      BY <2>1, WorkFields DEF Point, Doing, TasksTyped
    <2> QED
      BY <2>1, TasksSteps
         DEF Checkpoints, TaskCheckpoint, Finalize, BurpFinalize, BurpCheckpoints, BurpCheckpoint,
             Close, WriteFile, AgentDies, TasksTyped
  <1>4. journal' \in Seq(TaskRow)
    <2>1. CASE Checkpoints
      <3>1. PICK t \in Task, done \in BOOLEAN, left \in SUBSET WorkStep : TaskCheckpoint(t, done, left)
        BY <2>1 DEF Checkpoints
      <3>2. [task |-> t, done |-> done, left |-> left, by |-> "checkpoint"] \in TaskRow
        BY DEF TaskRow
      <3> QED
        BY <3>1, <3>2, JournalAppended DEF TaskCheckpoint
    <2>2. CASE \E a \in Agent : Close(a)
      <3>1. PICK a \in Agent : Close(a)
        BY <2>2
      <3>2. agent[a].task \in Task
        BY <3>1, WorkFields DEF Close, Doing, TasksTyped
      <3>3. [task |-> agent[a].task, done |-> TRUE, left |-> {}, by |-> "finalize"] \in TaskRow
        BY <3>2 DEF TaskRow
      <3> QED
        BY <3>1, <3>3, JournalAppended DEF Close
    <2> QED
      BY <2>1, <2>2, TasksSteps
         DEF Finalize, BurpFinalize, BurpCheckpoints, BurpCheckpoint, Point, WriteFile, AgentDies, TasksTyped
  <1> QED
    BY <1>1, <1>2, <1>3, <1>4 DEF TasksTyped

\* What the journal says of a task after a line was added to it.
LEMMA JournalStep ==
    ASSUME TaskAssumption, TasksInv, TasksNext
    PROVE  /\ \A i \in DOMAIN journal' : journal'[i].done => journal'[i].left = {}
           /\ \A t \in Task : ClosedInv(t)'
           /\ \A a \in Agent : agent'[a].pc = "close" =>
                 /\ Records(agent[a].task)' # {}
                 /\ agent'[a].task \notin between' => (TaskStatus(agent[a].task).left = {})'
  <1> USE DEF TasksInv
  <1>b. between \subseteq between'
    <2>1. between' = between \/ \E t : between' = Disturbed(t)
      BY TasksSteps
         DEF Checkpoints, TaskCheckpoint, Finalize, BurpFinalize, BurpCheckpoints, BurpCheckpoint,
             Close, Point, WriteFile, AgentDies
    <2> QED
      BY <2>1, DisturbedGrows
  <1>1. CASE Checkpoints
    <2>1. PICK u \in Task, done \in BOOLEAN, left \in SUBSET WorkStep : TaskCheckpoint(u, done, left)
      BY <1>1 DEF Checkpoints
    <2> DEFINE row == [task |-> u, done |-> done, left |-> left, by |-> "checkpoint"]
    <2>2. row \in TaskRow /\ row.task = u /\ row.by = "checkpoint" /\ (row.done => row.left = {})
      BY <2>1 DEF TaskRow, TaskCheckpoint, Accepted
    <2>3. journal' = Append(journal, row) /\ between' = Disturbed(u) /\ agent' = agent
      BY <2>1 DEF TaskCheckpoint
    <2> HIDE DEF row
    <2>4. \A i \in DOMAIN journal' : journal'[i].done => journal'[i].left = {}
      BY <2>2, <2>3, JournalAppended, JournalLines
    <2>5. ASSUME NEW t \in Task
          PROVE  ClosedInv(t)'
      <3>1. CASE t = u
        BY <2>2, <2>3, <3>1, StatusAppended DEF ClosedInv
      <3>2. CASE t # u
        <4>1. Records(t)' = Records(t)
          BY <2>2, <2>3, <3>2, JournalAppended
        <4> QED
          BY <1>b, <2>2, <2>3, <3>2, <4>1, StatusAppended DEF ClosedInv
      <3> QED
        BY <3>1, <3>2
    <2>6. ASSUME NEW a \in Agent, agent'[a].pc = "close"
          PROVE  /\ Records(agent[a].task)' # {}
                 /\ agent'[a].task \notin between' => (TaskStatus(agent[a].task).left = {})'
      <3>1. PICK t : t = agent[a].task
        OBVIOUS
      <3>2. agent'[a].task = t /\ Records(t) # {} /\ (t \notin between => TaskStatus(t).left = {})
        BY <2>3, <2>6, <3>1 DEF AgentInv
      <3>3. CASE t = u
        <4>1. t \in between'
          BY <2>3, <2>6, <3>1, <3>3, DisturbedGrows
        <4>2. Records(t)' # {}
          BY <2>2, <2>3, <3>3, JournalAppended
        <4> QED
          BY <3>2, <4>1, <4>2
      <3>4. CASE t # u
        <4>1. Records(t)' = Records(t) /\ TaskStatus(t)' = TaskStatus(t)
          BY <2>2, <2>3, <3>2, <3>4, JournalAppended, StatusAppended
        <4> QED
          BY <1>b, <3>2, <4>1
      <3> QED
        BY <3>3, <3>4
    <2> QED
      BY <2>4, <2>5, <2>6
  <1>2. ASSUME NEW a \in Agent, Close(a)
        PROVE  /\ \A i \in DOMAIN journal' : journal'[i].done => journal'[i].left = {}
               /\ \A t \in Task : ClosedInv(t)'
               /\ \A d \in Agent : agent'[d].pc = "close" =>
                     /\ Records(agent[d].task)' # {}
                     /\ agent'[d].task \notin between' => (TaskStatus(agent[d].task).left = {})'
    <2>1. PICK u : u = agent[a].task
      OBVIOUS
    <2>2. u \in Task /\ Records(u) # {} /\ (u \notin between => TaskStatus(u).left = {})
      BY <1>2, <2>1, WorkFields DEF Close, Doing, AgentInv, TasksTyped
    <2> DEFINE row == [task |-> u, done |-> TRUE, left |-> {}, by |-> "finalize"]
    <2>3. row \in TaskRow /\ row.task = u /\ row.left = {}
      BY <2>2 DEF TaskRow
    <2>4. journal' = Append(journal, row) /\ between' = between
      BY <1>2, <2>1 DEF Close
    <2>5. agent'[a].pc # "close" /\ \A d \in Agent \ {a} : agent'[d] = agent[d]
      BY <1>2, AgentMoves DEF Close, IdleAgent
    <2> HIDE DEF row
    <2>6. \A i \in DOMAIN journal' : journal'[i].done => journal'[i].left = {}
      BY <2>3, <2>4, JournalAppended, JournalLines
    <2>7. ASSUME NEW t \in Task
          PROVE  ClosedInv(t)'
      <3>1. CASE t = u
        <4>1. /\ Earlier(t)' = Records(t) /\ Records(t) # {}
              /\ journal'[LastOf(Records(t))] = TaskStatus(t)
          BY <2>2, <2>3, <2>4, <3>1, StatusAppended
        <4>2. LastOf(Earlier(t)') = LastOf(Records(t))
          BY <4>1
        <4> QED
          BY <2>2, <2>4, <3>1, <4>1, <4>2 DEF ClosedInv
      <3>2. CASE t # u
        <4>1. Records(t)' = Records(t)
          BY <2>3, <2>4, <3>2, JournalAppended
        <4> QED
          BY <2>3, <2>4, <3>2, <4>1, StatusAppended DEF ClosedInv
      <3> QED
        BY <3>1, <3>2
    <2>8. ASSUME NEW d \in Agent, agent'[d].pc = "close"
          PROVE  /\ Records(agent[d].task)' # {}
                 /\ agent'[d].task \notin between' => (TaskStatus(agent[d].task).left = {})'
      <3>1. PICK t : t = agent[d].task
        OBVIOUS
      <3>2. agent'[d].task = t /\ Records(t) # {} /\ (t \notin between => TaskStatus(t).left = {})
        BY <2>5, <2>8, <3>1 DEF AgentInv
      <3>3. CASE t = u
        BY <2>3, <2>4, <3>2, <3>3, JournalAppended, StatusAppended
      <3>4. CASE t # u
        <4>1. Records(t)' = Records(t) /\ TaskStatus(t)' = TaskStatus(t)
          BY <2>3, <2>4, <3>2, <3>4, JournalAppended, StatusAppended
        <4> QED
          BY <2>4, <3>2, <4>1
      <3> QED
        BY <3>3, <3>4
    <2> QED
      BY <2>6, <2>7, <2>8
  <1>3. ASSUME NEW a \in Agent,
               \/ \E t \in Task : Finalize(a, t) \/ BurpFinalize(a, t)
               \/ BurpCheckpoints(a) \/ Point(a) \/ WriteFile(a) \/ AgentDies(a)
        PROVE  /\ \A i \in DOMAIN journal' : journal'[i].done => journal'[i].left = {}
               /\ \A t \in Task : ClosedInv(t)'
               /\ \A d \in Agent : agent'[d].pc = "close" =>
                     /\ Records(agent[d].task)' # {}
                     /\ agent'[d].task \notin between' => (TaskStatus(agent[d].task).left = {})'
    <2>1. journal' = journal
      BY <1>3 DEF Finalize, BurpFinalize, BurpCheckpoints, BurpCheckpoint, Point, WriteFile, AgentDies
    <2>2. \A t : Records(t)' = Records(t) /\ TaskStatus(t)' = TaskStatus(t) /\ Earlier(t)' = Earlier(t)
      BY <2>1 DEF Records, TaskStatus, Earlier
    <2>3. \A t \in Task : ClosedInv(t)'
      BY <1>b, <2>1, <2>2 DEF ClosedInv
    <2>4. ASSUME NEW d \in Agent, agent'[d].pc = "close"
          PROVE  /\ Records(agent[d].task)' # {}
                 /\ agent'[d].task \notin between' => (TaskStatus(agent[d].task).left = {})'
      <3>1. PICK t : t = agent'[d].task
        OBVIOUS
      <3>2. Records(t) # {} /\ (t \notin between' => TaskStatus(t).left = {})
        <4>1. CASE d = a
          <5>1. Finalize(a, t)
            BY <1>3, <2>4, <3>1, <4>1, AgentTurns
          <5> QED
            BY <5>1 DEF Finalize
        <4>2. CASE d # a
          <5>1. agent'[d] = agent[d]
            BY <1>3, <4>2, AgentTurns
          <5> QED
            BY <1>b, <2>4, <3>1, <5>1 DEF AgentInv
        <4> QED
          BY <4>1, <4>2
      <3> QED
        BY <2>2, <3>1, <3>2
    <2> QED
      BY <2>1, <2>3, <2>4
  <1> QED
    BY <1>1, <1>2, <1>3, TasksSteps

LEMMA TasksInvStep ==
    ASSUME TaskAssumption, TasksInv, TasksNext
    PROVE  TasksInv'
  <1> USE DEF TasksInv
  <1>1. TasksTyped'
    BY TasksTypeStep
  <1>2. \A t \in Task : burpFiles[t] # NoFile => burpFiles'[t] # NoFile
    BY FilesStay
  <1>3. ASSUME NEW a \in Agent
        PROVE  AgentInv(a)'
    <2>1. ASSUME agent'[a].pc = "point"
          PROVE  burpFiles'[agent'[a].task] # NoFile
      <3>1. CASE agent'[a] = agent[a]
        <4>1. agent[a].task \in Task
          BY <2>1, <3>1, WorkFields DEF TasksTyped
        <4> QED
          BY <1>2, <2>1, <3>1, <4>1 DEF AgentInv
      <3>2. CASE agent'[a] # agent[a]
        <4>1. PICK t \in Task, done \in BOOLEAN, left \in SUBSET WorkStep :
                  BurpCheckpoint(a, t, done, left) /\ agent'[a].task = t
          BY <2>1, <3>2, TasksSteps, AgentTurns DEF Checkpoints, TaskCheckpoint
        <4>2. [done |-> done, left |-> left] \in Checkpointed
          BY DEF Checkpointed
        <4>3. burpFiles'[t] = [done |-> done, left |-> left]
          BY <4>1 DEF BurpCheckpoint, TasksTyped
        <4> QED
          BY <4>1, <4>2, <4>3, FilesAreNone
      <3> QED
        BY <3>1, <3>2
    <2> QED
      BY <2>1, JournalStep DEF AgentInv
  <1>4. latest' # NoTask => burpFiles'[latest'] # NoFile
    <2>1. CASE latest' = latest
      BY <1>2, <2>1 DEF TasksTyped
    <2>2. CASE \E a \in Agent : Point(a)
      <3>1. PICK a \in Agent : Point(a)
        BY <2>2
      <3>2. latest' = agent[a].task /\ agent[a].task \in Task /\ burpFiles[agent[a].task] # NoFile
        BY <3>1, WorkFields DEF Point, Doing, AgentInv, TasksTyped
      <3> QED
        BY <1>2, <3>2
    <2> QED
      BY <2>1, <2>2, TasksSteps
         DEF Checkpoints, TaskCheckpoint, Finalize, BurpFinalize, BurpCheckpoints, BurpCheckpoint,
             Close, WriteFile, AgentDies
  <1> QED
    BY <1>1, <1>3, <1>4, JournalStep

\* Of every checkpoint, file and agent between two of its writes: the inductive invariant.
THEOREM TasksInvCorrect ==
    ASSUME TaskAssumption
    PROVE  TasksSpec => []TasksInv
  <1>1. TasksInit => TasksInv
    <2>1. SUFFICES ASSUME TasksInit PROVE TasksInv
      OBVIOUS
    <2>2. TasksTyped /\ (\A t : Records(t) = {}) /\ (\A a \in Agent : agent[a].pc = "idle")
      BY <2>1 DEF TasksInit, TasksTyped, AgentWork, IdleAgent, Records
    <2> QED
      BY <2>1, <2>2 DEF TasksInit, TasksInv, ClosedInv, AgentInv
  <1>2. TasksInv /\ [TasksNext]_taskvars => TasksInv'
    <2>1. ASSUME TasksInv, UNCHANGED taskvars PROVE TasksInv'
      <3>1. UNCHANGED <<journal, burpFiles, latest, agent, between>>
        BY <2>1 DEF taskvars
      <3>2. TasksTyped'
        BY <2>1, <3>1 DEF TasksInv, TasksTyped
      <3>3. ASSUME NEW t \in Task PROVE ClosedInv(t)'
        <4>1. Records(t)' = Records(t) /\ Earlier(t)' = Earlier(t) /\ TaskStatus(t)' = TaskStatus(t)
          BY <3>1 DEF Records, Earlier, TaskStatus
        <4>2. ClosedInv(t)
          BY <2>1 DEF TasksInv
        <4> QED
          BY <3>1, <4>1, <4>2 DEF ClosedInv
      <3>4. \A a \in Agent : AgentInv(a)'
        BY <2>1, <3>1 DEF TasksInv, AgentInv, Records, TaskStatus
      <3> QED
        BY <2>1, <3>1, <3>2, <3>3, <3>4 DEF TasksInv
    <2> QED
      BY <2>1, TasksInvStep
  <1> QED
    BY <1>1, <1>2, PTL DEF TasksSpec

\* A task that is shown as done has nothing left, and neither had its checkpoint before the
\* one that closed it, unless it was checkpointed while it was being finalized; and the
\* latest Burp task can be continued.
THEOREM CheckpointsHoldCorrect ==
    ASSUME TaskAssumption
    PROVE  TasksSpec => []CheckpointsHold
  <1>1. TasksInv => CheckpointsHold
    <2>1. ASSUME TasksInv, NEW t \in Task \ between, Records(t) # {}, TaskStatus(t).done
          PROVE  /\ TaskStatus(t).left = {}
                 /\ TaskStatus(t).by = "finalize" => journal[LastOf(Earlier(t))].left = {}
      <3>1. LastOf(Records(t)) \in DOMAIN journal
        <4>1. Records(t) \in SUBSET (1 .. Len(journal)) /\ Len(journal) \in Nat
          BY <2>1, JournalLines DEF TasksInv
        <4> QED
          BY <2>1, <4>1, LastIsThere DEF Records
      <3> QED
        BY <2>1, <3>1 DEF TasksInv, ClosedInv, TaskStatus
    <2> QED
      BY <2>1 DEF CheckpointsHold, Earlier, TasksInv
  <1> QED
    BY <1>1, TasksInvCorrect, PTL

-----------------------------------------------------------------------------
(* Global memory, for any callers and any number of lines, calls and deaths. *)

Verdicts(i) == {k \in DOMAIN candidates : candidates[k].line = i}
Promoted(i) == {n \in DOMAIN memories : memories[n] = i}

Row == [kind : {"candidate", "approved", "rejected"}, line : Nat]
Manifest == [set : SUBSET Nat, vector : SUBSET Nat, indexed : BOOLEAN]
Review ==
    [pc : {"save"}, line : Nat]
      \union [pc : {"resolve", "log"}, line : Nat, verdict : {"approved", "rejected"}]
Demotion == [pc : {"copy", "mark"}, line : Nat]
IndexRun == [pc : Indexing, docs : SUBSET Nat, vec : BOOLEAN, search : BOOLEAN,
             hidden : SUBSET Nat, prior : Manifest, ok : BOOLEAN]
Recall == [pc : {"hits", "answer"}, hidden : SUBSET Nat, hits : SUBSET Nat]

Working == {Idle} \union Review \union Demotion \union IndexRun \union Recall

PromotionsTyped ==
    /\ candidates \in Seq(Row) /\ memories \in Seq(Nat)
    /\ markers \subseteq Nat /\ approvals \subseteq Nat
    /\ index \subseteq Nat /\ vectors \subseteq Nat /\ manifest \in Manifest
    /\ caller \in [Caller -> Working]
    /\ serial \in BOOLEAN

(* What refers to a candidate refers to one that is there.                 *)
LinesInv ==
    /\ \A k \in DOMAIN candidates : IsCandidate(k) => candidates[k].line = 0
    /\ \A k \in DOMAIN candidates : candidates[k].line \in 0 .. Len(candidates)
    /\ \A n \in DOMAIN memories : memories[n] \in 0 .. Len(candidates)
    /\ approvals \subseteq 1 .. Len(candidates)
    /\ \A c \in Caller : caller[c].pc \in Reviewing =>
          caller[c].line \in DOMAIN candidates /\ IsCandidate(caller[c].line)

(* One review at a time; what it has written so far is what its step says, *)
(* and nothing was made of a candidate that nobody has taken up.           *)
OneReview ==
    \A c, d \in Caller : caller[c].pc \in Reviewing /\ caller[d].pc \in Reviewing => c = d

CandidateInv(i) ==
    /\ \A m, n \in Promoted(i) : m = n
    /\ \A k, l \in Verdicts(i) : k = l
    /\ \A k \in Verdicts(i) :
          /\ candidates[k].kind = "approved" => Promoted(i) # {}
          /\ candidates[k].kind = "rejected" => Promoted(i) = {}
    /\ Verdicts(i) = {} /\ Promoted(i) # {} =>
          \E c \in Caller : /\ caller[c].pc = "resolve" /\ caller[c].line = i
                            /\ caller[c].verdict = "approved"
    /\ i \in approvals => \E k \in Verdicts(i) : candidates[k].kind = "approved"

ReviewerInv(c) ==
    /\ caller[c].pc \in {"save", "resolve"} => Verdicts(caller[c].line) = {}
    /\ caller[c].pc = "save" => Promoted(caller[c].line) = {}
    /\ caller[c].pc = "resolve" /\ caller[c].verdict = "approved" =>
          Promoted(caller[c].line) # {}
    /\ caller[c].pc = "resolve" /\ caller[c].verdict = "rejected" =>
          Promoted(caller[c].line) = {}
    /\ caller[c].pc = "log" => \E k \in Verdicts(caller[c].line) :
                                  candidates[k].kind = caller[c].verdict

ReviewInv ==
    /\ OneReview
    /\ \A i \in DOMAIN candidates : CandidateInv(i)
    /\ \A c \in Caller : ReviewerInv(c)

(* One indexing at a time: what it writes has no line that was demoted when *)
(* it began, so neither has what a search under way finds.                 *)
OneIndexing ==
    \A c, d \in Caller : caller[c].pc \in Indexing /\ caller[d].pc \in Indexing => c = d

IndexingInv(c) ==
    caller[c].pc \in Indexing =>
        /\ caller[c].docs \intersect caller[c].hidden = {}
        /\ caller[c].hidden \subseteq markers
        /\ caller[c].prior = manifest
        /\ caller[c].pc # "rebuild" => index = caller[c].docs
        /\ caller[c].ok => caller[c].pc = "manifest" /\ vectors = caller[c].docs
        /\ ~caller[c].vec => caller[c].pc \in {"rebuild", "manifest"}
        /\ caller[c].pc = "upsert" => vectors = {}

RecallInv(c) ==
    /\ caller[c].pc = "hits" =>
          /\ caller[c].hidden \subseteq markers
          /\ caller[c].hits \intersect caller[c].hidden = {}
          /\ manifest.set \intersect caller[c].hidden = {}
          /\ \A d \in Caller : caller[d].pc \in Indexing =>
                                  caller[c].hidden \subseteq caller[d].hidden
    /\ caller[c].pc = "answer" => caller[c].hits \intersect caller[c].hidden = {}

VectorsInv ==
    manifest.indexed =>
        \/ vectors \subseteq manifest.vector
        \/ \E d \in Caller : caller[d].pc = "manifest" /\ caller[d].ok

IndexInv ==
    /\ OneIndexing
    /\ \A c \in Caller : IndexingInv(c) /\ RecallInv(c)
    /\ VectorsInv

PromotionsInv == PromotionsTyped /\ LinesInv /\ (serial => ReviewInv /\ IndexInv)
-----------------------------------------------------------------------------
(* What the steps of a caller tell.                                        *)

LEMMA WorkingFields ==
    ASSUME NEW w \in Working
    PROVE  /\ w.pc \in Reviewing => w \in Review /\ w.line \in Nat
           /\ w.pc \in {"resolve", "log"} => w.verdict \in {"approved", "rejected"}
           /\ w.pc \in {"copy", "mark"} => w.line \in Nat
           /\ w.pc \in Indexing => w \in IndexRun
           /\ w.pc \in {"hits", "answer"} => w \in Recall
  BY DEF Working, Idle, Review, Demotion, IndexRun, Recall, Reviewing, Indexing

LEMMA RunFields ==
    ASSUME NEW w \in IndexRun
    PROVE  /\ w.docs \subseteq Nat /\ w.hidden \subseteq Nat /\ w.prior \in Manifest
           /\ w.vec \in BOOLEAN /\ w.search \in BOOLEAN /\ w.ok \in BOOLEAN
           /\ \A s \in Indexing : /\ [w EXCEPT !.pc = s] \in IndexRun
                                 /\ [w EXCEPT !.pc = s, !.ok = TRUE] \in IndexRun
  BY DEF IndexRun

LEMMA StatesWork ==
    /\ Idle \in Working
    /\ \A n \in Nat : /\ [pc |-> "save", line |-> n] \in Working
                      /\ [pc |-> "copy", line |-> n] \in Working
                      /\ [pc |-> "mark", line |-> n] \in Working
    /\ \A n \in Nat, v \in {"approved", "rejected"} :
          /\ [pc |-> "resolve", line |-> n, verdict |-> v] \in Working
          /\ [pc |-> "log", line |-> n, verdict |-> v] \in Working
    /\ \A h, f \in SUBSET Nat :
          /\ [pc |-> "hits", hidden |-> h, hits |-> f] \in Working
          /\ [pc |-> "answer", hidden |-> h, hits |-> f] \in Working
  BY DEF Working, Review, Demotion, Recall

LEMMA Moves ==
    ASSUME PromotionsTyped, NEW c \in Caller, NEW w, Becomes(c, w)
    PROVE  /\ caller'[c] = w /\ \A d \in Caller \ {c} : caller'[d] = caller[d]
           /\ w \in Working => caller' \in [Caller -> Working]
  BY DEF PromotionsTyped, Becomes

LEMMA Lines ==
    ASSUME PromotionsTyped
    PROVE  /\ DOMAIN candidates = 1 .. Len(candidates) /\ Len(candidates) \in Nat
           /\ DOMAIN memories = 1 .. Len(memories) /\ Len(memories) \in Nat
           /\ DOMAIN memories \subseteq Nat /\ GlobalRecords \subseteq Nat
           /\ Pending \subseteq DOMAIN candidates
           /\ \A k \in DOMAIN candidates : candidates[k] \in Row
           /\ \A n \in DOMAIN memories : memories[n] \in Nat
  BY DEF PromotionsTyped, GlobalRecords, Pending

LEMMA RowAppended ==
    ASSUME PromotionsTyped, NEW row \in Row, candidates' = Append(candidates, row)
    PROVE  /\ candidates' \in Seq(Row) /\ Len(candidates') = Len(candidates) + 1
           /\ DOMAIN candidates' = 1 .. Len(candidates) + 1
           /\ candidates'[Len(candidates) + 1] = row
           /\ \A k \in DOMAIN candidates : candidates'[k] = candidates[k]
  BY DEF PromotionsTyped

LEMMA MemoryAppended ==
    ASSUME PromotionsTyped, NEW m \in Nat, memories' = Append(memories, m)
    PROVE  /\ memories' \in Seq(Nat)
           /\ DOMAIN memories' = 1 .. Len(memories) + 1
           /\ memories'[Len(memories) + 1] = m
           /\ \A k \in DOMAIN memories : memories'[k] = memories[k]
  BY DEF PromotionsTyped

LEMMA PromotionsTypeStep ==
    ASSUME PromotionsTyped, PromotionsNext
    PROVE  PromotionsTyped'
  <1>1. PICK c \in Caller :
            \/ Propose(c) \/ SaveGlobal(c)
            \/ Approve(c) \/ Reject(c) \/ ApproveSave(c) \/ Resolve(c) \/ LogReview(c)
            \/ Demote(c) \/ DemoteCopy(c) \/ DemoteMark(c)
            \/ IndexGlobal(c) \/ Search(c)
            \/ RebuildText(c) \/ SkipVectors(c) \/ ClearVectors(c) \/ UpsertVectors(c)
            \/ WriteManifest(c) \/ SearchHits(c) \/ Answer(c)
            \/ Die(c)
    BY DEF PromotionsNext
  <1>w. caller[c] \in Working
    BY DEF PromotionsTyped
  <1>s. serial' \in BOOLEAN
    BY <1>1 DEF PromotionsTyped, Propose, SaveGlobal, Approve, Reject, ApproveSave, Resolve, LogReview,
                Demote, DemoteCopy, DemoteMark, IndexGlobal, Search, RebuildText, SkipVectors,
                ClearVectors, UpsertVectors, WriteManifest, SearchHits, Answer, Die, Begin, Go
  <1> USE <1>s
  <1>2. CASE Propose(c)
    <2>1. [kind |-> "candidate", line |-> 0] \in Row
      BY DEF Row
    <2> QED
      BY <1>2, <2>1, RowAppended, Moves, StatesWork DEF Propose, Begin, PromotionsTyped, derived
  <1>3. CASE SaveGlobal(c)
    BY <1>3, MemoryAppended, Moves, StatesWork DEF SaveGlobal, Begin, PromotionsTyped, derived
  <1>4. CASE Approve(c) \/ Reject(c)
    <2>1. PICK i \in Pending :
              \/ Becomes(c, [pc |-> "save", line |-> i])
              \/ Becomes(c, [pc |-> "resolve", line |-> i, verdict |-> "rejected"])
      BY <1>4 DEF Approve, Reject, Begin
    <2>2. i \in Nat
      BY Lines
    <2>3. /\ [pc |-> "save", line |-> i] \in Working
          /\ [pc |-> "resolve", line |-> i, verdict |-> "rejected"] \in Working
      BY <2>2, StatesWork
    <2>4. caller' \in [Caller -> Working]
      BY <2>1, <2>3, Moves
    <2> QED
      BY <1>4, <2>4 DEF Approve, Reject, PromotionsTyped, files, derived
  <1>5. CASE ApproveSave(c)
    <2>1. caller[c].line \in Nat
      BY <1>5, <1>w, WorkingFields DEF ApproveSave, At, Reviewing
    <2>0. [pc |-> "resolve", line |-> caller[c].line, verdict |-> "approved"] \in Working
      BY <2>1, StatesWork
    <2>2. caller' \in [Caller -> Working]
      BY <1>5, <2>0, Moves DEF ApproveSave, Go
    <2> QED
      BY <1>5, <2>1, <2>2, MemoryAppended DEF ApproveSave, PromotionsTyped, derived
  <1>6. CASE Resolve(c)
    <2>1. caller[c].line \in Nat /\ caller[c].verdict \in {"approved", "rejected"}
      BY <1>6, <1>w, WorkingFields DEF Resolve, At, Reviewing
    <2>0. [pc |-> "log", line |-> caller[c].line, verdict |-> caller[c].verdict] \in Working
      BY <2>1, StatesWork
    <2>2. caller' \in [Caller -> Working]
      BY <1>6, <2>0, Moves DEF Resolve, Go
    <2>3. [kind |-> caller[c].verdict, line |-> caller[c].line] \in Row
      BY <2>1 DEF Row
    <2> QED
      BY <1>6, <2>2, <2>3, RowAppended DEF Resolve, PromotionsTyped, derived
  <1>7. CASE LogReview(c)
    <2>1. caller[c].line \in Nat
      BY <1>7, <1>w, WorkingFields DEF LogReview, At, Reviewing
    <2>2. caller' \in [Caller -> Working]
      BY <1>7, Moves, StatesWork DEF LogReview, Go
    <2> QED
      BY <1>7, <2>1, <2>2 DEF LogReview, PromotionsTyped, derived
  <1>8. CASE Demote(c)
    <2>1. PICK n \in DOMAIN memories : Becomes(c, [pc |-> "copy", line |-> n])
      BY <1>8 DEF Demote, Begin
    <2>2. caller' \in [Caller -> Working]
      BY <2>1, Lines, Moves, StatesWork
    <2> QED
      BY <1>8, <2>2 DEF Demote, PromotionsTyped, files, derived
  <1>9. CASE DemoteCopy(c) \/ DemoteMark(c)
    <2>1. caller[c].line \in Nat
      BY <1>9, <1>w, WorkingFields DEF DemoteCopy, DemoteMark, At
    <2>0. [pc |-> "mark", line |-> caller[c].line] \in Working
      BY <2>1, StatesWork
    <2>2. caller' \in [Caller -> Working]
      BY <1>9, <2>0, Moves, StatesWork DEF DemoteCopy, DemoteMark, Go
    <2> QED
      BY <1>9, <2>1, <2>2 DEF DemoteCopy, DemoteMark, PromotionsTyped, derived
  <1>10. CASE IndexGlobal(c) \/ Search(c)
    <2>1. PICK v, s \in BOOLEAN :
              Becomes(c, [pc |-> "rebuild", docs |-> GlobalRecords, vec |-> v, search |-> s,
                          hidden |-> markers, prior |-> manifest, ok |-> FALSE])
      BY <1>10 DEF IndexGlobal, Search, Begin
    <2>2. [pc |-> "rebuild", docs |-> GlobalRecords, vec |-> v, search |-> s,
           hidden |-> markers, prior |-> manifest, ok |-> FALSE] \in IndexRun
      BY Lines DEF PromotionsTyped, IndexRun, Indexing
    <2>3. caller' \in [Caller -> Working]
      BY <2>1, <2>2, Moves DEF Working
    <2> QED
      BY <1>10, <2>3 DEF IndexGlobal, Search, PromotionsTyped, files, derived
  <1>11. CASE RebuildText(c) \/ SkipVectors(c) \/ ClearVectors(c) \/ UpsertVectors(c)
    <2>1. caller[c] \in IndexRun
      BY <1>11, <1>w, WorkingFields
         DEF RebuildText, SkipVectors, ClearVectors, UpsertVectors, At, Indexing
    <2>2. PICK s \in Indexing :
              \/ Becomes(c, [caller[c] EXCEPT !.pc = s])
              \/ Becomes(c, [caller[c] EXCEPT !.pc = s, !.ok = TRUE])
      BY <1>11 DEF RebuildText, SkipVectors, ClearVectors, UpsertVectors, Go, Indexing
    <2>3. caller' \in [Caller -> Working]
      BY <2>1, <2>2, Moves, RunFields DEF Working
    <2>4. caller[c].docs \subseteq Nat
      BY <2>1, RunFields
    <2> QED
      BY <1>11, <2>3, <2>4 DEF RebuildText, SkipVectors, ClearVectors, UpsertVectors,
                               PromotionsTyped, files, derived
  <1>12. CASE WriteManifest(c)
    <2>1. caller[c] \in IndexRun
      BY <1>12, <1>w, WorkingFields DEF WriteManifest, At, Indexing
    <2>2. manifest' \in Manifest
      <3>1. caller[c].prior.vector \subseteq Nat /\ caller[c].prior.indexed \in BOOLEAN
            /\ caller[c].docs \subseteq Nat /\ caller[c].ok \in BOOLEAN /\ caller[c].vec \in BOOLEAN
        BY <2>1, RunFields DEF Manifest
      <3> DEFINE vector == IF caller[c].ok THEN caller[c].docs ELSE caller[c].prior.vector
                 indexed == caller[c].ok \/ (~caller[c].vec /\ caller[c].prior.indexed
                                               /\ caller[c].prior.vector = caller[c].docs)
      <3>2. vector \subseteq Nat /\ indexed \in BOOLEAN
        BY <3>1
      <3>3. manifest' = [set |-> caller[c].docs, vector |-> vector, indexed |-> indexed]
        BY <1>12 DEF WriteManifest
      <3> HIDE DEF vector, indexed
      <3> QED
        BY <3>1, <3>2, <3>3 DEF Manifest
    <2>3. Becomes(c, Idle) \/ Becomes(c, [pc |-> "hits", hidden |-> caller[c].hidden, hits |-> index])
      BY <1>12 DEF WriteManifest, Go
    <2>4. caller[c].hidden \in SUBSET Nat /\ index \in SUBSET Nat
      BY <2>1, RunFields DEF PromotionsTyped
    <2>5. [pc |-> "hits", hidden |-> caller[c].hidden, hits |-> index] \in Working
      BY <2>4, StatesWork
    <2>6. caller' \in [Caller -> Working]
      BY <2>3, <2>5, Moves, StatesWork
    <2> QED
      BY <1>12, <2>2, <2>6 DEF WriteManifest, PromotionsTyped, files
  <1>13. CASE SearchHits(c)
    <2>1. caller[c] \in Recall
      BY <1>13, <1>w, WorkingFields DEF SearchHits, At
    <2>2. caller[c].hidden \in SUBSET Nat /\ caller[c].hits \in SUBSET Nat
      BY <2>1 DEF Recall
    <2> DEFINE hits == caller[c].hits \union GlobalRecords
                           \union (IF VectorIsCurrent THEN vectors ELSE {})
    <2>3. hits \in SUBSET Nat
      BY <2>2, Lines DEF PromotionsTyped
    <2>4. Becomes(c, [pc |-> "answer", hidden |-> caller[c].hidden, hits |-> hits])
      BY <1>13 DEF SearchHits, Go
    <2> HIDE DEF hits
    <2>5. [pc |-> "answer", hidden |-> caller[c].hidden, hits |-> hits] \in Working
      BY <2>2, <2>3, StatesWork
    <2>6. caller' \in [Caller -> Working]
      BY <2>4, <2>5, Moves
    <2> QED
      BY <1>13, <2>6 DEF SearchHits, PromotionsTyped, files, derived
  <1>14. CASE Answer(c) \/ Die(c)
    <2>1. caller' \in [Caller -> Working]
      BY <1>14, Moves, StatesWork DEF Answer, Die, Go
    <2> QED
      BY <1>14, <2>1 DEF Answer, Die, PromotionsTyped, files, derived
  <1> QED
    BY <1>1, <1>2, <1>3, <1>4, <1>5, <1>6, <1>7, <1>8, <1>9, <1>10, <1>11, <1>12, <1>13, <1>14

(* Reviews.                                                                *)

Reviews(c) == \/ Propose(c) \/ SaveGlobal(c) \/ Approve(c) \/ Reject(c)
              \/ ApproveSave(c) \/ Resolve(c) \/ LogReview(c)
Demotes(c) == Demote(c) \/ DemoteCopy(c) \/ DemoteMark(c)
Indexes(c) == \/ IndexGlobal(c) \/ Search(c) \/ RebuildText(c) \/ SkipVectors(c)
              \/ ClearVectors(c) \/ UpsertVectors(c) \/ WriteManifest(c)
              \/ SearchHits(c) \/ Answer(c)

\* A step is one of these; a history that is serial afterwards was so before.
LEMMA StepsOfCallers ==
    ASSUME PromotionsTyped, PromotionsNext
    PROVE  /\ \E c \in Caller : Reviews(c) \/ Demotes(c) \/ Indexes(c) \/ Die(c)
           /\ serial' => serial
  <1>1. \E c \in Caller : Reviews(c) \/ Demotes(c) \/ Indexes(c) \/ Die(c)
    BY DEF PromotionsNext, Reviews, Demotes, Indexes
  <1>2. PICK c \in Caller : Reviews(c) \/ Demotes(c) \/ Indexes(c) \/ Die(c)
    BY <1>1
  <1>3. serial' => serial
    BY <1>2 DEF Reviews, Demotes, Indexes, Propose, SaveGlobal, Approve, Reject, ApproveSave,
                Resolve, LogReview, Demote, DemoteCopy, DemoteMark, IndexGlobal, Search,
                RebuildText, SkipVectors, ClearVectors, UpsertVectors, WriteManifest,
                SearchHits, Answer, Die, Begin, Go
  <1> QED
    BY <1>1, <1>3

\* The other steps are none of a review.
LEMMA NoReview ==
    ASSUME PromotionsTyped, NEW c \in Caller, Demotes(c) \/ Indexes(c) \/ Die(c)
    PROVE  /\ UNCHANGED <<candidates, memories, approvals>>
           /\ caller'[c].pc \notin Reviewing /\ \A d \in Caller \ {c} : caller'[d] = caller[d]
           /\ serial' => caller[c].pc \notin Reviewing
  <1>0. caller[c] \in Working
    BY DEF PromotionsTyped
  <1>1. CASE Demotes(c)
    <2>1. \/ \E n \in DOMAIN memories : Becomes(c, [pc |-> "copy", line |-> n])
          \/ Becomes(c, [pc |-> "mark", line |-> caller[c].line])
          \/ Becomes(c, Idle)
      BY <1>1 DEF Demotes, Demote, DemoteCopy, DemoteMark, Begin, Go
    <2>2. caller'[c].pc \in {"copy", "mark", "idle"} /\ \A d \in Caller \ {c} : caller'[d] = caller[d]
      <3>1. CASE \E n \in DOMAIN memories : Becomes(c, [pc |-> "copy", line |-> n])
        BY <3>1, Moves
      <3>2. CASE Becomes(c, [pc |-> "mark", line |-> caller[c].line])
        BY <3>2, Moves
      <3>3. CASE Becomes(c, Idle)
        BY <3>3, Moves DEF Idle
      <3> QED
        BY <2>1, <3>1, <3>2, <3>3
    <2>3. caller[c].pc \notin Reviewing
      BY <1>1 DEF Demotes, Demote, DemoteCopy, DemoteMark, Begin, At, Reviewing
    <2> QED
      BY <1>1, <2>1, <2>2, <2>3 DEF Demotes, Demote, DemoteCopy, DemoteMark, files, Reviewing
  <1>2. CASE IndexGlobal(c) \/ Search(c)
    <2>1. \E v, s \in BOOLEAN :
              Becomes(c, [pc |-> "rebuild", docs |-> GlobalRecords, vec |-> v, search |-> s,
                          hidden |-> markers, prior |-> manifest, ok |-> FALSE])
      BY <1>2 DEF IndexGlobal, Search, Begin
    <2>2. caller'[c].pc = "rebuild" /\ \A d \in Caller \ {c} : caller'[d] = caller[d]
      BY <2>1, Moves
    <2> QED
      BY <1>2, <2>1, <2>2 DEF IndexGlobal, Search, Begin, At, files, Reviewing
  <1>3. CASE RebuildText(c) \/ SkipVectors(c) \/ ClearVectors(c) \/ UpsertVectors(c)
    <2>1. caller[c] \in IndexRun /\ caller[c].pc \notin Reviewing
      BY <1>0, <1>3, WorkingFields
         DEF RebuildText, SkipVectors, ClearVectors, UpsertVectors, At, Indexing, Reviewing
    <2>2. PICK s \in Indexing :
              \/ Becomes(c, [caller[c] EXCEPT !.pc = s])
              \/ Becomes(c, [caller[c] EXCEPT !.pc = s, !.ok = TRUE])
      BY <1>3 DEF RebuildText, SkipVectors, ClearVectors, UpsertVectors, Go, Indexing
    <2>3. [caller[c] EXCEPT !.pc = s].pc = s /\ [caller[c] EXCEPT !.pc = s, !.ok = TRUE].pc = s
      BY <2>1 DEF IndexRun
    <2>4. caller'[c].pc = s /\ \A d \in Caller \ {c} : caller'[d] = caller[d]
      BY <2>2, <2>3, Moves
    <2>5. s \notin Reviewing
      BY DEF Indexing, Reviewing
    <2> QED
      BY <1>3, <2>1, <2>4, <2>5
         DEF RebuildText, SkipVectors, ClearVectors, UpsertVectors, files
  <1>4. CASE WriteManifest(c) \/ SearchHits(c) \/ Answer(c)
    <2>1. caller'[c].pc \in {"idle", "hits", "answer"}
      BY <1>4, Moves DEF WriteManifest, SearchHits, Answer, Go, Idle
    <2>2. \A d \in Caller \ {c} : caller'[d] = caller[d]
      BY <1>4, Moves DEF WriteManifest, SearchHits, Answer, Go
    <2> QED
      BY <1>4, <2>1, <2>2 DEF WriteManifest, SearchHits, Answer, At, files, Reviewing
  <1>5. CASE Die(c)
    <2>1. caller'[c] = Idle /\ \A d \in Caller \ {c} : caller'[d] = caller[d]
      BY <1>5, Moves DEF Die
    <2>2. serial' => caller[c].pc \notin Reviewing \union {"upsert", "manifest"}
      BY <1>5, Zenon DEF Die
    <2>3. UNCHANGED <<candidates, memories, approvals>>
      BY <1>5 DEF Die, files
    <2> QED
      BY <2>1, <2>2, <2>3 DEF Idle, Reviewing
  <1> QED
    BY <1>1, <1>2, <1>3, <1>4, <1>5 DEF Indexes

LEMMA LinesStep ==
    ASSUME PromotionsTyped, LinesInv, PromotionsNext
    PROVE  LinesInv'
  <1>1. PICK c \in Caller : Reviews(c) \/ Demotes(c) \/ Indexes(c) \/ Die(c)
    BY StepsOfCallers
  <1>w. caller[c] \in Working
    BY DEF PromotionsTyped
  <1>2. CASE Demotes(c) \/ Indexes(c) \/ Die(c)
    BY <1>2, NoReview DEF LinesInv, IsCandidate
  <1>3. CASE Propose(c)
    <2>1. [kind |-> "candidate", line |-> 0] \in Row
      BY DEF Row
    <2>2. caller'[c] = Idle /\ \A d \in Caller \ {c} : caller'[d] = caller[d]
      BY <1>3, Moves DEF Propose, Begin
    <2> QED
      BY <1>3, <2>1, <2>2, RowAppended, Lines DEF Propose, LinesInv, IsCandidate, Idle, Reviewing
  <1>4. CASE SaveGlobal(c)
    <2>1. caller'[c] = Idle /\ \A d \in Caller \ {c} : caller'[d] = caller[d]
      BY <1>4, Moves DEF SaveGlobal, Begin
    <2>2. \A n \in DOMAIN memories' : memories'[n] \in 0 .. Len(candidates)
      BY <1>4, MemoryAppended, Lines DEF SaveGlobal, LinesInv
    <2>3. UNCHANGED <<candidates, approvals>>
      BY <1>4 DEF SaveGlobal
    <2> QED
      BY <2>1, <2>2, <2>3 DEF LinesInv, IsCandidate, Idle, Reviewing
  <1>5. CASE Approve(c) \/ Reject(c)
    <2>1. PICK i \in Pending :
              \/ Becomes(c, [pc |-> "save", line |-> i])
              \/ Becomes(c, [pc |-> "resolve", line |-> i, verdict |-> "rejected"])
      BY <1>5 DEF Approve, Reject, Begin
    <2>2. caller'[c].line = i /\ \A d \in Caller \ {c} : caller'[d] = caller[d]
      BY <2>1, Moves
    <2>3. i \in DOMAIN candidates /\ IsCandidate(i)
      BY DEF Pending
    <2> QED
      BY <1>5, <2>2, <2>3 DEF Approve, Reject, LinesInv, IsCandidate, files
  <1>6. CASE ApproveSave(c)
    <2>1. caller[c].line \in DOMAIN candidates /\ IsCandidate(caller[c].line) /\ caller[c].line \in Nat
      BY <1>6, <1>w, WorkingFields DEF ApproveSave, At, Reviewing, LinesInv
    <2>2. caller'[c].line = caller[c].line /\ \A d \in Caller \ {c} : caller'[d] = caller[d]
      BY <1>6, Moves DEF ApproveSave, Go
    <2> QED
      BY <1>6, <2>1, <2>2, MemoryAppended, Lines DEF ApproveSave, LinesInv, IsCandidate
  <1>7. CASE Resolve(c)
    <2>1. caller[c].line \in DOMAIN candidates /\ IsCandidate(caller[c].line) /\ caller[c].line \in Nat
          /\ caller[c].verdict \in {"approved", "rejected"}
      BY <1>7, <1>w, WorkingFields DEF Resolve, At, Reviewing, LinesInv
    <2>2. caller'[c].line = caller[c].line /\ \A d \in Caller \ {c} : caller'[d] = caller[d]
      BY <1>7, Moves DEF Resolve, Go
    <2>3. [kind |-> caller[c].verdict, line |-> caller[c].line] \in Row
      BY <2>1 DEF Row
    <2> DEFINE row == [kind |-> caller[c].verdict, line |-> caller[c].line]
    <2>4. /\ candidates' \in Seq(Row) /\ Len(candidates') = Len(candidates) + 1
          /\ DOMAIN candidates' = 1 .. Len(candidates) + 1
          /\ candidates'[Len(candidates) + 1] = row
          /\ \A k \in DOMAIN candidates : candidates'[k] = candidates[k]
      BY <1>7, <2>3, RowAppended DEF Resolve
    <2>5. row.kind # "candidate" /\ row.line \in 0 .. Len(candidates)
      BY <2>1, Lines
    <2> HIDE DEF row
    <2>6. UNCHANGED <<memories, approvals>>
      BY <1>7 DEF Resolve
    <2>7. /\ DOMAIN candidates = 1 .. Len(candidates) /\ Len(candidates) \in Nat
          /\ 0 .. Len(candidates) \subseteq 0 .. Len(candidates')
      BY <2>4, Lines
    <2>8. /\ \A k \in DOMAIN candidates' : IsCandidate(k)' => candidates'[k].line = 0
          /\ \A k \in DOMAIN candidates' : candidates'[k].line \in 0 .. Len(candidates')
      BY <2>4, <2>5, <2>7 DEF LinesInv, IsCandidate
    <2>9. /\ \A n \in DOMAIN memories' : memories'[n] \in 0 .. Len(candidates')
          /\ approvals' \subseteq 1 .. Len(candidates')
      BY <2>4, <2>6, <2>7 DEF LinesInv
    <2>10. \A d \in Caller : caller'[d].pc \in Reviewing =>
              caller'[d].line \in DOMAIN candidates' /\ IsCandidate(caller[d].line)'
      BY <2>1, <2>2, <2>4, <2>7 DEF LinesInv, IsCandidate
    <2> QED
      BY <2>8, <2>9, <2>10 DEF LinesInv
  <1>8. CASE LogReview(c)
    <2>1. caller[c].line \in DOMAIN candidates
      BY <1>8 DEF LogReview, At, Reviewing, LinesInv
    <2>2. caller'[c] = Idle /\ \A d \in Caller \ {c} : caller'[d] = caller[d]
      BY <1>8, Moves DEF LogReview, Go
    <2>3. approvals' \subseteq 1 .. Len(candidates)
      BY <1>8, <2>1, Lines DEF LogReview, LinesInv
    <2>4. UNCHANGED <<candidates, memories>>
      BY <1>8 DEF LogReview
    <2> QED
      BY <2>2, <2>3, <2>4 DEF LinesInv, IsCandidate, Idle, Reviewing
  <1> QED
    BY <1>1, <1>2, <1>3, <1>4, <1>5, <1>6, <1>7, <1>8 DEF Reviews

\* What is said of a candidate by a line appended to the candidates or the memories.
LEMMA ViewsOfRow ==
    ASSUME PromotionsTyped, NEW row \in Row, candidates' = Append(candidates, row)
    PROVE  \A i \in Nat : Verdicts(i)' = IF row.line = i THEN Verdicts(i) \union {Len(candidates) + 1}
                                        ELSE Verdicts(i)
  BY RowAppended, Lines DEF Verdicts

LEMMA ViewsOfMemory ==
    ASSUME PromotionsTyped, NEW m \in Nat, memories' = Append(memories, m)
    PROVE  \A i \in Nat : Promoted(i)' = IF m = i THEN Promoted(i) \union {Len(memories) + 1}
                                        ELSE Promoted(i)
  BY MemoryAppended, Lines DEF Promoted

LEMMA ReviewStep ==
    ASSUME PromotionsTyped, LinesInv, ReviewInv, PromotionsNext, serial'
    PROVE  ReviewInv'
  <1>1. PICK c \in Caller : Reviews(c) \/ Demotes(c) \/ Indexes(c) \/ Die(c)
    BY StepsOfCallers
  <1>w. caller[c] \in Working
    BY DEF PromotionsTyped
  <1>l. /\ DOMAIN candidates = 1 .. Len(candidates) /\ Len(candidates) \in Nat
        /\ DOMAIN candidates \subseteq Nat /\ Len(candidates) + 1 \notin DOMAIN candidates
    BY Lines
  <1>v. \A i \in Nat : Verdicts(i) \subseteq DOMAIN candidates /\ Promoted(i) \subseteq DOMAIN memories
    BY DEF Verdicts, Promoted
  <1>r. \A d \in Caller : caller[d].pc \in Reviewing => caller[d].line \in DOMAIN candidates
    BY DEF LinesInv
  <1>n. \A d \in Caller : caller[d].pc \in Reviewing => caller[d].line \in Nat \ {0}
    BY <1>l, <1>r
  <1>2. CASE Demotes(c) \/ Indexes(c) \/ Die(c)
    <2>1. /\ UNCHANGED <<candidates, memories, approvals>>
          /\ caller'[c].pc \notin Reviewing /\ caller[c].pc \notin Reviewing
          /\ \A d \in Caller \ {c} : caller'[d] = caller[d]
      BY <1>2, NoReview
    <2>2. \A i : Verdicts(i)' = Verdicts(i) /\ Promoted(i)' = Promoted(i)
      BY <2>1 DEF Verdicts, Promoted
    <2>3. OneReview'
      BY <2>1 DEF ReviewInv, OneReview
    <2>4. ASSUME NEW i \in DOMAIN candidates'
          PROVE  CandidateInv(i)'
      BY <2>1, <2>2 DEF ReviewInv, CandidateInv, Reviewing
    <2>5. ASSUME NEW d \in Caller
          PROVE  ReviewerInv(d)'
      <3>1. CASE d = c
        BY <2>1, <3>1 DEF ReviewerInv, Reviewing
      <3>2. CASE d # c
        <4>1. caller'[d] = caller[d] /\ ReviewerInv(d)
          BY <2>1, <3>2 DEF ReviewInv
        <4> QED
          BY <2>1, <2>2, <4>1 DEF ReviewerInv
      <3> QED
        BY <3>1, <3>2
    <2> QED
      BY <2>3, <2>4, <2>5 DEF ReviewInv
  <1>3. CASE Propose(c)
    <2>1. [kind |-> "candidate", line |-> 0] \in Row
      BY DEF Row
    <2>2. /\ caller'[c] = Idle /\ \A d \in Caller \ {c} : caller'[d] = caller[d]
          /\ caller[c].pc = "idle"
      BY <1>3, Moves DEF Propose, Begin, At
    <2>3. UNCHANGED <<memories, approvals>> /\ candidates' = Append(candidates, [kind |-> "candidate", line |-> 0])
      BY <1>3 DEF Propose
    <2>4. \A i \in Nat \ {0} : Verdicts(i)' = Verdicts(i) /\ Promoted(i)' = Promoted(i)
      BY <2>1, <2>3, ViewsOfRow DEF Promoted
    <2>5. \A k \in DOMAIN candidates : candidates'[k] = candidates[k]
      BY <2>1, <2>3, RowAppended
    <2>6. OneReview'
      BY <2>2 DEF ReviewInv, OneReview, Idle, Reviewing
    <2>7. ASSUME NEW i \in DOMAIN candidates'
          PROVE  CandidateInv(i)'
      <3>1. i \in Nat \ {0} /\ (i \in DOMAIN candidates \/ i = Len(candidates) + 1)
        BY <1>l, <2>1, <2>3, RowAppended
      <3>2. CASE i = Len(candidates) + 1
        <4>1. Verdicts(i) = {} /\ Promoted(i) = {} /\ i \notin approvals
          BY <1>l, <3>2 DEF LinesInv, Verdicts, Promoted
        <4> QED
          BY <2>3, <2>4, <3>1, <4>1 DEF CandidateInv
      <3>3. CASE i \in DOMAIN candidates
        <4>1. CandidateInv(i) /\ Verdicts(i)' = Verdicts(i) /\ Promoted(i)' = Promoted(i)
              /\ Verdicts(i) \subseteq DOMAIN candidates
          BY <1>v, <2>4, <3>1, <3>3 DEF ReviewInv
        <4>2. \A d \in Caller : caller[d].pc = "resolve" => caller'[d] = caller[d]
          BY <2>2
        <4> QED
          BY <2>3, <2>5, <4>1, <4>2 DEF CandidateInv
      <3> QED
        BY <3>1, <3>2, <3>3
    <2>8. ASSUME NEW d \in Caller
          PROVE  ReviewerInv(d)'
      <3>1. CASE d = c
        BY <2>2, <3>1 DEF ReviewerInv, Idle
      <3>2. CASE d # c
        <4>1. caller'[d] = caller[d] /\ ReviewerInv(d)
          BY <2>2, <3>2 DEF ReviewInv
        <4>2. PICK i : i = caller[d].line
          OBVIOUS
        <4>3. caller[d].pc \in Reviewing =>
                 /\ Verdicts(i)' = Verdicts(i) /\ Promoted(i)' = Promoted(i)
                 /\ Verdicts(i) \subseteq DOMAIN candidates
          BY <1>n, <1>v, <2>4, <4>2
        <4> QED
          BY <2>5, <4>1, <4>2, <4>3 DEF ReviewerInv, Reviewing
      <3> QED
        BY <3>1, <3>2
    <2> QED
      BY <2>6, <2>7, <2>8 DEF ReviewInv
  <1>4. CASE SaveGlobal(c)
    <2>1. /\ caller'[c] = Idle /\ \A d \in Caller \ {c} : caller'[d] = caller[d]
          /\ caller[c].pc = "idle"
      BY <1>4, Moves DEF SaveGlobal, Begin, At
    <2>2. UNCHANGED <<candidates, approvals>> /\ memories' = Append(memories, 0)
      BY <1>4 DEF SaveGlobal
    <2>3. \A i \in Nat \ {0} : Verdicts(i)' = Verdicts(i) /\ Promoted(i)' = Promoted(i)
      BY <2>2, ViewsOfMemory DEF Verdicts
    <2>4. OneReview'
      BY <2>1 DEF ReviewInv, OneReview, Idle, Reviewing
    <2>5. ASSUME NEW i \in DOMAIN candidates'
          PROVE  CandidateInv(i)'
      <3>1. CandidateInv(i) /\ Verdicts(i)' = Verdicts(i) /\ Promoted(i)' = Promoted(i)
        BY <1>l, <2>2, <2>3 DEF ReviewInv
      <3>2. \A d \in Caller : caller[d].pc = "resolve" => caller'[d] = caller[d]
        BY <2>1
      <3> QED
        BY <2>2, <3>1, <3>2 DEF CandidateInv
    <2>6. ASSUME NEW d \in Caller
          PROVE  ReviewerInv(d)'
      <3>1. CASE d = c
        BY <2>1, <3>1 DEF ReviewerInv, Idle
      <3>2. CASE d # c
        <4>1. caller'[d] = caller[d] /\ ReviewerInv(d)
          BY <2>1, <3>2 DEF ReviewInv
        <4>2. PICK i : i = caller[d].line
          OBVIOUS
        <4>3. caller[d].pc \in Reviewing => Verdicts(i)' = Verdicts(i) /\ Promoted(i)' = Promoted(i)
          BY <1>n, <2>3, <4>2
        <4> QED
          BY <2>2, <4>1, <4>2, <4>3 DEF ReviewerInv, Reviewing
      <3> QED
        BY <3>1, <3>2
    <2> QED
      BY <2>4, <2>5, <2>6 DEF ReviewInv
  <1>5. CASE Approve(c) \/ Reject(c)
    <2>1. PICK i \in Pending :
              \/ Becomes(c, [pc |-> "save", line |-> i])
              \/ Becomes(c, [pc |-> "resolve", line |-> i, verdict |-> "rejected"])
      BY <1>5 DEF Approve, Reject, Begin
    <2>2. /\ \/ caller'[c] = [pc |-> "save", line |-> i]
             \/ caller'[c] = [pc |-> "resolve", line |-> i, verdict |-> "rejected"]
          /\ \A d \in Caller \ {c} : caller'[d] = caller[d]
      BY <2>1, Moves
    <2>3. UNCHANGED <<candidates, memories, approvals>>
      BY <1>5 DEF Approve, Reject, files
    <2>4. \A d \in Caller : caller[d].pc \notin Reviewing
      <3>1. serial' = (serial /\ \A d \in Caller : caller[d].pc \notin Reviewing)
        BY <1>5 DEF Approve, Reject, Begin
      <3> QED
        BY <3>1, Zenon
    <2>5. \A n : Verdicts(n)' = Verdicts(n) /\ Promoted(n)' = Promoted(n)
      BY <2>3 DEF Verdicts, Promoted
    <2>6. i \in DOMAIN candidates /\ Verdicts(i) = {}
      BY <1>l DEF Pending, Verdicts, LinesInv
    <2>7. Promoted(i) = {}
      BY <2>4, <2>6 DEF ReviewInv, CandidateInv, Reviewing
    <2>8. OneReview'
      BY <2>2, <2>4 DEF OneReview
    <2>9. ASSUME NEW n \in DOMAIN candidates'
          PROVE  CandidateInv(n)'
      <3>1. CandidateInv(n)
        BY <2>3 DEF ReviewInv
      <3>2. ~(Verdicts(n) = {} /\ Promoted(n) # {})
        BY <2>4, <3>1 DEF CandidateInv, Reviewing
      <3> QED
        BY <2>3, <2>5, <3>1, <3>2 DEF CandidateInv
    <2>10. ASSUME NEW d \in Caller
           PROVE  ReviewerInv(d)'
      <3>1. CASE d = c
        BY <2>2, <2>5, <2>6, <2>7, <3>1 DEF ReviewerInv
      <3>2. CASE d # c
        BY <2>2, <2>4, <3>2 DEF ReviewerInv, Reviewing
      <3> QED
        BY <3>1, <3>2
    <2> QED
      BY <2>8, <2>9, <2>10 DEF ReviewInv
  <1>6. CASE ApproveSave(c)
    <2>0. PICK i : i = caller[c].line
      OBVIOUS
    <2>1. caller[c].pc = "save" /\ i \in DOMAIN candidates /\ i \in Nat
      BY <1>6, <1>l, <1>r, <2>0 DEF ApproveSave, At, Reviewing
    <2>2. /\ caller'[c] = [pc |-> "resolve", line |-> i, verdict |-> "approved"]
          /\ \A d \in Caller \ {c} : caller'[d] = caller[d]
      BY <1>6, <2>0, Moves DEF ApproveSave, Go
    <2>3. UNCHANGED <<candidates, approvals>> /\ memories' = Append(memories, i)
      BY <1>6, <2>0 DEF ApproveSave
    <2>4. \A d \in Caller \ {c} : caller[d].pc \notin Reviewing
      BY <2>1 DEF ReviewInv, OneReview, Reviewing
    <2>5. Verdicts(i) = {} /\ Promoted(i) = {}
      BY <2>0, <2>1 DEF ReviewInv, ReviewerInv
    <2>6. /\ \A n : Verdicts(n)' = Verdicts(n)
          /\ \A n \in Nat \ {i} : Promoted(n)' = Promoted(n)
          /\ Promoted(i)' = {Len(memories) + 1}
      <3>1. \A n : Verdicts(n)' = Verdicts(n)
        BY <2>3 DEF Verdicts
      <3>2. \A n \in Nat : Promoted(n)' = IF i = n THEN Promoted(n) \union {Len(memories) + 1}
                                         ELSE Promoted(n)
        BY <2>1, <2>3, ViewsOfMemory
      <3> QED
        BY <2>1, <2>5, <3>1, <3>2
    <2>7. OneReview'
      BY <2>2, <2>4 DEF OneReview
    <2>8. ASSUME NEW n \in DOMAIN candidates'
          PROVE  CandidateInv(n)'
      <3>1. n \in Nat /\ CandidateInv(n)
        BY <1>l, <2>3 DEF ReviewInv
      <3>2. CASE n = i
        <4>1. Verdicts(n)' = {} /\ Promoted(n)' = {Len(memories) + 1} /\ n \notin approvals'
          <5>1. n \notin approvals
            BY <2>5, <3>1, <3>2 DEF CandidateInv
          <5>2. Verdicts(n)' = Verdicts(i)
            BY <2>6, <3>2
          <5>3. Promoted(n)' = {Len(memories) + 1}
            BY <2>6, <3>2
          <5> QED
            BY <2>3, <2>5, <5>1, <5>2, <5>3
        <4>2. caller'[c].pc = "resolve" /\ caller'[c].line = n /\ caller'[c].verdict = "approved"
          BY <2>2, <3>2
        <4> QED
          BY <4>1, <4>2 DEF CandidateInv
      <3>3. CASE n # i
        <4>1. ~(Verdicts(n) = {} /\ Promoted(n) # {})
          BY <2>1, <2>4, <3>1 DEF CandidateInv, Reviewing
        <4>2. Verdicts(n)' = Verdicts(n) /\ Promoted(n)' = Promoted(n)
          BY <2>6, <3>1, <3>3
        <4> QED
          BY <2>3, <3>1, <4>1, <4>2 DEF CandidateInv
      <3> QED
        BY <3>2, <3>3
    <2>9. ASSUME NEW d \in Caller
          PROVE  ReviewerInv(d)'
      <3>1. CASE d = c
        BY <2>2, <2>5, <2>6, <3>1 DEF ReviewerInv
      <3>2. CASE d # c
        BY <2>2, <2>4, <3>2 DEF ReviewerInv, Reviewing
      <3> QED
        BY <3>1, <3>2
    <2> QED
      BY <2>7, <2>8, <2>9 DEF ReviewInv
  <1>7. CASE Resolve(c)
    <2>0. PICK i, v : i = caller[c].line /\ v = caller[c].verdict
      OBVIOUS
    <2> DEFINE row == [kind |-> v, line |-> i]
    <2>1. /\ caller[c].pc = "resolve" /\ i \in DOMAIN candidates /\ i \in Nat
          /\ v \in {"approved", "rejected"}
      BY <1>7, <1>l, <1>r, <1>w, <2>0, WorkingFields DEF Resolve, At, Reviewing
    <2>2. /\ caller'[c] = [pc |-> "log", line |-> i, verdict |-> v]
          /\ \A d \in Caller \ {c} : caller'[d] = caller[d]
      BY <1>7, <2>0, Moves DEF Resolve, Go
    <2>3. UNCHANGED <<memories, approvals>> /\ candidates' = Append(candidates, row)
      BY <1>7, <2>0 DEF Resolve
    <2>4. \A d \in Caller \ {c} : caller[d].pc \notin Reviewing
      BY <2>1 DEF ReviewInv, OneReview, Reviewing
    <2>5. /\ Verdicts(i) = {}
          /\ v = "approved" => Promoted(i) # {}
          /\ v = "rejected" => Promoted(i) = {}
      BY <2>0, <2>1 DEF ReviewInv, ReviewerInv
    <2>6. row \in Row
      BY <2>1 DEF Row
    <2>7. /\ DOMAIN candidates' = 1 .. Len(candidates) + 1
          /\ candidates'[Len(candidates) + 1] = row
          /\ \A k \in DOMAIN candidates : candidates'[k] = candidates[k]
          /\ \A n \in Nat : Verdicts(n)' = IF row.line = n THEN Verdicts(n) \union {Len(candidates) + 1}
                                          ELSE Verdicts(n)
      BY <2>3, <2>6, RowAppended, ViewsOfRow
    <2>8. row.kind = v /\ row.line = i
      OBVIOUS
    <2> HIDE DEF row
    <2>9. /\ \A n : Promoted(n)' = Promoted(n)
          /\ \A n \in Nat \ {i} : Verdicts(n)' = Verdicts(n)
          /\ Verdicts(i)' = {Len(candidates) + 1}
      <3>1. \A n : Promoted(n)' = Promoted(n)
        BY <2>3 DEF Promoted
      <3> QED
        BY <2>1, <2>5, <2>7, <2>8, <3>1
    <2>10. OneReview'
      BY <2>2, <2>4 DEF OneReview
    <2>11. ASSUME NEW n \in DOMAIN candidates'
           PROVE  CandidateInv(n)'
      <3>0. n \in Nat /\ (n \in DOMAIN candidates \/ n = Len(candidates) + 1)
        BY <1>l, <2>7
      <3>1. CASE n = Len(candidates) + 1
        <4>1. Verdicts(n) = {} /\ Promoted(n) = {} /\ n \notin approvals /\ n # i
          BY <1>l, <2>1, <3>1 DEF LinesInv, Verdicts, Promoted
        <4> QED
          BY <2>3, <2>9, <3>0, <4>1 DEF CandidateInv
      <3>2. CASE n = i
        <4>1. CandidateInv(n) /\ n \notin approvals'
          BY <2>1, <2>3, <2>5, <3>2 DEF ReviewInv, CandidateInv
        <4>2. candidates'[Len(candidates) + 1].kind = v
          BY <2>7, <2>8
        <4> QED
          BY <2>1, <2>5, <2>9, <3>2, <4>1, <4>2 DEF CandidateInv
      <3>3. CASE n # i /\ n \in DOMAIN candidates
        <4>1. CandidateInv(n)
          BY <3>3 DEF ReviewInv
        <4>2. ~(Verdicts(n) = {} /\ Promoted(n) # {})
          <5>1. \A d \in Caller : ~(caller[d].pc = "resolve" /\ caller[d].line = n)
            BY <2>0, <2>4, <3>3 DEF Reviewing
          <5> QED
            BY <4>1, <5>1 DEF CandidateInv
        <4>3. Verdicts(n)' = Verdicts(n) /\ Promoted(n)' = Promoted(n) /\ Verdicts(n) \subseteq DOMAIN candidates
          BY <1>v, <2>9, <3>0, <3>3
        <4> QED
          BY <2>3, <2>7, <4>1, <4>2, <4>3 DEF CandidateInv
      <3> QED
        BY <3>0, <3>1, <3>2, <3>3
    <2>12. ASSUME NEW d \in Caller
           PROVE  ReviewerInv(d)'
      <3>1. CASE d = c
        <4>1. candidates'[Len(candidates) + 1].kind = v
          BY <2>7, <2>8
        <4> QED
          BY <2>2, <2>9, <3>1, <4>1 DEF ReviewerInv
      <3>2. CASE d # c
        BY <2>2, <2>4, <3>2 DEF ReviewerInv, Reviewing
      <3> QED
        BY <3>1, <3>2
    <2> QED
      BY <2>10, <2>11, <2>12 DEF ReviewInv
  <1>8. CASE LogReview(c)
    <2>0. PICK i : i = caller[c].line
      OBVIOUS
    <2>1. caller[c].pc = "log" /\ i \in DOMAIN candidates
      BY <1>8, <1>r, <2>0 DEF LogReview, At, Reviewing
    <2>2. caller'[c] = Idle /\ \A d \in Caller \ {c} : caller'[d] = caller[d]
      BY <1>8, Moves DEF LogReview, Go
    <2>3. UNCHANGED <<candidates, memories>>
      BY <1>8 DEF LogReview
    <2>4. approvals' = approvals \/ (approvals' = approvals \union {i} /\ caller[c].verdict = "approved")
      BY <1>8, <2>0 DEF LogReview
    <2>5. \A d \in Caller \ {c} : caller[d].pc \notin Reviewing
      BY <2>1 DEF ReviewInv, OneReview, Reviewing
    <2>6. \E k \in Verdicts(i) : candidates[k].kind = caller[c].verdict
      BY <2>0, <2>1 DEF ReviewInv, ReviewerInv
    <2>7. \A n : Verdicts(n)' = Verdicts(n) /\ Promoted(n)' = Promoted(n)
      BY <2>3 DEF Verdicts, Promoted
    <2>8. OneReview'
      BY <2>2, <2>5 DEF OneReview, Idle, Reviewing
    <2>9. ASSUME NEW n \in DOMAIN candidates'
          PROVE  CandidateInv(n)'
      <3>1. CandidateInv(n)
        BY <2>3 DEF ReviewInv
      <3>2. ~(Verdicts(n) = {} /\ Promoted(n) # {})
        BY <2>1, <2>5, <3>1 DEF CandidateInv, Reviewing
      <3>3. n \in approvals' => \E k \in Verdicts(n) : candidates[k].kind = "approved"
        BY <2>4, <2>6, <3>1 DEF CandidateInv
      <3> QED
        BY <2>3, <2>7, <3>1, <3>2, <3>3 DEF CandidateInv
    <2>10. ASSUME NEW d \in Caller
           PROVE  ReviewerInv(d)'
      <3>1. CASE d = c
        BY <2>2, <3>1 DEF ReviewerInv, Idle
      <3>2. CASE d # c
        BY <2>2, <2>5, <3>2 DEF ReviewerInv, Reviewing
      <3> QED
        BY <3>1, <3>2
    <2> QED
      BY <2>8, <2>9, <2>10 DEF ReviewInv
  <1> QED
    BY <1>1, <1>2, <1>3, <1>4, <1>5, <1>6, <1>7, <1>8 DEF Reviews
(* Indexing and recall.                                                    *)

\* The other steps leave what is derived alone, and end no indexing in the middle.
LEMMA NoIndexing ==
    ASSUME PromotionsTyped, NEW c \in Caller, Reviews(c) \/ Demotes(c) \/ Die(c)
    PROVE  /\ UNCHANGED <<index, vectors, manifest>> /\ markers \subseteq markers'
           /\ caller'[c].pc \notin Indexing \union {"hits", "answer"}
           /\ \A d \in Caller \ {c} : caller'[d] = caller[d]
           /\ serial' => caller[c].pc # "manifest"
  <1>1. UNCHANGED <<index, vectors, manifest>> /\ markers \subseteq markers'
    BY DEF Reviews, Demotes, Propose, SaveGlobal, Approve, Reject, ApproveSave, Resolve, LogReview,
           Demote, DemoteCopy, DemoteMark, Die, derived, files
  <1>2. \A d \in Caller \ {c} : caller'[d] = caller[d]
    BY Moves
       DEF Reviews, Demotes, Propose, SaveGlobal, Approve, Reject, ApproveSave, Resolve, LogReview,
           Demote, DemoteCopy, DemoteMark, Die, Begin, Go
  <1>3. caller'[c].pc \in Reviewing \union {"copy", "mark", "idle"}
    <2>1. CASE Propose(c) \/ SaveGlobal(c) \/ LogReview(c) \/ DemoteMark(c) \/ Die(c)
      BY <2>1, Moves DEF Propose, SaveGlobal, LogReview, DemoteMark, Die, Begin, Go, Idle
    <2>2. CASE Approve(c) \/ Reject(c)
      <3>1. PICK i \in Pending :
                \/ Becomes(c, [pc |-> "save", line |-> i])
                \/ Becomes(c, [pc |-> "resolve", line |-> i, verdict |-> "rejected"])
        BY <2>2 DEF Approve, Reject, Begin
      <3>2. \/ caller'[c] = [pc |-> "save", line |-> i]
            \/ caller'[c] = [pc |-> "resolve", line |-> i, verdict |-> "rejected"]
        BY <3>1, Moves
      <3> QED
        BY <3>2 DEF Reviewing
    <2>3. CASE ApproveSave(c) \/ Resolve(c)
      BY <2>3, Moves DEF ApproveSave, Resolve, Go, Reviewing
    <2>4. CASE Demote(c) \/ DemoteCopy(c)
      <3>1. PICK n : \/ Becomes(c, [pc |-> "copy", line |-> n])
                     \/ Becomes(c, [pc |-> "mark", line |-> n])
        BY <2>4 DEF Demote, DemoteCopy, Begin, Go
      <3>2. \/ caller'[c] = [pc |-> "copy", line |-> n]
            \/ caller'[c] = [pc |-> "mark", line |-> n]
        BY <3>1, Moves
      <3> QED
        BY <3>2
    <2> QED
      BY <2>1, <2>2, <2>3, <2>4 DEF Reviews, Demotes
  <1>4. serial' => caller[c].pc # "manifest"
    <2>1. CASE Die(c)
      <3>1. serial' => caller[c].pc \notin Reviewing \union {"upsert", "manifest"}
        BY <2>1, Zenon DEF Die
      <3> QED
        BY <3>1
    <2>2. CASE Reviews(c) \/ Demotes(c)
      BY <2>2 DEF Reviews, Demotes, Propose, SaveGlobal, Approve, Reject, ApproveSave, Resolve,
                  LogReview, Demote, DemoteCopy, DemoteMark, Begin, At
    <2> QED
      BY <2>1, <2>2
  <1> QED
    BY <1>1, <1>2, <1>3, <1>4 DEF Reviewing, Indexing

\* A step of an indexing: no other indexing is under way.
LEMMA IndexStep ==
    ASSUME PromotionsTyped, IndexInv, PromotionsNext, serial'
    PROVE  IndexInv'
  <1>1. PICK c \in Caller : Reviews(c) \/ Demotes(c) \/ Indexes(c) \/ Die(c)
    BY StepsOfCallers
  <1>w. caller[c] \in Working
    BY DEF PromotionsTyped
  <1>2. CASE Reviews(c) \/ Demotes(c) \/ Die(c)
    <2>1. /\ UNCHANGED <<index, vectors, manifest>> /\ markers \subseteq markers'
          /\ caller'[c].pc \notin Indexing \union {"hits", "answer"}
          /\ \A d \in Caller \ {c} : caller'[d] = caller[d]
          /\ caller[c].pc # "manifest"
      BY <1>2, NoIndexing
    <2>2. OneIndexing'
      BY <2>1 DEF IndexInv, OneIndexing
    <2>3. ASSUME NEW d \in Caller
          PROVE  IndexingInv(d)' /\ RecallInv(d)'
      <3>1. CASE d = c
        BY <2>1, <3>1 DEF IndexingInv, RecallInv
      <3>2. CASE d # c
        <4>1. caller'[d] = caller[d] /\ IndexingInv(d) /\ RecallInv(d)
          BY <2>1, <3>2 DEF IndexInv
        <4> QED
          BY <2>1, <4>1 DEF IndexingInv, RecallInv
      <3> QED
        BY <3>1, <3>2
    <2>4. VectorsInv'
      BY <2>1 DEF IndexInv, VectorsInv
    <2> QED
      BY <2>2, <2>3, <2>4 DEF IndexInv
  <1>3. CASE IndexGlobal(c) \/ Search(c)
    <2>1. PICK v, s \in BOOLEAN :
              Becomes(c, [pc |-> "rebuild", docs |-> GlobalRecords, vec |-> v, search |-> s,
                          hidden |-> markers, prior |-> manifest, ok |-> FALSE])
      BY <1>3 DEF IndexGlobal, Search, Begin
    <2>2. /\ caller'[c] = [pc |-> "rebuild", docs |-> GlobalRecords, vec |-> v, search |-> s,
                           hidden |-> markers, prior |-> manifest, ok |-> FALSE]
          /\ \A d \in Caller \ {c} : caller'[d] = caller[d]
      BY <2>1, Moves
    <2>3. UNCHANGED <<markers, index, vectors, manifest>>
      BY <1>3 DEF IndexGlobal, Search, files, derived
    <2>4. \A d \in Caller : caller[d].pc \notin Indexing
      <3>1. serial' = (serial /\ \A d \in Caller : caller[d].pc \notin Indexing)
        BY <1>3 DEF IndexGlobal, Search, Begin
      <3> QED
        BY <3>1, Zenon
    <2>5. OneIndexing'
      BY <2>2, <2>4 DEF OneIndexing
    <2>6. ASSUME NEW d \in Caller
          PROVE  IndexingInv(d)' /\ RecallInv(d)'
      <3>1. CASE d = c
        <4>1. caller'[d].docs \intersect caller'[d].hidden = {}
          BY <2>2, <3>1 DEF GlobalRecords
        <4> QED
          BY <2>2, <2>3, <3>1, <4>1 DEF IndexingInv, RecallInv
      <3>2. CASE d # c
        <4>1. caller'[d] = caller[d] /\ IndexingInv(d) /\ RecallInv(d)
          BY <2>2, <3>2 DEF IndexInv
        <4> QED
          BY <2>2, <2>3, <2>4, <4>1 DEF IndexingInv, RecallInv
      <3> QED
        BY <3>1, <3>2
    <2>7. VectorsInv'
      BY <2>3, <2>4 DEF IndexInv, VectorsInv, Indexing
    <2> QED
      BY <2>5, <2>6, <2>7 DEF IndexInv
  <1>4. ASSUME RebuildText(c) \/ SkipVectors(c) \/ ClearVectors(c) \/ UpsertVectors(c)
        PROVE  IndexInv'
    <2>1. caller[c].pc \in Indexing /\ caller[c].pc # "manifest"
      BY <1>4 DEF RebuildText, SkipVectors, ClearVectors, UpsertVectors, At, Indexing
    <2>2. caller[c] \in IndexRun /\ caller[c].vec \in BOOLEAN /\ caller[c].ok \in BOOLEAN
      BY <1>w, <2>1, WorkingFields, RunFields
    <2>3. \A d \in Caller \ {c} : caller[d].pc \notin Indexing /\ caller'[d] = caller[d]
      <3>1. \A d \in Caller \ {c} : caller[d].pc \notin Indexing
        BY <2>1 DEF IndexInv, OneIndexing
      <3>2. \A d \in Caller \ {c} : caller'[d] = caller[d]
        BY <1>4, Moves DEF RebuildText, SkipVectors, ClearVectors, UpsertVectors, Go
      <3> QED
        BY <3>1, <3>2
    <2>4. IndexingInv(c) /\ ~caller[c].ok
      BY <2>1, <2>2 DEF IndexInv, IndexingInv
    <2>5. UNCHANGED <<markers, manifest>>
      BY <1>4 DEF RebuildText, SkipVectors, ClearVectors, UpsertVectors, files, derived
    <2>7. \E s, o : /\ caller'[c].pc = s /\ caller'[c].ok = o
                    /\ s \in {"clear", "upsert", "manifest"}
                    /\ caller'[c].docs = caller[c].docs /\ caller'[c].hidden = caller[c].hidden
                    /\ caller'[c].prior = caller[c].prior /\ caller'[c].vec = caller[c].vec
                    /\ index' = caller[c].docs
                    /\ s = "upsert" => vectors' = {}
                    /\ ~caller[c].vec => s = "manifest"
                    /\ o => s = "manifest" /\ vectors' = caller[c].docs
                    /\ vectors' = vectors \/ vectors' = {} \/ o
      <3>1. CASE RebuildText(c)
        <4>1. /\ caller'[c] = [caller[c] EXCEPT !.pc = IF caller[c].vec THEN "clear" ELSE "manifest"]
              /\ index' = caller[c].docs /\ vectors' = vectors
          BY <3>1, Moves DEF RebuildText, Go
        <4> QED
          BY <2>2, <2>4, <4>1 DEF IndexRun
      <3>2. CASE SkipVectors(c)
        <4>1. /\ caller'[c] = [caller[c] EXCEPT !.pc = "manifest"]
              /\ index' = index /\ vectors' = vectors /\ caller[c].pc = "clear"
          BY <3>2, Moves DEF SkipVectors, Go, At, derived
        <4>2. index = caller[c].docs
          BY <2>1, <2>4, <4>1 DEF IndexingInv
        <4> QED
          BY <2>2, <2>4, <4>1, <4>2 DEF IndexRun
      <3>3. CASE ClearVectors(c)
        <4>1. /\ caller'[c] = [caller[c] EXCEPT !.pc = "upsert"]
              /\ index' = index /\ vectors' = {} /\ caller[c].pc = "clear"
          BY <3>3, Moves DEF ClearVectors, Go, At
        <4>2. index = caller[c].docs /\ caller[c].vec
          BY <2>1, <2>2, <2>4, <4>1 DEF IndexingInv
        <4> QED
          BY <2>2, <2>4, <4>1, <4>2 DEF IndexRun
      <3>4. CASE UpsertVectors(c)
        <4>1. /\ \/ /\ caller'[c] = [caller[c] EXCEPT !.pc = "manifest", !.ok = TRUE]
                    /\ vectors' = vectors \union caller[c].docs
                 \/ /\ caller'[c] = [caller[c] EXCEPT !.pc = "manifest"]
                    /\ vectors' = vectors
              /\ index' = index /\ caller[c].pc = "upsert"
          BY <3>4, Moves DEF UpsertVectors, Go, At
        <4>2. index = caller[c].docs /\ vectors = {}
          BY <2>1, <2>4, <4>1 DEF IndexingInv
        <4>3. CASE caller'[c] = [caller[c] EXCEPT !.pc = "manifest", !.ok = TRUE]
                   /\ vectors' = vectors \union caller[c].docs
          BY <2>2, <4>1, <4>2, <4>3 DEF IndexRun
        <4>4. CASE caller'[c] = [caller[c] EXCEPT !.pc = "manifest"] /\ vectors' = vectors
          BY <2>2, <2>4, <4>1, <4>2, <4>4 DEF IndexRun
        <4> QED
          BY <4>1, <4>3, <4>4
      <3> QED
        BY <1>4, <3>1, <3>2, <3>3, <3>4
    <2>8. OneIndexing'
      BY <2>3 DEF OneIndexing
    <2>9. ASSUME NEW d \in Caller
          PROVE  IndexingInv(d)' /\ RecallInv(d)'
      <3>1. CASE d = c
        BY <2>1, <2>4, <2>5, <2>7, <3>1 DEF IndexingInv, RecallInv
      <3>2. CASE d # c
        <4>1. caller'[d] = caller[d] /\ caller[d].pc \notin Indexing /\ RecallInv(d)
          BY <2>3, <3>2 DEF IndexInv
        <4> QED
          BY <2>1, <2>3, <2>5, <2>7, <4>1 DEF IndexingInv, RecallInv
      <3> QED
        BY <3>1, <3>2
    <2>10. VectorsInv'
      <3>1. manifest.indexed => vectors \subseteq manifest.vector
        BY <2>1, <2>3 DEF IndexInv, VectorsInv, Indexing
      <3> QED
        BY <2>5, <2>7, <3>1 DEF VectorsInv
    <2> QED
      BY <2>8, <2>9, <2>10 DEF IndexInv
  <1>5. CASE WriteManifest(c)
    <2> DEFINE q == caller[c]
    <2>1. q.pc = "manifest" /\ q.pc \in Indexing
      BY <1>5 DEF WriteManifest, At, Indexing
    <2>2. q \in IndexRun /\ q.vec \in BOOLEAN /\ q.ok \in BOOLEAN
      BY <1>w, <2>1, WorkingFields, RunFields
    <2>3. \/ caller'[c] = Idle
          \/ caller'[c] = [pc |-> "hits", hidden |-> q.hidden, hits |-> index]
      BY <1>5, Moves DEF WriteManifest, Go
    <2>4. \A d \in Caller \ {c} : caller[d].pc \notin Indexing /\ caller'[d] = caller[d]
      <3>1. \A d \in Caller \ {c} : caller[d].pc \notin Indexing
        BY <2>1 DEF IndexInv, OneIndexing
      <3>2. \A d \in Caller \ {c} : caller'[d] = caller[d]
        BY <1>5, Moves DEF WriteManifest, Go
      <3> QED
        BY <3>1, <3>2
    <2>5. /\ q.docs \intersect q.hidden = {} /\ q.hidden \subseteq markers /\ q.prior = manifest
          /\ index = q.docs /\ (q.ok => vectors = q.docs)
      BY <2>1 DEF IndexInv, IndexingInv
    <2>6. UNCHANGED <<markers, index, vectors>>
      BY <1>5 DEF WriteManifest, files
    <2>7. /\ manifest'.set = q.docs
          /\ manifest'.vector = IF q.ok THEN q.docs ELSE q.prior.vector
          /\ manifest'.indexed = (q.ok \/ (~q.vec /\ q.prior.indexed /\ q.prior.vector = q.docs))
      BY <1>5 DEF WriteManifest
    <2>8. OneIndexing'
      BY <2>3, <2>4 DEF OneIndexing, Idle, Indexing
    <2>9. ASSUME NEW d \in Caller
          PROVE  IndexingInv(d)' /\ RecallInv(d)'
      <3>1. \A e \in Caller : caller'[e].pc \notin Indexing
        BY <2>3, <2>4 DEF Idle, Indexing
      <3>2. CASE d = c
        BY <2>3, <2>5, <2>6, <2>7, <3>1, <3>2 DEF IndexingInv, RecallInv, Idle
      <3>3. CASE d # c
        <4>1. caller'[d] = caller[d] /\ RecallInv(d)
          BY <2>4, <3>3 DEF IndexInv
        <4>2. caller[d].pc = "hits" => caller[d].hidden \subseteq q.hidden
          BY <2>1, <4>1 DEF RecallInv
        <4> QED
          BY <2>5, <2>6, <2>7, <3>1, <4>1, <4>2 DEF IndexingInv, RecallInv
      <3> QED
        BY <3>2, <3>3
    <2>10. VectorsInv'
      <3>1. SUFFICES ASSUME manifest'.indexed
                     PROVE  vectors' \subseteq manifest'.vector
        BY DEF VectorsInv
      <3>2. CASE q.ok
        BY <2>5, <2>6, <2>7, <3>2
      <3>3. CASE ~q.ok
        <4>1. manifest.indexed /\ manifest'.vector = manifest.vector
          BY <2>5, <2>7, <3>1, <3>3
        <4>2. vectors \subseteq manifest.vector
          BY <2>4, <3>3, <4>1 DEF IndexInv, VectorsInv, Indexing
        <4> QED
          BY <2>6, <4>1, <4>2
      <3> QED
        BY <3>2, <3>3
    <2> QED
      BY <2>8, <2>9, <2>10 DEF IndexInv
  <1>6. CASE SearchHits(c)
    <2> DEFINE q == caller[c]
               hits == q.hits \union GlobalRecords
                           \union (IF VectorIsCurrent THEN vectors ELSE {})
    <2>1. q.pc = "hits" /\ RecallInv(c)
      BY <1>6 DEF SearchHits, At, IndexInv
    <2>2. /\ caller'[c] = [pc |-> "answer", hidden |-> q.hidden, hits |-> hits]
          /\ \A d \in Caller \ {c} : caller'[d] = caller[d]
      BY <1>6, Moves DEF SearchHits, Go
    <2>3. UNCHANGED <<markers, index, vectors, manifest>>
      BY <1>6 DEF SearchHits, files, derived
    <2>4. GlobalRecords \intersect q.hidden = {}
      BY <2>1 DEF RecallInv, GlobalRecords
    <2>5. VectorIsCurrent => vectors \intersect q.hidden = {}
      <3>1. SUFFICES ASSUME VectorIsCurrent
                     PROVE  vectors \intersect q.hidden = {}
        OBVIOUS
      <3>2. CASE vectors \subseteq manifest.vector
        BY <2>1, <3>1, <3>2 DEF VectorIsCurrent, RecallInv
      <3>3. CASE \E d \in Caller : caller[d].pc = "manifest" /\ caller[d].ok
        <4>1. PICK d \in Caller : caller[d].pc = "manifest" /\ caller[d].ok
          BY <3>3
        <4>2. /\ vectors = caller[d].docs /\ caller[d].docs \intersect caller[d].hidden = {}
              /\ q.hidden \subseteq caller[d].hidden
          BY <2>1, <4>1 DEF IndexInv, IndexingInv, RecallInv, Indexing
        <4> QED
          BY <4>2
      <3> QED
        BY <3>1, <3>2, <3>3 DEF IndexInv, VectorsInv, VectorIsCurrent
    <2>6. hits \intersect q.hidden = {}
      BY <2>1, <2>4, <2>5 DEF RecallInv
    <2> HIDE DEF hits
    <2>7. OneIndexing'
      BY <2>2 DEF IndexInv, OneIndexing, Indexing
    <2>8. ASSUME NEW d \in Caller
          PROVE  IndexingInv(d)' /\ RecallInv(d)'
      <3>1. CASE d = c
        BY <2>2, <2>6, <3>1 DEF IndexingInv, RecallInv, Indexing
      <3>2. CASE d # c
        <4>1. caller'[d] = caller[d] /\ IndexingInv(d) /\ RecallInv(d)
          BY <2>2, <3>2 DEF IndexInv
        <4> QED
          BY <2>2, <2>3, <4>1 DEF IndexingInv, RecallInv, Indexing
      <3> QED
        BY <3>1, <3>2
    <2>9. VectorsInv'
      BY <2>1, <2>2, <2>3 DEF IndexInv, VectorsInv
    <2> QED
      BY <2>7, <2>8, <2>9 DEF IndexInv
  <1>7. CASE Answer(c)
    <2>1. /\ caller[c].pc = "answer" /\ caller'[c] = Idle
          /\ \A d \in Caller \ {c} : caller'[d] = caller[d]
      BY <1>7, Moves DEF Answer, Go, At
    <2>2. UNCHANGED <<markers, index, vectors, manifest>>
      BY <1>7 DEF Answer, files, derived
    <2>3. OneIndexing'
      BY <2>1 DEF IndexInv, OneIndexing, Indexing, Idle
    <2>4. ASSUME NEW d \in Caller
          PROVE  IndexingInv(d)' /\ RecallInv(d)'
      <3>1. CASE d = c
        BY <2>1, <3>1 DEF IndexingInv, RecallInv, Indexing, Idle
      <3>2. CASE d # c
        <4>1. caller'[d] = caller[d] /\ IndexingInv(d) /\ RecallInv(d)
          BY <2>1, <3>2 DEF IndexInv
        <4> QED
          BY <2>1, <2>2, <4>1 DEF IndexingInv, RecallInv, Indexing, Idle
      <3> QED
        BY <3>1, <3>2
    <2>5. VectorsInv'
      BY <2>1, <2>2 DEF IndexInv, VectorsInv
    <2> QED
      BY <2>3, <2>4, <2>5 DEF IndexInv
  <1> QED
    BY <1>1, <1>2, <1>3, <1>4, <1>5, <1>6, <1>7 DEF Indexes
-----------------------------------------------------------------------------

LEMMA PromotionsInvAtFirst ==
    PromotionsInit => PromotionsInv
  <1>1. SUFFICES ASSUME PromotionsInit PROVE PromotionsInv
    OBVIOUS
  <1>2. /\ candidates = <<>> /\ memories = <<>> /\ \A c \in Caller : caller[c] = Idle
        /\ DOMAIN candidates = {} /\ DOMAIN memories = {} /\ approvals = {}
        /\ vectors = {} /\ manifest = [set |-> {}, vector |-> {}, indexed |-> FALSE]
    BY <1>1 DEF PromotionsInit
  <1>3. PromotionsTyped
    BY <1>1, StatesWork DEF PromotionsInit, PromotionsTyped, Manifest
  <1>4. LinesInv /\ ReviewInv
    BY <1>2 DEF LinesInv, ReviewInv, OneReview, ReviewerInv, Idle, Reviewing
  <1>5. IndexInv
    BY <1>2 DEF IndexInv, OneIndexing, IndexingInv, RecallInv, VectorsInv, Idle, Indexing
  <1> QED
    BY <1>3, <1>4, <1>5 DEF PromotionsInv

\* What was made of a candidate and where the reviews and indexings under way are: the
\* inductive invariant of global memory.
THEOREM PromotionsInvCorrect ==
    PromotionsSpec => []PromotionsInv
  <1>1. ASSUME PromotionsInv, [PromotionsNext]_promotionvars PROVE PromotionsInv'
    <2>1. CASE PromotionsNext
      <3>1. PromotionsTyped /\ LinesInv /\ (serial => ReviewInv /\ IndexInv)
        BY <1>1 DEF PromotionsInv
      <3>2. PromotionsTyped' /\ LinesInv' /\ (serial' => serial)
        BY <2>1, <3>1, PromotionsTypeStep, LinesStep, StepsOfCallers
      <3>3. serial' => ReviewInv' /\ IndexInv'
        BY <2>1, <3>1, <3>2, ReviewStep, IndexStep
      <3> QED
        BY <3>2, <3>3 DEF PromotionsInv
    <2>2. CASE UNCHANGED promotionvars
      <3>1. UNCHANGED <<candidates, memories, markers, approvals, index, vectors, manifest, caller, serial>>
        BY <2>2 DEF promotionvars, files, derived
      <3> QED
        BY <1>1, <3>1 DEF PromotionsInv, PromotionsTyped, LinesInv, IsCandidate, ReviewInv, OneReview,
                          CandidateInv, ReviewerInv, Verdicts, Promoted, IndexInv, OneIndexing,
                          IndexingInv, RecallInv, VectorsInv
    <2> QED
      BY <1>1, <2>1, <2>2
  <1> QED
    BY <1>1, PromotionsInvAtFirst, PTL DEF PromotionsSpec

\* While reviews do not overlap and none is cut off, a candidate becomes at most one
\* memory, none when it was rejected, and its approval is on the log.
THEOREM ReviewedOnceCorrect ==
    PromotionsSpec => []ReviewedOnce
  <1>1. PromotionsInv => ReviewedOnce
    <2>1. SUFFICES ASSUME PromotionsInv, serial, NEW i \in DOMAIN candidates, IsCandidate(i)
                   PROVE  /\ Cardinality(Promoted(i)) <= 1 /\ Cardinality(Verdicts(i)) <= 1
                          /\ (\E k \in Verdicts(i) : candidates[k].kind = "rejected") => Promoted(i) = {}
                          /\ i \in approvals => Promoted(i) # {}
      BY DEF ReviewedOnce, Promoted, Verdicts
    <2>2. CandidateInv(i)
      BY <2>1 DEF PromotionsInv, ReviewInv
    <2>3. ASSUME NEW S, \A m, n \in S : m = n
          PROVE  Cardinality(S) <= 1
      <3>1. CASE S = {}
        BY <3>1, FS_EmptySet
      <3>2. CASE S # {}
        <4>1. PICK m : m \in S
          BY <3>2
        <4>2. S = {m}
          BY <2>3, <4>1
        <4> QED
          BY <4>2, FS_Singleton
      <3> QED
        BY <3>1, <3>2
    <2>4. Cardinality(Promoted(i)) <= 1 /\ Cardinality(Verdicts(i)) <= 1
      BY <2>2, <2>3 DEF CandidateInv
    <2> QED
      BY <2>2, <2>4 DEF CandidateInv
  <1> QED
    BY <1>1, PromotionsInvCorrect, PTL

\* While indexings do not overlap and none is cut off between its vectors and the
\* manifest, a search recalls no line that had been demoted when it began.
THEOREM DemotedStaysHiddenCorrect ==
    PromotionsSpec => []DemotedStaysHidden
  <1>1. PromotionsInv => DemotedStaysHidden
    BY DEF PromotionsInv, IndexInv, RecallInv, DemotedStaysHidden, At
  <1> QED
    BY <1>1, PromotionsInvCorrect, PTL
=============================================================================
