------------------------- MODULE ContinuationsProofs -------------------------
(***************************************************************************)
(* Proofs about Continuations, for every number of pollers, resumers,      *)
(* generations and attempts.                                               *)
(***************************************************************************)
EXTENDS Continuations, TLAPS

\* What the operations do to the record and to a poll keeps them records.
Status == {"none"} \union Live \union Closed

LEMMA StatusValues == /\ Live \subseteq Status /\ Closed \subseteq Status
                      /\ "none" \in Status /\ "waiting" \in Status /\ "ready" \in Status
                      /\ "claimed" \in Status /\ "done" \in Status
                      /\ "cancelled" \in Status /\ "blocked" \in Status
BY DEF Status, Live, Closed

LEMMA RecordFields ==
    ASSUME NEW rec \in Record
    PROVE  /\ rec.status \in Status
           /\ rec.attempts \in 0 .. MaxAttempts
           /\ rec.generation \in Generation
           /\ rec.due \in BOOLEAN /\ rec.late \in BOOLEAN /\ rec.leased \in BOOLEAN
BY DEF Record, Status

LEMMA DateUpdates ==
    ASSUME NEW rec \in Record, NEW b \in BOOLEAN
    PROVE  /\ [rec EXCEPT !.due = b] \in Record
           /\ [rec EXCEPT !.leased = b] \in Record
           /\ [rec EXCEPT !.late = b] \in Record
BY ZenonT(40) DEF Record

LEMMA LeaseUpdate ==
    ASSUME NEW rec \in Record, NEW s \in Status, NEW b \in BOOLEAN
    PROVE  [rec EXCEPT !.status = s, !.leased = b] \in Record
BY ZenonT(40) DEF Record, Status

LEMMA DueUpdate ==
    ASSUME NEW rec \in Record, NEW s \in Status, NEW b \in BOOLEAN
    PROVE  [rec EXCEPT !.status = s, !.due = b] \in Record
BY ZenonT(40) DEF Record, Status

LEMMA ReleaseUpdate ==
    ASSUME NEW rec \in Record, NEW s \in Status, NEW b \in BOOLEAN, NEW c \in BOOLEAN
    PROVE  [rec EXCEPT !.status = s, !.leased = b, !.due = c] \in Record
BY ZenonT(40) DEF Record, Status

LEMMA ClaimUpdate ==
    ASSUME NEW rec \in Record, NEW s \in Status, NEW n \in 0 .. MaxAttempts, NEW b \in BOOLEAN
    PROVE  [rec EXCEPT !.status = s, !.attempts = n, !.leased = b] \in Record
BY ZenonT(40) DEF Record, Status

LEMMA PollUpdates ==
    ASSUME NEW q \in Poll, NEW s \in {"idle", "ask", "write"}, NEW b \in BOOLEAN
    PROVE  [q EXCEPT !.pc = s, !.over = b] \in Poll
BY DEF Poll

\* TypeOK is inductive as it stands but for the bound of the attempts, which is
\* the guard of ClaimDue.
LEMMA TypeStep == TypeOK /\ [Next]_vars => TypeOK'
<1> USE ContinuationAssumption
<1> SUFFICES ASSUME TypeOK, [Next]_vars PROVE TypeOK'
  OBVIOUS
<1> USE DEF TypeOK, Record, Poll, Generation, Live, Closed
<1>1. CASE Attach
  BY <1>1 DEF Attach
<1>2. ASSUME NEW p \in Project, Redirect(p) PROVE TypeOK'
  BY <1>2 DEF Redirect
<1>3. CASE JobEnds
  BY <1>3 DEF JobEnds
<1>4. CASE TimePasses
  <2> HIDE DEF Record, Poll, Live, Closed
  <2>1. record' \in Record
    BY <1>4, DateUpdates DEF TimePasses
  <2> QED
    BY <1>4, <2>1 DEF TimePasses
<1>5. CASE Schedule
  <2>1. PICK w \in Workflow, p \in Project, j \in Job, auto \in BOOLEAN :
          /\ direction[p] # Unavailable
          /\ record' = Scheduled(w, p, j, auto)
    BY <1>5 DEF Schedule
  <2>2. record.generation + 1 \in Generation
    BY <1>5 DEF Schedule
  <2>3. record' \in Record
    BY <2>1, <2>2 DEF Scheduled, SameChain
  <2> QED
    BY <1>5, <2>3 DEF Schedule
<1>6. CASE Close("done") \/ Close("cancelled")
  <2> HIDE DEF Record, Poll, Live, Closed
  <2>1. PICK as \in Status : record' = [record EXCEPT !.status = as, !.leased = FALSE]
    BY <1>6, StatusValues DEF Close
  <2>2. [record EXCEPT !.status = as, !.leased = FALSE] \in Record
    BY LeaseUpdate
  <2>3. record' \in Record
    BY <2>1, <2>2
  <2> QED
    BY <1>6, <2>3 DEF Close
<1>7. ASSUME NEW p \in Poller,
             PollLate(p) \/ PollDue(p) \/ PollAsk(p) \/ PollWrite(p) \/ PollerDies(p)
      PROVE  TypeOK'
  <2>1. CASE PollLate(p)
    BY <2>1 DEF PollLate, Block
  <2>2. CASE PollDue(p)
    BY <2>2 DEF PollDue, NoPoll
  <2>3. CASE PollAsk(p)
    <3> HIDE DEF Record, Poll
    <3>1. poll' = [poll EXCEPT ![p] = [poll[p] EXCEPT !.pc = "write", !.over = poll[p].job \in ended]]
      BY <2>3 DEF PollAsk
    <3>2. [poll[p] EXCEPT !.pc = "write", !.over = poll[p].job \in ended] \in Poll
      <4>1. poll[p] \in Poll /\ (poll[p].job \in ended) \in BOOLEAN
        OBVIOUS
      <4> QED
        BY <4>1, PollUpdates
    <3> QED
      BY <2>3, <3>1, <3>2 DEF PollAsk
  <2>4. CASE PollWrite(p)
    <3>1. record' \in Record
      <4>1. poll[p].over \in BOOLEAN
        OBVIOUS
      <4> HIDE DEF Record, Poll, Live, Closed
      <4>2. \/ record' = record
            \/ record' = [record EXCEPT !.status = "ready", !.due = poll[p].over]
            \/ record' = [record EXCEPT !.status = record.status, !.due = poll[p].over]
        BY <2>4 DEF PollWrite
      <4>3. [record EXCEPT !.status = "ready", !.due = poll[p].over] \in Record
        BY <4>1, StatusValues, DueUpdate
      <4>4. [record EXCEPT !.status = record.status, !.due = poll[p].over] \in Record
        BY <4>1, RecordFields, DueUpdate
      <4> QED
        BY <4>2, <4>3, <4>4
    <3>2. poll' \in [Poller -> Poll]
      BY <2>4 DEF PollWrite, NoPoll
    <3> HIDE DEF Record, Poll
    <3> QED
      BY <2>4, <3>1, <3>2 DEF PollWrite
  <2>5. CASE PollerDies(p)
    BY <2>5 DEF PollerDies, NoPoll
  <2> QED
    BY <1>7, <2>1, <2>2, <2>3, <2>4, <2>5
<1>8. ASSUME NEW r \in Resumer,
             ClaimLate(r) \/ ClaimHeld(r) \/ ClaimDue(r) \/ ClaimDies(r)
                 \/ Release(r) \/ Forget(r)
      PROVE  TypeOK'
  <2>1. CASE ClaimLate(r)
    BY <2>1 DEF ClaimLate, Block
  <2>2. CASE ClaimHeld(r)
    BY <2>2 DEF ClaimHeld, Block
  <2>3. CASE ClaimDue(r)
    <3>1. record.attempts + 1 \in 0 .. MaxAttempts
      BY <2>3 DEF ClaimDue
    <3> HIDE DEF Record, Poll, Live, Closed
    <3>2. record' = [record EXCEPT !.status = "claimed", !.attempts = record.attempts + 1,
                                   !.leased = TRUE]
      BY <2>3 DEF ClaimDue
    <3>3. [record EXCEPT !.status = "claimed", !.attempts = record.attempts + 1,
                         !.leased = TRUE] \in Record
      BY <3>1, StatusValues, ClaimUpdate
    <3>4. record.generation \in Generation
      BY RecordFields
    <3> QED
      BY <2>3, <3>2, <3>3, <3>4 DEF ClaimDue
  <2>4. CASE ClaimDies(r)
    BY <2>4 DEF ClaimDies
  <2>5. CASE Release(r)
    <3> HIDE DEF Record, Poll, Live, Closed
    <3>1. \/ record' = record
          \/ record' = [record EXCEPT !.status = "ready", !.leased = FALSE, !.due = FALSE]
      BY <2>5 DEF Release
    <3>2. [record EXCEPT !.status = "ready", !.leased = FALSE, !.due = FALSE] \in Record
      BY StatusValues, ReleaseUpdate
    <3> QED
      BY <2>5, <3>1, <3>2 DEF Release
  <2>6. CASE Forget(r)
    BY <2>6 DEF Forget
  <2> QED
    BY <1>8, <2>1, <2>2, <2>3, <2>4, <2>5, <2>6
<1>9. CASE UNCHANGED vars
  BY <1>9 DEF vars
<1> QED
  BY <1>1, <1>2, <1>3, <1>4, <1>5, <1>6, <1>7, <1>8, <1>9 DEF Next

LEMMA TypeInit == Init => TypeOK
  BY ContinuationAssumption
  DEF Init, TypeOK, NoRecord, Record, NoPoll, Poll, Generation, Live, Closed

\* The record, what pollers and resumers know of it, and the counts are well typed
\* throughout: no attempt is granted beyond the bound.
THEOREM TypeCorrect == Spec => []TypeOK
  BY TypeInit, TypeStep, PTL DEF Spec

-----------------------------------------------------------------------------
(* The resumptions of a chain.                                             *)

\* The ghost count and the record's own agree; only a record that was never
\* scheduled has no workflow to go on with.
CountsAgree ==
    /\ claims = record.attempts
    /\ record.status = "none" => record.workflow = "none"

LEMMA CountsAgreeInductive ==
    ASSUME TypeOK, CountsAgree, [Next]_vars
    PROVE  CountsAgree'
<1> USE ContinuationAssumption DEF CountsAgree
<1>1. /\ record.attempts \in Nat
      /\ record.status \in {"none"} \union Live \union Closed
      /\ record = [record EXCEPT !.due = record.due]
  BY DEF TypeOK, Record
<1>2. CASE Attach \/ (\E p \in Project : Redirect(p)) \/ JobEnds \/ UNCHANGED vars
  BY <1>2 DEF Attach, Redirect, JobEnds, vars
<1>3. CASE TimePasses
  BY <1>3 DEF TimePasses, TypeOK, Record
<1>4. CASE Schedule
  <2>1. PICK w \in Workflow, p \in Project, j \in Job, auto \in BOOLEAN :
          /\ record' = Scheduled(w, p, j, auto)
          /\ claims' = IF /\ record.status \in Live
                          /\ <<record.workflow, record.project>> = <<w, p>>
                       THEN claims ELSE 0
    BY <1>4 DEF Schedule
  <2>2. SameChain(w, p) <=> /\ record.status \in Live
                            /\ <<record.workflow, record.project>> = <<w, p>>
    BY <1>1 DEF SameChain, Live, Closed
  <2>3. /\ record'.attempts = IF SameChain(w, p) THEN record.attempts ELSE 0
        /\ record'.status = "waiting"
    BY <2>1 DEF Scheduled
  <2> QED
    BY <2>1, <2>2, <2>3
<1>5. CASE Close("done") \/ Close("cancelled")
  BY ZenonT(60), <1>5 DEF Close, TypeOK, Record
<1>6. ASSUME NEW p \in Poller,
             PollLate(p) \/ PollDue(p) \/ PollAsk(p) \/ PollWrite(p) \/ PollerDies(p)
      PROVE  CountsAgree'
  BY ZenonT(60), <1>6 DEF PollLate, PollDue, PollAsk, PollWrite, PollerDies, Block, TypeOK, Record
<1>7. ASSUME NEW r \in Resumer,
             ClaimLate(r) \/ ClaimHeld(r) \/ ClaimDue(r) \/ ClaimDies(r)
                 \/ Release(r) \/ Forget(r)
      PROVE  CountsAgree'
  <2>1. CASE ClaimLate(r) \/ ClaimHeld(r) \/ ClaimDies(r) \/ Forget(r)
    BY ZenonT(60), <2>1 DEF ClaimLate, ClaimHeld, ClaimDies, Forget, Block, TypeOK, Record
  <2>2. CASE ClaimDue(r)
    BY <2>2 DEF ClaimDue, TypeOK, Record
  <2>3. CASE Release(r)
    BY ZenonT(60), <2>3 DEF Release, TypeOK, Record
  <2> QED
    BY <1>7, <2>1, <2>2, <2>3
<1> QED
  BY <1>2, <1>3, <1>4, <1>5, <1>6, <1>7 DEF Next

\* No chain resumes the model more often than MAX_AUTO_RESUME_ATTEMPTS.
THEOREM BoundedResumesCorrect == Spec => []BoundedResumes
<1>1. Init => CountsAgree
  BY DEF Init, CountsAgree, NoRecord
<1>2. TypeOK /\ CountsAgree => BoundedResumes
  BY ContinuationAssumption DEF TypeOK, Record, CountsAgree, BoundedResumes
<1>3. TypeOK /\ CountsAgree /\ [Next]_vars => CountsAgree'
  BY CountsAgreeInductive
<1> QED
  BY <1>1, <1>2, <1>3, TypeCorrect, PTL DEF Spec

-----------------------------------------------------------------------------
(* A poll that was under way.                                              *)

\* What a poller remembers is of this generation, and then of this job, or of an
\* earlier one; what it has heard of the job stays true.
PollsRemember ==
    \A p \in Poller : poll[p].pc # "idle" =>
        /\ poll[p].generation <= record.generation
        /\ poll[p].generation = record.generation => poll[p].job = record.job
        /\ poll[p].pc = "write" /\ poll[p].over => poll[p].job \in ended

LEMMA PollsRememberInductive ==
    ASSUME TypeOK, PollsRemember, ResumesAfterTheJob, [Next]_vars
    PROVE  PollsRemember' /\ ResumesAfterTheJob'
<1> USE ContinuationAssumption DEF PollsRemember, ResumesAfterTheJob
<1>1. /\ record \in Record
      /\ record.generation \in Nat
      /\ \A p \in Poller : poll[p] \in Poll /\ poll[p].generation \in Nat
      /\ poll \in [Poller -> Poll]
  BY DEF TypeOK, Record, Poll, Generation
<1>2. CASE Attach \/ (\E p \in Project : Redirect(p)) \/ JobEnds \/ UNCHANGED vars
  BY <1>2 DEF Attach, Redirect, JobEnds, vars
<1>3. CASE TimePasses
  BY <1>1, <1>3 DEF TimePasses, Record
<1>4. CASE Schedule
  <2>1. record'.generation = record.generation + 1 /\ record'.status = "waiting"
    BY <1>4 DEF Schedule, Scheduled
  <2> QED
    BY <1>1, <1>4, <2>1 DEF Schedule
<1>5. CASE Close("done") \/ Close("cancelled")
  BY ZenonT(60), <1>1, <1>5 DEF Close, Record
<1>6. ASSUME NEW p \in Poller,
             PollLate(p) \/ PollDue(p) \/ PollAsk(p) \/ PollWrite(p) \/ PollerDies(p)
      PROVE  PollsRemember' /\ ResumesAfterTheJob'
  <2>1. CASE PollLate(p)
    BY <1>1, <2>1 DEF PollLate, Block, Record
  <2>2. CASE PollDue(p)
    BY <1>1, <2>2 DEF PollDue, NoPoll
  <2>3. CASE PollAsk(p)
    BY <1>1, <2>3 DEF PollAsk, Poll
  <2>4. CASE PollWrite(p)
    BY ZenonT(60), <1>1, <2>4 DEF PollWrite, NoPoll, Record
  <2>5. CASE PollerDies(p)
    BY <1>1, <2>5 DEF PollerDies, NoPoll
  <2> QED
    BY <1>6, <2>1, <2>2, <2>3, <2>4, <2>5
<1>7. ASSUME NEW r \in Resumer,
             ClaimLate(r) \/ ClaimHeld(r) \/ ClaimDue(r) \/ ClaimDies(r)
                 \/ Release(r) \/ Forget(r)
      PROVE  PollsRemember' /\ ResumesAfterTheJob'
  <2>1. CASE ClaimLate(r) \/ ClaimHeld(r) \/ Forget(r)
    BY <1>1, <2>1 DEF ClaimLate, ClaimHeld, Forget, Block, Record
  <2>2. CASE ClaimDue(r) \/ ClaimDies(r)
    BY ZenonT(60), <1>1, <2>2 DEF ClaimDue, ClaimDies, Resumable, Expired, Record
  <2>3. CASE Release(r)
    BY ZenonT(60), <1>1, <2>3 DEF Release, Record
  <2> QED
    BY <1>7, <2>1, <2>2, <2>3
<1> QED
  BY <1>2, <1>3, <1>4, <1>5, <1>6, <1>7 DEF Next

\* The model is resumed only for a job that has ended, whatever polls are under
\* way when the continuation is rescheduled, closed or claimed.
THEOREM ResumesAfterTheJobCorrect == Spec => []ResumesAfterTheJob
<1>1. Init => PollsRemember /\ ResumesAfterTheJob
  BY DEF Init, PollsRemember, ResumesAfterTheJob, NoRecord, NoPoll
<1>2. TypeOK /\ PollsRemember /\ ResumesAfterTheJob /\ [Next]_vars
        => PollsRemember' /\ ResumesAfterTheJob'
  BY PollsRememberInductive
<1> QED
  BY <1>1, <1>2, TypeCorrect, PTL DEF Spec

-----------------------------------------------------------------------------
(* What a step does to a closed or a late continuation.                    *)

LEMMA LiveOrClosed == Live \intersect Closed = {} /\ "none" \notin Live \union Closed
BY DEF Live, Closed

\* A closed continuation is opened by a schedule only.
THEOREM ClosedStaysClosedCorrect == Spec => ClosedStaysClosed
<1> DEFINE Stays == record.status \in Closed /\ record'.status \notin Closed
                        => record'.generation > record.generation
<1>1. TypeOK /\ [Next]_vars => Stays
  <2> SUFFICES ASSUME TypeOK, [Next]_vars, record.status \in Closed,
                      record'.status \notin Closed
               PROVE  record'.generation > record.generation
    OBVIOUS
  <2>1. record.status \notin Live /\ record.status \notin {"waiting", "ready", "claimed"}
    BY LiveOrClosed DEF Live
  <2>2. record.generation \in Nat /\ record \in Record
    BY ContinuationAssumption DEF TypeOK, Record, Generation
  <2>3. ~(TimePasses \/ Close("done") \/ Close("cancelled"))
    BY <2>1, <2>2 DEF TimePasses, Close, Closed, Record
  <2>4. \A p \in Poller : ~(PollLate(p) \/ PollDue(p))
    BY <2>1 DEF PollLate, PollDue
  <2>5. \A r \in Resumer : ~(ClaimLate(r) \/ ClaimHeld(r) \/ ClaimDue(r) \/ ClaimDies(r))
    BY <2>1 DEF ClaimLate, ClaimHeld, ClaimDue, ClaimDies, Examined
  <2>6. record' # record
    OBVIOUS
  <2>7. ~(Attach \/ (\E p \in Project : Redirect(p)) \/ JobEnds \/ UNCHANGED vars)
    BY <2>6 DEF Attach, Redirect, JobEnds, vars
  <2>8. \A p \in Poller : ~(PollAsk(p) \/ PollWrite(p) \/ PollerDies(p))
    BY <2>1, <2>6 DEF PollAsk, PollWrite, PollerDies
  <2>9. \A r \in Resumer : ~(Release(r) \/ Forget(r))
    BY <2>1, <2>6 DEF Release, Forget
  <2>10. Schedule
    BY <2>3, <2>4, <2>5, <2>7, <2>8, <2>9 DEF Next
  <2> QED
    BY <2>2, <2>10 DEF Schedule, Scheduled
<1> QED
  BY <1>1, TypeCorrect, PTL DEF Spec, ClosedStaysClosed

\* A late chain is resumed by nothing and rescheduling it leaves it late.
THEOREM LateStaysLateCorrect == Spec => LateStaysLate
<1> DEFINE Remains ==
        record.status \in Live /\ record.late /\ record'.status \in Live
          => \/ record'.late /\ claims' = claims
             \/ <<record'.workflow, record'.project>> # <<record.workflow, record.project>>
<1>1. TypeOK /\ [Next]_vars => Remains
  <2> SUFFICES ASSUME TypeOK, [Next]_vars, record.status \in Live, record.late
               PROVE  \/ record'.late /\ claims' = claims
                      \/ <<record'.workflow, record'.project>>
                           # <<record.workflow, record.project>>
                      \/ record'.status \notin Live
    OBVIOUS
  <2>1. record \in Record /\ record.status \notin Closed
    BY LiveOrClosed DEF TypeOK
  <2>2. CASE Attach \/ (\E p \in Project : Redirect(p)) \/ JobEnds \/ UNCHANGED vars
    BY <2>2 DEF Attach, Redirect, JobEnds, vars
  <2>3. CASE TimePasses
    BY <2>1, <2>3 DEF TimePasses, Record
  <2>4. CASE Schedule
    <3>1. PICK w \in Workflow, p \in Project, j \in Job, auto \in BOOLEAN :
            /\ record' = Scheduled(w, p, j, auto)
            /\ claims' = IF /\ record.status \in Live
                            /\ <<record.workflow, record.project>> = <<w, p>>
                         THEN claims ELSE 0
      BY <2>4 DEF Schedule
    <3>2. record'.workflow = w /\ record'.project = p
      BY <3>1 DEF Scheduled
    <3>3. CASE <<record.workflow, record.project>> = <<w, p>>
      <4>1. SameChain(w, p)
        BY <2>1, <3>3 DEF SameChain
      <4> QED
        BY <3>1, <3>3, <4>1 DEF Scheduled
    <3> QED
      BY <3>2, <3>3
  <2>5. CASE Close("done") \/ Close("cancelled")
    BY <2>1, <2>5 DEF Close, Record
  <2>6. ASSUME NEW p \in Poller,
               PollLate(p) \/ PollDue(p) \/ PollAsk(p) \/ PollWrite(p) \/ PollerDies(p)
        PROVE  record'.late /\ claims' = claims
    BY <2>1, <2>6 DEF PollLate, PollDue, PollAsk, PollWrite, PollerDies, Block, Record
  <2>7. ASSUME NEW r \in Resumer,
               ClaimLate(r) \/ ClaimHeld(r) \/ ClaimDue(r) \/ ClaimDies(r)
                   \/ Release(r) \/ Forget(r)
        PROVE  record'.late /\ claims' = claims
    <3>1. ~(ClaimHeld(r) \/ ClaimDue(r) \/ ClaimDies(r))
      BY DEF ClaimHeld, ClaimDue, ClaimDies
    <3>2. CASE ClaimLate(r) \/ Forget(r)
      BY <2>1, <3>2 DEF ClaimLate, Forget, Block, Record
    <3>3. CASE Release(r)
      BY <2>1, <3>3 DEF Release, Record
    <3> QED
      BY <2>7, <3>1, <3>2, <3>3
  <2> QED
    BY <2>2, <2>3, <2>4, <2>5, <2>6, <2>7 DEF Next
<1> QED
  BY <1>1, TypeCorrect, PTL DEF Spec, LateStaysLate

=============================================================================
