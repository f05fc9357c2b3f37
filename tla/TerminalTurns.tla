---------------------------- MODULE TerminalTurns ----------------------------
(***************************************************************************)
(* Whether the current turn of a session is structurally complete: what    *)
(* the plugin (awoki-continuity.ts) makes of the host's events, and the    *)
(* record that agent_runtime.py keeps of it.                               *)
(*                                                                         *)
(* A message is its place in the host's transcript.  A user message is     *)
(* written by the human, marks a compaction, or is the synthetic one with  *)
(* which the host goes on after a compaction; an assistant message answers *)
(* the newest user message.  The plugin registers user messages, remembers *)
(* one assistant message, and when the session is idle attributes it; the  *)
(* registrations of users, the classification of users only an event has   *)
(* told of, and the receipt of a terminal turn are calls to the host or to *)
(* a bridge process, and other events are handled while they are under way.*)
(***************************************************************************)
EXTENDS Naturals, Sequences

CONSTANTS
    MaxMessages,   \* bound: messages of the transcript
    MaxLosses,     \* bound: calls without an answer
    MaxStarts,     \* bound: restarts of the plugin
    UpdatesOld     \* the host also tells of changes to older user messages

\* What the constants are assumed to be.
TurnsAssumption ==
    /\ MaxMessages \in Nat
    /\ MaxLosses \in Nat
    /\ MaxStarts \in Nat
    /\ UpdatesOld \in BOOLEAN

VARIABLES
    log,        \* the transcript
    running,    \* the host works on the session
    idle,       \* the session is in idleSessions
    user,       \* latestUserBySession, 0 for none
    answer,     \* latestAssistantBySession, 0 for none
    seen,       \* seenUsersBySession
    turn,       \* assistantTurns, of the latest assistant message
    durable,    \* userPersistence: attempts made for `user`, and whether one was acknowledged
    calls,      \* userRegistrations: the user messages to register, oldest first
    checks,     \* pendingUserChecks: users known from events only, oldest first
    witness,    \* compactions: what is known of the compaction under way
    receipt,    \* recordTerminalTurn
    store,      \* what agent_runtime.py has on disk
    losses, starts

host == <<log, running>>
seenBy == <<idle, user, answer, seen, turn, durable, calls, checks, witness>>
turnvars == <<host, seenBy, receipt, store, losses, starts>>

Human == "human"

NoTurn == [info |-> FALSE, parts |-> FALSE, looked |-> FALSE, verified |-> FALSE,
           continues |-> FALSE, recorded |-> FALSE, attempts |-> 0, moved |-> FALSE]
NoWitness == [of |-> 0, summary |-> 0, marker |-> 0, compacted |-> FALSE]
NoReceipt == [at |-> "none", user |-> 0, answer |-> 0]
NoStore == [user |-> 0, status |-> "none", terminal |-> 0, last |-> 0,
            summary |-> 0, unresolved |-> FALSE, followed |-> FALSE]

TurnsInit ==
    /\ log = <<>> /\ running = FALSE
    /\ idle = FALSE /\ user = 0 /\ answer = 0 /\ seen = {}
    /\ turn = NoTurn
    /\ durable = [attempts |-> 0, yes |-> FALSE]
    /\ calls = <<>> /\ checks = <<>>
    /\ witness = NoWitness
    /\ receipt = NoReceipt
    /\ store = NoStore
    /\ losses = 0 /\ starts = 0

-----------------------------------------------------------------------------
(* The transcript.                                                         *)

Kind(m) == log[m].kind
Parent(m) == log[m].parent
Users == {m \in DOMAIN log : Kind(m) # "assistant"}
Newest(S) == CHOOSE m \in S \union {0} : \A n \in S : n <= m
Summary(m) == Parent(m) # 0 /\ Kind(Parent(m)) = "marker"
Ended(m) == log[m].ended

\* The human's message an assistant message answers.
Answers(m) == Newest({h \in DOMAIN log : Kind(h) = Human /\ h < m /\ h <= Parent(m)})

-----------------------------------------------------------------------------
(* What several handlers do.                                               *)

\* observeAssistant, for something the host does: the session is not idle.
Observed(m) ==
    /\ idle' = FALSE
    /\ answer' = m
    /\ turn' = IF answer = m THEN [turn EXCEPT !.looked = FALSE, !.moved = TRUE] ELSE NoTurn

Calling(m) == \E i \in DOMAIN calls : calls[i].user = m

\* persistObservedUser: only the latest user, one call at a time, two at the most.
Persisted(m, latest, kept, queue) ==
    IF m # latest \/ Calling(m) \/ kept.yes \/ kept.attempts >= 2
    THEN queue ELSE Append(queue, [user |-> m, at |-> "queued"])

\* registerUser: the newest user invalidates what was known of older turns.
Registered(m) ==
    IF m \in seen
    THEN /\ calls' = Persisted(m, user, durable, calls)
         /\ UNCHANGED <<idle, user, answer, seen, turn, durable, witness>>
    ELSE /\ witness' = NoWitness
         /\ seen' = seen \union {m}
         /\ idle' = FALSE
         /\ turn' = NoTurn
         /\ answer' = 0
         /\ user' = m
         /\ durable' = [attempts |-> 0, yes |-> FALSE]
         /\ calls' = Persisted(m, m, durable', calls)

-----------------------------------------------------------------------------
(* The host.                                                               *)

Wrote(kind, parent) ==
    log' = Append(log, [kind |-> kind, parent |-> parent, ended |-> FALSE, good |-> FALSE])

NextMessage == Len(log) + 1

\* Mutant: the classifications under way go on.
HumanWritesAlso ==
    /\ Len(log) < MaxMessages
    /\ Wrote(Human, 0)
    /\ running' = TRUE
    /\ Registered(NextMessage)
    /\ UNCHANGED <<checks, receipt, store, losses, starts>>

\* chat.message: what was still to be classified is older.
HumanWrites ==
    /\ Len(log) < MaxMessages
    /\ Wrote(Human, 0)
    /\ running' = TRUE
    /\ Registered(NextMessage)
    /\ checks' = <<>>
    /\ UNCHANGED <<receipt, store, losses, starts>>

\* message.updated for a user message: an unseen one is classified first.
UserEvent(m) ==
    /\ idle' = FALSE
    /\ IF m \in seen
       THEN /\ calls' = Persisted(m, user, durable, calls)
            /\ checks' = checks
       ELSE /\ checks' = Append(checks, [user |-> m, at |-> "ask"])
            /\ calls' = calls
    /\ UNCHANGED <<user, answer, seen, turn, durable, witness>>

UserUpdated(m) ==
    /\ m \in Users
    /\ UpdatesOld \/ m = Newest(Users)
    /\ Len(checks) < 2
    /\ \A i \in DOMAIN checks : checks[i].user # m
    /\ UserEvent(m)
    /\ UNCHANGED <<host, receipt, store, losses, starts>>

\* The host marks a compaction, or goes on after one, with a user message.
HostWrites(kind) ==
    /\ Len(log) < MaxMessages
    /\ log # <<>>
    /\ Len(checks) < 2
    /\ LET last == Len(log)
       IN  /\ Kind(last) = "assistant" /\ Ended(last)
           /\ running \/ kind = "marker"
           /\ (kind = "synthetic") = Summary(last)
    /\ Wrote(kind, 0)
    /\ running' = TRUE
    /\ idle' = FALSE
    /\ checks' = Append(checks, [user |-> NextMessage, at |-> "ask"])
    /\ UNCHANGED <<user, answer, seen, turn, durable, calls, witness, receipt, store, losses, starts>>

AssistantStarts ==
    /\ running
    /\ Len(log) < MaxMessages
    /\ \A m \in DOMAIN log : Kind(m) = "assistant" => Ended(m)
    /\ Newest(Users) # 0
    /\ ~Summary(Len(log))
    /\ Wrote("assistant", Newest(Users))
    /\ Observed(NextMessage)
    /\ UNCHANGED <<running, user, seen, durable, calls, checks, witness, receipt, store, losses, starts>>

\* The host tells of the message and of its parts, or of its text only.
AssistantEnds(m) ==
    /\ m \in DOMAIN log
    /\ Kind(m) = "assistant" /\ ~Ended(m)
    /\ \E good \in BOOLEAN, told \in BOOLEAN :
        /\ Summary(m) => good
        /\ log' = [log EXCEPT ![m].ended = TRUE, ![m].good = good]
        /\ idle' = FALSE
        /\ answer' = m
        /\ turn' = [(IF answer = m THEN turn ELSE NoTurn) EXCEPT
                       !.looked = FALSE, !.moved = TRUE, !.info = @ \/ told, !.parts = @ \/ told]
    /\ UNCHANGED <<running, user, seen, durable, calls, checks, witness, receipt, store, losses, starts>>

\* session.idle: recordTerminalTurn first registers the latest user again if that
\* has not been acknowledged.  One receipt at a time: idleLookups and
\* terminalRecording keep a second one from the same message.
SessionIdle ==
    /\ running
    /\ Kind(Len(log)) = "assistant" /\ Ended(Len(log))
    /\ running' = FALSE
    /\ idle' = TRUE
    /\ receipt.at = "none"
    /\ receipt' = [NoReceipt EXCEPT !.at = "users"]
    /\ calls' = IF user = 0 THEN calls ELSE Persisted(user, user, durable, calls)
    /\ UNCHANGED <<log, user, answer, seen, turn, durable, checks, witness, store, losses, starts>>

-----------------------------------------------------------------------------
(* Compaction.                                                             *)

\* experimental.session.compacting.
Compacting ==
    /\ log # <<>> /\ Kind(Len(log)) = "marker"
    /\ witness' = [NoWitness EXCEPT !.of = user]
    /\ UNCHANGED <<host, idle, user, answer, seen, turn, durable, calls, checks,
                   receipt, store, losses, starts>>

\* experimental.compaction.autocontinue: the summary that has just been observed,
\* and the marker it answers.
AutoContinue ==
    /\ running /\ answer # 0
    /\ answer = Len(log) /\ Summary(answer) /\ Ended(answer)
    /\ witness.of # 0 /\ witness.of = user
    /\ witness.summary = 0
    /\ checks = <<>>
    /\ witness' = [witness EXCEPT !.summary = answer, !.marker = Parent(answer)]
    /\ seen' = seen \union {Parent(answer)}
    /\ UNCHANGED <<host, idle, user, answer, turn, durable, calls, checks,
                   receipt, store, losses, starts>>

\* session.compacted.
Compacted ==
    /\ witness.summary # 0
    /\ witness.of = user
    /\ ~witness.compacted
    /\ witness' = [witness EXCEPT !.compacted = TRUE]
    /\ UNCHANGED <<host, idle, user, answer, seen, turn, durable, calls, checks,
                   receipt, store, losses, starts>>

-----------------------------------------------------------------------------
(* Users the plugin knows from events.                                     *)

\* registerEventUser: the exact message tells a human from what the host writes.
Classify ==
    /\ checks # <<>>
    /\ LET m == Head(checks).user
       IN  /\ Head(checks).at = "ask"
           /\ CASE m \in seen ->
                   /\ checks' = Tail(checks)
                   /\ UNCHANGED <<idle, user, answer, seen, turn, durable, calls, witness>>
                [] m \notin seen /\ Kind(m) = Human ->
                   /\ Registered(m)
                   /\ checks' = [checks EXCEPT ![1].at = "registered"]
                [] m \notin seen /\ Kind(m) # Human ->
                   /\ seen' = seen \union {m}
                   /\ witness' = IF Kind(m) = "marker" /\ witness.marker \notin {0, m}
                                 THEN NoWitness ELSE witness
                   /\ checks' = Tail(checks)
                   /\ UNCHANGED <<idle, user, answer, turn, durable, calls>>
    /\ UNCHANGED <<host, receipt, store, losses, starts>>

Classified ==
    /\ checks # <<>>
    /\ Head(checks).at = "registered"
    /\ ~Calling(Head(checks).user)
    /\ checks' = Tail(checks)
    /\ UNCHANGED <<host, idle, user, answer, seen, turn, durable, calls, witness,
                   receipt, store, losses, starts>>

\* The host does not answer: nobody knows who wrote it.
ClassifyFails ==
    /\ losses < MaxLosses
    /\ losses' = losses + 1
    /\ checks # <<>>
    /\ Head(checks).at = "ask"
    /\ checks' = Tail(checks)
    /\ witness' = NoWitness
    /\ UNCHANGED <<host, idle, user, answer, seen, turn, durable, calls, receipt, store, starts>>

-----------------------------------------------------------------------------
(* user-turn.                                                              *)

\* A registration whose turn it is: a newer user has made it pointless.
Superseded ==
    /\ calls # <<>>
    /\ Head(calls).at = "queued"
    /\ Head(calls).user # user
    /\ calls' = Tail(calls)
    /\ UNCHANGED <<host, idle, user, answer, seen, turn, durable, checks, witness,
                   receipt, store, losses, starts>>

CallUser ==
    /\ calls # <<>>
    /\ Head(calls).at = "queued"
    /\ Head(calls).user = user
    /\ durable' = [durable EXCEPT !.attempts = @ + 1]
    /\ calls' = [calls EXCEPT ![1].at = "called"]
    /\ UNCHANGED <<host, idle, user, answer, seen, turn, checks, witness,
                   receipt, store, losses, starts>>

\* Mutant: the completion of the previous turn stays until the next one ends.
UserTurnKeeping(m) ==
    IF store.user = m THEN store
    ELSE [store EXCEPT !.user = m, !.followed = @ \/ store.unresolved]

\* user_turn.
UserTurn(m) ==
    IF store.user = m THEN store
    ELSE [store EXCEPT !.user = m, !.status = "awaiting", !.terminal = 0,
                       !.followed = @ \/ store.unresolved]

UserServed ==
    /\ calls # <<>>
    /\ Head(calls).at = "called"
    /\ store' = UserTurn(Head(calls).user)
    /\ calls' = [calls EXCEPT ![1].at = "served"]
    /\ UNCHANGED <<host, idle, user, answer, seen, turn, durable, checks, witness,
                   receipt, losses, starts>>

UserAnswered ==
    /\ calls # <<>>
    /\ Head(calls).at = "served"
    /\ durable' = [durable EXCEPT !.yes = @ \/ Head(calls).user = user]
    /\ calls' = Tail(calls)
    /\ UNCHANGED <<host, idle, user, answer, seen, turn, checks, witness,
                   receipt, store, losses, starts>>

\* The process is killed after fifteen seconds, before or after it has written.
UserLost ==
    /\ losses < MaxLosses
    /\ losses' = losses + 1
    /\ calls # <<>>
    /\ Head(calls).at \in {"called", "served"}
    /\ calls' = Tail(calls)
    /\ UNCHANGED <<host, idle, user, answer, seen, turn, durable, checks, witness,
                   receipt, store, starts>>

-----------------------------------------------------------------------------
(* recordTerminalTurn.                                                     *)

Drop == receipt' = NoReceipt

\* The registrations are through; a user that is not durable ends it.
UsersDone ==
    /\ receipt.at = "users"
    /\ calls = <<>>
    /\ IF ~idle \/ (user # 0 /\ ~durable.yes)
       THEN Drop /\ turn' = turn
       ELSE /\ receipt' = [at |-> "lookup", user |-> user, answer |-> answer]
            /\ turn' = [turn EXCEPT !.moved = FALSE]
    /\ UNCHANGED <<host, idle, user, answer, seen, durable, calls, checks, witness,
                   store, losses, starts>>

\* What has been told of a message, or looked up.
Known == turn.info /\ (turn.parts \/ Summary(answer))

Attributable ==
    \/ Parent(answer) = user
    \/ Summary(answer) /\ turn.verified
    \/ turn.continues /\ witness.of = user

\* Mutant: the host is taken to tell of every message and of its parts.
NeedsNoLookup == FALSE

NeedsLookup ==
    /\ answer # 0
    /\ ~turn.looked
    /\ ~Known \/ (Parent(answer) # user /\ ~(Summary(answer) /\ turn.verified) /\ ~turn.continues)

NoLookup ==
    /\ receipt.at = "lookup"
    /\ ~NeedsLookup \/ ~idle
    /\ receipt' = [receipt EXCEPT !.at = "check"]
    /\ UNCHANGED <<host, seenBy, store, losses, starts>>

\* The continuation of a compaction is known by its witness: this user's turn was
\* compacted, the summary and its marker are the ones observed.
Continues(m) ==
    /\ user # 0
    /\ witness.compacted /\ witness.of = user
    /\ witness.summary # 0 /\ witness.marker # 0
    /\ Kind(Parent(m)) = "synthetic"
    /\ Parent(m) > witness.summary
    /\ m # witness.summary

\* recoverTerminalMetadata: one exact message, and its parent when that is not the
\* user; what has moved meanwhile makes the answer worthless.
Lookup ==
    /\ receipt.at = "lookup"
    /\ NeedsLookup /\ idle
    /\ receipt' = [receipt EXCEPT !.at = "check"]
    /\ \/ /\ checks = <<>> /\ ~turn.moved
          /\ answer = receipt.answer /\ user = receipt.user
          /\ IF \/ Parent(answer) = user
                \/ Summary(answer)
                \/ Continues(answer)
             THEN /\ turn' = [NoTurn EXCEPT !.looked = TRUE, !.info = TRUE, !.parts = TRUE,
                                !.verified = Summary(answer) /\ Parent(answer) # user,
                                !.continues = ~Summary(answer) /\ Parent(answer) # user]
                  /\ seen' = IF Parent(answer) # user /\ ~Summary(answer)
                             THEN seen \union {Parent(answer)} ELSE seen
             ELSE /\ turn' = [turn EXCEPT !.looked = TRUE]
                  /\ seen' = seen
          /\ losses' = losses
       \/ /\ checks # <<>> \/ turn.moved \/ answer # receipt.answer \/ user # receipt.user
          /\ turn' = turn
          /\ UNCHANGED <<seen, losses>>
       \/ /\ losses < MaxLosses
          /\ losses' = losses + 1
          /\ turn' = [turn EXCEPT !.looked = TRUE]
          /\ seen' = seen
    /\ UNCHANGED <<host, idle, user, answer, durable, calls, checks, witness, store, starts>>

CheckTurn ==
    /\ receipt.at = "check"
    /\ IF /\ idle /\ checks = <<>>
          /\ user = receipt.user
          /\ answer # 0
          /\ Known /\ Attributable
          /\ ~turn.recorded /\ turn.attempts < 2
       THEN /\ receipt' = [at |-> "called", user |-> user, answer |-> answer]
            /\ turn' = [turn EXCEPT !.attempts = @ + 1]
       ELSE Drop /\ turn' = turn
    /\ UNCHANGED <<host, idle, user, answer, seen, durable, calls, checks, witness,
                   store, losses, starts>>

\* Of the store's current user, directly or by the witness the plugin sent.
Matches(m) ==
    IF Parent(m) # receipt.user /\ ~Summary(m)
    THEN receipt.user = store.user
    ELSE Parent(m) = store.user

\* terminal_turn.
TerminalTurn(m) ==
    CASE store.last = m -> store
      [] store.last # m /\ Summary(m) -> [store EXCEPT !.summary = m]
      [] store.last # m /\ ~Summary(m) ->
         LET good == log[m].good
         IN  [store EXCEPT
                !.last = m,
                !.status = IF ~Matches(m) THEN @ ELSE IF good THEN "completed" ELSE "incomplete",
                !.terminal = IF Matches(m) THEN m ELSE @,
                !.unresolved = IF ~good THEN TRUE ELSE @ /\ ~(Matches(m) /\ store.followed),
                !.followed = good /\ @]

ReceiptServed ==
    /\ receipt.at = "called"
    /\ store' = TerminalTurn(receipt.answer)
    /\ receipt' = [receipt EXCEPT !.at = "served"]
    /\ UNCHANGED <<host, seenBy, losses, starts>>

\* Only an acknowledged receipt consumes the witness.
ReceiptAnswered ==
    /\ receipt.at = "served"
    /\ Drop
    /\ IF receipt.answer = answer
       THEN /\ turn' = [turn EXCEPT !.recorded = TRUE]
            /\ witness' = IF turn.continues THEN NoWitness ELSE witness
       ELSE UNCHANGED <<turn, witness>>
    /\ UNCHANGED <<host, idle, user, answer, seen, durable, calls, checks, store, losses, starts>>

ReceiptLost ==
    /\ losses < MaxLosses
    /\ losses' = losses + 1
    /\ receipt.at \in {"called", "served"}
    /\ Drop
    /\ UNCHANGED <<host, seenBy, store, starts>>

-----------------------------------------------------------------------------
\* OpenCode is started again: the plugin remembers nothing.
Restart ==
    /\ starts < MaxStarts
    /\ starts' = starts + 1
    /\ log' = [m \in DOMAIN log |-> [log[m] EXCEPT !.ended = TRUE]]
    /\ running' = FALSE
    /\ idle' = FALSE /\ user' = 0 /\ answer' = 0 /\ seen' = {}
    /\ turn' = NoTurn
    /\ durable' = [attempts |-> 0, yes |-> FALSE]
    /\ calls' = <<>> /\ checks' = <<>>
    /\ witness' = NoWitness
    /\ Drop
    /\ UNCHANGED <<store, losses>>

TurnsNext ==
    \/ HumanWrites
    \/ \E m \in DOMAIN log : UserUpdated(m) \/ AssistantEnds(m)
    \/ HostWrites("marker") \/ HostWrites("synthetic")
    \/ AssistantStarts \/ SessionIdle
    \/ Compacting \/ AutoContinue \/ Compacted
    \/ Classify \/ Classified \/ ClassifyFails
    \/ Superseded \/ CallUser \/ UserServed \/ UserAnswered \/ UserLost
    \/ UsersDone \/ NoLookup \/ Lookup \/ CheckTurn
    \/ ReceiptServed \/ ReceiptAnswered \/ ReceiptLost
    \/ Restart

TurnsSpec == TurnsInit /\ [][TurnsNext]_turnvars

-----------------------------------------------------------------------------
(* Properties.                                                             *)

\* A turn is called complete only when its user's message has been answered, by an
\* answer that ended as it should: no late event, classification or lookup lends it
\* the answer to another message, before or after a compaction.
CompletedByItsAnswer ==
    store.status = "completed" =>
        /\ log[store.terminal].good
        /\ Answers(store.terminal) = store.user

NotBack == store'.user >= store.user

\* A newer message of the human invalidates the older turn for good: no retried
\* registration makes an older message the current one again.
CurrentNeverGoesBack == [][NotBack]_turnvars

\* As long as every call is answered and nothing takes the session out of
\* idleSessions again, it does not come to rest with the answer to its newest
\* message unrecorded, whatever the host has told of that answer.
AnswerIsRecorded ==
    (/\ idle /\ ~running /\ log # <<>>
     /\ losses = 0 /\ starts = 0
     /\ receipt.at = "none" /\ calls = <<>> /\ checks = <<>>
     /\ Parent(Len(log)) = user)
    => store.last = Len(log)

=============================================================================
