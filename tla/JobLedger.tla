------------------------------ MODULE JobLedger ------------------------------
(***************************************************************************)
(* What the detached refresh jobs (code_index_jobs.py, code_vector_jobs.py)*)
(* promise whoever starts, polls and cancels them.  RefreshJobs implements *)
(* this specification; RepositoryPrepare is written on top of it.          *)
(*                                                                         *)
(* work[j] is the job's worker process: "corpse" is one that has ended but *)
(* still answers signal 0, because nobody has reaped it yet.               *)
(***************************************************************************)
CONSTANTS Job, Scope, NoScope

VARIABLES status, scope, work

vars == <<status, scope, work>>

Stopped == {"interrupted", "cancelled"}

Init ==
    /\ status = [j \in Job |-> "none"]
    /\ scope = [j \in Job |-> NoScope]
    /\ work = [j \in Job |-> "none"]

Free(s) == \A j \in Job : scope[j] = s => work[j] # "working"

Become(j, s) == status' = [status EXCEPT ![j] = s]

\* A job is only queued, and only gets a worker, while its scope is free.
Queue(j, s) ==
    /\ status[j] = "none"
    /\ Free(s)
    /\ Become(j, "queued")
    /\ scope' = [scope EXCEPT ![j] = s]
    /\ work' = work

\* Starting a process also reaps those of the starter that have ended.
Spawn(j, reaped) ==
    /\ status[j] = "queued"
    /\ work[j] = "none"
    /\ Free(scope[j])
    /\ work' = [k \in Job |-> CASE k = j -> "working"
                                [] k # j /\ k \in reaped /\ work[k] = "corpse" -> "ended"
                                [] OTHER -> work[k]]
    /\ UNCHANGED <<status, scope>>

Publish(j) ==
    /\ status[j] = "queued"
    /\ work[j] # "none"
    /\ Become(j, "running")
    /\ UNCHANGED <<scope, work>>

\* The worker records its result, and works no more.
Settle(j, result) ==
    /\ status[j] = "running"
    /\ work[j] = "working"
    /\ Become(j, result)
    /\ work' = [work EXCEPT ![j] = "corpse"]
    /\ scope' = scope

\* The worker ends without a result: killed, or cancelled.
Die(j, as) ==
    /\ work[j] = "working"
    /\ work' = [work EXCEPT ![j] = as]
    /\ UNCHANGED <<status, scope>>

Reap(reaped) ==
    /\ work' = [j \in Job |-> IF j \in reaped /\ work[j] = "corpse" THEN "ended" ELSE work[j]]
    /\ UNCHANGED <<status, scope>>

\* A status that says a job was stopped is only recorded, once and for all, when
\* its worker works no more; "interrupted" also needs the process to be gone.  It
\* may replace a result the recording process has not seen.
Stop(j, how) ==
    /\ status[j] \notin Stopped \union {"none"}
    /\ work[j] # "working"
    /\ how = "interrupted" => work[j] # "corpse"
    /\ Become(j, how)
    /\ UNCHANGED <<scope, work>>

\* A status request writes back the copy it read before the job ended.
Regress(j) ==
    /\ status[j] \in {"completed", "failed"}
    /\ work[j] # "working"
    /\ Become(j, "running")
    /\ UNCHANGED <<scope, work>>

Next ==
    \/ \E j \in Job :
        \/ \E s \in Scope : Queue(j, s)
        \/ \E reaped \in SUBSET Job : Spawn(j, reaped)
        \/ Publish(j)
        \/ \E result \in {"completed", "failed"} : Settle(j, result)
        \/ \E as \in {"corpse", "ended"} : Die(j, as)
        \/ \E how \in Stopped : Stop(j, how)
        \/ Regress(j)
    \/ \E reaped \in SUBSET Job : Reap(reaped)

Spec == Init /\ [][Next]_vars
=============================================================================
