--------------------------- MODULE SourceRegistry ---------------------------
(***************************************************************************)
(* The repositories and the sources of a project (project_workspace.py):   *)
(* what the code search may index, by id.                                  *)
(*                                                                         *)
(* Both registries are parts of project.json.  A Git repository is also a  *)
(* source under its own id, derived when the sources are listed, and hides *)
(* a corpus of the same id; so adding either looks at the other first.     *)
(* Every write reads the file and replaces it under its lock, and what the *)
(* caller was refused or allowed was read before the lock.                 *)
(*                                                                         *)
(* Data: ids are numbers, ordered as the code sorts them; DefaultId is the *)
(* id of the one repository of a project that registered none.  Paths and  *)
(* types of corpora are left out, and nothing is ever disabled: no call    *)
(* does it.                                                                *)
(***************************************************************************)
EXTENDS Naturals, FiniteSets, FiniteSetsExt

CONSTANTS
    Caller,
    NumIds,         \* bound: ids besides DefaultId
    MaxCalls        \* bound: calls

DefaultId == 0
Id == 0..NumIds
Nobody == NumIds + 1        \* no default: the empty string

\* What the constants are assumed to be.
RegistryAssumption == NumIds \in Nat \ {0} /\ MaxCalls \in Nat

VARIABLES
    meta,           \* project.json: mode, repos, repoDefault, corpora, sourceDefault, indexCode
    call,           \* what each caller has under way
    kept,           \* corpora registered and not removed since
    taken,          \* ids registered for one kind while a call of the other kind had found
                    \* them free, or removed while a call had found them a repository
    count

vars == <<meta, call, kept, taken, count>>

Idle == [op |-> "none", pc |-> "idle", id |-> DefaultId, default |-> FALSE]

RegistryInit ==
    /\ meta = [mode |-> "legacy", repos |-> {}, repoDefault |-> DefaultId,
               corpora |-> {}, sourceDefault |-> Nobody, indexCode |-> FALSE]
    /\ call = [c \in Caller |-> Idle]
    /\ kept = {}
    /\ taken = {}
    /\ count = 0

(***************************************************************************)
(* What is read.                                                           *)
(***************************************************************************)
FirstOf(ids, otherwise) == IF ids = {} THEN otherwise ELSE Min(ids)

\* _upgrade_meta: a registry without a default has its first repository.
Upgraded == [meta EXCEPT !.repoDefault =
                 IF meta.repoDefault = Nobody THEN FirstOf(meta.repos, DefaultId) ELSE @]

Repositories == IF meta.mode = "legacy" THEN {DefaultId} ELSE meta.repos

\* The sources as listed: an id of a repository is Git, whatever else it is.
Git == Repositories
Corpora == meta.corpora \ Repositories

(***************************************************************************)
(* The calls.                                                              *)
(***************************************************************************)
Becomes(c, pc) == call' = [call EXCEPT ![c].pc = pc]
Ends(c) == call' = [call EXCEPT ![c] = Idle]

Ops == {"source_add", "source_remove", "source_default", "repo_add", "repo_remove",
        "repo_default", "enable_code_index"}

\* Every call brings the file up to date first.
Begin(c) ==
    /\ call[c].pc = "idle" /\ count < MaxCalls
    /\ \E op \in Ops, id \in Id, default \in BOOLEAN :
         /\ op = "enable_code_index" => id = DefaultId
         /\ default => op \in {"source_add", "repo_add"}
         /\ call' = [call EXCEPT ![c] =
                [op |-> op, pc |-> IF op \in {"repo_remove", "enable_code_index"} THEN "locked" ELSE "check",
                 id |-> id, default |-> default]]
    /\ meta' = Upgraded
    /\ count' = count + 1
    /\ UNCHANGED <<kept, taken>>

\* What each call asks before it takes the lock.
Allowed(op, id) ==
    CASE op \in {"source_add", "source_remove"} -> id \notin Repositories
      [] op = "source_default" -> id \in Git \union Corpora
      [] op = "repo_add" -> id \notin meta.corpora
      [] op = "repo_default" -> id \in Repositories /\ meta.mode = "registered"

Check(c) ==
    /\ call[c].pc = "check"
    /\ IF Allowed(call[c].op, call[c].id) THEN Becomes(c, "locked") ELSE Ends(c)
    /\ UNCHANGED <<meta, kept, taken, count>>

\* Some other call of that operation was allowed the id and waits for the lock.
Overtakes(c, op) == \E d \in Caller \ {c} : call[d].op = op /\ call[d].id = call[c].id
                                           /\ call[d].pc = "locked"

AddSource(c) ==
    LET id == call[c].id IN
    /\ call[c].pc = "locked" /\ call[c].op = "source_add"
    /\ meta' = [Upgraded EXCEPT !.corpora = @ \union {id},
                               !.sourceDefault = IF call[c].default \/ @ = Nobody THEN id ELSE @]
    /\ kept' = kept \union {id}
    /\ taken' = IF Overtakes(c, "repo_add") THEN taken \union {id} ELSE taken
    /\ Ends(c)
    /\ UNCHANGED count

RemoveSource(c) ==
    LET id == call[c].id
        rest == meta.corpora \ {id}
    IN /\ call[c].pc = "locked" /\ call[c].op = "source_remove"
       /\ meta' = IF id \in meta.corpora
                  THEN [Upgraded EXCEPT !.corpora = rest,
                                       !.sourceDefault = IF @ = id THEN FirstOf(rest, Nobody) ELSE @]
                  ELSE meta
       /\ kept' = kept \ {id}
       /\ Ends(c)
       /\ UNCHANGED <<taken, count>>

DefaultSource(c) ==
    /\ call[c].pc = "locked" /\ call[c].op = "source_default"
    /\ meta' = [Upgraded EXCEPT !.sourceDefault = call[c].id]
    /\ Ends(c)
    /\ UNCHANGED <<kept, taken, count>>

AddRepo(c) ==
    LET id == call[c].id IN
    /\ call[c].pc = "locked" /\ call[c].op = "repo_add"
    /\ meta' = [Upgraded EXCEPT !.mode = "registered", !.repos = @ \union {id},
                               !.repoDefault = IF call[c].default \/ @ \in {Nobody, DefaultId} THEN id ELSE @]
    /\ taken' = IF Overtakes(c, "source_add") THEN taken \union {id} ELSE taken
    /\ Ends(c)
    /\ UNCHANGED <<kept, count>>

\* Mutant: a project without repositories is one with the legacy repository again.
ModeLeft(rest) == IF rest = {} THEN "legacy" ELSE "registered"

\* The mode once a repository was removed.
ModeWithout(rest) == "registered"

\* Refused for the legacy repository; the registry stays one when it is empty.
RemoveRepo(c) ==
    LET id == call[c].id
        rest == meta.repos \ {id}
    IN /\ call[c].pc = "locked" /\ call[c].op = "repo_remove"
       /\ IF meta.mode = "registered"
          THEN meta' = [Upgraded EXCEPT !.mode = ModeWithout(rest), !.repos = rest,
                                       !.repoDefault = IF @ = id THEN FirstOf(rest, Nobody) ELSE @]
          ELSE UNCHANGED meta
       /\ taken' = IF Overtakes(c, "repo_default") THEN taken \union {id} ELSE taken
       /\ Ends(c)
       /\ UNCHANGED <<kept, count>>

DefaultRepo(c) ==
    /\ call[c].pc = "locked" /\ call[c].op = "repo_default"
    /\ meta' = [Upgraded EXCEPT !.repoDefault = call[c].id]
    /\ Ends(c)
    /\ UNCHANGED <<kept, taken, count>>

EnableCodeIndex(c) ==
    /\ call[c].pc = "locked" /\ call[c].op = "enable_code_index"
    /\ meta' = IF meta.indexCode THEN meta ELSE [Upgraded EXCEPT !.indexCode = TRUE]
    /\ Ends(c)
    /\ UNCHANGED <<kept, taken, count>>

RegistryNext ==
    \E c \in Caller :
        \/ Begin(c) \/ Check(c)
        \/ AddSource(c) \/ RemoveSource(c) \/ DefaultSource(c)
        \/ AddRepo(c) \/ RemoveRepo(c) \/ DefaultRepo(c) \/ EnableCodeIndex(c)

RegistrySpec == RegistryInit /\ [][RegistryNext]_vars

(***************************************************************************)
(* Property                                                                *)
(***************************************************************************)
\* A corpus that was registered and not removed since is listed as a corpus, and
\* never hidden by a Git source of its id, in whatever order repositories and
\* corpora come and go (also when the last repository goes); and the default of a
\* registry that has repositories is one of them.  Except for the ids two calls were
\* allowed at once: what a call asks, it asks before it takes the lock.
RegistrationsHold ==
    /\ kept \ taken \subseteq Corpora
    /\ meta.mode = "registered" /\ meta.repos # {} /\ meta.repoDefault \notin taken
       => Upgraded.repoDefault \in meta.repos
=============================================================================
