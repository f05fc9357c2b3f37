--------------------------- MODULE MCPreparations ---------------------------
(***************************************************************************)
(* Preparations of a repository on small instances: "open", where          *)
(* everything can happen to the one child of one preparation; "staged",    *)
(* where it has a child for each stage, over an edit, while clients cancel *)
(* children; and "two" preparations, the first a full one, that share one  *)
(* child and start without an index.                                       *)
(***************************************************************************)
EXTENDS RepositoryPrepare

VARIABLE component

Staged == INSTANCE RepositoryPrepare WITH World <- {"cancels", "kills", "copies"}
Two == INSTANCE RepositoryPrepare WITH World <- {"kills", "copies"}

ASSUME Staged!PrepareAssumption
ASSUME Two!PrepareAssumption

\* The bounds of a component, the children and the parents it has numbers for first.
Children == IF component = "staged" THEN Child ELSE {1}
Parents == IF component = "two" THEN Parent ELSE {1}

Within ==
    /\ \A c \in Child \ Children : childStatus[c] = "none"
    /\ \A p \in Parent \ Parents : file[p].status = "none"
    /\ component = "two" => source = 1 /\ mode[1] = "full"

\* A step that stays within them.
Kept == UNCHANGED component /\ Within'

PreparationsInit ==
    /\ Init
    /\ component \in {"open", "staged", "two"}
    /\ component = "two" => lexical = 0

PreparationsNext ==
    \/ component = "open" /\ Next /\ Kept
    \/ component = "staged" /\ Staged!Next /\ Kept
    \/ component = "two" /\ Two!Next /\ Kept

states == <<component, vars>>

\* Fairness of RepositoryPrepare, of the steps within the bounds.
PreparationsFairness ==
    /\ WF_states(Holder /\ Kept)
    /\ \A c \in Child : WF_states(ChildStep(c) /\ Kept)
    /\ \A p \in 0 .. MaxParents : WF_states(ReapChildren(p) /\ Kept)
    /\ \A p \in Parent :
        /\ WF_states(WorkerStep(p) /\ Kept)
        /\ WF_states(At(p, "start") /\ (\A c \in Children : childStatus[c] # "none") /\ Raise(p) /\ Kept)
        /\ WF_states(ReapParent(p) /\ Kept)
        /\ WF_states(BeginCall("status", p) /\ Kept)

PreparationsSpec == PreparationsInit /\ [][PreparationsNext]_states /\ PreparationsFairness

\* RepositoryPrepare: whatever else happens, only a child that lingers for ever keeps a
\* preparation from its end.
Settles == (\A c \in Child : []<>(~Lingers(c))) => ParentSettles
=============================================================================
