---------------------------- MODULE MCRefreshJobs ----------------------------
(* RefreshJobs on small instances.                                         *)
EXTENDS RefreshJobs, TLC

CONSTANTS c1, c2, s1

TwoClients == {c1, c2}
OneScope == {s1}

\* Clients and scopes are only compared for equality.
Symmetry == Permutations(Client) \union Permutations(Scope)

=============================================================================
