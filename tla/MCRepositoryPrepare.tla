------------------------- MODULE MCRepositoryPrepare -------------------------
(* RepositoryPrepare on small instances.                                   *)
EXTENDS RepositoryPrepare
=============================================================================
