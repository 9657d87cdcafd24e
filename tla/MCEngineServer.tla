---------------------------- MODULE MCEngineServer ----------------------------
(* Small instances of EngineServer for TLC. *)
EXTENDS EngineServer

\* Connections are compared for equality only.
Symmetry == Permutations(Clients)
=============================================================================
