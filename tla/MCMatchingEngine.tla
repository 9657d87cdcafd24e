--------------------------- MODULE MCMatchingEngine ---------------------------
(* Small instances of MatchingEngine and its replay for TLC. *)
EXTENDS EngineReplay

\* Keys and symbols are compared for equality only.
Symmetry == Permutations(Keys) \cup Permutations(Symbols)
=============================================================================
