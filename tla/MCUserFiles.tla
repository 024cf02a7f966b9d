----------------------------- MODULE MCUserFiles ------------------------------
(* Small instances of UserFiles for TLC. *)
EXTENDS UserFiles, TLC

Symmetry == Permutations(Preparations) \cup Permutations(Packages)
==============================================================================
