---------------------------- MODULE MCRuntimeGates ---------------------------
(* Small instances of RuntimeGates for TLC. *)
EXTENDS RuntimeGates
==============================================================================
