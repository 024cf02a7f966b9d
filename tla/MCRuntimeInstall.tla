-------------------------- MODULE MCRuntimeInstall ---------------------------
(* Small instances of RuntimeInstall for TLC. *)
EXTENDS RuntimeInstall
==============================================================================
