--------------------------- MODULE MCHelperProcess ---------------------------
(* Small instances of HelperProcess for TLC. *)
EXTENDS HelperProcess
==============================================================================
