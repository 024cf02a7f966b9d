--------------------------- MODULE MCLoopbackServer ---------------------------
(* Small instances of LoopbackServer for TLC. *)
EXTENDS LoopbackServer
==============================================================================
