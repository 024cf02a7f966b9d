---------------------------- MODULE MCNativeHelper ----------------------------
(* Small instances of NativeHelper for TLC. *)
EXTENDS NativeHelper
==============================================================================
