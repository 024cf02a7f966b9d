--------------------------- MODULE MCEntryLifecycle ---------------------------
(* Small instances of EntryLifecycle for TLC. *)
EXTENDS EntryLifecycle
==============================================================================
