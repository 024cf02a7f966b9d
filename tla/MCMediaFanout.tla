---------------------------- MODULE MCMediaFanout ----------------------------
(* Small instances of MediaFanout for TLC. *)
EXTENDS MediaFanout

Symmetry == Permutations(Clients) \cup Permutations(Nals)
==============================================================================
