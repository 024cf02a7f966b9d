------------------------------ MODULE ChildSlot ------------------------------
(***************************************************************************)
(* What OwletHelperProcessRunner promises in its docstring                 *)
(* (runtime/process.py:46): "Own at most one child process".  A slot holds *)
(* one live child; a child lives once.                                     *)
(***************************************************************************)
CONSTANTS Procs, None

VARIABLES slot, spent

vars == <<slot, spent>>

Init == slot = None /\ spent = {}

Starts(p) ==
  /\ slot = None /\ p \notin spent
  /\ slot' = p
  /\ UNCHANGED spent

Ends ==
  /\ slot # None
  /\ slot' = None
  /\ spent' = spent \cup {slot}

Next == Ends \/ \E p \in Procs : Starts(p)

Spec == Init /\ [][Next]_vars
==============================================================================
