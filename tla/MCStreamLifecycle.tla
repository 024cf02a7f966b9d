-------------------------- MODULE MCStreamLifecycle --------------------------
(* Small instances of StreamLifecycle for TLC. *)
EXTENDS StreamLifecycle, TLC

\* Viewers, tasks and button presses are interchangeable.
Symmetry == Permutations(Viewers) \cup Permutations(Loops)
            \cup Permutations(Idlers) \cup Permutations(Restarters)

\* "Start one producer for the first loopback consumer." (manager.py:883):
\* a wanted stream has a producer unless a stop is about to return.  Without
\* the proviso of RequestServed, that no connect falls into a stop's window.
ViewerHasProducer ==
  Wanted /\ (\A c \in Callers : ~Stopping(c)) => NotTakenDown(task)
==============================================================================
