------------------------- MODULE StreamLifecycleProofs -------------------------
(***************************************************************************)
(* Proofs about StreamLifecycle for every set of viewers, tasks and calls. *)
(* Shape holds whatever happens; Service holds until a connect overlaps a  *)
(* stop's window, and is where the safety properties come from.            *)
(***************************************************************************)
EXTENDS StreamLifecycle, TLAPS

------------------------------------------------------------------------------
\* A stop has a saved task exactly while it is under way and it awaits one.
SavedShape ==
  \A c \in Callers :
    /\ saved[c] # None => Stopping(c)
    /\ InWindow(c) => saved[c] # None
    /\ pc[c] = "returning" => Settled(saved[c])

\* One caller at a time runs on without yielding, and it has the lock free.
RunningShape ==
  /\ \A c, d \in Callers : pc[c] \in Running /\ pc[d] \in Running => c = d
  /\ \A c \in Callers : pc[c] \in {"entering", "reconnecting"} => ~Held
  /\ had \subseteq Restarters

\* Only a stop that timed out has cancelled a task, and it waits for it.
CancelShape ==
  \A l \in cancel :
    Live(l) /\ \E c \in Callers : pc[c] = "gather" /\ saved[c] = l

\* The runner's lock, the sessions and the child agree.
RunnerShape ==
  /\ \A l \in Loops : InSession(l) <=> runner = l
  /\ oneshot = "run" <=> runner = OneShot
  /\ child # "none" => \/ runner = OneShot
                       \/ \E l \in Loops : runner = l /\ loop[l] = "stream"

\* The idle-disconnect task others may cancel has not entered its stop yet.
IdleShape == idle # None => pc[idle] \in {"sleep", "entering", "want"}

Shape == SavedShape /\ RunningShape /\ CancelShape /\ RunnerShape /\ IdleShape

\* Until a connect overlaps a window: a stop under way means no request, and
\* the task it saved is the current one unless another stop has reset that.
StopOwnsTask ==
  ~overlapped => \A c \in Callers : Stopping(c) =>
                   ~requested /\ (task = None \/ saved[c] = task)

LockedVisible ==
  ~overlapped => \A l \in Loops : loop[l] \in {"lock", "spawn", "stream"} => active

Service ==
  /\ TrackedProducer /\ RequestServed /\ StopQuiesces
  /\ StopOwnsTask /\ LockedVisible

------------------------------------------------------------------------------
\* A departing viewer only moves idle tasks that have not entered a stop.
LEMMA LeaveMovesIdlers ==
  ASSUME RangesOK, IdleShape, Yielded, NEW v \in Viewers, Leave(v)
  PROVE  /\ pc' \in [Callers -> PC]
         /\ \A c \in Callers :
              \/ pc'[c] = pc[c]
              \/ pc[c] \in {"free", "sleep", "want"} /\ pc'[c] \in {"free", "sleep"}
         /\ idle' # None => pc'[idle'] \in {"sleep", "want"}
<1> USE ConstantsAssumption DEF RangesOK, Callers, PC
<1>1. CASE UNCHANGED <<idle, pc>>
  BY <1>1 DEF IdleShape, Yielded, Running
<1>2. ASSUME NEW i \in Idlers, pc[i] = "free" \/ i = idle, idle' = i,
             pc' = [IdleCancelled(pc) EXCEPT ![i] = "sleep"]
      PROVE  /\ pc' \in [Callers -> PC]
             /\ \A c \in Callers :
                  \/ pc'[c] = pc[c]
                  \/ /\ pc[c] \in {"free", "sleep", "want"}
                     /\ pc'[c] \in {"free", "sleep"}
             /\ idle' # None => pc'[idle'] \in {"sleep", "want"}
  <2>1. \A c \in Callers :
          pc'[c] = IF c = i THEN "sleep" ELSE IF c = idle THEN "free" ELSE pc[c]
    BY <1>2 DEF IdleCancelled
  <2>2. pc' \in [Callers -> PC]
    BY <1>2 DEF IdleCancelled
  <2> QED
    BY <1>2, <2>1, <2>2 DEF IdleShape, Yielded, Running
<1> QED
  BY <1>1, <1>2 DEF Leave, NoTeardown

\* What a connect does to the producer tasks.
LEMMA ConnectFacts ==
  ASSUME RangesOK, ConnectBody
  PROVE  /\ task' \in Loops /\ ~(Finished(task)')
         /\ \A l \in Loops : l # task' => loop'[l] = loop[l]
         /\ \/ task' = task /\ loop' = loop
            \/ Fresh(task') /\ loop'[task'] = "new" /\ Settled(task)
         /\ idle' = None
<1> USE ConstantsAssumption DEF RangesOK, LoopState, Finished, Live, Settled
<1>1. CASE task # None /\ Live(task)
  BY <1>1 DEF ConnectBody, ProducerRuns
<1>2. CASE ~(task # None /\ Live(task))
  <2>1. PICK l \in Loops : Fresh(l) /\ task' = l /\ loop' = [loop EXCEPT ![l] = "new"]
    BY <1>2 DEF ConnectBody, ProducerRuns, StartProducer
  <2> QED
    BY <1>2, <2>1 DEF ConnectBody, ProducerRuns
<1> QED
  BY <1>1, <1>2

\* A connect leaves every task that is not over where it is.
LEMMA ConnectMovesNoLiveTask ==
  ASSUME RangesOK, ConnectBody
  PROVE  \A l \in Loops : Live(l) => loop'[l] = loop[l]
BY ConnectFacts DEF RangesOK, Fresh, Live, Finished

\* A restart's second half leaves every other call where it is, but for an
\* idle task it cancels.
LEMMA ReconnectMovesCaller ==
  ASSUME RangesOK, Shape, NEW c \in Callers, Alone(c), Reconnect(c)
  PROVE  /\ pc[c] \in {"reconnecting", "reconnect"} /\ pc'[c] = "free" /\ ~Held
         /\ \A d \in Callers :
              d # c => \/ pc'[d] = pc[d]
                       \/ pc[d] \in {"free", "sleep", "want"} /\ pc'[d] = "free"
<1> USE ConstantsAssumption DEF RangesOK, Callers
<1>1. pc[c] \in {"reconnecting", "reconnect"} /\ ~Held
  BY DEF Reconnect, Shape, RunningShape
<1>2. idle # None => pc[idle] \in {"sleep", "want"}
  BY <1>1 DEF Shape, IdleShape, Alone, Running
<1>3. CASE pc' = [IdleCancelled(pc) EXCEPT ![c] = "free"]
  <2>1. \A d \in Callers :
          pc'[d] = IF d = c THEN "free" ELSE IF d = idle THEN "free" ELSE pc[d]
    BY <1>3 DEF IdleCancelled
  <2> QED
    BY <1>1, <1>2, <2>1
<1>4. CASE pc' = [pc EXCEPT ![c] = "free"]
  BY <1>1, <1>4
<1> QED
  BY <1>3, <1>4 DEF Reconnect

\* The Boolean variables and, below, all others keep their ranges.
LEMMA FlagsInvariant == Spec => []FlagsOK
<1> USE DEF FlagsOK, PC, LoopState, Callers
<1>1. Init => FlagsOK
  BY DEF Init
<1>2. FlagsOK /\ [Next]_vars => FlagsOK'
  <2> SUFFICES ASSUME FlagsOK, [Next]_vars PROVE FlagsOK'
    OBVIOUS
  <2>1. ASSUME NEW v \in Viewers, Arrive(v) PROVE FlagsOK'
    BY <2>1 DEF Arrive, Admit, ConnectBody, ProducerRuns, StartProducer, IdleCancelled
  <2>2. ASSUME NEW v \in Viewers, Admitted(v) PROVE FlagsOK'
    BY <2>2 DEF Admitted, Admit, ConnectBody, ProducerRuns, StartProducer, IdleCancelled
  <2>3. ASSUME NEW v \in Viewers, Leave(v) PROVE FlagsOK'
    BY <2>3 DEF Leave, NoTeardown, IdleCancelled
  <2>4. ASSUME NEW i \in Idlers, IdleFires(i) PROVE FlagsOK'
    BY <2>4 DEF IdleFires, Call
  <2>5. ASSUME NEW c \in Restarters, Restart(c) PROVE FlagsOK'
    BY <2>5 DEF Restart, Call
  <2>6. ASSUME NEW c \in Deleters, Delete(c) PROVE FlagsOK'
    BY <2>6 DEF Delete, Call
  <2>7. CASE Shutdown
    BY <2>7 DEF Shutdown, Call
  <2>8. CASE Close
    BY <2>8 DEF Close
  <2>9. ASSUME NEW c \in Callers, EnterStop(c) PROVE FlagsOK'
    BY <2>9 DEF EnterStop, ClearRequest, IdleCancelled
  <2>10. ASSUME NEW c \in Callers, ChildReaped(c) PROVE FlagsOK'
    BY <2>10 DEF ChildReaped
  <2>11. ASSUME NEW c \in Callers, StopTimesOut(c) PROVE FlagsOK'
    BY <2>11 DEF StopTimesOut, CancelTask, Settled, Finished
  <2>12. ASSUME NEW c \in Callers, StopReturns(c) PROVE FlagsOK'
    BY <2>12 DEF StopReturns, Gathered, AfterStop
  <2>13. ASSUME NEW c \in Callers, StopAborts(c) PROVE FlagsOK'
    BY <2>13 DEF StopAborts
  <2>14. ASSUME NEW c \in Callers, Reconnect(c) PROVE FlagsOK'
    BY <2>14 DEF Reconnect, ConnectBody, ProducerRuns, StartProducer, IdleCancelled
  <2>15. ASSUME NEW c \in Callers, DeleteFiles(c) PROVE FlagsOK'
    BY <2>15 DEF DeleteFiles
  <2>16. ASSUME NEW l \in Loops, LoopTop(l) PROVE FlagsOK'
    BY <2>16 DEF LoopTop, EndSession
  <2>17. ASSUME NEW l \in Loops, CredentialsArrive(l) PROVE FlagsOK'
    BY <2>17 DEF CredentialsArrive, ShowSession
  <2>18. ASSUME NEW l \in Loops, CredentialsFail(l) PROVE FlagsOK'
    BY <2>18 DEF CredentialsFail, EndSession
  <2>19. ASSUME NEW l \in Loops, TakeRunner(l) PROVE FlagsOK'
    BY <2>19 DEF TakeRunner, RunnerFree
  <2>20. ASSUME NEW l \in Loops, Spawn(l) PROVE FlagsOK'
    BY <2>20 DEF Spawn, EndSession
  <2>21. ASSUME NEW l \in Loops, Frame(l) PROVE FlagsOK'
    BY <2>21 DEF Frame
  <2>22. ASSUME NEW l \in Loops, FramesFail(l) PROVE FlagsOK'
    BY <2>22 DEF FramesFail
  <2>23. ASSUME NEW l \in Loops, SessionEnds(l) PROVE FlagsOK'
    BY <2>23 DEF SessionEnds, EndSession
  <2>24. ASSUME NEW l \in Loops, CancelKills(l) PROVE FlagsOK'
    BY <2>24 DEF CancelKills
  <2>25. ASSUME NEW l \in Loops, Cancelled(l) PROVE FlagsOK'
    BY <2>25 DEF Cancelled, LetGo
  <2>26. CASE ChildExits
    BY <2>26 DEF ChildExits
  <2>27. CASE OneShotStarts
    BY <2>27 DEF OneShotStarts
  <2>28. CASE OneShotRuns
    BY <2>28 DEF OneShotRuns, RunnerFree
  <2>29. CASE OneShotEnds
    BY <2>29 DEF OneShotEnds
  <2>30. CASE UNCHANGED vars
    BY <2>30 DEF vars
  <2>31. CASE OneShotLetsGo
    BY <2>31 DEF OneShotLetsGo, LetGo
  <2>32. CASE StrayExits
    BY <2>32 DEF StrayExits
  <2>33. ASSUME NEW l \in Loops, LoopRaises(l) PROVE FlagsOK'
    BY <2>33 DEF LoopRaises
  <2> QED
    BY <2>1, <2>2, <2>3, <2>4, <2>5, <2>6, <2>7, <2>8, <2>9, <2>10, <2>11,
       <2>12, <2>13, <2>14, <2>15, <2>16, <2>17, <2>18, <2>19, <2>20, <2>21,
       <2>22, <2>23, <2>24, <2>25, <2>26, <2>27, <2>28, <2>29, <2>30,
       <2>31, <2>32, <2>33
       DEF Next, Continue, ViewerStep, CallerStep, LoopStep
<1> QED
  BY <1>1, <1>2, PTL DEF Spec

\* A stop keeps its saved task until it returns.
LEMMA SavedShapeStep ==
  ASSUME RangesOK, Shape, [Next]_vars
  PROVE  SavedShape'
<1> USE ConstantsAssumption
  DEF Shape, SavedShape, RunningShape, CancelShape, RunnerShape, IdleShape,
      Stopping, InWindow, Settled, Finished, Live, InSession, Running, Held,
      LockFree, Yielded, Alone, Callers, RangesOK, PC, LoopState
<1>1. ASSUME Yielded, NEW v \in Viewers, ViewerStep(v) PROVE SavedShape'
  <2>1. CASE Arrive(v)
    BY <1>1, <2>1 DEF Arrive, Admit, ConnectBody, ProducerRuns, StartProducer, IdleCancelled
  <2>2. CASE Admitted(v)
    BY <1>1, <2>2 DEF Admitted, Admit, ConnectBody, ProducerRuns, StartProducer,
        IdleCancelled
  <2>3. CASE Leave(v)
    BY <1>1, <2>3, LeaveMovesIdlers DEF Leave, NoTeardown
  <2> QED
    BY <1>1, <2>1, <2>2, <2>3 DEF ViewerStep
<1>2. ASSUME NEW c \in Callers, Alone(c), CallerStep(c) PROVE SavedShape'
  <2>1. CASE EnterStop(c)
    BY <1>2, <2>1 DEF EnterStop, ClearRequest, IdleCancelled
  <2>2. CASE ChildReaped(c)
    BY <1>2, <2>2 DEF ChildReaped
  <2>3. CASE StopTimesOut(c)
    BY <1>2, <2>3 DEF StopTimesOut, CancelTask
  <2>4. CASE StopReturns(c)
    BY <1>2, <2>4 DEF StopReturns, Gathered, AfterStop
  <2>5. CASE StopAborts(c)
    BY <1>2, <2>5 DEF StopAborts
  <2>6. CASE Reconnect(c)
    BY <1>2, <2>6, ReconnectMovesCaller, ConnectFacts DEF Reconnect, Fresh
  <2>7. CASE DeleteFiles(c)
    BY <1>2, <2>7 DEF DeleteFiles
  <2> QED
    BY <1>2, <2>1, <2>2, <2>3, <2>4, <2>5, <2>6, <2>7 DEF CallerStep
<1>3. ASSUME Yielded, NEW l \in Loops, LoopStep(l) PROVE SavedShape'
  <2>1. CASE LoopTop(l)
    BY <1>3, <2>1 DEF LoopTop, EndSession
  <2>2. CASE CredentialsArrive(l)
    BY <1>3, <2>2 DEF CredentialsArrive, ShowSession
  <2>3. CASE CredentialsFail(l)
    BY <1>3, <2>3 DEF CredentialsFail, EndSession
  <2>4. CASE TakeRunner(l)
    BY <1>3, <2>4 DEF TakeRunner, RunnerFree
  <2>5. CASE Spawn(l)
    BY <1>3, <2>5 DEF Spawn, EndSession
  <2>6. CASE Frame(l)
    BY <1>3, <2>6 DEF Frame
  <2>7. CASE FramesFail(l)
    BY <1>3, <2>7 DEF FramesFail
  <2>8. CASE SessionEnds(l)
    BY <1>3, <2>8 DEF SessionEnds, EndSession
  <2>9. CASE CancelKills(l)
    BY <1>3, <2>9 DEF CancelKills
  <2>10. CASE Cancelled(l)
    BY <1>3, <2>10 DEF Cancelled, LetGo
  <2>11. CASE LoopRaises(l)
    BY <1>3, <2>11 DEF LoopRaises, Wanted
  <2> QED
    BY <1>3, <2>1, <2>2, <2>3, <2>4, <2>5, <2>6, <2>7, <2>8, <2>9, <2>10, <2>11
       DEF LoopStep
<1>4. ASSUME Yielded, NEW i \in Idlers, IdleFires(i) PROVE SavedShape'
  BY <1>4 DEF IdleFires, Call
<1>5. ASSUME Yielded, NEW c \in Restarters, Restart(c) PROVE SavedShape'
  BY <1>5 DEF Restart, Call
<1>6. ASSUME Yielded, NEW c \in Deleters, Delete(c) PROVE SavedShape'
  BY <1>6 DEF Delete, Call
<1>7. ASSUME Yielded, Shutdown PROVE SavedShape'
  BY <1>7 DEF Shutdown, Call
<1>8. ASSUME Yielded, Close PROVE SavedShape'
  BY <1>8 DEF Close
<1>9. ASSUME Yielded, ChildExits PROVE SavedShape'
  BY <1>9 DEF ChildExits
<1>10. ASSUME Yielded, OneShotStarts PROVE SavedShape'
  BY <1>10 DEF OneShotStarts
<1>11. ASSUME Yielded, OneShotRuns PROVE SavedShape'
  BY <1>11 DEF OneShotRuns, RunnerFree
<1>12. ASSUME Yielded, OneShotEnds PROVE SavedShape'
  BY <1>12 DEF OneShotEnds
<1>13. ASSUME Yielded, OneShotLetsGo PROVE SavedShape'
  BY <1>13 DEF OneShotLetsGo, LetGo
<1>14. ASSUME Yielded, StrayExits PROVE SavedShape'
  BY <1>14 DEF StrayExits
<1>15. CASE UNCHANGED vars
  BY <1>15 DEF vars
<1> QED
  BY <1>1, <1>2, <1>3, <1>4, <1>5, <1>6, <1>7, <1>8, <1>9, <1>10, <1>11,
     <1>12, <1>13, <1>14, <1>15
     DEF Next, Continue, CallerStep, Yielded, Alone

\* Only one caller runs on, and never while the lock is held.
LEMMA RunningShapeStep ==
  ASSUME RangesOK, Shape, [Next]_vars
  PROVE  RunningShape'
<1> USE ConstantsAssumption
  DEF Shape, SavedShape, RunningShape, CancelShape, RunnerShape, IdleShape,
      Stopping, InWindow, Settled, Finished, Live, InSession, Running, Held,
      LockFree, Yielded, Alone, Callers, RangesOK, PC, LoopState
<1>1. ASSUME Yielded, NEW v \in Viewers, ViewerStep(v) PROVE RunningShape'
  <2>1. CASE Arrive(v)
    BY <1>1, <2>1 DEF Arrive, Admit, ConnectBody, ProducerRuns, StartProducer, IdleCancelled
  <2>2. CASE Admitted(v)
    BY <1>1, <2>2 DEF Admitted, Admit, ConnectBody, ProducerRuns, StartProducer,
        IdleCancelled
  <2>3. CASE Leave(v)
    <3>1. UNCHANGED <<saved, had, loop, cancel>>
      BY <2>3 DEF Leave, NoTeardown
    <3> QED
      BY <1>1, <2>3, <3>1, LeaveMovesIdlers
  <2> QED
    BY <1>1, <2>1, <2>2, <2>3 DEF ViewerStep
<1>2. ASSUME NEW c \in Callers, Alone(c), CallerStep(c) PROVE RunningShape'
  <2>1. CASE EnterStop(c)
    BY <1>2, <2>1 DEF EnterStop, ClearRequest, IdleCancelled
  <2>2. CASE ChildReaped(c)
    BY <1>2, <2>2 DEF ChildReaped
  <2>3. CASE StopTimesOut(c)
    BY <1>2, <2>3 DEF StopTimesOut, CancelTask
  <2>4. CASE StopReturns(c)
    BY <1>2, <2>4 DEF StopReturns, Gathered, AfterStop
  <2>5. CASE StopAborts(c)
    BY <1>2, <2>5 DEF StopAborts
  <2>6. CASE Reconnect(c)
    BY <1>2, <2>6, ReconnectMovesCaller, ConnectFacts DEF Reconnect, Fresh
  <2>7. CASE DeleteFiles(c)
    BY <1>2, <2>7 DEF DeleteFiles
  <2> QED
    BY <1>2, <2>1, <2>2, <2>3, <2>4, <2>5, <2>6, <2>7 DEF CallerStep
<1>3. ASSUME Yielded, NEW l \in Loops, LoopStep(l) PROVE RunningShape'
  <2>1. CASE LoopTop(l)
    BY <1>3, <2>1 DEF LoopTop, EndSession
  <2>2. CASE CredentialsArrive(l)
    BY <1>3, <2>2 DEF CredentialsArrive, ShowSession
  <2>3. CASE CredentialsFail(l)
    BY <1>3, <2>3 DEF CredentialsFail, EndSession
  <2>4. CASE TakeRunner(l)
    BY <1>3, <2>4 DEF TakeRunner, RunnerFree
  <2>5. CASE Spawn(l)
    BY <1>3, <2>5 DEF Spawn, EndSession
  <2>6. CASE Frame(l)
    BY <1>3, <2>6 DEF Frame
  <2>7. CASE FramesFail(l)
    BY <1>3, <2>7 DEF FramesFail
  <2>8. CASE SessionEnds(l)
    BY <1>3, <2>8 DEF SessionEnds, EndSession
  <2>9. CASE CancelKills(l)
    BY <1>3, <2>9 DEF CancelKills
  <2>10. CASE Cancelled(l)
    BY <1>3, <2>10 DEF Cancelled, LetGo
  <2>11. CASE LoopRaises(l)
    BY <1>3, <2>11 DEF LoopRaises, Wanted
  <2> QED
    BY <1>3, <2>1, <2>2, <2>3, <2>4, <2>5, <2>6, <2>7, <2>8, <2>9, <2>10, <2>11
       DEF LoopStep
<1>4. ASSUME Yielded, NEW i \in Idlers, IdleFires(i) PROVE RunningShape'
  BY <1>4 DEF IdleFires, Call
<1>5. ASSUME Yielded, NEW c \in Restarters, Restart(c) PROVE RunningShape'
  BY <1>5 DEF Restart, Call
<1>6. ASSUME Yielded, NEW c \in Deleters, Delete(c) PROVE RunningShape'
  BY <1>6 DEF Delete, Call
<1>7. ASSUME Yielded, Shutdown PROVE RunningShape'
  BY <1>7 DEF Shutdown, Call
<1>8. ASSUME Yielded, Close PROVE RunningShape'
  BY <1>8 DEF Close
<1>9. ASSUME Yielded, ChildExits PROVE RunningShape'
  BY <1>9 DEF ChildExits
<1>10. ASSUME Yielded, OneShotStarts PROVE RunningShape'
  BY <1>10 DEF OneShotStarts
<1>11. ASSUME Yielded, OneShotRuns PROVE RunningShape'
  BY <1>11 DEF OneShotRuns, RunnerFree
<1>12. ASSUME Yielded, OneShotEnds PROVE RunningShape'
  BY <1>12 DEF OneShotEnds
<1>13. ASSUME Yielded, OneShotLetsGo PROVE RunningShape'
  BY <1>13 DEF OneShotLetsGo, LetGo
<1>14. ASSUME Yielded, StrayExits PROVE RunningShape'
  BY <1>14 DEF StrayExits
<1>15. CASE UNCHANGED vars
  BY <1>15 DEF vars
<1> QED
  BY <1>1, <1>2, <1>3, <1>4, <1>5, <1>6, <1>7, <1>8, <1>9, <1>10, <1>11,
     <1>12, <1>13, <1>14, <1>15
     DEF Next, Continue, CallerStep, Yielded, Alone

\* A cancelled task is live until the cancellation is delivered.
LEMMA CancelShapeStep ==
  ASSUME RangesOK, Shape, [Next]_vars
  PROVE  CancelShape'
<1> USE ConstantsAssumption
  DEF Shape, SavedShape, RunningShape, CancelShape, RunnerShape, IdleShape,
      Stopping, InWindow, Settled, Finished, Live, InSession, Running, Held,
      LockFree, Yielded, Alone, Callers, RangesOK, PC, LoopState
<1>1. ASSUME Yielded, NEW v \in Viewers, ViewerStep(v) PROVE CancelShape'
  <2>1. CASE Arrive(v)
    BY <1>1, <2>1 DEF Arrive, Admit, ConnectBody, ProducerRuns, StartProducer, IdleCancelled
  <2>2. CASE Admitted(v)
    BY <1>1, <2>2 DEF Admitted, Admit, ConnectBody, ProducerRuns, StartProducer,
        IdleCancelled
  <2>3. CASE Leave(v)
    <3>1. UNCHANGED <<saved, had, loop, cancel>>
      BY <2>3 DEF Leave, NoTeardown
    <3> QED
      BY <1>1, <2>3, <3>1, LeaveMovesIdlers
  <2> QED
    BY <1>1, <2>1, <2>2, <2>3 DEF ViewerStep
<1>2. ASSUME NEW c \in Callers, Alone(c), CallerStep(c) PROVE CancelShape'
  <2>1. CASE EnterStop(c)
    BY <1>2, <2>1 DEF EnterStop, ClearRequest, IdleCancelled
  <2>2. CASE ChildReaped(c)
    BY <1>2, <2>2 DEF ChildReaped
  <2>3. CASE StopTimesOut(c)
    BY <1>2, <2>3 DEF StopTimesOut, CancelTask
  <2>4. CASE StopReturns(c)
    BY <1>2, <2>4 DEF StopReturns, Gathered, AfterStop
  <2>5. CASE StopAborts(c)
    BY <1>2, <2>5 DEF StopAborts
  <2>6. CASE Reconnect(c)
    BY <1>2, <2>6, ReconnectMovesCaller, ConnectFacts DEF Reconnect, Fresh
  <2>7. CASE DeleteFiles(c)
    BY <1>2, <2>7 DEF DeleteFiles
  <2> QED
    BY <1>2, <2>1, <2>2, <2>3, <2>4, <2>5, <2>6, <2>7 DEF CallerStep
<1>3. ASSUME Yielded, NEW l \in Loops, LoopStep(l) PROVE CancelShape'
  <2>1. CASE LoopTop(l)
    BY <1>3, <2>1 DEF LoopTop, EndSession
  <2>2. CASE CredentialsArrive(l)
    BY <1>3, <2>2 DEF CredentialsArrive, ShowSession
  <2>3. CASE CredentialsFail(l)
    BY <1>3, <2>3 DEF CredentialsFail, EndSession
  <2>4. CASE TakeRunner(l)
    BY <1>3, <2>4 DEF TakeRunner, RunnerFree
  <2>5. CASE Spawn(l)
    BY <1>3, <2>5 DEF Spawn, EndSession
  <2>6. CASE Frame(l)
    BY <1>3, <2>6 DEF Frame
  <2>7. CASE FramesFail(l)
    BY <1>3, <2>7 DEF FramesFail
  <2>8. CASE SessionEnds(l)
    BY <1>3, <2>8 DEF SessionEnds, EndSession
  <2>9. CASE CancelKills(l)
    BY <1>3, <2>9 DEF CancelKills
  <2>10. CASE Cancelled(l)
    BY <1>3, <2>10 DEF Cancelled, LetGo
  <2>11. CASE LoopRaises(l)
    BY <1>3, <2>11 DEF LoopRaises, Wanted
  <2> QED
    BY <1>3, <2>1, <2>2, <2>3, <2>4, <2>5, <2>6, <2>7, <2>8, <2>9, <2>10, <2>11
       DEF LoopStep
<1>4. ASSUME Yielded, NEW i \in Idlers, IdleFires(i) PROVE CancelShape'
  BY <1>4 DEF IdleFires, Call
<1>5. ASSUME Yielded, NEW c \in Restarters, Restart(c) PROVE CancelShape'
  BY <1>5 DEF Restart, Call
<1>6. ASSUME Yielded, NEW c \in Deleters, Delete(c) PROVE CancelShape'
  BY <1>6 DEF Delete, Call
<1>7. ASSUME Yielded, Shutdown PROVE CancelShape'
  BY <1>7 DEF Shutdown, Call
<1>8. ASSUME Yielded, Close PROVE CancelShape'
  BY <1>8 DEF Close
<1>9. ASSUME Yielded, ChildExits PROVE CancelShape'
  BY <1>9 DEF ChildExits
<1>10. ASSUME Yielded, OneShotStarts PROVE CancelShape'
  BY <1>10 DEF OneShotStarts
<1>11. ASSUME Yielded, OneShotRuns PROVE CancelShape'
  BY <1>11 DEF OneShotRuns, RunnerFree
<1>12. ASSUME Yielded, OneShotEnds PROVE CancelShape'
  BY <1>12 DEF OneShotEnds
<1>13. ASSUME Yielded, OneShotLetsGo PROVE CancelShape'
  BY <1>13 DEF OneShotLetsGo, LetGo
<1>14. ASSUME Yielded, StrayExits PROVE CancelShape'
  BY <1>14 DEF StrayExits
<1>15. CASE UNCHANGED vars
  BY <1>15 DEF vars
<1> QED
  BY <1>1, <1>2, <1>3, <1>4, <1>5, <1>6, <1>7, <1>8, <1>9, <1>10, <1>11,
     <1>12, <1>13, <1>14, <1>15
     DEF Next, Continue, CallerStep, Yielded, Alone

\* Sessions take and give back the runner's lock one by one.
LEMMA RunnerShapeStep ==
  ASSUME RangesOK, Shape, [Next]_vars
  PROVE  RunnerShape'
<1> USE ConstantsAssumption
  DEF Shape, SavedShape, RunningShape, CancelShape, RunnerShape, IdleShape,
      Stopping, InWindow, Settled, Finished, Live, InSession, Running, Held,
      LockFree, Yielded, Alone, Callers, RangesOK, PC, LoopState
<1>1. ASSUME Yielded, NEW v \in Viewers, ViewerStep(v) PROVE RunnerShape'
  <2>1. CASE Arrive(v)
    BY <1>1, <2>1, ConnectFacts DEF Arrive, Admit, Fresh
  <2>2. CASE Admitted(v)
    BY <1>1, <2>2, ConnectFacts DEF Admitted, Admit, Fresh
  <2>3. CASE Leave(v)
    BY <1>1, <2>3 DEF Leave, NoTeardown, IdleCancelled
  <2> QED
    BY <1>1, <2>1, <2>2, <2>3 DEF ViewerStep
<1>2. ASSUME NEW c \in Callers, Alone(c), CallerStep(c) PROVE RunnerShape'
  <2>1. CASE EnterStop(c)
    BY <1>2, <2>1 DEF EnterStop, ClearRequest, IdleCancelled
  <2>2. CASE ChildReaped(c)
    BY <1>2, <2>2 DEF ChildReaped
  <2>3. CASE StopTimesOut(c)
    BY <1>2, <2>3 DEF StopTimesOut, CancelTask
  <2>4. CASE StopReturns(c)
    BY <1>2, <2>4 DEF StopReturns, Gathered, AfterStop
  <2>5. CASE StopAborts(c)
    BY <1>2, <2>5 DEF StopAborts
  <2>6. CASE Reconnect(c)
    BY <1>2, <2>6, ConnectFacts DEF Reconnect, Fresh
  <2>7. CASE DeleteFiles(c)
    BY <1>2, <2>7 DEF DeleteFiles
  <2> QED
    BY <1>2, <2>1, <2>2, <2>3, <2>4, <2>5, <2>6, <2>7 DEF CallerStep
<1>3. ASSUME Yielded, NEW l \in Loops, LoopStep(l) PROVE RunnerShape'
  <2>1. CASE LoopTop(l)
    BY <1>3, <2>1 DEF LoopTop, EndSession
  <2>2. CASE CredentialsArrive(l)
    BY <1>3, <2>2 DEF CredentialsArrive, ShowSession
  <2>3. CASE CredentialsFail(l)
    BY <1>3, <2>3 DEF CredentialsFail, EndSession
  <2>4. CASE TakeRunner(l)
    BY <1>3, <2>4 DEF TakeRunner, RunnerFree
  <2>5. CASE Spawn(l)
    BY <1>3, <2>5 DEF Spawn, EndSession
  <2>6. CASE Frame(l)
    BY <1>3, <2>6 DEF Frame
  <2>7. CASE FramesFail(l)
    BY <1>3, <2>7 DEF FramesFail
  <2>8. CASE SessionEnds(l)
    BY <1>3, <2>8 DEF SessionEnds, EndSession
  <2>9. CASE CancelKills(l)
    BY <1>3, <2>9 DEF CancelKills
  <2>10. CASE Cancelled(l)
    BY <1>3, <2>10 DEF Cancelled, LetGo
  <2>11. CASE LoopRaises(l)
    BY <1>3, <2>11 DEF LoopRaises, Wanted
  <2> QED
    BY <1>3, <2>1, <2>2, <2>3, <2>4, <2>5, <2>6, <2>7, <2>8, <2>9, <2>10, <2>11
       DEF LoopStep
<1>4. ASSUME Yielded, NEW i \in Idlers, IdleFires(i) PROVE RunnerShape'
  BY <1>4 DEF IdleFires, Call
<1>5. ASSUME Yielded, NEW c \in Restarters, Restart(c) PROVE RunnerShape'
  BY <1>5 DEF Restart, Call
<1>6. ASSUME Yielded, NEW c \in Deleters, Delete(c) PROVE RunnerShape'
  BY <1>6 DEF Delete, Call
<1>7. ASSUME Yielded, Shutdown PROVE RunnerShape'
  BY <1>7 DEF Shutdown, Call
<1>8. ASSUME Yielded, Close PROVE RunnerShape'
  BY <1>8 DEF Close
<1>9. ASSUME Yielded, ChildExits PROVE RunnerShape'
  BY <1>9 DEF ChildExits
<1>10. ASSUME Yielded, OneShotStarts PROVE RunnerShape'
  BY <1>10 DEF OneShotStarts
<1>11. ASSUME Yielded, OneShotRuns PROVE RunnerShape'
  BY <1>11 DEF OneShotRuns, RunnerFree
<1>12. ASSUME Yielded, OneShotEnds PROVE RunnerShape'
  BY <1>12 DEF OneShotEnds
<1>13. ASSUME Yielded, OneShotLetsGo PROVE RunnerShape'
  BY <1>13 DEF OneShotLetsGo, LetGo
<1>14. ASSUME Yielded, StrayExits PROVE RunnerShape'
  BY <1>14 DEF StrayExits
<1>15. CASE UNCHANGED vars
  BY <1>15 DEF vars
<1> QED
  BY <1>1, <1>2, <1>3, <1>4, <1>5, <1>6, <1>7, <1>8, <1>9, <1>10, <1>11,
     <1>12, <1>13, <1>14, <1>15
     DEF Next, Continue, CallerStep, Yielded, Alone

\* The task in _idle_disconnect_task has not entered its stop.
LEMMA IdleShapeStep ==
  ASSUME RangesOK, Shape, [Next]_vars
  PROVE  IdleShape'
<1> USE ConstantsAssumption
  DEF Shape, SavedShape, RunningShape, CancelShape, RunnerShape, IdleShape,
      Stopping, InWindow, Settled, Finished, Live, InSession, Running, Held,
      LockFree, Yielded, Alone, Callers, RangesOK, PC, LoopState
<1>1. ASSUME Yielded, NEW v \in Viewers, ViewerStep(v) PROVE IdleShape'
  <2>1. CASE Arrive(v)
    BY <1>1, <2>1 DEF Arrive, Admit, ConnectBody, ProducerRuns, StartProducer, IdleCancelled
  <2>2. CASE Admitted(v)
    BY <1>1, <2>2 DEF Admitted, Admit, ConnectBody, ProducerRuns, StartProducer,
        IdleCancelled
  <2>3. CASE Leave(v)
    BY <1>1, <2>3 DEF Leave, NoTeardown, IdleCancelled
  <2> QED
    BY <1>1, <2>1, <2>2, <2>3 DEF ViewerStep
<1>2. ASSUME NEW c \in Callers, Alone(c), CallerStep(c) PROVE IdleShape'
  <2>1. CASE EnterStop(c)
    BY <1>2, <2>1 DEF EnterStop, ClearRequest, IdleCancelled
  <2>2. CASE ChildReaped(c)
    BY <1>2, <2>2 DEF ChildReaped
  <2>3. CASE StopTimesOut(c)
    BY <1>2, <2>3 DEF StopTimesOut, CancelTask
  <2>4. CASE StopReturns(c)
    BY <1>2, <2>4 DEF StopReturns, Gathered, AfterStop
  <2>5. CASE StopAborts(c)
    BY <1>2, <2>5 DEF StopAborts
  <2>6. CASE Reconnect(c)
    BY <1>2, <2>6 DEF Reconnect, ConnectBody, ProducerRuns, StartProducer, IdleCancelled
  <2>7. CASE DeleteFiles(c)
    BY <1>2, <2>7 DEF DeleteFiles
  <2> QED
    BY <1>2, <2>1, <2>2, <2>3, <2>4, <2>5, <2>6, <2>7 DEF CallerStep
<1>3. ASSUME Yielded, NEW l \in Loops, LoopStep(l) PROVE IdleShape'
  <2>1. CASE LoopTop(l)
    BY <1>3, <2>1 DEF LoopTop, EndSession
  <2>2. CASE CredentialsArrive(l)
    BY <1>3, <2>2 DEF CredentialsArrive, ShowSession
  <2>3. CASE CredentialsFail(l)
    BY <1>3, <2>3 DEF CredentialsFail, EndSession
  <2>4. CASE TakeRunner(l)
    BY <1>3, <2>4 DEF TakeRunner, RunnerFree
  <2>5. CASE Spawn(l)
    BY <1>3, <2>5 DEF Spawn, EndSession
  <2>6. CASE Frame(l)
    BY <1>3, <2>6 DEF Frame
  <2>7. CASE FramesFail(l)
    BY <1>3, <2>7 DEF FramesFail
  <2>8. CASE SessionEnds(l)
    BY <1>3, <2>8 DEF SessionEnds, EndSession
  <2>9. CASE CancelKills(l)
    BY <1>3, <2>9 DEF CancelKills
  <2>10. CASE Cancelled(l)
    BY <1>3, <2>10 DEF Cancelled, LetGo
  <2>11. CASE LoopRaises(l)
    BY <1>3, <2>11 DEF LoopRaises, Wanted
  <2> QED
    BY <1>3, <2>1, <2>2, <2>3, <2>4, <2>5, <2>6, <2>7, <2>8, <2>9, <2>10, <2>11
       DEF LoopStep
<1>4. ASSUME Yielded, NEW i \in Idlers, IdleFires(i) PROVE IdleShape'
  BY <1>4 DEF IdleFires, Call
<1>5. ASSUME Yielded, NEW c \in Restarters, Restart(c) PROVE IdleShape'
  BY <1>5 DEF Restart, Call
<1>6. ASSUME Yielded, NEW c \in Deleters, Delete(c) PROVE IdleShape'
  BY <1>6 DEF Delete, Call
<1>7. ASSUME Yielded, Shutdown PROVE IdleShape'
  BY <1>7 DEF Shutdown, Call
<1>8. ASSUME Yielded, Close PROVE IdleShape'
  BY <1>8 DEF Close
<1>9. ASSUME Yielded, ChildExits PROVE IdleShape'
  BY <1>9 DEF ChildExits
<1>10. ASSUME Yielded, OneShotStarts PROVE IdleShape'
  BY <1>10 DEF OneShotStarts
<1>11. ASSUME Yielded, OneShotRuns PROVE IdleShape'
  BY <1>11 DEF OneShotRuns, RunnerFree
<1>12. ASSUME Yielded, OneShotEnds PROVE IdleShape'
  BY <1>12 DEF OneShotEnds
<1>13. ASSUME Yielded, OneShotLetsGo PROVE IdleShape'
  BY <1>13 DEF OneShotLetsGo, LetGo
<1>14. ASSUME Yielded, StrayExits PROVE IdleShape'
  BY <1>14 DEF StrayExits
<1>15. CASE UNCHANGED vars
  BY <1>15 DEF vars
<1> QED
  BY <1>1, <1>2, <1>3, <1>4, <1>5, <1>6, <1>7, <1>8, <1>9, <1>10, <1>11,
     <1>12, <1>13, <1>14, <1>15
     DEF Next, Continue, CallerStep, Yielded, Alone

\* Until it overlaps a window, a connect finds no stop under way, so the one
\* producer is the task it leaves in _stream_task.
LEMMA ConnectKeepsService ==
  ASSUME RangesOK, FlagsOK, Service, ConnectBody, ~Held,
         \A d \in Callers : pc[d] # "returning",
         \A d \in Callers : pc'[d] = pc[d] \/ pc'[d] = "free",
         UNCHANGED <<shutdown, saved, active>>
  PROVE  Service'
<1> USE ConstantsAssumption
<1>1. CASE overlapped'
  BY <1>1 DEF Service, TrackedProducer, RequestServed, NotTakenDown, StopQuiesces,
              StopOwnsTask, LockedVisible
<1>2. CASE ~overlapped'
  <2>1. ~overlapped /\ requested'
    BY <1>2 DEF ConnectBody, ProducerRuns
  <2>2. \A c \in Callers : ~InWindow(c)
    BY <1>2 DEF ConnectBody, ProducerRuns
  <2>3. \A c \in Callers : ~Stopping(c)'
    BY <2>2 DEF Stopping, InWindow, Held
  <2>4. TrackedProducer' /\ task' # None /\ Live(task)' /\ LockedVisible'
    BY <2>1, ConnectFacts
       DEF Service, TrackedProducer, LockedVisible, Fresh, Live, Finished,
           Settled, RangesOK
  <2> QED
    BY <2>1, <2>3, <2>4
       DEF Service, RequestServed, NotTakenDown, StopQuiesces, StopOwnsTask,
           Live, Finished
<1> QED
  BY <1>1, <1>2

\* Every step keeps the service invariant.
LEMMA ServiceStep ==
  ASSUME RangesOK, FlagsOK, Shape, Service, [Next]_vars
  PROVE  Service'
<1> USE ConstantsAssumption
  DEF Service, TrackedProducer, RequestServed, NotTakenDown, StopQuiesces,
      StopOwnsTask, LockedVisible, FlagsOK, Shape, SavedShape, RunningShape, CancelShape,
      RunnerShape, IdleShape, Stopping, InWindow, Settled, Finished, Live,
      InSession, Running, Held, LockFree, Yielded, Alone, Callers, RangesOK, PC, LoopState
<1>1. ASSUME Yielded, NEW v \in Viewers, ViewerStep(v) PROVE Service'
  <2>1. CASE Arrive(v)
    <3>1. UNCHANGED <<shutdown, saved, active>>
      BY <2>1 DEF Arrive
    <3>2. CASE ConnectBody /\ pc' = IdleCancelled(pc) /\ ~Held
      <4>1. \A d \in Callers : pc'[d] = pc[d] \/ pc'[d] = "free"
        BY <3>2 DEF IdleCancelled
      <4> QED
        BY <1>1, <3>1, <3>2, <4>1, ConnectKeepsService
    <3>3. CASE UNCHANGED <<requested, pc, task, loop, overlapped>>
      BY <3>1, <3>3
    <3> QED
      BY <2>1, <3>2, <3>3 DEF Arrive, Admit
  <2>2. CASE Admitted(v)
    <3>1. UNCHANGED <<shutdown, saved, active>>
      BY <2>2 DEF Admitted
    <3>2. CASE ConnectBody /\ pc' = IdleCancelled(pc) /\ ~Held
      <4>1. \A d \in Callers : pc'[d] = pc[d] \/ pc'[d] = "free"
        BY <3>2 DEF IdleCancelled
      <4> QED
        BY <1>1, <3>1, <3>2, <4>1, ConnectKeepsService
    <3>3. CASE UNCHANGED <<requested, pc, task, loop, overlapped>>
      BY <3>1, <3>3
    <3> QED
      BY <2>2, <3>2, <3>3 DEF Admitted, Admit
  <2>3. CASE Leave(v)
    <3>1. UNCHANGED <<requested, shutdown, task, saved, loop, active, overlapped>>
      BY <2>3 DEF Leave, NoTeardown
    <3>2. \A c \in Callers : Stopping(c)' <=> Stopping(c)
      BY <1>1, <2>3, LeaveMovesIdlers
    <3> QED
      BY <3>1, <3>2
  <2> QED
    BY <1>1, <2>1, <2>2, <2>3 DEF ViewerStep
<1>2. ASSUME NEW c \in Callers, Alone(c), CallerStep(c) PROVE Service'
  <2>1. CASE EnterStop(c)
    BY <1>2, <2>1 DEF EnterStop, ClearRequest, IdleCancelled
  <2>2. CASE ChildReaped(c)
    BY <1>2, <2>2 DEF ChildReaped
  <2>3. CASE StopTimesOut(c)
    BY <1>2, <2>3 DEF StopTimesOut, CancelTask
  <2>4. CASE StopReturns(c)
    BY <1>2, <2>4 DEF StopReturns, Gathered, AfterStop
  <2>5. CASE StopAborts(c)
    BY <1>2, <2>5 DEF StopAborts
  <2>6. CASE Reconnect(c)
    <3>1. UNCHANGED <<shutdown, saved, active>>
      BY <2>6 DEF Reconnect
    <3>2. /\ ~Held /\ \A d \in Callers : pc[d] # "returning"
          /\ \A d \in Callers : pc'[d] = pc[d] \/ pc'[d] = "free"
      BY <1>2, <2>6, ReconnectMovesCaller
    <3>3. CASE ConnectBody
      BY <3>1, <3>2, <3>3, ConnectKeepsService
    <3>4. CASE UNCHANGED <<requested, task, loop, overlapped>>
      <4>1. \A d \in Callers : Stopping(d)' <=> Stopping(d)
        BY <1>2, <2>6, ReconnectMovesCaller
      <4> QED
        BY <3>1, <3>4, <4>1
    <3> QED
      BY <2>6, <3>3, <3>4 DEF Reconnect
  <2>7. CASE DeleteFiles(c)
    BY <1>2, <2>7 DEF DeleteFiles
  <2> QED
    BY <1>2, <2>1, <2>2, <2>3, <2>4, <2>5, <2>6, <2>7 DEF CallerStep
<1>3. ASSUME Yielded, NEW l \in Loops, LoopStep(l) PROVE Service'
  <2>1. CASE LoopTop(l)
    BY <1>3, <2>1 DEF LoopTop, EndSession, Wanted
  <2>2. CASE CredentialsArrive(l)
    BY <1>3, <2>2 DEF CredentialsArrive, ShowSession
  <2>3. CASE CredentialsFail(l)
    BY <1>3, <2>3 DEF CredentialsFail, EndSession, Wanted
  <2>4. CASE TakeRunner(l)
    BY <1>3, <2>4 DEF TakeRunner, RunnerFree
  <2>5. CASE Spawn(l)
    BY <1>3, <2>5 DEF Spawn, EndSession, Wanted
  <2>6. CASE Frame(l)
    BY <1>3, <2>6 DEF Frame
  <2>7. CASE FramesFail(l)
    BY <1>3, <2>7 DEF FramesFail
  <2>8. CASE SessionEnds(l)
    BY <1>3, <2>8 DEF SessionEnds, EndSession, Wanted
  <2>9. CASE CancelKills(l)
    BY <1>3, <2>9 DEF CancelKills
  <2>10. CASE Cancelled(l)
    BY <1>3, <2>10 DEF Cancelled, LetGo
  <2>11. CASE LoopRaises(l)
    BY <1>3, <2>11 DEF LoopRaises, Wanted
  <2> QED
    BY <1>3, <2>1, <2>2, <2>3, <2>4, <2>5, <2>6, <2>7, <2>8, <2>9, <2>10, <2>11
       DEF LoopStep
<1>4. ASSUME Yielded, NEW i \in Idlers, IdleFires(i) PROVE Service'
  BY <1>4 DEF IdleFires, Call
<1>5. ASSUME Yielded, NEW c \in Restarters, Restart(c) PROVE Service'
  BY <1>5 DEF Restart, Call
<1>6. ASSUME Yielded, NEW c \in Deleters, Delete(c) PROVE Service'
  BY <1>6 DEF Delete, Call
<1>7. ASSUME Yielded, Shutdown PROVE Service'
  BY <1>7 DEF Shutdown, Call
<1>8. ASSUME Yielded, Close PROVE Service'
  BY <1>8 DEF Close
<1>9. ASSUME Yielded, ChildExits PROVE Service'
  BY <1>9 DEF ChildExits
<1>10. ASSUME Yielded, OneShotStarts PROVE Service'
  BY <1>10 DEF OneShotStarts
<1>11. ASSUME Yielded, OneShotRuns PROVE Service'
  BY <1>11 DEF OneShotRuns, RunnerFree
<1>12. ASSUME Yielded, OneShotEnds PROVE Service'
  BY <1>12 DEF OneShotEnds
<1>13. ASSUME Yielded, OneShotLetsGo PROVE Service'
  BY <1>13 DEF OneShotLetsGo, LetGo
<1>14. ASSUME Yielded, StrayExits PROVE Service'
  BY <1>14 DEF StrayExits
<1>15. CASE UNCHANGED vars
  BY <1>15 DEF vars
<1> QED
  BY <1>1, <1>2, <1>3, <1>4, <1>5, <1>6, <1>7, <1>8, <1>9, <1>10, <1>11,
     <1>12, <1>13, <1>14, <1>15
     DEF Next, Continue, CallerStep, Yielded, Alone

\* Every variable with finitely many values or a function keeps its range.
LEMMA RangesInvariant == Spec => []RangesOK
<1> USE DEF RangesOK, PC, LoopState, Callers
<1>1. Init => RangesOK
  BY DEF Init
<1>2. RangesOK /\ [Next]_vars => RangesOK'
  <2> SUFFICES ASSUME RangesOK, [Next]_vars PROVE RangesOK'
    OBVIOUS
  <2>1. ASSUME NEW v \in Viewers, Arrive(v) PROVE RangesOK'
    BY <2>1 DEF Arrive, Admit, ConnectBody, ProducerRuns, StartProducer, IdleCancelled
  <2>2. ASSUME NEW v \in Viewers, Admitted(v) PROVE RangesOK'
    BY <2>2 DEF Admitted, Admit, ConnectBody, ProducerRuns, StartProducer, IdleCancelled
  <2>3. ASSUME NEW v \in Viewers, Leave(v) PROVE RangesOK'
    BY <2>3 DEF Leave, NoTeardown, IdleCancelled
  <2>4. ASSUME NEW i \in Idlers, IdleFires(i) PROVE RangesOK'
    BY <2>4 DEF IdleFires, Call
  <2>5. ASSUME NEW c \in Restarters, Restart(c) PROVE RangesOK'
    BY <2>5 DEF Restart, Call
  <2>6. ASSUME NEW c \in Deleters, Delete(c) PROVE RangesOK'
    BY <2>6 DEF Delete, Call
  <2>7. CASE Shutdown
    BY <2>7 DEF Shutdown, Call
  <2>8. CASE Close
    BY <2>8 DEF Close
  <2>9. ASSUME NEW c \in Callers, EnterStop(c) PROVE RangesOK'
    BY <2>9 DEF EnterStop, ClearRequest, IdleCancelled
  <2>10. ASSUME NEW c \in Callers, ChildReaped(c) PROVE RangesOK'
    BY <2>10 DEF ChildReaped
  <2>11. ASSUME NEW c \in Callers, StopTimesOut(c) PROVE RangesOK'
    BY <2>11 DEF StopTimesOut, CancelTask, Settled, Finished
  <2>12. ASSUME NEW c \in Callers, StopReturns(c) PROVE RangesOK'
    BY <2>12 DEF StopReturns, Gathered, AfterStop
  <2>13. ASSUME NEW c \in Callers, StopAborts(c) PROVE RangesOK'
    BY <2>13 DEF StopAborts
  <2>14. ASSUME NEW c \in Callers, Reconnect(c) PROVE RangesOK'
    BY <2>14 DEF Reconnect, ConnectBody, ProducerRuns, StartProducer, IdleCancelled
  <2>15. ASSUME NEW c \in Callers, DeleteFiles(c) PROVE RangesOK'
    BY <2>15 DEF DeleteFiles
  <2>16. ASSUME NEW l \in Loops, LoopTop(l) PROVE RangesOK'
    BY <2>16 DEF LoopTop, EndSession
  <2>17. ASSUME NEW l \in Loops, CredentialsArrive(l) PROVE RangesOK'
    BY <2>17 DEF CredentialsArrive, ShowSession
  <2>18. ASSUME NEW l \in Loops, CredentialsFail(l) PROVE RangesOK'
    BY <2>18 DEF CredentialsFail, EndSession
  <2>19. ASSUME NEW l \in Loops, TakeRunner(l) PROVE RangesOK'
    BY <2>19 DEF TakeRunner, RunnerFree
  <2>20. ASSUME NEW l \in Loops, Spawn(l) PROVE RangesOK'
    BY <2>20 DEF Spawn, EndSession
  <2>21. ASSUME NEW l \in Loops, Frame(l) PROVE RangesOK'
    BY <2>21 DEF Frame
  <2>22. ASSUME NEW l \in Loops, FramesFail(l) PROVE RangesOK'
    BY <2>22 DEF FramesFail
  <2>23. ASSUME NEW l \in Loops, SessionEnds(l) PROVE RangesOK'
    BY <2>23 DEF SessionEnds, EndSession
  <2>24. ASSUME NEW l \in Loops, CancelKills(l) PROVE RangesOK'
    BY <2>24 DEF CancelKills
  <2>25. ASSUME NEW l \in Loops, Cancelled(l) PROVE RangesOK'
    BY <2>25 DEF Cancelled, LetGo
  <2>26. CASE ChildExits
    BY <2>26 DEF ChildExits
  <2>27. CASE OneShotStarts
    BY <2>27 DEF OneShotStarts
  <2>28. CASE OneShotRuns
    BY <2>28 DEF OneShotRuns, RunnerFree
  <2>29. CASE OneShotEnds
    BY <2>29 DEF OneShotEnds
  <2>30. CASE UNCHANGED vars
    BY <2>30 DEF vars
  <2>31. CASE OneShotLetsGo
    BY <2>31 DEF OneShotLetsGo, LetGo
  <2>32. CASE StrayExits
    BY <2>32 DEF StrayExits
  <2>33. ASSUME NEW l \in Loops, LoopRaises(l) PROVE RangesOK'
    BY <2>33 DEF LoopRaises
  <2> QED
    BY <2>1, <2>2, <2>3, <2>4, <2>5, <2>6, <2>7, <2>8, <2>9, <2>10, <2>11,
       <2>12, <2>13, <2>14, <2>15, <2>16, <2>17, <2>18, <2>19, <2>20, <2>21,
       <2>22, <2>23, <2>24, <2>25, <2>26, <2>27, <2>28, <2>29, <2>30,
       <2>31, <2>32, <2>33
       DEF Next, Continue, ViewerStep, CallerStep, LoopStep
<1> QED
  BY <1>1, <1>2, PTL DEF Spec

\* Every step keeps a producer behind the flags.
LEMMA FlagsBackedStep ==
  ASSUME RangesOK, FlagsOK, Shape, FlagsBacked, [Next]_vars
  PROVE  FlagsBacked'
<1> USE ConstantsAssumption
  DEF FlagsBacked, FlagsOK, Shape, RunnerShape, CancelShape,
      Stopping, InWindow, Settled, Finished, Live, InSession, Running, Held,
      LockFree, Yielded, Alone, Callers, RangesOK, PC, LoopState
<1>1. ASSUME Yielded, NEW v \in Viewers, ViewerStep(v) PROVE FlagsBacked'
  <2>1. CASE Arrive(v)
    <3>1. CASE ConnectBody
      BY <2>1, <3>1, ConnectMovesNoLiveTask DEF Arrive
    <3>2. CASE UNCHANGED loop
      BY <2>1, <3>2 DEF Arrive
    <3> QED
      BY <2>1, <3>1, <3>2 DEF Arrive, Admit
  <2>2. CASE Admitted(v)
    <3>1. CASE ConnectBody
      BY <2>2, <3>1, ConnectMovesNoLiveTask DEF Admitted
    <3>2. CASE UNCHANGED loop
      BY <2>2, <3>2 DEF Admitted
    <3> QED
      BY <2>2, <3>1, <3>2 DEF Admitted, Admit
  <2>3. CASE Leave(v)
    BY <1>1, <2>3 DEF Leave, NoTeardown, IdleCancelled
  <2> QED
    BY <1>1, <2>1, <2>2, <2>3 DEF ViewerStep
<1>2. ASSUME NEW c \in Callers, Alone(c), CallerStep(c) PROVE FlagsBacked'
  <2>1. CASE EnterStop(c)
    BY <1>2, <2>1 DEF EnterStop, ClearRequest, IdleCancelled
  <2>2. CASE ChildReaped(c)
    BY <1>2, <2>2 DEF ChildReaped
  <2>3. CASE StopTimesOut(c)
    BY <1>2, <2>3 DEF StopTimesOut, CancelTask
  <2>4. CASE StopReturns(c)
    BY <1>2, <2>4 DEF StopReturns, Gathered, AfterStop
  <2>5. CASE StopAborts(c)
    BY <1>2, <2>5 DEF StopAborts
  <2>6. CASE Reconnect(c)
    <3>1. CASE ConnectBody
      BY <2>6, <3>1, ConnectMovesNoLiveTask DEF Reconnect
    <3>2. CASE UNCHANGED loop
      BY <2>6, <3>2 DEF Reconnect
    <3> QED
      BY <2>6, <3>1, <3>2 DEF Reconnect
  <2>7. CASE DeleteFiles(c)
    BY <1>2, <2>7 DEF DeleteFiles
  <2> QED
    BY <1>2, <2>1, <2>2, <2>3, <2>4, <2>5, <2>6, <2>7 DEF CallerStep
<1>3. ASSUME Yielded, NEW l \in Loops, LoopStep(l) PROVE FlagsBacked'
  <2>1. CASE LoopTop(l)
    BY <1>3, <2>1 DEF LoopTop, EndSession, Wanted
  <2>2. CASE CredentialsArrive(l)
    BY <1>3, <2>2 DEF CredentialsArrive, ShowSession
  <2>3. CASE CredentialsFail(l)
    BY <1>3, <2>3 DEF CredentialsFail, EndSession, Wanted
  <2>4. CASE TakeRunner(l)
    BY <1>3, <2>4 DEF TakeRunner, RunnerFree
  <2>5. CASE Spawn(l)
    BY <1>3, <2>5 DEF Spawn, EndSession, Wanted
  <2>6. CASE Frame(l)
    BY <1>3, <2>6 DEF Frame
  <2>7. CASE FramesFail(l)
    BY <1>3, <2>7 DEF FramesFail
  <2>8. CASE SessionEnds(l)
    BY <1>3, <2>8 DEF SessionEnds, EndSession, Wanted
  <2>9. CASE CancelKills(l)
    BY <1>3, <2>9 DEF CancelKills
  <2>10. CASE Cancelled(l)
    BY <1>3, <2>10 DEF Cancelled, LetGo
  <2>11. CASE LoopRaises(l)
    BY <1>3, <2>11 DEF LoopRaises, Wanted
  <2> QED
    BY <1>3, <2>1, <2>2, <2>3, <2>4, <2>5, <2>6, <2>7, <2>8, <2>9, <2>10, <2>11
       DEF LoopStep
<1>4. ASSUME Yielded, NEW i \in Idlers, IdleFires(i) PROVE FlagsBacked'
  BY <1>4 DEF IdleFires, Call
<1>5. ASSUME Yielded, NEW c \in Restarters, Restart(c) PROVE FlagsBacked'
  BY <1>5 DEF Restart, Call
<1>6. ASSUME Yielded, NEW c \in Deleters, Delete(c) PROVE FlagsBacked'
  BY <1>6 DEF Delete, Call
<1>7. ASSUME Yielded, Shutdown PROVE FlagsBacked'
  BY <1>7 DEF Shutdown, Call
<1>8. ASSUME Yielded, Close PROVE FlagsBacked'
  BY <1>8 DEF Close
<1>9. ASSUME Yielded, ChildExits PROVE FlagsBacked'
  BY <1>9 DEF ChildExits
<1>10. ASSUME Yielded, OneShotStarts PROVE FlagsBacked'
  BY <1>10 DEF OneShotStarts
<1>11. ASSUME Yielded, OneShotRuns PROVE FlagsBacked'
  BY <1>11 DEF OneShotRuns, RunnerFree
<1>12. ASSUME Yielded, OneShotEnds PROVE FlagsBacked'
  BY <1>12 DEF OneShotEnds
<1>13. ASSUME Yielded, OneShotLetsGo PROVE FlagsBacked'
  BY <1>13 DEF OneShotLetsGo, LetGo
<1>14. ASSUME Yielded, StrayExits PROVE FlagsBacked'
  BY <1>14 DEF StrayExits
<1>15. CASE UNCHANGED vars
  BY <1>15 DEF vars
<1> HIDE DEF FlagsBacked
<1> QED
  BY <1>1, <1>2, <1>3, <1>4, <1>5, <1>6, <1>7, <1>8, <1>9, <1>10, <1>11,
     <1>12, <1>13, <1>14, <1>15
     DEF Next, Continue, CallerStep, Yielded, Alone, RunningShape

\* The inductive invariant.
LEMMA Invariants ==
  Spec => [](RangesOK /\ FlagsOK /\ Shape /\ Service /\ FlagsBacked)
<1> DEFINE Inv == RangesOK /\ FlagsOK /\ Shape /\ Service /\ FlagsBacked
<1>1. Init => Shape /\ Service /\ FlagsBacked
  BY ConstantsAssumption
     DEF Init, Shape, SavedShape, RunningShape, CancelShape, RunnerShape, IdleShape,
         Service, TrackedProducer, RequestServed, NotTakenDown, StopQuiesces,
         StopOwnsTask, LockedVisible, FlagsBacked, Stopping, InWindow, Settled, Finished, Live,
         InSession, Running, Held
<1>2. RangesOK /\ FlagsOK /\ Shape /\ [Next]_vars => Shape'
  BY SavedShapeStep, RunningShapeStep, CancelShapeStep, RunnerShapeStep,
     IdleShapeStep DEF Shape
<1>3. RangesOK /\ FlagsOK /\ Shape /\ Service /\ [Next]_vars => Service'
  BY ServiceStep
<1>4. RangesOK /\ FlagsOK /\ Shape /\ FlagsBacked /\ [Next]_vars => FlagsBacked'
  BY FlagsBackedStep
<1> QED
  BY <1>1, <1>2, <1>3, <1>4, RangesInvariant, FlagsInvariant, PTL DEF Spec

------------------------------------------------------------------------------
\* Every variable keeps its range.
THEOREM TypeCorrectness == Spec => []TypeOK
BY RangesInvariant, FlagsInvariant, PTL DEF TypeOK

\* Until a connect overlaps a stop's window there is one producer task at most
\* and _stream_task refers to it.
THEOREM ProducerIsTracked == Spec => []TrackedProducer
BY Invariants, PTL DEF Service

\* Until then, the producer of a wanted stream is neither stopped nor cancelled,
\* and has not returned.
THEOREM RequestIsServed == Spec => []RequestServed
BY Invariants, PTL DEF Service

\* Until then, a stop that returned left no producer behind.
THEOREM StopIsComplete == Spec => []StopQuiesces
BY Invariants, PTL DEF Service

\* Until then, the snapshot shows every camera session.
THEOREM SessionsAreVisible == Spec => []SessionVisible
<1>1. LockedVisible => SessionVisible
  BY DEF LockedVisible, SessionVisible, InSession
<1> QED
  BY <1>1, Invariants, PTL DEF Service

\* At most one camera session or one-shot run is at the runner's child, whatever
\* overlaps.
THEOREM SingleSession == Spec => []OneNativeSession
<1>1. RangesOK /\ Shape => OneNativeSession
  BY ConstantsAssumption DEF RangesOK, Shape, RunnerShape, OneNativeSession,
     InSession
<1> QED
  BY <1>1, Invariants, PTL

\* The stream flags always have a producer task behind them.
THEOREM FlagsHaveProducer == Spec => []FlagsBacked
BY Invariants, PTL

------------------------------------------------------------------------------
(* Action properties that the same invariant carries. *)

\* A child belongs to one holder of the runner until it ends, and one that is
\* being terminated is not replaced by the next one before it is gone, unless
\* its call lets it go: a one-shot run, or a stream that is cancelled while it
\* terminates its child, so that no session leaves one that was not signalled.
LetsGo ==
  /\ runner = OneShot \/ child = "dying"
  /\ runner' = None /\ child' = "none"
ChildKeepsOwner ==
  [][/\ child # "none" => runner # None /\ (runner' = runner \/ LetsGo)
     /\ child' = "alive" => child # "dying"]_vars

\* Until a connect overlaps a stop's window, _stream_task lets go of a producer
\* task only when that task is over.
DropsOnlyFinished ==
  [][~overlapped /\ task # None /\ task' # task => Finished(task)]_vars

\* A step neither moves the runner's lock under a child nor revives one.
LEMMA ChildStep ==
  ASSUME RangesOK, RunnerShape, [Next]_vars
  PROVE  /\ child # "none" => runner # None /\ (runner' = runner \/ LetsGo)
         /\ child' = "alive" => child # "dying"
<1> DEFINE Goal == /\ child # "none" => (runner' = runner \/ LetsGo)
                   /\ child' = "alive" => child # "dying"
<1> USE ConstantsAssumption
<1>a. child # "none" => runner # None
  BY DEF RunnerShape
<1>g. Goal
  <2>1. ASSUME NEW v \in Viewers, ViewerStep(v) PROVE Goal
    BY <2>1 DEF ViewerStep, Arrive, Admitted, Admit, Leave
  <2>2. ASSUME NEW c \in Callers, CallerStep(c) PROVE Goal
    <3>1. CASE EnterStop(c)
      BY <3>1 DEF EnterStop
    <3>2. CASE ChildReaped(c)
      BY <3>2 DEF ChildReaped
    <3>3. CASE StopTimesOut(c)
      BY <3>3 DEF StopTimesOut
    <3>4. CASE StopReturns(c)
      BY <3>4 DEF StopReturns
    <3>5. CASE StopAborts(c)
      BY <3>5 DEF StopAborts
    <3>6. CASE Reconnect(c)
      BY <3>6 DEF Reconnect
    <3>7. CASE DeleteFiles(c)
      BY <3>7 DEF DeleteFiles
    <3> QED
      BY <2>2, <3>1, <3>2, <3>3, <3>4, <3>5, <3>6, <3>7 DEF CallerStep
  <2>3. ASSUME NEW l \in Loops, LoopStep(l) PROVE Goal
    <3>1. CASE LoopTop(l)
      BY <3>1 DEF LoopTop
    <3>2. CASE CredentialsArrive(l)
      BY <3>2 DEF CredentialsArrive
    <3>3. CASE CredentialsFail(l)
      BY <3>3 DEF CredentialsFail
    <3>4. CASE TakeRunner(l)
      BY <3>4, <1>a DEF TakeRunner, RunnerFree
    <3>5. CASE Spawn(l)
      BY <3>5 DEF Spawn, InSession, RunnerShape
    <3>6. CASE Frame(l)
      BY <3>6 DEF Frame
    <3>7. CASE FramesFail(l)
      BY <3>7 DEF FramesFail
    <3>8. CASE SessionEnds(l)
      BY <3>8 DEF SessionEnds
    <3>9. CASE CancelKills(l)
      BY <3>9 DEF CancelKills
    <3>10. CASE Cancelled(l)
      BY <3>10 DEF Cancelled, LetGo, InSession, RunnerShape, LetsGo, RangesOK
    <3>11. CASE LoopRaises(l)
      BY <3>11 DEF LoopRaises, InSession, RunnerShape
    <3> QED
      BY <2>3, <3>1, <3>2, <3>3, <3>4, <3>5,
         <3>6, <3>7, <3>8, <3>9, <3>10, <3>11
         DEF LoopStep
  <2>4. ASSUME NEW i \in Idlers, IdleFires(i) PROVE Goal
    BY <2>4 DEF IdleFires
  <2>5. ASSUME NEW c \in Restarters, Restart(c) PROVE Goal
    BY <2>5 DEF Restart
  <2>6. ASSUME NEW c \in Deleters, Delete(c) PROVE Goal
    BY <2>6 DEF Delete
  <2>7. ASSUME Shutdown PROVE Goal
    BY <2>7 DEF Shutdown
  <2>8. ASSUME Close PROVE Goal
    BY <2>8 DEF Close
  <2>9. ASSUME ChildExits PROVE Goal
    BY <2>9 DEF ChildExits
  <2>10. ASSUME OneShotStarts PROVE Goal
    BY <2>10 DEF OneShotStarts
  <2>11. ASSUME OneShotRuns PROVE Goal
    BY <2>11 DEF OneShotRuns, RunnerFree, RunnerShape
  <2>12. ASSUME OneShotEnds PROVE Goal
    BY <2>12 DEF OneShotEnds
  <2>13. ASSUME OneShotLetsGo PROVE Goal
    BY <2>13 DEF OneShotLetsGo, LetGo, LetsGo, RunnerShape
  <2>14. ASSUME StrayExits PROVE Goal
    BY <2>14 DEF StrayExits
  <2>15. CASE UNCHANGED vars
    BY <2>15 DEF vars
  <2> QED
    BY <2>1, <2>2, <2>3, <2>4, <2>5, <2>6,
       <2>7, <2>8, <2>9, <2>10, <2>11, <2>12, <2>13, <2>14, <2>15
       DEF Next, Continue, CallerStep
<1> QED
  BY <1>a, <1>g

\* Until an overlap, a step that changes _stream_task leaves a task that is over.
LEMMA TaskStep ==
  ASSUME RangesOK, Shape, Service, ~overlapped, task # None, [Next]_vars,
         task' # task
  PROVE  Finished(task)
<1> DEFINE Goal == task' # task => Finished(task)
<1> USE ConstantsAssumption
<1>g. Goal
  <2>1. ASSUME NEW v \in Viewers, ViewerStep(v) PROVE Goal
    BY <2>1 DEF ViewerStep, Arrive, Admitted, Admit, Leave, ConnectBody, ProducerRuns, Live
  <2>2. ASSUME NEW c \in Callers, CallerStep(c) PROVE Goal
    <3>1. CASE EnterStop(c)
      BY <3>1 DEF EnterStop
    <3>2. CASE ChildReaped(c)
      BY <3>2 DEF ChildReaped
    <3>3. CASE StopTimesOut(c)
      BY <3>3 DEF StopTimesOut
    <3>4. CASE StopReturns(c)
      BY <3>4 DEF StopReturns, Shape, SavedShape, Settled, Service, StopOwnsTask,
             Stopping, InWindow, Finished, Gathered
    <3>5. CASE StopAborts(c)
      BY <3>5 DEF StopAborts
    <3>6. CASE Reconnect(c)
      BY <3>6 DEF Reconnect, ConnectBody, ProducerRuns, Live
    <3>7. CASE DeleteFiles(c)
      BY <3>7 DEF DeleteFiles
    <3> QED
      BY <2>2, <3>1, <3>2, <3>3, <3>4, <3>5, <3>6, <3>7 DEF CallerStep
  <2>3. ASSUME NEW l \in Loops, LoopStep(l) PROVE Goal
    <3>1. CASE LoopTop(l)
      BY <3>1 DEF LoopTop
    <3>2. CASE CredentialsArrive(l)
      BY <3>2 DEF CredentialsArrive
    <3>3. CASE CredentialsFail(l)
      BY <3>3 DEF CredentialsFail
    <3>4. CASE TakeRunner(l)
      BY <3>4 DEF TakeRunner
    <3>5. CASE Spawn(l)
      BY <3>5 DEF Spawn
    <3>6. CASE Frame(l)
      BY <3>6 DEF Frame
    <3>7. CASE FramesFail(l)
      BY <3>7 DEF FramesFail
    <3>8. CASE SessionEnds(l)
      BY <3>8 DEF SessionEnds
    <3>9. CASE CancelKills(l)
      BY <3>9 DEF CancelKills
    <3>10. CASE Cancelled(l)
      BY <3>10 DEF Cancelled, LetGo
    <3>11. CASE LoopRaises(l)
      BY <3>11 DEF LoopRaises, InSession, RunnerShape
    <3> QED
      BY <2>3, <3>1, <3>2, <3>3, <3>4, <3>5,
         <3>6, <3>7, <3>8, <3>9, <3>10, <3>11
         DEF LoopStep
  <2>4. ASSUME NEW i \in Idlers, IdleFires(i) PROVE Goal
    BY <2>4 DEF IdleFires
  <2>5. ASSUME NEW c \in Restarters, Restart(c) PROVE Goal
    BY <2>5 DEF Restart
  <2>6. ASSUME NEW c \in Deleters, Delete(c) PROVE Goal
    BY <2>6 DEF Delete
  <2>7. ASSUME Shutdown PROVE Goal
    BY <2>7 DEF Shutdown
  <2>8. ASSUME Close PROVE Goal
    BY <2>8 DEF Close
  <2>9. ASSUME ChildExits PROVE Goal
    BY <2>9 DEF ChildExits
  <2>10. ASSUME OneShotStarts PROVE Goal
    BY <2>10 DEF OneShotStarts
  <2>11. ASSUME OneShotRuns PROVE Goal
    BY <2>11 DEF OneShotRuns
  <2>12. ASSUME OneShotEnds PROVE Goal
    BY <2>12 DEF OneShotEnds
  <2>13. ASSUME OneShotLetsGo PROVE Goal
    BY <2>13 DEF OneShotLetsGo, LetGo
  <2>14. ASSUME StrayExits PROVE Goal
    BY <2>14 DEF StrayExits
  <2>15. CASE UNCHANGED vars
    BY <2>15 DEF vars
  <2> QED
    BY <2>1, <2>2, <2>3, <2>4, <2>5, <2>6,
       <2>7, <2>8, <2>9, <2>10, <2>11, <2>12, <2>13, <2>14, <2>15
       DEF Next, Continue, CallerStep
<1> QED
  BY <1>g

\* Only a one-shot run, or a stream cancelled while it terminates its child, lets
\* go of a child, and no child the runner refers to is replaced while it is being
\* terminated.
THEOREM ChildHasOneOwner == Spec => ChildKeepsOwner
<1>1. RangesOK /\ Shape /\ [Next]_vars =>
        [/\ child # "none" => runner # None /\ (runner' = runner \/ LetsGo)
         /\ child' = "alive" => child # "dying"]_vars
  BY ChildStep DEF Shape
<1> QED
  BY <1>1, Invariants, PTL DEF Spec, ChildKeepsOwner

\* Until a connect overlaps a stop's window, no live producer is forgotten.
THEOREM NoLiveTaskDropped == Spec => DropsOnlyFinished
<1>1. RangesOK /\ Shape /\ Service /\ [Next]_vars =>
        [~overlapped /\ task # None /\ task' # task => Finished(task)]_vars
  BY TaskStep
<1> QED
  BY <1>1, Invariants, PTL DEF Spec, DropsOnlyFinished

==============================================================================
