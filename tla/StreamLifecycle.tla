--------------------------- MODULE StreamLifecycle ---------------------------
(***************************************************************************)
(* The stream half of OwletRuntimeManager (runtime/manager.py): viewers of *)
(* the loopback server ask for a producer, stop calls take it down, and a  *)
(* background task reconnects to the camera until nobody wants it.         *)
(*                                                                         *)
(* asyncio runs a coroutine until its next await, so one action is the     *)
(* code between two awaits.  Where a call goes on without leaving the      *)
(* event loop (an uncontended lock, an await of what is already done) the  *)
(* caller's pc is one of Running and nothing else may step.                *)
(***************************************************************************)
EXTENDS Naturals, FiniteSets

CONSTANTS
  Viewers,      \* connections to the loopback media server
  Idlers,       \* identities of idle-disconnect tasks
  Restarters,   \* presses of the restart button
  Deleters,     \* confirmations of the delete form
  Closer,       \* the config entry's async_shutdown call
  Loops,        \* identities of _async_stream_loop tasks
  OneShot,      \* a probe or snapshot using the same process runner
  None,
  KeepWarm      \* the keep_warm option

Callers == Idlers \cup Restarters \cup Deleters \cup {Closer}

ASSUME ConstantsAssumption ==
  /\ KeepWarm \in BOOLEAN
  /\ None \notin Callers \cup Loops \cup {OneShot}
  /\ OneShot \notin Loops
  /\ Closer \notin Idlers \cup Restarters \cup Deleters
  /\ Idlers \cap (Restarters \cup Deleters) = {}
  /\ Restarters \cap Deleters = {}

VARIABLES
  requested,   \* _stream_requested
  shutdown,    \* _shutdown
  runtime,     \* _prepared with libraries_compatible: "none", "rejected", "ready"
  task,        \* _stream_task
  idle,        \* _idle_disconnect_task
  viewer,      \* each viewer: "out", "wait" for the stream lock, "in" _subscribers
  pc,          \* where each call of async_stop_stream is
  saved,       \* the local `task` of each async_stop_stream call
  had,         \* restarts whose had_consumers (or keep_warm) was true
  loop,        \* where each producer task is
  cancel,      \* producer tasks with an undelivered cancel()
  runner,      \* who holds the runner's lock
  child,       \* the runner's process: "none", "alive", "dying"
  stray,       \* a stop still waits for a child that its call let go
  oneshot,     \* the probe or snapshot: "off", "prepare", "run"
  active,      \* snapshot.stream_active
  healthy,     \* snapshot.stream_healthy
  overlapped   \* history: a connect ran while a stop awaited its task

vars == <<requested, shutdown, runtime, task, idle, viewer, pc, saved, had,
          loop, cancel, runner, child, stray, oneshot, active, healthy,
          overlapped>>

PC == {"free", "sleep", "entering", "want", "term", "await", "gather",
       "returning", "reconnecting", "reconnect", "deleting", "delete",
       "closing", "over", "aborted"}
LoopState == {"new", "creds", "lock", "spawn", "stream", "backoff",
              "done", "cancelled", "failed"}

FlagsOK ==
  /\ requested \in BOOLEAN /\ shutdown \in BOOLEAN /\ overlapped \in BOOLEAN
  /\ stray \in BOOLEAN
  /\ active \in BOOLEAN /\ healthy \in BOOLEAN

RangesOK ==
  /\ runtime \in {"none", "rejected", "ready"}
  /\ task \in Loops \cup {None}
  /\ idle \in Idlers \cup {None}
  /\ viewer \in [Viewers -> {"out", "wait", "in"}]
  /\ pc \in [Callers -> PC]
  /\ saved \in [Callers -> Loops \cup {None}]
  /\ had \subseteq Restarters
  /\ loop \in [Loops -> LoopState]
  /\ cancel \subseteq Loops
  /\ runner \in Loops \cup {OneShot, None}
  /\ child \in {"none", "alive", "dying"}
  /\ oneshot \in {"off", "prepare", "run"}

TypeOK == FlagsOK /\ RangesOK

------------------------------------------------------------------------------
\* The producer tasks: returned, cancelled, or ended by another exception.
Finished(l) == loop[l] \in {"done", "cancelled", "failed"}
Live(l) == ~Finished(l)
InSession(l) == loop[l] \in {"spawn", "stream"}

\* A new task, which replaces _stream_task, gets an identity no stop refers to.
Fresh(l) == Finished(l) /\ \A c \in Callers : saved[c] # l

\* await of None or of a task that is over does not yield.
Settled(t) == t = None \/ Finished(t)

\* client_count of the loopback server.
Watched == \E v \in Viewers : viewer[v] = "in"

\* _stream_lock: held across an await only by async_stop_stream.
HeldWhileAwaiting ==
  \E c \in Callers : pc[c] \in {"term", "await", "gather"}
Held == \E c \in Callers : pc[c] = "term"
LockFree ==
  /\ ~Held
  /\ \A c \in Callers : pc[c] \notin {"want", "reconnect"}
  /\ \A v \in Viewers : viewer[v] # "wait"

Running == {"entering", "returning", "reconnecting", "deleting"}
Yielded == \A c \in Callers : pc[c] \notin Running

\* Nothing but c is between two awaits.
Alone(c) == \A d \in Callers : pc[d] \in Running => d = c

\* A stop that has released the lock and still awaits its task.
InWindow(c) == pc[c] \in {"await", "gather"}
Stopping(c) == pc[c] \in {"term", "await", "gather", "returning"}

Init ==
  /\ requested = FALSE /\ shutdown = FALSE /\ runtime = "none"
  /\ task = None /\ idle = None
  /\ viewer = [v \in Viewers |-> "out"]
  /\ pc = [c \in Callers |-> "free"]
  /\ saved = [c \in Callers |-> None]
  /\ had = {}
  /\ loop = [l \in Loops |-> "done"]
  /\ cancel = {}
  /\ runner = None /\ child = "none" /\ stray = FALSE /\ oneshot = "off"
  /\ active = FALSE /\ healthy = FALSE /\ overlapped = FALSE

------------------------------------------------------------------------------
(***************************************************************************)
(* _async_stream_client_connected, once its caller has the stream lock.    *)
(* A shutdown or a missing runtime raises before anything is assigned.     *)
(***************************************************************************)
MayConnect == ~shutdown /\ runtime = "ready"

StartProducer ==
  \E l \in Loops : Fresh(l) /\ task' = l /\ loop' = [loop EXCEPT ![l] = "new"]

\* _cancel_idle_disconnect by anyone but the idle task itself, applied to p.
IdleCancelled(p) ==
  [c \in Callers |-> IF c = idle THEN "free" ELSE p[c]]

NeverRunning == FALSE
ProducerRuns == task # None /\ Live(task)

ConnectBody ==
  /\ requested' = TRUE
  /\ idle' = None
  /\ IF ProducerRuns THEN UNCHANGED <<task, loop>> ELSE StartProducer
  /\ overlapped' = (overlapped \/ \E c \in Callers : InWindow(c))

\* A viewer's request: only the first one asks the manager for a producer.
Admit(v) ==
  \/ /\ MayConnect
     /\ ConnectBody
     /\ pc' = IdleCancelled(pc)
     /\ viewer' = [viewer EXCEPT ![v] = "in"]
  \/ /\ ~MayConnect          \* 503, or the handler is cancelled
     /\ viewer' = [viewer EXCEPT ![v] = "out"]
     /\ UNCHANGED <<requested, idle, pc, task, loop, overlapped>>

Arrive(v) ==
  /\ viewer[v] = "out" /\ pc[Closer] # "over"
  /\ \/ /\ Watched
        /\ viewer' = [viewer EXCEPT ![v] = "in"]
        /\ UNCHANGED <<requested, idle, pc, task, loop, overlapped>>
     \/ /\ ~Watched /\ LockFree
        /\ Admit(v)
     \/ /\ ~Watched /\ ~LockFree
        /\ viewer' = [viewer EXCEPT ![v] = "wait"]
        /\ UNCHANGED <<requested, idle, pc, task, loop, overlapped>>
  /\ UNCHANGED <<shutdown, runtime, saved, had, cancel, runner, child,
                 oneshot, active, healthy, stray>>

Admitted(v) ==
  /\ viewer[v] = "wait" /\ ~Held
  /\ Admit(v)
  /\ UNCHANGED <<shutdown, runtime, saved, had, cancel, runner, child,
                 oneshot, active, healthy, stray>>

\* A departure that schedules nothing.
NoTeardownIfActive(v) == KeepWarm \/ shutdown \/ active
NoTeardown(v) ==
  KeepWarm \/ shutdown \/ \E w \in Viewers \ {v} : viewer[w] = "in"

\* The last viewer's departure replaces the idle-disconnect task.
Leave(v) ==
  /\ viewer[v] = "in"
  /\ viewer' = [viewer EXCEPT ![v] = "out"]
  /\ \/ /\ NoTeardown(v)
        /\ UNCHANGED <<idle, pc>>
     \/ /\ ~NoTeardown(v)
        /\ \E i \in Idlers :
             /\ pc[i] = "free" \/ i = idle
             /\ idle' = i
             /\ pc' = [IdleCancelled(pc) EXCEPT ![i] = "sleep"]
  /\ UNCHANGED <<requested, shutdown, runtime, task, saved, had, loop, cancel,
                 runner, child, oneshot, active, healthy, overlapped, stray>>

------------------------------------------------------------------------------
(***************************************************************************)
(* The calls of async_stop_stream.                                         *)
(***************************************************************************)
Call(c) == pc' = [pc EXCEPT ![c] = IF LockFree THEN "entering" ELSE "want"]

\* _async_idle_disconnect after its sleep.
IdleFires(i) ==
  /\ pc[i] = "sleep"
  /\ \/ /\ ~Watched
        /\ Call(i)
        /\ UNCHANGED idle
     \/ /\ Watched
        /\ pc' = [pc EXCEPT ![i] = "free"]
        /\ idle' = IF idle = i THEN None ELSE idle
  /\ UNCHANGED <<requested, shutdown, runtime, task, viewer, saved, had, loop,
                 cancel, runner, child, oneshot, active, healthy, overlapped,
                 stray>>

\* async_restart_stream up to its stop.
Restart(c) ==
  /\ pc[c] = "free" /\ MayConnect
  /\ had' = IF Watched \/ KeepWarm THEN had \cup {c} ELSE had \ {c}
  /\ Call(c)
  /\ UNCHANGED <<requested, shutdown, runtime, task, idle, viewer, saved,
                 loop, cancel, runner, child, oneshot, active, healthy,
                 overlapped, stray>>

\* async_delete_proprietary_files up to its stop.
Delete(c) ==
  /\ pc[c] = "free" /\ ~shutdown
  /\ Call(c)
  /\ UNCHANGED <<requested, shutdown, runtime, task, idle, viewer, saved, had,
                 loop, cancel, runner, child, oneshot, active, healthy,
                 overlapped, stray>>

\* async_shutdown up to its stop.
Shutdown ==
  /\ pc[Closer] = "free"
  /\ shutdown' = TRUE
  /\ Call(Closer)
  /\ UNCHANGED <<requested, runtime, task, idle, viewer, saved, had, loop,
                 cancel, runner, child, oneshot, active, healthy, overlapped,
                 stray>>

KeepRequest == UNCHANGED requested
ClearRequest == requested' = FALSE

\* Under the lock: clear the request and start terminating the child, if any.
EnterStop(c) ==
  /\ pc[c] = "entering" \/ (pc[c] = "want" /\ ~Held)
  /\ ClearRequest
  /\ idle' = None
  /\ saved' = [saved EXCEPT ![c] = task]
  /\ child' = IF child = "alive" THEN "dying" ELSE child
  /\ pc' = [IdleCancelled(pc) EXCEPT ![c] =
              IF child # "none" THEN "term"
              ELSE IF Settled(task) THEN "returning" ELSE "await"]
  /\ UNCHANGED <<shutdown, runtime, task, viewer, had, loop, cancel, runner,
                 oneshot, active, healthy, overlapped, stray>>

\* The child is reaped, also if its run let it go meanwhile; the lock is
\* released before the task is awaited.
ChildReaped(c) ==
  /\ pc[c] = "term" /\ child # "dying" /\ ~stray
  /\ pc' = [pc EXCEPT ![c] = IF Settled(saved[c]) THEN "returning" ELSE "await"]
  /\ UNCHANGED <<requested, shutdown, runtime, task, idle, viewer, saved, had,
                 loop, cancel, runner, child, oneshot, active, healthy,
                 overlapped, stray>>

ForgetTask(c) == UNCHANGED cancel
CancelTask(c) == cancel' = cancel \cup {saved[c]}

\* wait_for(shield(task), timeout=7) expires: cancel the task and gather it.
StopTimesOut(c) ==
  /\ pc[c] = "await" /\ ~Settled(saved[c])
  /\ CancelTask(c)
  /\ pc' = [pc EXCEPT ![c] = "gather"]
  /\ UNCHANGED <<requested, shutdown, runtime, task, idle, viewer, saved, had,
                 loop, runner, child, oneshot, active, healthy, overlapped,
                 stray>>

\* What the caller does when its stop returns, without yielding if it need not.
AfterStop(c) ==
  CASE c \in had -> IF LockFree THEN "reconnecting" ELSE "reconnect"
    [] c \in Deleters -> IF oneshot = "off" THEN "deleting" ELSE "delete"
    [] c = Closer -> "closing"
    [] OTHER -> "free"

NotGathered(c) == TRUE
Gathered(c) == Finished(saved[c])

StopReturns(c) ==
  /\ \/ pc[c] = "returning" /\ (saved[c] # None => loop[saved[c]] = "done")
     \/ pc[c] = "await" /\ loop[saved[c]] = "done"
     \/ pc[c] = "gather" /\ Gathered(c)
  /\ task' = None
  /\ active' = FALSE /\ healthy' = FALSE
  /\ saved' = [saved EXCEPT ![c] = None]
  /\ pc' = [pc EXCEPT ![c] = AfterStop(c)]
  /\ UNCHANGED <<requested, shutdown, runtime, idle, viewer, had, loop,
                 cancel, runner, child, oneshot, overlapped, stray>>

\* Awaiting a task that another stop cancelled, or that ended with an exception,
\* raises it here: the task stays in _stream_task.
StopAborts(c) ==
  /\ pc[c] \in {"returning", "await"}
  /\ saved[c] # None /\ loop[saved[c]] \in {"cancelled", "failed"}
  /\ saved' = [saved EXCEPT ![c] = None]
  /\ had' = had \ {c}
  /\ pc' = [pc EXCEPT ![c] = IF c = Closer THEN "aborted" ELSE "free"]
  /\ UNCHANGED <<requested, shutdown, runtime, task, idle, viewer, loop,
                 cancel, runner, child, oneshot, active, healthy, overlapped,
                 stray>>

\* The second half of async_restart_stream.
Reconnect(c) ==
  /\ pc[c] = "reconnecting" \/ (pc[c] = "reconnect" /\ ~Held)
  /\ \/ /\ MayConnect
        /\ ConnectBody
        /\ pc' = [IdleCancelled(pc) EXCEPT ![c] = "free"]
     \/ /\ ~MayConnect
        /\ pc' = [pc EXCEPT ![c] = "free"]
        /\ UNCHANGED <<requested, idle, task, loop, overlapped>>
  /\ had' = had \ {c}
  /\ UNCHANGED <<shutdown, runtime, viewer, saved, cancel, runner, child,
                 oneshot, active, healthy, stray>>

\* The second half of async_delete_proprietary_files, under the manager lock.
DeleteFiles(c) ==
  /\ pc[c] = "deleting" \/ (pc[c] = "delete" /\ oneshot = "off")
  /\ runtime' = IF shutdown THEN runtime ELSE "none"
  /\ pc' = [pc EXCEPT ![c] = "free"]
  /\ UNCHANGED <<requested, shutdown, task, idle, viewer, saved, had, loop,
                 cancel, runner, child, oneshot, active, healthy, overlapped,
                 stray>>

\* The second half of async_shutdown: close the server, scrub, release.
Close ==
  /\ pc[Closer] = "closing"
  /\ viewer' = [v \in Viewers |-> "out"]
  /\ runtime' = "none"
  /\ pc' = [pc EXCEPT ![Closer] = "over"]
  /\ UNCHANGED <<requested, shutdown, task, idle, saved, had, loop, cancel,
                 runner, child, oneshot, active, healthy, overlapped, stray>>

------------------------------------------------------------------------------
(***************************************************************************)
(* _async_stream_loop.                                                     *)
(***************************************************************************)
Wanted == requested /\ ~shutdown

EndSessionFlagsKept(l) ==
  /\ UNCHANGED <<active, healthy>>
  /\ loop' = [loop EXCEPT ![l] = IF Wanted THEN "backoff" ELSE "done"]

\* The session is over: reset the flags, then back off or finish.
EndSession(l) ==
  /\ active' = FALSE /\ healthy' = FALSE
  /\ loop' = [loop EXCEPT ![l] = IF Wanted THEN "backoff" ELSE "done"]

LoopTop(l) ==
  /\ loop[l] \in {"new", "backoff"} /\ l \notin cancel
  /\ IF Wanted /\ runtime # "none"
     THEN /\ loop' = [loop EXCEPT ![l] = "creds"]
          /\ active' = FALSE /\ healthy' = FALSE
     ELSE EndSession(l)
  /\ UNCHANGED <<requested, shutdown, runtime, task, idle, viewer, pc, saved,
                 had, cancel, runner, child, oneshot, overlapped, stray>>

ShowSession == active' = TRUE

CredentialsArrive(l) ==
  /\ loop[l] = "creds" /\ l \notin cancel
  /\ loop' = [loop EXCEPT ![l] = "lock"]
  /\ ShowSession
  /\ UNCHANGED <<requested, shutdown, runtime, task, idle, viewer, pc, saved,
                 had, cancel, runner, child, oneshot, healthy, overlapped,
                 stray>>

CredentialsFail(l) ==
  /\ loop[l] = "creds" /\ l \notin cancel
  /\ EndSession(l)
  /\ UNCHANGED <<requested, shutdown, runtime, task, idle, viewer, pc, saved,
                 had, cancel, runner, child, oneshot, overlapped, stray>>

RunnerUnlocked == TRUE
RunnerFree == runner = None

TakeRunner(l) ==
  /\ loop[l] = "lock" /\ l \notin cancel /\ RunnerFree
  /\ runner' = l
  /\ loop' = [loop EXCEPT ![l] = "spawn"]
  /\ UNCHANGED <<requested, shutdown, runtime, task, idle, viewer, pc, saved,
                 had, cancel, child, oneshot, active, healthy, overlapped,
                 stray>>

Spawn(l) ==
  /\ loop[l] = "spawn" /\ l \notin cancel
  /\ \/ /\ loop' = [loop EXCEPT ![l] = "stream"]
        /\ child' = "alive"
        /\ UNCHANGED <<runner, active, healthy>>
     \/ /\ EndSession(l)                  \* the helper could not be started
        /\ runner' = None
        /\ UNCHANGED child
  /\ UNCHANGED <<requested, shutdown, runtime, task, idle, viewer, pc, saved,
                 had, cancel, oneshot, overlapped, stray>>

\* A frame that leaves the server healthy.
Frame(l) ==
  /\ loop[l] = "stream" /\ l \notin cancel /\ ~healthy
  /\ healthy' = TRUE
  /\ UNCHANGED <<requested, shutdown, runtime, task, idle, viewer, pc, saved,
                 had, loop, cancel, runner, child, oneshot, active,
                 overlapped, stray>>

\* No frame in time, or an invalid one: the runner terminates the child.
FramesFail(l) ==
  /\ loop[l] = "stream" /\ l \notin cancel /\ child = "alive"
  /\ child' = "dying"
  /\ UNCHANGED <<requested, shutdown, runtime, task, idle, viewer, pc, saved,
                 had, loop, cancel, runner, oneshot, active, healthy,
                 overlapped, stray>>

\* The process goes away, by itself or because it was signalled.
ChildExits ==
  /\ child # "none"
  /\ child' = "none"
  /\ UNCHANGED <<requested, shutdown, runtime, task, idle, viewer, pc, saved,
                 had, loop, cancel, runner, oneshot, active, healthy,
                 overlapped, stray>>

SessionEnds(l) ==
  /\ loop[l] = "stream" /\ l \notin cancel /\ child = "none"
  /\ runner' = None
  /\ EndSession(l)
  /\ UNCHANGED <<requested, shutdown, runtime, task, idle, viewer, pc, saved,
                 had, cancel, child, oneshot, overlapped, stray>>

\* A cancelled task terminates its child before it lets go of the runner.
CancelKills(l) ==
  /\ l \in cancel /\ loop[l] = "stream" /\ child = "alive"
  /\ child' = "dying"
  /\ UNCHANGED <<requested, shutdown, runtime, task, idle, viewer, pc, saved,
                 had, loop, cancel, runner, oneshot, active, healthy,
                 overlapped, stray>>

\* The runner forgets its child; a stop that has signalled it waits for it still.
LetGo ==
  /\ child' = "none"
  /\ stray' = (stray \/ (child = "dying" /\ \E c \in Callers : pc[c] = "term"))

\* A cancellation that comes while the runner already terminates the child lets go
\* of it; how many it takes (process.py:299-310) is not counted.
Cancelled(l) ==
  /\ l \in cancel /\ Live(l)
  /\ IF loop[l] = "stream"
     THEN child # "alive" /\ LetGo
     ELSE UNCHANGED <<child, stray>>
  /\ loop' = [loop EXCEPT ![l] = "cancelled"]
  /\ cancel' = cancel \ {l}
  /\ runner' = IF runner = l THEN None ELSE runner
  /\ IF loop[l] \in {"new", "backoff"} THEN UNCHANGED <<active, healthy>>
                                       ELSE active' = FALSE /\ healthy' = FALSE
  /\ UNCHANGED <<requested, shutdown, runtime, task, idle, viewer, pc, saved,
                 had, oneshot, overlapped>>

\* What none of the loop's except clauses catches (os.pipe at its limit, a
\* fault of the muxer, an error in a clean-up or a listener) ends the task.
\* The request stays, and nobody starts another task but the next connect.
LoopRaises(l) ==
  /\ Live(l)
  /\ loop[l] \in {"new", "backoff"} => Wanted /\ l \notin cancel
  /\ loop[l] = "lock" => l \in cancel
  /\ loop[l] = "stream" => child = "none"
  /\ loop' = [loop EXCEPT ![l] = "failed"]
  /\ cancel' = cancel \ {l}
  /\ runner' = IF runner = l THEN None ELSE runner
  /\ active' = FALSE /\ healthy' = FALSE
  /\ UNCHANGED <<requested, shutdown, runtime, task, idle, viewer, pc, saved,
                 had, child, oneshot, overlapped, stray>>

------------------------------------------------------------------------------
(***************************************************************************)
(* One-shot helper runs (library probe, frame probe, snapshot), as far as  *)
(* they share the manager lock and the process runner with the stream.     *)
(***************************************************************************)
OneShotStarts ==
  /\ oneshot = "off" /\ ~shutdown /\ ~requested
  /\ oneshot' = "prepare"
  /\ UNCHANGED <<requested, shutdown, runtime, task, idle, viewer, pc, saved,
                 had, loop, cancel, runner, child, active, healthy,
                 overlapped, stray>>

OneShotRuns ==
  /\ oneshot = "prepare" /\ RunnerFree
  /\ oneshot' = "run" /\ runner' = OneShot /\ child' = "alive"
  /\ UNCHANGED <<requested, shutdown, runtime, task, idle, viewer, pc, saved,
                 had, loop, cancel, active, healthy, overlapped, stray>>

\* It fails before the helper runs, or the helper ends; unless the manager is
\* stopped, a library probe then accepts or rejects the runtime.
OneShotEnds ==
  /\ \/ oneshot = "prepare" /\ UNCHANGED runner
     \/ oneshot = "run" /\ child = "none" /\ runner' = None
  /\ oneshot' = "off"
  /\ \/ UNCHANGED runtime
     \/ ~shutdown /\ oneshot = "run" /\ runtime' = "ready"
     \/ ~shutdown /\ runtime # "none" /\ runtime' = "rejected"
  /\ UNCHANGED <<requested, shutdown, task, idle, viewer, pc, saved, had,
                 loop, cancel, child, active, healthy, overlapped, stray>>

\* async_run, cancelled or failing before its child's input is closed, or
\* cancelled once more while it terminates it, frees the lock and forgets a live
\* child.  Nothing refers to that child again but a stop that signalled it.
OneShotLetsGo ==
  /\ oneshot = "run" /\ child # "none"
  /\ LetGo
  /\ oneshot' = "off" /\ runner' = None
  /\ \/ UNCHANGED runtime
     \/ ~shutdown /\ runtime # "none" /\ runtime' = "rejected"
  /\ UNCHANGED <<requested, shutdown, task, idle, viewer, pc, saved, had,
                 loop, cancel, active, healthy, overlapped>>

StrayExits ==
  /\ stray
  /\ stray' = FALSE
  /\ UNCHANGED <<requested, shutdown, runtime, task, idle, viewer, pc, saved,
                 had, loop, cancel, runner, child, oneshot, active, healthy,
                 overlapped>>

------------------------------------------------------------------------------
Continue(c) ==
  /\ pc[c] \in Running
  /\ EnterStop(c) \/ StopReturns(c) \/ StopAborts(c) \/ Reconnect(c)
     \/ DeleteFiles(c)

ViewerStep(v) == Arrive(v) \/ Admitted(v) \/ Leave(v)

CallerStep(c) ==
  \/ EnterStop(c) \/ ChildReaped(c) \/ StopTimesOut(c) \/ StopReturns(c)
  \/ StopAborts(c) \/ Reconnect(c) \/ DeleteFiles(c)

LoopStep(l) ==
  \/ LoopTop(l) \/ CredentialsArrive(l) \/ CredentialsFail(l) \/ TakeRunner(l)
  \/ Spawn(l) \/ Frame(l) \/ FramesFail(l) \/ SessionEnds(l)
  \/ CancelKills(l) \/ Cancelled(l) \/ LoopRaises(l)

Next ==
  \/ \E c \in Callers : Continue(c)
  \/ /\ Yielded
     /\ \/ \E v \in Viewers : ViewerStep(v)
        \/ \E i \in Idlers : IdleFires(i)
        \/ \E c \in Restarters : Restart(c)
        \/ \E c \in Deleters : Delete(c)
        \/ Shutdown \/ Close
        \/ \E c \in Callers : CallerStep(c)
        \/ \E l \in Loops : LoopStep(l)
        \/ ChildExits \/ StrayExits
        \/ OneShotStarts \/ OneShotRuns \/ OneShotEnds \/ OneShotLetsGo

Spec == Init /\ [][Next]_vars

------------------------------------------------------------------------------
(***************************************************************************)
(* Safety.  "overlapped" names the one window the code leaves open: a      *)
(* connect that runs after a stop released _stream_lock and before it      *)
(* assigned _stream_task = None.  The first four hold until that happens;  *)
(* the MC module shows that one of them fails after it.                    *)
(***************************************************************************)

\* Every producer task that is not over is the one _stream_task refers to, so
\* a stop can find it: there is one producer and it is never orphaned.
TrackedProducer == ~overlapped => \A l \in Loops : Live(l) => task = l

\* While the stream is wanted its producer task runs, or ended with an exception
\* the loop does not catch: no stop, restart or cancellation takes down the
\* producer of a viewer that was admitted after it, and no stop leaves the
\* request standing over a task it took down.
NotTakenDown(t) == t # None /\ loop[t] \notin {"done", "cancelled"}
RequestServed ==
  ~overlapped /\ requested /\ ~shutdown => NotTakenDown(task)

\* Once the request is cleared and no stop is under way, nothing is left of
\* the producer, whatever it was doing (credentials, spawn, backoff ...).
StopQuiesces ==
  ~overlapped /\ ~requested /\ (\A c \in Callers : ~Stopping(c))
    => \A l \in Loops : Finished(l)

\* A camera session is visible in the snapshot: no stop's final assignments
\* hide a session that was started after it.
SessionVisible ==
  ~overlapped => \A l \in Loops : InSession(l) => active

\* However many producers there are, the runner's lock lets one of them, or
\* one probe, be at a child at a time, and the child the runner refers to
\* has an owner.  A child that was let go is not one of them: the runner
\* refers to it no longer, and a session may begin while it lives.
OneNativeSession ==
  /\ \A l, k \in Loops : InSession(l) /\ InSession(k) => l = k
  /\ child # "none" => \/ oneshot = "run"
                       \/ \E l \in Loops : loop[l] = "stream"
  /\ oneshot = "run" => \A l \in Loops : ~InSession(l)

\* Entities never show a stream nobody produces: active needs a task past its
\* credentials, healthy one that reads frames, also after every failure,
\* cancellation and restart.
FlagsBacked ==
  /\ active => \E l \in Loops : loop[l] \in {"lock", "spawn", "stream"}
  /\ healthy => \E l \in Loops : loop[l] = "stream"

------------------------------------------------------------------------------
(***************************************************************************)
(* Fairness.  The event loop resumes whatever is runnable, asyncio.Lock is *)
(* first come first served (strong fairness for its waiters), the idle     *)
(* countdown ends, a cancellation is delivered, and a signalled child goes *)
(* away because SIGKILL follows SIGTERM after five seconds.  Nothing is    *)
(* assumed of the cloud, the camera, the helper, the viewers or the        *)
(* administrator.  That a stop's seven seconds end is assumed by itself    *)
(* (Timers), where it is needed.                                           *)
(***************************************************************************)
Fairness ==
  /\ \A c \in Callers :
       /\ WF_vars(Continue(c))
       /\ SF_vars(Yielded /\ \/ EnterStop(c) \/ ChildReaped(c) \/ Reconnect(c)
                             \/ StopReturns(c) \/ StopAborts(c))
  /\ \A i \in Idlers : SF_vars(Yielded /\ IdleFires(i))
  /\ \A v \in Viewers : SF_vars(Yielded /\ Admitted(v))
  /\ \A l \in Loops : SF_vars(Yielded /\ (CancelKills(l) \/ Cancelled(l)))
  /\ SF_vars(Yielded /\ \/ child = "dying" /\ ChildExits
                        \/ StrayExits)
  /\ WF_vars(Yielded /\ Close)

FairSpec == Spec /\ Fairness

Timers == \A c \in Callers : SF_vars(Yielded /\ StopTimesOut(c))

\* Every call of async_stop_stream ends, however long the cloud takes to give
\* credentials and whoever asks for the stream meanwhile: this is what the
\* seven-second wait and the cancellation behind it are for.
StopsReturn ==
  Timers => \A c \in Callers :
    pc[c] \in {"want", "term", "await", "gather"}
      ~> pc[c] \notin {"want", "term", "await", "gather"}

\* A viewer held up behind a stop gets its answer even if no stop's timer ever
\* expires: the lock is not held while a producer task that may never end is
\* awaited, and the child it is held for is killed.
ViewersAnswered ==
  \A v \in Viewers : viewer[v] = "wait" ~> viewer[v] # "wait"

\* Idle teardown: once the viewers are gone for good the producer is too.
IdleTeardown ==
  Timers /\ <>[](\A v \in Viewers : viewer[v] = "out")
    => <>[](overlapped \/ \A l \in Loops : Finished(l))
==============================================================================
