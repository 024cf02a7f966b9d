---------------------------- MODULE HelperProcess ----------------------------
(***************************************************************************)
(* OwletHelperProcessRunner (runtime/process.py): bounded one-shot runs    *)
(* and streams share one lock and one _process; async_stop terminates      *)
(* whatever runs; any call may be cancelled at any of its awaits.          *)
(*                                                                         *)
(* A step of a call is the code between two awaits.  A cancellation during *)
(* the spawn itself needs no child: asyncio kills and waits for it.        *)
(***************************************************************************)
EXTENDS Naturals

CONSTANTS
  Runs,            \* calls of async_run
  Streams,         \* calls of async_stream
  Stoppers,        \* calls of async_stop
  Procs,           \* child processes
  MaxCancel,       \* bound: cancellations of one call
  CleanupCancels,  \* BOOLEAN: a call may be cancelled while it terminates
  None

Calls == Runs \cup Streams

ASSUME RunnerAssumption ==
  /\ Runs \cap Streams = {} /\ Calls \cap Stoppers = {}
  /\ None \notin Calls \cup Procs
  /\ MaxCancel \in Nat /\ CleanupCancels \in BOOLEAN

VARIABLES
  holder,    \* who holds _lock
  process,   \* _process
  proc,      \* each child: "unused", "alive", "dead" or "reaped" (returncode)
  signal,    \* the strongest signal sent to each child's group
  pc,        \* where each call is
  target,    \* the process each terminating call or stop waits for
  cancel,    \* calls with an undelivered cancel()
  cancels,   \* how often each call was cancelled
  scrubbed,  \* calls whose stdin payload is overwritten
  entered,   \* history: calls that got the lock
  started,   \* _started_count
  reaped,    \* _reaped_count
  current,   \* _current_reaped
  orphans    \* history: children that outlived the call that started them

vars == <<holder, process, proc, signal, pc, target, cancel, cancels, scrubbed,
          entered, started, reaped, current, orphans>>
children == <<proc, signal>>
counters == <<started, reaped, current>>

PC == {"idle", "lock", "spawn", "feed", "io", "term", "kill", "lastterm",
       "lastkill", "over"}

TypeOK ==
  /\ holder \in Calls \cup {None} /\ process \in Procs \cup {None}
  /\ proc \in [Procs -> {"unused", "alive", "dead", "reaped"}]
  /\ signal \in [Procs -> {"none", "term", "kill"}]
  /\ pc \in [Calls \cup Stoppers -> PC]
  /\ target \in [Calls \cup Stoppers -> Procs \cup {None}]
  /\ cancel \subseteq Calls /\ cancels \in [Calls -> 0..MaxCancel]
  /\ scrubbed \subseteq Calls /\ entered \subseteq Calls
  /\ started \in Nat /\ reaped \in 0..started
  /\ current \in BOOLEAN /\ orphans \subseteq Procs

Init ==
  /\ holder = None /\ process = None
  /\ proc = [p \in Procs |-> "unused"]
  /\ signal = [p \in Procs |-> "none"]
  /\ pc = [a \in Calls \cup Stoppers |-> "idle"]
  /\ target = [a \in Calls \cup Stoppers |-> None]
  /\ cancel = {} /\ cancels = [c \in Calls |-> 0]
  /\ scrubbed = {} /\ entered = {}
  /\ started = 0 /\ reaped = 0 /\ current = TRUE /\ orphans = {}

Reaped(p) == proc[p] = "reaped"
Lives(p) == proc[p] = "alive"

\* running and all_reaped, as diagnostics() reports them.
RunningNow == process # None /\ ~Reaped(process)
AllReaped == ~RunningNow /\ started = reaped

------------------------------------------------------------------------------
(* The children. *)

\* A child ends by itself or for a signal; SIGKILL cannot be ignored.
Exits(p) ==
  /\ Lives(p)
  /\ proc' = [proc EXCEPT ![p] = "dead"]
  /\ UNCHANGED <<holder, process, signal, pc, target, cancel, cancels, scrubbed,
                 entered, counters, orphans>>

\* asyncio's child watcher sets returncode.
Watcher(p) ==
  /\ proc[p] = "dead"
  /\ proc' = [proc EXCEPT ![p] = "reaped"]
  /\ UNCHANGED <<holder, process, signal, pc, target, cancel, cancels, scrubbed,
                 entered, counters, orphans>>

------------------------------------------------------------------------------
(* The common parts of the calls. *)

\* _async_terminate_process, up to its first wait.
Terminate(a, p, at) ==
  /\ signal' = [signal EXCEPT ![p] = IF @ = "none" THEN "term" ELSE @]
  /\ target' = [target EXCEPT ![a] = p]
  /\ pc' = [pc EXCEPT ![a] = at]

CountUnreaped(p) == ~current
NotYetCounted(p) == ~current /\ Reaped(p)

\* async_run does not terminate the child of a call that fails before its stdin
\* is closed, nor the one it is terminating when it is cancelled again.
LetGo(c) ==
  IF c \in Runs /\ pc[c] \in {"feed", "term", "kill"} /\ ~Reaped(process)
  THEN {process} ELSE {}

\* _record_reaped, _process = None, and the lock goes to the next call.
Release(c) ==
  /\ IF process # None /\ NotYetCounted(process)
     THEN reaped' = reaped + 1 /\ current' = TRUE
     ELSE UNCHANGED <<reaped, current>>
  /\ orphans' = orphans \cup LetGo(c)
  /\ process' = None
  /\ holder' = None
  /\ pc' = [pc EXCEPT ![c] = "over"]
  /\ target' = [target EXCEPT ![c] = None]
  /\ UNCHANGED <<signal, started>>

LetRun(c) == FALSE
MustTerminate(c) == c \in Streams /\ process # None /\ ~Reaped(process)

FinallyScrubLast(c) ==
  IF MustTerminate(c)
  THEN /\ Terminate(c, process, "lastterm")
       /\ UNCHANGED <<holder, process, counters, orphans, scrubbed>>
  ELSE Release(c) /\ scrubbed' = scrubbed \cup {c}

\* The finally clause: only async_stream terminates what still runs.
Finally(c) ==
  /\ scrubbed' = scrubbed \cup {c}
  /\ IF MustTerminate(c)
     THEN /\ Terminate(c, process, "lastterm")
          /\ UNCHANGED <<holder, process, counters, orphans>>
     ELSE Release(c)

------------------------------------------------------------------------------
(* async_run and async_stream. *)

Enter(c) ==
  /\ pc[c] = "idle" \/ (pc[c] = "lock" /\ c \notin cancel)
  /\ IF holder = None
     THEN /\ holder' = c
          /\ pc' = [pc EXCEPT ![c] = "spawn"]
          /\ entered' = entered \cup {c}
     ELSE /\ pc[c] = "idle"
          /\ pc' = [pc EXCEPT ![c] = "lock"]
          /\ UNCHANGED <<holder, entered>>
  /\ UNCHANGED <<process, children, target, cancel, cancels, scrubbed, counters,
                 orphans>>

OneMoreStart == started + 1

Spawns(c) ==
  /\ pc[c] = "spawn" /\ c \notin cancel
  /\ \E p \in Procs :
       /\ proc[p] = "unused"
       /\ proc' = [proc EXCEPT ![p] = "alive"]
       /\ process' = p
  /\ started' = OneMoreStart /\ current' = FALSE
  /\ pc' = [pc EXCEPT ![c] = "feed"]
  /\ UNCHANGED <<holder, signal, target, cancel, cancels, scrubbed, entered, reaped,
                 orphans>>

SpawnFails(c) ==
  /\ pc[c] = "spawn" /\ c \notin cancel
  /\ Finally(c)
  /\ UNCHANGED <<proc, cancel, cancels, entered>>

Fed(c) ==
  /\ pc[c] = "feed" /\ c \notin cancel
  /\ pc' = [pc EXCEPT ![c] = "io"]
  /\ UNCHANGED <<holder, process, children, target, cancel, cancels, scrubbed,
                 entered, counters, orphans>>

\* stdin.drain() raises an OSError because the child closed its end.
FeedFails(c) ==
  /\ pc[c] = "feed" /\ c \notin cancel
  /\ Finally(c)
  /\ UNCHANGED <<proc, cancel, cancels, entered>>

\* The child's output ended and its returncode is known.
Completes(c) ==
  /\ pc[c] = "io" /\ c \notin cancel /\ Reaped(process)
  /\ Finally(c)
  /\ UNCHANGED <<proc, cancel, cancels, entered>>

\* The timeout, or output that is too long or not a frame.
TimesOut(c) ==
  /\ pc[c] = "io" /\ c \notin cancel /\ ~Reaped(process)
  /\ IF c \in Runs
     THEN /\ Terminate(c, process, "term")
          /\ UNCHANGED <<holder, process, scrubbed, counters, orphans>>
     ELSE Finally(c)
  /\ UNCHANGED <<proc, cancel, cancels, entered>>

AsksAgain(p) == [signal EXCEPT ![p] = "term"]
Escalates(p) == [signal EXCEPT ![p] = "kill"]

\* SIGTERM was ignored for five seconds.
Kills(a) ==
  /\ pc[a] \in {"term", "lastterm"} /\ a \notin cancel /\ ~Reaped(target[a])
  /\ signal' = Escalates(target[a])
  /\ pc' = [pc EXCEPT ![a] = IF @ = "term" THEN "kill" ELSE "lastkill"]
  /\ UNCHANGED <<holder, process, proc, target, cancel, cancels, scrubbed, entered,
                 counters, orphans>>

Terminated(c) ==
  /\ pc[c] \in {"term", "kill", "lastterm", "lastkill"}
  /\ c \notin cancel /\ Reaped(target[c])
  /\ IF pc[c] \in {"term", "kill"} THEN Finally(c) ELSE Release(c) /\ UNCHANGED scrubbed
  /\ UNCHANGED <<proc, cancel, cancels, entered>>

------------------------------------------------------------------------------
(* Cancellation. *)

MayCancel(c) ==
  /\ cancels[c] < MaxCancel
  /\ \/ pc[c] \in {"lock", "spawn", "feed", "io"}
     \/ CleanupCancels /\ pc[c] \in {"term", "kill", "lastterm", "lastkill"}

Cancel(c) ==
  /\ MayCancel(c) /\ c \notin cancel
  /\ cancel' = cancel \cup {c}
  /\ cancels' = [cancels EXCEPT ![c] = @ + 1]
  /\ UNCHANGED <<holder, process, children, pc, target, scrubbed, entered, counters,
                 orphans>>

\* Waiting for the lock: the try statement was not entered.
CancelledWaiting(c) ==
  /\ pc[c] = "lock"
  /\ pc' = [pc EXCEPT ![c] = "over"]
  /\ UNCHANGED <<holder, process, signal, target, scrubbed, counters, orphans>>

\* async_run catches a cancellation only once its stdin is closed.
Caught(c) == pc[c] = "io" \/ (c \in Streams /\ pc[c] = "feed")

CancelledWorking(c) ==
  /\ pc[c] \in {"spawn", "feed", "io", "term", "kill"}
  /\ IF Caught(c) /\ ~Reaped(process)
     THEN /\ Terminate(c, process, "term")
          /\ UNCHANGED <<holder, process, scrubbed, counters, orphans>>
     ELSE Finally(c)

\* Cut off inside the finally clause: the rest of it is skipped.
CancelledCleaning(c) ==
  /\ pc[c] \in {"lastterm", "lastkill"}
  /\ holder' = None
  /\ pc' = [pc EXCEPT ![c] = "over"]
  /\ target' = [target EXCEPT ![c] = None]
  /\ orphans' = orphans \cup {target[c]}
  /\ UNCHANGED <<process, signal, scrubbed, counters>>

Cancelled(c) ==
  /\ c \in cancel
  /\ cancel' = cancel \ {c}
  /\ CancelledWaiting(c) \/ CancelledWorking(c) \/ CancelledCleaning(c)
  /\ UNCHANGED <<proc, cancels, entered>>

------------------------------------------------------------------------------
(* async_stop. *)

StopCall(a) ==
  /\ pc[a] = "idle"
  /\ IF RunningNow
     THEN Terminate(a, process, "term")
     ELSE pc' = [pc EXCEPT ![a] = "over"] /\ UNCHANGED <<signal, target>>
  /\ UNCHANGED <<holder, process, proc, cancel, cancels, scrubbed, entered,
                 counters, orphans>>

Stopped(a) ==
  /\ pc[a] \in {"term", "kill"} /\ Reaped(target[a])
  /\ pc' = [pc EXCEPT ![a] = "over"]
  /\ UNCHANGED <<holder, process, children, target, cancel, cancels, scrubbed,
                 entered, counters, orphans>>

CallStep(c) ==
  \/ Spawns(c) \/ SpawnFails(c) \/ Fed(c) \/ FeedFails(c) \/ Completes(c)
  \/ TimesOut(c) \/ Kills(c) \/ Terminated(c) \/ Cancelled(c)

StopStep(a) == Kills(a) \/ Stopped(a)

Next ==
  \/ \E c \in Calls : Enter(c) \/ Cancel(c) \/ CallStep(c)
  \/ \E a \in Stoppers : StopCall(a) \/ StopStep(a)
  \/ \E p \in Procs : Exits(p) \/ Watcher(p)

Spec == Init /\ [][Next]_vars

\* The event loop runs what is ready, timeouts expire, the kernel obeys SIGKILL.
Fairness ==
  /\ \A c \in Calls :
       /\ SF_vars(Enter(c)) /\ WF_vars(Spawns(c) \/ SpawnFails(c))
       /\ WF_vars(Fed(c) \/ FeedFails(c)) /\ WF_vars(Cancelled(c))
       /\ WF_vars(c \in Runs /\ (Completes(c) \/ TimesOut(c)))
       /\ WF_vars(Kills(c)) /\ WF_vars(Terminated(c))
  /\ \A a \in Stoppers : WF_vars(Kills(a)) /\ WF_vars(Stopped(a))
  /\ \A p \in Procs : WF_vars(signal[p] = "kill" /\ Exits(p)) /\ WF_vars(Watcher(p))

FairSpec == Spec /\ Fairness

------------------------------------------------------------------------------
(* Properties *)

Living == {p \in Procs : Lives(p)} \ orphans

Slot == INSTANCE ChildSlot WITH
  slot <- IF Living = {} THEN None ELSE CHOOSE p \in Living : TRUE,
  spent <- {p \in Procs : proc[p] \in {"dead", "reaped"}} \cup orphans

\* "Own at most one child process": the calls implement a slot for one child,
\* which falls empty when the child ends, or when it is orphaned: by a run that
\* failed before its stdin was closed, or by a clean-up that was cut off.
OneChild == Slot!Spec

\* Diagnostics never report all children reaped while one is not, whatever
\* was cancelled and however often.
AllReapedTrue ==
  /\ TypeOK
  /\ AllReaped => \A p \in Procs : proc[p] \in {"unused", "reaped"}

\* A call that got the lock leaves no secret behind, on any way out, even if
\* it is cut off inside its finally clause.
SecretsScrubbed ==
  \A c \in Calls : pc[c] = "over" /\ c \in entered => c \in scrubbed

\* A one-shot run ends and frees the lock, and async_stop returns, whatever the
\* child does and however often the run is cancelled on its way.
CallsEnd ==
  /\ \A c \in Runs : holder = c ~> holder # c
  /\ \A a \in Stoppers : pc[a] \in {"term", "kill"} ~> pc[a] = "over"
==============================================================================
