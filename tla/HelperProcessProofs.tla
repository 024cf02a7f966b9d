------------------------- MODULE HelperProcessProofs -------------------------
(***************************************************************************)
(* Proofs about the two ends of a helper process: HelperProcess, for any   *)
(* number of calls, stops, children and cancellations, and NativeHelper,   *)
(* for any set of binaries and any size of pipe.                           *)
(***************************************************************************)
EXTENDS HelperProcess, NativeHelper, TLAPS

Working == {"feed", "io", "term", "kill", "lastterm", "lastkill"}
Ending == {"term", "kill", "lastterm", "lastkill"}

\* A call is past the lock exactly while it holds it; then it works on _process,
\* and waits for no other child.  A stop waits for a child, too.
Holding ==
  /\ \A c \in Calls : (holder = c) <=> (pc[c] \in Working \cup {"spawn"})
  /\ \A c \in Calls : pc[c] \in Working => process # None
  /\ \A c \in Calls : pc[c] \in Ending => target[c] = process
  /\ \A c \in Runs : pc[c] \notin {"lastterm", "lastkill"}

\* A child that is not the current one and not reaped is missing from
\* _reaped_count for good; the current one is missing until it is counted.
Counting ==
  /\ ~current => reaped < started
  /\ process # None => ~current
  /\ \A p \in Procs \ {process} :
       proc[p] \in {"alive", "dead"} =>
         /\ reaped < started
         /\ process # None => reaped + 1 < started

\* A child that lives is the current one of the call that has the lock, or an
\* orphan.
Slotted ==
  /\ \A p \in Procs : Lives(p) /\ p \notin orphans =>
       p = process /\ \E c \in Calls : pc[c] \in Working
  /\ \A p \in orphans : proc[p] # "unused"
  /\ process # None => proc[process] # "unused"

Scrubbing ==
  \A c \in Calls :
    /\ pc[c] \in {"idle", "lock"} => c \notin entered
    /\ pc[c] \in {"lastterm", "lastkill"} => c \in scrubbed
    /\ pc[c] = "over" /\ c \in entered => c \in scrubbed

Inductive == TypeOK /\ Holding /\ Counting /\ Slotted /\ Scrubbing

------------------------------------------------------------------------------

\* A runner starts without a child, a call or a payload.
LEMMA InitInductive == Init => Inductive
  <1> SUFFICES ASSUME Init PROVE Inductive
    OBVIOUS
  <1>1. TypeOK
    BY RunnerAssumption DEF Init, TypeOK, PC
  <1>2. Holding /\ Scrubbing
    BY RunnerAssumption DEF Init, Holding, Scrubbing, Working, Ending, Calls
  <1>3. Counting /\ Slotted
    BY DEF Init, Counting, Slotted, Lives
  <1> QED BY <1>1, <1>2, <1>3 DEF Inductive

\* A call gives the lock up: the child it leaves alive becomes an orphan.
LEMMA ReleaseInductive ==
  ASSUME Inductive, NEW c \in Calls, pc[c] \in Working \cup {"spawn"}, Release(c),
         process \in Procs /\ Lives(process) /\ process \notin orphans
           => pc[c] = "spawn" \/ process \in LetGo(c),
         scrubbed' = scrubbed \cup {c} \/ (scrubbed' = scrubbed /\ c \in scrubbed),
         UNCHANGED <<proc, entered, cancels>>, cancel' \subseteq cancel
  PROVE  Inductive'
  <1> USE DEF Inductive, Working, Ending
  <1>1. LetGo(c) \subseteq Procs /\ \A p \in LetGo(c) : proc[p] # "unused"
    BY RunnerAssumption DEF LetGo, Holding, Slotted, TypeOK, Calls
  <1>2. /\ pc' = [pc EXCEPT ![c] = "over"] /\ target' = [target EXCEPT ![c] = None]
        /\ process' = None /\ holder' = None /\ orphans' = orphans \cup LetGo(c)
        /\ UNCHANGED <<signal, started>>
    BY DEF Release
  <1>3. CASE process # None /\ NotYetCounted(process)
    <2>1. reaped' = reaped + 1 /\ current' = TRUE /\ reaped < started /\ ~current
      BY <1>3 DEF Release, NotYetCounted, Counting
    <2>2. TypeOK'
      BY <1>1, <1>2, <2>1 DEF TypeOK, PC
    <2>3. Counting'
      BY <1>2, <1>3, <2>1 DEF Counting, NotYetCounted, Reaped, TypeOK
    <2> QED BY <2>2, <2>3, <1>1, <1>2, RunnerAssumption
      DEF Holding, Slotted, Scrubbing, TypeOK, Lives, Calls
  <1>4. CASE ~(process # None /\ NotYetCounted(process))
    <2>1. UNCHANGED <<reaped, current>>
      BY <1>4 DEF Release
    <2>2. TypeOK'
      BY <1>1, <1>2, <2>1 DEF TypeOK, PC
    <2>3. Counting'
      BY <1>2, <1>4, <2>1 DEF Counting, NotYetCounted, Reaped, TypeOK
    <2> QED BY <2>2, <2>3, <1>1, <1>2, RunnerAssumption
      DEF Holding, Slotted, Scrubbing, TypeOK, Lives, Calls
  <1> QED BY <1>3, <1>4

\* A call starts to terminate the current child.
LEMMA TerminateInductive ==
  ASSUME Inductive, NEW c \in Calls, pc[c] \in Working \cup {"spawn"}, process # None,
         NEW at \in {"term", "lastterm"}, Terminate(c, process, at),
         at = "lastterm" => c \in Streams /\ c \in scrubbed',
         scrubbed' \in {scrubbed, scrubbed \cup {c}},
         UNCHANGED <<holder, process, proc, counters, orphans, entered, cancels>>,
         cancel' \subseteq cancel
  PROVE  Inductive'
  <1> USE DEF Inductive, Working, Ending, Terminate, counters
  <1>1. TypeOK'
    BY DEF TypeOK, PC
  <1>2. Holding' /\ Scrubbing'
    BY RunnerAssumption DEF Holding, Scrubbing, TypeOK, Calls
  <1>3. Counting'
    BY DEF Counting
  <1>4. Slotted'
    BY RunnerAssumption DEF Slotted, TypeOK, Calls, Lives
  <1> QED BY <1>1, <1>2, <1>3, <1>4

\* The finally clause, on every way into it.
LEMMA FinallyInductive ==
  ASSUME Inductive, NEW c \in Calls, Finally(c),
         pc[c] \in {"spawn", "feed", "term", "kill"}
           \/ (pc[c] = "io" /\ (c \in Streams \/ Reaped(process))),
         UNCHANGED <<proc, entered, cancels>>, cancel' \subseteq cancel
  PROVE  Inductive'
  <1>1. CASE MustTerminate(c)
    <2>1. /\ Terminate(c, process, "lastterm") /\ scrubbed' = scrubbed \cup {c}
          /\ UNCHANGED <<holder, process, counters, orphans>>
          /\ c \in Streams /\ process # None
      BY <1>1 DEF Finally, MustTerminate
    <2> QED BY <2>1, TerminateInductive DEF Working, counters
  <1>2. CASE ~MustTerminate(c)
    <2>1. Release(c) /\ scrubbed' = scrubbed \cup {c}
      BY <1>2 DEF Finally
    <2>2. process \in Procs /\ Lives(process) => pc[c] = "spawn" \/ process \in LetGo(c)
      BY <1>2, RunnerAssumption DEF MustTerminate, LetGo, Lives, Reaped, Calls
    <2> QED BY <2>1, <2>2, ReleaseInductive DEF Working
  <1> QED BY <1>1, <1>2

\* Every step of the three calls, of a child and of a cancellation.
LEMMA StepInductive == Inductive /\ [Next]_vars => Inductive'
  <1> SUFFICES ASSUME Inductive, [Next]_vars PROVE Inductive'
    OBVIOUS
  <1> USE DEF children, counters
  <1>1. ASSUME NEW c \in Calls, Enter(c) PROVE Inductive'
    <2>1. CASE holder = None
      BY <1>1, <2>1, RunnerAssumption
      DEF Enter, Inductive, TypeOK, PC, Holding, Counting, Slotted, Scrubbing, Working,
          Ending, Lives, Calls
    <2>2. CASE holder # None
      BY <1>1, <2>2, RunnerAssumption
      DEF Enter, Inductive, TypeOK, PC, Holding, Counting, Slotted, Scrubbing, Working,
          Ending, Lives, Calls
    <2> QED BY <2>1, <2>2
  <1>2. ASSUME NEW c \in Calls, Cancel(c) PROVE Inductive'
    <2>1. TypeOK'
      BY <1>2, RunnerAssumption DEF Cancel, MayCancel, Inductive, TypeOK
    <2> QED BY <1>2, <2>1
      DEF Cancel, Inductive, Holding, Counting, Slotted, Scrubbing, Lives
  <1>3. ASSUME NEW c \in Calls, Spawns(c) PROVE Inductive'
    <2>1. PICK p \in Procs : /\ proc[p] = "unused" /\ process' = p
                             /\ proc' = [proc EXCEPT ![p] = "alive"]
      BY <1>3 DEF Spawns
    <2>2. /\ pc[c] = "spawn" /\ pc' = [pc EXCEPT ![c] = "feed"] /\ started' = started + 1
          /\ current' = FALSE /\ reaped' = reaped /\ orphans' = orphans
          /\ UNCHANGED <<holder, signal, target, cancel, cancels, scrubbed, entered>>
      BY <1>3 DEF Spawns, OneMoreStart
    <2>3. TypeOK'
      <3>1. current' \in BOOLEAN /\ started' \in Nat /\ reaped' \in 0..started'
        <4>1. started' \in Nat /\ reaped' \in 0..started'
          BY <2>2 DEF Inductive, TypeOK
        <4> QED BY <2>2, <4>1
      <3> QED BY <2>1, <2>2, <3>1 DEF Inductive, TypeOK, PC
    <2>4. Holding' /\ Scrubbing'
      BY <2>1, <2>2, RunnerAssumption
      DEF Inductive, TypeOK, Holding, Scrubbing, Working, Ending, Calls
    <2>5. Counting'
      <3>1. ASSUME NEW q \in Procs \ {p}, proc'[q] \in {"alive", "dead"}
            PROVE  reaped < started
        <4>1. proc[q] \in {"alive", "dead"}
          BY <2>1, <3>1 DEF Inductive, TypeOK
        <4>2. CASE q = process
          BY <4>2, RunnerAssumption DEF Inductive, Counting
        <4>3. CASE q # process
          BY <4>1, <4>3 DEF Inductive, Counting
        <4> QED BY <4>2, <4>3
      <3> QED BY <2>1, <2>2, <3>1 DEF Inductive, TypeOK, Counting
    <2>6. Slotted'
      BY <2>1, <2>2, RunnerAssumption
      DEF Inductive, TypeOK, Holding, Slotted, Working, Lives, Calls
    <2> QED BY <2>3, <2>4, <2>5, <2>6 DEF Inductive
  <1>4. ASSUME NEW c \in Calls, SpawnFails(c) \/ FeedFails(c) \/ Completes(c)
        PROVE  Inductive'
    BY <1>4, FinallyInductive DEF SpawnFails, FeedFails, Completes
  <1>5. ASSUME NEW c \in Calls, Fed(c) PROVE Inductive'
    BY <1>5
    DEF Fed, Inductive, TypeOK, PC, Holding, Counting, Slotted, Scrubbing, Working,
        Ending, Lives
  <1>6. ASSUME NEW c \in Calls, TimesOut(c) PROVE Inductive'
    <2>1. CASE c \in Runs
      <3>1. process # None
        BY <1>6 DEF TimesOut, Inductive, Holding, Working
      <3> QED BY <1>6, <2>1, <3>1, TerminateInductive DEF TimesOut, Working
    <2>2. CASE c \notin Runs
      BY <1>6, <2>2, FinallyInductive DEF TimesOut, Calls
    <2> QED BY <2>1, <2>2
  <1>7. ASSUME NEW a \in Calls \cup Stoppers, Kills(a) PROVE Inductive'
    <2>1. TypeOK'
      BY <1>7 DEF Kills, Escalates, Inductive, TypeOK, PC
    <2>2. Holding' /\ Scrubbing'
      BY <1>7, RunnerAssumption
      DEF Kills, Inductive, TypeOK, Holding, Scrubbing, Working, Ending, Calls
    <2>3. Counting' /\ Slotted'
      BY <1>7 DEF Kills, Inductive, TypeOK, Counting, Slotted, Working, Lives
    <2> QED BY <2>1, <2>2, <2>3 DEF Inductive
  <1>8. ASSUME NEW c \in Calls, Terminated(c) PROVE Inductive'
    <2>1. CASE pc[c] \in {"term", "kill"}
      BY <1>8, <2>1, FinallyInductive DEF Terminated
    <2>2. CASE pc[c] \in {"lastterm", "lastkill"}
      <3>1. /\ Release(c) /\ scrubbed' = scrubbed /\ c \in scrubbed /\ Reaped(process)
            /\ UNCHANGED <<proc, cancel, cancels, entered>>
        BY <1>8, <2>2 DEF Terminated, Inductive, Holding, Scrubbing, Ending
      <3>2. ~Lives(process)
        BY <3>1 DEF Reaped, Lives
      <3> QED BY <2>2, <3>1, <3>2, ReleaseInductive DEF Working
    <2> QED BY <1>8, <2>1, <2>2 DEF Terminated
  <1>9. ASSUME NEW c \in Calls, Cancelled(c) PROVE Inductive'
    <2>0. cancel' \subseteq cancel /\ UNCHANGED <<proc, cancels, entered>>
      BY <1>9 DEF Cancelled
    <2>1. CASE CancelledWaiting(c)
      BY <2>0, <2>1
      DEF CancelledWaiting, Inductive, TypeOK, PC, Holding, Counting, Slotted, Scrubbing,
          Working, Ending, Lives
    <2>2. CASE CancelledWorking(c)
      <3>1. CASE Caught(c) /\ ~Reaped(process)
        <4>1. process # None
          BY <3>1 DEF Caught, Inductive, Holding, Working
        <4> QED BY <2>0, <2>2, <3>1, <4>1, TerminateInductive DEF CancelledWorking, Working
      <3>2. CASE ~(Caught(c) /\ ~Reaped(process))
        BY <2>0, <2>2, <3>2, FinallyInductive DEF CancelledWorking, Caught
      <3> QED BY <3>1, <3>2
    <2>3. CASE CancelledCleaning(c)
      <3>1. /\ process \in Procs /\ target[c] = process /\ holder = c /\ proc[process] # "unused"
            /\ pc[c] \in {"lastterm", "lastkill"}
        BY <2>3, RunnerAssumption
        DEF CancelledCleaning, Inductive, TypeOK, Holding, Slotted, Working, Ending
      <3>2. TypeOK'
        BY <2>0, <2>3, <3>1 DEF CancelledCleaning, Inductive, TypeOK, PC
      <3>3. Holding' /\ Scrubbing'
        BY <2>0, <2>3, <3>1, RunnerAssumption
        DEF CancelledCleaning, Inductive, TypeOK, Holding, Scrubbing, Working, Ending, Calls
      <3>4. Counting' /\ Slotted'
        BY <2>0, <2>3, <3>1, RunnerAssumption
        DEF CancelledCleaning, Inductive, TypeOK, Counting, Slotted, Lives, Working
      <3> QED BY <3>2, <3>3, <3>4 DEF Inductive
    <2> QED BY <1>9, <2>1, <2>2, <2>3 DEF Cancelled
  <1>10. ASSUME NEW a \in Stoppers, StopCall(a) \/ Stopped(a) PROVE Inductive'
    <2>1. /\ \A c \in Calls : pc'[c] = pc[c] /\ target'[c] = target[c]
          /\ UNCHANGED <<holder, process, proc, cancel, cancels, scrubbed, entered, counters, orphans>>
      BY <1>10, RunnerAssumption DEF StopCall, Stopped, Terminate, Inductive, TypeOK
    <2>2. TypeOK'
      BY <1>10, <2>1 DEF StopCall, Stopped, Terminate, RunningNow, Inductive, TypeOK, PC
    <2>3. Holding' /\ Counting' /\ Slotted' /\ Scrubbing'
      BY <2>1 DEF Inductive, Holding, Counting, Slotted, Scrubbing, Lives, Calls
    <2> QED BY <2>2, <2>3 DEF Inductive
  <1>11. ASSUME NEW p \in Procs, Exits(p) \/ Watcher(p) PROVE Inductive'
    <2>1. /\ \A q \in Procs : /\ proc'[q] \in {"alive", "dead"} => proc[q] \in {"alive", "dead"}
                              /\ proc'[q] = "alive" => proc[q] = "alive"
                              /\ proc'[q] = "unused" => proc[q] = "unused"
          /\ proc' \in [Procs -> {"unused", "alive", "dead", "reaped"}]
          /\ UNCHANGED <<holder, process, signal, pc, target, cancel, cancels, scrubbed,
                         entered, counters, orphans>>
      BY <1>11 DEF Exits, Watcher, Lives, Inductive, TypeOK
    <2> QED BY <2>1 DEF Inductive, TypeOK, Holding, Counting, Slotted, Scrubbing, Lives
  <1>12. CASE UNCHANGED vars
    BY <1>12 DEF vars, Inductive, TypeOK, Holding, Counting, Slotted, Scrubbing, Lives
  <1> QED BY <1>1, <1>2, <1>3, <1>4, <1>5, <1>6, <1>7, <1>8, <1>9, <1>10, <1>11, <1>12
    DEF Next, CallStep, StopStep

\* The inductive invariant holds in every state of the runner.
THEOREM AlwaysInductive == Spec => []Inductive
  <1> QED BY InitInductive, StepInductive, PTL DEF Spec

\* The diagnostics are never early: when they report every child reaped, no
\* child lives or waits to be reaped, whatever was cancelled.
THEOREM AlwaysAllReapedTrue == Spec => []AllReapedTrue
  <1>1. Inductive => AllReapedTrue
    <2> SUFFICES ASSUME Inductive, AllReaped, NEW p \in Procs
                 PROVE  TypeOK /\ proc[p] \in {"unused", "reaped"}
      BY DEF AllReapedTrue, Inductive
    <2>1. CASE p = process
      BY <2>1, RunnerAssumption DEF AllReaped, RunningNow, Reaped, Inductive
    <2>2. CASE p # process
      <3>1. proc[p] \notin {"alive", "dead"}
        BY <2>2 DEF AllReaped, Inductive, Counting, TypeOK
      <3> QED BY <3>1 DEF Inductive, TypeOK
    <2> QED BY <2>1, <2>2
  <1> QED BY <1>1, AlwaysInductive, PTL

\* No call that had the lock leaves its payload in memory, on any way out.
THEOREM AlwaysSecretsScrubbed == Spec => []SecretsScrubbed
  <1>1. Inductive => SecretsScrubbed
    BY DEF Inductive, Scrubbing, SecretsScrubbed
  <1> QED BY <1>1, AlwaysInductive, PTL

------------------------------------------------------------------------------
(* The runner implements the slot for one child. *)

Spent == {p \in Procs : proc[p] \in {"dead", "reaped"}} \cup orphans
SlotNow == IF Living = {} THEN None ELSE CHOOSE p \in Living : TRUE

\* The slot holds the current child or nothing.
LEMMA SlotIsProcess ==
  ASSUME Inductive
  PROVE  /\ Living = {} \/ (process \in Procs /\ Living = {process})
         /\ Living = {} => SlotNow = None
         /\ Living # {} => SlotNow = process /\ process # None
  <1>1. Living = {} \/ (process \in Procs /\ Living = {process})
    BY DEF Inductive, Slotted, Living
  <1> QED BY <1>1, RunnerAssumption DEF SlotNow

\* What changes neither the living nor the spent is a stutter.
LEMMA SlotStutters ==
  ASSUME Living' = Living, Spent' = Spent
  PROVE  UNCHANGED Slot!vars
  <1>1. SlotNow' = SlotNow
    BY DEF SlotNow
  <1> QED BY <1>1 DEF Slot!vars, SlotNow, Spent

\* A child that lived falls out of the slot, and cannot come back.
LEMMA SlotEnds ==
  ASSUME Inductive, Inductive', Living # {}, Living' = {}, Spent' = Spent \cup {process}
  PROVE  Slot!Ends
  <1>1. SlotNow = process /\ process # None /\ SlotNow' = None
    BY SlotIsProcess, RunnerAssumption DEF SlotNow
  <1> QED BY <1>1 DEF Slot!Ends, SlotNow, Spent

\* Every step but a spawn and an exit can only make the current child an orphan.
LEMMA SlotLetsGo ==
  ASSUME Inductive, Inductive', UNCHANGED proc,
         orphans' = orphans \/ (process \in Procs /\ orphans' = orphans \cup {process})
  PROVE  [Slot!Next]_(Slot!vars)
  <1>1. CASE process \in Living /\ orphans' = orphans \cup {process}
    <2>1. Living = {process}
      BY <1>1, SlotIsProcess
    <2>2. Living' = {} /\ Spent' = Spent \cup {process}
      BY <1>1, <2>1 DEF Living, Lives, Spent
    <2> QED BY <2>1, <2>2, SlotEnds DEF Slot!Next
  <1>2. CASE process \notin Living \/ orphans' = orphans
    <2>1. Living' = Living
      BY <1>2 DEF Living, Lives
    <2>2. Spent' = Spent
      BY <1>2 DEF Living, Lives, Spent, Inductive, TypeOK, Slotted
    <2> QED BY <2>1, <2>2, SlotStutters
  <1> QED BY <1>1, <1>2

\* A call that releases the runner's lock leaves its child in LetGo or reaped.
LEMMA ReleaseLetsGo ==
  ASSUME NEW c \in Calls, Inductive, Finally(c) \/ Release(c)
  PROVE  orphans' = orphans \/ (process \in Procs /\ orphans' = orphans \cup {process})
  <1>1. LetGo(c) = {} \/ (process \in Procs /\ LetGo(c) = {process})
    BY RunnerAssumption DEF LetGo, Inductive, TypeOK, Holding, Working, Calls
  <1> QED BY <1>1 DEF Finally, Release

\* Every step of the runner is a step of the slot, or leaves it alone.
LEMMA StepSlot == Inductive /\ Inductive' /\ [Next]_vars => [Slot!Next]_(Slot!vars)
  <1> SUFFICES ASSUME Inductive, Inductive', [Next]_vars PROVE [Slot!Next]_(Slot!vars)
    OBVIOUS
  <1> USE DEF children
  <1>1. ASSUME NEW c \in Calls, Enter(c) \/ Cancel(c) \/ Fed(c)
        PROVE  [Slot!Next]_(Slot!vars)
    BY <1>1, SlotLetsGo DEF Enter, Cancel, Fed
  <1>2. ASSUME NEW c \in Calls, Spawns(c) PROVE [Slot!Next]_(Slot!vars)
    <2>1. PICK p \in Procs : /\ proc[p] = "unused" /\ process' = p /\ orphans' = orphans
                             /\ proc' = [proc EXCEPT ![p] = "alive"] /\ pc[c] = "spawn"
      BY <1>2 DEF Spawns
    <2>2. Living = {}
      BY <2>1 DEF Inductive, Holding, Slotted, Living, Working
    <2>3. p \notin orphans
      BY <2>1 DEF Inductive, Slotted
    <2>4. Living' = {p}
      BY <2>1, <2>2, <2>3 DEF Living, Lives, Inductive, TypeOK
    <2>5. Spent' = Spent /\ p \notin Spent
      BY <2>1, <2>3 DEF Spent, Inductive, TypeOK
    <2>6. SlotNow = None /\ SlotNow' = p
      BY <2>2, <2>4 DEF SlotNow
    <2>7. Slot!Starts(p)
      BY <2>5, <2>6 DEF Slot!Starts, SlotNow, Spent
    <2> QED BY <2>7 DEF Slot!Next
  <1>3. ASSUME NEW c \in Calls, SpawnFails(c) \/ FeedFails(c) \/ Completes(c)
        PROVE  [Slot!Next]_(Slot!vars)
    BY <1>3, ReleaseLetsGo, SlotLetsGo DEF SpawnFails, FeedFails, Completes
  <1>4. ASSUME NEW c \in Calls, TimesOut(c) PROVE [Slot!Next]_(Slot!vars)
    BY <1>4, ReleaseLetsGo, SlotLetsGo DEF TimesOut
  <1>5. ASSUME NEW a \in Calls \cup Stoppers, Kills(a) PROVE [Slot!Next]_(Slot!vars)
    BY <1>5, SlotLetsGo DEF Kills
  <1>6. ASSUME NEW c \in Calls, Terminated(c) PROVE [Slot!Next]_(Slot!vars)
    BY <1>6, ReleaseLetsGo, SlotLetsGo DEF Terminated
  <1>7. ASSUME NEW c \in Calls, Cancelled(c) PROVE [Slot!Next]_(Slot!vars)
    <2>1. CASE CancelledWaiting(c)
      BY <1>7, <2>1, SlotLetsGo DEF Cancelled, CancelledWaiting
    <2>2. CASE CancelledWorking(c)
      BY <1>7, <2>2, ReleaseLetsGo, SlotLetsGo DEF Cancelled, CancelledWorking
    <2>3. CASE CancelledCleaning(c)
      <3>1. process \in Procs /\ target[c] = process
        BY <2>3 DEF CancelledCleaning, Inductive, TypeOK, Holding, Working, Ending
      <3> QED BY <1>7, <2>3, <3>1, SlotLetsGo DEF Cancelled, CancelledCleaning
    <2> QED BY <1>7, <2>1, <2>2, <2>3 DEF Cancelled
  <1>8. ASSUME NEW a \in Stoppers, StopCall(a) \/ Stopped(a) PROVE [Slot!Next]_(Slot!vars)
    BY <1>8, SlotLetsGo DEF StopCall, Stopped
  <1>9. ASSUME NEW p \in Procs, Exits(p) PROVE [Slot!Next]_(Slot!vars)
    <2>1. Lives(p) /\ proc' = [proc EXCEPT ![p] = "dead"] /\ orphans' = orphans
      BY <1>9 DEF Exits
    <2>2. CASE p \in orphans
      <3>1. Living' = Living
        BY <2>1, <2>2 DEF Living, Lives, Inductive, TypeOK
      <3>2. Spent' = Spent
        BY <2>1, <2>2 DEF Spent, Lives, Inductive, TypeOK
      <3> QED BY <3>1, <3>2, SlotStutters
    <2>3. CASE p \notin orphans
      <3>1. Living = {process} /\ p = process
        BY <2>1, <2>3, SlotIsProcess DEF Living
      <3>2. Living' = {}
        BY <2>1, <3>1 DEF Living, Lives, Inductive, TypeOK
      <3>3. Spent' = Spent \cup {process}
        BY <2>1, <3>1 DEF Spent, Lives, Inductive, TypeOK
      <3> QED BY <3>1, <3>2, <3>3, SlotEnds DEF Slot!Next
    <2> QED BY <2>2, <2>3
  <1>10. ASSUME NEW p \in Procs, Watcher(p) PROVE [Slot!Next]_(Slot!vars)
    <2>1. proc[p] = "dead" /\ proc' = [proc EXCEPT ![p] = "reaped"] /\ orphans' = orphans
      BY <1>10 DEF Watcher
    <2>2. Living' = Living
      BY <2>1 DEF Living, Lives, Inductive, TypeOK
    <2>3. Spent' = Spent
      BY <2>1 DEF Spent, Inductive, TypeOK
    <2> QED BY <2>2, <2>3, SlotStutters
  <1>11. CASE UNCHANGED vars
    BY <1>11, SlotLetsGo DEF vars
  <1> QED BY <1>1, <1>2, <1>3, <1>4, <1>5, <1>6, <1>7, <1>8, <1>9, <1>10, <1>11
    DEF Next, CallStep, StopStep

\* "Own at most one child process": the runner implements the slot, with the
\* orphans it lets go counted as gone.
THEOREM ImplementsSlot == Spec => OneChild
  <1>1. Init => Slot!Init
    <2> SUFFICES ASSUME Init PROVE Slot!Init
      OBVIOUS
    <2>1. Living = {} /\ Spent = {}
      BY DEF Init, Living, Lives, Spent
    <2> QED BY <2>1 DEF Slot!Init, SlotNow, Spent
  <1> QED BY <1>1, StepSlot, AlwaysInductive, PTL DEF Spec, OneChild, Slot!Spec

------------------------------------------------------------------------------
(* The helper itself: NativeHelper. *)

\* What is open at each place of run_probe before the clean-up.
OpenAt ==
  CASE place \in {"start", "ask", "arm", "recheck", "invalid_input",
                  "library_symbols", "over"}     -> {}
    [] place \in {"licence", "iotc_initialize"}  -> {"library_symbols"}
    [] place = "av_initialize"                   -> {"library_symbols", "iotc_initialize"}
    [] place = "session_id"                      ->
         {"library_symbols", "iotc_initialize", "av_initialize"}
    [] place \in {"iotc_connect", "av_authenticate"} ->
         {"library_symbols", "iotc_initialize", "av_initialize", "session_id"}
    [] OTHER                                     -> Resources

\* Whatever is open, all it was opened on is open, too.
Nested == \A i, j \in 1..5 : i < j /\ Opened[j] \in held => Opened[i] \in held

Laddered ==
  /\ place # "clean" => held = OpenAt
  /\ place \in {"start", "ask", "arm", "recheck", "invalid_input"} => secret = "none"
  /\ out # NoWrite => place \in Receiving

\* "clean_shutdown" is written last, and only when enough was received.
Reporting ==
  /\ ended = "exited" => place = "over" /\ secret # "held"
  /\ place = "clean" /\ event = "none" => frames
  /\ event = "ok" => ended = "exited" /\ frames
  /\ verdict = "result" => event = "ok"

NativeInductive == NativeTypeOK /\ Nested /\ Laddered /\ Reporting

\* The names of the rungs and of what they open, one by one.
LEMMA LadderNames ==
  /\ Rungs = {"invalid_input", "library_symbols", "licence", "iotc_initialize",
              "av_initialize", "session_id", "iotc_connect", "av_authenticate",
              "start_video"}
  /\ Resources = {"library_symbols", "iotc_initialize", "av_initialize", "session_id",
                  "av_authenticate"}
<1>1. 1..9 = {1, 2, 3, 4, 5, 6, 7, 8, 9} /\ 1..5 = {1, 2, 3, 4, 5}
  OBVIOUS
<1>2. Rungs = {Ladder[1], Ladder[2], Ladder[3], Ladder[4], Ladder[5], Ladder[6],
               Ladder[7], Ladder[8], Ladder[9]}
  BY <1>1 DEF Rungs
<1>3. Resources = {Opened[1], Opened[2], Opened[3], Opened[4], Opened[5]}
  BY <1>1 DEF Resources
<1> QED BY <1>2, <1>3 DEF Ladder, Opened

\* The rung above each rung.
LEMMA Rises ==
  /\ Above("invalid_input") = "library_symbols" /\ Above("library_symbols") = "licence"
  /\ Above("licence") = "iotc_initialize" /\ Above("iotc_initialize") = "av_initialize"
  /\ Above("av_initialize") = "session_id" /\ Above("session_id") = "iotc_connect"
  /\ Above("iotc_connect") = "av_authenticate" /\ Above("av_authenticate") = "start_video"
  /\ Above("start_video") = "start_audio"
<1>1. \A i, j \in 1..10 : Ladder[i] = Ladder[j] => i = j
  BY DEF Ladder
<1>2. ASSUME NEW k \in 1..9 PROVE Above(Ladder[k]) = Ladder[k + 1]
  <2> DEFINE i == CHOOSE n \in 1..10 : Ladder[n] = Ladder[k]
  <2>1. k \in 1..10 /\ Ladder[k] = Ladder[k]
    OBVIOUS
  <2>2. i \in 1..10 /\ Ladder[i] = Ladder[k]
    BY <2>1
  <2>3. Above(Ladder[k]) = Ladder[1 + i]
    BY DEF Above
  <2> HIDE DEF i
  <2>4. i = k
    BY <1>1, <2>1, <2>2
  <2>5. 1 + k = k + 1
    OBVIOUS
  <2> QED BY <2>3, <2>4, <2>5
<1>3. /\ Above(Ladder[1]) = Ladder[2] /\ Above(Ladder[2]) = Ladder[3]
      /\ Above(Ladder[3]) = Ladder[4] /\ Above(Ladder[4]) = Ladder[5]
      /\ Above(Ladder[5]) = Ladder[6] /\ Above(Ladder[6]) = Ladder[7]
      /\ Above(Ladder[7]) = Ladder[8] /\ Above(Ladder[8]) = Ladder[9]
      /\ Above(Ladder[9]) = Ladder[10]
  BY <1>2
<1> QED BY <1>3 DEF Ladder

\* What Nested says of a set of resources, name by name.
LEMMA NestedNames ==
  ASSUME NEW open
  PROVE  (\A i, j \in 1..5 : i < j /\ Opened[j] \in open => Opened[i] \in open) <=>
         /\ "iotc_initialize" \in open => "library_symbols" \in open
         /\ "av_initialize" \in open => {"library_symbols", "iotc_initialize"} \subseteq open
         /\ "session_id" \in open =>
              {"library_symbols", "iotc_initialize", "av_initialize"} \subseteq open
         /\ "av_authenticate" \in open =>
              {"library_symbols", "iotc_initialize", "av_initialize", "session_id"}
                \subseteq open
<1>1. 1..5 = {1, 2, 3, 4, 5}
  OBVIOUS
<1>2. /\ Opened[1] = "library_symbols" /\ Opened[2] = "iotc_initialize"
      /\ Opened[3] = "av_initialize" /\ Opened[4] = "session_id"
      /\ Opened[5] = "av_authenticate"
  BY DEF Opened
<1>3. (\A i, j \in 1..5 : i < j /\ Opened[j] \in open => Opened[i] \in open) <=>
      \A i, j \in {1, 2, 3, 4, 5} : i < j /\ Opened[j] \in open => Opened[i] \in open
  BY <1>1
<1> QED BY <1>2, <1>3

\* What the clean-up closes next rests under nothing that is still open.
LEMMA LastIsLast ==
  ASSUME held \subseteq Resources, held # {}, Nested
  PROVE  /\ LastOpened \in held
         /\ \A i, j \in 1..5 :
              i < j /\ Opened[j] \in held \ {LastOpened}
                => Opened[i] \in held \ {LastOpened}
<1> DEFINE IsLast(r) == \A i \in 1..5 : Opened[i] \in held =>
                          \E j \in i..5 : Opened[j] = r
<1>1. \A i, j \in 1..5 : Opened[i] = Opened[j] => i = j
  BY DEF Opened
<1>2. \E r \in held : IsLast(r)
  <2>1. \E n \in 1..5 : Opened[n] \in held
    BY DEF Resources
  <2>2. \E n \in 1..5 : /\ Opened[n] \in held
                        /\ \A m \in 1..5 : m > n => Opened[m] \notin held
    <3>1. 1..5 = {1, 2, 3, 4, 5}
      OBVIOUS
    <3> QED BY <2>1, <3>1
  <2>3. PICK n \in 1..5 : /\ Opened[n] \in held
                         /\ \A m \in 1..5 : m > n => Opened[m] \notin held
    BY <2>2
  <2>4. IsLast(Opened[n])
    <3> SUFFICES ASSUME NEW i \in 1..5, Opened[i] \in held
                 PROVE  \E j \in i..5 : Opened[j] = Opened[n]
      OBVIOUS
    <3>1. n \in i..5
      BY <2>3
    <3> QED BY <3>1
  <2> HIDE DEF IsLast
  <2> QED BY <2>3, <2>4
<1>3. LastOpened = CHOOSE r \in held : IsLast(r)
  BY DEF LastOpened
<1>4. LastOpened \in held /\ IsLast(LastOpened)
  <2> HIDE DEF IsLast
  <2> QED BY <1>2, <1>3
<1>5. ASSUME NEW i \in 1..5, NEW j \in 1..5, i < j, Opened[j] \in held \ {LastOpened}
      PROVE  Opened[i] \in held \ {LastOpened}
  <2>1. Opened[i] \in held
    BY <1>5 DEF Nested
  <2>2. PICK k \in j..5 : Opened[k] = LastOpened
    BY <1>4, <1>5
  <2>3. k \in 1..5 /\ k # i
    BY <1>5
  <2> QED BY <1>1, <2>1, <2>2, <2>3
<1> QED BY <1>4, <1>5

\* The ranges, for every step at once.
LEMMA NativeStepTypes == NativeTypeOK /\ [NativeNext]_nativeVars => NativeTypeOK'
<1> SUFFICES ASSUME NativeTypeOK, [NativeNext]_nativeVars PROVE NativeTypeOK'
  OBVIOUS
<1> USE LadderNames DEF NativeTypeOK, outside
<1> HIDE DEF Rungs, Resources
<1>1. /\ armed' \in BOOLEAN /\ frames' \in BOOLEAN
      /\ stop' \in BOOLEAN /\ termed' \in BOOLEAN
  BY Zenon DEF NativeNext, Helper, Parent, Installs, Asks, Arms, Supervised, Climb, Slips,
     StartAudio, LoopEnds, StreamFrame, Captures, NoFrame, ReceiveFails, Side, Turn,
     WritePart, WriteFails, Finish, CloseLast, Exit, Feed, SendTerm, Kill, Collect,
     ParentDies, Take, PublishFails, Signalled, nativeVars
<1>2. CASE Installs
  BY <1>1, <1>2 DEF Installs, Rechecks, Unsupervised, Reached, Goto, Stages
<1>3. CASE Asks
  BY <1>1, <1>3 DEF Asks, Rechecks, Unsupervised, Reached, Goto, Stages
<1>4. CASE Arms
  BY <1>1, <1>4 DEF Arms, Rechecks, Unsupervised, Reached, Goto, Stages
<1>5. CASE Supervised
  BY <1>1, <1>5 DEF Supervised, Rechecks, Unsupervised, Reached, Goto, Stages
<1>6. CASE Climb
  <2>1. Above(place) \in Rungs \cup {"start_audio"}
    BY <1>6, Rises DEF Climb
  <2> QED BY <1>6, <2>1 DEF Climb, Goto
<1>7. CASE Slips
  <2>1. \A more \in HalfOpen(place) : more \subseteq Resources
    BY DEF HalfOpen
  <2> QED BY <1>7, <2>1 DEF Slips, Fail, Goto, Stages
<1>8. CASE StartAudio
  BY <1>1, <1>8 DEF StartAudio, Reached, Goto, Receiving, Fail, Stages
<1>9. CASE LoopEnds
  BY <1>1, <1>9 DEF LoopEnds, Reached, Goto, Receiving, Fail, Stages
<1>10. CASE NoFrame
  BY <1>1, <1>10 DEF NoFrame, Reached, Goto, Receiving, Fail, Stages
<1>11. CASE ReceiveFails
  BY <1>1, <1>11 DEF ReceiveFails, Reached, Goto, Receiving, Fail, Stages
<1>12. CASE Captures
  BY <1>1, <1>12 DEF Captures, Reached, Goto, Receiving, Fail, Stages
<1>13. CASE StreamFrame
  BY <1>13 DEF StreamFrame, Write, Parts, Channels, Receiving, Reached
<1>14. ASSUME NEW at \in {"temperature", "audio", "realtime"},
             NEW ch \in {"sensors", "audio"}, NEW next \in Receiving, Turn(at, ch, next)
      PROVE  NativeTypeOK'
  <2>1. out' \in [ch : Channels, left : 1..2, then : Receiving] \cup {NoWrite}
    <3>1. CASE out' = out
      BY <3>1
    <3>2. CASE Write(ch, next)
      BY <3>2 DEF Write, Parts, Channels
    <3> QED BY <1>14, <3>1, <3>2 DEF Turn
  <2>2. place' = place \/ place' \in Receiving
    BY <1>14 DEF Turn, Goto
  <2>3. on' \subseteq Channels \ {"video"}
    BY <1>14 DEF Turn
  <2> QED BY <1>1, <1>14, <2>1, <2>2, <2>3 DEF Turn
<1>15. CASE WritePart
  <2>1. /\ out \in [ch : Channels, left : 1..2, then : Receiving]
        /\ Room \in Nat
    BY <1>15, HelperAssumption DEF WritePart
  <2>2. pipe' \in [Channels -> 0..Room]
    BY <1>15, <2>1 DEF WritePart
  <2>3. CASE out.left = 1
    BY <1>15, <2>1, <2>2, <2>3 DEF WritePart, Goto
  <2>4. CASE out.left # 1
    <3>1. out' \in [ch : Channels, left : 1..2, then : Receiving]
      <4>1. out.left = 2
        BY <2>1, <2>4
      <4>2. out' = [out EXCEPT !.left = 1]
        BY <1>15, <2>4, <4>1 DEF WritePart
      <4> QED BY <2>1, <4>2
    <3> QED BY <1>15, <2>2, <2>4, <3>1 DEF WritePart
  <2> QED BY <2>3, <2>4
<1>16. CASE WriteFails
  BY <1>16 DEF WriteFails, Fail, Goto, Stages
<1>17. CASE Finish
  BY <1>1, <1>17 DEF Finish, Reached, Goto, Stages
<1>18. CASE CloseLast
  BY <1>1, <1>18 DEF CloseLast, Reached, Goto, Stages
<1>19. CASE Exit
  BY <1>1, <1>19 DEF Exit, Reached, Goto, Stages
<1>20. CASE Feed
  BY <1>1, <1>20 DEF Feed, Signalled
<1>21. CASE SendTerm
  BY <1>1, <1>21 DEF SendTerm, Signalled
<1>22. CASE Kill
  BY <1>1, <1>22 DEF Signalled, Kill
<1>23. CASE Collect
  BY <1>1, <1>23 DEF Signalled, Collect
<1>24. CASE ParentDies
  <2>1. ended' \in {"no", "exited", "killed"} /\ stdin' \in {"empty", "fed", "eof"}
    BY <1>24 DEF ParentDies, Signalled
  <2>2. reader' \in [Channels -> {"reads", "drains", "stopped", "closed"}]
    BY <1>24 DEF ParentDies
  <2> QED BY <1>1, <1>24, <2>1, <2>2 DEF ParentDies
<1>25. ASSUME NEW ch \in Channels, Take(ch)
       PROVE  NativeTypeOK'
  <2>1. pipe' \in [Channels -> 0..Room]
    BY <1>25, HelperAssumption DEF Take
  <2> QED BY <1>1, <1>25, <2>1 DEF Take
<1>26. ASSUME NEW ch \in Channels, PublishFails(ch)
       PROVE  NativeTypeOK'
  <2>1. reader' \in [Channels -> {"reads", "drains", "stopped", "closed"}]
    BY <1>26 DEF PublishFails, Drains
  <2> QED BY <1>1, <1>26, <2>1 DEF PublishFails
<1>27. CASE UNCHANGED nativeVars
  BY <1>27 DEF nativeVars
<1> QED BY <1>1, <1>2, <1>3, <1>4, <1>5, <1>6, <1>7, <1>8, <1>9, <1>10, <1>11, <1>12,
           <1>13, <1>14, <1>15, <1>16, <1>17, <1>18, <1>19, <1>20, <1>21, <1>22,
           <1>23, <1>24, <1>25, <1>26, <1>27 DEF NativeNext, Helper, Parent, Side, Receiving

\* What is open follows the place on the ladder, and is closed from the top.
LEMMA NativeStepPlaces ==
  NativeInductive /\ [NativeNext]_nativeVars => Nested' /\ Laddered'
<1> SUFFICES ASSUME NativeInductive, [NativeNext]_nativeVars PROVE Nested' /\ Laddered'
  OBVIOUS
<1>1. NativeTypeOK /\ Nested /\ Laddered /\ held \subseteq Resources
  BY DEF NativeInductive, NativeTypeOK
<1>2. \A r : r \in Resources <=>
        r \in {"library_symbols", "iotc_initialize", "av_initialize", "session_id",
               "av_authenticate"}
  BY LadderNames
\* The places below the ladder's top, those above it, and what is held there.
<1> DEFINE Below == {"start", "ask", "arm", "recheck", "invalid_input"}
           Top == {"start_audio", "finish"} \cup Receiving
<1>3. CASE UNCHANGED <<place, held, secret, out>>
  BY <1>1, <1>3 DEF Nested, Laddered, OpenAt
<1>4. CASE /\ place \in Top /\ UNCHANGED <<held, secret>>
           /\ \/ place' \in Top /\ (out' # NoWrite => place' \in Receiving)
              \/ place' = "clean" /\ out' = NoWrite
  BY <1>1, <1>4 DEF Nested, Laddered, OpenAt, Receiving
<1>5. CASE Installs
  BY <1>1, <1>5 DEF Installs, Reached, Goto, Nested, Laddered, OpenAt
<1>6. CASE Asks
  BY <1>1, <1>6 DEF Asks, Unsupervised, Reached, Goto, Nested, Laddered, OpenAt
<1>7. CASE Arms
  BY <1>1, <1>7 DEF Arms, Rechecks, Reached, Goto, Nested, Laddered, OpenAt
<1>8. CASE Supervised
  BY <1>1, <1>8 DEF Supervised, Unsupervised, Reached, Goto, Nested, Laddered, OpenAt
<1>9. CASE Climb
  <2>1. /\ place \in Rungs /\ out' = NoWrite /\ place' = Above(place)
        /\ held' = held \cup ({place} \cap Resources)
        /\ secret' = IF place = "invalid_input" THEN "held" ELSE secret
    BY <1>9 DEF Climb, Goto
  <2>2. Laddered'
    BY <1>1, <1>2, <2>1, LadderNames, Rises DEF Laddered, OpenAt
  <2>3. Nested'
    <3>1. held' = OpenAt'
      BY <2>1, <2>2, LadderNames, Rises DEF Laddered
    <3>2. place' \in {"library_symbols", "licence", "iotc_initialize", "av_initialize",
                      "session_id", "iotc_connect", "av_authenticate", "start_video",
                      "start_audio"}
      BY <2>1, LadderNames, Rises
    <3> QED BY <1>2, <3>1, <3>2, NestedNames DEF Nested, OpenAt
  <2> QED BY <2>2, <2>3
<1>10. CASE Slips
  <2>1. /\ place \in Rungs /\ place' = "clean" /\ out' = NoWrite
        /\ \E more \in HalfOpen(place) : held' = held \cup more
    BY <1>10 DEF Slips, Fail, Goto
  <2>2. Laddered'
    BY <2>1 DEF Laddered
  <2>3. Nested'
    <3>1. CASE held' = held
      BY <1>1, <3>1 DEF Nested
    <3>2. CASE place = "library_symbols" /\ held' = held \cup {"library_symbols"}
      <4>1. held' = {"library_symbols"}
        BY <1>1, <3>2 DEF Laddered, OpenAt
      <4>2. \A j \in 1..5 : Opened[j] = "library_symbols" => j = 1
        BY DEF Opened
      <4> QED BY <4>1, <4>2 DEF Nested
    <3> QED BY <2>1, <3>1, <3>2 DEF HalfOpen
  <2> QED BY <2>2, <2>3
<1>11. CASE StartAudio \/ LoopEnds \/ NoFrame
  BY <1>4, <1>11 DEF StartAudio, LoopEnds, NoFrame, Reached, Goto, Receiving
<1>12. CASE StreamFrame \/ ReceiveFails
  BY <1>4, <1>12 DEF StreamFrame, ReceiveFails, Fail, Reached, Goto, Receiving
<1>13. CASE Captures
  BY <1>3, <1>4, <1>13 DEF Captures, Fail, Reached, Goto, Receiving, outside
<1>14. ASSUME NEW at \in {"temperature", "audio", "realtime"},
              NEW ch \in {"sensors", "audio"}, NEW next \in Receiving, Turn(at, ch, next)
       PROVE  Nested' /\ Laddered'
  BY <1>4, <1>14 DEF Turn, Reached, Goto, Receiving
<1>15. CASE WritePart
  <2>1. out \in [ch : Channels, left : 1..2, then : Receiving] /\ place \in Receiving
    BY <1>1, <1>15 DEF WritePart, NativeTypeOK, Laddered
  <2>2. place' \in Receiving /\ UNCHANGED <<held, secret>>
    BY <1>15, <2>1 DEF WritePart, Goto
  <2> QED BY <1>4, <2>1, <2>2
<1>16. CASE WriteFails
  <2>1. out \in [ch : Channels, left : 1..2, then : Receiving] /\ place \in Receiving
    BY <1>1, <1>16 DEF WriteFails, NativeTypeOK, Laddered
  <2>2. /\ place' \in Receiving \/ place' = "clean"
        /\ out' = NoWrite /\ UNCHANGED <<held, secret>>
    BY <1>16, <2>1 DEF WriteFails, Fail, Goto
  <2> QED BY <1>4, <2>1, <2>2
<1>17. CASE Finish
  BY <1>4, <1>17 DEF Finish, Reached, Goto
<1>18. CASE CloseLast
  <2>1. /\ held # {} /\ held' = held \ {LastOpened} /\ place = "clean"
        /\ UNCHANGED <<place, secret, out>>
    BY <1>18 DEF CloseLast, Reached
  <2>2. Nested'
    BY <1>1, <2>1, LastIsLast DEF Nested
  <2> QED BY <1>1, <2>1, <2>2 DEF Laddered
<1>19. CASE Exit
  BY <1>1, <1>19 DEF Exit, Reached, Goto, Nested, Laddered, OpenAt
<1>20. CASE Feed \/ SendTerm \/ Kill \/ Collect \/ ParentDies
  BY <1>3, <1>20 DEF Feed, SendTerm, Kill, Collect, ParentDies
<1>21. CASE \E ch \in Channels : Take(ch) \/ PublishFails(ch)
  BY <1>3, <1>21 DEF Take, PublishFails
<1>22. CASE UNCHANGED nativeVars
  BY <1>3, <1>22 DEF nativeVars
<1> QED BY <1>5, <1>6, <1>7, <1>8, <1>9, <1>10, <1>11, <1>12, <1>13, <1>14, <1>15,
           <1>16, <1>17, <1>18, <1>19, <1>20, <1>21, <1>22
       DEF NativeNext, Helper, Parent, Side, Receiving

\* What is reported is what happened.
LEMMA NativeStepReports == NativeInductive /\ [NativeNext]_nativeVars => Reporting'
<1> SUFFICES ASSUME NativeInductive, [NativeNext]_nativeVars PROVE Reporting'
  OBVIOUS
<1>1. /\ NativeTypeOK /\ Laddered /\ Reporting
      /\ frames \in BOOLEAN
  BY DEF NativeInductive, NativeTypeOK
<1>2. CASE ended # "no" /\ UNCHANGED <<place, secret, event, frames, ended, verdict>>
  BY <1>1, <1>2 DEF Reporting
<1>3. CASE UNCHANGED <<place, secret, event, frames, ended, verdict>>
  BY <1>1, <1>3 DEF Reporting
<1>4. CASE /\ ended = "no" /\ place # "clean" /\ place' # "clean"
           /\ UNCHANGED <<event, ended, verdict>>
  BY <1>1, <1>4 DEF Reporting
<1>5. CASE /\ ended = "no" /\ place' = "clean" /\ event' \in Stages
           /\ UNCHANGED <<ended, verdict>>
  BY <1>1, <1>5, LadderNames DEF Reporting, Stages
<1>6. CASE Installs \/ Arms \/ StartAudio \/ LoopEnds \/ NoFrame \/ StreamFrame
  BY <1>4, <1>6 DEF Installs, Arms, Rechecks, StartAudio, LoopEnds, NoFrame, StreamFrame,
                    Reached, Goto, outside
<1>7. CASE Asks \/ Supervised
  <2>1. secret = "none" /\ verdict' = verdict /\ secret' = secret /\ frames' = frames
    BY <1>1, <1>7 DEF Asks, Supervised, Reached, Laddered
  <2>2. \/ place' \in {"arm", "invalid_input"} /\ UNCHANGED <<event, ended>>
        \/ place' = "over" /\ event' = "parent_supervision" /\ ended' = "exited"
    BY <1>7 DEF Asks, Supervised, Unsupervised, Goto
  <2>3. ended = "no"
    BY <1>7 DEF Asks, Supervised, Reached
  <2> QED BY <1>1, <2>1, <2>2, <2>3 DEF Reporting
<1>8. CASE Climb
  <2>1. Above(place) # "clean" /\ place # "clean"
    BY <1>8, LadderNames, Rises DEF Climb
  <2> QED BY <1>4, <1>8, <2>1 DEF Climb, Goto, outside
<1>9. CASE Slips
  BY <1>5, <1>9 DEF Slips, Fail, Goto, Stages, outside
<1>10. CASE ReceiveFails
  BY <1>5, <1>10 DEF ReceiveFails, Fail, Goto, Reached, Stages, outside
<1>11. CASE Captures
  <2>1. ended = "no" /\ place = "loop" /\ UNCHANGED <<ended, verdict>>
    BY <1>11 DEF Captures, Reached, outside
  <2>2. \/ place' \in {"finish", "loop"} /\ event' = event
        \/ place' = "clean" /\ event' = "capture_output"
    BY <1>11, <2>1 DEF Captures, Fail, Goto
  <2> QED BY <1>4, <1>5, <2>1, <2>2 DEF Stages
<1>12. ASSUME NEW at \in {"temperature", "audio", "realtime"},
              NEW ch \in {"sensors", "audio"}, NEW next \in Receiving, Turn(at, ch, next)
       PROVE  Reporting'
  BY <1>4, <1>12 DEF Turn, Reached, Goto, Receiving, outside
<1>13. CASE WritePart
  <2>1. out \in [ch : Channels, left : 1..2, then : Receiving] /\ place \in Receiving
    BY <1>1, <1>13 DEF WritePart, NativeTypeOK, Laddered
  <2>2. place' \in Receiving /\ UNCHANGED <<event, ended, verdict>> /\ ended = "no"
    BY <1>13, <2>1 DEF WritePart, Goto, outside
  <2> QED BY <1>4, <2>1, <2>2 DEF Receiving
<1>14. CASE WriteFails
  <2>1. out \in [ch : Channels, left : 1..2, then : Receiving] /\ place \in Receiving
    BY <1>1, <1>14 DEF WriteFails, NativeTypeOK, Laddered
  <2>2. /\ ended = "no" /\ UNCHANGED <<ended, verdict>>
        /\ \/ place' = "clean" /\ event' = "stream_output"
           \/ place' \in Receiving /\ event' = event
    BY <1>14, <2>1 DEF WriteFails, Fail, Goto, outside
  <2> QED BY <1>4, <1>5, <2>1, <2>2 DEF Receiving, Stages
<1>15. CASE Finish
  <2>1. /\ ended = "no" /\ place' = "clean" /\ UNCHANGED <<frames, ended, verdict>>
        /\ event' = IF frames THEN event ELSE "no_frame_timeout"
    BY <1>15 DEF Finish, Reached, Goto, outside
  <2>2. CASE frames
    BY <1>1, <2>1, <2>2 DEF Reporting
  <2>3. CASE ~frames
    BY <1>5, <2>1, <2>3 DEF Stages
  <2> QED BY <2>2, <2>3
<1>16. CASE CloseLast
  BY <1>3, <1>16 DEF CloseLast, outside
<1>17. CASE Exit
  <2>1. /\ ended = "no" /\ place = "clean" /\ place' = "over" /\ ended' = "exited"
        /\ event' = IF event = "none" THEN "ok" ELSE event
        /\ secret' = IF secret = "held" THEN "gone" ELSE secret
        /\ UNCHANGED <<frames, verdict>>
    BY <1>17 DEF Exit, Reached, Goto
  <2>2. event # "ok" /\ verdict # "result"
    BY <1>1, <2>1 DEF Reporting
  <2> QED BY <1>1, <2>1, <2>2 DEF Reporting
<1>18. CASE Feed
  BY <1>3, <1>18 DEF Feed
<1>19. CASE SendTerm \/ Kill \/ ParentDies
  <2>1. /\ UNCHANGED <<place, secret, event, frames, verdict>>
        /\ \/ ended' = ended
           \/ ended = "no" /\ ended' = "killed"
    BY <1>19 DEF SendTerm, Kill, ParentDies, Signalled
  <2> QED BY <1>1, <2>1 DEF Reporting
<1>20. CASE Collect
  <2>1. /\ UNCHANGED <<place, secret, event, frames, ended>>
        /\ verdict' = "result" => event = "ok"
    BY <1>20 DEF Collect
  <2> QED BY <1>1, <2>1 DEF Reporting
<1>21. CASE \E ch \in Channels : Take(ch) \/ PublishFails(ch)
  BY <1>3, <1>21 DEF Take, PublishFails, outside
<1>22. CASE UNCHANGED nativeVars
  BY <1>3, <1>22 DEF nativeVars
<1> QED BY <1>6, <1>7, <1>8, <1>9, <1>10, <1>11, <1>12, <1>13, <1>14, <1>15, <1>16,
           <1>17, <1>18, <1>19, <1>20, <1>21, <1>22
       DEF NativeNext, Helper, Parent, Side, Receiving

\* The strengthened invariant of the helper, with any binary and any pipes.
THEOREM AlwaysNativeInductive == NativeSpec => []NativeInductive
<1>1. NativeInit => NativeInductive
  <2> SUFFICES ASSUME NativeInit PROVE NativeInductive
    OBVIOUS
  <2>1. NativeTypeOK
    <3>1. pipe \in [Channels -> 0..Room] /\ on \subseteq Channels \ {"video"}
      BY HelperAssumption DEF NativeInit
    <3>2. reader \in [Channels -> {"reads", "drains", "stopped", "closed"}]
      BY DEF NativeInit
    <3>3. armed \in BOOLEAN /\ frames \in BOOLEAN /\ stop \in BOOLEAN /\ termed \in BOOLEAN
      BY DEF NativeInit
    <3> QED BY <3>1, <3>2, <3>3 DEF NativeInit, NativeTypeOK
  <2>2. Nested /\ Laddered /\ Reporting
    BY DEF NativeInit, Nested, Laddered, Reporting, OpenAt
  <2> QED BY <2>1, <2>2 DEF NativeInductive
<1>2. NativeInductive /\ [NativeNext]_nativeVars => NativeInductive'
  BY NativeStepTypes, NativeStepPlaces, NativeStepReports DEF NativeInductive
<1> QED BY <1>1, <1>2, PTL DEF NativeSpec

\* run_probe closes what it opened in the opposite order on every path; a helper
\* that ends by itself has nothing open and no secret, and what the parser takes
\* for a result is one.
THEOREM AlwaysCleanShutdown == NativeSpec => []CleanShutdown
<1>1. NativeInductive => CleanShutdown
  <2> SUFFICES ASSUME NativeInductive PROVE CleanShutdown
    OBVIOUS
  <2>1. NativeTypeOK /\ Nested /\ Laddered /\ Reporting
    BY DEF NativeInductive
  <2>2. ended = "exited" => held = {}
    BY <2>1 DEF Laddered, Reporting, OpenAt
  <2> QED BY <2>1, <2>2 DEF CleanShutdown, Nested, Reporting
<1> QED BY <1>1, AlwaysNativeInductive, PTL
==============================================================================
