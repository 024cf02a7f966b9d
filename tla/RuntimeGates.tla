---------------------------- MODULE RuntimeGates ----------------------------
(***************************************************************************)
(* The gates of OwletRuntimeManager (runtime/manager.py): which native     *)
(* operation may run, with which libraries and key, and what it leaves     *)
(* behind.  Preparations, frame probes, snapshots and deletions hold _lock *)
(* from their gate to their end; stream probes, the form that stores a     *)
(* package, viewers and the shutdown do not take it.  A helper also needs  *)
(* the runner (StreamLifecycle), which a stream session keeps.             *)
(*                                                                         *)
(* A cancelled call leaves the executor job it waits for at work, without  *)
(* the lock; one may also stem from the manager before a reload.  What     *)
(* several of them do, and on which packages, is not told apart here:      *)
(* UserFiles follows each.                                                 *)
(*                                                                         *)
(* A package stands for its libraries and for the key that belongs to      *)
(* them.  Only the newest package of uploads/ is ever read, and the others *)
(* are left out; which extraction is the newest is UserFiles' matter too.  *)
(***************************************************************************)
EXTENDS Naturals, FiniteSets

CONSTANTS
  Packages,           \* user-supplied applications
  Presses,            \* presses of the runtime probe button
  Restore,            \* the restore task: one preparation after setup
  Probes,             \* frame probes
  Captures,           \* snapshot requests
  Deletions,          \* confirmed deletions of the reconfigure form
  RetainApplication,  \* _retain_application
  MaxCalls,           \* bound: calls that hold or wait for _lock at a time
  None

Preparations == Presses \cup {Restore}
Calls == Preparations \cup Probes \cup Captures \cup Deletions

ASSUME GatesAssumption ==
  /\ None \notin Packages \cup Calls
  /\ RetainApplication \in BOOLEAN /\ MaxCalls \in Nat
  /\ Preparations \cap (Probes \cup Captures \cup Deletions) = {}
  /\ Probes \cap (Captures \cup Deletions) = {} /\ Captures \cap Deletions = {}
  /\ Restore \notin Presses

VARIABLES
  upload,     \* the newest package of uploads/
  extracted,  \* the applications in extracted/
  marker,     \* the validation marker is there
  prepared,   \* _prepared
  sdkKey,     \* _sdk_key: the package it belongs to
  libraries,  \* snapshot.libraries_compatible; "torn": "yes", but a preparation
              \*   was cut off between its key and its marker
  status,     \* snapshot.status; "left": what an operation left that has ended
  waiting,    \* calls that wait for _lock
  holder,     \* the call that has it
  stage,      \* the await it is at
  source,     \* the package its preparation works on
  orphan,     \* jobs that outlived their calls: "none", one that looks for a
              \*   package ("reading"), or one that has its package ("working")
  inspecting, \* a stream probe is at work
  streaming,  \* _stream_requested
  shutdown,   \* async_shutdown
  deleted     \* a deletion that met no outlived job has begun ("pending") or
              \*   succeeded ("yes"), and nothing was stored after it

files == <<upload, extracted, marker>>
runtime == <<prepared, sdkKey, libraries>>
lock == <<waiting, holder, stage, source>>
others == <<inspecting, streaming, shutdown>>
vars == <<upload, extracted, marker, prepared, sdkKey, libraries, status,
          waiting, holder, stage, source, orphan, inspecting, streaming,
          shutdown, deleted>>

\* The two calls of _prepare_sync: each looks for a package, then extracts it.
Reading == {"reading", "rereading"}
Extracting == {"extracting", "reextracting"}
Jobs == Reading \cup Extracting \cup {"marking", "purging"}
Stages == Jobs \cup {"idle", "installing", "queued", "probing", "creating",
                    "credentials", "child", "decoding", "unlinking", "deleting"}
Running == {"preparing", "frame_probe_running", "snapshot_capture_running",
            "stream_probe_running"}
Package == Packages \cup {None}

TypeOK ==
  /\ upload \in Package /\ extracted \subseteq Packages
  /\ marker \in BOOLEAN
  /\ prepared \in Package /\ sdkKey \in Package
  /\ libraries \in {"unknown", "yes", "no", "torn"}
  /\ status \in Running \cup
                  {"not_prepared", "ready", "error", "stopped", "left"}
  /\ waiting \subseteq Calls /\ holder \in Calls \cup {None} /\ stage \in Stages
  /\ holder = None <=> stage = "idle"
  /\ source \in Package /\ orphan \in {"none", "reading", "working"}
  /\ inspecting \in BOOLEAN /\ streaming \in BOOLEAN
  /\ shutdown \in {"no", "stopping", "closed"}
  /\ deleted \in {"no", "pending", "yes"}

\* An entry that was set up: its files are those of earlier runs, a job of which
\* may still be at work on them; the restore task begins if a marker was found.
Init ==
  /\ upload \in Package /\ extracted \in SUBSET Packages
  /\ marker \in BOOLEAN
  /\ prepared = None /\ sdkKey = None /\ libraries = "unknown"
  /\ status = "not_prepared"
  /\ waiting = (IF marker THEN {Restore} ELSE {})
  /\ holder = None /\ stage = "idle"
  /\ source = None /\ orphan \in {"none", "reading", "working"}
  /\ inspecting = FALSE /\ streaming = FALSE /\ shutdown = "no"
  /\ deleted = "no"

------------------------------------------------------------------------------
(* Gates and ends. *)

Stopped == shutdown # "no"

\* frame_probe_available, and the same for the stream's own helper.
Configured == prepared # None /\ libraries \in {"yes", "torn"}
StreamAvailable == Configured /\ status = "ready"

Release ==
  holder' = None /\ stage' = "idle" /\ source' = None /\ UNCHANGED waiting

\* Every except clause first raises CancelledError if the manager was stopped.
EndsWith(s, libs) ==
  IF Stopped THEN UNCHANGED <<status, libraries>>
             ELSE status' = s /\ libraries' = libs

\* A request.  Home Assistant presses no button that is not available, and
\* removes the entities before it shuts the manager down.  A deletion stops
\* the stream before it waits for the lock.
Ask(c) ==
  /\ c \notin waiting /\ c # holder /\ c # Restore
  /\ c \in Probes => Configured
  /\ ~Stopped /\ Cardinality((waiting \cup {holder}) \ {None}) < MaxCalls
  /\ waiting' = waiting \cup {c}
  /\ streaming' = (streaming /\ c \notin Deletions)
  /\ UNCHANGED <<files, runtime, status, holder, stage, source, orphan,
                 inspecting, shutdown, deleted>>

StillOpen(c) == ~Stopped /\ (c \notin Deletions => ~streaming)
Open(c) ==
  /\ ~Stopped
  /\ c \notin Deletions => ~streaming
  /\ c \in Probes \cup Captures => prepared # None /\ sdkKey # None

Admit(c) == holder = None /\ c \in waiting /\ waiting' = waiting \ {c}

\* CancelledError, runtime_not_ready or stream_active: nothing was touched.
Refuse(c) ==
  /\ Admit(c) /\ ~Open(c)
  /\ UNCHANGED <<files, runtime, status, holder, stage, source, orphan,
                 others, deleted>>

Enter(c, s) ==
  Admit(c) /\ Open(c) /\ holder' = c /\ stage' = s /\ UNCHANGED source
At(calls, s) == holder \in calls /\ stage = s
Goto(s) == stage' = s /\ UNCHANGED <<waiting, holder, source>>

------------------------------------------------------------------------------
(* Executor jobs: of the call that holds the lock, or of a cancelled one. *)

\* _select_archive: the newest upload, or without one the newest extraction.
Archives == IF upload # None THEN {upload} ELSE extracted

\* What a job leaves behind when it goes through.
Done(j, p) ==
  /\ upload' = IF j = "purging" THEN None ELSE upload
  /\ extracted' = IF j \in Extracting THEN extracted \cup {p} ELSE extracted
  /\ marker' = (marker \/ j = "marking")

\* A job that fails may have placed its extraction already.
Failed(j, p) == UNCHANGED files \/ (j \in Extracting /\ Done(j, p))

\* An outlived job goes on, and comes to its end.
Outlive ==
  /\ \/ /\ orphan = "reading" /\ Archives # {}
        /\ orphan' = "working" /\ UNCHANGED files
     \/ /\ orphan = "working" /\ UNCHANGED orphan
        /\ \E j \in {"extracting", "marking", "purging"} :
             \E p \in Packages : Done(j, p)
     \/ /\ orphan # "none"
        /\ orphan' = "none" /\ UNCHANGED files
  /\ UNCHANGED <<runtime, status, lock, others, deleted>>

\* What is at work once the call that waited at j is gone.
Outlives(j) ==
  CASE j \in Jobs \ Reading                -> "working"
    [] j \in Reading /\ orphan = "none"    -> "reading"
    [] OTHER                               -> orphan

\* The call that holds the lock ends without a status, a preparation perhaps with
\* its key, but with neither its libraries nor its marker.
Named == CASE holder \in Preparations -> "preparing"
           [] holder \in Probes       -> "frame_probe_running"
           [] holder \in Captures     -> "snapshot_capture_running"
CutOff ==
  /\ status' = IF status = Named THEN "left" ELSE status
  /\ libraries' = IF libraries = "yes" /\ holder \in Preparations
                      /\ stage \in {"queued", "probing", "marking"}
                   THEN "torn" ELSE libraries
  /\ UNCHANGED <<prepared, sdkKey>>

\* The button's press ends with the script that made it, Home Assistant gives an
\* image ten seconds, and async_shutdown cancels the restore task.
Cancel(c) ==
  /\ c = Restore => shutdown = "stopping"
  /\ \/ /\ c \in waiting /\ waiting' = waiting \ {c}
        /\ UNCHANGED <<holder, stage, source, runtime, status, orphan>>
     \/ /\ c = holder /\ stage # "unlinking"
        /\ IF c \in Captures /\ stage # "creating"
           THEN Goto("unlinking") ELSE Release
        /\ orphan' = Outlives(stage) /\ CutOff
  /\ UNCHANGED <<files, others, deleted>>

\* What no clause catches: an OSError of an executor job or of the decoder, and
\* the OwletRuntimeError of a frame probe that answers, then exits with an error.
Escapes ==
  /\ \/ holder \in Preparations /\ stage \in Jobs
     \/ At(Captures, "creating") \/ At(Captures, "decoding")
     \/ At(Probes, "child")
  /\ IF stage = "decoding" THEN Goto("unlinking") ELSE Release
  /\ Failed(stage, source) /\ CutOff
  /\ UNCHANGED <<orphan, others, deleted>>

------------------------------------------------------------------------------
(* async_prepare_and_probe_libraries *)

Prepare(c) ==
  /\ Enter(c, "reading") /\ status' = "preparing"
  /\ UNCHANGED <<files, runtime, orphan, others, deleted>>

\* A failure at any await: the libraries of the last success are kept, but
\* are not compatible any more.
FailsQuietly ==
  /\ holder \in Preparations
  /\ Release /\ EndsWith("error", libraries)
  /\ UNCHANGED <<prepared, sdkKey, orphan, others, deleted>>
PreparationFails ==
  /\ holder \in Preparations
  /\ Release /\ EndsWith("error", "no")
  /\ UNCHANGED <<prepared, sdkKey, orphan, others, deleted>>

\* _prepare_sync verifies the helper runtime and picks the package.
SelectArchive ==
  /\ holder \in Preparations /\ stage \in Reading /\ source' \in Archives
  /\ stage' = IF stage = "reading" THEN "extracting" ELSE "reextracting"
  /\ UNCHANGED <<waiting, holder>>
  /\ UNCHANGED <<files, runtime, status, orphan, others, deleted>>

\* The new key replaces the old one before the libraries are probed.
Extract ==
  /\ holder \in Preparations /\ stage \in Extracting
  /\ Done(stage, source) /\ sdkKey' = source /\ Goto("queued")
  /\ UNCHANGED <<prepared, libraries, status, orphan, others, deleted>>

\* missing_apk, a package that is not accepted, a library that does not fit.
PrepareFails ==
  /\ stage \in Reading \cup Extracting
  /\ Failed(stage, source) /\ PreparationFails

\* A helper runtime that is missing, broken or, once the package is extracted,
\* found to be of another version is replaced, once.
AskInstall ==
  /\ \/ At(Preparations, "reading") /\ UNCHANGED files
     \/ At(Preparations, "extracting") /\ Done(stage, source)
  /\ stage' = "installing" /\ source' = None /\ UNCHANGED <<waiting, holder>>
  /\ UNCHANGED <<runtime, status, orphan, others, deleted>>

InstallsAgain ==
  /\ At(Preparations, "installing") /\ Goto("reading")
  /\ UNCHANGED <<files, runtime, status, orphan, others, deleted>>
Install ==
  /\ At(Preparations, "installing") /\ Goto("rereading")
  /\ UNCHANGED <<files, runtime, status, orphan, others, deleted>>

InstallFails ==
  At(Preparations, "installing") /\ PreparationFails /\ UNCHANGED files

\* The native probe answers, unless the manager was stopped meanwhile.
LibrariesProbed(compatible) ==
  /\ At(Preparations, "probing") /\ ~Stopped
  /\ prepared' = source
  /\ libraries' = (IF compatible THEN "yes" ELSE "no")
  /\ IF compatible
     THEN Goto("marking") /\ UNCHANGED status
     ELSE Release /\ status' = "ready"
  /\ UNCHANGED <<files, sdkKey, orphan, others, deleted>>

ProbeFails == At(Preparations, "probing") /\ PreparationFails /\ UNCHANGED files

WriteMarker ==
  /\ At(Preparations, "marking") /\ Done(stage, source)
  /\ IF RetainApplication
     THEN Release /\ status' = "ready"
     ELSE Goto("purging") /\ UNCHANGED <<status>>
  /\ UNCHANGED <<runtime, orphan, others, deleted>>

MarkerFails ==
  At(Preparations, "marking") /\ PreparationFails /\ UNCHANGED files

\* _delete_uploaded_archives removes whatever is in uploads/ by now.
Purge ==
  /\ At(Preparations, "purging") /\ Done(stage, source)
  /\ Release /\ status' = "ready"
  /\ UNCHANGED <<runtime, orphan, others, deleted>>

PreparationStep ==
  \/ SelectArchive \/ Extract \/ PrepareFails
  \/ AskInstall \/ Install \/ InstallFails
  \/ ProbeFails \/ WriteMarker \/ MarkerFails \/ Purge
  \/ \E compatible \in BOOLEAN : LibrariesProbed(compatible)

------------------------------------------------------------------------------
(* The runner: async_run waits for its lock without a time limit. *)

\* A stream that is requested has it for each of its sessions.
RunHelper ==
  /\ stage = "queued"
  /\ Goto(IF holder \in Preparations THEN "probing" ELSE "child")
  /\ UNCHANGED <<files, runtime, status, orphan, others, deleted>>

------------------------------------------------------------------------------
(* async_run_frame_probe and async_capture_snapshot *)

Probe(c) ==
  /\ Enter(c, "credentials") /\ status' = "frame_probe_running"
  /\ UNCHANGED <<files, runtime, orphan, others, deleted>>

Capture(c) ==
  /\ Enter(c, "creating") /\ status' = "snapshot_capture_running"
  /\ UNCHANGED <<files, runtime, orphan, others, deleted>>

FileCreated ==
  /\ At(Captures, "creating") /\ Goto("credentials")
  /\ UNCHANGED <<files, runtime, status, orphan, others, deleted>>

\* The payload and the command use _sdk_key and _prepared as they are now.
StartChild ==
  /\ At(Probes \cup Captures, "credentials")
  /\ prepared # None /\ sdkKey # None
  /\ Goto("queued")
  /\ UNCHANGED <<files, runtime, status, orphan, others, deleted>>

\* A failed probe is an error.
ProbeEnds ==
  /\ At(Probes, "credentials") \/ At(Probes, "child")
  /\ Release
  /\ \/ EndsWith("error", libraries)
     \/ stage = "child" /\ EndsWith("ready", libraries)
  /\ UNCHANGED <<files, prepared, sdkKey, orphan, others, deleted>>

CaptureDone ==
  /\ At(Captures, "child") /\ Goto("decoding")
  /\ UNCHANGED <<files, runtime, status, orphan, others, deleted>>

CaptureReturns ==
  /\ holder \in Captures /\ stage \in {"credentials", "child", "decoding"}
  /\ Goto("unlinking")
  /\ UNCHANGED <<files, runtime, status, orphan, others, deleted>>
\* Any outcome but a cancellation leaves the path usable.
CaptureSettles ==
  /\ holder \in Captures /\ stage \in {"credentials", "child", "decoding"}
  /\ Goto("unlinking")
  /\ EndsWith("ready", libraries)
  /\ UNCHANGED <<files, prepared, sdkKey, orphan, others, deleted>>

\* With the runtime released, the payload raises what no clause catches.
Crash ==
  /\ At(Probes \cup Captures, "credentials")
  /\ prepared = None \/ sdkKey = None
  /\ IF holder \in Captures THEN Goto("unlinking") ELSE Release
  /\ UNCHANGED <<files, runtime, status, orphan, others, deleted>>

Unlink ==
  /\ At(Captures, "unlinking") /\ Release
  /\ UNCHANGED <<files, runtime, status, orphan, others, deleted>>

NativeStep ==
  \/ FileCreated \/ StartChild \/ ProbeEnds \/ CaptureDone \/ CaptureSettles
  \/ Crash \/ Unlink

------------------------------------------------------------------------------
(* async_delete_proprietary_files *)

\* The call drops the key and the libraries, then the thread deletes files.
Delete(c) ==
  /\ Enter(c, "deleting")
  /\ sdkKey' = None /\ prepared' = None
  /\ deleted' = (IF orphan = "none" THEN "pending" ELSE "no")
  /\ UNCHANGED <<files, libraries, status, orphan, others>>

\* A package that is stored meanwhile may be deleted with the others.
Succeeds == deleted' = (IF deleted = "pending" THEN "yes" ELSE deleted)

MarkerForgotten ==
  /\ At(Deletions, "deleting")
  /\ upload' = None /\ extracted' = {}
  /\ libraries' = "unknown" /\ status' = "not_prepared" /\ Release
  /\ Succeeds
  /\ UNCHANGED <<marker, prepared, sdkKey, orphan, others>>
\* _delete_proprietary_files went through.
DeletionEnds ==
  /\ At(Deletions, "deleting")
  /\ upload' = None /\ extracted' = {} /\ marker' = FALSE
  /\ libraries' = "unknown" /\ status' = "not_prepared" /\ Release
  /\ Succeeds
  /\ UNCHANGED <<prepared, sdkKey, orphan, others>>

\* OSError: uploads/, extracted/ and the marker are deleted in this order.
DeletionFails ==
  /\ At(Deletions, "deleting") /\ Release
  /\ \/ UNCHANGED <<upload, extracted>>
     \/ upload' = None /\ UNCHANGED extracted
     \/ upload' = None /\ extracted' = {}
  /\ deleted' = "no"
  /\ UNCHANGED <<marker, runtime, status, orphan, others>>

DeletionStep == DeletionEnds \/ DeletionFails

------------------------------------------------------------------------------
(* What does not take the lock. *)

\* _async_store_runtime_package of a form, of this entry or of another one.
Store(p) ==
  /\ upload' = p /\ deleted' = "no"
  /\ UNCHANGED <<extracted, marker, runtime, status, lock, orphan,
                 others>>

\* _async_stream_client_connected, and any end of the stream.
ViewerConnects ==
  /\ ~Stopped /\ Configured /\ ~streaming
  /\ streaming' = TRUE
  /\ UNCHANGED <<files, runtime, status, lock, orphan, inspecting, shutdown,
                 deleted>>

StreamStops ==
  /\ streaming /\ streaming' = FALSE
  /\ UNCHANGED <<files, runtime, status, lock, orphan, inspecting, shutdown,
                 deleted>>

\* async_run_stream_probe: whatever it finds, its status is the last word, unless
\* it is cancelled and leaves the one it began with.
Inspect ==
  /\ ~Stopped /\ StreamAvailable /\ ~inspecting
  /\ inspecting' = TRUE /\ status' = "stream_probe_running"
  /\ UNCHANGED <<files, runtime, lock, orphan, streaming, shutdown, deleted>>

InspectionEnds ==
  /\ inspecting /\ inspecting' = FALSE
  /\ \/ \E s \in {"ready", "error"} : EndsWith(s, libraries)
     \/ /\ status' = IF status = "stream_probe_running" THEN "left" ELSE status
        /\ UNCHANGED libraries
  /\ UNCHANGED <<files, prepared, sdkKey, lock, orphan, streaming, shutdown,
                 deleted>>

\* async_shutdown: the flag, the stream, the restore task, then the runtime.
BeginShutdown ==
  /\ ~Stopped /\ shutdown' = "stopping"
  /\ UNCHANGED <<files, runtime, status, lock, orphan, inspecting, streaming,
                 deleted>>

Close ==
  /\ shutdown = "stopping" /\ Restore \notin waiting \cup {holder}
  /\ shutdown' = "closed" /\ streaming' = FALSE
  /\ sdkKey' = None /\ prepared' = None /\ libraries' = "unknown"
  /\ status' = "stopped"
  /\ UNCHANGED <<files, lock, orphan, inspecting, deleted>>

------------------------------------------------------------------------------
AdmitStep(c) ==
  \/ Refuse(c)
  \/ c \in Preparations /\ Prepare(c)
  \/ c \in Probes /\ Probe(c)
  \/ c \in Captures /\ Capture(c)
  \/ c \in Deletions /\ Delete(c)

Outside ==
  \/ \E p \in Packages : Store(p)
  \/ ViewerConnects \/ StreamStops
  \/ Inspect \/ InspectionEnds \/ Outlive \/ BeginShutdown \/ Close

Next ==
  \/ \E c \in Calls : Ask(c) \/ AdmitStep(c)
  \/ \E c \in Preparations \cup Probes \cup Captures : Cancel(c)
  \/ PreparationStep \/ RunHelper \/ NativeStep \/ DeletionStep \/ Escapes
  \/ Outside

Spec == Init /\ [][Next]_vars

\* Every await of an operation but one ends: helpers and requests have timeouts,
\* and executor jobs finish.  The runner is only sure to get free while no stream
\* is requested.
Fairness ==
  WF_vars(/\ holder # None /\ ~(stage = "queued" /\ streaming)
          /\ UNCHANGED <<waiting, others>>
          /\ \/ RunHelper
             \/ holder \in Preparations /\ PreparationStep
             \/ holder \in Probes \cup Captures /\ NativeStep
             \/ holder \in Deletions /\ DeletionStep)

FairSpec == Spec /\ Fairness

------------------------------------------------------------------------------
(* Properties *)

\* While no preparation or shutdown is at work, a stream is only offered with
\* libraries that are still on disk, with their own key, and with the marker that
\* makes the next restart restore them: stream_available needs no lock to be
\* right, unless a preparation was cut off after it had replaced the key.
OfferIsBacked ==
  /\ TypeOK
  /\ ~Stopped /\ StreamAvailable /\ libraries # "torn"
       /\ holder \notin Preparations =>
       sdkKey = prepared /\ prepared \in extracted /\ marker

\* A probe or snapshot that waited for the lock behind a deletion or a failed
\* preparation runs only with libraries and a key, unless the manager closed.
GateHolds ==
  holder \in Probes \cup Captures
    /\ stage \in {"creating", "credentials", "queued", "child"} =>
    (prepared # None /\ sdkKey # None) \/ shutdown = "closed"

\* A status that names a running operation is right, or was left by a cancelled
\* call or an uncaught exception, although stream probes set theirs without the
\* lock: stream_available depends on it.
StatusSettles ==
  ~Stopped =>
    /\ status = "preparing" => holder \in Preparations
    /\ status = "frame_probe_running" => holder \in Probes
    /\ status = "snapshot_capture_running" =>
         holder \in Captures /\ stage # "unlinking"
    /\ status = "stream_probe_running" => inspecting

\* After a deletion that began with no outlived job at work, nothing of the
\* application comes back by itself, neither from an operation that was queued
\* nor from a job that outlives its call later, and no operation that outlives
\* async_shutdown makes the runtime usable again.
NothingReturns ==
  /\ deleted = "yes" => /\ upload = None /\ extracted = {} /\ ~marker
                        /\ prepared = None /\ sdkKey = None
  /\ shutdown = "closed" => prepared = None

\* Whatever fails, is cancelled or was released in the meantime, the manager's
\* lock is given back again and again, unless its holder waits for the runner
\* behind a stream that was requested after it had begun: no button is dead
\* until a reload.
LockIsReleased == []<>(holder = None \/ (stage = "queued" /\ streaming))
==============================================================================
