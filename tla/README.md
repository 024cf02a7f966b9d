# Owlet Cam for Home Assistant: verification project

This directory models `custom_components/owlet_cam` in TLA+, checks the models
with TLC and proves theorems about them with TLAPS.  Line references are to
`src/custom_components/owlet_cam/` unless they name another directory.

## 1. The system

The integration runs inside Home Assistant's asyncio event loop.  One config
entry owns one `OwletRuntimeManager`, which prepares a user-supplied native
runtime, runs a native helper that talks to the camera, and republishes the
helper's frames as MPEG-TS on a loopback socket.

| Component | Source | State it keeps | Operations |
| --- | --- | --- | --- |
| stream lifecycle | `runtime/manager.py:853-1170` | `_stream_requested`, `_stream_task`, `_idle_disconnect_task`, `_stream_lock`, snapshot flags | viewer connects and leaves, stop, restart, idle disconnect, delete, shutdown, the producer loop |
| loopback media server | `runtime/stream.py:37-300` | listener, `_subscribers` with a ready flag and a queue, parameter sets, current group of pictures, health | start, handle a client, publish video and audio, reset, stop |
| MPEG-TS muxer | `runtime/stream.py:303-616` | continuity counters, timestamp origin, last timestamp | mux a video or audio access unit, packetize, reset |
| process runner | `runtime/process.py` | lock, `_process`, started and reaped counters | run, stream, stop, terminate |
| runtime gates | `runtime/manager.py:286-852` | `_lock`, `_prepared`, `_sdk_key`, `libraries_compatible`, statuses | upload, prepare and probe, frame probe, snapshot, stream probe, delete, restore, shutdown |
| runtime installer | `runtime/downloader.py` | the installed runtime directory and its staging siblings | ensure, verify, extract, swap |
| uploads | `runtime/upload.py`, `config_flow.py` | uploaded packages on disk | store, select, delete |
| cloud client | `api/cloud.py` | cached token, refresh token, expiry | ensure token, authenticate, refresh, request |
| native helper | `helper/src/frame_probe.c` | one camera session | read secrets, connect, stream, clean up |
| camera entity | `camera.py` | cached image, one fetch in flight | image, stream source, removal |
| config flow | `config_flow.py` | flow data | setup, reauth, reconfigure, options, delete |
| coordinator, setup, repairs | `coordinator.py`, `__init__.py`, `repairs.py` | entry runtime data, issues | refresh, setup, unload |

How they interact: a viewer's HTTP request makes the server call
`_async_stream_client_connected`; the producer loop calls the cloud client for
credentials, the process runner for a child, and the server's publish methods
for each frame; the last departing viewer schedules an idle task that calls
`async_stop_stream`; probes and snapshots use the same process runner under the
manager lock; the config entry's unload calls `async_shutdown`.

What is hard: every `await` is a point where another coroutine runs.  Locks
cover less than the operations they seem to protect, cancellation arrives at
any await, a child may exit or hang at any time, and cached media outlives the
session it came from.

## 2. Modules

Eleven modules model the program, and one (`ChildSlot`) specifies what a
component promises.  `PROJECT.json` maps each of their definitions
to the lines it stands for.  The instances TLC checks are in the `MC*` modules
and their `.cfg` files, the proofs in the `*Proofs` modules.

Conventions.  A coroutine runs until its next `await`, so an action is the code
between two awaits, and a call's program counter names the await it is at.
Every action carries the whole step: a status that is set, a flag that is
reset or a lock that is handed over at the end of a block belongs to the action
that ends it.  A definition that stands right before another one, takes the
same parameters and is used nowhere (`RunnerUnlocked` before `RunnerFree`) is
a mistake somebody could make in that place; the properties were checked to
notice it, and `PROJECT.json` says which property notices which.  History
variables are marked as such; they do not steer anything.  The type invariant is
the first conjunct of one invariant of each newer module; it is proved for every
module.  `NativeHelper` and `UserFiles` prefix some names (`NativeTypeOK`,
`FilesInit`), because their proofs share a module with another component's.

### StreamLifecycle (manager.py, the stream half)

The stream half of `OwletRuntimeManager`.  `task`, `idle`, `requested`,
`shutdown`, `active` and `healthy` are the attributes of the same meaning.
Several viewers, restarts, deletions, idle tasks and one unload call
`async_stop_stream` at the same time; each has its own `pc` and its own local
`task` (`saved`).

| Actions | Code |
| --- | --- |
| `Arrive`, `Admitted`, `Leave` | `_async_stream_client_connected`, `_stream_client_disconnected` |
| `IdleFires` | `_async_idle_disconnect` after its sleep |
| `Restart`, `Delete`, `Shutdown` | their callers up to `async_stop_stream` |
| `EnterStop`, `ChildReaped`, `StopTimesOut`, `StopReturns`, `StopAborts` | `async_stop_stream` from one await to the next |
| `Reconnect`, `DeleteFiles`, `Close` | what the callers do after it |
| `LoopTop` ... `Cancelled` | `_async_stream_loop` and the runner it uses |
| `LoopRaises` | an exception that none of its except clauses catches: the task ends, the request stays |
| `OneShotStarts`, `OneShotRuns`, `OneShotEnds` | probes and snapshots, as users of the same runner |
| `OneShotLetsGo`, `StrayExits` | `async_run` that frees the lock with a live child, and that child's end; `Cancelled` does the same for a stream that is terminating its child |

The important detail is that `async_stop_stream` releases `_stream_lock`
*before* it waits for the producer task.  `overlapped` is a history variable
that turns true when a connect runs in that window; the safety properties hold
until then, and `stream_stranded` shows what happens after.

An uncontended `asyncio.Lock` does not yield, nor does awaiting a finished
task.  `Running` marks a caller that goes on in the same turn of the event
loop; nothing else may step in between.

### MediaFanout (stream.py, publishing)

The data path of `H264LoopbackServer`: parameter sets, the cached group of
pictures, a bounded queue for each viewer, and the muxer's audio tables.
`Publish` and `PublishAudio` are the publish calls (one step each, because they
never await), `Join` the start of a handler, `Send` a write, `Close` any end,
`NewProducer` a producer that starts with `reset_media`, `Reconnect` the
producer loop going round again without it.  `seen` is a model of the player
at the other end: `Watch` is what a payload makes of it, `WatchAll` what a write
does, and `Ahead(c)` the decoder once the whole queue has been sent (`CatchUp`).
`producer` is a history variable, the session in which the present producer
began; an access unit carries it, so that "of its own producer" can be said.

### LoopbackServer (stream.py, connections)

The control path of the same class: listeners, handlers, the callbacks that
tell the manager of the first and last viewer, and `async_stop`.  A handler is
`request` (reading the request), `first` (inside the manager's callback),
`greeting` (in the first `drain`, which has no time limit), `stream`, `blocked`
(in a later one, which has), `closing` or `late` (in `wait_closed`).  `Stalled`
viewers may stop reading for ever.

The behaviour of `asyncio.Server.wait_closed` is that of Python 3.12 and
later, which Home Assistant runs: it waits for all connections of its listener.

### HelperProcess and ChildSlot (process.py)

`OwletHelperProcessRunner`: `async_run`, `async_stream` and `async_stop` with
every await at which the child may fail, time out, or the call be cancelled.
Each child is `unused`, `alive`, `dead` (exited, not yet waited for) or
`reaped`.  `LetGo` collects the children a call leaves behind alive.

`ChildSlot` is the abstract specification: a slot for one live child.
`OneChild` maps the runner onto it (`Slot == INSTANCE ChildSlot WITH ...`);
the run checks the abstract specification as a property.

### TsMuxer (stream.py, `_MpegTsMuxer`)

`_MpegTsMuxer`.  Access units are lengths; a packet is what is put into it
(payload, adaptation field, total length).  A packet is a step, and nothing
else moves while a PES is cut up.  Timestamps are in ticks; `Tick` is the
clock, `AudioLost` and `CameraReconnects` are the world that makes audio
uneven.  A receiver that counts packets and bytes stands for the demultiplexer.

### RuntimeGates (manager.py, operations under `_lock`)

Which native operation may run, with which libraries and key, and what it
leaves.  The preparation (as button and as restore task), the frame probe, the
snapshot and the deletion hold `_lock`; the actions of `Store`, viewers, the
stream probe and the shutdown run whenever they like.

| Actions | Code |
| --- | --- |
| `Ask`, `Refuse` | the request, and the gate that turns it down |
| `Prepare` ... `Purge` | `async_prepare_and_probe_libraries`, `_prepare_sync` in its thread (twice, when the helper runtime is replaced), `_delete_uploaded_archives` |
| `Probe`, `Capture` ... `Unlink` | `async_run_frame_probe`, `async_capture_snapshot` |
| `RunHelper` | any of them getting the runner's lock (process.py:88) |
| `Cancel`, `Escapes` | a `CancelledError` at any await, an exception that no clause catches |
| `Delete`, `DeletionEnds`, `DeletionFails` | `async_delete_proprietary_files` |
| `Inspect`, `InspectionEnds` | `async_run_stream_probe` |
| `BeginShutdown`, `Close` | `async_shutdown` (the restore task is cancelled by `Cancel`) |
| `Store` | `config_flow.py:501`, which takes no lock of the manager |
| `Outlive` | executor jobs whose calls are gone |

A package stands for its libraries and the key found in them, so "the wrong
key" is `sdkKey # prepared`.  Only the newest upload is ever read
(`_select_archive`), so `upload` is a single value; which extraction is taken
without an upload is left open here and followed in `UserFiles`.
The executor job of a cancelled call goes on by itself.  `orphan` says whether
such jobs are at work, also those of the manager that a reload replaced (`Init`):
one that still looks for a package needs to find one, any other may place an
extraction, write the marker or purge the uploads, on whichever package.
`libraries = "torn"` and `status = "left"` are what a call leaves that was cut
off between its key and its marker, or without a status.

### RuntimeInstall (downloader.py)

One call of `async_ensure_release_runtime` for each member of `Installs`; two
config entries, or an entry that was reloaded meanwhile, may run theirs at the
same time, since nothing serialises their executor threads.

| State | Code |
| --- | --- |
| `current`, `backup[pid]` | the directories `runtime/current` and `.runtime-previous-<pid>`, by what their manifest says |
| `staging[i]`, `moved[i]` | the installation's staging directory; its local `backup` is not `None` |
| `step[i]` | the statement of `install_runtime_archive` it is at |

`SetAside`, `Publish`, `Undo` and `Clear` are the three `os.replace` calls and
the `rmtree` of the backup, each with an action for its failure; `Rejected` is
what `_verify_runtime` turns down; `Crash` ends the process between any two of
them, and the next one may get the same process identifier.

### UserFiles (manager.py, upload.py, config_flow.py: the disk)

The directory `userfiles`, which belongs to all config entries and to every
manager an entry has had.  A preparation is the thread that runs
`_prepare_sync` and the call around it: `SelectArchive` or `LoadPersisted`,
`Open`, `Extract`, `Keep` or `Place`, `PersistKey`, then `WriteMarker` and
`Purge`.  `job[t].awaited` turns false when a reload cancels the call; the
thread goes on.  `Write`, `Name`, `CloseUpload`, `Prune` are
`store_uploaded_path`; `Sweep`, `Drop`, `ClearTmp`, `Forget` are
`_delete_proprietary_files`, whose `rmtree` removes a directory in two steps.
`uploads` and `touched` order archives and directories by modification time, as
sets of pairs (the older first), because `_select_archive` and
`_load_persisted_application` take the newest; `Touch`, `Without` and `Renamed`
are what a write, a removal and a rename do to such an order.  The module knows less of the
manager than `RuntimeGates` (no status, no lock) and more of the disk.

### NativeHelper (helper/src/frame_probe.c, with process.py and protocol.py)

The C program, in its three builds, and the process at the other end of its
pipes.  `Ladder` lists the rungs of `run_probe` by the stage name of their
error event; `Climb` and `Slips` are a rung that succeeds or fails, `Opened`
says what each rung leaves open.  `Asks`, `Arms` and `Supervised` are the three
system calls of `arm_parent_death_signal`.  The receive loop is `StreamFrame` or
`Captures`, then the side channels (`Side`); a write blocks part by part
(`WritePart`) or fails when its reader is gone (`WriteFails`).  `CloseLast`
and `Exit` are the single clean-up.  `Feed`, `SendTerm`, `Kill`, `Take`,
`PublishFails` and `Collect` are the parent; `ParentDies` is the kernel's side
of a killed Home Assistant.  Every native call may return any of the results
that the code tells apart.

### CloudClient and EntryLifecycle (api/cloud.py; __init__.py, coordinator.py, config_flow.py, repairs.py)

`CloudClient` is what a client does for a request: `FirstStep` is
`_async_ensure_token` (a token, else the refresh token, else the password),
`Login`, `Refresh`, `Lookup` are the requests, `Outage`, `TokenRefused` and
`Revoke` the world.  `EntryLifecycle` extends it: it is the composition of one
config entry (`state`), its coordinator (`polled`), the forms (`flow`), the
manager's last error and the repair issue that shows it, over two clients, that
of the entry and that of a form.  What Home Assistant does is external and
listed at the head of the module: it sets up and unloads one entry at a time,
retries a set-up that is not ready, opens one reauthentication, and stops
polling after an authentication failure.

### How they fit together

The modules meet at these places.  `StreamLifecycle` models the runner as a
lock with one child, which is what `HelperProcess` promises by `OneChild` and
`CallsEnd`; `HelperProcess` lets a child exit, ignore SIGTERM or hang, of which
`NativeHelper` is the refined view.  `StreamLifecycle`'s viewers reach the
manager through the callbacks whose order `LoopbackServer` checks
(`ViewersKnown`, `DepartureReported`).  `NewProducer` and `Reconnect` of
`MediaFanout` are the two ways in which `StreamLifecycle`'s loop starts a
session.  `RuntimeGates` and `UserFiles` are two views of a preparation: what
the manager believes, and what the disk holds.  `RuntimeInstall` is the
installation that a preparation of `RuntimeGates` asks for.  They are separate
modules because a product of them is beyond TLC; `EntryLifecycle` is the one
composition that TLC checks as a whole.

## 3. Runs

| Run | Instance | What it shows |
| --- | --- | --- |
| `stream_safety` | a viewer, a restart, a deletion, the unload; two producer tasks; keep-warm | one tracked producer that serves every request and is gone when a stop returns; one camera session; flags that have a producer behind them |
| `stream_live` | a viewer, an idle task, the unload; one producer task at a time; no keep-warm | stops end, queued viewers are answered, an unwatched producer disappears |
| `stream_stranded` | two viewers, an idle task, the unload | expects a violation: see below |
| `fanout_viewers` | two viewers, two sessions of three units, queues of two, a cache of two pictures, one codec besides the default | viewers only get decodable video and declared audio, in step with the camera |
| `server_viewers` | three connections, one of which may stall; two listener starts; the stop | callbacks match subscribers; a stopping server takes nobody; slow viewers are closed; the stop gets past its handlers |
| `helper_calls` | a one-shot run, a stream, a stop; two children; two cancellations of each call | the runner is a slot for one child; diagnostics do not hide a child; secrets are overwritten; every call ends |
| `muxer_packets` | access units at the edges of the packet size, two codecs, uneven audio | whole packets, no visible gap, no growing audio delay |
| `gates_ops` | two packages and one of each operation, two of them at a time, with forms, viewers, a stream probe, outlived jobs and the unload | what is offered is backed, nothing deleted or closed returns, a status settles, the lock comes back |
| `install_swap` | two installations, two process identifiers, two failing operations, two crashes | a runtime stays or is being replaced, and only a verified one replaces it |
| `files_disk` | two preparations, two packages, a form, a deletion, two actors at a time, one crash | what the validation marker promises can be restored; nobody sweeps a live extraction |
| `native_session` | the three builds, pipes of one part | orderly clean-up on every path; no orphan; no write for ever; a stop ends the helper |
| `entry_account` | two passwords, two disturbances | the client follows the entry's data, issues follow the manager, the entry recovers |

Why the bounds are enough:

- *Producer tasks*: a new task needs an identity nobody refers to, so two are
  needed for a stop that still holds the old task while a new one starts.  A
  third is only needed after `overlapped`, where the safety run claims nothing
  but `OneNativeSession` and `FlagsBacked`; these are proved for any number.
  In `stream_live` one identity is enough.  A connect uses it again once its task
  is over and no stop refers to it; two tasks live at a time only after
  `overlapped`, which `IdleTeardown` exempts, and a stop that still refers to a
  finished task delays a connect only until it returns, which `StopsReturn` says
  it does.
- *Callers*: the hazards need two stops in flight and one connect.  The safety
  run has four callers of three kinds, each of which may call again (all but
  the unload).
- *Fanout*: a queue of two and a cache of two reach full, overflow and dropped
  in three units; two sessions are a replacement.  Two viewers are needed to
  see that one is not hurt by the other.
- *Server*: two handlers that leave in either order and one that stalls; two
  starts are the concurrent `async_start` calls.
- *Processes*: one call of each kind and two children are a child that is left
  behind and its successor; a second cancellation is one that hits a clean-up.
- *Muxer*: `EdgeSizes` holds the sizes around one packet with and without PCR,
  a tiny one and one that wraps a counter.  `MaxClock` and `MaxPts` bound time
  for TLC; the proofs hold for all their values.  `MaxBounded` is small so that
  an audio frame can exceed it.
- *Gates*: two packages are the one that is used and the one that replaces it;
  operations repeat without limit, and `MaxCalls` lets two hold or wait for the
  lock at a time: one that changes the runtime, and one that waits behind it.
  The invariants are proved for any number.
- *Install*: two installations overlap in every way two can; the two crashes
  are the one that leaves a backup and the one that meets it, with the same or
  another process identifier.  The proof lifts all the bounds.
- *Files*: two actors at a time are every pairwise race, also of two
  preparations; a crash may hit either.  Two packages are the old and the new.
- *Native*: with room for one part a helper blocks at the header and at the
  body of each item, which is what a full pipe means; more room only delays it.
- *Entry*: two disturbances are, for instance, a changed password and a restart
  while it is repaired; passwords repeat, so an old one may return.

`CHECK_DEADLOCK FALSE` stands where the system may come to rest: after an
unload, when a process has ended, or at a bound.  `gates_ops` keeps the
deadlock check, because a form may always store another package.  Symmetry is
used in runs without liveness.

### Fairness

Only what the event loop, timers and the kernel guarantee is fair.  A ready
coroutine runs (weak fairness); `asyncio.Lock` serves its waiters in turn
(strong fairness of the waiters' entry, because the lock may be free and taken
in turn); armed timeouts expire; cancellations are delivered; a child that got
SIGKILL ends and is reaped; executor jobs return.  Nothing is assumed of the
cloud, the camera, a viewer, a user or a child that was not killed.

In `StreamLifecycle` a ready coroutine is enabled only between the turns of the
others (`Yielded`), hence strong fairness.  That a stop's seven seconds expire
(`Timers`) is assumed by `StopsReturn` and `IdleTeardown` only: `ViewersAnswered`
must hold without it, because the lock is not to be held over that wait.  In
`LoopbackServer` the first write of a viewer that stalls never ends.  In
`RuntimeGates` the steps of the lock's holder are fair, being bounded by timeouts
or executor jobs, but for its wait for the runner: `async_run` takes that lock
without a time limit (process.py:88), and a stream keeps it for its whole session
(process.py:183), so `RunHelper` is fair only while no stream is requested.

Two modules assume more, and say what.  In `NativeHelper` the helper is
scheduled and the vendor's calls return (the code sets the session's time limit
and relies on the rest); the one-shot builds leave their loop after 30 seconds (strong
fairness of `LoopEnds`, which a frame in between disables); readers run.
SIGKILL is relied on only where the parent has stopped reading, so that
`StopEnds` and `OrphanEnds` say what the helper does by itself.  In
`EntryLifecycle`, `Recovers` needs a user who, when asked to sign in again,
opens the form and at some point types the password the account has, and
services that answer; the number of disturbances is finite.

### Disagreements between the code and what it says

`stream_stranded` expects a violation of `ViewerHasProducer`: a viewer connects
while a stop, which has released `_stream_lock` (manager.py:865), waits for the
producer; the live task is kept, then cancelled and forgotten, and the viewer
has no producer, although manager.py:883 says "Start one producer for the first
loopback consumer."

Further disagreements were met while modelling.  The models contain them, but
no run is spent on them.

Stream and server:

- The producer loop reconnects without `reset_media` (manager.py:1026), so the
  cache may continue one session's key frame with another's pictures; the
  comment at manager.py:893-895 says that cached media must not survive into
  the next native session.
- A handler cancelled inside `wait_closed` never aborts its connection
  (stream.py:285), and `async_stop` waits for that connection in
  `server.wait_closed()`; stream.py:287-289 says that an unload must not wait
  for it indefinitely.
- Two overlapping restarts leave two producers, the second of which nobody
  refers to (manager.py:871; README.md:322).  This is behind `overlapped`, as is
  a stop aborted by the `CancelledError` of a task that another stop cancelled
  (manager.py:867): the unload then ends without closing anything.
- An exception that the producer loop does not catch (an `OSError` of `os.pipe()`
  at manager.py:943, say; the clauses are at 998-1003) ends its task with
  `_stream_requested` set.  Its viewers have no producer, probes and snapshots
  are refused as `stream_active`, and every stop raises the exception again at
  manager.py:867, before it clears anything, so a deletion or unload ends there,
  until the next connect replaces the task.  `RequestServed` exempts such a task
  (`NotTakenDown`).
- A viewer that stalls in its first write (stream.py:251) and is dropped stays
  open until the server stops, and its departure is not reported, so that no
  idle countdown begins.  `SlowViewerCloses` exempts it.
- A restart decides on a viewer count read before its stop (manager.py:402):
  the viewer may be gone when the producer starts, and no idle countdown
  follows.  `IdleTeardown` is checked without restarts.
- Two concurrent `async_start` calls, or one that races the stop, leave a
  listener open that nobody closes (stream.py:80).
- A whole access unit is kept as "parameter set" (stream.py:100) and sent again
  before a later key frame.
- When the cached group overflows, the unit that overflows it was already
  given continuity counts and is not sent (stream.py:113): viewers see a gap.
- A late viewer's cached key frame may declare an older audio codec until the
  next key frame (`late`).
- A retained viewer sees timestamps and counters start over after a reset
  without a discontinuity indicator; timestamps wrap after 26.5 hours
  (stream.py:329).

Processes:

- `async_run`, cancelled or failing before its child's input is closed
  (process.py:112-126, 150-155), or cancelled again while it terminates the
  child, frees the lock and forgets the live child; process.py:46 says the
  runner owns at most one child process.  A stream that is cancelled while it
  terminates its child does so, too (process.py:300, 310); how many cancellations
  that takes is not counted here.  A stream session may start beside such a child.
  `LetGo` holds such children, and `OneChild` and `OneNativeSession` speak of the
  others.
- The helper takes a parent with pid 1 for a dead one (frame_probe.c:194).  Under
  a subreaper an orphan's parent is another process, and a helper whose parent
  died before `prctl` would go on; `NativeHelper` assumes that there is none.
- The reaped counter lags when `stdin.drain` fails (process.py:373); a payload
  is not overwritten when its call is cancelled while it waits for the lock
  (process.py:183); and a stream waits without a timeout for a child that
  closed its output (process.py:288).
- A helper that is blocked in a long native call, or in a write nobody reads,
  cannot look at `stop_requested`: it is killed after five seconds without
  closing its camera session.
- `parent_supervision` is a stage the helper reports and `_ERROR_STAGES`
  (protocol.py:33) does not list: a probe or snapshot whose helper cannot
  supervise its parent ends as malformed output.

Operations and files:

- `async_shutdown` does not take the manager's lock.  A preparation that got
  past its extraction sets the SDK key again after the shutdown scrubbed it,
  and its probe starts a child.  A probe that asks for its payload after the
  scrub raises `AttributeError`.
- A viewer that connects while a deletion waits for the lock (manager.py:369)
  keeps its stream after the deletion.  A stream probe that ends after a
  deletion sets the status `ready`.
- A package stored during a preparation of an older one is deleted with it
  (manager.py:446), before it was extracted; README.md:232 speaks of deletion
  after extraction.
- A deletion does not wait for the executor job of a cancelled preparation, be it
  of a cancelled press or of the manager before a reload: that job may place an
  extraction, a key or the marker after the deletion returned
  (manager.py:1648-1660; the docstring at manager.py:368 and SECURITY.md:57-64
  speak of removing them).  `NothingReturns` speaks of deletions that met no such
  job, and in `UserFiles` this is why `Restorable` has `overlapped`.
- A press that is cancelled, or escapes, between its key and its marker
  (manager.py:418-445) leaves the manager with the new key and the old libraries,
  or with libraries that no restart will restore, and `libraries_compatible` true
  (`"torn"`, which `OfferIsBacked` exempts).
- A viewer that connects while a preparation, probe or snapshot is on its way to
  the runner may take the runner first: the operation then holds the manager's
  lock as long as that stream lives (process.py:88, 183).  `LockIsReleased` exempts it.
- Two forms that store at the same time prune each other's archive
  (upload.py:166).
- During a second preparation the stream may start with the old libraries and
  the new key, or with a key that is being overwritten (manager.py:418, 936).
- A cancelled preparation, probe, stream probe or snapshot, an `OSError` of an
  executor job, and a frame probe's own `OwletRuntimeError` (manager.py:579) leave
  a busy status, and `stream_available` stays false until something else sets
  one.  `StatusSettles` is checked with this exception (`"left"`).
- A snapshot cancelled while its file is created leaves the file and its
  descriptor behind (manager.py:626).
- A backup that a crash or a failing `rmtree` leaves under
  `.runtime-previous-<pid>` is never restored or removed, and makes every later
  upgrade by a process with that identifier fail (downloader.py:250); staging
  directories of crashed installations stay, too.

Entries:

- No `async_remove_entry` exists: the issues of an entry that is removed
  without having been loaded since the last restart stay, although
  repairs.py:77 speaks of an "unloaded or removed config entry".
- The options flow schedules the reload before the new options are stored
  (config_flow.py:752-757).
- The unique id is the identifier as typed, so the serial number and the DSN of
  one camera make two entries that share one `userfiles` directory.
- A refresh token that is refused is not followed by the password
  (cloud.py:265).  With a code that cloud.py:402-420 lists, the coordinator asks
  for a reauthentication, after which a new client starts without tokens; that
  is enough for `Recovers`.  With another code (`INVALID_REFRESH_TOKEN`) it is a
  connection error (cloud.py:443), the token is kept and presented again, and
  the entry stays unavailable until it is reloaded (`Stranded`, which `Recovers`
  exempts).

## 4. Proofs

TLC checks small instances; the proofs hold for every value of the constants
that satisfies the named assumptions.

**`StreamLifecycleProofs`** assumes `ConstantsAssumption`: the identities are
distinct.  It proves `TypeOK` and all the other invariants of `stream_safety`.  None of
them is inductive.  The strengthening has two layers:

- `Shape` holds whatever happens: a stop saves a task exactly while it is under
  way (`SavedShape`), at most one caller continues without yielding
  (`RunningShape`), a cancelled task has a stop that gathers it (`CancelShape`),
  sessions, child and the runner's lock agree (`RunnerShape`), and the idle task
  that others may cancel has not entered its stop (`IdleShape`).
- `Service` holds until `overlapped`: while a stop is under way nothing is
  requested and the task it saved is the current one, or another stop has reset
  it (`StopOwnsTask`).  Without this conjunct a stop that returns could drop a
  task that is not its own; with it, `TrackedProducer`, `RequestServed`,
  `StopQuiesces` and `SessionVisible` follow together.

The same invariant carries two action properties that are stated beside it:
`ChildKeepsOwner`, the runner's lock does not change hands under a child, unless
a one-shot run, or a stream cancelled while it terminates its child, lets go of
it (`LetsGo`), and a child that is being terminated is
gone before the next one starts, and, until
`overlapped`, `DropsOnlyFinished`, `_stream_task` lets go of a task only when that
task is over.

Each conjunct has its own step lemma with a case for each action.  `TypeOK` is
split into Boolean flags and ranges, which different provers handle.

**`TsMuxerProofs`** assumes `MuxerAssumption`: sizes and the frame duration are
positive, the bounds are numbers.  It proves the types, `PesWhole`
and the three invariants of `muxer_packets` for access units of every length and
for every `MaxClock` and `MaxPts`.
The invariant `Inductive` adds three facts: the receiver's expected count is
the muxer's next count (`Counts`), what was sent and what is left is the PES
(`Job`), and audio timestamps are tied to the camera's own schedule instead of
to the clock (`Schedule`).  The last one is what makes `AudioOnTime` provable:
relative to the clock alone a frame could push its successor one step further
each time.

**`RuntimeInstallProofs`** has two parts. The first assumes `InstallAssumption`
and proves both properties of `install_swap` for any number of installations,
identifiers, failing operations and crashes. `RuntimeKept` alone is not
inductive: a failed installation could be the only one that knows where the old
runtime is. The strengthening says that at most one installation of a process
answers for its backup, which is there as long as it does (`OneBackup`); that
whoever is past the verification has the release in its staging directory
(`Staged`, which gives `OnlyReleaseArrives`); and that an installation only
undoes after a fault, so that a second one is needed to lose the runtime
(`Undoing`, `Kept`). `FailKeeps` is the lemma all failing steps share.

The second part assumes `FilesAssumption` and proves both properties of
`files_disk`.  `Restorable` speaks of moments at which nobody is at work, so the
invariant must say what a lone actor has done so far (`Undisturbed`): a
preparation that extracts still has its archive in `uploads/`, so its failure
costs nothing; one that is past the key has the newest extraction (`Restores`);
a deletion that clears has dropped everything, so nothing half removed is left
when it ends.  `Dated` is needed for the newest to exist: whatever is in
`extracted/`, or whole in `tmp/`, has a modification time.  `Owned`, an
extraction directory belongs to a preparation that still extracts, gives
`StagingKept`.  `TouchIs`, `WithoutIs` and `RenamedIs` say what the operators do
to an order, once.

**`HelperProcessProofs`** has two parts, too.  The first assumes
`RunnerAssumption` and proves the two invariants and the refinement of
`helper_calls`.  `Holding` ties the lock to the program counters, so that only
its holder works on `_process`; `Counting` says which child is missing from
`_reaped_count`, which is what keeps the diagnostics from being early; `Slotted`
says that a child that lives is the holder's, or one a call let go of.  From it
each step is shown to start, end or keep the one child of `ChildSlot`, or to be a
stutter (`StepSlot`); a call that lets go of its child frees the slot.

The second part assumes `HelperAssumption` and proves `CleanShutdown` for pipes
of any room.  What a helper has open is a function of the rung it stands on
(`Laddered`), which is what makes a failure on any rung leave a prefix of
`Opened` (`Nested`); `Reporting` follows the report through the pipe to
the parser.

**`LoopbackServerProofs`** assumes `NamesAssumption` and proves the three
invariants of `server_viewers`, which are inductive with the types and one
further fact: only a handler that streams has a queue (`SubscribersStream`).

**`RuntimeGatesProofs`** assumes `GatesAssumption` and proves the four
invariants of `gates_ops`, for any `MaxCalls`.  The conjuncts say what a
preparation has extracted and which key it took (`Sources`), what is on disk
while the manager offers a stream, and in which stages of a preparation key or
marker may lag (`Backed`), that a deletion has released the runtime before it
touches the files (`Deleting`), and that no job had outlived its call when a
deletion that counts began, and none has a package after it (`Gone`).

**`EntryLifecycleProofs`** assumes `CloudAssumption` and proves the two
invariants of `entry_account` for any passwords and any number of disturbances.
The two clients are handled first: whatever a client's request does, it changes
no password and drops no client (`CloudKeeps`, from `Held`).  The entry's own
steps then only need that it has a password and a client when it should
(`Grounded`).

**`MediaFanoutProofs`** assumes `FanoutAssumption` and proves the four
invariants of `fanout_viewers` for any number of viewers, sessions and units and
any depth of queue and cache. They speak of a decoder that is given a whole
queue, that is, of the recursive functions in `WatchAll` and `CatchUp`. What
these compute is proved by induction over their domains: `SetInduction` obtains
induction for a set of numbers from well-founded minimality, `RunExists` the
existence of a recursive function and `RunsAgree` its uniqueness. From these
follow the equations the steps need: what a payload at the end of a write, and a
write at the end (`CatchUpAppend`) or from the front (`CatchUpSent`) of a queue,
do to the decoder. The invariant says of every viewer where its decoder will be
when it has caught up (`Viewer`), that the cache is decodable by itself
(`CacheSound`), that its newest picture is the producer's newest (`Newest`) and
that the parameter sets are the producer's own (`OwnStored`). `Send` leaves
`Ahead(c)` as it is, so a slow viewer is no different from a fast one.

The assumptions.  Those on bounds say that they are numbers, and those on
identities that they are distinct; each `None` is a value of its own, which the
integers, records and strings it stands beside are not.

| Theorem | States |
| --- | --- |
| `StreamLifecycleProofs`: `ProducerIsTracked`, `RequestIsServed`, `StopIsComplete`, `SingleSession`, `FlagsHaveProducer` | the five invariants of `stream_safety` |
| `StreamLifecycleProofs`: `TypeCorrectness`, `SessionsAreVisible` | `TypeOK`; no camera session is hidden from the snapshot before `overlapped` |
| `StreamLifecycleProofs`: `ChildHasOneOwner`, `NoLiveTaskDropped` | `ChildKeepsOwner` and `DropsOnlyFinished` |
| `TsMuxerProofs`: `PacketsAreWhole`, `NothingSeemsLost`, `AudioStaysOnTime` | the three invariants of `muxer_packets` |
| `TsMuxerProofs`: `TypeCorrectness`, `PesIsWhole` | `TypeOK`; packets and what is left add up to the PES, and a declared length is met |
| `RuntimeInstallProofs`: `RuntimeIsKept`, `OnlyReleaseArrives` | the two properties of `install_swap` |
| `RuntimeInstallProofs`: `AlwaysRestorable`, `AlwaysStagingKept` | the two properties of `files_disk` |
| `HelperProcessProofs`: `AlwaysAllReapedTrue`, `AlwaysSecretsScrubbed`, `ImplementsSlot` | the invariants and the refinement of `helper_calls` |
| `HelperProcessProofs`: `AlwaysCleanShutdown` | the invariant of `native_session` |
| `LoopbackServerProofs`: `AlwaysViewersKnown`, `AlwaysDepartureReported`, `AlwaysStoppedIsEmpty` | the invariants of `server_viewers` |
| `RuntimeGatesProofs`: `AlwaysOfferIsBacked`, `AlwaysGateHolds`, `AlwaysStatusSettles`, `AlwaysNothingReturns` | the invariants of `gates_ops` |
| `EntryLifecycleProofs`: `AlwaysUpToDate`, `AlwaysIssuesOwned` | the invariants of `entry_account` |
| `MediaFanoutProofs`: `AlwaysDeltasFollow`, `AlwaysStartsDecodable`, `AlwaysInStep`, `AlwaysSoundDeclared` | the invariants of `fanout_viewers` |

The `AlwaysInductive` theorems, and `AlwaysFilesInductive`, state the
strengthenings themselves, with the types. Each invariant was checked by TLC on
the run's instance before it was proved. All safety properties of the passing
runs are proved.

What the prover cannot do stays with TLC: liveness under fairness
(`StopsReturn`, `ViewersAnswered` and `IdleTeardown` of `stream_live`;
`SlowViewerCloses` and `HandlersGathered`; `CallsEnd`; `LockIsReleased`;
`OrphanEnds`, `WritesEnd` and `StopEnds`; `Recovers`).  `ENABLED` is out of its
reach, so no rule for fairness can be applied.  `stream_stranded` is a
counterexample, which TLC finds.

## 5. What is not modelled

- Parsing of APK, ELF, NAL and probe output: bounded loops over data with no
  interleaving.  `UserFiles.Extract` and `RuntimeGates.InspectionEnds` say what
  its verdicts do.
- The camera entity's cached image and the requests that queue behind a fetch.
  Only the capture and its cancellation are in a model (`RuntimeGates`).  On
  removal the entity cancels the running fetch but not the waiting requests
  (camera.py:254), which start another.
- The external bridge mode: its client (one HTTP request for each call, no
  state), its forms and its coordinator branch.  An external entry has no
  manager, stream or issue.
- The values of the options; an options flow is a reload in `EntryLifecycle`.
- Sensors, buttons and diagnostics: projections of the snapshot without state.
- `helper/src/probe_libraries.c` (opens the libraries and reports) and the
  offline build, packaging and probe scripts.
- `async_store_application_upload` and `async_store_upload`, which nothing in
  the integration calls.
- The vendor's native libraries and the account's services are external: every
  result the code tells apart is a choice.
- Time is abstract everywhere but in `TsMuxer`: a timeout may expire whenever
  it is armed.  Where an order of two timeouts matters it is a guard
  (`StopCancels` in `LoopbackServer`).

## 6. Plan

What is left:

1. Safety halves of the liveness properties: what a fair step needs is stated as
   an invariant (a caller that waits is one whose turn comes, a queued viewer has
   a stop in front of it), so that TLC's part is the fairness alone.
2. `RuntimeGates` as a refinement of a small specification of `_lock` with one
   holder.  `StreamLifecycle`'s runner has no identities for its children, which
   `ChildSlot` needs; `ChildKeepsOwner` says what remains of it.

A composition of `LoopbackServer` and `StreamLifecycle` at the callbacks would
be the next model; it needs an abstraction of both that TLC can hold.  The
number of runs is kept small: a violation run goes when its code is fixed, and
a property goes when a deeper one implies it.
