----------------------------- MODULE NativeHelper -----------------------------
(***************************************************************************)
(* The native helper (helper/src/frame_probe.c) and the process that owns  *)
(* its pipes (runtime/process.py, runtime/protocol.py): the set-up ladder  *)
(* over the camera vendor's libraries, the receive loop that writes media  *)
(* into blocking pipes, and the single clean-up every path ends in.        *)
(*                                                                         *)
(* The libraries are external: each call returns, with any of the results  *)
(* the code tells apart.  A pipe is the number of parts it holds (a header *)
(* or a body; a sensor record is one part).  signal() restarts system      *)
(* calls, so SIGTERM interrupts no read or write of the helper.            *)
(*                                                                         *)
(* Assumption: an orphan's parent becomes pid 1, so getppid() <= 1 tells   *)
(* that the parent is dead.  Under a subreaper the helper's checks pass.   *)
(***************************************************************************)
EXTENDS Naturals, Sequences

CONSTANTS
  Builds,  \* the binaries: "stream" (STREAM_CAPTURE), "snapshot", "probe"
  Room,    \* bound: how many parts a pipe holds
  NoWrite

ASSUME HelperAssumption ==
  /\ Builds \subseteq {"stream", "snapshot", "probe"} /\ Room \in Nat \ {0}

VARIABLES
  build,    \* which binary runs
  parent,   \* the process that spawned it: "alive" or "dead"
  armed,    \* PR_SET_PDEATHSIG is set
  stdin,    \* "empty", "fed" or "eof"
  place,    \* where run_probe is
  held,     \* native resources that are open
  secret,   \* its copies of the secrets: "none", "held" or "gone"
  frames,   \* enough was received: one frame, the key frame or the probe's hundred
  on,       \* side channels that are enabled (audio_enabled, sensors_enabled)
  out,      \* the write under way: [ch, left, then], or NoWrite
  stop,     \* stop_requested
  event,    \* what was written to the control descriptor: a stage, "ok" or "none"
  ended,    \* "no", "exited" or "killed"
  termed,   \* the parent sent SIGTERM
  pipe,     \* parts in each pipe
  reader,   \* its reader: "reads", "drains", "stopped" or "closed"
  verdict   \* what the parent's parser made of a one-shot run, or "none"

nativeVars == <<build, parent, armed, stdin, place, held, secret, frames, on, out,
                stop, event, ended, termed, pipe, reader, verdict>>
outside == <<build, parent, stdin, stop, ended, termed, reader, verdict>>

Channels == {"video", "audio", "sensors"}
Parts(ch) == IF ch = "sensors" THEN 1 ELSE 2

\* The ladder of run_probe; each rung's name is the stage of its error event.
\* Three settings of the SDK share a rung, and so do the check of the session and
\* the log-in to its media channel.
Ladder == <<"invalid_input", "library_symbols", "licence", "iotc_initialize",
            "av_initialize", "session_id", "iotc_connect", "av_authenticate",
            "start_video", "start_audio", "loop">>
Rungs == {Ladder[i] : i \in 1..9}
Above(rung) == Ladder[1 + CHOOSE i \in 1..10 : Ladder[i] = rung]

\* What each rung opens, in the order it is opened.
Opened == <<"library_symbols", "iotc_initialize", "av_initialize", "session_id",
            "av_authenticate">>
Resources == {Opened[i] : i \in 1..5}

\* The stream's turns of the receive loop.
Receiving == {"loop", "temperature", "audio", "realtime"}

Stages == Rungs \cup {"parent_supervision", "receive_frame", "no_frame_timeout",
                      "capture_output", "stream_output"}

NativeTypeOK ==
  /\ build \in Builds /\ parent \in {"alive", "dead"} /\ armed \in BOOLEAN
  /\ stdin \in {"empty", "fed", "eof"}
  /\ place \in {"start", "ask", "arm", "recheck", "start_audio", "finish", "clean",
                "over"} \cup Rungs \cup Receiving
  /\ held \subseteq Resources /\ secret \in {"none", "held", "gone"}
  /\ frames \in BOOLEAN /\ on \subseteq Channels \ {"video"}
  /\ out \in [ch : Channels, left : 1..2, then : Receiving] \cup {NoWrite}
  /\ stop \in BOOLEAN /\ event \in Stages \cup {"none", "ok"}
  /\ ended \in {"no", "exited", "killed"} /\ termed \in BOOLEAN
  /\ pipe \in [Channels -> 0..Room]
  /\ reader \in [Channels -> {"reads", "drains", "stopped", "closed"}]
  /\ verdict \in {"none", "result", "reported", "malformed"}

NativeInit ==
  /\ build \in Builds
  /\ on \in SUBSET (IF build = "stream" THEN Channels \ {"video"} ELSE {})
  /\ parent = "alive" /\ armed = FALSE /\ stdin = "empty"
  /\ place = "start" /\ held = {} /\ secret = "none" /\ frames = FALSE
  /\ out = NoWrite /\ stop = FALSE /\ event = "none" /\ ended = "no"
  /\ termed = FALSE /\ pipe = [ch \in Channels |-> 0]
  /\ reader = [ch \in Channels |-> "reads"] /\ verdict = "none"

Reached(at) == ended = "no" /\ place = at /\ out = NoWrite
Goto(at) == place' = at

\* emit_error, then goto cleanup: nothing is returned from the middle.
Fail(stage) == event' = stage /\ Goto("clean")

\* A write of one item; the helper blocks in it part by part.
Write(ch, then) == out' = [ch |-> ch, left |-> Parts(ch), then |-> then]

------------------------------------------------------------------------------
(* Start and set-up. *)

\* signal() is the first thing the stream build does.
Installs ==
  /\ Reached("start") /\ Goto("ask")
  /\ UNCHANGED <<outside, armed, held, secret, frames, on, out, event, pipe>>

\* arm_parent_death_signal: getppid, prctl, getppid again.  Its failure is the
\* one return that skips the clean-up; nothing was opened or read yet.
Unsupervised ==
  /\ Goto("over") /\ event' = "parent_supervision" /\ ended' = "exited"

\* getppid() <= 1: the parent is dead, where orphans go to pid 1.
Asks ==
  /\ Reached("ask")
  /\ IF parent = "alive" THEN Goto("arm") /\ UNCHANGED <<event, ended>>
                         ELSE Unsupervised
  /\ UNCHANGED <<build, parent, stdin, stop, termed, reader, verdict, armed, held,
                 secret, frames, on, out, pipe>>

ArmsOnly == "invalid_input"
Rechecks == "recheck"

Arms ==
  /\ Reached("arm") /\ armed' = TRUE /\ Goto(Rechecks)
  /\ UNCHANGED <<outside, held, secret, frames, on, out, event, pipe>>

Supervised ==
  /\ Reached("recheck")
  /\ IF parent = "alive" THEN Goto("invalid_input") /\ UNCHANGED <<event, ended>>
                         ELSE Unsupervised
  /\ UNCHANGED <<build, parent, stdin, stop, termed, reader, verdict, armed, held,
                 secret, frames, on, out, pipe>>

\* read_secrets blocks until the payload or the end of stdin is there.
MayReturn(rung) == rung = "invalid_input" => stdin # "empty"

Climb ==
  /\ ended = "no" /\ out = NoWrite /\ place \in Rungs /\ MayReturn(place)
  /\ place = "invalid_input" => stdin = "fed"
  /\ Goto(Above(place))
  /\ held' = held \cup ({place} \cap Resources)
  /\ secret' = IF place = "invalid_input" THEN "held" ELSE secret
  /\ UNCHANGED <<outside, armed, frames, on, out, event, pipe>>

\* A library may be missing after another was loaded; nothing else is half open.
HalfOpen(rung) == IF rung = "library_symbols" THEN SUBSET {rung} ELSE {{}}

Slips ==
  /\ ended = "no" /\ out = NoWrite /\ place \in Rungs /\ MayReturn(place)
  /\ Fail(place)
  /\ \E more \in HalfOpen(place) : held' = held \cup more
  /\ UNCHANGED <<outside, armed, secret, frames, on, out, pipe>>

\* Audio that cannot be started does not end the stream.
StartAudio ==
  /\ Reached("start_audio") /\ Goto("loop")
  /\ on' \in {on, on \ {"audio"}}
  /\ UNCHANGED <<outside, armed, held, secret, frames, out, event, pipe>>

------------------------------------------------------------------------------
(* The receive loop. *)

NeverLooks == stop /\ FALSE
StopsNow == build = "stream" /\ stop

LoopEnds ==
  /\ Reached("loop")
  /\ StopsNow \/ build # "stream"     \* the one-shot builds also have 30 seconds
  /\ Goto("finish")
  /\ UNCHANGED <<outside, armed, held, secret, frames, on, out, event, pipe>>

\* The stream build writes every frame to descriptor 1.
StreamFrame ==
  /\ Reached("loop") /\ build = "stream" /\ ~StopsNow
  /\ frames' = TRUE /\ Write("video", "temperature")
  /\ UNCHANGED <<outside, armed, place, held, secret, on, event, pipe>>

\* The others count, until the probe has its hundred frames or the snapshot its
\* key frame, which goes to a file: no pipe, so it does not block.
Captures ==
  /\ Reached("loop") /\ build # "stream"
  /\ \/ frames' = TRUE /\ Goto("finish") /\ UNCHANGED event
     \/ build = "snapshot" /\ Fail("capture_output") /\ UNCHANGED frames
     \/ UNCHANGED <<frames, place, event>>
  /\ UNCHANGED <<outside, armed, held, secret, on, out, pipe>>

\* Not ready, lost or incomplete: the stream goes on to its side channels.
NoFrame ==
  /\ Reached("loop") /\ build = "stream" /\ ~StopsNow /\ Goto("audio")
  /\ UNCHANGED <<outside, armed, held, secret, frames, on, out, event, pipe>>

ReceiveFails ==
  /\ Reached("loop") /\ ~StopsNow /\ Fail("receive_frame")
  /\ UNCHANGED <<outside, armed, held, secret, frames, on, out, pipe>>

\* One side channel's turn: at most one item, or an error that disables it.
Turn(at, ch, next) ==
  /\ Reached(at)
  /\ \/ Goto(next) /\ UNCHANGED <<on, out>>
     \/ ch \in on /\ Write(ch, next) /\ UNCHANGED <<on, place>>
     \/ at = "audio" /\ Goto(next) /\ on' = on \ {ch} /\ UNCHANGED out
  /\ UNCHANGED <<outside, armed, held, secret, frames, event, pipe>>

Side ==
  \/ Turn("temperature", "sensors", "audio")
  \/ Turn("audio", "audio", "realtime")
  \/ Turn("realtime", "sensors", "loop")

\* write(): blocks while the pipe is full, unless its reader is gone.
WritePart ==
  /\ ended = "no" /\ out # NoWrite
  /\ reader[out.ch] # "closed" /\ pipe[out.ch] < Room
  /\ pipe' = [pipe EXCEPT ![out.ch] = @ + 1]
  /\ IF out.left = 1 THEN out' = NoWrite /\ Goto(out.then)
                     ELSE out' = [out EXCEPT !.left = @ - 1] /\ UNCHANGED place
  /\ UNCHANGED <<outside, armed, held, secret, frames, on, event>>

\* SIGPIPE is ignored: video that cannot be written ends the run, the others
\* only themselves.
WriteFails ==
  /\ ended = "no" /\ out # NoWrite /\ reader[out.ch] = "closed"
  /\ out' = NoWrite
  /\ IF out.ch = "video" THEN Fail("stream_output") /\ UNCHANGED on
                         ELSE Goto(out.then) /\ on' = on \ {out.ch} /\ UNCHANGED event
  /\ UNCHANGED <<outside, armed, held, secret, frames, pipe>>

------------------------------------------------------------------------------
(* The end. *)

Finish ==
  /\ Reached("finish") /\ Goto("clean")
  /\ event' = IF frames THEN event ELSE "no_frame_timeout"
  /\ UNCHANGED <<outside, armed, held, secret, frames, on, out, pipe>>

FirstOpened == CHOOSE r \in held : \A i \in 1..5 : Opened[i] \in held =>
                 \E j \in 1..i : Opened[j] = r
LastOpened == CHOOSE r \in held : \A i \in 1..5 : Opened[i] \in held =>
                \E j \in i..5 : Opened[j] = r

\* cleanup: each resource whose handle is set, the last one opened first.
CloseLast ==
  /\ Reached("clean") /\ held # {}
  /\ held' = held \ {LastOpened}
  /\ UNCHANGED <<outside, armed, place, secret, frames, on, out, event, pipe>>

\* Everything is scrubbed, then success is written, then the process ends.
Exit ==
  /\ Reached("clean") /\ held = {}
  /\ secret' = IF secret = "held" THEN "gone" ELSE secret
  /\ event' = IF event = "none" THEN "ok" ELSE event
  /\ Goto("over") /\ ended' = "exited"
  /\ UNCHANGED <<build, parent, stdin, stop, termed, reader, verdict, armed, held,
                 frames, on, out, pipe>>

------------------------------------------------------------------------------
(* The parent. *)

\* A SIGTERM that arrives now: handled by the stream build once it has installed
\* the handler, deadly otherwise.
Signalled ==
  IF build = "stream" /\ place # "start"
  THEN stop' = TRUE /\ UNCHANGED ended ELSE ended' = "killed" /\ UNCHANGED stop

Feed ==
  /\ parent = "alive" /\ stdin = "empty" /\ reader["video"] = "reads" /\ stdin' = "fed"
  /\ UNCHANGED <<build, parent, armed, place, held, secret, frames, on, out, stop, event,
                 ended, termed, pipe, reader, verdict>>

\* async_stop (a stream that is read meanwhile), or a call that gave up: no frame
\* in time, a cancellation, a subscriber's error.  It reads no more then.
SendTerm ==
  /\ parent = "alive" /\ ended = "no" /\ ~termed /\ termed' = TRUE
  /\ \/ UNCHANGED reader
     \/ reader' = [reader EXCEPT !["video"] = "stopped"]
  /\ Signalled
  /\ UNCHANGED <<build, parent, armed, stdin, place, held, secret, frames, on, out,
                 event, pipe, verdict>>

\* Five seconds later.
Kill ==
  /\ parent = "alive" /\ ended = "no" /\ termed /\ ended' = "killed"
  /\ UNCHANGED <<build, parent, armed, stdin, place, held, secret, frames, on, out, stop,
                 event, termed, pipe, reader, verdict>>

\* A reader takes one part.
Take(ch) ==
  /\ pipe[ch] > 0 /\ reader[ch] \in {"reads", "drains"}
  /\ pipe' = [pipe EXCEPT ![ch] = @ - 1]
  /\ UNCHANGED <<outside, armed, place, held, secret, frames, on, out, event>>

Leaves == "stopped"
Drains == "drains"

\* Audio or telemetry that cannot be published is still read.
PublishFails(ch) ==
  /\ ch # "video" /\ build = "stream" /\ reader[ch] = "reads" /\ pipe[ch] > 0
  /\ reader' = [reader EXCEPT ![ch] = Drains]
  /\ UNCHANGED <<build, parent, armed, stdin, place, held, secret, frames, on, out, stop,
                 event, ended, termed, pipe, verdict>>

\* A one-shot run's output: exactly one object, from the fixed schema.
Recognised(e) == e \in Stages \ {"parent_supervision", "stream_output"}


Collect ==
  /\ parent = "alive" /\ build # "stream" /\ ended # "no" /\ verdict = "none"
  /\ verdict' = CASE event = "ok"      -> "result"
                  [] Recognised(event) -> "reported"
                  [] OTHER             -> "malformed"
  /\ UNCHANGED <<build, parent, armed, stdin, place, held, secret, frames, on, out, stop,
                 event, ended, termed, pipe, reader>>

\* Home Assistant is killed: its ends of the pipes close, and the kernel sends
\* the signal that was asked for.
ParentDies ==
  /\ parent = "alive" /\ parent' = "dead"
  /\ reader' = [ch \in Channels |-> "closed"]
  /\ stdin' = IF stdin = "empty" THEN "eof" ELSE stdin
  /\ IF armed /\ ended = "no" THEN Signalled ELSE UNCHANGED <<stop, ended>>
  /\ UNCHANGED <<build, armed, place, held, secret, frames, on, out, event, termed, pipe,
                 verdict>>

Helper ==
  \/ Installs \/ Asks \/ Arms \/ Supervised \/ Climb \/ Slips \/ StartAudio
  \/ LoopEnds \/ StreamFrame \/ Captures \/ NoFrame \/ ReceiveFails \/ Side
  \/ WritePart \/ WriteFails \/ Finish \/ CloseLast \/ Exit

Parent ==
  \/ Feed \/ SendTerm \/ Kill \/ Collect \/ ParentDies
  \/ \E ch \in Channels : Take(ch) \/ PublishFails(ch)

NativeNext == Helper \/ Parent

NativeSpec == NativeInit /\ [][NativeNext]_nativeVars

\* The helper runs and its libraries return; the reader tasks run; the one-shot
\* loop has its 30 seconds.  The SIGKILL is relied on only where the parent has
\* stopped reading: a helper that is read, or whose parent is gone, ends by
\* itself.
NativeFairness ==
  /\ WF_nativeVars(Helper) /\ SF_nativeVars(LoopEnds) /\ WF_nativeVars(Feed)
  /\ \A ch \in Channels : WF_nativeVars(Take(ch))
  /\ WF_nativeVars(reader["video"] = "stopped" /\ Kill)

FairNativeSpec == NativeSpec /\ NativeFairness

------------------------------------------------------------------------------
(* Properties *)

\* Nothing native is used after what it was opened on is gone, on any path in
\* or out; a helper that ends by itself has closed everything and holds no
\* secret; and the "clean_shutdown" that the parser hands on as a result is
\* never said of another.
CleanShutdown ==
  /\ NativeTypeOK
  /\ \A i, j \in 1..5 : i < j /\ Opened[j] \in held => Opened[i] \in held
  /\ ended = "exited" => held = {} /\ secret # "held"
  /\ verdict = "result" => held = {} /\ frames /\ ended = "exited"

\* No helper outlives Home Assistant, wherever it was when that died: between
\* two of the calls that arm the signal, waiting for its secrets, in the middle
\* of a frame, or with a camera that sends nothing.
OrphanEnds == parent = "dead" ~> ended # "no"

\* "Without allowing it to stop video": a write to a pipe is never for ever,
\* although one thread writes to three pipes and any of their subscribers may
\* fail.
WritesEnd == \A ch \in Channels :
  (out # NoWrite /\ out.ch = ch /\ ended = "no")
    ~> ~(out # NoWrite /\ out.ch = ch /\ ended = "no")

\* A helper that is told to stop ends, also while frames keep coming.
StopEnds == termed ~> ended # "no"
==============================================================================
