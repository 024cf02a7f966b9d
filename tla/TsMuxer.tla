------------------------------- MODULE TsMuxer -------------------------------
(***************************************************************************)
(* _MpegTsMuxer (runtime/stream.py): access units become timestamped PES   *)
(* packets, cut into transport packets of 188 bytes.  Muxing never awaits: *)
(* while a PES is cut up nothing else moves, and one step is one packet.   *)
(*                                                                         *)
(* Time is in ticks of the 90 kHz clock.  The camera records an audio      *)
(* frame every FrameTicks and its network delays a frame by at most Delay. *)
(* The receiver is a demultiplexer that counts packets and payload bytes.  *)
(***************************************************************************)
EXTENDS Naturals, Sequences

CONSTANTS
  Sizes,        \* byte lengths of the access units
  FrameTicks,   \* _PTS_CLOCK * _AAC_SAMPLES_PER_FRAME // _AAC_SAMPLE_RATE
  Delay,        \* how late an audio frame may arrive
  Types,        \* audio stream types
  DefaultType,  \* _TS_STREAM_AAC_ADTS
  AudioEnabled, \* _audio_enabled
  MaxBounded,   \* the largest PES_packet_length, 0xFFFF
  MaxClock,     \* bound: the last tick
  MaxPts,       \* bound: the last video timestamp
  None

ASSUME MuxerAssumption ==
  /\ Sizes \subseteq Nat \ {0}
  /\ FrameTicks \in Nat \ {0} /\ Delay \in Nat
  /\ MaxBounded \in Nat /\ MaxClock \in Nat /\ MaxPts \in Nat
  /\ DefaultType \in Types /\ AudioEnabled \in BOOLEAN
  /\ None \notin Nat

Pids == {"pat", "pmt", "video", "audio"}

VARIABLES
  clock,       \* time.monotonic()
  due,         \* when the camera finishes its next audio frame
  started,     \* _started_at
  lastPts,     \* _last_pts
  lastAudio,   \* _last_audio_pts
  continuity,  \* _continuity
  audioType,   \* _audio_stream_type
  emitted,     \* _audio_tables_emitted
  pid,         \* the PES being cut up: its PID,
  left,        \*   its bytes not yet in a packet; 0 between two calls
  first,       \*   no packet of it was made
  pcr,         \*   it carries a PCR
  size,        \*   its access unit
  wire,        \* the last packet that was made of a PES
  expect,      \* the receiver's next continuity count of each PID
  lost,        \* the receiver noticed a missing packet
  got          \* bytes of the current PES that reached the receiver

time == <<clock, due>>
stamps == <<started, lastPts, lastAudio>>
tables == <<audioType, emitted>>
pes == <<pid, left, first, pcr, size>>
receiver == <<expect, lost, got>>
vars == <<clock, due, started, lastPts, lastAudio, continuity, audioType, emitted,
          pid, left, first, pcr, size, wire, expect, lost, got>>

Packets == [payload : Nat, adaptation : Nat, length : Nat]

FlagsOK == emitted \in BOOLEAN /\ first \in BOOLEAN /\ pcr \in BOOLEAN /\ lost \in BOOLEAN

RangesOK ==
  /\ clock \in Nat /\ due \in Nat
  /\ started \in Nat \cup {None}
  /\ lastPts \in Nat /\ lastAudio \in Nat \cup {None}
  /\ continuity \in [Pids -> 0..15]
  /\ audioType \in Types
  /\ pid \in {"video", "audio"} /\ left \in Nat /\ size \in Nat /\ got \in Nat
  /\ wire \in Packets \cup {None}
  /\ expect \in [Pids -> 0..15 \cup {None}]

TypeOK == FlagsOK /\ RangesOK

Init ==
  /\ clock = 0 /\ due = FrameTicks
  /\ started = None /\ lastPts = 0 /\ lastAudio = None
  /\ continuity = [p \in Pids |-> 0]
  /\ audioType = DefaultType /\ emitted = FALSE
  /\ pid = "video" /\ left = 0 /\ first = FALSE /\ pcr = FALSE /\ size = 0
  /\ wire = None
  /\ expect = [p \in Pids |-> None] /\ lost = FALSE /\ got = 0

Idle == left = 0
Larger(a, b) == IF a >= b THEN a ELSE b
Smaller(a, b) == IF a <= b THEN a ELSE b

------------------------------------------------------------------------------
(* The world. *)

\* No audio frame is later than its delay.
Tick ==
  /\ Idle
  /\ clock < due + Delay /\ clock < MaxClock
  /\ clock' = clock + 1
  /\ UNCHANGED <<due, stamps, continuity, tables, pes, wire, receiver>>

\* An audio frame that is dropped on its way, or by async_publish_audio.
AudioLost ==
  /\ Idle
  /\ clock >= due
  /\ due' = due + FrameTicks
  /\ UNCHANGED <<clock, stamps, continuity, tables, pes, wire, receiver>>

\* A new helper session records a whole frame before it has one to send.
CameraReconnects ==
  /\ Idle
  /\ due' = clock + FrameTicks
  /\ UNCHANGED <<clock, stamps, continuity, tables, pes, wire, receiver>>

------------------------------------------------------------------------------
(* Continuity counts and tables. *)

\* _next_continuity: a counter of four bits for each PID.
NextCount(n) == (n + 1) % 16

CountKept(cc, p) == cc
Counted(cc, p) == [cc EXCEPT ![p] = NextCount(@)]

\* A demultiplexer expects the counts of one PID to follow each other.
Expects(n) == IF n = 15 THEN 0 ELSE n + 1
Gap(p) == expect[p] # None /\ expect[p] # continuity[p]

\* _psi_packet for the PAT and for the PMT.
SendTables ==
  /\ continuity' = Counted(Counted(continuity, "pat"), "pmt")
  /\ expect' = [expect EXCEPT !["pat"] = Expects(continuity["pat"]),
                              !["pmt"] = Expects(continuity["pmt"])]
  /\ lost' = (lost \/ Gap("pat") \/ Gap("pmt"))

------------------------------------------------------------------------------
(* mux_access_unit and mux_audio_access_unit, up to their _packetize_pes. *)

PesHeader == 14

\* _pes_packet: start code, stream id, length, flags and timestamp.
BeginPes(p, n, withPcr) ==
  /\ pid' = p /\ size' = n /\ left' = n + PesHeader
  /\ first' = TRUE /\ pcr' = withPcr /\ got' = 0

Origin == IF started = None THEN clock ELSE started
Elapsed == clock - Origin

MuxVideo(n, key) ==
  /\ Idle /\ lastPts < MaxPts
  /\ started' = Origin
  /\ lastPts' = Larger(Elapsed, lastPts + 1)
  /\ IF key
     THEN SendTables /\ emitted' = AudioEnabled
     ELSE UNCHANGED <<continuity, expect, lost, emitted>>
  /\ BeginPes("video", n, TRUE)
  /\ UNCHANGED <<time, lastAudio, audioType, wire>>

StampsAtEnd ==
  FrameTicks + (IF lastAudio = None THEN Elapsed ELSE Larger(Elapsed, lastAudio))
\* Audio frames are spaced by their duration, or by their arrival if later.
AudioPts ==
  IF lastAudio = None THEN Elapsed ELSE Larger(Elapsed, lastAudio + FrameTicks)

MuxAudio(n, type) ==
  /\ Idle /\ AudioEnabled
  /\ clock >= due
  /\ due' = due + FrameTicks
  /\ IF type # audioType \/ ~emitted
     THEN SendTables
     ELSE UNCHANGED <<continuity, expect, lost>>
  /\ audioType' = type /\ emitted' = TRUE
  /\ started' = Origin
  /\ lastAudio' = AudioPts
  /\ BeginPes("audio", n, FALSE)
  /\ UNCHANGED <<clock, lastPts, wire>>

\* reset, before a producer: the receiver is one that connects to it and has
\* seen nothing yet.  One that outlived the last producer is not modelled.
Reset ==
  /\ Idle
  /\ continuity' = [p \in Pids |-> 0]
  /\ started' = None /\ lastPts' = 0 /\ lastAudio' = None
  /\ audioType' = DefaultType /\ emitted' = FALSE
  /\ expect' = [p \in Pids |-> None]
  /\ UNCHANGED <<time, pes, wire, lost, got>>

------------------------------------------------------------------------------
(* _packetize_pes: one turn of its loop. *)

NeedsPcr == first /\ pcr

PayloadPastPcr == Smaller(left, IF NeedsPcr THEN 178 ELSE 184)
\* What fits beside the header and, in a first video packet, the PCR.
Payload == Smaller(left, IF NeedsPcr THEN 176 ELSE 184)

HasAdaptation == NeedsPcr \/ Payload < 184

\* The adaptation field: its length byte and its body.  The body with a PCR
\* takes seven bytes even if adaptation_length leaves room for fewer.
AdaptationBody ==
  IF NeedsPcr THEN Larger(7, 183 - Payload) ELSE 183 - Payload

Adaptation == IF HasAdaptation THEN 1 + AdaptationBody ELSE 0

Packet ==
  /\ ~Idle
  /\ wire' = [payload |-> Payload, adaptation |-> Adaptation,
              length |-> 4 + Adaptation + Payload]
  /\ left' = left - Payload
  /\ first' = FALSE
  /\ continuity' = Counted(continuity, pid)
  /\ expect' = [expect EXCEPT ![pid] = Expects(continuity[pid])]
  /\ lost' = (lost \/ Gap(pid))
  /\ got' = got + Payload
  /\ UNCHANGED <<time, stamps, tables, pid, pcr, size>>

\* PES_packet_length; zero means that the length is not given.
Declared ==
  IF pid = "audio" /\ size + 8 <= MaxBounded THEN size + 8 ELSE 0

Next ==
  \/ Tick \/ AudioLost \/ CameraReconnects
  \/ \E n \in Sizes : \/ \E key \in BOOLEAN : MuxVideo(n, key)
                      \/ \E type \in Types : MuxAudio(n, type)
  \/ Packet \/ Reset

Spec == Init /\ [][Next]_vars

------------------------------------------------------------------------------
(* Properties *)

\* Every packet has exactly 188 bytes and carries some of its PES, whatever
\* the size of the access unit: the RuntimeError of _packetize_pes (line 434)
\* that would end the producer is never raised.
PacketsWhole ==
  wire # None => wire.length = 188 /\ wire.payload > 0 /\ wire.adaptation <= 184

\* What the receiver has and what is left are the whole PES; at the end it
\* has as many bytes as the length field of an audio PES promised.
PesWhole ==
  /\ got + left = size + (IF size = 0 THEN 0 ELSE PesHeader)
  /\ Idle /\ Declared # 0 => got = Declared + 6

\* A demultiplexer that gets every packet never believes that one is missing,
\* across tables, both streams and the counter's wrap.
Continuous == ~lost

\* Delays do not add up: however unevenly audio arrives, and across lost
\* frames and reconnects, its timestamps stay within one Delay of the clock.
AudioOnTime ==
  lastAudio # None => started # None /\ lastAudio + started <= clock + Delay
==============================================================================
