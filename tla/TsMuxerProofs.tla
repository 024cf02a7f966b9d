---------------------------- MODULE TsMuxerProofs ----------------------------
(***************************************************************************)
(* Proofs about TsMuxer for access units of every size, for every spacing  *)
(* of audio frames and for every delay.                                    *)
(***************************************************************************)
EXTENDS TsMuxer, TLAPS

USE DEF Pids, Idle, Larger, Smaller, PesHeader

\* What the receiver waits for is what the muxer counts.
Counts == \A p \in Pids : expect[p] = None \/ expect[p] = continuity[p]

\* A PES in progress, and what was left of the one before it.
Job ==
  /\ got + left = size + (IF size = 0 THEN 0 ELSE PesHeader)
  /\ size = 0 => left = 0 /\ pid = "video"

\* An audio timestamp is at most one delay behind the camera's own schedule,
\* whichever frame was the last: lastAudio + FrameTicks stands for the next.
Schedule ==
  /\ started # None => started <= clock
  /\ lastAudio # None => started # None
  /\ due <= clock + FrameTicks /\ clock <= due + Delay
  /\ lastAudio # None => /\ lastAudio + started + FrameTicks <= due + Delay
                         /\ lastAudio + started <= clock + Delay

Inductive == TypeOK /\ PacketsWhole /\ Continuous /\ Counts /\ Job /\ Schedule

------------------------------------------------------------------------------
\* _next_continuity stays in four bits and counts as a demultiplexer does.
LEMMA NextCountIsExpected ==
  ASSUME NEW n \in 0..15
  PROVE  NextCount(n) \in 0..15 /\ NextCount(n) = Expects(n)
  BY DEF NextCount, Expects

\* _packetize_pes: header, adaptation field and payload always fill a packet,
\* and the body of an adaptation field with a PCR has room for the PCR.
LEMMA PacketFills ==
  ASSUME left \in Nat \ {0}, first \in BOOLEAN, pcr \in BOOLEAN
  PROVE  /\ Payload \in 1..184 /\ Payload <= left
         /\ Adaptation \in 0..184
         /\ 4 + Adaptation + Payload = 188
  BY DEF Payload, Adaptation, AdaptationBody, HasAdaptation, NeedsPcr

\* Sending the tables keeps both sides' counts equal and in range.
LEMMA TablesAreCounted ==
  ASSUME RangesOK, Counts, ~lost, SendTables
  PROVE  /\ continuity' \in [Pids -> 0..15]
         /\ expect' \in [Pids -> 0..15 \cup {None}]
         /\ Counts' /\ ~lost'
  <1>1. /\ continuity["pat"] \in 0..15 /\ continuity["pmt"] \in 0..15
    BY DEF RangesOK
  <1>2. /\ NextCount(continuity["pat"]) = Expects(continuity["pat"])
        /\ NextCount(continuity["pmt"]) = Expects(continuity["pmt"])
        /\ NextCount(continuity["pat"]) \in 0..15
        /\ NextCount(continuity["pmt"]) \in 0..15
    BY <1>1, NextCountIsExpected
  <1>3. continuity' = [continuity EXCEPT !["pat"] = NextCount(continuity["pat"]),
                                         !["pmt"] = NextCount(continuity["pmt"])]
    BY DEF SendTables, Counted, RangesOK
  <1>4. continuity' \in [Pids -> 0..15]
    BY <1>2, <1>3 DEF RangesOK
  <1>5. expect' \in [Pids -> 0..15 \cup {None}]
    BY <1>2 DEF SendTables, RangesOK
  <1>6. Counts'
    BY <1>2, <1>3 DEF SendTables, Counts, RangesOK
  <1>7. ~lost'
    BY DEF SendTables, Gap, Counts
  <1> QED BY <1>4, <1>5, <1>6, <1>7

------------------------------------------------------------------------------

\* A muxer starts without a PES under way.
LEMMA InitInductive == Init => Inductive
  <1> SUFFICES ASSUME Init PROVE Inductive
    OBVIOUS
  <1>1. FlagsOK
    BY DEF Init, FlagsOK
  <1>2. RangesOK
    BY MuxerAssumption DEF Init, RangesOK
  <1>3. PacketsWhole /\ Continuous /\ Counts /\ Job /\ Schedule
    BY MuxerAssumption DEF Init, PacketsWhole, Continuous, Counts, Job, Schedule
  <1> QED BY <1>1, <1>2, <1>3 DEF Inductive, TypeOK

\* The flags stay Boolean.
LEMMA FlagsStep == FlagsOK /\ [Next]_vars => FlagsOK'
  <1> SUFFICES ASSUME FlagsOK, [Next]_vars PROVE FlagsOK'
    OBVIOUS
  <1>1. CASE Tick \/ AudioLost \/ CameraReconnects \/ UNCHANGED vars
    BY <1>1 DEF Tick, AudioLost, CameraReconnects, vars, FlagsOK, tables, pes, receiver
  <1>2. ASSUME NEW n \in Sizes, NEW key \in BOOLEAN, MuxVideo(n, key) PROVE FlagsOK'
    BY <1>2, MuxerAssumption DEF MuxVideo, BeginPes, SendTables, Gap, FlagsOK
  <1>3. ASSUME NEW n \in Sizes, NEW type \in Types, MuxAudio(n, type) PROVE FlagsOK'
    BY <1>3 DEF MuxAudio, BeginPes, SendTables, Gap, FlagsOK
  <1>4. CASE Packet
    BY <1>4 DEF Packet, Gap, FlagsOK, tables
  <1>5. CASE Reset
    BY <1>5 DEF Reset, FlagsOK, pes
  <1> QED BY <1>1, <1>2, <1>3, <1>4, <1>5 DEF Next

\* Origin and Elapsed are in range while the clock has not run backwards.
LEMMA ElapsedRange ==
  ASSUME RangesOK, Schedule
  PROVE  /\ Origin \in Nat /\ Origin <= clock
         /\ Elapsed \in Nat /\ Elapsed + Origin = clock
         /\ started # None => Origin = started
  BY DEF RangesOK, Schedule, Origin, Elapsed

\* Every packet, access unit, tick and fault of the world.
LEMMA StepInductive == Inductive /\ [Next]_vars => Inductive'
  <1> SUFFICES ASSUME Inductive, [Next]_vars PROVE Inductive'
    OBVIOUS
  <1> USE MuxerAssumption
  <1>f. FlagsOK'
    BY FlagsStep DEF Inductive, TypeOK
  <1>0. /\ FlagsOK /\ RangesOK /\ PacketsWhole /\ Continuous /\ Counts /\ Job /\ Schedule
    BY DEF Inductive, TypeOK
  <1>1. CASE Tick
    BY <1>f, <1>0, <1>1 DEF Tick, Inductive, TypeOK, RangesOK, PacketsWhole, Continuous,
        Counts, Job,
                      Schedule, Gap, stamps, tables, pes, receiver
  <1>2. CASE AudioLost
    BY <1>f, <1>0, <1>2 DEF AudioLost, Inductive, TypeOK, RangesOK, PacketsWhole,
        Continuous, Counts, Job,
                      Schedule, stamps, tables, pes, receiver
  <1>3. CASE CameraReconnects
    BY <1>f, <1>0, <1>3 DEF CameraReconnects, Inductive, TypeOK, RangesOK, PacketsWhole,
        Continuous,
                      Counts, Job, Schedule, stamps, tables, pes, receiver
  <1>4. ASSUME NEW n \in Sizes, NEW key \in BOOLEAN, MuxVideo(n, key)
        PROVE  Inductive'
    <2>1. /\ continuity' \in [Pids -> 0..15]
          /\ expect' \in [Pids -> 0..15 \cup {None}]
          /\ Counts' /\ ~lost'
      <3>1. CASE key
        BY <1>0, <1>4, <3>1, TablesAreCounted DEF MuxVideo, Continuous
      <3>2. CASE ~key
        BY <1>0, <1>4, <3>2 DEF MuxVideo, Continuous, Counts, RangesOK
      <3> QED BY <3>1, <3>2
    <2>3. /\ pid' = "video" /\ size' = n /\ left' = n + 14
          /\ first' = TRUE /\ pcr' = TRUE /\ got' = 0
      BY <1>4 DEF MuxVideo, BeginPes
    <2>4. /\ started' = Origin /\ lastPts' = Larger(Elapsed, lastPts + 1)
          /\ clock' = clock /\ due' = due /\ lastAudio' = lastAudio
          /\ audioType' = audioType /\ wire' = wire
      BY <1>4 DEF MuxVideo, time
    <2>5. RangesOK'
      BY <1>0, <2>1, <2>3, <2>4, ElapsedRange DEF RangesOK
    <2>6. PacketsWhole' /\ Continuous' /\ Job'
      BY <1>0, <2>1, <2>3, <2>4 DEF PacketsWhole, Continuous, Job
    <2>7. Schedule'
      BY <1>0, <2>4, ElapsedRange DEF Schedule, RangesOK
    <2> QED BY <1>f, <2>1, <2>5, <2>6, <2>7 DEF Inductive, TypeOK
  <1>5. ASSUME NEW n \in Sizes, NEW type \in Types, MuxAudio(n, type)
        PROVE  Inductive'
    <2>1. /\ continuity' \in [Pids -> 0..15]
          /\ expect' \in [Pids -> 0..15 \cup {None}]
          /\ Counts' /\ ~lost'
      <3>1. CASE type # audioType \/ ~emitted
        BY <1>0, <1>5, <3>1, TablesAreCounted DEF MuxAudio, Continuous
      <3>2. CASE ~(type # audioType \/ ~emitted)
        BY <1>0, <1>5, <3>2 DEF MuxAudio, Continuous, Counts, RangesOK
      <3> QED BY <3>1, <3>2
    <2>3. /\ pid' = "audio" /\ size' = n /\ left' = n + 14
          /\ first' = TRUE /\ pcr' = FALSE /\ got' = 0
      BY <1>5 DEF MuxAudio, BeginPes
    <2>4. /\ started' = Origin /\ lastAudio' = AudioPts
          /\ clock >= due /\ clock' = clock /\ due' = due + FrameTicks
          /\ lastPts' = lastPts /\ audioType' = type /\ emitted' = TRUE
          /\ wire' = wire
      BY <1>5 DEF MuxAudio
    <2>5. AudioPts \in Nat /\ AudioPts + Origin + FrameTicks <= due + FrameTicks + Delay
      BY <1>0, ElapsedRange DEF AudioPts, Schedule, RangesOK
    <2>6. RangesOK'
      BY <1>0, <2>1, <2>3, <2>4, <2>5, ElapsedRange DEF RangesOK
    <2>7. PacketsWhole' /\ Continuous' /\ Job'
      BY <1>0, <2>1, <2>3, <2>4 DEF PacketsWhole, Continuous, Job
    <2>8. Schedule'
      BY <1>0, <2>4, <2>5, ElapsedRange DEF Schedule, RangesOK
    <2> QED BY <1>f, <2>1, <2>6, <2>7, <2>8 DEF Inductive, TypeOK
  <1>6. CASE Packet
    <2>1. /\ Payload \in 1..184 /\ Payload <= left
          /\ Adaptation \in 0..184 /\ 4 + Adaptation + Payload = 188
      BY <1>0, <1>6, PacketFills DEF Packet, FlagsOK, RangesOK
    <2>2. /\ pid \in Pids /\ continuity[pid] \in 0..15
          /\ NextCount(continuity[pid]) \in 0..15
          /\ NextCount(continuity[pid]) = Expects(continuity[pid])
      BY <1>0, NextCountIsExpected DEF RangesOK
    <2>3. /\ continuity' = [continuity EXCEPT ![pid] = NextCount(continuity[pid])]
          /\ expect' = [expect EXCEPT ![pid] = Expects(continuity[pid])]
          /\ left' = left - Payload /\ got' = got + Payload /\ first' = FALSE
          /\ wire' = [payload |-> Payload, adaptation |-> Adaptation,
                      length |-> 4 + Adaptation + Payload]
      BY <1>0, <1>6 DEF Packet, Counted, RangesOK
    <2>4. UNCHANGED <<clock, due, started, lastPts, lastAudio, audioType, emitted,
                      pid, pcr, size>>
      BY <1>6 DEF Packet, time, stamps, tables
    <2>5. ~lost'
      BY <1>0, <1>6, <2>2 DEF Packet, Gap, Counts, Continuous
    <2>6. Counts'
      BY <1>0, <2>2, <2>3 DEF Counts, RangesOK
    <2>7. continuity' \in [Pids -> 0..15] /\ expect' \in [Pids -> 0..15 \cup {None}]
      BY <1>0, <2>2, <2>3 DEF RangesOK
    <2>8. wire' \in Packets /\ PacketsWhole'
      BY <2>1, <2>3 DEF Packets, PacketsWhole
    <2>9. Job' /\ left' \in Nat /\ got' \in Nat
      BY <1>0, <2>1, <2>3, <2>4 DEF Job, RangesOK
    <2>10. RangesOK'
      BY <1>0, <2>3, <2>4, <2>5, <2>7, <2>8, <2>9 DEF RangesOK
    <2>11. Schedule'
      BY <1>0, <2>4 DEF Schedule
    <2> QED BY <1>f, <2>5, <2>6, <2>8, <2>9, <2>10, <2>11 DEF Inductive, TypeOK, Continuous
  <1>7. CASE UNCHANGED vars
    BY <1>f, <1>0, <1>7 DEF vars, Inductive, TypeOK, RangesOK, PacketsWhole, Continuous,
        Counts, Job,
                      Schedule
  <1>8. CASE Reset
    BY <1>f, <1>0, <1>8 DEF Reset, Inductive, TypeOK, RangesOK, PacketsWhole, Continuous,
                      Counts, Job, Schedule, time, pes
  <1> QED BY <1>1, <1>2, <1>3, <1>4, <1>5, <1>6, <1>7, <1>8 DEF Next

------------------------------------------------------------------------------

\* The strengthening holds in every reachable state.
LEMMA AlwaysInductive == Spec => []Inductive
  BY InitInductive, StepInductive, PTL DEF Spec

\* Every variable of the muxer and of its receiver keeps its range.
THEOREM TypeCorrectness == Spec => []TypeOK
  <1>1. Inductive => TypeOK
    BY DEF Inductive
  <1> QED BY <1>1, AlwaysInductive, PTL

\* _packetize_pes never raises its RuntimeError: every packet has 188 bytes.
THEOREM PacketsAreWhole == Spec => []PacketsWhole
  <1>1. Inductive => PacketsWhole
    BY DEF Inductive
  <1> QED BY <1>1, AlwaysInductive, PTL

\* The receiver gets every byte of a PES and as many as its length says.
THEOREM PesIsWhole == Spec => []PesWhole
  <1>1. Inductive => PesWhole
    BY DEF Inductive, TypeOK, RangesOK, PesWhole, Job, Declared
  <1> QED BY <1>1, AlwaysInductive, PTL

\* The receiver never counts a packet as missing.
THEOREM NothingSeemsLost == Spec => []Continuous
  <1>1. Inductive => Continuous
    BY DEF Inductive
  <1> QED BY <1>1, AlwaysInductive, PTL

\* Audio timestamps stay within one network delay of the clock.
THEOREM AudioStaysOnTime == Spec => []AudioOnTime
  <1>1. Inductive => AudioOnTime
    BY DEF Inductive, Schedule, AudioOnTime
  <1> QED BY <1>1, AlwaysInductive, PTL
==============================================================================
