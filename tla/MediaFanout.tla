----------------------------- MODULE MediaFanout -----------------------------
(***************************************************************************)
(* The media path of H264LoopbackServer (runtime/stream.py): access units  *)
(* of the one producer are packetized once and put on a bounded queue per  *)
(* viewer; a viewer that joins late starts from the cached group of        *)
(* pictures.  Each publish call is one step: it never awaits.              *)
(*                                                                         *)
(* A payload is what the properties tell apart: the access unit it holds   *)
(* (producer, helper session and number), the access units its parameter   *)
(* sets were taken from and the audio codec its tables declare.  seen is   *)
(* the decoder at the other end of each connection.                        *)
(***************************************************************************)
EXTENDS Naturals, Sequences, SequencesExt, FiniteSets

CONSTANTS
  Clients,       \* connections with an accepted request
  MaxSession,    \* bound: helper sessions
  MaxUnit,       \* bound: access units of one session
  Depth,         \* _SUBSCRIBER_QUEUE_DEPTH
  GopLimit,      \* _MAX_GOP_BYTES, in payloads
  Nals,          \* the parameter set NAL types: 7 and 8
  Codecs,        \* audio stream types the camera may send
  DefaultCodec,  \* _TS_STREAM_AAC_ADTS
  None

AccessUnits == [producer : 1..MaxSession, session : 1..MaxSession, n : 1..MaxUnit]

ASSUME FanoutAssumption ==
  /\ MaxSession \in Nat \ {0} /\ MaxUnit \in Nat
  /\ Depth \in Nat \ {0} /\ GopLimit \in Nat \ {0}
  /\ None \notin AccessUnits \cup Codecs \cup {DefaultCodec}

VARIABLES
  session,   \* the helper session that produces now
  producer,  \* history: the session its producer began with, after reset_media
  unit,      \* access units it has produced
  stored,    \* _parameter_sets: the access unit kept for each NAL type
  gop,       \* _gop
  healthy,   \* _healthy
  sub,       \* _subscribers: "no", "waiting" or "ready"
  queue,     \* each viewer's queue of writes; the sentinel None is <<>>
  seen,      \* the viewer's decoder
  codec,     \* the muxer's _audio_stream_type
  declared   \* the muxer's _audio_tables_emitted

vars == <<session, producer, unit, stored, gop, healthy, sub, queue, seen, codec,
          declared>>
media == <<stored, gop, healthy, codec, declared>>

Video ==
  [kind : {"key", "delta"}, unit : AccessUnits,
   sets : [Nals -> AccessUnits \cup {None}], table : Codecs \cup {DefaultCodec, None}]

Audio == [kind : {"audio"}, codec : Codecs, table : Codecs \cup {None}]

Payload == Video \cup Audio

Decoder == [last : AccessUnits \cup {None}, table : Codecs \cup {DefaultCodec, None},
            gap : BOOLEAN, garbled : BOOLEAN, late : BOOLEAN]

Blank == [last |-> None, table |-> None, gap |-> FALSE, garbled |-> FALSE,
          late |-> FALSE]

TypeOK ==
  /\ session \in 1..MaxSession /\ producer \in 1..session /\ unit \in 0..MaxUnit
  /\ stored \in [Nals -> AccessUnits \cup {None}]
  /\ gop \in Seq(Video) /\ Len(gop) <= GopLimit
  /\ healthy \in BOOLEAN /\ declared \in BOOLEAN
  /\ sub \in [Clients -> {"no", "waiting", "ready"}]
  /\ queue \in [Clients -> Seq(Seq(Payload))]
  /\ \A c \in Clients : Len(queue[c]) <= Depth
  /\ seen \in [Clients -> Decoder]
  /\ codec \in Codecs \cup {DefaultCodec}

Init ==
  /\ session = 1 /\ producer = 1 /\ unit = 0
  /\ stored = [t \in Nals |-> None]
  /\ gop = <<>> /\ healthy = FALSE
  /\ sub = [c \in Clients |-> "no"]
  /\ queue = [c \in Clients |-> <<>>]
  /\ seen = [c \in Clients |-> Blank]
  /\ codec = DefaultCodec /\ declared = FALSE

------------------------------------------------------------------------------
(* What a player makes of the payloads it is sent. *)

OwnSets(p) ==
  \A t \in Nals : p.sets[t] # None /\ p.sets[t].producer = p.unit.producer

\* A delta picture refers to the access unit before it, within its session.
Follows(u, before) ==
  /\ before # None /\ before.producer = u.producer
  /\ before.session = u.session => before.n + 1 = u.n

Watch(d, p) ==
  CASE p.kind = "key" ->
         [d EXCEPT !.last = p.unit, !.table = p.table, !.late = FALSE,
                   !.garbled = @ \/ (d.last = None /\ ~OwnSets(p))]
    [] p.kind = "delta" ->
         [d EXCEPT !.last = p.unit, !.gap = @ \/ ~Follows(p.unit, d.last)]
    [] OTHER ->
         IF p.table = None THEN d
         ELSE [d EXCEPT !.table = p.table, !.late = FALSE]

\* The decoder d once it has been given the payloads ps, one after another.
WatchAll(d, ps) ==
  LET after[i \in Nat] == IF i = 0 THEN d ELSE Watch(after[i - 1], ps[i])
  IN  after[Len(ps)]

\* The decoder d once it has been given a queue of writes, one after another.
CatchUp(d, writes) ==
  LET after[i \in Nat] == IF i = 0 THEN d ELSE WatchAll(after[i - 1], writes[i])
  IN  after[Len(writes)]

Ahead(c) == CatchUp(seen[c], queue[c])

------------------------------------------------------------------------------
(* The producer. *)

ResetMedia ==
  /\ stored' = [t \in Nals |-> None]
  /\ gop' = <<>> /\ healthy' = FALSE
  /\ codec' = DefaultCodec /\ declared' = FALSE

\* _async_stream_client_connected starts a producer: reset_media comes first.
NewProducer ==
  /\ session < MaxSession
  /\ session' = session + 1 /\ producer' = session + 1 /\ unit' = 0
  /\ ResetMedia
  /\ UNCHANGED <<sub, queue, seen>>

\* _async_stream_loop goes round again: the next helper session starts.
Reconnect ==
  /\ session < MaxSession
  /\ session' = session + 1 /\ unit' = 0
  /\ UNCHANGED <<producer, media, sub, queue, seen>>

\* put_nowait to every subscriber of to[c] # <<>>, dropping those that are full.
Full(c) == Len(queue[c]) = Depth

OfferUntilFull(to) ==
  LET given == {c \in Clients : to[c] # <<>>}
      slow  == {c \in given : Full(c)}
      fed   == IF slow = {} THEN given ELSE {}
  IN  /\ queue' = [c \in Clients |->
                     IF c \in slow THEN << <<>> >>
                     ELSE IF c \in fed THEN Append(queue[c], to[c]) ELSE queue[c]]
      /\ sub' = [c \in Clients |->
                   IF c \in slow THEN "no" ELSE IF c \in fed THEN "ready" ELSE sub[c]]

Offer(to) ==
  LET given == {c \in Clients : to[c] # <<>>}
      slow  == {c \in given : Full(c)}
  IN  /\ queue' = [c \in Clients |->
                     IF c \in slow THEN << <<>> >>
                     ELSE IF c \in given THEN Append(queue[c], to[c])
                     ELSE queue[c]]
      /\ sub' = [c \in Clients |->
                   IF c \in slow THEN "no"
                   ELSE IF c \in given THEN "ready" ELSE sub[c]]

\* A subscriber that is not ready starts with a healthy group of pictures.
StartAny(p, starts) ==
  [c \in Clients |->
     CASE sub[c] = "ready" -> <<p>> [] sub[c] = "waiting" -> gop' [] OTHER -> <<>>]
Recipients(p, starts) ==
  [c \in Clients |->
     CASE sub[c] = "ready"              -> <<p>>
       [] sub[c] = "waiting" /\ starts  -> gop'
       [] OTHER                         -> <<>>]

KeyUnit(u, sets) ==
  LET p == [kind |-> "key", unit |-> u, sets |-> sets,
            table |-> IF Codecs = {} THEN None ELSE codec]
  IN  /\ gop' = <<p>>
      /\ healthy' = (\A t \in Nals : sets[t] # None)
      /\ declared' = (Codecs # {})
      /\ Offer(Recipients(p, healthy'))

CacheAnyway == TRUE
Cached == gop # <<>>

\* Nothing is cached until a key frame, nor between an overflow and the next.
DeltaUnit(u, sets) ==
  LET p == [kind |-> "delta", unit |-> u, sets |-> sets, table |-> None]
  IN  /\ IF Cached /\ Len(gop) < GopLimit
         THEN gop' = Append(gop, p) /\ Offer(Recipients(p, FALSE))
         ELSE gop' = <<>> /\ UNCHANGED <<sub, queue>>
      /\ UNCHANGED <<healthy, declared>>

\* async_publish of an access unit that carries the parameter sets nals.
Publish(key, nals) ==
  /\ unit < MaxUnit
  /\ unit' = unit + 1
  /\ LET u    == [producer |-> producer, session |-> session, n |-> unit + 1]
         sets == [t \in Nals |-> IF t \in nals THEN u ELSE stored[t]]
     IN  /\ stored' = sets
         /\ IF key THEN KeyUnit(u, sets) ELSE DeltaUnit(u, sets)
  /\ UNCHANGED <<session, producer, seen, codec>>

KeepTables(t) == ~declared
NewTables(t) == t # codec \/ ~declared

\* async_publish_audio: only while the video is healthy, only to ready ones.
PublishAudio(t) ==
  /\ healthy
  /\ LET p == [kind |-> "audio", codec |-> t,
               table |-> IF NewTables(t) THEN t ELSE None]
     IN  Offer(Recipients(p, FALSE))
  /\ codec' = t /\ declared' = TRUE
  /\ UNCHANGED <<session, producer, unit, stored, gop, healthy, seen>>

------------------------------------------------------------------------------
(* The viewers. *)

\* A handler after its response headers: the cached group goes out directly.
Join(c) ==
  /\ sub[c] = "no" /\ queue[c] = <<>> /\ seen[c] = Blank
  /\ LET start == Cached /\ healthy
         from  == WatchAll(Blank, gop)
     IN  /\ sub' = [sub EXCEPT ![c] = IF start THEN "ready" ELSE "waiting"]
         /\ seen' = [seen EXCEPT ![c] =
                       IF start THEN [from EXCEPT !.late = from.table # codec]
                                ELSE Blank]
  /\ UNCHANGED <<session, producer, unit, media, queue>>

\* A handler takes the next write off its queue and sends it.
Send(c) ==
  /\ queue[c] # <<>> /\ Head(queue[c]) # <<>>
  /\ seen' = [seen EXCEPT ![c] = WatchAll(@, Head(queue[c]))]
  /\ queue' = [queue EXCEPT ![c] = Tail(@)]
  /\ UNCHANGED <<session, producer, unit, media, sub>>

\* The sentinel, a failed or late write, or the viewer's own disconnect.
Close(c) ==
  /\ sub[c] # "no" \/ queue[c] # <<>>
  /\ sub' = [sub EXCEPT ![c] = "no"]
  /\ queue' = [queue EXCEPT ![c] = <<>>]
  /\ seen' = [seen EXCEPT ![c] = Blank]
  /\ UNCHANGED <<session, producer, unit, media>>

Next ==
  \/ NewProducer \/ Reconnect
  \/ \E key \in BOOLEAN, nals \in SUBSET Nals : Publish(key, nals)
  \/ \E t \in Codecs : PublishAudio(t)
  \/ \E c \in Clients : Join(c) \/ Send(c) \/ Close(c)

Spec == Init /\ [][Next]_vars

------------------------------------------------------------------------------
(* Properties *)

\* No viewer is ever sent a delta picture without the access unit it refers
\* to: not after joining late, not after the cache overflowed, not when
\* another viewer was dropped, not when its producer was replaced.  Only a
\* reconnect inside the producer loop may break the chain (Follows asks for no
\* continuity between two sessions of one producer).
DeltasFollow == \A c \in Clients : ~seen[c].gap

\* The first picture a viewer gets is a key frame with both parameter sets of
\* its own producer, whether it comes from the cache or from the queue.
StartsDecodable == \A c \in Clients : ~seen[c].garbled

\* Every ready viewer, however slow, has been given the newest cached picture:
\* a full queue costs only its own viewer its place.
InStep ==
  \A c \in Clients :
    sub[c] = "ready" /\ gop # <<>> => Ahead(c).last = Last(gop).unit

\* A ready viewer's tables declare the audio it gets, until the next key frame
\* of one that joined late, from a cached key frame older than the codec.
SoundDeclared ==
  /\ TypeOK
  /\ \A c \in Clients :
       sub[c] = "ready" /\ healthy /\ declared
         => Ahead(c).table = codec \/ Ahead(c).late
==============================================================================
