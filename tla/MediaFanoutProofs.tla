-------------------------- MODULE MediaFanoutProofs --------------------------
(***************************************************************************)
(* Proofs about MediaFanout.                                               *)
(***************************************************************************)
EXTENDS MediaFanout, WellFoundedInduction, TLAPS

\* Induction over the naturals, for a set of them: the least number outside T
\* would have a predecessor in T.
LEMMA SetInduction ==
  ASSUME NEW T, 0 \in T, \A n \in Nat : n \in T => n + 1 \in T
  PROVE  Nat \subseteq T
<1> DEFINE Missing == Nat \ T
           Less == {p \in Nat \X Nat : p[1] < p[2]}
<1> SUFFICES ASSUME Missing # {} PROVE FALSE
  OBVIOUS
<1>1. IsWellFoundedOn(Less, Nat)
  BY NatLessThanWellFounded DEF OpToRel
<1>2. Missing \subseteq Nat
  OBVIOUS
<1>3. PICK m \in Missing : \A y \in Missing : <<y, m>> \notin Less
  <2> HIDE DEF Missing, Less
  <2> QED BY <1>1, <1>2, WFMin
<1>4. m \in Nat /\ m # 0 /\ m - 1 \in Nat /\ m - 1 + 1 = m
  OBVIOUS
<1>5. <<m - 1, m>> \in Less
  BY <1>4
<1>6. m - 1 \in T
  BY <1>3, <1>4, <1>5
<1> QED BY <1>4, <1>6

------------------------------------------------------------------------------
(* The decoder, payload by payload and write by write. *)

\* One step of a fold over s: WatchAll takes payloads, CatchUp fold writes.
Take(fold, d, x) == IF fold = "CatchUp" THEN WatchAll(d, x) ELSE Watch(d, x)

\* A whole run of the fold over s, from d, and its first n steps.
IsRun(f, fold, d, s) ==
  f = [i \in Nat |-> IF i = 0 THEN d ELSE Take(fold, f[i - 1], s[i])]

Runs(f, fold, d, s, n) ==
  \A i \in 0..n : f[i] = IF i = 0 THEN d ELSE Take(fold, f[i - 1], s[i])

\* Two runs over sequences that agree up to n agree up to n.
LEMMA RunsAgree ==
  ASSUME NEW f, NEW g, NEW fold, NEW d, NEW s, NEW r, NEW n \in Nat,
         Runs(f, fold, d, s, n), Runs(g, fold, d, r, n),
         \A i \in 1..n : s[i] = r[i]
  PROVE  \A i \in 0..n : f[i] = g[i]
<1> DEFINE T == {i \in Nat : i <= n => f[i] = g[i]}
<1>1. 0 \in T
  BY DEF Runs
<1>2. ASSUME NEW i \in Nat, i \in T PROVE i + 1 \in T
  <2> SUFFICES ASSUME i + 1 <= n PROVE f[i + 1] = g[i + 1]
    OBVIOUS
  <2>1. i + 1 \in 0..n /\ i + 1 \in 1..n /\ i + 1 # 0 /\ i + 1 - 1 = i
    OBVIOUS
  <2>2. f[i] = g[i] /\ s[i + 1] = r[i + 1]
    BY <1>2, <2>1
  <2>3. /\ f[i + 1] = Take(fold, f[i], s[i + 1])
        /\ g[i + 1] = Take(fold, g[i], r[i + 1])
    BY <2>1 DEF Runs
  <2> QED BY <2>2, <2>3
<1>3. Nat \subseteq T
  <2> HIDE DEF T
  <2> QED BY <1>1, <1>2, SetInduction
<1> QED BY <1>3

\* The recursive functions in WatchAll and CatchUp exist.
LEMMA RunExists ==
  ASSUME NEW fold, NEW d, NEW s
  PROVE  \E f : IsRun(f, fold, d, s)
<1> DEFINE T == {n \in Nat : \E f : Runs(f, fold, d, s, n)}
           Run(n) == CHOOSE f : Runs(f, fold, d, s, n)
           F == [i \in Nat |-> Run(i)[i]]
<1>1. 0 \in T
  <2>1. Runs([i \in {0} |-> d], fold, d, s, 0)
    BY DEF Runs
  <2> QED BY <2>1
<1>2. ASSUME NEW n \in Nat, n \in T PROVE n + 1 \in T
  <2>1. PICK f : Runs(f, fold, d, s, n)
    BY <1>2
  <2> DEFINE g == [i \in 0..(n + 1) |->
                     IF i <= n THEN f[i] ELSE Take(fold, f[n], s[n + 1])]
  <2>2. ASSUME NEW i \in 0..(n + 1)
        PROVE  g[i] = IF i = 0 THEN d ELSE Take(fold, g[i - 1], s[i])
    <3>1. CASE i <= n
      <4>1. i \in 0..n /\ g[i] = f[i] /\ (i # 0 => g[i - 1] = f[i - 1])
        BY <3>1
      <4> QED BY <4>1, <2>1 DEF Runs
    <3>2. CASE i = n + 1
      BY <3>2
    <3> QED BY <3>1, <3>2
  <2>3. Runs(g, fold, d, s, n + 1)
    BY <2>2 DEF Runs
  <2> QED BY <2>3
<1>3. Nat \subseteq T
  <2> HIDE DEF T
  <2> QED BY <1>1, <1>2, SetInduction
<1>4. \A n \in Nat : Runs(Run(n), fold, d, s, n)
  BY <1>3
<1>5. ASSUME NEW i \in Nat
      PROVE  F[i] = IF i = 0 THEN d ELSE Take(fold, F[i - 1], s[i])
  <2>1. CASE i = 0
    BY <2>1, <1>4 DEF Runs
  <2>2. CASE i # 0
    <3>1. i - 1 \in Nat /\ i - 1 \in 0..(i - 1) /\ i \in 0..i
      BY <2>2
    <3>2. Runs(Run(i), fold, d, s, i) /\ Runs(Run(i - 1), fold, d, s, i - 1)
      BY <1>4, <3>1
    <3>3. Runs(Run(i), fold, d, s, i - 1)
      BY <3>1, <3>2 DEF Runs
    <3>4. Run(i)[i - 1] = Run(i - 1)[i - 1]
      <4> HIDE DEF Run
      <4> QED BY <3>1, <3>2, <3>3, RunsAgree
    <3>5. Run(i)[i] = Take(fold, Run(i)[i - 1], s[i])
      BY <3>1, <3>2, <2>2 DEF Runs
    <3> HIDE DEF Run
    <3> QED BY <3>1, <3>4, <3>5, <2>2
  <2> QED BY <2>1, <2>2
<1> HIDE DEF Run
<1>6. F = [i \in Nat |-> F[i]]
  OBVIOUS
<1> HIDE DEF F
<1>7. IsRun(F, fold, d, s)
  BY <1>5, <1>6 DEF IsRun
<1> QED BY <1>7

\* WatchAll takes one step per payload.
LEMMA WatchAllRuns ==
  ASSUME NEW d, NEW s, Len(s) \in Nat
  PROVE  \E f : Runs(f, "WatchAll", d, s, Len(s)) /\ WatchAll(d, s) = f[Len(s)]
<1> DEFINE IsAfter(f) == f = [i \in Nat |-> IF i = 0 THEN d ELSE Watch(f[i - 1], s[i])]
           After == CHOOSE f : IsAfter(f)
<1>1. \E f : IsAfter(f)
  <2>1. PICK f : IsRun(f, "WatchAll", d, s)
    BY RunExists
  <2>2. IsAfter(f)
    BY <2>1, Zenon DEF IsRun, Take
  <2> QED BY <2>2
<1>2. IsAfter(After)
  <2> HIDE DEF IsAfter
  <2> QED BY <1>1
<1>3. WatchAll(d, s) = After[Len(s)]
  BY DEF WatchAll
<1>4. Runs(After, "WatchAll", d, s, Len(s))
  <2> HIDE DEF After
  <2> QED BY <1>2 DEF Runs, Take
<1> QED BY <1>3, <1>4

\* CatchUp takes one step per write.
LEMMA CatchUpRuns ==
  ASSUME NEW d, NEW s, Len(s) \in Nat
  PROVE  \E f : Runs(f, "CatchUp", d, s, Len(s)) /\ CatchUp(d, s) = f[Len(s)]
<1> DEFINE IsAfter(f) ==
             f = [i \in Nat |-> IF i = 0 THEN d ELSE WatchAll(f[i - 1], s[i])]
           After == CHOOSE f : IsAfter(f)
<1>1. \E f : IsAfter(f)
  <2>1. PICK f : IsRun(f, "CatchUp", d, s)
    BY RunExists
  <2>2. IsAfter(f)
    BY <2>1, Zenon DEF IsRun, Take
  <2> QED BY <2>2
<1>2. IsAfter(After)
  <2> HIDE DEF IsAfter
  <2> QED BY <1>1
<1>3. CatchUp(d, s) = After[Len(s)]
  BY DEF CatchUp
<1>4. Runs(After, "CatchUp", d, s, Len(s))
  <2> HIDE DEF After
  <2> QED BY <1>2 DEF Runs, Take
<1> QED BY <1>3, <1>4

\* Payload by payload: nothing, then one more at the end.
LEMMA WatchAllEmpty == ASSUME NEW d PROVE WatchAll(d, <<>>) = d
<1>1. PICK f : Runs(f, "WatchAll", d, <<>>, 0) /\ WatchAll(d, <<>>) = f[0]
  BY WatchAllRuns
<1> QED BY <1>1 DEF Runs

\* Watching one payload more is watching it after the others ...
LEMMA WatchAllAppend ==
  ASSUME NEW d, NEW S, NEW s \in Seq(S), NEW x \in S
  PROVE  WatchAll(d, Append(s, x)) = Watch(WatchAll(d, s), x)
<1> DEFINE n == Len(s)
           r == Append(s, x)
<1>1. n \in Nat /\ Len(r) = n + 1 /\ r[n + 1] = x /\ \A i \in 1..n : r[i] = s[i]
  OBVIOUS
<1> HIDE DEF n, r
<1>2. PICK f : Runs(f, "WatchAll", d, s, n) /\ WatchAll(d, s) = f[n]
  BY <1>1, WatchAllRuns DEF n
<1>3. PICK g : Runs(g, "WatchAll", d, r, n + 1) /\ WatchAll(d, r) = g[n + 1]
  <2>1. Len(r) \in Nat
    BY <1>1
  <2>2. PICK g : Runs(g, "WatchAll", d, r, Len(r)) /\ WatchAll(d, r) = g[Len(r)]
    BY <2>1, WatchAllRuns
  <2> QED BY <1>1, <2>2
<1>4. Runs(g, "WatchAll", d, r, n)
  BY <1>1, <1>3 DEF Runs
<1>5. g[n] = f[n]
  BY <1>1, <1>2, <1>4, RunsAgree
<1>6. g[n + 1] = Take("WatchAll", g[n + 1 - 1], r[n + 1])
  BY <1>1, <1>3 DEF Runs
<1>7. n + 1 - 1 = n
  BY <1>1
<1> QED BY <1>1, <1>2, <1>3, <1>5, <1>6, <1>7 DEF r, Take

\* ... and watching one payload is Watch.
LEMMA WatchAllOne ==
  ASSUME NEW d, NEW S, NEW x \in S PROVE WatchAll(d, <<x>>) = Watch(d, x)
<1>1. << >> \in Seq(S) /\ Append(<< >>, x) = <<x>>
  OBVIOUS
<1>2. WatchAll(d, Append(<< >>, x)) = Watch(WatchAll(d, << >>), x)
  BY <1>1, WatchAllAppend
<1> QED BY <1>1, <1>2, WatchAllEmpty

\* Write by write: nothing, one more at the end of the queue, and the first
\* write sent from its front.
LEMMA CatchUpEmpty == ASSUME NEW d PROVE CatchUp(d, <<>>) = d
<1>1. PICK f : Runs(f, "CatchUp", d, <<>>, 0) /\ CatchUp(d, <<>>) = f[0]
  BY CatchUpRuns
<1> QED BY <1>1 DEF Runs

\* A queue that grew by a write is caught up with by watching that write last ...
LEMMA CatchUpAppend ==
  ASSUME NEW d, NEW S, NEW s \in Seq(S), NEW x \in S
  PROVE  CatchUp(d, Append(s, x)) = WatchAll(CatchUp(d, s), x)
<1> DEFINE n == Len(s)
           r == Append(s, x)
<1>1. n \in Nat /\ Len(r) = n + 1 /\ r[n + 1] = x /\ \A i \in 1..n : r[i] = s[i]
  OBVIOUS
<1> HIDE DEF n, r
<1>2. PICK f : Runs(f, "CatchUp", d, s, n) /\ CatchUp(d, s) = f[n]
  BY <1>1, CatchUpRuns DEF n
<1>3. PICK g : Runs(g, "CatchUp", d, r, n + 1) /\ CatchUp(d, r) = g[n + 1]
  <2>1. Len(r) \in Nat
    BY <1>1
  <2>2. PICK g : Runs(g, "CatchUp", d, r, Len(r)) /\ CatchUp(d, r) = g[Len(r)]
    BY <2>1, CatchUpRuns
  <2> QED BY <1>1, <2>2
<1>4. Runs(g, "CatchUp", d, r, n)
  BY <1>1, <1>3 DEF Runs
<1>5. g[n] = f[n]
  BY <1>1, <1>2, <1>4, RunsAgree
<1>6. g[n + 1] = Take("CatchUp", g[n + 1 - 1], r[n + 1])
  BY <1>1, <1>3 DEF Runs
<1>7. n + 1 - 1 = n
  BY <1>1
<1> QED BY <1>1, <1>2, <1>3, <1>5, <1>6, <1>7 DEF r, Take

\* ... and Send, which takes the first one off it, leads to the same decoder.
LEMMA CatchUpSent ==
  ASSUME NEW d, NEW S, NEW s \in Seq(S), s # <<>>
  PROVE  CatchUp(WatchAll(d, Head(s)), Tail(s)) = CatchUp(d, s)
<1> DEFINE n == Len(s) - 1
           r == Tail(s)
<1>1. /\ n \in Nat /\ Len(s) = n + 1 /\ Len(r) = n /\ Head(s) = s[1]
      /\ \A i \in 1..n : r[i] = s[i + 1]
  OBVIOUS
<1> HIDE DEF n, r
<1>2. PICK f : Runs(f, "CatchUp", d, s, n + 1) /\ CatchUp(d, s) = f[n + 1]
  BY <1>1, CatchUpRuns
<1>3. f[1] = WatchAll(d, Head(s))
  <2>1. 1 \in 0..(n + 1) /\ 0 \in 0..(n + 1) /\ 1 - 1 = 0 /\ 1 # 0
    BY <1>1
  <2>2. f[0] = d /\ f[1] = Take("CatchUp", f[0], s[1])
    BY <1>2, <2>1 DEF Runs
  <2> QED BY <1>1, <2>2 DEF Take
<1>4. PICK g : Runs(g, "CatchUp", f[1], r, n) /\ CatchUp(f[1], r) = g[n]
  BY <1>1, CatchUpRuns
<1> DEFINE h == [i \in Nat |-> f[i + 1]]
<1>5. Runs(h, "CatchUp", f[1], r, n)
  <2> SUFFICES ASSUME NEW i \in 0..n
               PROVE  h[i] = IF i = 0 THEN f[1] ELSE Take("CatchUp", h[i - 1], r[i])
    BY DEF Runs
  <2>1. i \in Nat /\ i + 1 \in 0..(n + 1) /\ i + 1 # 0 /\ i + 1 - 1 = i
    BY <1>1
  <2>2. h[i] = f[i + 1] /\ f[i + 1] = Take("CatchUp", f[i], s[i + 1])
    BY <1>2, <2>1 DEF Runs
  <2>3. ASSUME i # 0 PROVE h[i - 1] = f[i] /\ r[i] = s[i + 1]
    <3>1. i \in 1..n /\ i - 1 \in Nat /\ i - 1 + 1 = i
      BY <1>1, <2>1, <2>3
    <3> QED BY <1>1, <3>1
  <2> HIDE DEF h
  <2> QED BY <2>2, <2>3, <1>1
<1>6. g[n] = h[n]
  <2> HIDE DEF h
  <2> QED BY <1>1, <1>4, <1>5, RunsAgree
<1> QED BY <1>1, <1>2, <1>3, <1>4, <1>6 DEF r

------------------------------------------------------------------------------
(* What each kind of payload does to the decoder. *)

\* A key frame replaces the picture and the tables; only a decoder that has
\* none can find its parameter sets wrong.
LEMMA WatchKey ==
  ASSUME NEW d \in Decoder, NEW p \in Video, p.kind = "key"
  PROVE  /\ Watch(d, p) \in Decoder
         /\ Watch(d, p).last = p.unit
         /\ Watch(d, p).table = p.table /\ Watch(d, p).late = FALSE
         /\ Watch(d, p).gap = d.gap
         /\ d.garbled => Watch(d, p).garbled
         /\ ~d.garbled /\ (d.last # None \/ OwnSets(p)) => ~Watch(d, p).garbled
<1> DEFINE bad == d.garbled \/ (d.last = None /\ ~OwnSets(p))
<1>1. Watch(d, p) = [last |-> p.unit, table |-> p.table, gap |-> d.gap,
                     garbled |-> bad, late |-> FALSE]
  BY DEF Watch, Decoder
<1>2. bad \in BOOLEAN
  OBVIOUS
<1>3. d.garbled => bad
  OBVIOUS
<1>4. ~d.garbled /\ (d.last # None \/ OwnSets(p)) => ~bad
  OBVIOUS
<1> HIDE DEF bad
<1>5. Watch(d, p) \in Decoder
  BY <1>1, <1>2 DEF Decoder, Video
<1> QED BY <1>1, <1>2, <1>3, <1>4, <1>5

\* A delta picture leaves a gap unless it follows the last picture.
LEMMA WatchDelta ==
  ASSUME NEW d \in Decoder, NEW p \in Video, p.kind = "delta"
  PROVE  /\ Watch(d, p) \in Decoder
         /\ Watch(d, p).last = p.unit
         /\ Watch(d, p).table = d.table /\ Watch(d, p).late = d.late
         /\ Watch(d, p).garbled = d.garbled
         /\ d.gap => Watch(d, p).gap
         /\ ~d.gap /\ Follows(p.unit, d.last) => ~Watch(d, p).gap
<1> DEFINE bad == d.gap \/ ~Follows(p.unit, d.last)
<1>1. Watch(d, p) = [last |-> p.unit, table |-> d.table, gap |-> bad,
                     garbled |-> d.garbled, late |-> d.late]
  BY DEF Watch, Decoder
<1>2. bad \in BOOLEAN
  OBVIOUS
<1>3. d.gap => bad
  OBVIOUS
<1>4. ~d.gap /\ Follows(p.unit, d.last) => ~bad
  OBVIOUS
<1> HIDE DEF bad
<1>5. Watch(d, p) \in Decoder
  BY <1>1, <1>2 DEF Decoder, Video
<1> QED BY <1>1, <1>2, <1>3, <1>4, <1>5

\* Sound leaves the picture alone and replaces the tables when it has some.
LEMMA WatchAudio ==
  ASSUME NEW d \in Decoder, NEW p \in Audio
  PROVE  /\ Watch(d, p) \in Decoder
         /\ Watch(d, p).last = d.last
         /\ Watch(d, p).gap = d.gap /\ Watch(d, p).garbled = d.garbled
         /\ p.table = None => Watch(d, p) = d
         /\ p.table # None => Watch(d, p).table = p.table /\ Watch(d, p).late = FALSE
<1>1. p.kind = "audio"
  BY DEF Audio
<1>2. CASE p.table = None
  BY <1>1, <1>2 DEF Watch
<1>3. CASE p.table # None
  <2>1. Watch(d, p) = [last |-> d.last, table |-> p.table, gap |-> d.gap,
                       garbled |-> d.garbled, late |-> FALSE]
    BY <1>1, <1>3 DEF Watch, Decoder
  <2>2. Watch(d, p) \in Decoder
    BY <2>1 DEF Decoder, Audio
  <2> QED BY <1>3, <2>1, <2>2
<1> QED BY <1>2, <1>3

\* The decoder e has seen at least what d has: what was wrong stays wrong.
Later(d, e) == e \in Decoder /\ (d.gap => e.gap) /\ (d.garbled => e.garbled)

\* A decoder keeps its types, and its defects, whatever it watches: a payload ...
LEMMA WatchKeeps ==
  ASSUME NEW d \in Decoder, NEW p \in Payload PROVE Later(d, Watch(d, p))
<1>1. CASE p \in Video /\ p.kind = "key"
  BY <1>1, WatchKey DEF Later
<1>2. CASE p \in Video /\ p.kind = "delta"
  BY <1>2, WatchDelta DEF Later
<1>3. CASE p \in Audio
  BY <1>3, WatchAudio DEF Later
<1> QED BY <1>1, <1>2, <1>3 DEF Payload, Video

\* ... a write ...
LEMMA WatchAllKeeps ==
  ASSUME NEW d \in Decoder, NEW s \in Seq(Payload) PROVE Later(d, WatchAll(d, s))
<1>1. PICK f : Runs(f, "WatchAll", d, s, Len(s)) /\ WatchAll(d, s) = f[Len(s)]
  BY WatchAllRuns
<1> DEFINE T == {i \in Nat : i <= Len(s) => Later(d, f[i])}
<1>2. 0 \in T
  BY <1>1 DEF Runs, Later
<1>3. ASSUME NEW i \in Nat, i \in T PROVE i + 1 \in T
  <2> SUFFICES ASSUME i + 1 <= Len(s) PROVE Later(d, f[i + 1])
    OBVIOUS
  <2>1. /\ i + 1 \in 0..Len(s) /\ i <= Len(s) /\ i + 1 # 0 /\ i + 1 - 1 = i
        /\ s[i + 1] \in Payload
    OBVIOUS
  <2>2. f[i + 1] = Watch(f[i], s[i + 1])
    BY <1>1, <2>1 DEF Runs, Take
  <2>3. Later(d, f[i])
    BY <1>3, <2>1
  <2>4. f[i] \in Decoder
    BY <2>3 DEF Later
  <2>5. Later(f[i], f[i + 1])
    BY <2>1, <2>2, <2>4, WatchKeeps
  <2> QED BY <2>3, <2>5 DEF Later
<1>4. Nat \subseteq T
  <2> HIDE DEF T
  <2> QED BY <1>2, <1>3, SetInduction
<1>5. Len(s) \in Nat
  OBVIOUS
<1> QED BY <1>1, <1>4, <1>5

\* ... or a queue of writes.
LEMMA CatchUpKeeps ==
  ASSUME NEW d \in Decoder, NEW s \in Seq(Seq(Payload))
  PROVE  Later(d, CatchUp(d, s))
<1>1. PICK f : Runs(f, "CatchUp", d, s, Len(s)) /\ CatchUp(d, s) = f[Len(s)]
  BY CatchUpRuns
<1> DEFINE T == {i \in Nat : i <= Len(s) => Later(d, f[i])}
<1>2. 0 \in T
  BY <1>1 DEF Runs, Later
<1>3. ASSUME NEW i \in Nat, i \in T PROVE i + 1 \in T
  <2> SUFFICES ASSUME i + 1 <= Len(s) PROVE Later(d, f[i + 1])
    OBVIOUS
  <2>1. /\ i + 1 \in 0..Len(s) /\ i <= Len(s) /\ i + 1 # 0 /\ i + 1 - 1 = i
        /\ s[i + 1] \in Seq(Payload)
    OBVIOUS
  <2>2. f[i + 1] = WatchAll(f[i], s[i + 1])
    BY <1>1, <2>1 DEF Runs, Take
  <2>3. Later(d, f[i])
    BY <1>3, <2>1
  <2>4. f[i] \in Decoder
    BY <2>3 DEF Later
  <2>5. Later(f[i], f[i + 1])
    BY <2>1, <2>2, <2>4, WatchAllKeeps
  <2> QED BY <2>3, <2>5 DEF Later
<1>4. Nat \subseteq T
  <2> HIDE DEF T
  <2> QED BY <1>2, <1>3, SetInduction
<1>5. Len(s) \in Nat
  OBVIOUS
<1> QED BY <1>1, <1>4, <1>5

------------------------------------------------------------------------------
(* The inductive invariant. *)

\* The newest cached picture is the producer's newest, if it is of this session.
Newest ==
  gop # <<>> =>
    /\ Last(gop).unit.producer = producer /\ Last(gop).unit.session <= session
    /\ Last(gop).unit.session = session => Last(gop).unit.n = unit

\* The parameter sets kept are the producer's own.
OwnStored == \A t \in Nals : stored[t] # None => stored[t].producer = producer

\* A decoder that is given the cache alone.
Cache == WatchAll(Blank, gop)

CacheSound ==
  gop # <<>> =>
    /\ Cache.last = Last(gop).unit /\ ~Cache.gap
    /\ healthy => ~Cache.garbled

\* A viewer once it has been given all that waits for it.
Viewer(c) ==
  /\ ~Ahead(c).gap /\ ~Ahead(c).garbled
  /\ sub[c] = "waiting" => queue[c] = <<>> /\ seen[c] = Blank
  /\ sub[c] = "ready" =>
       /\ Ahead(c).last # None
       /\ gop # <<>> => Ahead(c).last = Last(gop).unit
       /\ healthy /\ declared => Ahead(c).table = codec \/ Ahead(c).late

Inductive ==
  TypeOK /\ Newest /\ OwnStored /\ CacheSound /\ \A c \in Clients : Viewer(c)

\* A viewer as Ahead sees it, and its types.
LEMMA AheadTypes ==
  ASSUME TypeOK, NEW c \in Clients
  PROVE  Later(seen[c], Ahead(c))
<1>1. seen[c] \in Decoder /\ queue[c] \in Seq(Seq(Payload))
  BY DEF TypeOK
<1> QED BY <1>1, CatchUpKeeps DEF Ahead

\* The decoder of a viewer that has seen nothing.
LEMMA BlankTypes ==
  Blank \in Decoder /\ Blank.last = None /\ ~Blank.gap /\ ~Blank.garbled
BY DEF Blank, Decoder

\* What put_nowait does to one viewer: nothing if there is nothing for it, its
\* place is lost if its queue is full, and otherwise the write joins the queue.
LEMMA Offered ==
  ASSUME TypeOK, NEW to \in [Clients -> Seq(Payload)], Offer(to), seen' = seen,
         NEW c \in Clients
  PROVE  \/ /\ to[c] = <<>> /\ sub'[c] = sub[c] /\ queue'[c] = queue[c]
            /\ Ahead(c)' = Ahead(c)
         \/ /\ sub'[c] = "no" /\ queue'[c] = << <<>> >> /\ Ahead(c)' = seen[c]
         \/ /\ to[c] # <<>> /\ ~Full(c)
            /\ sub'[c] = "ready" /\ queue'[c] = Append(queue[c], to[c])
            /\ Ahead(c)' = WatchAll(Ahead(c), to[c])
<1>1. to[c] \in Seq(Payload) /\ queue[c] \in Seq(Seq(Payload))
  BY DEF TypeOK
<1>2. Ahead(c)' = CatchUp(seen[c], queue'[c])
  BY DEF Ahead
<1>3. CASE to[c] = <<>>
  <2>1. sub'[c] = sub[c] /\ queue'[c] = queue[c]
    BY <1>3 DEF Offer
  <2> QED BY <1>2, <1>3, <2>1 DEF Ahead
<1>4. CASE to[c] # <<>> /\ Full(c)
  <2>1. sub'[c] = "no" /\ queue'[c] = << <<>> >>
    BY <1>4 DEF Offer
  <2>2. << >> \in Seq(Seq(Payload)) /\ << >> \in Seq(Payload)
    OBVIOUS
  <2>3. CatchUp(seen[c], Append(<< >>, << >>)) = WatchAll(CatchUp(seen[c], << >>), << >>)
    BY <2>2, CatchUpAppend
  <2>4. Append(<< >>, << >>) = << <<>> >>
    OBVIOUS
  <2>5. CatchUp(seen[c], << <<>> >>) = seen[c]
    BY <2>3, <2>4, CatchUpEmpty, WatchAllEmpty
  <2> QED BY <1>2, <2>1, <2>5
<1>5. CASE to[c] # <<>> /\ ~Full(c)
  <2>1. sub'[c] = "ready" /\ queue'[c] = Append(queue[c], to[c])
    BY <1>5 DEF Offer
  <2>2. CatchUp(seen[c], Append(queue[c], to[c]))
          = WatchAll(CatchUp(seen[c], queue[c]), to[c])
    BY <1>1, CatchUpAppend
  <2> QED BY <1>2, <1>5, <2>1, <2>2 DEF Ahead
<1> QED BY <1>3, <1>4, <1>5

\* Offer keeps the queues bounded and of their type.
LEMMA OfferTypes ==
  ASSUME TypeOK, NEW to \in [Clients -> Seq(Payload)], Offer(to)
  PROVE  /\ sub' \in [Clients -> {"no", "waiting", "ready"}]
         /\ queue' \in [Clients -> Seq(Seq(Payload))]
         /\ \A c \in Clients : Len(queue'[c]) <= Depth
<1>1. sub' \in [Clients -> {"no", "waiting", "ready"}]
  BY DEF Offer, TypeOK
<1>2. ASSUME NEW c \in Clients
      PROVE  queue'[c] \in Seq(Seq(Payload)) /\ Len(queue'[c]) <= Depth
  <2>1. /\ queue[c] \in Seq(Seq(Payload)) /\ Len(queue[c]) <= Depth
        /\ to[c] \in Seq(Payload) /\ Depth \in Nat /\ Depth >= 1
    BY FanoutAssumption DEF TypeOK
  <2>2. \/ queue'[c] = << <<>> >>
        \/ queue'[c] = queue[c]
        \/ queue'[c] = Append(queue[c], to[c]) /\ ~Full(c)
    BY DEF Offer
  <2>3. CASE queue'[c] = << <<>> >>
    <3>1. << >> \in Seq(Payload)
      OBVIOUS
    <3>2. << <<>> >> \in Seq(Seq(Payload)) /\ Len(<< <<>> >>) = 1
      BY <3>1
    <3> QED BY <2>1, <2>3, <3>2
  <2>4. CASE queue'[c] = Append(queue[c], to[c]) /\ ~Full(c)
    <3> DEFINE Writes == Seq(Payload)
    <3>1. queue[c] \in Seq(Writes) /\ to[c] \in Writes
      BY <2>1
    <3> HIDE DEF Writes
    <3>2. /\ Append(queue[c], to[c]) \in Seq(Writes) /\ Len(queue[c]) \in Nat
          /\ Len(Append(queue[c], to[c])) = Len(queue[c]) + 1
      BY <3>1
    <3>3. Len(queue[c]) # Depth
      BY <2>4 DEF Full
    <3> QED BY <2>1, <2>4, <3>2, <3>3 DEF Writes
  <2> QED BY <2>1, <2>2, <2>3, <2>4
<1>3. queue' = [c \in Clients |-> queue'[c]]
  BY DEF Offer
<1> QED BY <1>1, <1>2, <1>3

\* Who gets what: the payload if ready, the group of pictures if it starts there.
LEMMA RecipientsAre ==
  ASSUME NEW p \in Payload, NEW starts \in BOOLEAN, gop' \in Seq(Video)
  PROVE  /\ Recipients(p, starts) \in [Clients -> Seq(Payload)]
         /\ \A c \in Clients :
              /\ sub[c] = "ready" => Recipients(p, starts)[c] = <<p>>
              /\ sub[c] = "waiting" /\ starts => Recipients(p, starts)[c] = gop'
              /\ sub[c] = "waiting" /\ ~starts => Recipients(p, starts)[c] = <<>>
              /\ sub[c] = "no" => Recipients(p, starts)[c] = <<>>
<1>1. gop' \in Seq(Payload) /\ <<p>> \in Seq(Payload) /\ << >> \in Seq(Payload)
  BY DEF Payload
<1> QED BY <1>1 DEF Recipients
------------------------------------------------------------------------------
(* The steps of the producer. *)

\* The access unit that is published next, and the parameter sets then kept.
Unit == [producer |-> producer, session |-> session, n |-> unit + 1]
Sets(nals) == [t \in Nals |-> IF t \in nals THEN Unit ELSE stored[t]]

\* Publish numbers an access unit within the bounds.
LEMMA UnitTypes ==
  ASSUME TypeOK, OwnStored, unit < MaxUnit, NEW nals \in SUBSET Nals
  PROVE  /\ Unit \in AccessUnits /\ Unit # None /\ unit + 1 \in 0..MaxUnit
         /\ Unit.producer = producer /\ Unit.session = session /\ Unit.n = unit + 1
         /\ Sets(nals) \in [Nals -> AccessUnits \cup {None}]
         /\ \A t \in Nals : Sets(nals)[t] # None => Sets(nals)[t].producer = producer
<1>1. /\ producer \in 1..MaxSession /\ session \in 1..MaxSession
      /\ unit + 1 \in 1..MaxUnit /\ unit + 1 \in 0..MaxUnit
  BY FanoutAssumption DEF TypeOK
<1>2. Unit \in AccessUnits
  BY <1>1 DEF Unit, AccessUnits
<1>3. Unit # None
  BY <1>2, FanoutAssumption
<1>4. stored \in [Nals -> AccessUnits \cup {None}]
  BY DEF TypeOK
<1>5. Unit.producer = producer /\ Unit.session = session /\ Unit.n = unit + 1
  BY DEF Unit
<1> QED BY <1>1, <1>2, <1>3, <1>4, <1>5 DEF Sets, OwnStored

\* A key frame starts the cache anew and reaches whoever is ready, and whoever
\* waits for one once both parameter sets are known.
LEMMA KeyKeeps ==
  ASSUME Inductive, NEW nals \in SUBSET Nals, Publish(TRUE, nals)
  PROVE  Inductive'
<1> DEFINE sets == Sets(nals)
           p == [kind |-> "key", unit |-> Unit, sets |-> sets,
                 table |-> IF Codecs = {} THEN None ELSE codec]
<1>1. TypeOK /\ Newest /\ OwnStored /\ \A c \in Clients : Viewer(c)
  BY DEF Inductive
<1>2. /\ unit < MaxUnit /\ unit' = unit + 1 /\ stored' = sets
      /\ gop' = <<p>> /\ declared' = (Codecs # {})
      /\ healthy' = (\A t \in Nals : sets[t] # None)
      /\ UNCHANGED <<session, producer, seen, codec>>
  BY DEF Publish, KeyUnit, Unit, Sets
<1>3. Offer(Recipients(p, healthy'))
  BY DEF Publish, KeyUnit, Unit, Sets
<1>4. /\ Unit \in AccessUnits /\ Unit # None /\ unit + 1 \in 0..MaxUnit
      /\ Unit.producer = producer /\ Unit.session = session /\ Unit.n = unit + 1
      /\ sets \in [Nals -> AccessUnits \cup {None}]
      /\ \A t \in Nals : sets[t] # None => sets[t].producer = producer
  BY <1>1, <1>2, UnitTypes
<1>5. codec \in Codecs \cup {DefaultCodec}
  BY <1>1 DEF TypeOK
<1> HIDE DEF sets
<1>6. /\ p \in Video /\ p.kind = "key" /\ p.unit = Unit /\ p.sets = sets
      /\ Codecs # {} => p.table = codec
  BY <1>4, <1>5 DEF Video
<1> HIDE DEF p
<1>7. healthy' \in BOOLEAN /\ declared' \in BOOLEAN
  BY <1>2
<1>8. healthy' => OwnSets(p)
  BY <1>2, <1>4, <1>6 DEF OwnSets
<1>9. /\ gop' \in Seq(Video) /\ Len(gop') <= GopLimit /\ gop' # <<>>
      /\ Last(gop') = p
  BY <1>2, <1>6, FanoutAssumption DEF Last
<1>10. /\ Recipients(p, healthy') \in [Clients -> Seq(Payload)]
       /\ \A c \in Clients :
            /\ sub[c] = "ready" => Recipients(p, healthy')[c] = <<p>>
            /\ sub[c] = "waiting" /\ healthy' => Recipients(p, healthy')[c] = gop'
            /\ sub[c] = "waiting" /\ ~healthy' => Recipients(p, healthy')[c] = <<>>
            /\ sub[c] = "no" => Recipients(p, healthy')[c] = <<>>
  <2>1. p \in Payload
    BY <1>6 DEF Payload
  <2> QED BY <2>1, <1>7, <1>9, RecipientsAre
<1>11. TypeOK'
  <2>1. /\ sub' \in [Clients -> {"no", "waiting", "ready"}]
        /\ queue' \in [Clients -> Seq(Seq(Payload))]
        /\ \A c \in Clients : Len(queue'[c]) <= Depth
    BY <1>1, <1>3, <1>10, OfferTypes
  <2> QED BY <1>1, <1>2, <1>4, <1>7, <1>9, <2>1 DEF TypeOK
<1>12. Newest'
  BY <1>1, <1>2, <1>4, <1>6, <1>9 DEF Newest, TypeOK
<1>13. OwnStored'
  BY <1>2, <1>4 DEF OwnStored
<1>14. CacheSound'
  <2>1. WatchAll(Blank, gop') = Watch(Blank, p)
    BY <1>2, <1>6, WatchAllOne
  <2>2. /\ Watch(Blank, p).last = Unit /\ ~Watch(Blank, p).gap
        /\ OwnSets(p) => ~Watch(Blank, p).garbled
    BY <1>6, BlankTypes, WatchKey
  <2> QED BY <1>6, <1>8, <1>9, <2>1, <2>2 DEF CacheSound, Cache
<1>15. ASSUME NEW c \in Clients PROVE Viewer(c)'
  <2> DEFINE to == Recipients(p, healthy')
  <2>1. \/ /\ to[c] = <<>> /\ sub'[c] = sub[c] /\ queue'[c] = queue[c]
           /\ Ahead(c)' = Ahead(c)
        \/ /\ sub'[c] = "no" /\ Ahead(c)' = seen[c]
        \/ /\ to[c] # <<>> /\ sub'[c] = "ready"
           /\ Ahead(c)' = WatchAll(Ahead(c), to[c])
    BY <1>1, <1>2, <1>3, <1>10, Offered
  <2>2. Viewer(c) /\ Later(seen[c], Ahead(c)) /\ sub[c] \in {"no", "waiting", "ready"}
    BY <1>1, AheadTypes DEF TypeOK
  <2>3. CASE to[c] = <<>> /\ sub'[c] = sub[c] /\ queue'[c] = queue[c]
             /\ Ahead(c)' = Ahead(c)
    <3>1. sub'[c] # "ready"
      <4>1. <<p>> # << >>
        OBVIOUS
      <4> QED BY <1>10, <2>3, <4>1
    <3> QED BY <1>2, <2>2, <2>3, <3>1 DEF Viewer
  <2>4. CASE sub'[c] = "no" /\ Ahead(c)' = seen[c]
    BY <2>2, <2>4 DEF Viewer, Later
  <2>5. CASE to[c] # <<>> /\ sub'[c] = "ready" /\ Ahead(c)' = WatchAll(Ahead(c), to[c])
    <3>1. to[c] = <<p>> /\ (sub[c] = "ready" \/ healthy')
      BY <1>2, <1>10, <2>2, <2>5
    <3>2. Ahead(c)' = Watch(Ahead(c), p)
      BY <1>6, <2>5, <3>1, WatchAllOne
    <3>3. Ahead(c) \in Decoder /\ ~Ahead(c).gap /\ ~Ahead(c).garbled
      BY <2>2 DEF Viewer, Later
    <3>4. Ahead(c).last # None \/ OwnSets(p)
      BY <1>8, <2>2, <3>1 DEF Viewer
    <3>5. /\ Watch(Ahead(c), p).last = Unit /\ Watch(Ahead(c), p).table = p.table
          /\ ~Watch(Ahead(c), p).gap /\ ~Watch(Ahead(c), p).garbled
      BY <1>6, <3>3, <3>4, WatchKey
    <3> QED BY <1>2, <1>4, <1>6, <1>9, <2>5, <3>2, <3>5 DEF Viewer
  <2> QED BY <2>1, <2>3, <2>4, <2>5
<1> QED BY <1>11, <1>12, <1>13, <1>14, <1>15 DEF Inductive

\* A delta picture of a cached group reaches whoever is ready, and all of them
\* have the picture before it; without a group, or room for it, it goes nowhere.
LEMMA DeltaKeeps ==
  ASSUME Inductive, NEW nals \in SUBSET Nals, Publish(FALSE, nals)
  PROVE  Inductive'
<1> DEFINE sets == Sets(nals)
           p == [kind |-> "delta", unit |-> Unit, sets |-> sets, table |-> None]
<1>1. TypeOK /\ Newest /\ OwnStored /\ CacheSound /\ \A c \in Clients : Viewer(c)
  BY DEF Inductive
<1>2. /\ unit < MaxUnit /\ unit' = unit + 1 /\ stored' = sets
      /\ UNCHANGED <<session, producer, seen, codec, healthy, declared>>
  BY DEF Publish, DeltaUnit, Unit, Sets
<1>3. \/ /\ gop # <<>> /\ Len(gop) < GopLimit
         /\ gop' = Append(gop, p) /\ Offer(Recipients(p, FALSE))
      \/ gop' = <<>> /\ UNCHANGED <<sub, queue>>
  BY DEF Publish, DeltaUnit, Unit, Sets, Cached
<1>4. /\ Unit \in AccessUnits /\ Unit # None /\ unit + 1 \in 0..MaxUnit
      /\ Unit.producer = producer /\ Unit.session = session /\ Unit.n = unit + 1
      /\ sets \in [Nals -> AccessUnits \cup {None}]
      /\ \A t \in Nals : sets[t] # None => sets[t].producer = producer
  BY <1>1, <1>2, UnitTypes
<1> HIDE DEF sets
<1>5. p \in Video /\ p.kind = "delta" /\ p.unit = Unit
  BY <1>4 DEF Video
<1> HIDE DEF p
<1>6. OwnStored'
  BY <1>2, <1>4 DEF OwnStored
<1>7. CASE gop' = <<>> /\ UNCHANGED <<sub, queue>>
  <2>1. gop' \in Seq(Video) /\ Len(gop') <= GopLimit
    BY <1>7, FanoutAssumption
  <2>2. TypeOK'
    BY <1>1, <1>2, <1>4, <1>7, <2>1 DEF TypeOK
  <2>3. Newest' /\ CacheSound'
    BY <1>7 DEF Newest, CacheSound
  <2>4. ASSUME NEW c \in Clients PROVE Viewer(c)'
    <3>1. Ahead(c)' = Ahead(c)
      BY <1>2, <1>7 DEF Ahead
    <3> QED BY <1>1, <1>2, <1>7, <3>1 DEF Viewer
  <2> QED BY <1>6, <2>2, <2>3, <2>4 DEF Inductive
<1>8. CASE /\ gop # <<>> /\ Len(gop) < GopLimit
           /\ gop' = Append(gop, p) /\ Offer(Recipients(p, FALSE))
  <2>1. gop \in Seq(Video)
    BY <1>1 DEF TypeOK
  <2>2. /\ gop' \in Seq(Video) /\ Len(gop') <= GopLimit /\ gop' # <<>>
        /\ Last(gop') = p
    BY <1>5, <1>8, <2>1, FanoutAssumption DEF Last
  <2>3. /\ Recipients(p, FALSE) \in [Clients -> Seq(Payload)]
        /\ \A c \in Clients :
             /\ sub[c] = "ready" => Recipients(p, FALSE)[c] = <<p>>
             /\ sub[c] = "waiting" => Recipients(p, FALSE)[c] = <<>>
             /\ sub[c] = "no" => Recipients(p, FALSE)[c] = <<>>
    <3>1. p \in Payload /\ FALSE \in BOOLEAN
      BY <1>5 DEF Payload
    <3> QED BY <2>2, <3>1, RecipientsAre
  <2>4. TypeOK'
    <3>1. /\ sub' \in [Clients -> {"no", "waiting", "ready"}]
          /\ queue' \in [Clients -> Seq(Seq(Payload))]
          /\ \A c \in Clients : Len(queue'[c]) <= Depth
      BY <1>1, <1>8, <2>3, OfferTypes
    <3> QED BY <1>1, <1>2, <1>4, <2>2, <3>1 DEF TypeOK
  <2>5. Newest'
    BY <1>1, <1>2, <1>4, <1>5, <2>2 DEF Newest, TypeOK
  <2>6. Follows(p.unit, Last(gop).unit)
    <3>1. /\ Last(gop).unit.producer = producer
          /\ Last(gop).unit.session = session => Last(gop).unit.n = unit
      BY <1>1, <1>8 DEF Newest
    <3>2. Last(gop).unit # None
      <4>1. Last(gop) \in Video
        BY <1>8, <2>1 DEF Last
      <4> QED BY <4>1, FanoutAssumption DEF Video
    <3> QED BY <1>4, <1>5, <3>1, <3>2 DEF Follows
  <2>7. CacheSound'
    <3>1. WatchAll(Blank, gop') = Watch(WatchAll(Blank, gop), p)
      BY <1>5, <1>8, <2>1, WatchAllAppend
    <3>2. gop \in Seq(Payload)
      BY <2>1 DEF Payload
    <3>3. Cache \in Decoder
      BY <3>2, BlankTypes, WatchAllKeeps DEF Later, Cache
    <3>4. /\ Cache.last = Last(gop).unit /\ ~Cache.gap
          /\ healthy => ~Cache.garbled
      BY <1>1, <1>8 DEF CacheSound
    <3>5. /\ Watch(Cache, p).last = Unit /\ ~Watch(Cache, p).gap
          /\ Watch(Cache, p).garbled = Cache.garbled
      BY <1>5, <2>6, <3>3, <3>4, WatchDelta
    <3>6. Cache' = Watch(Cache, p)
      BY <3>1 DEF Cache
    <3> QED BY <1>2, <1>5, <2>2, <3>4, <3>5, <3>6 DEF CacheSound
  <2>8. ASSUME NEW c \in Clients PROVE Viewer(c)'
    <3> DEFINE to == Recipients(p, FALSE)
    <3>1. \/ /\ to[c] = <<>> /\ sub'[c] = sub[c] /\ queue'[c] = queue[c]
             /\ Ahead(c)' = Ahead(c)
          \/ /\ sub'[c] = "no" /\ Ahead(c)' = seen[c]
          \/ /\ to[c] # <<>> /\ sub'[c] = "ready"
             /\ Ahead(c)' = WatchAll(Ahead(c), to[c])
      BY <1>1, <1>2, <1>8, <2>3, Offered
    <3>2. Viewer(c) /\ Later(seen[c], Ahead(c)) /\ sub[c] \in {"no", "waiting", "ready"}
      BY <1>1, AheadTypes DEF TypeOK
    <3>3. CASE to[c] = <<>> /\ sub'[c] = sub[c] /\ queue'[c] = queue[c]
               /\ Ahead(c)' = Ahead(c)
      <4>1. <<p>> # << >>
        OBVIOUS
      <4>2. sub'[c] # "ready"
        BY <2>3, <3>3, <4>1
      <4> QED BY <1>2, <3>2, <3>3, <4>2 DEF Viewer
    <3>4. CASE sub'[c] = "no" /\ Ahead(c)' = seen[c]
      BY <3>2, <3>4 DEF Viewer, Later
    <3>5. CASE to[c] # <<>> /\ sub'[c] = "ready"
               /\ Ahead(c)' = WatchAll(Ahead(c), to[c])
      <4>1. to[c] = <<p>> /\ sub[c] = "ready"
        BY <2>3, <3>2, <3>5
      <4>2. Ahead(c)' = Watch(Ahead(c), p)
        BY <1>5, <3>5, <4>1, WatchAllOne
      <4>3. /\ Ahead(c) \in Decoder /\ ~Ahead(c).gap /\ ~Ahead(c).garbled
            /\ Ahead(c).last = Last(gop).unit
            /\ healthy /\ declared => Ahead(c).table = codec \/ Ahead(c).late
        BY <1>8, <3>2, <4>1 DEF Viewer, Later
      <4>4. /\ Watch(Ahead(c), p).last = Unit
            /\ Watch(Ahead(c), p).table = Ahead(c).table
            /\ Watch(Ahead(c), p).late = Ahead(c).late
            /\ ~Watch(Ahead(c), p).gap /\ ~Watch(Ahead(c), p).garbled
        BY <1>5, <2>6, <4>3, WatchDelta
      <4> QED BY <1>2, <1>4, <1>5, <2>2, <3>5, <4>2, <4>3, <4>4 DEF Viewer
    <3> QED BY <3>1, <3>3, <3>4, <3>5
  <2> QED BY <1>6, <2>4, <2>5, <2>7, <2>8 DEF Inductive
<1> QED BY <1>3, <1>7, <1>8

\* Sound reaches the ready, with tables whenever they would not expect it.
LEMMA AudioKeeps ==
  ASSUME Inductive, NEW t \in Codecs, PublishAudio(t)
  PROVE  Inductive'
<1> DEFINE p == [kind |-> "audio", codec |-> t,
                 table |-> IF NewTables(t) THEN t ELSE None]
<1>1. TypeOK /\ Newest /\ OwnStored /\ CacheSound /\ \A c \in Clients : Viewer(c)
  BY DEF Inductive
<1>2. /\ healthy /\ Offer(Recipients(p, FALSE)) /\ codec' = t /\ declared' = TRUE
      /\ UNCHANGED <<session, producer, unit, stored, gop, healthy, seen>>
  BY DEF PublishAudio
<1>3. /\ p \in Audio /\ t # None
      /\ p.table = None => t = codec /\ declared
      /\ p.table # None => p.table = t
  BY FanoutAssumption DEF Audio, NewTables
<1> HIDE DEF p
<1>4. /\ Recipients(p, FALSE) \in [Clients -> Seq(Payload)]
      /\ \A c \in Clients :
           /\ sub[c] = "ready" => Recipients(p, FALSE)[c] = <<p>>
           /\ sub[c] = "waiting" => Recipients(p, FALSE)[c] = <<>>
           /\ sub[c] = "no" => Recipients(p, FALSE)[c] = <<>>
  <2>1. p \in Payload /\ FALSE \in BOOLEAN /\ gop' \in Seq(Video)
    BY <1>1, <1>2, <1>3 DEF Payload, TypeOK
  <2> QED BY <2>1, RecipientsAre
<1>5. TypeOK'
  <2>1. /\ sub' \in [Clients -> {"no", "waiting", "ready"}]
        /\ queue' \in [Clients -> Seq(Seq(Payload))]
        /\ \A c \in Clients : Len(queue'[c]) <= Depth
    BY <1>1, <1>2, <1>4, OfferTypes
  <2> QED BY <1>1, <1>2, <2>1 DEF TypeOK
<1>6. Newest' /\ OwnStored' /\ CacheSound'
  BY <1>1, <1>2 DEF Newest, OwnStored, CacheSound, Cache
<1>7. ASSUME NEW c \in Clients PROVE Viewer(c)'
  <2> DEFINE to == Recipients(p, FALSE)
  <2>1. \/ /\ to[c] = <<>> /\ sub'[c] = sub[c] /\ queue'[c] = queue[c]
           /\ Ahead(c)' = Ahead(c)
        \/ /\ sub'[c] = "no" /\ Ahead(c)' = seen[c]
        \/ /\ to[c] # <<>> /\ sub'[c] = "ready"
           /\ Ahead(c)' = WatchAll(Ahead(c), to[c])
    BY <1>1, <1>2, <1>4, Offered
  <2>2. Viewer(c) /\ Later(seen[c], Ahead(c)) /\ sub[c] \in {"no", "waiting", "ready"}
    BY <1>1, AheadTypes DEF TypeOK
  <2>3. CASE to[c] = <<>> /\ sub'[c] = sub[c] /\ queue'[c] = queue[c]
             /\ Ahead(c)' = Ahead(c)
    <3>1. <<p>> # << >>
      OBVIOUS
    <3>2. sub'[c] # "ready"
      BY <1>4, <2>3, <3>1
    <3> QED BY <1>2, <2>2, <2>3, <3>2 DEF Viewer
  <2>4. CASE sub'[c] = "no" /\ Ahead(c)' = seen[c]
    BY <2>2, <2>4 DEF Viewer, Later
  <2>5. CASE to[c] # <<>> /\ sub'[c] = "ready" /\ Ahead(c)' = WatchAll(Ahead(c), to[c])
    <3>1. to[c] = <<p>> /\ sub[c] = "ready"
      BY <1>4, <2>2, <2>5
    <3>2. Ahead(c)' = Watch(Ahead(c), p)
      BY <1>3, <2>5, <3>1, WatchAllOne
    <3>3. /\ Ahead(c) \in Decoder /\ ~Ahead(c).gap /\ ~Ahead(c).garbled
          /\ Ahead(c).last # None
          /\ gop # <<>> => Ahead(c).last = Last(gop).unit
          /\ declared => Ahead(c).table = codec \/ Ahead(c).late
      BY <1>2, <2>2, <3>1 DEF Viewer, Later
    <3>4. /\ Watch(Ahead(c), p).last = Ahead(c).last
          /\ ~Watch(Ahead(c), p).gap /\ ~Watch(Ahead(c), p).garbled
          /\ p.table = None => Watch(Ahead(c), p) = Ahead(c)
          /\ p.table # None => Watch(Ahead(c), p).table = p.table
      BY <1>3, <3>3, WatchAudio
    <3>5. Watch(Ahead(c), p).table = t \/ Watch(Ahead(c), p).late
      BY <1>3, <3>3, <3>4
    <3> QED BY <1>2, <2>5, <3>2, <3>3, <3>4, <3>5 DEF Viewer
  <2> QED BY <2>1, <2>3, <2>4, <2>5
<1> QED BY <1>5, <1>6, <1>7 DEF Inductive

\* Between producers the cache is empty; within one a new session follows on.
LEMMA SessionKeeps ==
  ASSUME Inductive, NewProducer \/ Reconnect
  PROVE  Inductive'
<1>1. TypeOK /\ Newest /\ OwnStored /\ CacheSound /\ \A c \in Clients : Viewer(c)
  BY DEF Inductive
<1>2. CASE NewProducer
  <2>1. /\ session < MaxSession /\ session' = session + 1
        /\ producer' = session + 1 /\ unit' = 0
        /\ stored' = [t \in Nals |-> None] /\ gop' = <<>> /\ healthy' = FALSE
        /\ codec' = DefaultCodec /\ declared' = FALSE /\ UNCHANGED <<sub, queue, seen>>
    BY <1>2 DEF NewProducer, ResetMedia
  <2>2. TypeOK'
    <3>1. session' \in 1..MaxSession /\ producer' \in 1..session' /\ unit' \in 0..MaxUnit
      BY <1>1, <2>1, FanoutAssumption DEF TypeOK
    <3>2. gop' \in Seq(Video) /\ Len(gop') <= GopLimit
      BY <2>1, FanoutAssumption
    <3>3. stored' \in [Nals -> AccessUnits \cup {None}]
      BY <2>1
    <3> QED BY <1>1, <2>1, <3>1, <3>2, <3>3 DEF TypeOK
  <2>3. Newest' /\ OwnStored' /\ CacheSound'
    BY <2>1 DEF Newest, OwnStored, CacheSound
  <2>4. ASSUME NEW c \in Clients PROVE Viewer(c)'
    <3>1. Ahead(c)' = Ahead(c)
      BY <2>1 DEF Ahead
    <3> QED BY <1>1, <2>1, <3>1 DEF Viewer
  <2> QED BY <2>2, <2>3, <2>4 DEF Inductive
<1>3. CASE Reconnect
  <2>1. /\ session < MaxSession /\ session' = session + 1 /\ unit' = 0
        /\ UNCHANGED <<producer, stored, gop, healthy, codec, declared, sub, queue, seen>>
    BY <1>3 DEF Reconnect, media
  <2>2. TypeOK'
    BY <1>1, <2>1, FanoutAssumption DEF TypeOK
  <2>3. Newest'
    <3> SUFFICES ASSUME gop # <<>>
                 PROVE  /\ Last(gop).unit.producer = producer
                        /\ Last(gop).unit.session <= session + 1
                        /\ Last(gop).unit.session # session + 1
      BY <2>1 DEF Newest
    <3>1. Last(gop) \in Video
      BY <1>1 DEF TypeOK, Last
    <3>2. Last(gop).unit.session \in Nat /\ session \in Nat
      BY <1>1, <3>1 DEF TypeOK, Video, AccessUnits
    <3> QED BY <1>1, <3>2 DEF Newest
  <2>4. OwnStored' /\ CacheSound'
    BY <1>1, <2>1 DEF OwnStored, CacheSound, Cache
  <2>5. ASSUME NEW c \in Clients PROVE Viewer(c)'
    <3>1. Ahead(c)' = Ahead(c)
      BY <2>1 DEF Ahead
    <3> QED BY <1>1, <2>1, <3>1 DEF Viewer
  <2> QED BY <2>2, <2>3, <2>4, <2>5 DEF Inductive
<1> QED BY <1>2, <1>3

------------------------------------------------------------------------------
(* The steps of the viewers. *)

\* A viewer that joins is as far as the cache, or as nothing at all.
LEMMA JoinKeeps ==
  ASSUME Inductive, NEW c \in Clients, Join(c)
  PROVE  Inductive'
<1> DEFINE start == Cached /\ healthy
           first == IF start THEN [Cache EXCEPT !.late = Cache.table # codec] ELSE Blank
<1>1. TypeOK /\ Newest /\ OwnStored /\ CacheSound /\ \A d \in Clients : Viewer(d)
  BY DEF Inductive
<1>2. /\ sub[c] = "no" /\ queue[c] = <<>> /\ seen[c] = Blank
      /\ sub' = [sub EXCEPT ![c] = IF start THEN "ready" ELSE "waiting"]
      /\ seen' = [seen EXCEPT ![c] = first]
      /\ UNCHANGED <<session, producer, unit, stored, gop, healthy, codec, declared,
                     queue>>
  BY DEF Join, Cache, media
<1>3. Cache \in Decoder
  <2>1. gop \in Seq(Payload)
    BY <1>1 DEF TypeOK, Payload
  <2> QED BY <2>1, BlankTypes, WatchAllKeeps DEF Later, Cache
<1>4. /\ first \in Decoder
      /\ start => /\ first.last = Cache.last /\ first.gap = Cache.gap
                  /\ first.garbled = Cache.garbled
                  /\ first.table = codec \/ first.late
  <2>1. CASE start
    <3> DEFINE late == Cache.table # codec
    <3>1. first = [last |-> Cache.last, table |-> Cache.table, gap |-> Cache.gap,
                   garbled |-> Cache.garbled, late |-> late]
      BY <1>3, <2>1 DEF Decoder
    <3>2. late \in BOOLEAN /\ (Cache.table = codec \/ late)
      OBVIOUS
    <3> HIDE DEF late, first, start
    <3>3. first \in Decoder
      BY <1>3, <3>1, <3>2 DEF Decoder
    <3> QED BY <3>1, <3>2, <3>3
  <2>2. CASE ~start
    BY <2>2, BlankTypes
  <2> QED BY <2>1, <2>2
<1>5. start => gop # <<>> /\ healthy
  BY DEF Cached
<1>6. start \in BOOLEAN
  OBVIOUS
<1>7. ~start => first = Blank
  OBVIOUS
<1> HIDE DEF first, start
<1>8. TypeOK'
  BY <1>1, <1>2, <1>4, <1>6 DEF TypeOK
<1>9. Newest' /\ OwnStored' /\ CacheSound'
  BY <1>1, <1>2 DEF Newest, OwnStored, CacheSound, Cache
<1>10. Viewer(c)'
  <2>1. Ahead(c)' = first
    <3>1. seen'[c] = first /\ queue'[c] = << >>
      BY <1>1, <1>2 DEF TypeOK
    <3> QED BY <3>1, CatchUpEmpty DEF Ahead
  <2>2. CASE start
    <3>1. sub'[c] = "ready" /\ gop # <<>> /\ healthy
      BY <1>1, <1>2, <1>5, <2>2 DEF TypeOK
    <3>2. Last(gop).unit # None
      <4>1. gop \in Seq(Video) /\ gop # <<>>
        BY <1>1, <3>1 DEF TypeOK
      <4>2. Last(gop) \in Video
        BY <4>1 DEF Last
      <4> QED BY <4>2, FanoutAssumption DEF Video
    <3>3. /\ Cache.last = Last(gop).unit /\ ~Cache.gap /\ ~Cache.garbled
      BY <1>1, <3>1 DEF CacheSound
    <3> QED BY <1>2, <1>4, <2>1, <2>2, <3>1, <3>2, <3>3 DEF Viewer
  <2>3. CASE ~start
    <3>1. sub'[c] = "waiting" /\ seen'[c] = Blank /\ queue'[c] = << >>
      BY <1>1, <1>2, <1>7, <2>3 DEF TypeOK
    <3> QED BY <1>7, <2>1, <2>3, <3>1, BlankTypes DEF Viewer
  <2> QED BY <2>2, <2>3
<1>11. ASSUME NEW d \in Clients, d # c PROVE Viewer(d)'
  <2>1. seen'[d] = seen[d] /\ sub'[d] = sub[d] /\ queue'[d] = queue[d]
    BY <1>1, <1>2, <1>11 DEF TypeOK
  <2>2. Ahead(d)' = Ahead(d)
    BY <2>1 DEF Ahead
  <2> QED BY <1>1, <1>2, <2>1, <2>2 DEF Viewer
<1> QED BY <1>8, <1>9, <1>10, <1>11 DEF Inductive

\* Sending what was queued brings a viewer no further than it was bound to come.
LEMMA SendKeeps ==
  ASSUME Inductive, NEW c \in Clients, Send(c)
  PROVE  Inductive'
<1> DEFINE Writes == Seq(Payload)
<1>1. TypeOK /\ Newest /\ OwnStored /\ CacheSound /\ \A d \in Clients : Viewer(d)
  BY DEF Inductive
<1>2. /\ queue[c] # <<>>
      /\ seen' = [seen EXCEPT ![c] = WatchAll(seen[c], Head(queue[c]))]
      /\ queue' = [queue EXCEPT ![c] = Tail(queue[c])]
      /\ UNCHANGED <<session, producer, unit, stored, gop, healthy, codec, declared, sub>>
  BY DEF Send, media
<1>3. /\ queue \in [Clients -> Seq(Writes)] /\ seen \in [Clients -> Decoder]
      /\ \A d \in Clients : Len(queue[d]) <= Depth
      /\ Depth \in Nat
  BY <1>1, FanoutAssumption DEF TypeOK
<1> HIDE DEF Writes
<1>4. /\ Head(queue[c]) \in Writes /\ Tail(queue[c]) \in Seq(Writes)
      /\ Len(Tail(queue[c])) <= Depth
  <2>1. queue[c] \in Seq(Writes) /\ queue[c] # <<>> /\ Len(queue[c]) <= Depth
    BY <1>2, <1>3
  <2>2. Len(Tail(queue[c])) = Len(queue[c]) - 1 /\ Len(queue[c]) \in Nat
    BY <2>1
  <2> QED BY <1>3, <2>1, <2>2
<1>5. WatchAll(seen[c], Head(queue[c])) \in Decoder
  BY <1>3, <1>4, WatchAllKeeps DEF Later, Writes
<1>6. TypeOK'
  <2>1. queue' \in [Clients -> Seq(Writes)] /\ seen' \in [Clients -> Decoder]
    BY <1>2, <1>3, <1>4, <1>5
  <2>2. \A d \in Clients : Len(queue'[d]) <= Depth
    BY <1>2, <1>3, <1>4
  <2> QED BY <1>1, <1>2, <2>1, <2>2 DEF TypeOK, Writes
<1>7. Newest' /\ OwnStored' /\ CacheSound'
  BY <1>1, <1>2 DEF Newest, OwnStored, CacheSound, Cache
<1>8. Viewer(c)'
  <2>1. Ahead(c)' = Ahead(c)
    <3>1. /\ seen'[c] = WatchAll(seen[c], Head(queue[c]))
          /\ queue'[c] = Tail(queue[c])
      BY <1>2, <1>3
    <3>2. queue[c] \in Seq(Writes) /\ queue[c] # <<>>
      BY <1>2, <1>3
    <3>3. CatchUp(WatchAll(seen[c], Head(queue[c])), Tail(queue[c]))
            = CatchUp(seen[c], queue[c])
      BY <3>2, CatchUpSent
    <3> QED BY <3>1, <3>3 DEF Ahead
  <2> QED BY <1>1, <1>2, <2>1 DEF Viewer
<1>9. ASSUME NEW d \in Clients, d # c PROVE Viewer(d)'
  <2>1. seen'[d] = seen[d] /\ queue'[d] = queue[d]
    BY <1>2, <1>3, <1>9
  <2>2. Ahead(d)' = Ahead(d)
    BY <2>1 DEF Ahead
  <2> QED BY <1>1, <1>2, <2>1, <2>2 DEF Viewer
<1> QED BY <1>6, <1>7, <1>8, <1>9 DEF Inductive

\* A viewer that goes leaves nothing behind.
LEMMA CloseKeeps ==
  ASSUME Inductive, NEW c \in Clients, Close(c)
  PROVE  Inductive'
<1>1. TypeOK /\ Newest /\ OwnStored /\ CacheSound /\ \A d \in Clients : Viewer(d)
  BY DEF Inductive
<1>2. /\ sub' = [sub EXCEPT ![c] = "no"]
      /\ queue' = [queue EXCEPT ![c] = <<>>]
      /\ seen' = [seen EXCEPT ![c] = Blank]
      /\ UNCHANGED <<session, producer, unit, stored, gop, healthy, codec, declared>>
  BY DEF Close, media
<1>3. TypeOK'
  <2>1. << >> \in Seq(Seq(Payload)) /\ Len(<< >>) <= Depth
    BY FanoutAssumption
  <2>2. /\ queue' \in [Clients -> Seq(Seq(Payload))]
        /\ \A d \in Clients : Len(queue'[d]) <= Depth
    BY <1>1, <1>2, <2>1 DEF TypeOK
  <2> QED BY <1>1, <1>2, <2>2, BlankTypes DEF TypeOK
<1>4. Newest' /\ OwnStored' /\ CacheSound'
  BY <1>1, <1>2 DEF Newest, OwnStored, CacheSound, Cache
<1>5. Viewer(c)'
  <2>1. sub'[c] = "no" /\ queue'[c] = << >> /\ seen'[c] = Blank
    BY <1>1, <1>2 DEF TypeOK
  <2>2. Ahead(c)' = Blank
    BY <2>1, CatchUpEmpty DEF Ahead
  <2> QED BY <2>1, <2>2, BlankTypes DEF Viewer
<1>6. ASSUME NEW d \in Clients, d # c PROVE Viewer(d)'
  <2>1. seen'[d] = seen[d] /\ sub'[d] = sub[d] /\ queue'[d] = queue[d]
    BY <1>1, <1>2, <1>6 DEF TypeOK
  <2>2. Ahead(d)' = Ahead(d)
    BY <2>1 DEF Ahead
  <2> QED BY <1>1, <1>2, <2>1, <2>2 DEF Viewer
<1> QED BY <1>3, <1>4, <1>5, <1>6 DEF Inductive

------------------------------------------------------------------------------
(* The theorems. *)

\* At first nothing is cached, and there is no viewer.
LEMMA InitInductive == Init => Inductive
<1> SUFFICES ASSUME Init PROVE Inductive
  OBVIOUS
<1>1. TypeOK
  <2>1. session \in 1..MaxSession /\ producer \in 1..session /\ unit \in 0..MaxUnit
    BY FanoutAssumption DEF Init
  <2>2. gop \in Seq(Video) /\ Len(gop) <= GopLimit
    BY FanoutAssumption DEF Init
  <2>3. stored \in [Nals -> AccessUnits \cup {None}]
    BY DEF Init
  <2>4. /\ queue \in [Clients -> Seq(Seq(Payload))]
        /\ \A c \in Clients : Len(queue[c]) <= Depth
    BY FanoutAssumption DEF Init
  <2>5. /\ sub \in [Clients -> {"no", "waiting", "ready"}]
        /\ seen \in [Clients -> Decoder]
    BY BlankTypes DEF Init
  <2>6. healthy \in BOOLEAN /\ declared \in BOOLEAN /\ codec \in Codecs \cup {DefaultCodec}
    BY DEF Init
  <2> QED BY <2>1, <2>2, <2>3, <2>4, <2>5, <2>6 DEF TypeOK
<1>2. Newest /\ OwnStored /\ CacheSound
  BY DEF Init, Newest, OwnStored, CacheSound
<1>3. ASSUME NEW c \in Clients PROVE Viewer(c)
  <2>1. sub[c] = "no" /\ queue[c] = << >> /\ seen[c] = Blank
    BY DEF Init
  <2>2. Ahead(c) = Blank
    BY <2>1, CatchUpEmpty DEF Ahead
  <2> QED BY <2>1, <2>2, BlankTypes DEF Viewer
<1> QED BY <1>1, <1>2, <1>3 DEF Inductive

\* Every step of the producer and of a viewer.
LEMMA StepInductive == Inductive /\ [Next]_vars => Inductive'
<1> SUFFICES ASSUME Inductive, [Next]_vars PROVE Inductive'
  OBVIOUS
<1>1. CASE NewProducer \/ Reconnect
  BY <1>1, SessionKeeps
<1>2. ASSUME NEW key \in BOOLEAN, NEW nals \in SUBSET Nals, Publish(key, nals)
      PROVE  Inductive'
  <2>1. CASE key = TRUE
    BY <1>2, <2>1, KeyKeeps
  <2>2. CASE key = FALSE
    BY <1>2, <2>2, DeltaKeeps
  <2> QED BY <2>1, <2>2
<1>3. CASE \E t \in Codecs : PublishAudio(t)
  BY <1>3, AudioKeeps
<1>4. CASE \E c \in Clients : Join(c) \/ Send(c) \/ Close(c)
  BY <1>4, JoinKeeps, SendKeeps, CloseKeeps
<1>5. CASE UNCHANGED vars
  <2>1. UNCHANGED <<session, producer, unit, stored, gop, healthy, sub, queue, seen,
                    codec, declared>>
    BY <1>5 DEF vars
  <2>2. TypeOK /\ Newest /\ OwnStored /\ CacheSound /\ \A c \in Clients : Viewer(c)
    BY DEF Inductive
  <2>3. TypeOK'
    BY <2>1, <2>2 DEF TypeOK
  <2>4. Newest' /\ OwnStored' /\ CacheSound'
    BY <2>1, <2>2 DEF Newest, OwnStored, CacheSound, Cache
  <2>5. ASSUME NEW c \in Clients PROVE Viewer(c)'
    <3>1. Ahead(c)' = Ahead(c)
      BY <2>1 DEF Ahead
    <3> QED BY <2>1, <2>2, <3>1 DEF Viewer
  <2> QED BY <2>3, <2>4, <2>5 DEF Inductive
<1> QED BY <1>1, <1>2, <1>3, <1>4, <1>5 DEF Next

\* The strengthened invariant holds for every number of viewers, queue depth,
\* cache size, codec and length of the producers' sessions.
THEOREM AlwaysInductive == Spec => []Inductive
BY InitInductive, StepInductive, PTL DEF Spec

\* No viewer is ever sent a delta picture without the one it refers to: publish
\* and the handlers keep every queue on from where its decoder stands.
THEOREM AlwaysDeltasFollow == Spec => []DeltasFollow
<1>1. Inductive => DeltasFollow
  <2> SUFFICES ASSUME Inductive, NEW c \in Clients PROVE ~seen[c].gap
    BY DEF DeltasFollow
  <2> QED BY AheadTypes DEF Inductive, Viewer, Later
<1> QED BY <1>1, AlwaysInductive, PTL

\* What a viewer sees first is a key frame with its own producer's parameter
\* sets, from the cache of _async_handle_client or the queue of async_publish.
THEOREM AlwaysStartsDecodable == Spec => []StartsDecodable
<1>1. Inductive => StartsDecodable
  <2> SUFFICES ASSUME Inductive, NEW c \in Clients PROVE ~seen[c].garbled
    BY DEF StartsDecodable
  <2> QED BY AheadTypes DEF Inductive, Viewer, Later
<1> QED BY <1>1, AlwaysInductive, PTL

\* Dropping a slow viewer in async_publish costs no other viewer a picture.
THEOREM AlwaysInStep == Spec => []InStep
<1>1. Inductive => InStep
  BY DEF Inductive, Viewer, InStep
<1> QED BY <1>1, AlwaysInductive, PTL

\* The tables a viewer was last sent declare the codec of the sound it gets.
THEOREM AlwaysSoundDeclared == Spec => []SoundDeclared
<1>1. Inductive => SoundDeclared
  BY DEF Inductive, Viewer, SoundDeclared
<1> QED BY <1>1, AlwaysInductive, PTL
==============================================================================
