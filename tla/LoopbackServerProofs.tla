------------------------- MODULE LoopbackServerProofs -------------------------
(***************************************************************************)
(* Proofs about LoopbackServer, for any number of connections, listeners   *)
(* and stalled viewers.                                                    *)
(***************************************************************************)
EXTENDS LoopbackServer, TLAPS

\* Only a handler that streams has a queue.
SubscribersStream == \A h \in subs : pc[h] \in Streams

Inductive ==
  TypeOK /\ SubscribersStream /\ ViewersKnown /\ DepartureReported /\ StoppedIsEmpty

------------------------------------------------------------------------------

\* A server starts without listeners, handlers and subscribers.
LEMMA InitInductive == Init => Inductive
  <1> SUFFICES ASSUME Init PROVE Inductive
    OBVIOUS
  <1>1. TypeOK
    BY DEF Init, TypeOK, PC, Stop
  <1>2. SubscribersStream /\ ViewersKnown /\ ~asked
    BY DEF Init, SubscribersStream, ViewersKnown
  <1>3. stop = "no"
    BY DEF Init
  <1> QED BY <1>1, <1>2, <1>3 DEF Inductive, DepartureReported, StoppedIsEmpty, Stopping

\* The ranges, and that nothing but async_shutdown moves the stop.
LEMMA StepTypes == TypeOK /\ [Next]_vars => TypeOK'
  <1> SUFFICES ASSUME TypeOK, [Next]_vars PROVE TypeOK'
    OBVIOUS
  <1> USE DEF TypeOK, PC, Stop, Streams
  <1>1. ASSUME NEW s \in Starters, StartCall(s) \/ Bind(s) PROVE TypeOK'
    BY <1>1 DEF StartCall, Bind
  <1>2. ASSUME NEW h \in Handlers, NEW s \in Starters, Accept(h, s) PROVE TypeOK'
    BY <1>2 DEF Accept
  <1>3. ASSUME NEW h \in Handlers, BadRequest(h) \/ GoodRequest(h) PROVE TypeOK'
    BY <1>3 DEF BadRequest, GoodRequest
  <1>4. ASSUME NEW h \in Handlers, FirstReturns(h) PROVE TypeOK'
    BY <1>4 DEF FirstReturns
  <1>5. ASSUME NEW h \in Handlers, Greeted(h) \/ Block(h) \/ Unblock(h) \/ DropSlow(h) PROVE TypeOK'
    BY <1>5 DEF Greeted, Block, Unblock, DropSlow
  <1>6. ASSUME NEW h \in Handlers, Ends(h) \/ WriteFails(h) PROVE TypeOK'
    <2>1. asked' \in BOOLEAN
      BY <1>6 DEF Ends, WriteFails, Finish
    <2>2. PICK at \in PC : Finish(h, at)
      BY <1>6 DEF Ends, WriteFails
    <2> QED BY <2>1, <2>2 DEF Finish
  <1>7. ASSUME NEW h \in Handlers, Closed(h) \/ PeerCloses(h) PROVE TypeOK'
    BY <1>7 DEF Closed, PeerCloses
  <1>8. CASE Shutdown \/ StopBegins
    BY <1>8 DEF Shutdown, StopBegins, Running
  <1>9. CASE StopCancels
    <2>1. \A h \in Handlers : AfterCancel(h) \in PC
      BY DEF AfterCancel
    <2> QED BY <1>9, <2>1 DEF StopCancels
  <1>10. CASE Gathered \/ ServerClosed
    BY <1>10 DEF Gathered, ServerClosed
  <1>11. CASE UNCHANGED vars
    BY <1>11 DEF vars
  <1> QED BY <1>1, <1>2, <1>3, <1>4, <1>5, <1>6, <1>7, <1>8, <1>9, <1>10, <1>11
    DEF Next, HandlerStep

\* A handler that leaves its streaming loop reports the departure if it is the
\* last of a server that runs.
LEMMA FinishInductive ==
  ASSUME Inductive, TypeOK', NEW h \in Handlers, NEW at, Finish(h, at)
  PROVE  Inductive'
  <1> USE DEF Inductive, Streams
  <1>1. /\ subs' = subs \ {h} /\ asked' = (asked /\ ~IsLast(h)) /\ stop' = stop
        /\ pc' = [pc EXCEPT ![h] = at]
    BY DEF Finish
  <1>2. SubscribersStream'
    BY <1>1 DEF SubscribersStream, TypeOK
  <1>3. ViewersKnown'
    BY <1>1 DEF ViewersKnown, IsLast
  <1>4. StoppedIsEmpty'
    BY <1>1 DEF StoppedIsEmpty, Stopping
  <1>5. DepartureReported'
    BY <1>1 DEF DepartureReported, IsLast, Stopping
  <1> QED BY <1>2, <1>3, <1>4, <1>5

\* Steps that touch neither the subscribers nor what the manager knows.
LEMMA OtherInductive ==
  ASSUME Inductive, TypeOK', UNCHANGED <<subs, asked>>,
         Stopping => Stopping', Stopping' => subs = {},
         \A h \in Handlers : pc[h] \in Streams => pc'[h] \in Streams \/ Stopping'
  PROVE  Inductive'
  <1>1. SubscribersStream'
    BY DEF Inductive, SubscribersStream, TypeOK
  <1>2. ViewersKnown' /\ StoppedIsEmpty'
    BY DEF Inductive, ViewersKnown, StoppedIsEmpty
  <1>3. DepartureReported'
    BY DEF Inductive, DepartureReported
  <1> QED BY <1>1, <1>2, <1>3 DEF Inductive

\* Every step of a handler, a viewer, a listener and the stop.
LEMMA StepInductive == Inductive /\ [Next]_vars => Inductive'
  <1> SUFFICES ASSUME Inductive, [Next]_vars PROVE Inductive'
    OBVIOUS
  <1> USE DEF Streams
  <1>0. TypeOK /\ TypeOK' /\ (Stopping => subs = {})
    BY StepTypes DEF Inductive, StoppedIsEmpty
  <1>1. ASSUME NEW s \in Starters, StartCall(s) \/ Bind(s) PROVE Inductive'
    BY <1>0, <1>1, OtherInductive DEF StartCall, Bind, Stopping
  <1>2. ASSUME NEW h \in Handlers, NEW s \in Starters, Accept(h, s) PROVE Inductive'
    BY <1>0, <1>2, OtherInductive DEF Accept, Stopping, TypeOK
  <1>3. ASSUME NEW h \in Handlers, BadRequest(h) PROVE Inductive'
    BY <1>0, <1>3, OtherInductive DEF BadRequest, Stopping, TypeOK
  <1>4. ASSUME NEW h \in Handlers, GoodRequest(h) PROVE Inductive'
    <2>1. CASE IsFirst
      BY <1>0, <1>4, <2>1, OtherInductive DEF GoodRequest, Stopping, TypeOK
    <2>2. CASE ~IsFirst
      <3>1. /\ pc[h] = "request" /\ pc' = [pc EXCEPT ![h] = "greeting"] /\ subs' = subs \cup {h}
            /\ asked' = asked /\ stop' = stop /\ asked /\ ~Stopping
        BY <1>0, <1>4, <2>2 DEF GoodRequest, IsFirst, Inductive, ViewersKnown
      <3>2. SubscribersStream' /\ subs' # {}
        BY <1>0, <3>1 DEF Inductive, SubscribersStream, TypeOK
      <3> QED BY <1>0, <3>1, <3>2
        DEF Inductive, ViewersKnown, DepartureReported, StoppedIsEmpty, Stopping
    <2> QED BY <2>1, <2>2
  <1>5. ASSUME NEW h \in Handlers, FirstReturns(h) PROVE Inductive'
    <2>1. CASE UNCHANGED <<asked, subs>>
      BY <1>0, <1>5, <2>1, OtherInductive DEF FirstReturns, Stopping, TypeOK
    <2>2. CASE ~UNCHANGED <<asked, subs>>
      <3>1. /\ MayStart /\ asked' = TRUE /\ subs' = subs \cup {h} /\ stop' = stop
            /\ pc' = [pc EXCEPT ![h] = "greeting"]
        BY <1>5, <2>2 DEF FirstReturns
      <3>2. ~Stopping'
        BY <3>1 DEF MayStart, ShutDown, Stopping
      <3>3. SubscribersStream' /\ subs' # {}
        BY <1>0, <3>1 DEF Inductive, SubscribersStream, TypeOK
      <3> QED BY <1>0, <3>1, <3>2, <3>3
        DEF Inductive, ViewersKnown, DepartureReported, StoppedIsEmpty
    <2> QED BY <2>1, <2>2
  <1>6. ASSUME NEW h \in Handlers, Greeted(h) \/ Block(h) \/ Unblock(h) PROVE Inductive'
    BY <1>0, <1>6, OtherInductive DEF Greeted, Block, Unblock, Stopping, TypeOK
  <1>7. ASSUME NEW h \in Handlers, DropSlow(h) PROVE Inductive'
    <2>1. /\ h \in subs /\ subs' = subs \ {h} /\ pc' = pc /\ asked' = asked /\ stop' = stop
          /\ pc[h] \in Streams
      BY <1>7 DEF DropSlow, Inductive, SubscribersStream
    <2>2. SubscribersStream' /\ ViewersKnown' /\ DepartureReported'
      BY <2>1 DEF Inductive, SubscribersStream, ViewersKnown, DepartureReported
    <2> QED BY <1>0, <2>1, <2>2 DEF Inductive, StoppedIsEmpty, Stopping
  <1>8. ASSUME NEW h \in Handlers, Ends(h) \/ WriteFails(h) PROVE Inductive'
    BY <1>0, <1>8, FinishInductive DEF Ends, WriteFails
  <1>9. ASSUME NEW h \in Handlers, Closed(h) \/ PeerCloses(h) PROVE Inductive'
    BY <1>0, <1>9, OtherInductive DEF Closed, PeerCloses, Stopping, TypeOK
  <1>10. CASE Shutdown \/ Gathered \/ ServerClosed
    BY <1>0, <1>10, OtherInductive DEF Shutdown, Gathered, ServerClosed, Stopping
  <1>11. CASE StopBegins
    BY <1>0, <1>11
    DEF StopBegins, Stopping, Inductive, SubscribersStream, ViewersKnown, DepartureReported,
        StoppedIsEmpty
  <1>12. CASE StopCancels
    BY <1>0, <1>12, OtherInductive DEF StopCancels, Stopping
  <1>13. CASE UNCHANGED vars
    BY <1>0, <1>13, OtherInductive DEF vars, Stopping
  <1> QED BY <1>1, <1>2, <1>3, <1>4, <1>5, <1>6, <1>7, <1>8, <1>9, <1>10, <1>11, <1>12,
      <1>13
    DEF Next, HandlerStep

\* The inductive invariant holds in every state of the server.
THEOREM AlwaysInductive == Spec => []Inductive
  <1> QED BY InitInductive, StepInductive, PTL DEF Spec

\* No viewer streams from a manager that was not asked for a producer since the
\* last departure, whichever handler wins the race to the callbacks.
THEOREM AlwaysViewersKnown == Spec => []ViewersKnown
  <1>1. Inductive => ViewersKnown
    BY DEF Inductive
  <1> QED BY <1>1, AlwaysInductive, PTL

\* The last departure is reported, or a dropped viewer is on its way to do it.
THEOREM AlwaysDepartureReported == Spec => []DepartureReported
  <1>1. Inductive => DepartureReported
    BY DEF Inductive
  <1> QED BY <1>1, AlwaysInductive, PTL

\* A stopping server has no subscriber and gets none, although handlers that
\* were accepted before still run.
THEOREM AlwaysStoppedIsEmpty == Spec => []StoppedIsEmpty
  <1>1. Inductive => StoppedIsEmpty
    BY DEF Inductive
  <1> QED BY <1>1, AlwaysInductive, PTL
==============================================================================
