---------------------------- MODULE LoopbackServer ----------------------------
(***************************************************************************)
(* The connections of H264LoopbackServer (runtime/stream.py): its listener,*)
(* one handler task per connection, the callbacks that tell the manager of *)
(* the first viewer and of the last departure, and async_stop.  The media  *)
(* that flows is in MediaFanout.                                           *)
(*                                                                         *)
(* Time is abstract: a timeout may expire whenever it is armed, except     *)
(* that a handler woken by the stop itself is closed (1 s) before the stop *)
(* cancels what is left (3 s).                                             *)
(***************************************************************************)
EXTENDS Naturals, FiniteSets

CONSTANTS
  Handlers,   \* identities of _async_handle_client tasks
  Starters,   \* calls of async_start, each naming the listener it may bind
  Stalled,    \* viewers that may stop reading and never close their end
  None

ASSUME NamesAssumption ==
  None \notin Handlers \cup Starters /\ Stalled \subseteq Handlers

VARIABLES
  server,     \* _server
  listening,  \* listeners whose socket is open
  start,      \* each call of async_start: "no", "binding", "done"
  subs,       \* the handlers whose queue is in _subscribers
  pc,         \* where each handler is
  via,        \* the listener that accepted each connection
  open,       \* handlers whose connection is not closed or aborted
  stop,       \* async_shutdown's progress through async_stop
  closed,     \* async_stop's local `server`
  waited,     \* async_stop's local `tasks`
  asked       \* the manager was last told of a viewer, not of a departure

vars == <<server, listening, start, subs, pc, via, open, stop, closed, waited,
          asked>>

PC == {"out", "request", "first", "greeting", "stream", "blocked",
       "closing", "late"}
Streams == {"greeting", "stream", "blocked"}
Stop == {"no", "shutdown", "waiting", "gather", "closing", "over"}

TypeOK ==
  /\ server \in Starters \cup {None} /\ listening \subseteq Starters
  /\ start \in [Starters -> {"no", "binding", "done"}]
  /\ subs \subseteq Handlers /\ open \subseteq Handlers
  /\ pc \in [Handlers -> PC]
  /\ via \in [Handlers -> Starters \cup {None}]
  /\ stop \in Stop /\ asked \in BOOLEAN
  /\ closed \in Starters \cup {None} /\ waited \subseteq Handlers

Init ==
  /\ server = None /\ listening = {}
  /\ start = [s \in Starters |-> "no"]
  /\ subs = {} /\ open = {}
  /\ pc = [h \in Handlers |-> "out"]
  /\ via = [h \in Handlers |-> None]
  /\ stop = "no" /\ closed = None /\ waited = {} /\ asked = FALSE

\* _stopping, and the manager's _shutdown that is set before it.
Stopping == stop \notin {"no", "shutdown"}
ShutDown == stop # "no"

------------------------------------------------------------------------------
(* async_start *)

\* The manager refuses to start a listener once it is shut down.
StartCall(s) ==
  /\ start[s] = "no" /\ ~ShutDown
  /\ start' = [start EXCEPT ![s] = IF server = None THEN "binding" ELSE "done"]
  /\ UNCHANGED <<server, listening, subs, pc, via, open, stop, closed, waited,
                 asked>>

\* start_server returns and _server is assigned, whatever it is by now.
Bind(s) ==
  /\ start[s] = "binding"
  /\ start' = [start EXCEPT ![s] = "done"]
  /\ server' = s
  /\ listening' = listening \cup {s}
  /\ UNCHANGED <<subs, pc, via, open, stop, closed, waited,
                 asked>>

------------------------------------------------------------------------------
(* _async_handle_client *)

Accept(h, s) ==
  /\ pc[h] = "out" /\ h \notin open \cup waited /\ s \in listening
  /\ pc' = [pc EXCEPT ![h] = "request"]
  /\ via' = [via EXCEPT ![h] = s]
  /\ open' = open \cup {h}
  /\ UNCHANGED <<server, listening, start, subs, stop, closed, waited, asked>>

\* A bad or missing request is answered and the connection closed.
BadRequest(h) ==
  /\ pc[h] = "request"
  /\ pc' = [pc EXCEPT ![h] = "closing"]
  /\ UNCHANGED <<server, listening, start, subs, via, open, stop, closed, waited,
                 asked>>

IsFirstTask == \A h \in Handlers : pc[h] \in {"out", "request"}
IsFirst == subs = {}

GoodRequest(h) ==
  /\ pc[h] = "request"
  /\ \/ /\ IsFirst
        /\ pc' = [pc EXCEPT ![h] = "first"]
        /\ UNCHANGED subs
     \/ /\ ~IsFirst
        /\ pc' = [pc EXCEPT ![h] = "greeting"]
        /\ subs' = subs \cup {h}
  /\ UNCHANGED <<server, listening, start, via, open, stop, closed, waited,
                 asked>>

MayAlwaysStart == TRUE
MayStart == ~ShutDown

\* The manager's connected callback returns (it may have waited for its lock)
\* or raises, which it always does once it is shut down.
FirstReturns(h) ==
  /\ pc[h] = "first"
  /\ \/ /\ MayStart
        /\ asked' = TRUE
        /\ subs' = subs \cup {h}
        /\ pc' = [pc EXCEPT ![h] = "greeting"]
     \/ /\ pc' = [pc EXCEPT ![h] = "closing"]
        /\ UNCHANGED <<asked, subs>>
  /\ UNCHANGED <<server, listening, start, via, open, stop, closed, waited>>

\* The first write, of headers and cached media, has no time limit: a viewer
\* that does not read holds its handler in it.
Greeted(h) ==
  /\ pc[h] = "greeting"
  /\ pc' = [pc EXCEPT ![h] = "stream"]
  /\ UNCHANGED <<server, listening, start, subs, via, open, stop, closed, waited,
                 asked>>

\* A later write that waits for the viewer, and the viewer reading again.
Block(h) ==
  /\ pc[h] = "stream" /\ h \in subs
  /\ pc' = [pc EXCEPT ![h] = "blocked"]
  /\ UNCHANGED <<server, listening, start, subs, via, open, stop, closed, waited,
                 asked>>

Unblock(h) ==
  /\ pc[h] = "blocked" /\ h \notin Stalled
  /\ pc' = [pc EXCEPT ![h] = "stream"]
  /\ UNCHANGED <<server, listening, start, subs, via, open, stop, closed, waited,
                 asked>>

\* A publish finds the viewer's queue full.
DropSlow(h) ==
  /\ h \in subs
  /\ subs' = subs \ {h}
  /\ UNCHANGED <<server, listening, start, pc, via, open, stop, closed, waited,
                 asked>>

LastIfSubscribed(h) == h \in subs /\ subs \ {h} = {} /\ ~Stopping
IsLast(h) == subs \ {h} = {} /\ ~Stopping

\* The finally clause up to writer.wait_closed().
Finish(h, at) ==
  /\ subs' = subs \ {h}
  /\ asked' = (asked /\ ~IsLast(h))
  /\ pc' = [pc EXCEPT ![h] = at]
  /\ UNCHANGED <<server, listening, start, via, open, stop, closed, waited>>

\* The viewer disconnects, or the sentinel is at the head of its queue.
Ends(h) == pc[h] = "stream" /\ Finish(h, "closing")
Sentinel(h) == h \notin subs /\ Ends(h)

\* A connection error while writing or, of the later writes, the time limit.
WriteFails(h) ==
  /\ pc[h] \in {"greeting", "blocked"}
  /\ Finish(h, IF Stopping THEN "late" ELSE "closing")

NoAbort == FALSE
AbortsAfterTimeout == TRUE

\* The connection closes within a second or is aborted.
Closed(h) ==
  /\ pc[h] \in {"closing", "late"}
  /\ h \in Stalled => AbortsAfterTimeout
  /\ pc' = [pc EXCEPT ![h] = "out"]
  /\ open' = open \ {h}
  /\ UNCHANGED <<server, listening, start, subs, via, stop, closed,
                 waited, asked>>

\* A connection that outlived its handler ends when the viewer ends it.
PeerCloses(h) ==
  /\ pc[h] = "out" /\ h \in open \ Stalled
  /\ open' = open \ {h}
  /\ UNCHANGED <<server, listening, start, subs, pc, via, stop, closed, waited,
                 asked>>

------------------------------------------------------------------------------
(* async_shutdown and async_stop *)

Shutdown ==
  /\ stop = "no"
  /\ stop' = "shutdown"
  /\ UNCHANGED <<server, listening, start, subs, pc, via, open, closed, waited,
                 asked>>

Running == {h \in Handlers : pc[h] # "out"}

\* Close the listener, send every viewer the sentinel, wait for the handlers.
StopBegins ==
  /\ stop = "shutdown"
  /\ stop' = "waiting"
  /\ closed' = server /\ server' = None
  /\ listening' = listening \ {server}
  /\ subs' = {}
  /\ waited' = Running
  /\ UNCHANGED <<start, pc, via, open, asked>>

\* task.cancel(): caught in the body, but it cuts short a wait for the close.
AfterCancel(h) ==
  CASE h \notin waited \/ pc[h] = "out" -> pc[h]
    [] pc[h] = "late"                   -> "out"
    [] OTHER                            -> "closing"

\* The handlers still running after three seconds are cancelled and gathered;
\* those that the sentinel woke are closed by then.
StopCancels ==
  /\ stop = "waiting" /\ waited \cap Running # {}
  /\ \A h \in waited : pc[h] \notin {"closing", "stream"}
  /\ pc' = [h \in Handlers |-> AfterCancel(h)]
  /\ stop' = "gather"
  /\ UNCHANGED <<server, listening, start, subs, via, open, closed, waited,
                 asked>>

Gathered ==
  /\ stop \in {"waiting", "gather"} /\ waited \cap Running = {}
  /\ stop' = "closing"
  /\ UNCHANGED <<server, listening, start, subs, pc, via, open, closed, waited,
                 asked>>

\* Server.wait_closed waits for every connection its listener accepted.
ServerClosed ==
  /\ stop = "closing"
  /\ \A h \in open : via[h] # closed
  /\ stop' = "over"
  /\ UNCHANGED <<server, listening, start, subs, pc, via, open, closed, waited,
                 asked>>

------------------------------------------------------------------------------
HandlerStep(h) ==
  \/ \E s \in Starters : Accept(h, s)
  \/ BadRequest(h) \/ GoodRequest(h) \/ FirstReturns(h)
  \/ Greeted(h) \/ Block(h) \/ Unblock(h) \/ DropSlow(h)
  \/ Ends(h) \/ WriteFails(h) \/ Closed(h) \/ PeerCloses(h)

Next ==
  \/ \E s \in Starters : StartCall(s) \/ Bind(s)
  \/ \E h \in Handlers : HandlerStep(h)
  \/ Shutdown \/ StopBegins \/ StopCancels \/ Gathered \/ ServerClosed

Spec == Init /\ [][Next]_vars

\* The requests, the manager's callback, the sentinel, later writes and closing
\* are bounded by timeouts or by the manager's lock.  Viewers owe nothing, but
\* those that are not Stalled read.
Fairness ==
  /\ \A h \in Handlers :
       /\ WF_vars(BadRequest(h) \/ GoodRequest(h)) /\ WF_vars(FirstReturns(h))
       /\ WF_vars(Sentinel(h)) /\ WF_vars(Closed(h))
       /\ WF_vars(h \notin Stalled /\ Greeted(h))
       /\ WF_vars(pc[h] = "blocked" /\ WriteFails(h))
  /\ WF_vars(StopBegins) /\ WF_vars(StopCancels)
  /\ WF_vars(Gathered) /\ WF_vars(ServerClosed)

FairSpec == Spec /\ Fairness

------------------------------------------------------------------------------
(* Properties *)

\* Whenever somebody is subscribed the manager has been asked for a producer
\* since the last departure it was told of.
ViewersKnown == subs # {} => asked

\* The manager learns that nobody is left: a departure is only unreported
\* while a dropped viewer's handler is still on its way to report it.  A viewer
\* that never takes the first write keeps it on its way until the stop.
DepartureReported ==
  asked /\ subs = {} /\ ~Stopping
    => \E h \in Handlers : pc[h] \in Streams

\* Nobody subscribes to a server that is stopping: the media of a session that
\* is being torn down reaches no new viewer.
StoppedIsEmpty == TypeOK /\ (Stopping => subs = {})

\* A viewer that was dropped for being slow loses its connection, whether it
\* reads again or not, so that its player starts over.  The one exception is a
\* viewer that never took the first write: nothing ends that but a stop.
SlowViewerCloses ==
  \A h \in Handlers :
    h \notin subs /\ pc[h] \in Streams /\ (pc[h] = "greeting" => h \notin Stalled)
      ~> pc[h] = "out"

\* async_stop gets past its handlers, however its viewers behave.
HandlersGathered == stop = "waiting" ~> stop \in {"closing", "over"}
==============================================================================
