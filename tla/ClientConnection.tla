-------------------------- MODULE ClientConnection --------------------------
(***************************************************************************)
(* How the remote client (src/src/server/rtimvClientBase.cpp) connects to  *)
(* rtimvServer, notices that the connection is gone, connects again and    *)
(* keeps a window of ImagePlease calls at the server.                      *)
(*                                                                         *)
(* The Qt thread runs the slots reconnect (a timer), ConnectionReceived,   *)
(* ImagePlease and ImageReceived; the gRPC threads run the completions.    *)
(* Emitting ImageNeeded on the Qt thread calls ImagePlease directly, after *)
(* the slot has released m_connectedMutex, so completions may come between *)
(* the two; from a gRPC thread it queues an event.  A completion that      *)
(* reports a failed call reads m_connections under one lock and clears     *)
(* m_connected under a later one: two steps.                               *)
(*                                                                         *)
(* The server is the environment: it knows this client or not, and its     *)
(* stream has a response serial that starts over when it is configured.    *)
(* Shutting the client down is not part of this module.                    *)
(***************************************************************************)
EXTENDS Naturals

CONSTANTS
    Window,      \* the largest m_targetImageWindow
    MaxSerial,   \* bound on the serial of one server stream
    MaxFaults,   \* bound on lost calls, restarts and evictions
    MaxEvents,   \* bound on queued events and running retry timers
    MaxReports,  \* bound on failed calls being reported at once
    LastName     \* the last image slot whose name is fetched (3 in the code)

ASSUME WindowAssumption == Window \in Nat \ {0}
ASSUME BoundsAssumption ==
    /\ MaxSerial \in Nat
    /\ MaxFaults \in Nat
    /\ MaxEvents \in Nat \ {0}
    /\ MaxReports \in Nat \ {0}
    /\ LastName \in Nat

VARIABLES
    server,       \* its stream for this client: [known, imaged, serial]
    faults,       \* faults so far
    connected,    \* m_connected
    request,      \* m_pendingConnectionRequest, or NoCall
    asking,       \* the Qt thread is about to run ImagePlease
    window,       \* m_targetImageWindow
    primed,       \* m_imagePipelinePrimed
    inflight,     \* m_inflightImageRequests of this generation, counted by
                  \* what the server has done about them
    completed,    \* serials in m_completedImageReplies
    lastApplied,  \* m_lastAppliedResponseSerial
    asks,         \* ImageNeeded events in the Qt queue, and retry timers
    arrivals,     \* ImageWaiting events in the Qt queue
    failing,      \* completions about to report this connection lost
    ping          \* the outstanding unary call (Ping or another): "none",
                  \* "fresh", or "stale" if sent to an earlier connection

env     == <<server, faults>>
link    == <<connected, request>>
replies == <<completed, lastApplied, arrivals>>
pool    == <<window, primed, inflight>>
reports == <<failing, ping>>
vars == <<env, link, asking, pool, replies, asks, reports>>

Streams == [known : BOOLEAN, imaged : BOOLEAN, serial : Nat]
Phases == {"probe", "configure", "name"}
Results == {"pending", "ok", "precondition", "error"}
Requests == [phase : Phases, image : Nat, result : Results]

NoCall == [phase |-> "none"]
Call(phase, image) ==
    [phase |-> phase, image |-> image, result |-> "pending"]

\* An image call waits at the server or is answered; the statuses
\* NOT_CONFIGURED and ERROR are never sent.
Answered == {"VALID", "NO_IMAGE", "TIMEOUT"}
Counts == [waiting : Nat, VALID : Nat, NO_IMAGE : Nat, TIMEOUT : Nat]
NoCalls == [waiting |-> 0, VALID |-> 0, NO_IMAGE |-> 0, TIMEOUT |-> 0]
Out == inflight.waiting + inflight.VALID + inflight.NO_IMAGE + inflight.TIMEOUT

Init ==
    /\ server = [known |-> FALSE, imaged |-> FALSE, serial |-> 0]
    /\ faults = 0
    /\ connected = FALSE
    /\ request = NoCall
    /\ asking = FALSE
    /\ window = Window
    /\ primed = FALSE
    /\ inflight = NoCalls
    /\ completed = {}
    /\ lastApplied = 0
    /\ asks = 0
    /\ arrivals = 0
    /\ failing = 0
    /\ ping = "none"

-----------------------------------------------------------------------------
(* The environment.                                                        *)

Fault == faults < MaxFaults /\ faults' = faults + 1

\* The server restarts, or removes a client it has not heard of; what it has
\* answered is still on its way.
ServerForgets ==
    /\ Fault
    /\ server.known
    /\ server' = [server EXCEPT !.known = FALSE]
    /\ UNCHANGED <<link, asking, pool, replies, asks, reports>>

\* The stream has a new response, perhaps its first image.
Publish ==
    /\ server.known
    /\ server.serial < MaxSerial
    /\ \E imaged \in {server.imaged, TRUE} :
          server' = [server EXCEPT !.serial = @ + 1, !.imaged = imaged]
    /\ UNCHANGED <<faults, link, asking, pool, replies, asks, reports>>

\* The server answers an image call (module ServerThread).
Answer(status) ==
    /\ server.known
    /\ inflight.waiting > 0
    /\ server.imaged <=> status # "NO_IMAGE"
    /\ inflight' = [inflight EXCEPT !.waiting = @ - 1, ![status] = @ + 1]
    /\ UNCHANGED <<env, link, asking, window, primed, replies, asks,
                   reports>>

-----------------------------------------------------------------------------
(* The connection handshake.                                               *)

\* The state changes of dispatchConnectionRequest for a probe or a configure:
\* m_connections counts a new generation; the image calls of the old one are
\* cancelled and what they brought is dropped: their completions, and a late
\* report of the old connection, change nothing any more.
NewGeneration ==
    /\ connected' = FALSE
    /\ completed' = {}
    /\ primed' = FALSE
    /\ inflight' = NoCalls
    /\ failing' = 0
    /\ ping' = IF ping = "fresh" THEN "stale" ELSE ping

\* The timer slot of a client that is not connected.
Probe ==
    /\ ~asking
    /\ ~connected
    /\ request = NoCall
    /\ request' = Call("probe", 0)
    /\ NewGeneration
    /\ UNCHANGED <<env, asking, window, lastApplied, arrivals, asks>>

\* connectionRequest_callback: the status is stored and ConnectionReceived
\* queued.
RequestCompletes(result) ==
    /\ request # NoCall
    /\ request.result = "pending"
    /\ request' = [request EXCEPT !.result = result]
    /\ UNCHANGED <<connected, asking, pool, replies, asks, reports>>

\* GetImageName, for a probe as well as for a name.
NameAnswered ==
    /\ request.phase \in {"probe", "name"}
    /\ RequestCompletes(IF server.known THEN "ok" ELSE "precondition")
    /\ UNCHANGED env

Configured ==
    server' = IF server.known THEN server
              ELSE [known |-> TRUE, imaged |-> FALSE, serial |-> 0]

\* Configure starts a stream unless there is one; both are reported as OK.
ConfigureAnswered ==
    /\ request.phase = "configure"
    /\ RequestCompletes("ok")
    /\ Configured
    /\ UNCHANGED faults

\* The call fails or its deadline passes; the server may have acted on it.
RequestFails ==
    /\ Fault
    /\ RequestCompletes("error")
    /\ \/ UNCHANGED server
       \/ request.phase = "configure" /\ Configured

\* Mutant of FinishConnection: the serial of the last connection stays.
FinishConnectionKeepsSerial ==
    /\ connected' = TRUE
    /\ completed' = {}
    /\ primed' = FALSE
    /\ asking' = TRUE
    /\ request' = NoCall
    /\ UNCHANGED <<env, window, inflight, lastApplied, arrivals, asks, reports>>

\* finishConnection, up to the ImageNeeded it emits.
FinishConnection ==
    /\ connected' = TRUE
    /\ completed' = {}
    /\ lastApplied' = 0
    /\ primed' = FALSE
    /\ asking' = TRUE
    /\ request' = NoCall
    /\ UNCHANGED <<env, window, inflight, arrivals, asks,
                   reports>>

\* ConnectionReceived, for an answer that is in.
Received(phase, results) ==
    /\ ~asking
    /\ request # NoCall
    /\ request.phase = phase
    /\ request.result \in results

ProbeSucceeded ==
    /\ Received("probe", {"ok"})
    /\ FinishConnection

ProbeRefused ==
    /\ Received("probe", {"precondition"})
    /\ request' = Call("configure", 0)
    /\ NewGeneration
    /\ UNCHANGED <<env, asking, window, lastApplied, arrivals, asks>>

\* Mutant of AttemptFailed: the failed request stays pending.
AttemptFailedStaysPending ==
    /\ Received("probe", {"error"}) \/ Received("configure", {"error"})
    /\ connected' = FALSE
    /\ UNCHANGED <<env, request, asking, pool, replies, asks, reports>>

\* A probe or a configure that failed leaves the client disconnected until the
\* timer tries again.
AttemptFailed ==
    /\ Received("probe", {"error"}) \/ Received("configure", {"error"})
    /\ request' = NoCall
    /\ connected' = FALSE
    /\ UNCHANGED <<env, asking, pool, replies, asks, reports>>

\* The names are fetched one by one, whether or not the call before succeeded.
FetchName ==
    /\ \/ /\ Received("configure", {"ok"})
          /\ request' = Call("name", 0)
       \/ /\ Received("name", {"ok", "precondition", "error"})
          /\ request.image < LastName
          /\ request' = Call("name", request.image + 1)
    /\ UNCHANGED <<env, connected, asking, pool, replies, asks,
                   reports>>

NamesDone ==
    /\ Received("name", {"ok", "precondition", "error"})
    /\ request.image >= LastName
    /\ FinishConnection

-----------------------------------------------------------------------------
(* The window of image calls.                                              *)

\* The slot ImagePlease, called directly, by an event or by a timer.  Calls of
\* earlier generations do not count.
ImagePlease ==
    /\ \/ asking /\ asking' = FALSE /\ UNCHANGED asks
       \/ ~asking /\ UNCHANGED asking /\ asks > 0 /\ asks' = asks - 1
    /\ LET target == IF primed THEN window ELSE 1 IN
       inflight' = IF connected /\ Out < target
                   THEN [inflight EXCEPT !.waiting = @ + (target - Out)]
                   ELSE inflight
    /\ UNCHANGED <<env, link, window, primed, replies, reports>>

\* imageRequestWindow, from the user interface.
SetWindow ==
    /\ ~asking
    /\ window' \in 1 .. Window
    /\ asking' = (window' > window)
    /\ UNCHANGED <<env, link, primed, inflight, replies, asks, reports>>

RoomForEvent == asks + arrivals < MaxEvents

\* ImagePlease_callback takes an answered call of this generation off the list.
Take(status) ==
    /\ inflight[status] > 0
    /\ RoomForEvent
    /\ inflight' = [inflight EXCEPT ![status] = @ - 1]
    /\ UNCHANGED <<link, asking, window, lastApplied, reports>>

\* Replies may come out of order.
ImageValid ==
    /\ Take("VALID")
    /\ \E s \in 1 .. server.serial : completed' = completed \cup {s}
    /\ primed' = TRUE
    /\ arrivals' = arrivals + 1
    /\ UNCHANGED <<env, asks>>

\* One call at a time, again after a back-off.
NoImage ==
    /\ Take("NO_IMAGE")
    /\ primed' = FALSE
    /\ asks' = asks + 1
    /\ UNCHANGED <<env, completed, arrivals>>

\* The server's TIMEOUT, or the deadline of a call it has not answered.
ImageTimeout ==
    /\ \/ Take("TIMEOUT") /\ UNCHANGED faults
       \/ Take("waiting") /\ Fault
    /\ asks' = asks + 1
    /\ UNCHANGED <<server, primed, completed, arrivals>>

\* A failed call is taken off the list; its report is still to come.
ImageFails ==
    /\ inflight.waiting > 0
    /\ failing < MaxReports
    /\ \/ ~server.known /\ UNCHANGED faults
       \/ Fault
    /\ inflight' = [inflight EXCEPT !.waiting = @ - 1]
    /\ failing' = failing + 1
    /\ UNCHANGED <<server, link, asking, window, primed, replies, asks,
                   ping>>

\* Mutant of ImageReceived: the newest reply is applied whatever its serial.
ImageReceivedUnfiltered ==
    /\ ~asking
    /\ arrivals > 0
    /\ arrivals' = arrivals - 1
    /\ IF completed = {}
       THEN UNCHANGED <<lastApplied, asking>>
       ELSE /\ \E newest \in completed :
                /\ \A s \in completed : s <= newest
                /\ lastApplied' = newest
            /\ asking' = TRUE
    /\ completed' = {}
    /\ UNCHANGED <<env, link, pool, asks, reports>>

\* Mutant of ImageReceived: the next image is asked for only after one that was
\* applied.
ImageReceivedQuiet ==
    /\ ~asking
    /\ arrivals > 0
    /\ arrivals' = arrivals - 1
    /\ IF completed = {}
       THEN UNCHANGED <<lastApplied, asking>>
       ELSE \E newest \in completed :
                /\ \A s \in completed : s <= newest
                /\ lastApplied' = IF newest > lastApplied THEN newest
                                                           ELSE lastApplied
                /\ asking' = (newest > lastApplied)
    /\ completed' = {}
    /\ UNCHANGED <<env, link, pool, asks, reports>>

\* The slot ImageReceived: the newest reply is applied if it is newer than the
\* last one applied, and the next image asked for.
ImageReceived ==
    /\ ~asking
    /\ arrivals > 0
    /\ arrivals' = arrivals - 1
    /\ IF completed = {}
       THEN UNCHANGED <<lastApplied, asking>>
       ELSE /\ \E newest \in completed :
                /\ \A s \in completed : s <= newest
                /\ lastApplied' = IF newest > lastApplied THEN newest
                                                           ELSE lastApplied
            /\ asking' = TRUE
    /\ completed' = {}
    /\ UNCHANGED <<env, link, pool, asks, reports>>

-----------------------------------------------------------------------------
(* Noticing that the connection is gone.  Ping stands for every unary call *)
(* with the same completion (REPORT_SERVER_DISCONNECTED).                  *)

\* The timer slot of a connected client.
SendPing ==
    /\ ~asking
    /\ connected
    /\ ping = "none"
    /\ ping' = "fresh"
    /\ UNCHANGED <<env, link, asking, pool, replies, asks, failing>>

\* Answered, or past its deadline, which is not taken for a lost connection.
PingEnds ==
    /\ ping # "none"
    /\ \/ server.known /\ UNCHANGED faults
       \/ Fault
    /\ ping' = "none"
    /\ UNCHANGED <<server, link, asking, pool, replies, asks, failing>>

\* Ping_callback with an error reads m_connections only now, so a Ping sent to
\* an earlier connection speaks for the present one.
PingFails ==
    /\ ping # "none"
    /\ failing < MaxReports
    /\ \/ ~server.known /\ UNCHANGED faults
       \/ Fault
    /\ ping' = "none"
    /\ failing' = failing + 1
    /\ UNCHANGED <<server, link, asking, pool, replies, asks>>

\* The second half of ImagePlease_callback, Ping_callback and
\* REPORT_SERVER_DISCONNECTED: only if m_connections has not changed since.
ReportLost ==
    /\ failing > 0
    /\ failing' = failing - 1
    /\ connected' = FALSE
    /\ UNCHANGED <<env, request, asking, pool, replies, asks, ping>>

-----------------------------------------------------------------------------
Environment == ServerForgets \/ Publish \/ SetWindow
Timer == Probe \/ SendPing
RequestEnds == NameAnswered \/ ConfigureAnswered \/ RequestFails
ConnectionReceived ==
    \/ ProbeSucceeded
    \/ ProbeRefused
    \/ AttemptFailed
    \/ FetchName
    \/ NamesDone
ServerAnswers == \E status \in Answered : Answer(status)
ImageCompletes == ImageValid \/ NoImage \/ ImageTimeout \/ ImageFails
PingCompletes == PingEnds \/ PingFails

Next ==
    \/ Environment
    \/ Timer
    \/ RequestEnds
    \/ ConnectionReceived
    \/ ServerAnswers
    \/ ImagePlease
    \/ ImageReceived
    \/ ImageCompletes
    \/ PingCompletes
    \/ ReportLost

Spec == Init /\ [][Next]_vars

\* Every call completes (all of them have deadlines) and its completion runs to
\* its end.  The Qt event loop takes timers and events in the order they come,
\* so none of them waits forever while others run: strong fairness for its
\* slots.  The server answers what it can; it need not publish anything.
Fairness ==
    /\ SF_vars(Timer)
    /\ WF_vars(RequestEnds)
    /\ SF_vars(ConnectionReceived)
    /\ WF_vars(ServerAnswers)
    /\ WF_vars(ImagePlease)
    /\ SF_vars(ImageReceived)
    /\ WF_vars(ImageCompletes)
    /\ WF_vars(PingCompletes)
    /\ WF_vars(ReportLost)

FairSpec == Spec /\ Fairness

-----------------------------------------------------------------------------
(* Properties.                                                             *)

TypeOK ==
    /\ server \in Streams
    /\ faults \in Nat
    /\ connected \in BOOLEAN
    /\ request \in {NoCall} \cup Requests
    /\ asking \in BOOLEAN
    /\ window \in 1 .. Window
    /\ primed \in BOOLEAN
    /\ inflight \in Counts
    /\ completed \in SUBSET Nat
    /\ lastApplied \in Nat
    /\ asks \in Nat
    /\ arrivals \in Nat
    /\ failing \in Nat
    /\ ping \in {"none", "fresh", "stale"}

\* A connected client never falls silent: a call is out, something that will
\* send one is on its way, or the loss of the connection is about to be
\* reported, whatever the order of replies, timeouts, failures and restarts
\* (rtimvClientBase.cpp:1178-1226, 1447-1487, 1822-1957).
NeverSilent ==
    connected =>
        \/ Out > 0
        \/ asking
        \/ asks > 0
        \/ failing > 0
        \/ completed # {} /\ arrivals > 0

\* The serial filter cannot freeze the display: after the server stream has
\* started over, no reply and no serial of the old stream is left in a
\* connected client that would make it drop the images of the new one
\* (rtimvClientBase.cpp:977, 1160-1161, 1473, 1850).
FilterNotAhead ==
    connected => \A s \in {lastApplied} \cup completed : s <= server.serial

\* While a handshake call is out the client is not connected and has no image
\* call or reply of its own, so no image of the connection being replaced can
\* be applied as one of the new connection
\* (rtimvClientBase.cpp:970-986, 1148-1176).
HandshakeIsExclusive ==
    request # NoCall => ~connected /\ Out = 0 /\ completed = {}

\* The display never goes back: replies that overtake each other are not applied
\* out of order, except that a new connection starts over
\* (rtimvClientBase.cpp:1464-1481).
AppliedInOrder ==
    [][lastApplied' < lastApplied => ~connected /\ connected']_vars

\* With faults that end, the client is again and again connected with a call at
\* the server: probes, configuration, failed name calls, late reports of a lost
\* connection, NO_IMAGE back-off and timeouts never leave it stuck
\* (rtimvClientBase.cpp:922-1226).
KeepsAsking == []<>(connected /\ Out > 0)

\* rtimvClientBase.hpp:115: m_connections is "Used to prevent threads from
\* re-requesting re-connections for the same event": the failure of a call that
\* was sent to an earlier connection does not take down the present one.
OldFailuresIgnored ==
    [][connected /\ ping = "stale" /\ ping' = "none" => failing' = failing]_vars
=============================================================================
