--------------------------- MODULE ClientSettings ---------------------------
(***************************************************************************)
(* How the remote client changes a setting of its stream, and how what it  *)
(* shows follows (src/src/server/rtimvClientBase.cpp, the handlers of      *)
(* src/src/server/rtimvServer.cpp).                                        *)
(*                                                                         *)
(* Settings meet only in m_connected and in the replies that carry all of  *)
(* them, so the module follows one setting, of any kind, through a         *)
(* behaviour.  Most kinds are sent at once, whatever is already out; the   *)
(* coalesced kinds have one call out and remember that a newer one is      *)
(* wanted.  The handlers run on the server's threads in any order, and may *)
(* still run after the client's deadline of two seconds has passed.  The   *)
(* completions run on a gRPC thread and post what is queued to the Qt      *)
(* thread with QTimer::singleShot( 0 ): the user may act in between.       *)
(* Shutting down is in ClientShutdown, connecting in ClientConnection, what *)
(* the GUI makes of a value in MouseReadout and StatsDisplay.              *)
(***************************************************************************)
EXTENDS Naturals, Sequences

CONSTANTS
    Kinds,      \* the kinds of setting that are followed
    Values,     \* what a setting may be, a box or a pixel included
    MaxPicks,   \* bound on what the user asks for,
    MaxSent,    \* and on it when the kind is sent at once and does not add up
    MaxTrouble  \* bound on failing calls

Sent      == {"cube", "step", "processing", "hpFilter", "lpFilter", "mtf",
              "colorbar", "colormode", "autoscale"}
Boxes     == {"colorBox", "statsBox"}
Coalesced == {"pixel", "stretch", "scale"} \cup Boxes

KindsAssumption == Kinds \subseteq Sent \cup Coalesced
ValuesAssumption == Values \subseteq Nat /\ 0 \in Values
BoundAssumption ==
    MaxPicks \in Nat /\ MaxSent \in 0 .. MaxPicks /\ MaxTrouble \in Nat

VARIABLES
    kind,       \* the kind of setting this behaviour is about
    connected,  \* m_connected of the client
    source,     \* connected() of the server's stream: it has an image
    server,     \* the setting in the server's stream
    mirror,     \* the client's copy, which the GUI shows
    calls,      \* the calls that were made and are not over
    pending,    \* the id of the call of a coalesced kind that is out, or 0
    s,          \* the m_setXxx members of a coalesced kind
    timers,     \* singleShot( 0 ) events of the Qt thread
    image,      \* a reply with an image on its way to the client, or NoImage
    made,       \* number of calls made
    picks,      \* number of changes the user made
    trouble,    \* number of failed calls
    asked,      \* for the properties: what the user wants
    broken      \* for the properties: a call failed or was ignored

link == <<connected, source, trouble>>
user == <<picks, asked>>
vars == <<kind, link, server, mirror, calls, pending, s, timers, image, made,
          user, broken>>

None    == [tag |-> "none", value |-> 0]
Some(v) == [tag |-> "some", value |-> v]
Value   == [tag : {"none", "some"}, value : Nat]

\* What the members around one coalesced call remember.
Setter == [queued : BOOLEAN, desired : Nat, inflight : Nat,
           prevAtSend : Nat, awaitImage : BOOLEAN]

Call == [id : Nat \ {0}, value : Nat, open : BOOLEAN,
         state : {"sent", "handled", "ignored"}]

Init ==
    /\ kind \in Kinds
    /\ connected = TRUE
    /\ source \in BOOLEAN
    /\ server = 0 /\ mirror = 0
    /\ calls = {} /\ pending = 0
    /\ s = [queued |-> FALSE, desired |-> 0, inflight |-> 0,
            prevAtSend |-> 0, awaitImage |-> FALSE]
    /\ timers = <<>>
    /\ image = None
    /\ made = 0 /\ picks = 0 /\ trouble = 0
    /\ asked = 0 /\ broken = FALSE

-----------------------------------------------------------------------------
(* The setters that are sent at once.                                      *)

NewCall(v) == calls \cup {[id |-> made + 1, value |-> v, open |-> TRUE,
                           state |-> "sent"]}

\* The context goes into m_emptyRpcContexts; nothing else remembers the call.
Dispatch(v) ==
    /\ connected
    /\ calls' = NewCall(v)
    /\ made' = made + 1
    /\ UNCHANGED <<pending, s, timers>>

\* The user picks v, which is what he wants from now on.
Pick(v) ==
    /\ picks < IF kind \in Sent \ {"step"} THEN MaxSent ELSE MaxPicks
    /\ picks' = picks + 1
    /\ asked' = v
    /\ UNCHANGED <<kind, link, server, image, broken>>

Set(k, v)          == kind = k /\ Pick(v) /\ Dispatch(v) /\ UNCHANGED mirror
SetCube(v)         == Set("cube", v)
SetProcessing(v)   == Set("processing", v)
SetHPFilter(v)     == Set("hpFilter", v)
SetLPFilter(v)     == Set("lpFilter", v)
SetMTF(v)          == Set("mtf", v)
LoadColorbar(v)    == Set("colorbar", v)
SetAutoscale(v)    == Set("autoscale", v)

\* The colour mode is shown before the server knows of it.
SetColormode(v) == kind = "colormode" /\ Pick(v) /\ Dispatch(v) /\ mirror' = v

\* Steps of the cube add up at the server.
StepCube(v) ==
    kind = "step" /\ Pick(asked + v) /\ Dispatch(v) /\ UNCHANGED mirror

-----------------------------------------------------------------------------
(* The coalesced setters.                                                  *)

Send(v) ==
    /\ calls' = NewCall(v)
    /\ made' = made + 1
    /\ pending' = made + 1

\* One call at a time: a newer wish waits for the end of the call.
Coalesce(v, before) ==
    IF pending # 0 \/ s.awaitImage
    THEN /\ s' = [before EXCEPT !.queued = TRUE]
         /\ UNCHANGED <<calls, made, pending>>
    ELSE /\ s' = [before EXCEPT !.inflight = v]
         /\ Send(v)

RequestPixel(v) ==
    /\ kind = "pixel" /\ connected
    /\ Coalesce(v, [s EXCEPT !.desired = v])
    /\ UNCHANGED mirror

Stretch(v) ==
    /\ kind = "stretch" /\ connected
    /\ Coalesce(v, [s EXCEPT !.desired = v])
    /\ UNCHANGED mirror

\* The scale is shown at once, and only then read as the scale at send time.
ScaleData(v) ==
    /\ kind = "scale" /\ connected
    /\ mirror' = v
    /\ Coalesce(v, [s EXCEPT !.desired = v,
                     !.prevAtSend = IF pending # 0 \/ s.awaitImage
                                    THEN @ ELSE mirror'])

\* The request is built from the corners, which are the ones that are shown.
RequestBox(k, at) ==
    /\ kind = k
    /\ mirror' = at
    /\ IF connected
       THEN Coalesce(at, s)
       ELSE UNCHANGED <<s, calls, made, pending>>

RequestColorBox(at) == RequestBox("colorBox", at)
RequestStatsBox(at) == RequestBox("statsBox", at)

Ask(v) ==
    RequestPixel(v) \/ Stretch(v) \/ ScaleData(v)
        \/ RequestColorBox(v) \/ RequestStatsBox(v)

UserAsks(v) == Pick(v) /\ Ask(v) /\ UNCHANGED timers

\* A posted event asks again: for the captured value, or for the box as it is.
TimerFires ==
    /\ timers # <<>>
    /\ timers' = Tail(timers)
    /\ LET v == IF kind \in Boxes THEN mirror ELSE Head(timers)
       IN \/ Ask(v)
          \/ /\ ~connected /\ kind \notin Boxes
             /\ UNCHANGED <<mirror, calls, made, pending, s>>
    /\ UNCHANGED <<kind, link, server, image, user, broken>>

-----------------------------------------------------------------------------
(* The handlers of the server, for calls the client waits for or not.      *)

Over(c, st) ==
    calls' = (calls \ {c})
                \cup (IF c.open THEN {[c EXCEPT !.state = st]} ELSE {})

Serve(c, new) ==
    /\ c.state = "sent"
    /\ server' = new
    /\ Over(c, "handled")
    /\ UNCHANGED <<kind, link, mirror, pending, s, timers, image, made, user,
                   broken>>

\* Without an image some handlers answer OK, or invalid, and do nothing.
ServeImage(k, c, new) ==
    /\ kind = k
    /\ \/ source /\ Serve(c, new)
       \/ /\ ~source /\ c.state = "sent"
          /\ Over(c, "ignored")
          /\ broken' = TRUE
          /\ UNCHANGED <<kind, link, server, mirror, pending, s, timers, image,
                         made, user>>

HandleCube(c)       == ServeImage("cube", c, c.value)
HandleStep(c)       == ServeImage("step", c, server + c.value)
HandleMTF(c)        == ServeImage("mtf", c, c.value)
HandlePixel(c)      == ServeImage("pixel", c, server)
HandleColorBox(c)   == ServeImage("colorBox", c, c.value)
HandleStatsBox(c)   == ServeImage("statsBox", c, c.value)
HandleColour(c) ==
    kind \in {"colorbar", "colormode", "stretch"} /\ Serve(c, c.value)
HandleScale(c)      == kind = "scale" /\ Serve(c, c.value)
HandleProcessing(c) ==
    kind \in {"processing", "hpFilter", "autoscale"} /\ Serve(c, c.value)
HandleLPFilter(c)   == kind = "lpFilter" /\ Serve(c, c.value)

Handle(c) ==
    HandleCube(c) \/ HandleStep(c) \/ HandleMTF(c) \/ HandleColour(c)
        \/ HandleScale(c) \/ HandleProcessing(c) \/ HandleLPFilter(c)
        \/ HandlePixel(c) \/ HandleColorBox(c) \/ HandleStatsBox(c)

-----------------------------------------------------------------------------
(* The completions.                                                        *)

\* A call the client gave up on may still reach its handler.
Ends(c, ok, lost) ==
    /\ c.open
    /\ ok => c.state # "sent"
    /\ lost => ~ok
    /\ ok \/ trouble < MaxTrouble
    /\ trouble' = IF ok THEN trouble ELSE trouble + 1
    /\ calls' = (calls \ {c})
                   \cup (IF ~ok /\ c.state = "sent"
                         THEN {[c EXCEPT !.open = FALSE]} ELSE {})
    /\ connected' = (connected /\ ~lost)
    /\ broken' = (broken \/ ~ok)
    /\ UNCHANGED <<kind, source, server, image, made, user>>

\* What is queued when the call ends is posted to the Qt thread.
Post(v) ==
    /\ pending' = 0
    /\ timers' = IF s.queued THEN Append(timers, v) ELSE timers

EmptyRpcEnds(c, ok, lost) ==
    /\ kind \in Sent
    /\ Ends(c, ok, lost)
    /\ UNCHANGED <<mirror, pending, s, timers>>

PixelEnds(c, ok, lost) ==
    /\ kind = "pixel" /\ c.id = pending
    /\ Ends(c, ok, lost)
    /\ Post(s.desired)
    /\ s' = [s EXCEPT !.queued = FALSE]
    /\ UNCHANGED mirror

\* A valid answer puts the corners of its request back into the members.
BoxEnds(c, ok, lost) ==
    /\ c.id = pending
    /\ Ends(c, ok, lost)
    /\ mirror' = IF ok /\ c.state = "handled" THEN s.inflight ELSE mirror
    /\ Post(0)
    /\ s' = [s EXCEPT !.queued = FALSE]

ColorBoxEnds(c, ok, lost) == kind = "colorBox" /\ BoxEnds(c, ok, lost)
StatsBoxEnds(c, ok, lost) == kind = "statsBox" /\ BoxEnds(c, ok, lost)

StretchEnds(c, ok, lost) ==
    /\ kind = "stretch" /\ c.id = pending
    /\ Ends(c, ok, lost)
    /\ Post(s.desired)
    /\ s' = [s EXCEPT !.queued = FALSE]
    /\ UNCHANGED mirror

\* Mutant of ScaleEnds: success does not wait for the image.
ScaleEndsAtOnce(c, ok, lost) ==
    /\ kind = "scale" /\ c.id = pending
    /\ Ends(c, ok, lost)
    /\ pending' = 0
    /\ UNCHANGED <<timers, s>>
    /\ UNCHANGED mirror

\* Mutant of ScaleEnds: the queue is emptied by success as by failure.
ScaleEndsForgets(c, ok, lost) ==
    /\ kind = "scale" /\ c.id = pending
    /\ Ends(c, ok, lost)
    /\ IF ok
       THEN /\ s' = [s EXCEPT !.awaitImage = TRUE, !.queued = FALSE]
            /\ pending' = 0
            /\ UNCHANGED timers
       ELSE s' = [s EXCEPT !.queued = FALSE] /\ Post(s.desired)
    /\ UNCHANGED mirror

\* After success the queue waits for an image; only a failure posts.
ScaleEnds(c, ok, lost) ==
    /\ kind = "scale" /\ c.id = pending
    /\ Ends(c, ok, lost)
    /\ IF ok
       THEN /\ s' = [s EXCEPT !.awaitImage = TRUE]
            /\ pending' = 0
            /\ UNCHANGED timers
       ELSE s' = [s EXCEPT !.queued = FALSE] /\ Post(s.desired)
    /\ UNCHANGED mirror

-----------------------------------------------------------------------------
(* Images.                                                                 *)

\* The reply is filled from the settings as they are.
FillReply ==
    /\ connected /\ source /\ image = None
    /\ image' = Some(server)
    /\ UNCHANGED <<kind, link, server, mirror, calls, pending, s, timers,
                   made, user, broken>>

\* The test that ends the wait for an image after a change of the scale.
ScaleReflected(m) == m # s.prevAtSend \/ m = s.inflight

\* The reply replaces the client's copy; a queued scale is sent after it.
ImageReceived ==
    /\ image # None
    /\ image' = None
    /\ LET m    == image.value
           over == kind = "scale" /\ s.awaitImage /\ ScaleReflected(m)
           next == over /\ s.queued /\ pending = 0
           heard == [s EXCEPT !.awaitImage = @ /\ ~over,
                              !.queued = @ /\ ~next]
       IN IF next /\ connected
          THEN /\ mirror' = s.desired
               /\ s' = [heard EXCEPT !.inflight = s.desired,
                                     !.prevAtSend = s.desired]
               /\ Send(s.desired)
          ELSE /\ mirror' = IF kind = "pixel" THEN mirror ELSE m
               /\ s' = heard
               /\ UNCHANGED <<calls, made, pending>>
    /\ UNCHANGED <<kind, link, server, timers, user, broken>>

SourceConnects ==
    /\ ~source
    /\ source' = TRUE
    /\ UNCHANGED <<kind, connected, trouble, server, mirror, calls, pending,
                   s, timers, image, made, user, broken>>

\* The handshake of ClientConnection: to the old stream or to a new one.
Reconnect ==
    /\ ~connected
    /\ connected' = TRUE
    /\ server' \in {server, 0}
    /\ image' = None
    /\ UNCHANGED <<kind, source, trouble, mirror, calls, pending, s, timers,
                   made, user, broken>>

-----------------------------------------------------------------------------
UserStep ==
    \E v \in Values :
        \/ SetCube(v) \/ SetProcessing(v) \/ SetHPFilter(v) \/ SetLPFilter(v)
        \/ SetMTF(v) \/ LoadColorbar(v) \/ SetAutoscale(v) \/ SetColormode(v)
        \/ StepCube(v) \/ UserAsks(v)

Completion ==
    \E c \in calls : \E ok, lost \in BOOLEAN :
        \/ EmptyRpcEnds(c, ok, lost) \/ PixelEnds(c, ok, lost)
        \/ ColorBoxEnds(c, ok, lost) \/ StatsBoxEnds(c, ok, lost)
        \/ StretchEnds(c, ok, lost) \/ ScaleEnds(c, ok, lost)

Next ==
    \/ UserStep \/ TimerFires
    \/ \E c \in calls : Handle(c)
    \/ Completion
    \/ FillReply \/ ImageReceived
    \/ SourceConnects \/ Reconnect

Spec == Init /\ [][Next]_vars

-----------------------------------------------------------------------------
TypeOK ==
    /\ kind \in Kinds
    /\ connected \in BOOLEAN /\ source \in BOOLEAN
    /\ server \in Nat /\ mirror \in Nat
    /\ calls \subseteq Call /\ s \in Setter
    /\ pending \in 0 .. made
    /\ timers \in Seq(Nat)
    /\ image \in Value
    /\ made \in Nat /\ picks \in 0 .. MaxPicks /\ trouble \in 0 .. MaxTrouble
    /\ asked \in Nat /\ broken \in BOOLEAN

\* A wish that was queued always has something left that will send it: a
\* call whose completion posts it, or an image that ends the wait.
QueuedHasCarrier ==
    s.queued => pending # 0 \/ s.awaitImage

\* Nothing is on its way any more.
Quiet ==
    /\ calls = {} /\ timers = <<>> /\ image = None
    /\ ~s.queued /\ ~s.awaitImage

\* Once it is quiet, the server has the last scale the user set and is at the
\* frame his steps add up to, however the changes fell between calls, handlers
\* and images, as long as no call failed (minScaleData, cubeFrameDelta).
LastWishWins ==
    kind \in {"scale", "step"} /\ Quiet /\ ~broken => server = asked

=============================================================================
