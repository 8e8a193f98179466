-------------------------- MODULE GlobalStatsIntent --------------------------
(***************************************************************************)
(* How the remote client carries the user's choice about the global        *)
(* statistics (on or off, and whether the mask selects the sample) to the  *)
(* server of the day: src/src/server/rtimvClientBase.cpp.                  *)
(*                                                                         *)
(* The choice outlives connections.  It is sent when an image has shown    *)
(* that the server knows the statistics, one call at a time, and again     *)
(* after every connection.  Old servers know neither the field nor the     *)
(* call; some know only the field.                                         *)
(***************************************************************************)
EXTENDS Naturals, FiniteSets

CONSTANTS
    Pairs,       \* the choices: enabled and use_mask together
    Default,     \* the choice a new stream starts with
    MaxWishes,   \* bound on what the user asks for
    MaxFaults    \* bound on lost connections and failing calls

PairsAssumption == Default \in Pairs
FaultAssumption == MaxWishes \in Nat /\ MaxFaults \in Nat

VARIABLES
    gLink,      \* m_connections, m_connected, and a handshake that is on
    gKnows,     \* what the server offers: "all", "field" or "none"
    gStream,    \* the choice in the server's stream
    gWant,      \* m_globalStatsDesired, m_globalStatsMaskDesired and HaveIntent
    gShown,     \* m_globalStats: the pair and the status
    gFlags,     \* m_globalStatsSupported, ..RpcUnsupported, ..Sent, ..LastSent
    gCall,      \* m_pendingGlobalStats
    gEvents,    \* queued GlobalStatsReceived slots
    gReply,     \* a reply to ImagePlease on its way, with its generation
    gStray,     \* calls the client gave up, whose handlers may still run
    gCount,     \* wishes and faults so far
    gOverrun    \* for the properties: such a handler ran

gvars == <<gLink, gKnows, gStream, gWant, gShown, gFlags, gCall, gEvents,
           gReply, gStray, gCount, gOverrun>>

NoPair == "no pair"
NoCall == [gen |-> 0, pair |-> NoPair, status |-> "none"]
Calls  == [gen : Nat, pair : Pairs \cup {NoPair},
           status : {"none", "sent", "handled", "ok", "unimplemented", "failed"}]
Flags  == [supported : BOOLEAN, rpcUnsupported : BOOLEAN, sent : BOOLEAN,
           last : Pairs \cup {NoPair}]
Shown  == [pair : Pairs,
           status : {"unavailable", "known", "noImage", "unsupported"}]

Cleared(st) == [pair |-> Default, status |-> st]

Init ==
    /\ gLink = [gen |-> 1, up |-> TRUE, shaking |-> FALSE]
    /\ gKnows \in {"all", "field", "none"}
    /\ gStream = Default /\ gWant = NoPair
    /\ gShown = Cleared("unavailable")
    /\ gFlags = [supported |-> FALSE, rpcUnsupported |-> FALSE, sent |-> FALSE,
                 last |-> NoPair]
    /\ gCall = NoCall /\ gEvents = 0
    /\ gReply = NoCall /\ gStray = {}
    /\ gCount = [wishes |-> 0, faults |-> 0] /\ gOverrun = FALSE

\* dispatchGlobalStats, with the flags f after what its caller did: one call
\* at a time, and never the pair that was sent last over this connection.
DispatchGlobalStats(want, up, call, f) ==
    LET go == /\ up /\ f.supported
              /\ want # NoPair /\ call = NoCall
              /\ ~(f.sent /\ f.last = want)
    IN /\ gCall' = IF go THEN [gen |-> gLink.gen, pair |-> want,
                               status |-> "sent"] ELSE call
       /\ gFlags' = IF go THEN [f EXCEPT !.sent = TRUE, !.last = want] ELSE f

GlobalStats(v) ==
    /\ gCount.wishes < MaxWishes
    /\ gCount' = [gCount EXCEPT !.wishes = @ + 1]
    /\ gWant' = v
    /\ DispatchGlobalStats(v, gLink.up, gCall, gFlags)
    /\ UNCHANGED <<gLink, gKnows, gStream, gShown, gEvents, gReply, gStray,
                   gOverrun>>

\* The handler stores the pair before it answers; a new stream that has no
\* image yet ignores what was meant for its predecessor.
SetGlobalStats ==
    /\ gCall.status = "sent" /\ gKnows = "all"
    /\ \/ gStream' = gCall.pair
       \/ gCall.gen # gLink.gen /\ UNCHANGED gStream
    /\ gCall' = [gCall EXCEPT !.status = "handled"]
    /\ UNCHANGED <<gLink, gKnows, gWant, gShown, gFlags, gEvents, gReply,
                   gStray, gCount, gOverrun>>

\* It may also run, or go on, when the client has given up on its answer.
LateHandler(v) ==
    /\ v \in gStray
    /\ gStray' = gStray \ {v}
    /\ gStream' = v
    /\ gOverrun' = TRUE
    /\ UNCHANGED <<gLink, gKnows, gWant, gShown, gFlags, gCall, gEvents,
                   gReply, gCount>>

GlobalStatsCallback(status) ==
    /\ gCall.status \in {"sent", "handled"}
    /\ status = "ok" => gCall.status = "handled"
    /\ status = "unimplemented" => gKnows # "all"
    /\ status = "failed" => gCount.faults < MaxFaults
    /\ gCount' = IF status = "failed"
                 THEN [gCount EXCEPT !.faults = @ + 1] ELSE gCount
    /\ gStray' = IF gCall.status = "sent" /\ gKnows = "all"
                 THEN gStray \cup {gCall.pair} ELSE gStray
    /\ gCall' = [gCall EXCEPT !.status = status]
    /\ gEvents' = gEvents + 1
    /\ UNCHANGED <<gLink, gKnows, gStream, gWant, gShown, gFlags, gReply,
                   gOverrun>>

\* Only a failure of a call of this connection takes the connection down, or
\* marks the server as one without the call; either way the next is sent.
GlobalStatsReceived ==
    /\ gEvents > 0
    /\ gEvents' = gEvents - 1
    /\ LET over == gCall.status \in {"ok", "unimplemented", "failed"}
           mine == over /\ gCall.gen = gLink.gen /\ gCall.status # "ok"
           old  == mine /\ gCall.status = "unimplemented"
           lost == mine /\ ~old
           f    == [gFlags EXCEPT !.supported = @ /\ ~old,
                                  !.rpcUnsupported = @ \/ old,
                                  !.sent = @ /\ ~lost]
       IN /\ gShown' = IF old THEN Cleared("unsupported")
                       ELSE IF lost THEN Cleared("noImage") ELSE gShown
          /\ gLink' = [gLink EXCEPT !.up = @ /\ ~lost]
          /\ IF over
             THEN DispatchGlobalStats(gWant, gLink'.up, NoCall, f)
             ELSE UNCHANGED <<gCall, gFlags>>
    /\ UNCHANGED <<gKnows, gStream, gWant, gReply, gStray, gCount, gOverrun>>

-----------------------------------------------------------------------------
\* The server answers ImagePlease: with the image, or that there is none.
FillGlobalStats(st) ==
    /\ gLink.up /\ gReply = NoCall
    /\ gReply' = [gen |-> gLink.gen, pair |-> gStream, status |-> st]
    /\ UNCHANGED <<gLink, gKnows, gStream, gWant, gShown, gFlags, gCall,
                   gEvents, gStray, gCount, gOverrun>>

\* Mutant of ReceiveGlobalStats: what the server said is shown, no more.
ReceiveGlobalStatsOnly ==
    /\ gReply.status = "ok"
    /\ gReply' = NoCall
    /\ gShown' = [pair |-> gReply.pair, status |-> "known"]
    /\ gFlags' = [gFlags EXCEPT !.supported =
                     gKnows # "none" /\ ~gFlags.rpcUnsupported]
    /\ UNCHANGED <<gLink, gKnows, gStream, gWant, gCall, gEvents, gStray,
                   gCount, gOverrun>>

\* receiveGlobalStats, the end of ImageReceived.
ReceiveGlobalStats ==
    /\ gReply.status = "ok"
    /\ gReply' = NoCall
    /\ LET has == gKnows # "none" /\ ~gFlags.rpcUnsupported
       IN /\ gShown' = IF has THEN [pair |-> gReply.pair, status |-> "known"]
                       ELSE Cleared("unsupported")
          /\ DispatchGlobalStats(gWant, gLink.up, gCall,
                                 [gFlags EXCEPT !.supported = has])
    /\ UNCHANGED <<gLink, gKnows, gStream, gWant, gEvents, gStray, gCount,
                   gOverrun>>

\* The measurements go, the mode stays; a queued slot of an older connection
\* changes nothing.
GlobalStatsUnavailable ==
    /\ gReply.status = "none" /\ gReply # NoCall
    /\ gReply' = NoCall
    /\ gShown' = IF gReply.gen = gLink.gen
                 THEN [gShown EXCEPT !.status = "noImage"] ELSE gShown
    /\ UNCHANGED <<gLink, gKnows, gStream, gWant, gFlags, gCall, gEvents,
                   gStray, gCount, gOverrun>>

-----------------------------------------------------------------------------
\* A call of another kind finds the server gone.
ReportLost ==
    /\ gLink.up /\ gCount.faults < MaxFaults
    /\ gCount' = [gCount EXCEPT !.faults = @ + 1]
    /\ gLink' = [gLink EXCEPT !.up = FALSE]
    /\ UNCHANGED <<gKnows, gStream, gWant, gShown, gFlags, gCall, gEvents,
                   gReply, gStray, gOverrun>>

\* Images that have come are dropped with the old connection; the server may
\* be another one, or have made a new stream.
DispatchConnectionRequest ==
    /\ ~gLink.up /\ ~gLink.shaking
    /\ gLink' = [gLink EXCEPT !.gen = @ + 1, !.shaking = TRUE]
    /\ gReply' = IF gReply.status = "ok" THEN NoCall ELSE gReply
    /\ \/ UNCHANGED <<gKnows, gStream, gStray>>
       \/ /\ gKnows' \in {"all", "field", "none"}
          /\ gStream' = Default /\ gStray' = {}
    /\ UNCHANGED <<gWant, gShown, gFlags, gCall, gEvents, gCount, gOverrun>>

\* Mutant of FinishConnection: what was sent over the old connection counts.
FinishConnectionKeeps ==
    /\ gLink.shaking
    /\ gLink' = [gLink EXCEPT !.up = TRUE, !.shaking = FALSE]
    /\ gShown' = Cleared("unavailable")
    /\ gFlags' = [gFlags EXCEPT !.supported = FALSE, !.rpcUnsupported = FALSE]
    /\ UNCHANGED <<gKnows, gStream, gWant, gCall, gEvents, gReply, gStray,
                   gCount, gOverrun>>

FinishConnection ==
    /\ gLink.shaking
    /\ gLink' = [gLink EXCEPT !.up = TRUE, !.shaking = FALSE]
    /\ gShown' = Cleared("unavailable")
    /\ gFlags' = [gFlags EXCEPT !.supported = FALSE, !.rpcUnsupported = FALSE,
                                !.sent = FALSE]
    /\ UNCHANGED <<gKnows, gStream, gWant, gCall, gEvents, gReply, gStray,
                   gCount, gOverrun>>

-----------------------------------------------------------------------------
Completes == \E status \in {"ok", "unimplemented"} : GlobalStatsCallback(status)

Reconnects == DispatchConnectionRequest \/ FinishConnection

Next ==
    \/ \E v \in Pairs : GlobalStats(v) \/ LateHandler(v)
    \/ SetGlobalStats \/ Completes \/ GlobalStatsCallback("failed")
    \/ GlobalStatsReceived
    \/ \E st \in {"ok", "none"} : FillGlobalStats(st)
    \/ ReceiveGlobalStats \/ GlobalStatsUnavailable
    \/ ReportLost \/ Reconnects

Spec == Init /\ [][Next]_gvars

\* The Qt thread runs its events, calls end by their deadlines, the timer
\* reconnects, and the server draws an image again and again.
Fairness ==
    /\ WF_gvars(SetGlobalStats) /\ WF_gvars(Completes)
    /\ WF_gvars(GlobalStatsReceived)
    /\ WF_gvars(ReceiveGlobalStats \/ GlobalStatsUnavailable)
    /\ WF_gvars(Reconnects)
    /\ SF_gvars(FillGlobalStats("ok"))

FairSpec == Spec /\ Fairness

-----------------------------------------------------------------------------
TypeOK ==
    /\ gLink \in [gen : Nat, up : BOOLEAN, shaking : BOOLEAN]
    /\ gKnows \in {"all", "field", "none"}
    /\ gStream \in Pairs /\ gWant \in Pairs \cup {NoPair}
    /\ gShown \in Shown /\ gFlags \in Flags
    /\ gCall \in Calls /\ gReply \in Calls
    /\ gEvents \in Nat /\ gStray \subseteq Pairs
    /\ gCount \in [wishes : 0 .. MaxWishes, faults : 0 .. MaxFaults]
    /\ gOverrun \in BOOLEAN

\* The last pair the user chose is in the stream whenever the client has
\* nothing more to say over a working connection to a server that knows the
\* statistics, unless a handler that the client had given up has run since:
\* rapid toggles, an answer to an older choice, a new server and a new stream
\* cannot leave the older choice in place (dispatchGlobalStats).
LastPairWins ==
    /\ gLink.up /\ gFlags.supported /\ gFlags.sent
    /\ gCall = NoCall /\ ~gOverrun
    /\ gWant # NoPair
    => gStream = gWant

\* No choice of the user is forgotten: over a working connection to a server that
\* knows the statistics it was sent last, or the call that is out will be followed
\* by another; and a call that is over has a slot that has still to run
\* (rtimvClientBase.cpp:3747-3831, 3900-3914).
WishHasCarrier ==
    /\ gCall.status \in {"ok", "unimplemented", "failed"} => gEvents > 0
    /\ /\ gLink.up /\ gFlags.supported
       /\ gWant # NoPair /\ gCall = NoCall
       => gFlags.sent /\ gFlags.last = gWant

\* In the end the stream has what the user wants, through any number of
\* reconnections, or the server cannot do it, or a given-up handler ran.
WishArrives ==
    <>[](\/ gWant = NoPair \/ gStream = gWant \/ gOverrun \/ gKnows # "all")
=============================================================================
