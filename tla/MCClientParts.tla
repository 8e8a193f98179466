--------------------------- MODULE MCClientParts ---------------------------
(* Four parts of the remote client that do not meet, in one run of TLC: a  *)
(* behaviour is of one of them, and the other three rest.                  *)
EXTENDS Naturals, FiniteSets, Sequences

CONSTANTS Values, MaxPicks, MaxSent, MaxTrouble, Pairs, Default, MaxWishes, MaxFaults,
          MaxEpochs, MaxLosses, Rpcs, MaxEvents

VARIABLES
    part,
    kind, connected, source, trouble, server, mirror, calls, pending, s,
    timers, image, made, picks, asked, broken,
    gLink, gKnows, gStream, gWant, gShown, gFlags, gCall, gEvents, gReply,
    gStray, gCount, gOverrun,
    iLink, iPend, iRecent, iDetails, iAge, iImage, iLosses, iFailed,
    dOnQt, dStage, dRpc, dCancelled, dParent, dEvents, dMutex

Kinds == {"cube", "step", "processing", "hpFilter", "lpFilter", "mtf", "colorbar",
          "colormode", "autoscale", "colorBox", "statsBox", "pixel", "stretch",
          "scale"}

Settings == INSTANCE ClientSettings
Intent   == INSTANCE GlobalStatsIntent
Info     == INSTANCE ClientInfo
Shutdown == INSTANCE ClientShutdown WITH Group <- [r \in Rpcs |-> r]

ASSUME ConstantsAssumption ==
    /\ Settings!KindsAssumption
    /\ Settings!ValuesAssumption
    /\ Settings!BoundAssumption
    /\ Intent!PairsAssumption
    /\ Intent!FaultAssumption
    /\ Info!EpochsAssumption
    /\ Shutdown!GroupAssumption
    /\ Shutdown!EventsAssumption
    /\ Shutdown!NobodyAssumption

settingsVars == <<kind, connected, source, trouble, server, mirror, calls,
                  pending, s, timers, image, made, picks, asked,
                  broken>>
intentVars == <<gLink, gKnows, gStream, gWant, gShown, gFlags, gCall, gEvents,
                gReply, gStray, gCount, gOverrun>>
infoVars == <<iLink, iPend, iRecent, iDetails, iAge, iImage, iLosses,
              iFailed>>
shutdownVars == <<dOnQt, dStage, dRpc, dCancelled, dParent, dEvents, dMutex>>

vars == <<part, settingsVars, intentVars, infoVars, shutdownVars>>

Init ==
    /\ part \in {"settings", "intent", "info", "shutdown"}
    /\ Settings!Init /\ Intent!Init /\ Info!Init /\ Shutdown!Init
    /\ part # "settings" => kind = "cube" /\ source
    /\ part # "intent" => gKnows = "all"
    /\ part # "info" => ~iImage
    /\ part # "shutdown" => dOnQt

Next ==
    /\ part' = part
    /\ \/ /\ part = "settings" /\ Settings!Next
          /\ UNCHANGED <<intentVars, infoVars, shutdownVars>>
       \/ /\ part = "intent" /\ Intent!Next
          /\ UNCHANGED <<settingsVars, infoVars, shutdownVars>>
       \/ /\ part = "info" /\ Info!Next
          /\ UNCHANGED <<settingsVars, intentVars, shutdownVars>>
       \/ /\ part = "shutdown" /\ Shutdown!Next
          /\ UNCHANGED <<settingsVars, intentVars, infoVars>>

Spec == Init /\ [][Next]_vars

\* A setting that was queued has a call or an image that will send it.
QueuedHasCarrier == Settings!QueuedHasCarrier

\* Once it is quiet the server has the last scale and the last frame asked for.
LastWishWins == Settings!LastWishWins

\* The stream has the last choice about the statistics once all is said.
LastPairWins == Intent!LastPairWins

\* No choice about the statistics is forgotten on the way.
WishHasCarrier == Intent!WishHasCarrier

\* An answer of the current generation is of the current stream.
GenerationTells == Info!GenerationTells

\* A completion whose connection has not ended stores nothing of an older stream.
StoredIsCurrent == Info!StoredIsCurrent

\* No completion of a call is in the code of a client that is gone.
NothingOutlives == Shutdown!NothingOutlives

-----------------------------------------------------------------------------
(* Liveness, under the fairness of the part; a part that rests is not fair. *)

\* The last choice about the statistics arrives at the stream.
WishArrives == Intent!Fairness => Intent!WishArrives

\* The details and the age of the image that is there are shown in the end.
DetailsArrive == Info!Fairness => Info!DetailsArrive

\* The destructor of the client ends.
DestructorEnds == Shutdown!Fairness => Shutdown!DestructorEnds
=============================================================================
