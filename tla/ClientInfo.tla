----------------------------- MODULE ClientInfo -----------------------------
(***************************************************************************)
(* The details and the age of an image that the remote client shows:       *)
(* pollInfo and info of src/src/server/rtimvClientBase.cpp, GetInfo and    *)
(* GetAges of src/src/server/rtimvServer.cpp.                              *)
(*                                                                         *)
(* The GUI timer polls the ages every second and the details every minute, *)
(* one call of each at a time.  Their completions run on gRPC threads: they *)
(* look at the connection under one lock and store the answer under        *)
(* another one.  A new configuration, on the Qt thread, clears what is     *)
(* stored and cancels what is out.  One of the four images is followed; a  *)
(* stream, the epoch of a configuration, stands for what it tells of it.   *)
(***************************************************************************)
EXTENDS Naturals

CONSTANTS MaxEpochs,  \* bound on configurations
          MaxLosses   \* bound on lost connections, failed and probed ones

EpochsAssumption == MaxEpochs \in Nat \ {0} /\ MaxLosses \in Nat

VARIABLES
    iLink,      \* m_connections, the configurations, and m_connected
    iPend,      \* m_pendingAgesRequest and m_pendingInfoRequests[n]
    iRecent,    \* the last poll was less than a second, or a minute, ago
    iDetails,   \* m_infoCache[n]: the stream it is of, or 0 when empty
    iAge,       \* m_ageSamples[n], likewise
    iImage,     \* the server's stream has the image
    iLosses,    \* lost connections so far
    iFailed     \* for the properties: an info call of this epoch failed

ivars == <<iLink, iPend, iRecent, iDetails, iAge, iImage, iLosses, iFailed>>

Polls == {"ages", "info"}
NoPoll == [gen |-> 0, state |-> "none", of |-> 0]
Poll == [gen : Nat, of : Nat,
         state : {"none", "sent", "answered", "current", "outdated"}]

Init ==
    /\ iLink = [gen |-> 1, epoch |-> 1, up |-> TRUE]
    /\ iPend = [p \in Polls |-> NoPoll]
    /\ iRecent = [p \in Polls |-> FALSE]
    /\ iDetails = 0 /\ iAge = 0
    /\ iImage \in BOOLEAN
    /\ iLosses = 0 /\ iFailed = FALSE

\* Both polls are on the Qt thread, where configurations start as well.
PollInfo(p) ==
    /\ iLink.up /\ iPend[p] = NoPoll /\ ~iRecent[p]
    /\ iPend' = [iPend EXCEPT ![p] = [gen |-> iLink.gen, state |-> "sent",
                                      of |-> iLink.epoch]]
    /\ iRecent' = [iRecent EXCEPT ![p] = TRUE]
    /\ UNCHANGED <<iLink, iDetails, iAge, iImage, iLosses, iFailed>>

Elapse(p) ==
    /\ iRecent[p]
    /\ iRecent' = [iRecent EXCEPT ![p] = FALSE]
    /\ UNCHANGED <<iLink, iPend, iDetails, iAge, iImage, iLosses, iFailed>>

\* The server answers for the image it has, or that there is none.
Answers(p) ==
    /\ iPend[p].state = "sent"
    /\ iPend' = [iPend EXCEPT ![p].state = "answered",
                              ![p].of = IF iImage THEN @ ELSE 0]
    /\ UNCHANGED <<iLink, iRecent, iDetails, iAge, iImage, iLosses, iFailed>>

GetAges == Answers("ages")
GetInfo == Answers("info")

\* The completion looks at the connection.
LookAtConnection(p) ==
    /\ iPend[p].state = "answered"
    /\ iPend' = [iPend EXCEPT ![p].state =
                    IF iLink.up /\ iPend[p].gen = iLink.gen
                    THEN "current" ELSE "outdated"]
    /\ UNCHANGED <<iLink, iRecent, iDetails, iAge, iImage, iLosses, iFailed>>

Fails(p) ==
    /\ iPend[p].state = "sent"
    /\ iLosses < MaxLosses
    /\ iLosses' = iLosses + 1
    /\ iPend' = [iPend EXCEPT ![p] = NoPoll]
    /\ iFailed' = (iFailed \/ p = "info")
    /\ UNCHANGED <<iLink, iRecent, iDetails, iAge, iImage>>

\* Mutant of Ends: only an answer of this connection ends the poll.
EndsCurrent(p) ==
    /\ iPend[p].state \in {"current", "outdated"}
    /\ iPend' = IF iPend[p].state = "current"
                THEN [iPend EXCEPT ![p] = NoPoll] ELSE iPend
    /\ iFailed' = iFailed
    /\ UNCHANGED <<iLink, iRecent, iImage, iLosses>>

\* A call of an older connection counts as failed.
Ends(p) ==
    /\ iPend[p].state \in {"current", "outdated"}
    /\ iPend' = [iPend EXCEPT ![p] = NoPoll]
    /\ iFailed' = \/ iFailed
                  \/ p = "info" /\ iPend[p].state = "outdated"
    /\ UNCHANGED <<iLink, iRecent, iImage, iLosses>>

\* An image without an age loses its details too.
StoreAges ==
    /\ Ends("ages")
    /\ IF iPend["ages"].state = "current"
       THEN /\ iAge' = iPend["ages"].of
            /\ iDetails' = IF iPend["ages"].of = 0 THEN 0 ELSE iDetails
       ELSE UNCHANGED <<iAge, iDetails>>

StoreInfo ==
    /\ Ends("info")
    /\ iDetails' = IF iPend["info"].state = "current" THEN iPend["info"].of
                   ELSE iDetails
    /\ UNCHANGED iAge

-----------------------------------------------------------------------------
ConnectionLost ==
    /\ iLink.up /\ iLosses < MaxLosses
    /\ iLosses' = iLosses + 1
    /\ iLink' = [iLink EXCEPT !.up = FALSE]
    /\ UNCHANGED <<iPend, iRecent, iDetails, iAge, iImage, iFailed>>

\* The stream is still there.
ProbeSucceeded ==
    /\ ~iLink.up /\ iLosses < MaxLosses
    /\ iLosses' = iLosses + 1
    /\ iLink' = [iLink EXCEPT !.gen = @ + 1, !.up = TRUE]
    /\ UNCHANGED <<iPend, iRecent, iDetails, iAge, iImage, iFailed>>

\* What is out is cancelled; what has been answered goes on to be stored.
Configure ==
    /\ ~iLink.up /\ iLink.epoch < MaxEpochs
    /\ iLink' = [gen |-> iLink.gen + 1, epoch |-> iLink.epoch + 1, up |-> FALSE]
    /\ iDetails' = 0 /\ iAge' = 0
    /\ iRecent' = [p \in Polls |-> FALSE]
    /\ iPend' = [p \in Polls |-> IF iPend[p].state = "sent" THEN NoPoll
                                 ELSE iPend[p]]
    /\ iImage' \in BOOLEAN
    /\ iFailed' = FALSE
    /\ UNCHANGED iLosses

FinishConnection ==
    /\ ~iLink.up
    /\ iLink' = [iLink EXCEPT !.up = TRUE]
    /\ UNCHANGED <<iPend, iRecent, iDetails, iAge, iImage, iLosses, iFailed>>

ImageChanges ==
    /\ iLosses < MaxLosses
    /\ iLosses' = iLosses + 1
    /\ iImage' = ~iImage
    /\ UNCHANGED <<iLink, iPend, iRecent, iDetails, iAge, iFailed>>

Completes == StoreAges \/ StoreInfo \/ \E p \in Polls : LookAtConnection(p)

Next ==
    \/ \E p \in Polls : PollInfo(p) \/ Elapse(p) \/ Fails(p)
    \/ GetAges \/ GetInfo \/ Completes
    \/ ConnectionLost \/ ProbeSucceeded \/ Configure \/ FinishConnection
    \/ ImageChanges

Spec == Init /\ [][Next]_ivars

\* The timers of the GUI run, the server answers, completions are run.
Fairness ==
    /\ \A p \in Polls :
          WF_ivars(PollInfo(p)) /\ WF_ivars(Elapse(p)) /\ WF_ivars(Answers(p))
              /\ WF_ivars(LookAtConnection(p))
    /\ WF_ivars(StoreAges) /\ WF_ivars(StoreInfo)
    /\ WF_ivars(FinishConnection)

FairSpec == Spec /\ Fairness

-----------------------------------------------------------------------------
TypeOK ==
    /\ iLink \in [gen : Nat, epoch : 1 .. MaxEpochs, up : BOOLEAN]
    /\ iPend \in [Polls -> Poll] /\ iRecent \in [Polls -> BOOLEAN]
    /\ iDetails \in 0 .. MaxEpochs /\ iAge \in 0 .. MaxEpochs
    /\ iImage \in BOOLEAN /\ iFailed \in BOOLEAN
    /\ iLosses \in 0 .. MaxLosses

\* An answer of the generation that is current is about the stream of the last
\* configuration, so that the look at the generation tells the answers of an older
\* stream from others, and what is stored is of no older stream unless the
\* configuration came between the look and the storing
\* (rtimvClientBase.cpp:2501-2648).
GenerationTells ==
    \A p \in Polls :
        /\ iPend[p].gen <= iLink.gen
        /\ iPend[p].gen = iLink.gen => iPend[p].of \in {0, iLink.epoch}

\* What is stored by a completion whose connection is still the one it looked at is
\* of the stream the client is connected to.
StoredIsCurrent ==
    [][\A p \in Polls :
          iPend[p].gen = iLink.gen /\ iPend'[p] = NoPoll
              => /\ iDetails' \in {0, iDetails, iLink'.epoch}
                 /\ iAge' \in {0, iAge, iLink'.epoch}]_ivars

\* The details of an image that is there are shown in the end, and are those
\* of the stream the client is connected to.
DetailsArrive ==
    <>[](iImage /\ iLink.up) => <>[](iDetails = iLink.epoch /\ iAge = iLink.epoch)
=============================================================================
