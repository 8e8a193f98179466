----------------------- MODULE ClientConnectionProofs -----------------------
(***************************************************************************)
(* Proofs about ClientConnection, for every window, serial, number of      *)
(* faults and of events: the client never falls silent, its serial filter  *)
(* never holds a serial its present stream has not reached, a handshake    *)
(* excludes image traffic, and the display never goes back.                *)
(***************************************************************************)
EXTENDS ClientConnection, TLAPS

\* Also true of a client that is not connected, so that it is when it connects.
RepliesReached == \A s \in completed : s <= server.serial

Inv ==
    /\ TypeOK
    /\ HandshakeIsExclusive
    /\ NeverSilent
    /\ RepliesReached
    /\ FilterNotAhead

\* The initial state: nothing is connected, nothing is out.
LEMMA InitInv == Init => Inv
<1> SUFFICES ASSUME Init PROVE Inv
    OBVIOUS
<1> USE WindowAssumption DEF Init
<1>1. server \in Streams /\ inflight \in Counts
    BY DEF Streams, Counts, NoCalls
<1>2. window \in 1 .. Window
    OBVIOUS
<1>3. TypeOK
    BY <1>1, <1>2 DEF TypeOK
<1>4. HandshakeIsExclusive /\ NeverSilent /\ RepliesReached /\ FilterNotAhead
    BY DEF HandshakeIsExclusive, NeverSilent, RepliesReached, FilterNotAhead
<1>5. QED
    BY <1>3, <1>4 DEF Inv

\* Every step keeps the types.
LEMMA TypeStep ==
    ASSUME TypeOK, [Next]_vars
    PROVE  TypeOK'
<1> USE DEF TypeOK, Streams, Requests, Phases, Results, NoCall, Counts,
            NoCalls, Out,
            vars, env, link, replies, pool, reports
<1>1. CASE ServerForgets
  <2>1. server' \in Streams
    BY <1>1 DEF ServerForgets, Fault
  <2>2. faults' \in Nat
    BY <1>1 DEF ServerForgets, Fault
  <2>3. UNCHANGED <<link, asking, pool, replies, asks, reports>>
    BY <1>1 DEF ServerForgets, Fault
  <2>4. QED
    BY <2>1, <2>2, <2>3
<1>2. CASE Publish
  <2>1. server' \in Streams
    <3>1. PICK imaged \in BOOLEAN :
              server' = [server EXCEPT !.serial = @ + 1, !.imaged = imaged]
      BY <1>2 DEF Publish
    <3>2. server.serial + 1 \in Nat
      OBVIOUS
    <3>3. QED
      BY <3>1, <3>2
  <2>2. UNCHANGED <<faults, link, asking, pool, replies, asks, reports>>
    BY <1>2 DEF Publish
  <2>3. QED
    BY <2>1, <2>2
<1>3. CASE SetWindow
    BY <1>3, WindowAssumption DEF SetWindow
<1>4. CASE Probe
    BY <1>4 DEF Probe, NewGeneration, Call
<1>5. CASE SendPing
    BY <1>5 DEF SendPing
<1>6. CASE NameAnswered
    BY <1>6 DEF NameAnswered, RequestCompletes
<1>7. CASE ConfigureAnswered
    BY <1>7 DEF ConfigureAnswered, RequestCompletes, Configured
<1>8. CASE RequestFails
  <2>1. server' \in Streams
    <3>1. CASE UNCHANGED server
      BY <3>1
    <3>2. CASE Configured
      BY <3>2 DEF Configured
    <3>3. QED
      BY <1>8, <3>1, <3>2 DEF RequestFails
  <2>2. request' \in Requests
    BY <1>8 DEF RequestFails, RequestCompletes, Configured, Fault
  <2>3. faults' \in Nat
    BY <1>8 DEF RequestFails, RequestCompletes, Configured, Fault
  <2>4. UNCHANGED <<connected, asking, pool, replies, asks, reports>>
    BY <1>8 DEF RequestFails, RequestCompletes, Configured, Fault
  <2>5. QED
    BY <2>1, <2>2, <2>3, <2>4
<1>9. CASE ProbeSucceeded
    BY <1>9 DEF ProbeSucceeded, Received, FinishConnection
<1>10. CASE ProbeRefused
    BY <1>10 DEF ProbeRefused, Received, NewGeneration, Call
<1>11. CASE AttemptFailed
    BY <1>11 DEF AttemptFailed, Received
<1>12. CASE FetchName
    BY <1>12 DEF FetchName, Received, Call
<1>13. CASE NamesDone
    BY <1>13 DEF NamesDone, Received, FinishConnection
<1>14. ASSUME NEW status \in Answered, Answer(status) PROVE TypeOK'
  <2>1. inflight' \in Counts
    <3>1. /\ inflight.waiting > 0
          /\ inflight' = [inflight EXCEPT !.waiting = @ - 1, ![status] = @ + 1]
      BY <1>14 DEF Answer
    <3>2. inflight.waiting - 1 \in Nat
      BY <3>1
    <3>3. \A s \in Answered : inflight[s] + 1 \in Nat
      BY DEF Answered
    <3>4. [inflight EXCEPT !.waiting = @ - 1] \in Counts
      BY <3>2
    <3>5. QED
      BY <1>14, <3>1, <3>3, <3>4 DEF Answered
  <2>2. UNCHANGED <<env, link, asking, window, primed, replies, asks, reports>>
    BY <1>14 DEF Answer, Answered
  <2>3. QED
    BY <2>1, <2>2
<1>15. CASE ImagePlease
  <2>1. inflight' \in Counts
    BY <1>15, WindowAssumption DEF ImagePlease
  <2>2. asking' \in BOOLEAN
    BY <1>15 DEF ImagePlease
  <2>3. asks' \in Nat
    BY <1>15 DEF ImagePlease
  <2>4. UNCHANGED <<env, link, window, primed, replies, reports>>
    BY <1>15 DEF ImagePlease
  <2>5. QED
    BY <2>1, <2>2, <2>3, <2>4
<1>16. CASE ImageReceived
  <2>1. lastApplied' \in Nat
    BY <1>16 DEF ImageReceived
  <2>2. asking' \in BOOLEAN
    BY <1>16 DEF ImageReceived
  <2>3. arrivals' \in Nat
    BY <1>16 DEF ImageReceived
  <2>4. completed' = {}
    BY <1>16 DEF ImageReceived
  <2>5. UNCHANGED <<env, link, pool, asks, reports>>
    BY <1>16 DEF ImageReceived
  <2>6. QED
    BY <2>1, <2>2, <2>3, <2>4, <2>5
<1>17. CASE ImageValid
  <2>1. inflight' \in Counts
    BY <1>17 DEF ImageValid, Take
  <2>2. completed' \in SUBSET Nat
    BY <1>17 DEF ImageValid, Take
  <2>3. primed' = TRUE /\ arrivals' \in Nat
    BY <1>17 DEF ImageValid, Take
  <2>4. UNCHANGED <<env, link, asking, window, lastApplied, asks, reports>>
    BY <1>17 DEF ImageValid, Take
  <2>5. QED
    BY <2>1, <2>2, <2>3, <2>4
<1>18. CASE NoImage
  <2>1. inflight' \in Counts
    BY <1>18 DEF NoImage, Take
  <2>2. primed' = FALSE /\ asks' \in Nat
    BY <1>18 DEF NoImage, Take
  <2>3. UNCHANGED <<env, link, asking, window, replies, reports>>
    BY <1>18 DEF NoImage, Take
  <2>4. QED
    BY <2>1, <2>2, <2>3
<1>19. CASE ImageTimeout
  <2>1. inflight' \in Counts
    BY <1>19 DEF ImageTimeout, Take, Fault
  <2>2. faults' \in Nat /\ asks' \in Nat
    BY <1>19 DEF ImageTimeout, Take, Fault
  <2>3. UNCHANGED <<server, link, asking, window, primed, replies, reports>>
    BY <1>19 DEF ImageTimeout, Take, Fault
  <2>4. QED
    BY <2>1, <2>2, <2>3
<1>20. CASE ImageFails
    BY <1>20 DEF ImageFails, Fault
<1>21. CASE PingEnds
    BY <1>21 DEF PingEnds, Fault
<1>22. CASE PingFails
    BY <1>22 DEF PingFails, Fault
<1>23. CASE ReportLost
  <2>1. failing' \in Nat /\ connected' = FALSE
    BY <1>23 DEF ReportLost
  <2>2. UNCHANGED <<env, request, asking, pool, replies, asks, ping>>
    BY <1>23 DEF ReportLost
  <2>3. QED
    BY <2>1, <2>2
<1>24. CASE UNCHANGED vars
    BY <1>24
<1>25. QED
    BY <1>1, <1>2, <1>3, <1>4, <1>5, <1>6, <1>7, <1>8, <1>9, <1>10, <1>11,
       <1>12, <1>13, <1>14, <1>15, <1>16, <1>17, <1>18, <1>19, <1>20, <1>21,
       <1>22, <1>23, <1>24
    DEF Next, Environment, Timer, RequestEnds, ConnectionReceived,
        ImageCompletes, PingCompletes, ServerAnswers

\* A handshake starts with NewGeneration, which drops all image traffic, and
\* ends before FinishConnection lets new traffic in.
LEMMA ExclusiveStep ==
    ASSUME TypeOK, HandshakeIsExclusive, [Next]_vars
    PROVE  HandshakeIsExclusive'
<1> USE DEF HandshakeIsExclusive, TypeOK, Streams, Requests, Phases, Results,
            NoCall, Counts,
            NoCalls, Out,
            vars, env, link, replies, pool, reports
<1>1. CASE ServerForgets
    BY <1>1 DEF ServerForgets, Fault
<1>2. CASE Publish
    BY <1>2 DEF Publish
<1>3. CASE SetWindow
    BY <1>3 DEF SetWindow
<1>4. CASE Probe
    BY <1>4 DEF Probe, NewGeneration, Call
<1>5. CASE SendPing
    BY <1>5 DEF SendPing
<1>6. CASE NameAnswered
    BY <1>6 DEF NameAnswered, RequestCompletes
<1>7. CASE ConfigureAnswered
    BY <1>7 DEF ConfigureAnswered, RequestCompletes, Configured
<1>8. CASE RequestFails
    BY <1>8 DEF RequestFails, RequestCompletes, Configured, Fault
<1>9. CASE ProbeSucceeded
    BY <1>9 DEF ProbeSucceeded, Received, FinishConnection
<1>10. CASE ProbeRefused
    BY <1>10 DEF ProbeRefused, Received, NewGeneration, Call
<1>11. CASE AttemptFailed
    BY <1>11 DEF AttemptFailed, Received
<1>12. CASE FetchName
    BY <1>12 DEF FetchName, Received, Call
<1>13. CASE NamesDone
    BY <1>13 DEF NamesDone, Received, FinishConnection
<1>14. ASSUME NEW status \in Answered, Answer(status) PROVE HandshakeIsExclusive'
    BY <1>14 DEF Answer, Answered
<1>15. CASE ImagePlease
    BY <1>15 DEF ImagePlease
<1>16. CASE ImageReceived
    BY <1>16 DEF ImageReceived
<1>17. CASE ImageValid
    BY <1>17 DEF ImageValid, Take
<1>18. CASE NoImage
    BY <1>18 DEF NoImage, Take
<1>19. CASE ImageTimeout
    BY <1>19 DEF ImageTimeout, Take, Fault
<1>20. CASE ImageFails
    BY <1>20 DEF ImageFails, Fault
<1>21. CASE PingEnds
    BY <1>21 DEF PingEnds, Fault
<1>22. CASE PingFails
    BY <1>22 DEF PingFails, Fault
<1>23. CASE ReportLost
    BY <1>23 DEF ReportLost
<1>24. CASE UNCHANGED vars
    BY <1>24
<1>25. QED
    BY <1>1, <1>2, <1>3, <1>4, <1>5, <1>6, <1>7, <1>8, <1>9, <1>10, <1>11,
       <1>12, <1>13, <1>14, <1>15, <1>16, <1>17, <1>18, <1>19, <1>20, <1>21,
       <1>22, <1>23, <1>24
    DEF Next, Environment, Timer, RequestEnds, ConnectionReceived,
        ImageCompletes, PingCompletes, ServerAnswers

\* Each thing that keeps a client from silence is replaced by another one:
\* a call by an event or a report, an event by a call.
LEMMA SilentStep ==
    ASSUME TypeOK, HandshakeIsExclusive, NeverSilent, [Next]_vars
    PROVE  NeverSilent'
<1> USE DEF NeverSilent, HandshakeIsExclusive, TypeOK, Streams, Requests,
            Phases, Results, NoCall, Counts,
            NoCalls, Out,
            vars, env, link, replies, pool, reports
<1>1. CASE ServerForgets
    BY <1>1 DEF ServerForgets, Fault
<1>2. CASE Publish
    BY <1>2 DEF Publish
<1>3. CASE SetWindow
    BY <1>3 DEF SetWindow
<1>4. CASE Probe
    BY <1>4 DEF Probe, NewGeneration, Call
<1>5. CASE SendPing
    BY <1>5 DEF SendPing
<1>6. CASE NameAnswered
    BY <1>6 DEF NameAnswered, RequestCompletes
<1>7. CASE ConfigureAnswered
    BY <1>7 DEF ConfigureAnswered, RequestCompletes, Configured
<1>8. CASE RequestFails
    BY <1>8 DEF RequestFails, RequestCompletes, Configured, Fault
<1>9. CASE ProbeSucceeded
    BY <1>9 DEF ProbeSucceeded, Received, FinishConnection
<1>10. CASE ProbeRefused
    BY <1>10 DEF ProbeRefused, Received, NewGeneration, Call
<1>11. CASE AttemptFailed
    BY <1>11 DEF AttemptFailed, Received
<1>12. CASE FetchName
    BY <1>12 DEF FetchName, Received, Call
<1>13. CASE NamesDone
    BY <1>13 DEF NamesDone, Received, FinishConnection
<1>14. ASSUME NEW status \in Answered, Answer(status) PROVE NeverSilent'
    BY <1>14 DEF Answer, Answered
<1>15. CASE ImagePlease
    BY <1>15, WindowAssumption DEF ImagePlease
<1>16. CASE ImageReceived
    BY <1>16 DEF ImageReceived
<1>17. CASE ImageValid
    BY <1>17 DEF ImageValid, Take
<1>18. CASE NoImage
    BY <1>18 DEF NoImage, Take
<1>19. CASE ImageTimeout
    BY <1>19 DEF ImageTimeout, Take, Fault
<1>20. CASE ImageFails
    BY <1>20 DEF ImageFails, Fault
<1>21. CASE PingEnds
    BY <1>21 DEF PingEnds, Fault
<1>22. CASE PingFails
    BY <1>22 DEF PingFails, Fault
<1>23. CASE ReportLost
    BY <1>23 DEF ReportLost
<1>24. CASE UNCHANGED vars
    BY <1>24
<1>25. QED
    BY <1>1, <1>2, <1>3, <1>4, <1>5, <1>6, <1>7, <1>8, <1>9, <1>10, <1>11,
       <1>12, <1>13, <1>14, <1>15, <1>16, <1>17, <1>18, <1>19, <1>20, <1>21,
       <1>22, <1>23, <1>24
    DEF Next, Environment, Timer, RequestEnds, ConnectionReceived,
        ImageCompletes, PingCompletes, ServerAnswers

\* A reply carries a serial of its stream, and the stream starts over only
\* while the client holds no reply.
LEMMA ReachedStep ==
    ASSUME TypeOK, HandshakeIsExclusive, RepliesReached, FilterNotAhead, [Next]_vars
    PROVE  RepliesReached' /\ FilterNotAhead'
<1> USE DEF RepliesReached, FilterNotAhead, HandshakeIsExclusive, TypeOK,
            Streams, Requests, Phases, Results, NoCall, Counts,
            NoCalls, Out,
            vars, env, link, replies, pool, reports
<1>1. CASE ServerForgets
    BY <1>1 DEF ServerForgets, Fault
<1>2. CASE Publish
    BY <1>2 DEF Publish
<1>3. CASE SetWindow
    BY <1>3 DEF SetWindow
<1>4. CASE Probe
    BY <1>4 DEF Probe, NewGeneration, Call
<1>5. CASE SendPing
    BY <1>5 DEF SendPing
<1>6. CASE NameAnswered
    BY <1>6 DEF NameAnswered, RequestCompletes
<1>7. CASE ConfigureAnswered
    BY <1>7 DEF ConfigureAnswered, RequestCompletes, Configured
<1>8. CASE RequestFails
    BY <1>8 DEF RequestFails, RequestCompletes, Configured, Fault
<1>9. CASE ProbeSucceeded
    BY <1>9 DEF ProbeSucceeded, Received, FinishConnection
<1>10. CASE ProbeRefused
    BY <1>10 DEF ProbeRefused, Received, NewGeneration, Call
<1>11. CASE AttemptFailed
    BY <1>11 DEF AttemptFailed, Received
<1>12. CASE FetchName
    BY <1>12 DEF FetchName, Received, Call
<1>13. CASE NamesDone
    BY <1>13 DEF NamesDone, Received, FinishConnection
<1>14. ASSUME NEW status \in Answered, Answer(status) PROVE RepliesReached' /\ FilterNotAhead'
    BY <1>14 DEF Answer, Answered
<1>15. CASE ImagePlease
    BY <1>15 DEF ImagePlease
<1>16. CASE ImageReceived
    BY <1>16 DEF ImageReceived
<1>17. CASE ImageValid
    BY <1>17 DEF ImageValid, Take
<1>18. CASE NoImage
    BY <1>18 DEF NoImage, Take
<1>19. CASE ImageTimeout
  <2>1. UNCHANGED <<server, connected, lastApplied, completed>>
    BY <1>19 DEF ImageTimeout, Take, Fault
  <2>2. QED
    BY <2>1
<1>20. CASE ImageFails
    BY <1>20 DEF ImageFails, Fault
<1>21. CASE PingEnds
    BY <1>21 DEF PingEnds, Fault
<1>22. CASE PingFails
    BY <1>22 DEF PingFails, Fault
<1>23. CASE ReportLost
    BY <1>23 DEF ReportLost
<1>24. CASE UNCHANGED vars
    BY <1>24
<1>25. QED
    BY <1>1, <1>2, <1>3, <1>4, <1>5, <1>6, <1>7, <1>8, <1>9, <1>10, <1>11,
       <1>12, <1>13, <1>14, <1>15, <1>16, <1>17, <1>18, <1>19, <1>20, <1>21,
       <1>22, <1>23, <1>24
    DEF Next, Environment, Timer, RequestEnds, ConnectionReceived,
        ImageCompletes, PingCompletes, ServerAnswers

\* Together they are inductive.
THEOREM Invariance == Spec => []Inv
<1>1. Init => Inv
    BY InitInv
<1>2. Inv /\ [Next]_vars => Inv'
    BY TypeStep, ExclusiveStep, SilentStep, ReachedStep DEF Inv
<1>3. QED
    BY <1>1, <1>2, PTL DEF Spec

\* Types are respected.
THEOREM TypeCorrect == Spec => []TypeOK
<1>1. Inv => TypeOK
    BY DEF Inv
<1>2. QED
    BY <1>1, Invariance, PTL

\* A connected client always has a call out, a message on its way that will
\* send one, or a report of the lost connection to come.
THEOREM NeverSilentHolds == Spec => []NeverSilent
<1>1. Inv => NeverSilent
    BY DEF Inv
<1>2. QED
    BY <1>1, Invariance, PTL

\* The serial filter never drops the images of the present stream.
THEOREM FilterNotAheadHolds == Spec => []FilterNotAhead
<1>1. Inv => FilterNotAhead
    BY DEF Inv
<1>2. QED
    BY <1>1, Invariance, PTL

\* No image traffic during a handshake.
THEOREM HandshakeIsExclusiveHolds == Spec => []HandshakeIsExclusive
<1>1. Inv => HandshakeIsExclusive
    BY DEF Inv
<1>2. QED
    BY <1>1, Invariance, PTL

\* Only FinishConnection lowers the serial, and it starts from a client that is
\* not connected, because a handshake is under way.
LEMMA OrderStep ==
    ASSUME TypeOK, HandshakeIsExclusive, [Next]_vars
    PROVE  lastApplied' < lastApplied => ~connected /\ connected'
<1> USE DEF HandshakeIsExclusive, TypeOK, Streams, Requests, Phases, Results,
            NoCall, Counts,
            NoCalls,
            vars, env, link, replies, pool, reports
<1>1. CASE ServerForgets
    BY <1>1 DEF ServerForgets, Fault
<1>2. CASE Publish
    BY <1>2 DEF Publish
<1>3. CASE SetWindow
    BY <1>3 DEF SetWindow
<1>4. CASE Probe
    BY <1>4 DEF Probe, NewGeneration, Call
<1>5. CASE SendPing
    BY <1>5 DEF SendPing
<1>6. CASE NameAnswered
    BY <1>6 DEF NameAnswered, RequestCompletes
<1>7. CASE ConfigureAnswered
    BY <1>7 DEF ConfigureAnswered, RequestCompletes, Configured
<1>8. CASE RequestFails
    BY <1>8 DEF RequestFails, RequestCompletes, Configured, Fault
<1>9. CASE ProbeSucceeded
    BY <1>9 DEF ProbeSucceeded, Received, FinishConnection
<1>10. CASE ProbeRefused
    BY <1>10 DEF ProbeRefused, Received, NewGeneration, Call
<1>11. CASE AttemptFailed
    BY <1>11 DEF AttemptFailed, Received
<1>12. CASE FetchName
    BY <1>12 DEF FetchName, Received, Call
<1>13. CASE NamesDone
    BY <1>13 DEF NamesDone, Received, FinishConnection
<1>14. ASSUME NEW status \in Answered, Answer(status) PROVE lastApplied' < lastApplied => ~connected /\ connected'
    BY <1>14 DEF Answer, Answered
<1>15. CASE ImagePlease
    BY <1>15 DEF ImagePlease
<1>16. CASE ImageReceived
    BY <1>16 DEF ImageReceived
<1>17. CASE ImageValid
    BY <1>17 DEF ImageValid, Take
<1>18. CASE NoImage
    BY <1>18 DEF NoImage, Take
<1>19. CASE ImageTimeout
    BY <1>19 DEF ImageTimeout, Take, Fault
<1>20. CASE ImageFails
    BY <1>20 DEF ImageFails, Fault
<1>21. CASE PingEnds
    BY <1>21 DEF PingEnds, Fault
<1>22. CASE PingFails
    BY <1>22 DEF PingFails, Fault
<1>23. CASE ReportLost
    BY <1>23 DEF ReportLost
<1>24. CASE UNCHANGED vars
    BY <1>24
<1>25. QED
    BY <1>1, <1>2, <1>3, <1>4, <1>5, <1>6, <1>7, <1>8, <1>9, <1>10, <1>11,
       <1>12, <1>13, <1>14, <1>15, <1>16, <1>17, <1>18, <1>19, <1>20, <1>21,
       <1>22, <1>23, <1>24
    DEF Next, Environment, Timer, RequestEnds, ConnectionReceived,
        ImageCompletes, PingCompletes, ServerAnswers

\* The display never goes back, except that a new connection starts over.
THEOREM AppliedInOrderHolds == Spec => AppliedInOrder
<1>1. Inv /\ [Next]_vars
         => [lastApplied' < lastApplied => ~connected /\ connected']_vars
    BY OrderStep DEF Inv
<1>2. QED
    BY <1>1, Invariance, PTL DEF Spec, AppliedInOrder
=============================================================================
