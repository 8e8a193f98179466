-------------------------- MODULE ClientPartsProofs --------------------------
(***************************************************************************)
(* What is proved of the remote client for every value of the constants: a *)
(* wish that is queued has something that will send it and the last wish   *)
(* is the one that counts (ClientSettings), the last choice about the      *)
(* statistics has a call that carries it and ends in the stream            *)
(* (GlobalStatsIntent), the details that are stored carry the generation   *)
(* they were asked for under (ClientInfo), and no completion outlives the  *)
(* client (ClientShutdown).                                                *)
(***************************************************************************)
EXTENDS MCClientParts, TLAPS

-----------------------------------------------------------------------------
(* The coalesced setters.                                                  *)

\* The members of a coalesced call with q for queued, a for awaitImage and
\* anything for the rest.
Members(q, d, f, p, a) ==
    [queued |-> q, desired |-> d, inflight |-> f, prevAtSend |-> p,
     awaitImage |-> a]

\* The members are a record and calls have numbers above 0: what
\* QueuedHasCarrier needs to be inductive.
SetterOK ==
    /\ \E q, a \in BOOLEAN : \E d, f, p : s = Members(q, d, f, p, a)
    /\ made \in Nat

CarrierInv == SetterOK /\ QueuedHasCarrier

LEMMA CarrierRests ==
    ASSUME CarrierInv, UNCHANGED <<made, pending, s>>
    PROVE  CarrierInv'
BY DEF CarrierInv, SetterOK, QueuedHasCarrier, Settings!QueuedHasCarrier

LEMMA MembersCarry ==
    ASSUME NEW q \in BOOLEAN, NEW a \in BOOLEAN, NEW d, NEW f, NEW p,
           s' = Members(q, d, f, p, a), made' \in Nat,
           q => pending' # 0 \/ a
    PROVE  CarrierInv'
BY DEF Members, CarrierInv, SetterOK, QueuedHasCarrier, Settings!QueuedHasCarrier

\* A call that is sent now has a number, and carries the wish.
LEMMA SendCarries ==
    ASSUME NEW v, made \in Nat, Settings!Send(v)
    PROVE  made' \in Nat /\ pending' # 0
BY DEF Settings!Send

\* A wish is queued behind a call or an image, or sent.
LEMMA CoalesceCarries ==
    ASSUME NEW q \in BOOLEAN, NEW a \in BOOLEAN, NEW d, NEW f, NEW p, NEW v,
           made \in Nat, s.awaitImage = a,
           Settings!Coalesce(v, Members(q, d, f, p, a))
    PROVE  CarrierInv'
<1>1. CASE pending # 0 \/ s.awaitImage
  <2>1. s' = Members(TRUE, d, f, p, a) /\ UNCHANGED <<made, pending>>
    BY <1>1 DEF Settings!Coalesce, Members
  <2> QED BY <1>1, <2>1, MembersCarry
<1>2. CASE ~(pending # 0 \/ s.awaitImage)
  <2>1. s' = Members(q, d, v, p, a) /\ Settings!Send(v)
    BY <1>2 DEF Settings!Coalesce, Members
  <2> QED BY <2>1, SendCarries, MembersCarry
<1> QED BY <1>1, <1>2

LEMMA AskCarries ==
    ASSUME CarrierInv, NEW v, Settings!Ask(v)
    PROVE  CarrierInv'
<1>0. PICK q \in BOOLEAN, a \in BOOLEAN : \E d, f, p : s = Members(q, d, f, p, a)
  BY DEF CarrierInv, SetterOK
<1>1. PICK d, f, p : s = Members(q, d, f, p, a)
  BY <1>0
<1>2. made \in Nat /\ s.awaitImage = a
  BY <1>1 DEF CarrierInv, SetterOK, Members
<1>3. [s EXCEPT !.desired = v] = Members(q, v, f, p, a)
  BY <1>1 DEF Members
<1>4. ASSUME NEW b, NEW m, m = [s EXCEPT !.desired = v, !.prevAtSend = b]
      PROVE  m = Members(q, v, f, b, a)
  BY <1>1, <1>4 DEF Members
<1>5. CASE Settings!RequestPixel(v)
  BY <1>2, <1>3, <1>5, CoalesceCarries DEF Settings!RequestPixel
<1>6. CASE Settings!Stretch(v)
  BY <1>2, <1>3, <1>6, CoalesceCarries DEF Settings!Stretch
<1>7. CASE Settings!ScaleData(v)
  <2> DEFINE b == IF pending # 0 \/ s.awaitImage THEN s.prevAtSend ELSE mirror'
         m == [s EXCEPT !.desired = v, !.prevAtSend = b]
  <2>1. Settings!Coalesce(v, m)
    BY <1>7 DEF Settings!ScaleData
  <2> HIDE DEF b
  <2>2. m = Members(q, v, f, b, a)
    BY <1>4, Zenon
  <2> HIDE DEF m
  <2> QED BY <1>2, <2>1, <2>2, CoalesceCarries
<1>8. ASSUME NEW k, Settings!RequestBox(k, v)
      PROVE  CarrierInv'
  <2>1. CASE connected
    BY <1>1, <1>2, <1>8, <2>1, CoalesceCarries DEF Settings!RequestBox
  <2>2. CASE ~connected
    BY <1>8, <2>2, CarrierRests DEF Settings!RequestBox
  <2> QED BY <2>1, <2>2
<1> QED
  BY <1>5, <1>6, <1>7, <1>8
  DEF Settings!Ask, Settings!RequestColorBox, Settings!RequestStatsBox

LEMMA UserStepCarries ==
    ASSUME CarrierInv, Settings!UserStep
    PROVE  CarrierInv'
<1>1. ASSUME NEW v, Settings!Dispatch(v)
      PROVE  CarrierInv'
  BY <1>1
  DEF Settings!Dispatch, CarrierInv, SetterOK, QueuedHasCarrier,
      Settings!QueuedHasCarrier
<1>2. PICK v \in Values :
        \/ Settings!SetCube(v) \/ Settings!SetProcessing(v)
        \/ Settings!SetHPFilter(v) \/ Settings!SetLPFilter(v)
        \/ Settings!SetMTF(v) \/ Settings!LoadColorbar(v)
        \/ Settings!SetAutoscale(v) \/ Settings!SetColormode(v)
        \/ Settings!StepCube(v) \/ Settings!UserAsks(v)
  BY DEF Settings!UserStep
<1>3. CASE Settings!UserAsks(v)
  BY <1>3, AskCarries DEF Settings!UserAsks
<1>4. CASE ~Settings!UserAsks(v)
  BY <1>1, <1>2, <1>4
  DEF Settings!SetCube, Settings!SetProcessing, Settings!SetHPFilter,
      Settings!SetLPFilter, Settings!SetMTF, Settings!LoadColorbar,
      Settings!SetAutoscale, Settings!SetColormode, Settings!StepCube,
      Settings!Set
<1> QED BY <1>3, <1>4

LEMMA TimerCarries ==
    ASSUME CarrierInv, Settings!TimerFires
    PROVE  CarrierInv'
<1>1. \/ \E v : Settings!Ask(v)
      \/ UNCHANGED <<made, pending, s>>
  BY DEF Settings!TimerFires
<1> QED BY <1>1, AskCarries, CarrierRests

LEMMA HandleCarries ==
    ASSUME CarrierInv, NEW c, Settings!Handle(c)
    PROVE  CarrierInv'
<1>1. UNCHANGED <<made, pending, s>>
  BY DEF Settings!Handle, Settings!HandleCube, Settings!HandleStep,
         Settings!HandleMTF, Settings!HandleColour, Settings!HandleScale,
         Settings!HandleProcessing, Settings!HandleLPFilter,
         Settings!HandlePixel, Settings!HandleColorBox,
         Settings!HandleStatsBox, Settings!ServeImage, Settings!Serve
<1> QED BY <1>1, CarrierRests

\* The completion of a call clears the queue, or waits for an image.
LEMMA CompletionCarries ==
    ASSUME CarrierInv, NEW c, NEW ok \in BOOLEAN, NEW lost \in BOOLEAN,
           \/ Settings!EmptyRpcEnds(c, ok, lost) \/ Settings!PixelEnds(c, ok, lost)
           \/ Settings!ColorBoxEnds(c, ok, lost)
           \/ Settings!StatsBoxEnds(c, ok, lost)
           \/ Settings!StretchEnds(c, ok, lost) \/ Settings!ScaleEnds(c, ok, lost)
    PROVE  CarrierInv'
<1>0. PICK q \in BOOLEAN, a \in BOOLEAN : \E d, f, p : s = Members(q, d, f, p, a)
  BY DEF CarrierInv, SetterOK
<1>1. PICK d, f, p : s = Members(q, d, f, p, a)
  BY <1>0
<1>2. ASSUME Settings!Ends(c, ok, lost)
      PROVE  made' \in Nat
  BY <1>2 DEF Settings!Ends, CarrierInv, SetterOK
<1>3. ASSUME NEW x, NEW m, m = [s EXCEPT !.queued = x]
      PROVE  m = Members(x, d, f, p, a)
  BY <1>1, <1>3 DEF Members
<1>4. ASSUME NEW x, NEW m, m = [s EXCEPT !.awaitImage = x]
      PROVE  m = Members(q, d, f, p, x)
  BY <1>1, <1>4 DEF Members
<1>5. CASE Settings!EmptyRpcEnds(c, ok, lost)
  BY <1>5, CarrierRests DEF Settings!EmptyRpcEnds, Settings!Ends
<1>6. CASE \/ Settings!PixelEnds(c, ok, lost) \/ Settings!ColorBoxEnds(c, ok, lost)
           \/ Settings!StatsBoxEnds(c, ok, lost) \/ Settings!StretchEnds(c, ok, lost)
  <2>1. Settings!Ends(c, ok, lost) /\ s' = [s EXCEPT !.queued = FALSE]
    BY <1>6
    DEF Settings!PixelEnds, Settings!ColorBoxEnds, Settings!StatsBoxEnds,
        Settings!BoxEnds, Settings!StretchEnds
  <2>2. s' = Members(FALSE, d, f, p, a)
    BY <1>3, <2>1, Zenon
  <2> QED BY <1>2, <2>1, <2>2, MembersCarry
<1>7. CASE Settings!ScaleEnds(c, ok, lost)
  <2>1. /\ Settings!Ends(c, ok, lost)
        /\ \/ s' = [s EXCEPT !.awaitImage = TRUE]
           \/ s' = [s EXCEPT !.queued = FALSE]
    BY <1>7 DEF Settings!ScaleEnds
  <2>2. s' = Members(q, d, f, p, TRUE) \/ s' = Members(FALSE, d, f, p, a)
    BY <1>3, <1>4, <2>1, Zenon
  <2> QED BY <1>2, <2>1, <2>2, MembersCarry
<1> QED BY <1>5, <1>6, <1>7

\* The image that ends the wait sends what is queued, or there is a call out.
LEMMA ImageCarries ==
    ASSUME CarrierInv, Settings!ImageReceived
    PROVE  CarrierInv'
<1>0. PICK q \in BOOLEAN, a \in BOOLEAN : \E d, f, p : s = Members(q, d, f, p, a)
  BY DEF CarrierInv, SetterOK
<1>1. PICK d, f, p : s = Members(q, d, f, p, a)
  BY <1>0
<1>2. made \in Nat /\ (q => pending # 0 \/ a) /\ s.queued = q /\ s.awaitImage = a
  BY <1>1
  DEF CarrierInv, SetterOK, QueuedHasCarrier, Settings!QueuedHasCarrier, Members
<1>3. ASSUME NEW x, NEW y, NEW m, m = [s EXCEPT !.awaitImage = x, !.queued = y]
      PROVE  m = Members(y, d, f, p, x)
  BY <1>1, <1>3 DEF Members
<1>4. ASSUME NEW x, NEW y, NEW z, NEW m, m = Members(y, d, f, p, x),
             NEW n, n = [m EXCEPT !.inflight = z, !.prevAtSend = z]
      PROVE  n = Members(y, d, z, z, x)
  BY <1>4 DEF Members
<1> DEFINE over == /\ kind = "scale" /\ s.awaitImage
                   /\ Settings!ScaleReflected(image.value)
           next == over /\ s.queued /\ pending = 0
           waits == s.awaitImage /\ ~over
           left == s.queued /\ ~next
           heard == [s EXCEPT !.awaitImage = waits, !.queued = left]
<1>5. /\ waits \in BOOLEAN /\ left \in BOOLEAN
      /\ left => pending # 0 \/ waits
      /\ next => ~left
  BY <1>2
<1>6. IF next /\ connected
      THEN /\ s' = [heard EXCEPT !.inflight = s.desired, !.prevAtSend = s.desired]
           /\ Settings!Send(s.desired)
      ELSE s' = heard /\ UNCHANGED <<made, pending>>
  BY DEF Settings!ImageReceived
<1> HIDE DEF over, next, waits, left
<1>7. heard = Members(left, d, f, p, waits)
  BY <1>3, Zenon DEF heard
<1> HIDE DEF heard
<1>8. CASE next /\ connected
  <2>1. s' = Members(left, d, s.desired, s.desired, waits)
    BY <1>4, <1>6, <1>7, <1>8, Zenon
  <2> QED BY <1>2, <1>5, <1>6, <1>8, <2>1, SendCarries, MembersCarry
<1>9. CASE ~(next /\ connected)
  BY <1>2, <1>5, <1>6, <1>7, <1>9, MembersCarry
<1> QED BY <1>8, <1>9

LEMMA CarrierInvariant == Spec => []CarrierInv
<1>1. Init => CarrierInv
  <2>1. SUFFICES ASSUME Settings!Init PROVE CarrierInv
    BY DEF Init
  <2>2. s = Members(FALSE, 0, 0, 0, FALSE) /\ ~s.queued /\ made \in Nat
    BY <2>1 DEF Settings!Init, Members
  <2>3. SetterOK
    BY <2>2 DEF SetterOK
  <2> QED
    BY <2>2, <2>3 DEF CarrierInv, QueuedHasCarrier, Settings!QueuedHasCarrier
<1>2. CarrierInv /\ [Next]_vars => CarrierInv'
  <2> SUFFICES ASSUME CarrierInv, [Next]_vars PROVE CarrierInv'
    OBVIOUS
  <2>1. CASE Settings!UserStep \/ Settings!TimerFires
    BY <2>1, UserStepCarries, TimerCarries
  <2>2. ASSUME NEW c \in calls, Settings!Handle(c) PROVE CarrierInv'
    BY <2>2, HandleCarries
  <2>3. CASE Settings!Completion
    BY <2>3, CompletionCarries DEF Settings!Completion
  <2>4. CASE Settings!ImageReceived
    BY <2>4, ImageCarries
  <2>5. CASE \/ Settings!FillReply \/ Settings!SourceConnects \/ Settings!Reconnect
             \/ UNCHANGED settingsVars
    <3>1. UNCHANGED <<made, pending, s>>
      BY <2>5 DEF Settings!FillReply, Settings!SourceConnects,
                  Settings!Reconnect, settingsVars
    <3> QED BY <3>1, CarrierRests
  <2> QED BY <2>1, <2>2, <2>3, <2>4, <2>5 DEF Next, vars, Settings!Next
<1> QED BY <1>1, <1>2, PTL DEF Spec

\* A setting that was changed while its call was out, or while the image of the
\* change before was awaited, has something that will send it (minScaleData,
\* stretch, requestPixelValue, the boxes and their completions).
THEOREM QueuedWishesHaveCarriers == Spec => []QueuedHasCarrier
<1>1. CarrierInv => QueuedHasCarrier
  BY DEF CarrierInv
<1> QED BY <1>1, CarrierInvariant, PTL

-----------------------------------------------------------------------------
(* The last wish.                                                          *)

\* A call, by its fields.
Told(id, value, open, state) ==
    [id |-> id, value |-> value, open |-> open, state |-> state]

LEMMA ToldHandled ==
    ASSUME NEW id, NEW value, NEW open, NEW state
    PROVE  [Told(id, value, open, state) EXCEPT !.state = "handled"]
              = Told(id, value, open, "handled")
BY DEF Told

\* The scale: one call is out or none, what it carries is the last wish or one
\* is queued, and the server has what the last call that was handled carried.
ScaleWish ==
    /\ timers = <<>> /\ s.desired = asked
    /\ s.queued \/ s.inflight = s.desired
    /\ pending = 0 => server = s.inflight /\ calls = {}
    /\ pending # 0 => \E state \in {"sent", "handled"} :
          /\ calls = {Told(pending, s.inflight, TRUE, state)}
          /\ state = "handled" => server = s.inflight

\* The calls whose handler is still to run.
Unhandled == {c \in calls : c.state = "sent"}

\* total counts the frames of the steps up to each call from where the server
\* is: a call that is unhandled adds its value, and the others nothing.
Adds(total) ==
    /\ total \in [0 .. made -> Nat]
    /\ total[0] = server /\ total[made] = asked
    /\ \A c \in Unhandled : total[c.id] = total[c.id - 1] + c.value
    /\ \A i, j \in 0 .. made :
          i <= j /\ (\A c \in Unhandled : c.id \notin i + 1 .. j) => total[i] = total[j]

\* The steps: the handlers may run in any order, and those to come add up.
StepWish ==
    /\ \A c \in calls : c \in Settings!Call /\ c.id \in 1 .. made /\ c.open
    /\ \A c, d \in calls : c.id = d.id => c = d
    /\ \E total : Adds(total)

\* As long as no call failed: what LastWishWins needs to be inductive.
Wish ==
    /\ connected
    /\ kind = "scale" => ScaleWish
    /\ kind = "step" => StepWish

WishInv == ~broken => Wish

LEMMA WishRests ==
    ASSUME Wish,
           UNCHANGED <<kind, connected, server, calls, pending, s, timers, made, asked>>
    PROVE  Wish'
<1>1. ScaleWish => ScaleWish'
  BY DEF ScaleWish, Told
<1>2. StepWish => StepWish'
  <2>1. Unhandled' = Unhandled
    BY DEF Unhandled
  <2>2. \A total : Adds(total) => Adds(total)'
    BY <2>1 DEF Adds
  <2> QED BY <2>2 DEF StepWish
<1> QED BY <1>1, <1>2 DEF Wish

\* Another step of the user.
LEMMA StepAdds ==
    ASSUME Wish, made \in Nat, NEW v \in Values, Settings!StepCube(v)
    PROVE  Wish'
<1> DEFINE new == [id |-> made + 1, value |-> v, open |-> TRUE, state |-> "sent"]
<1>1. /\ kind = "step" /\ UNCHANGED <<kind, connected, server>>
      /\ calls' = calls \cup {new} /\ made' = made + 1 /\ asked' = asked + v
  BY DEF Settings!StepCube, Settings!Pick, Settings!Dispatch, Settings!NewCall,
         Settings!link
<1>2. StepWish
  BY <1>1 DEF Wish
<1>3. v \in Nat
  BY ConstantsAssumption DEF Settings!ValuesAssumption
<1>4. PICK total : Adds(total)
  BY <1>2 DEF StepWish
<1>5. /\ new.id = made + 1 /\ new.value = v /\ new.open = TRUE /\ new.state = "sent"
      /\ new \in Settings!Call
  BY <1>3 DEF Settings!Call
<1> HIDE DEF new
<1>6. /\ \A c \in calls' : c \in Settings!Call /\ c.id \in 1 .. made' /\ c.open
      /\ \A c, d \in calls' : c.id = d.id => c = d
  BY <1>1, <1>2, <1>3, <1>5 DEF StepWish
<1>7. PICK next : next = [i \in 0 .. made' |-> IF i = made + 1 THEN asked + v ELSE total[i]]
  OBVIOUS
<1>8. /\ next \in [0 .. made' -> Nat] /\ next[made + 1] = asked + v
      /\ \A i \in 0 .. made : total[i] \in Nat /\ next[i] = total[i]
  <2>1. asked \in Nat /\ \A i \in 0 .. made : total[i] \in Nat
    BY <1>4 DEF Adds
  <2>2. made + 1 \in 0 .. made' /\ \A i \in 0 .. made : i \in 0 .. made' /\ i # made + 1
    BY <1>1
  <2>3. \A i \in 0 .. made' : i # made + 1 => i \in 0 .. made
    BY <1>1
  <2>4. asked + v \in Nat
    BY <1>3, <2>1
  <2> QED BY <1>7, <2>1, <2>2, <2>3, <2>4
<1>9. Unhandled' = Unhandled \cup {new}
  BY <1>1, <1>5 DEF Unhandled
<1>10. next[0] = server' /\ next[made'] = asked'
  BY <1>1, <1>4, <1>8 DEF Adds
<1>11. \A c \in Unhandled' : next[c.id] = next[c.id - 1] + c.value
  <2>1. ASSUME NEW c \in Unhandled PROVE next[c.id] = next[c.id - 1] + c.value
    <3>1. c.id \in 0 .. made /\ c.id - 1 \in 0 .. made
      BY <1>2 DEF StepWish, Unhandled
    <3> QED BY <1>4, <1>8, <3>1 DEF Adds
  <2>2. next[new.id] = next[new.id - 1] + new.value
    BY <1>4, <1>5, <1>8 DEF Adds
  <2> QED BY <1>9, <2>1, <2>2
<1>12. ASSUME NEW i \in 0 .. made', NEW j \in 0 .. made', i <= j,
              \A c \in Unhandled' : c.id \notin i + 1 .. j
       PROVE  next[i] = next[j]
  <2>1. CASE j = made + 1
    <3>1. new.id \notin i + 1 .. j
      BY <1>9, <1>12
    <3> QED BY <1>1, <1>5, <2>1, <3>1
  <2>2. CASE j # made + 1
    <3>1. i \in 0 .. made /\ j \in 0 .. made
      BY <1>1, <1>12, <2>2
    <3> QED BY <1>4, <1>8, <1>9, <1>12, <3>1 DEF Adds
  <2> QED BY <2>1, <2>2
<1>13. Adds(next)'
  BY <1>8, <1>10, <1>11, <1>12 DEF Adds
<1> QED BY <1>1, <1>6, <1>13 DEF Wish, StepWish

\* The number before one of 1 .. n.
LEMMA NumberBefore ==
    ASSUME NEW n \in Nat, NEW k \in 1 .. n
    PROVE  /\ k \in 0 .. n /\ k - 1 \in 0 .. n
           /\ \A i \in 0 .. n : i + 1 <= k => i <= k - 1
OBVIOUS

LEMMA MovesUp ==
    ASSUME NEW a \in Nat, NEW b \in Nat, NEW u \in Nat
    PROVE  (a + b) + u = (a + u) + b
OBVIOUS

\* The handler of one step runs: the totals before it move up.
LEMMA StepHandled ==
    ASSUME Wish, made \in Nat, kind = "step", NEW c \in calls, c.state = "sent",
           server' = server + c.value, Settings!Over(c, "handled"),
           UNCHANGED <<kind, connected, made, asked>>
    PROVE  Wish'
<1> DEFINE done == [c EXCEPT !.state = "handled"]
<1>1. StepWish /\ c \in Settings!Call /\ c.id \in 1 .. made /\ c.open
  BY DEF Wish, StepWish
<1>2. calls' = (calls \ {c}) \cup {done}
  BY <1>1 DEF Settings!Over
<1>3. /\ done \in Settings!Call /\ done.id = c.id /\ done.open /\ done.state = "handled"
  BY <1>1 DEF Settings!Call
<1> HIDE DEF done
<1>4. PICK total : Adds(total)
  BY <1>1 DEF StepWish
<1>5. /\ \A d \in calls' : d \in Settings!Call /\ d.id \in 1 .. made' /\ d.open
      /\ \A d, e \in calls' : d.id = e.id => d = e
  BY <1>1, <1>2, <1>3 DEF StepWish
<1>6. Unhandled' = Unhandled \ {c} /\ c \in Unhandled
  BY <1>2, <1>3 DEF Unhandled
<1>7. c.value \in Nat /\ \A i \in 0 .. made : total[i] \in Nat
  BY <1>1, <1>4 DEF Adds, Settings!Call
<1>8. PICK next \in [0 .. made' -> Nat] :
         \A i \in 0 .. made :
            next[i] = IF i < c.id THEN total[i] + c.value ELSE total[i]
  <2> DEFINE up == [i \in 0 .. made |-> IF i < c.id THEN total[i] + c.value ELSE total[i]]
  <2>1. up \in [0 .. made' -> Nat]
    BY <1>1, <1>7
  <2> QED BY <2>1
<1>9. next[0] = server' /\ next[made'] = asked'
  BY <1>1, <1>4, <1>8 DEF Adds
<1>10. ASSUME NEW d \in Unhandled'
       PROVE  next[d.id] = next[d.id - 1] + d.value
  <2>1. d \in Unhandled /\ d \in Settings!Call /\ d.id \in 1 .. made /\ d.id # c.id
    BY <1>1, <1>6 DEF StepWish, Unhandled
  <2>2. total[d.id] = total[d.id - 1] + d.value
    BY <1>4, <2>1 DEF Adds
  <2>3. /\ d.id \in 0 .. made /\ d.id - 1 \in 0 .. made /\ d.value \in Nat
        /\ total[d.id - 1] \in Nat
    BY <1>7, <2>1 DEF Settings!Call
  <2>4. CASE d.id < c.id
    <3>1. d.id - 1 < c.id
      BY <1>1, <2>1, <2>4
    <3>2. /\ next[d.id] = total[d.id] + c.value
          /\ next[d.id - 1] = total[d.id - 1] + c.value
      BY <1>8, <2>3, <2>4, <3>1
    <3>3. (total[d.id - 1] + d.value) + c.value = (total[d.id - 1] + c.value) + d.value
      BY <1>7, <2>3, MovesUp
    <3> QED BY <2>2, <3>2, <3>3
  <2>5. CASE ~(d.id < c.id)
    <3>1. ~(d.id - 1 < c.id)
      BY <1>1, <2>1, <2>5
    <3> QED BY <1>8, <2>2, <2>3, <2>5, <3>1
  <2> QED BY <2>4, <2>5
<1>11. ASSUME NEW i \in 0 .. made', NEW j \in 0 .. made', i <= j,
              \A d \in Unhandled' : d.id \notin i + 1 .. j
       PROVE  next[i] = next[j]
  <2>1. CASE c.id \in i + 1 .. j
    <3>1. total[c.id] = total[c.id - 1] + c.value
      BY <1>4, <1>6 DEF Adds
    <3>2. ASSUME NEW d \in Unhandled
          PROVE  d.id \notin i + 1 .. c.id - 1 /\ d.id \notin c.id + 1 .. j
      <4>1. d.id \in 1 .. made
        BY <1>1 DEF StepWish, Unhandled
      <4>2. CASE d = c
        BY <1>1, <1>11, <4>2
      <4>3. CASE d # c
        <5>1. d.id \notin i + 1 .. j
          BY <1>6, <1>11, <4>3
        <5> QED BY <1>1, <1>11, <2>1, <4>1, <5>1
      <4> QED BY <4>2, <4>3
    <3>3. i \in 0 .. made /\ j \in 0 .. made /\ c.id \in 0 .. made /\ c.id - 1 \in 0 .. made
          /\ i <= c.id - 1 /\ c.id <= j
      <4>1. made' = made /\ made \in Nat /\ c.id \in 1 .. made
        BY <1>1
      <4>2. i \in 0 .. made /\ j \in 0 .. made
        BY <4>1
      <4>3. i + 1 <= c.id /\ c.id <= j
        BY <4>1, <4>2, <2>1
      <4> QED BY <4>1, <4>2, <4>3, NumberBefore
    <3>4. total[i] = total[c.id - 1]
      BY <1>4, <3>2, <3>3 DEF Adds
    <3>5. total[c.id] = total[j]
      BY <1>4, <3>2, <3>3 DEF Adds
    <3> QED BY <1>1, <1>7, <1>8, <3>1, <3>3, <3>4, <3>5
  <2>2. CASE c.id \notin i + 1 .. j
    <3>1. i \in 0 .. made /\ j \in 0 .. made
      BY <1>11
    <3>2. \A d \in Unhandled : d.id \notin i + 1 .. j
      BY <1>6, <1>11, <2>2
    <3>3. total[i] = total[j]
      BY <1>4, <1>11, <3>1, <3>2 DEF Adds
    <3>4. i < c.id <=> j < c.id
      BY <1>1, <1>11, <2>2
    <3> QED BY <1>8, <3>1, <3>3, <3>4
  <2> QED BY <2>1, <2>2
<1>12. Adds(next)'
  BY <1>8, <1>9, <1>10, <1>11 DEF Adds
<1> QED BY <1>5, <1>12 DEF Wish, StepWish

\* The completion of a step that was handled.
LEMMA StepEnds ==
    ASSUME Wish, kind = "step", NEW c \in calls, c.state # "sent",
           calls' = calls \ {c},
           UNCHANGED <<kind, connected, server, made, asked>>
    PROVE  Wish'
<1>1. Unhandled' = Unhandled
  BY DEF Unhandled
<1>2. \A total : Adds(total) => Adds(total)'
  BY <1>1 DEF Adds
<1> QED BY <1>2 DEF Wish, StepWish

\* The call that is sent now is the only one.
LEMMA ScaleSent ==
    ASSUME NEW v, made \in Nat, calls = {}, Settings!Send(v), s'.inflight = v,
           s'.desired = v, asked' = v, timers' = <<>>
    PROVE  ScaleWish'
<1>1. /\ pending' = made + 1 /\ pending' # 0
      /\ calls' = {Told(pending', v, TRUE, "sent")}
  BY DEF Settings!Send, Settings!NewCall, Told
<1> QED BY <1>1 DEF ScaleWish

\* The user sets the scale, or a call that was out makes room for the queue.
LEMMA ScaleAsked ==
    ASSUME Wish, SetterOK, NEW v \in Values, Settings!UserAsks(v)
    PROVE  Wish'
<1>1. /\ UNCHANGED <<kind, connected, server, timers>> /\ asked' = v
      /\ Settings!Ask(v) /\ connected
  BY DEF Settings!UserAsks, Settings!Pick, Settings!link, Wish
<1>2. kind # "step"
  BY <1>1 DEF Settings!Ask, Settings!RequestPixel, Settings!Stretch,
     Settings!ScaleData, Settings!RequestColorBox, Settings!RequestStatsBox,
     Settings!RequestBox
<1>3. ASSUME kind = "scale" PROVE ScaleWish'
  <2> DEFINE b == IF pending # 0 \/ s.awaitImage THEN s.prevAtSend ELSE mirror'
             m == [s EXCEPT !.desired = v, !.prevAtSend = b]
  <2>1. Settings!Coalesce(v, m)
    BY <1>1, <1>3
    DEF Settings!Ask, Settings!RequestPixel, Settings!Stretch,
        Settings!ScaleData, Settings!RequestColorBox, Settings!RequestStatsBox,
        Settings!RequestBox
  <2> HIDE DEF b
  <2>2. PICK q \in BOOLEAN, a \in BOOLEAN : \E d, f, p : s = Members(q, d, f, p, a)
    BY DEF SetterOK
  <2>3. PICK d, f, p : s = Members(q, d, f, p, a)
    BY <2>2
  <2>4. m = Members(q, v, f, b, a)
    <3>1. ASSUME NEW x, NEW n, n = [s EXCEPT !.desired = v, !.prevAtSend = x]
          PROVE  n = Members(q, v, f, x, a)
      BY <2>3, <3>1 DEF Members
    <3> QED BY <3>1, Zenon
  <2>5. s.queued = q /\ s.inflight = f /\ s.awaitImage = a
    BY <2>3 DEF Members
  <2> HIDE DEF m
  <2>6. ScaleWish
    BY <1>3 DEF Wish
  <2>7. CASE pending # 0 \/ s.awaitImage
    <3>1. s' = [m EXCEPT !.queued = TRUE] /\ UNCHANGED <<calls, made, pending>>
      BY <2>1, <2>7 DEF Settings!Coalesce
    <3>2. s' = Members(TRUE, v, f, b, a)
      BY <2>4, <3>1 DEF Members
    <3>3. s'.desired = v /\ s'.queued /\ s'.inflight = s.inflight
      BY <2>5, <3>2 DEF Members
    <3> QED BY <1>1, <2>6, <3>1, <3>3 DEF ScaleWish
  <2>8. CASE ~(pending # 0 \/ s.awaitImage)
    <3>1. s' = [m EXCEPT !.inflight = v] /\ Settings!Send(v)
      BY <2>1, <2>8 DEF Settings!Coalesce
    <3>2. s' = Members(q, v, v, b, a)
      BY <2>4, <3>1 DEF Members
    <3>3. s'.desired = v /\ s'.inflight = v
      BY <3>2 DEF Members
    <3> QED BY <1>1, <2>6, <2>8, <3>1, <3>3, SendCarries, ScaleSent DEF SetterOK, ScaleWish
  <2> QED BY <2>7, <2>8
<1> QED BY <1>1, <1>2, <1>3 DEF Wish

\* The handler of a scale.
LEMMA ScaleHandled ==
    ASSUME Wish, kind = "scale", NEW c \in calls, Settings!Serve(c, c.value)
    PROVE  Wish'
<1>1. /\ ScaleWish /\ UNCHANGED <<kind, connected, pending, s, timers, asked>>
      /\ Settings!Over(c, "handled") /\ server' = c.value
  BY DEF Settings!Serve, Settings!link, Settings!user, Wish
<1>2. pending # 0
  BY <1>1 DEF ScaleWish
<1>3. PICK state : calls = {Told(pending, s.inflight, TRUE, state)}
  BY <1>1, <1>2 DEF ScaleWish
<1>4. c = Told(pending, s.inflight, TRUE, state)
  BY <1>3
<1>5. c.value = s.inflight /\ c.open
  BY <1>4 DEF Told
<1>6. /\ calls' = {Told(pending, s.inflight, TRUE, "handled")}
      /\ server' = s.inflight
  BY <1>1, <1>3, <1>4, <1>5, ToldHandled DEF Settings!Over
<1> QED BY <1>1, <1>2, <1>6 DEF Wish, ScaleWish

\* The completion of a scale that was handled: nothing is out.
LEMMA ScaleEnded ==
    ASSUME Wish, SetterOK, kind = "scale", NEW c \in calls, c.state # "sent",
           calls' = calls \ {c}, pending' = 0, s' = [s EXCEPT !.awaitImage = TRUE],
           UNCHANGED <<kind, connected, server, timers, asked>>
    PROVE  Wish'
<1>1. ScaleWish
  BY DEF Wish
<1>2. calls = {c} /\ server = s.inflight
  <2>1. PICK state \in {"sent", "handled"} :
          /\ calls = {Told(pending, s.inflight, TRUE, state)}
          /\ state = "handled" => server = s.inflight
    BY <1>1 DEF ScaleWish
  <2>2. c = Told(pending, s.inflight, TRUE, state)
    BY <2>1
  <2>3. c.state = state
    BY <2>2 DEF Told
  <2> QED BY <2>1, <2>2, <2>3
<1>3. s'.desired = s.desired /\ s'.inflight = s.inflight /\ s'.queued = s.queued
  <2>1. PICK q \in BOOLEAN, a \in BOOLEAN : \E d, f, p : s = Members(q, d, f, p, a)
    BY DEF SetterOK
  <2>2. PICK d, f, p : s = Members(q, d, f, p, a)
    BY <2>1
  <2> QED BY <2>2 DEF Members
<1> QED BY <1>1, <1>2, <1>3 DEF Wish, ScaleWish

\* The image that ends the wait takes the last wish along.
LEMMA ImageWishes ==
    ASSUME Wish, SetterOK, Settings!ImageReceived
    PROVE  Wish'
<1> DEFINE over == /\ kind = "scale" /\ s.awaitImage
                   /\ Settings!ScaleReflected(image.value)
           next == over /\ s.queued /\ pending = 0
           waits == s.awaitImage /\ ~over
           left == s.queued /\ ~next
           heard == [s EXCEPT !.awaitImage = waits, !.queued = left]
<1>1. /\ UNCHANGED <<kind, connected, server, timers, asked>> /\ connected
      /\ IF next
         THEN /\ s' = [heard EXCEPT !.inflight = s.desired, !.prevAtSend = s.desired]
              /\ Settings!Send(s.desired)
         ELSE s' = heard /\ UNCHANGED <<calls, made, pending>>
  BY DEF Settings!ImageReceived, Settings!link, Settings!user, Wish
<1>2. PICK q \in BOOLEAN, a \in BOOLEAN : \E d, f, p : s = Members(q, d, f, p, a)
  BY DEF SetterOK
<1>3. PICK d, f, p : s = Members(q, d, f, p, a)
  BY <1>2
<1>4. s.queued = q /\ s.desired = d /\ s.inflight = f
  BY <1>3 DEF Members
<1>5. ASSUME NEW x, NEW y, NEW m, m = [s EXCEPT !.awaitImage = x, !.queued = y]
      PROVE  m = Members(y, d, f, p, x)
  BY <1>3, <1>5 DEF Members
<1>6. next => kind = "scale" /\ pending = 0
  OBVIOUS
<1>7. ~next => (left <=> s.queued)
  OBVIOUS
<1> HIDE DEF over, next, waits, left
<1>8. heard = Members(left, d, f, p, waits)
  BY <1>5, Zenon DEF heard
<1> HIDE DEF heard
<1>9. CASE next
  <2>1. s' = Members(left, d, d, d, waits)
    BY <1>1, <1>4, <1>8, <1>9 DEF Members
  <2>2. s'.desired = d /\ s'.inflight = d
    BY <2>1 DEF Members
  <2>3. ScaleWish /\ kind' = "scale"
    BY <1>1, <1>6, <1>9 DEF Wish
  <2>4. ScaleWish'
    BY <1>1, <1>4, <1>6, <1>9, <2>2, <2>3, ScaleSent DEF SetterOK, ScaleWish
  <2> QED BY <1>1, <2>3, <2>4 DEF Wish
<1>10. CASE ~next
  <2>1. s'.desired = s.desired /\ s'.inflight = s.inflight /\ (s'.queued <=> s.queued)
    BY <1>1, <1>4, <1>7, <1>8, <1>10 DEF Members
  <2>2. UNCHANGED <<calls, made, pending>>
    BY <1>1, <1>10
  <2>3. kind = "scale" => ScaleWish'
    BY <1>1, <2>1, <2>2 DEF Wish, ScaleWish
  <2>4. kind = "step" => StepWish'
    BY <1>1, <2>2 DEF Wish, StepWish, Adds, Unhandled
  <2> QED BY <1>1, <2>3, <2>4 DEF Wish
<1> QED BY <1>9, <1>10

LEMMA UserWishes ==
    ASSUME Wish, SetterOK, Settings!UserStep
    PROVE  Wish'
<1>1. PICK v \in Values :
        \/ Settings!SetCube(v) \/ Settings!SetProcessing(v)
        \/ Settings!SetHPFilter(v) \/ Settings!SetLPFilter(v)
        \/ Settings!SetMTF(v) \/ Settings!LoadColorbar(v)
        \/ Settings!SetAutoscale(v) \/ Settings!SetColormode(v)
        \/ Settings!StepCube(v) \/ Settings!UserAsks(v)
  BY DEF Settings!UserStep
<1>2. CASE Settings!UserAsks(v)
  BY <1>2, ScaleAsked
<1>3. CASE Settings!StepCube(v)
  BY <1>3, StepAdds DEF SetterOK
<1>4. CASE ~Settings!UserAsks(v) /\ ~Settings!StepCube(v)
  <2>1. /\ kind \notin {"scale", "step"} /\ kind' = kind /\ connected' = connected
    BY <1>1, <1>4
    DEF Settings!SetCube, Settings!SetProcessing, Settings!SetHPFilter,
        Settings!SetLPFilter, Settings!SetMTF, Settings!LoadColorbar,
        Settings!SetAutoscale, Settings!SetColormode, Settings!Set,
        Settings!Pick, Settings!link
  <2> QED BY <2>1 DEF Wish
<1> QED BY <1>2, <1>3, <1>4

\* Events are posted only by a call that failed.
LEMMA TimerWishes ==
    ASSUME Wish, Settings!TimerFires
    PROVE  Wish'
<1>1. kind' = kind /\ connected' = connected
  BY DEF Settings!TimerFires, Settings!link
<1>2. kind # "scale"
  BY DEF Settings!TimerFires, Wish, ScaleWish
<1>3. kind # "step"
  BY DEF Settings!TimerFires, Wish, Settings!Ask, Settings!RequestPixel,
         Settings!Stretch, Settings!ScaleData, Settings!RequestColorBox,
         Settings!RequestStatsBox, Settings!RequestBox
<1> QED BY <1>1, <1>2, <1>3 DEF Wish

LEMMA HandlerWishes ==
    ASSUME Wish, SetterOK, NEW c \in calls, Settings!Handle(c), ~broken'
    PROVE  Wish'
<1>1. /\ kind' = kind /\ connected' = connected
      /\ kind = "scale" => Settings!Serve(c, c.value)
      /\ kind = "step" => Settings!Serve(c, server + c.value)
  BY DEF Settings!Handle, Settings!HandleCube, Settings!HandleStep,
         Settings!HandleMTF, Settings!HandleColour, Settings!HandleScale,
         Settings!HandleProcessing, Settings!HandleLPFilter,
         Settings!HandlePixel, Settings!HandleColorBox,
         Settings!HandleStatsBox, Settings!ServeImage, Settings!Serve,
         Settings!link
<1>2. CASE kind = "scale"
  BY <1>1, <1>2, ScaleHandled
<1>3. CASE kind = "step"
  BY <1>1, <1>3, StepHandled DEF Settings!Serve, Settings!link, Settings!user, SetterOK
<1> QED BY <1>1, <1>2, <1>3 DEF Wish

LEMMA CompletionWishes ==
    ASSUME Wish, SetterOK, NEW c \in calls, NEW ok \in BOOLEAN, NEW lost \in BOOLEAN,
           \/ Settings!EmptyRpcEnds(c, ok, lost) \/ Settings!PixelEnds(c, ok, lost)
           \/ Settings!ColorBoxEnds(c, ok, lost)
           \/ Settings!StatsBoxEnds(c, ok, lost)
           \/ Settings!StretchEnds(c, ok, lost) \/ Settings!ScaleEnds(c, ok, lost),
           ~broken'
    PROVE  Wish'
<1>1. Settings!Ends(c, ok, lost)
  BY DEF Settings!EmptyRpcEnds, Settings!PixelEnds, Settings!ColorBoxEnds,
         Settings!StatsBoxEnds, Settings!BoxEnds, Settings!StretchEnds,
         Settings!ScaleEnds
<1>2. /\ ok /\ c.state # "sent" /\ calls' = calls \ {c}
      /\ connected' /\ UNCHANGED <<kind, server, made, asked>>
  BY <1>1 DEF Settings!Ends, Settings!user, Wish
<1>3. connected' = connected
  BY <1>1, <1>2 DEF Settings!Ends, Wish
<1>4. CASE kind = "scale"
  <2>1. pending' = 0 /\ s' = [s EXCEPT !.awaitImage = TRUE] /\ timers' = timers
    BY <1>2, <1>4
    DEF Settings!EmptyRpcEnds, Settings!PixelEnds, Settings!ColorBoxEnds,
        Settings!StatsBoxEnds, Settings!StretchEnds, Settings!ScaleEnds,
        Settings!Sent
  <2> QED BY <1>2, <1>3, <1>4, <2>1, ScaleEnded
<1>5. CASE kind = "step"
  BY <1>2, <1>3, <1>5, StepEnds
<1> QED BY <1>2, <1>4, <1>5 DEF Wish

\* A failure is not forgotten.
LEMMA FailuresStay ==
    ASSUME Settings!Next, ~broken'
    PROVE  ~broken
<1>1. CASE Settings!UserStep
  BY <1>1
  DEF Settings!UserStep, Settings!SetCube, Settings!SetProcessing,
      Settings!SetHPFilter, Settings!SetLPFilter, Settings!SetMTF,
      Settings!LoadColorbar, Settings!SetAutoscale, Settings!SetColormode,
      Settings!StepCube, Settings!UserAsks, Settings!Set, Settings!Pick
<1>2. CASE \E c \in calls : Settings!Handle(c)
  BY <1>2
  DEF Settings!Handle, Settings!HandleCube, Settings!HandleStep,
      Settings!HandleMTF, Settings!HandleColour, Settings!HandleScale,
      Settings!HandleProcessing, Settings!HandleLPFilter,
      Settings!HandlePixel, Settings!HandleColorBox,
      Settings!HandleStatsBox, Settings!ServeImage, Settings!Serve
<1>3. ASSUME NEW c, NEW ok, NEW lost, Settings!Ends(c, ok, lost)
      PROVE  ~broken
  BY <1>3 DEF Settings!Ends
<1>4. CASE Settings!Completion
  BY <1>3, <1>4
  DEF Settings!Completion, Settings!EmptyRpcEnds, Settings!PixelEnds,
      Settings!ColorBoxEnds, Settings!StatsBoxEnds, Settings!BoxEnds,
      Settings!StretchEnds, Settings!ScaleEnds
<1>5. CASE \/ Settings!TimerFires \/ Settings!FillReply \/ Settings!ImageReceived
           \/ Settings!SourceConnects \/ Settings!Reconnect
  BY <1>5
  DEF Settings!TimerFires, Settings!FillReply, Settings!ImageReceived,
      Settings!SourceConnects, Settings!Reconnect
<1> QED BY <1>1, <1>2, <1>4, <1>5 DEF Settings!Next

\* Once it is quiet, the server has the last scale the user set and is at the
\* frame his steps add up to, in whatever order the handlers ran and however
\* the changes fell between calls and images, as long as no call failed
\* (minScaleData and its completion, cubeFrameDelta).
THEOREM LastWishIsAtServer == Spec => []LastWishWins
<1>1. Init => WishInv
  <2> SUFFICES ASSUME Settings!Init PROVE WishInv
    BY DEF Init
  <2>1. ScaleWish
    BY DEF Settings!Init, ScaleWish
  <2>2. StepWish
    <3> DEFINE total == [i \in 0 .. 0 |-> 0]
    <3>1. Unhandled = {} /\ made = 0 /\ server = 0 /\ asked = 0 /\ calls = {}
      BY DEF Settings!Init, Unhandled
    <3>2. total \in [0 .. 0 -> Nat] /\ total[0] = 0
      OBVIOUS
    <3>3. \A i, j \in 0 .. 0 : total[i] = total[j]
      OBVIOUS
    <3> HIDE DEF total
    <3>4. Adds(total)
      BY <3>1, <3>2, <3>3 DEF Adds
    <3> QED BY <3>1, <3>4 DEF StepWish
  <2> QED BY <2>1, <2>2 DEF Settings!Init, Wish, WishInv
<1>2. CarrierInv /\ WishInv /\ [Next]_vars => WishInv'
  <2> SUFFICES ASSUME CarrierInv, WishInv, [Next]_vars, ~broken' PROVE Wish'
    BY DEF WishInv
  <2>1. SetterOK
    BY DEF CarrierInv
  <2>2. CASE Settings!Next
    <3>1. ~broken
      BY <2>2, FailuresStay
    <3>2. Wish
      BY <3>1 DEF WishInv
    <3>3. CASE Settings!UserStep \/ Settings!TimerFires \/ Settings!ImageReceived
      BY <2>1, <3>2, <3>3, UserWishes, TimerWishes, ImageWishes
    <3>4. CASE \E c \in calls : Settings!Handle(c)
      BY <2>1, <3>2, <3>4, HandlerWishes
    <3>5. CASE Settings!Completion
      BY <2>1, <3>2, <3>5, CompletionWishes DEF Settings!Completion
    <3>6. CASE Settings!FillReply \/ Settings!SourceConnects
      BY <3>2, <3>6, WishRests
      DEF Settings!FillReply, Settings!SourceConnects, Settings!link, Settings!user
    <3>7. CASE Settings!Reconnect
      BY <3>2, <3>7 DEF Settings!Reconnect, Wish
    <3> QED BY <2>2, <3>3, <3>4, <3>5, <3>6, <3>7 DEF Settings!Next
  <2>3. CASE UNCHANGED settingsVars
    BY <2>3, WishRests DEF settingsVars, WishInv
  <2> QED BY <2>2, <2>3 DEF Next, vars
<1>3. CarrierInv /\ WishInv => LastWishWins
  <2> SUFFICES ASSUME CarrierInv, WishInv, kind \in {"scale", "step"}, Settings!Quiet, ~broken
               PROVE  server = asked
    BY DEF LastWishWins, Settings!LastWishWins
  <2>1. CASE kind = "scale"
    BY <2>1 DEF WishInv, Wish, ScaleWish, Settings!Quiet
  <2>2. CASE kind = "step"
    <3>1. PICK total : Adds(total)
      BY <2>2 DEF WishInv, Wish, StepWish
    <3>2. Unhandled = {}
      BY DEF Settings!Quiet, Unhandled
    <3>3. made \in Nat
      BY DEF CarrierInv, SetterOK
    <3> QED BY <3>1, <3>2, <3>3 DEF Adds
  <2> QED BY <2>1, <2>2
<1> QED BY <1>1, <1>2, <1>3, CarrierInvariant, PTL DEF Spec

-----------------------------------------------------------------------------
(* The choice about the global statistics.                                 *)

\* The server has answered for the pair that was sent last: no call is out, or
\* the one that is out was handled.
Answered(call, f) ==
    \/ call = Intent!NoCall /\ ~f.rpcUnsupported
    \/ call.status \in {"handled", "ok"}

\* Over the connection that is up only the pair that was sent last is out, and
\* it is in the stream once it was answered.
SentOver(link, f, call, stream, overrun) ==
    /\ link.up /\ f.rpcUnsupported => ~f.supported
    /\ link.up /\ f.sent =>
         /\ call # Intent!NoCall => call.gen = link.gen /\ call.pair = f.last
         /\ ~overrun /\ Answered(call, f) => stream = f.last

\* A wish that is not out and was not sent last cannot be sent now: what
\* LastPairWins needs to be inductive.
PairInv ==
    /\ gLink \in [gen : Nat, up : BOOLEAN, shaking : BOOLEAN]
    /\ gFlags \in Intent!Flags /\ gCall \in Intent!Calls
    /\ gWant \in Pairs \cup {Intent!NoPair}
    /\ SentOver(gLink, gFlags, gCall, gStream, gOverrun)
    /\ /\ gLink.up /\ gFlags.supported /\ gFlags.sent
       /\ gCall = Intent!NoCall /\ gWant # Intent!NoPair
       => gFlags.last = gWant

\* Whoever calls dispatchGlobalStats leaves nothing unsent behind.
LEMMA DispatchSends ==
    ASSUME gLink' \in [gen : Nat, up : BOOLEAN, shaking : BOOLEAN],
           gLink'.gen = gLink.gen, gWant' \in Pairs \cup {Intent!NoPair},
           NEW call \in Intent!Calls, NEW f \in Intent!Flags,
           SentOver(gLink', f, call, gStream', gOverrun'),
           Intent!DispatchGlobalStats(gWant', gLink'.up, call, f)
    PROVE  PairInv'
<1> DEFINE go == /\ gLink'.up /\ f.supported
                 /\ gWant' # Intent!NoPair /\ call = Intent!NoCall
                 /\ ~(f.sent /\ f.last = gWant')
           out == [gen |-> gLink.gen, pair |-> gWant', status |-> "sent"]
<1>1. CASE go
  <2>1. gCall' = out /\ gFlags' = [f EXCEPT !.sent = TRUE, !.last = gWant']
    BY <1>1 DEF Intent!DispatchGlobalStats
  <2>2. gLink'.gen \in Nat /\ gWant' \in Pairs
    BY <1>1
  <2>3. gCall' \in Intent!Calls /\ gCall' # Intent!NoCall
        /\ gCall'.gen = gLink'.gen /\ gCall'.pair = gWant' /\ gCall'.status = "sent"
    BY <2>1, <2>2 DEF Intent!Calls, Intent!NoCall
  <2>4. gFlags' \in Intent!Flags /\ gFlags'.last = gWant'
        /\ gFlags'.rpcUnsupported = f.rpcUnsupported /\ gFlags'.supported = f.supported
    BY <2>1, <2>2 DEF Intent!Flags
  <2>5. SentOver(gLink', gFlags', gCall', gStream', gOverrun')
    BY <2>3, <2>4 DEF SentOver, Answered
  <2>6. SentOver(gLink, gFlags, gCall, gStream, gOverrun)'
    BY <2>5 DEF SentOver, Answered
  <2> QED BY <2>3, <2>4, <2>6 DEF PairInv
<1>2. CASE ~go
  <2>1. gCall' = call /\ gFlags' = f
    BY <1>2 DEF Intent!DispatchGlobalStats
  <2>2. SentOver(gLink, gFlags, gCall, gStream, gOverrun)'
    BY <2>1 DEF SentOver, Answered
  <2> QED BY <1>2, <2>1, <2>2 DEF PairInv
<1> QED BY <1>1, <1>2

LEMMA GlobalStatsSends ==
    ASSUME PairInv, NEW v \in Pairs, Intent!GlobalStats(v)
    PROVE  PairInv'
<1>1. /\ gWant' = v /\ UNCHANGED <<gLink, gStream, gOverrun>>
      /\ Intent!DispatchGlobalStats(v, gLink.up, gCall, gFlags)
  BY DEF Intent!GlobalStats
<1> QED BY <1>1, DispatchSends DEF PairInv

\* The end of a call: what the older connection was told does not count.
LEMMA ReceivedSends ==
    ASSUME PairInv, Intent!GlobalStatsReceived
    PROVE  PairInv'
<1> DEFINE over == gCall.status \in {"ok", "unimplemented", "failed"}
           mine == over /\ gCall.gen = gLink.gen /\ gCall.status # "ok"
           old  == mine /\ gCall.status = "unimplemented"
           lost == mine /\ ~old
           f    == [gFlags EXCEPT !.supported = @ /\ ~old,
                                  !.rpcUnsupported = @ \/ old,
                                  !.sent = @ /\ ~lost]
<1>1. /\ gLink' = [gLink EXCEPT !.up = @ /\ ~lost]
      /\ IF over
         THEN Intent!DispatchGlobalStats(gWant, gLink'.up, Intent!NoCall, f)
         ELSE UNCHANGED <<gCall, gFlags>>
      /\ UNCHANGED <<gWant, gStream, gOverrun>>
  BY DEF Intent!GlobalStatsReceived
<1>2. /\ gLink' \in [gen : Nat, up : BOOLEAN, shaking : BOOLEAN]
      /\ gLink'.gen = gLink.gen /\ gLink'.up = (gLink.up /\ ~lost)
  BY <1>1 DEF PairInv
<1>3. /\ f \in Intent!Flags /\ f.last = gFlags.last
      /\ f.supported = (gFlags.supported /\ ~old)
      /\ f.rpcUnsupported = (gFlags.rpcUnsupported \/ old)
      /\ f.sent = (gFlags.sent /\ ~lost)
  BY DEF PairInv, Intent!Flags
<1> HIDE DEF f
<1>4. CASE over
  <2>1. gCall # Intent!NoCall /\ Intent!NoCall \in Intent!Calls
    BY <1>4 DEF Intent!NoCall, Intent!Calls
  <2>2. gLink'.up /\ f.rpcUnsupported => ~f.supported
    BY <1>2, <1>3 DEF PairInv, SentOver
  <2>3. ASSUME gLink'.up, f.sent, ~gOverrun, ~f.rpcUnsupported
        PROVE  gStream = f.last
    <3>1. gLink.up /\ gFlags.sent /\ ~lost /\ ~old
      BY <1>2, <1>3, <2>3
    <3>2. gCall.gen = gLink.gen
      BY <2>1, <3>1 DEF PairInv, SentOver
    <3>3. gCall.status = "ok"
      BY <1>4, <3>1, <3>2
    <3> QED BY <1>3, <2>3, <3>1, <3>3 DEF PairInv, SentOver, Answered
  <2>4. SentOver(gLink', f, Intent!NoCall, gStream', gOverrun')
    BY <1>1, <2>2, <2>3 DEF SentOver, Answered, Intent!NoCall
  <2> QED BY <1>1, <1>2, <1>3, <1>4, <2>1, <2>4, DispatchSends DEF PairInv
<1>5. CASE ~over
  <2>1. ~lost /\ UNCHANGED <<gCall, gFlags, gWant, gStream, gOverrun>>
    BY <1>1, <1>5
  <2>2. gLink'.up <=> gLink.up
    BY <1>2, <2>1
  <2> QED BY <1>2, <2>1, <2>2 DEF PairInv, SentOver, Answered
<1> QED BY <1>4, <1>5

LEMMA ReceiveSends ==
    ASSUME PairInv, Intent!ReceiveGlobalStats
    PROVE  PairInv'
<1> DEFINE has == gKnows # "none" /\ ~gFlags.rpcUnsupported
           f   == [gFlags EXCEPT !.supported = has]
<1>1. /\ Intent!DispatchGlobalStats(gWant, gLink.up, gCall, f)
      /\ UNCHANGED <<gLink, gWant, gStream, gOverrun>>
  BY DEF Intent!ReceiveGlobalStats
<1>2. /\ f \in Intent!Flags /\ f.last = gFlags.last /\ f.supported = has
      /\ f.rpcUnsupported = gFlags.rpcUnsupported /\ f.sent = gFlags.sent
  BY DEF PairInv, Intent!Flags
<1> HIDE DEF f
<1>3. SentOver(gLink', f, gCall, gStream', gOverrun')
  BY <1>1, <1>2 DEF PairInv, SentOver, Answered
<1> QED BY <1>1, <1>2, <1>3, DispatchSends DEF PairInv

\* The handler and the completion of the call.
LEMMA CallSends ==
    ASSUME PairInv,
           \/ Intent!SetGlobalStats
           \/ \E status \in {"ok", "unimplemented", "failed"} :
                 Intent!GlobalStatsCallback(status)
    PROVE  PairInv'
<1>1. PICK st \in {"handled", "ok", "unimplemented", "failed"} :
         /\ gCall' = [gCall EXCEPT !.status = st]
         /\ gCall.status \in {"sent", "handled"}
         /\ st = "ok" => gCall.status = "handled"
         /\ IF st = "handled"
            THEN \/ gStream' = gCall.pair
                 \/ gCall.gen # gLink.gen /\ UNCHANGED gStream
            ELSE UNCHANGED gStream
         /\ UNCHANGED <<gLink, gWant, gFlags, gOverrun>>
  BY DEF Intent!SetGlobalStats, Intent!GlobalStatsCallback
<1>2. /\ gCall' \in Intent!Calls /\ gCall'.status = st
      /\ gCall'.gen = gCall.gen /\ gCall'.pair = gCall.pair
  BY <1>1 DEF PairInv, Intent!Calls
<1>3. gCall # Intent!NoCall /\ gCall' # Intent!NoCall
  BY <1>1, <1>2 DEF Intent!NoCall
<1>4. SentOver(gLink, gFlags, gCall, gStream, gOverrun)'
  BY <1>1, <1>2, <1>3 DEF PairInv, SentOver, Answered
<1> QED BY <1>1, <1>2, <1>3, <1>4 DEF PairInv

\* A connection that goes or comes: what was sent over the old one is not
\* taken for sent.
LEMMA LinkSends ==
    ASSUME PairInv,
           \/ Intent!ReportLost \/ Intent!DispatchConnectionRequest
           \/ Intent!FinishConnection
    PROVE  PairInv'
<1>1. CASE Intent!ReportLost
  <2>1. /\ gLink' \in [gen : Nat, up : BOOLEAN, shaking : BOOLEAN] /\ ~gLink'.up
        /\ UNCHANGED <<gWant, gFlags, gCall>>
    BY <1>1 DEF Intent!ReportLost, PairInv
  <2> QED BY <2>1 DEF PairInv, SentOver
<1>2. CASE Intent!DispatchConnectionRequest
  <2>1. /\ gLink' \in [gen : Nat, up : BOOLEAN, shaking : BOOLEAN] /\ ~gLink'.up
        /\ UNCHANGED <<gWant, gFlags, gCall>>
    <3>1. /\ gLink' = [gLink EXCEPT !.gen = gLink.gen + 1, !.shaking = TRUE]
          /\ ~gLink.up /\ UNCHANGED <<gWant, gFlags, gCall>>
      BY <1>2 DEF Intent!DispatchConnectionRequest
    <3>2. gLink.gen + 1 \in Nat
      BY DEF PairInv
    <3> QED BY <3>1, <3>2 DEF PairInv
  <2> QED BY <2>1 DEF PairInv, SentOver
<1>3. CASE Intent!FinishConnection
  <2>1. /\ gLink' \in [gen : Nat, up : BOOLEAN, shaking : BOOLEAN]
        /\ gFlags' \in Intent!Flags /\ ~gFlags'.sent /\ ~gFlags'.rpcUnsupported
        /\ UNCHANGED <<gWant, gCall>>
    BY <1>3 DEF Intent!FinishConnection, PairInv, Intent!Flags
  <2> QED BY <2>1 DEF PairInv, SentOver
<1> QED BY <1>1, <1>2, <1>3

LEMMA PairInvariant == Spec => []PairInv
<1>1. Init => PairInv
  <2> SUFFICES ASSUME Intent!Init PROVE PairInv
    BY DEF Init
  <2> QED
    BY DEF Intent!Init, PairInv, SentOver, Intent!Flags, Intent!Calls, Intent!NoCall
<1>2. PairInv /\ [Next]_vars => PairInv'
  <2> SUFFICES ASSUME PairInv, [Next]_vars PROVE PairInv'
    OBVIOUS
  <2>1. ASSUME NEW v \in Pairs, Intent!GlobalStats(v) PROVE PairInv'
    BY <2>1, GlobalStatsSends
  <2>2. CASE Intent!SetGlobalStats \/ Intent!Completes
             \/ Intent!GlobalStatsCallback("failed")
    BY <2>2, CallSends DEF Intent!Completes
  <2>3. CASE Intent!GlobalStatsReceived \/ Intent!ReceiveGlobalStats
    BY <2>3, ReceivedSends, ReceiveSends
  <2>4. CASE Intent!ReportLost \/ Intent!Reconnects
    BY <2>4, LinkSends DEF Intent!Reconnects
  <2>5. CASE \/ \E v \in Pairs : Intent!LateHandler(v)
             \/ \E st \in {"ok", "none"} : Intent!FillGlobalStats(st)
             \/ Intent!GlobalStatsUnavailable \/ UNCHANGED intentVars
    <3>1. /\ UNCHANGED <<gLink, gWant, gFlags, gCall>>
          /\ UNCHANGED <<gStream, gOverrun>> \/ gOverrun' = TRUE
      BY <2>5
      DEF Intent!LateHandler, Intent!FillGlobalStats, Intent!GlobalStatsUnavailable,
          intentVars
    <3> QED BY <3>1 DEF PairInv, SentOver, Answered
  <2> QED
    BY <2>1, <2>2, <2>3, <2>4, <2>5 DEF Next, vars, Intent!Next
<1> QED BY <1>1, <1>2, PTL DEF Spec

\* Rapid toggles, an answer to an older choice, a new server and a new stream
\* cannot leave an older choice in the stream when the client has nothing more
\* to say over a working connection, unless a handler that it had given up ran
\* (dispatchGlobalStats and its callers).
THEOREM LastChoiceIsInStream == Spec => []LastPairWins
<1>1. PairInv => LastPairWins
  BY DEF PairInv, SentOver, Answered, LastPairWins, Intent!LastPairWins
<1> QED BY <1>1, PairInvariant, PTL

\* A call that is over has its slot queued, and a choice that can be sent was.
Over == {"ok", "unimplemented", "failed"}

SentIfAble(up, flags, call, want) ==
    up /\ flags.supported /\ want # Intent!NoPair /\ call = Intent!NoCall
        => flags.sent /\ flags.last = want

CarriedInv ==
    /\ gEvents \in Nat
    /\ gCall.status \in Over => gEvents > 0
    /\ SentIfAble(gLink.up, gFlags, gCall, gWant)

\* dispatchGlobalStats leaves nothing that it could send.
LEMMA DispatchCarries ==
    ASSUME NEW want \in Pairs \cup {Intent!NoPair}, NEW up \in BOOLEAN,
           NEW call \in Intent!Calls, NEW f \in Intent!Flags,
           Intent!DispatchGlobalStats(want, up, call, f)
    PROVE  /\ gCall' = call \/ gCall'.status \notin Over
           /\ SentIfAble(up, gFlags', gCall', want)
<1> DEFINE go == /\ up /\ f.supported
                 /\ want # Intent!NoPair /\ call = Intent!NoCall
                 /\ ~(f.sent /\ f.last = want)
           out == [gen |-> gLink.gen, pair |-> want, status |-> "sent"]
<1>1. CASE go
  <2>1. gCall' = out /\ gFlags' = [f EXCEPT !.sent = TRUE, !.last = want]
    BY <1>1 DEF Intent!DispatchGlobalStats
  <2>2. gCall'.status = "sent" /\ gFlags'.sent /\ gFlags'.last = want
    BY <2>1 DEF Intent!Flags
  <2> QED BY <2>2 DEF SentIfAble, Over
<1>2. CASE ~go
  <2>1. gCall' = call /\ gFlags' = f
    BY <1>2 DEF Intent!DispatchGlobalStats
  <2> QED BY <1>2, <2>1 DEF SentIfAble
<1> QED BY <1>1, <1>2

\* The end of a call makes room for the choice that was made meanwhile.
LEMMA ReceivedCarries ==
    ASSUME PairInv, CarriedInv, Intent!GlobalStatsReceived
    PROVE  CarriedInv'
<1> DEFINE over == gCall.status \in {"ok", "unimplemented", "failed"}
           mine == over /\ gCall.gen = gLink.gen /\ gCall.status # "ok"
           old  == mine /\ gCall.status = "unimplemented"
           lost == mine /\ ~old
           f    == [gFlags EXCEPT !.supported = @ /\ ~old,
                                  !.rpcUnsupported = @ \/ old,
                                  !.sent = @ /\ ~lost]
<1>1. /\ gLink' = [gLink EXCEPT !.up = @ /\ ~lost]
      /\ IF over
         THEN Intent!DispatchGlobalStats(gWant, gLink'.up, Intent!NoCall, f)
         ELSE UNCHANGED <<gCall, gFlags>>
      /\ gEvents > 0 /\ gEvents' = gEvents - 1
      /\ UNCHANGED gWant
  BY DEF Intent!GlobalStatsReceived
<1>2. gLink'.up \in BOOLEAN /\ gLink'.up = (gLink.up /\ ~lost) /\ gEvents' \in Nat
  BY <1>1 DEF PairInv, CarriedInv
<1>3. CASE over
  <2>1. f \in Intent!Flags /\ Intent!NoCall \in Intent!Calls
    BY DEF PairInv, Intent!Flags, Intent!Calls, Intent!NoCall
  <2> HIDE DEF f
  <2>2. /\ gCall' = Intent!NoCall \/ gCall'.status \notin Over
        /\ SentIfAble(gLink'.up, gFlags', gCall', gWant)
    BY <1>1, <1>2, <1>3, <2>1, DispatchCarries DEF PairInv
  <2> QED BY <1>1, <1>2, <2>2 DEF CarriedInv, SentIfAble, Intent!NoCall, Over
<1>4. CASE ~over
  BY <1>1, <1>2, <1>4 DEF CarriedInv, SentIfAble, Over
<1> QED BY <1>3, <1>4

\* No choice of the user is forgotten: over a working connection to a server that
\* knows the statistics it was sent last, or a call is out, or over with the slot
\* queued that sends the next (dispatchGlobalStats, globalStats_callback).
THEOREM ChoicesAreCarried == Spec => []WishHasCarrier
<1>1. Init => CarriedInv
  <2> SUFFICES ASSUME Intent!Init PROVE CarriedInv
    BY DEF Init
  <2> QED BY DEF Intent!Init, CarriedInv, SentIfAble, Intent!NoCall, Over
<1>2. PairInv /\ CarriedInv /\ [Next]_vars => CarriedInv'
  <2> SUFFICES ASSUME PairInv, CarriedInv, [Next]_vars PROVE CarriedInv'
    OBVIOUS
  <2>1. ASSUME NEW v \in Pairs, Intent!GlobalStats(v) PROVE CarriedInv'
    <3>1. /\ Intent!DispatchGlobalStats(v, gLink.up, gCall, gFlags)
          /\ gWant' = v /\ UNCHANGED <<gLink, gEvents>>
      BY <2>1 DEF Intent!GlobalStats
    <3>2. /\ gCall' = gCall \/ gCall'.status \notin Over
          /\ SentIfAble(gLink.up, gFlags', gCall', v)
      BY <3>1, DispatchCarries DEF PairInv
    <3> QED BY <3>1, <3>2 DEF CarriedInv, SentIfAble
  <2>2. CASE Intent!ReceiveGlobalStats
    <3> DEFINE has == gKnows # "none" /\ ~gFlags.rpcUnsupported
               f   == [gFlags EXCEPT !.supported = has]
    <3>1. /\ Intent!DispatchGlobalStats(gWant, gLink.up, gCall, f)
          /\ UNCHANGED <<gLink, gWant, gEvents>>
      BY <2>2 DEF Intent!ReceiveGlobalStats
    <3>2. f \in Intent!Flags
      BY DEF PairInv, Intent!Flags
    <3> HIDE DEF f
    <3>3. /\ gCall' = gCall \/ gCall'.status \notin Over
          /\ SentIfAble(gLink.up, gFlags', gCall', gWant)
      BY <3>1, <3>2, DispatchCarries DEF PairInv
    <3> QED BY <3>1, <3>3 DEF CarriedInv, SentIfAble
  <2>3. CASE Intent!GlobalStatsReceived
    BY <2>3, ReceivedCarries
  <2>4. CASE \/ Intent!SetGlobalStats \/ Intent!Completes
             \/ Intent!GlobalStatsCallback("failed")
    <3>1. PICK st \in {"handled", "ok", "unimplemented", "failed"} :
             /\ gCall' = [gCall EXCEPT !.status = st]
             /\ gEvents' = IF st = "handled" THEN gEvents ELSE gEvents + 1
             /\ UNCHANGED <<gLink, gWant, gFlags>>
      BY <2>4 DEF Intent!SetGlobalStats, Intent!Completes, Intent!GlobalStatsCallback
    <3>2. gCall'.status = st
      BY <3>1 DEF PairInv, Intent!Calls
    <3>3. gCall' # Intent!NoCall
      BY <3>2 DEF Intent!NoCall
    <3> QED BY <3>1, <3>2, <3>3 DEF CarriedInv, SentIfAble, Over
  <2>5. CASE Intent!ReportLost \/ Intent!DispatchConnectionRequest
    <3>1. ~gLink'.up /\ UNCHANGED <<gCall, gEvents>>
      BY <2>5 DEF Intent!ReportLost, Intent!DispatchConnectionRequest, PairInv
    <3> QED BY <3>1 DEF CarriedInv, SentIfAble
  <2>6. CASE Intent!FinishConnection
    <3>1. ~gFlags'.supported /\ UNCHANGED <<gCall, gEvents>>
      BY <2>6 DEF Intent!FinishConnection, PairInv, Intent!Flags
    <3> QED BY <3>1 DEF CarriedInv, SentIfAble
  <2>7. CASE \/ \E v \in Pairs : Intent!LateHandler(v)
             \/ \E st \in {"ok", "none"} : Intent!FillGlobalStats(st)
             \/ Intent!GlobalStatsUnavailable \/ UNCHANGED intentVars
    <3>1. UNCHANGED <<gLink, gWant, gFlags, gCall, gEvents>>
      BY <2>7
         DEF Intent!LateHandler, Intent!FillGlobalStats, Intent!GlobalStatsUnavailable,
             intentVars
    <3> QED BY <3>1 DEF CarriedInv, SentIfAble
  <2> QED
    BY <2>1, <2>2, <2>3, <2>4, <2>5, <2>6, <2>7
       DEF Next, vars, Intent!Next, Intent!Reconnects
<1>3. CarriedInv => WishHasCarrier
  BY DEF CarriedInv, SentIfAble, Over, WishHasCarrier, Intent!WishHasCarrier
<1> QED BY <1>1, <1>2, <1>3, PairInvariant, PTL DEF Spec

-----------------------------------------------------------------------------
(* Details and ages.                                                       *)

\* GenerationTells with the types of what it speaks of.
InfoInv ==
    /\ iLink \in [gen : Nat \ {0}, epoch : Nat, up : BOOLEAN]
    /\ iPend \in [Info!Polls -> Info!Poll]
    /\ Info!GenerationTells

\* What may become of a poll.
Becomes(p, poll) ==
    /\ iPend' = [iPend EXCEPT ![p] = poll]
    /\ poll.gen <= iLink.gen
    /\ poll.gen = iLink.gen => poll.of \in {0, iLink.epoch}
    /\ UNCHANGED iLink

\* The steps of one poll.
LEMMA PollTells ==
    ASSUME InfoInv, NEW p \in Info!Polls,
           \/ Info!PollInfo(p) \/ Info!Answers(p) \/ Info!LookAtConnection(p)
           \/ Info!Fails(p) \/ Info!Ends(p)
    PROVE  InfoInv'
<1>1. \E poll \in Info!Poll : Becomes(p, poll)
  <2>1. CASE Info!PollInfo(p)
    <3> DEFINE poll == [gen |-> iLink.gen, state |-> "sent", of |-> iLink.epoch]
    <3>1. poll \in Info!Poll /\ poll.gen = iLink.gen /\ poll.of = iLink.epoch
      BY DEF InfoInv, Info!Poll
    <3>2. iPend' = [iPend EXCEPT ![p] = poll] /\ UNCHANGED iLink
      BY <2>1 DEF Info!PollInfo
    <3>3. iLink.gen <= iLink.gen
      BY DEF InfoInv
    <3> QED BY <3>1, <3>2, <3>3 DEF Becomes
  <2>2. CASE Info!Answers(p)
    <3> DEFINE poll == [iPend[p] EXCEPT !.state = "answered",
                                        !.of = IF iImage THEN @ ELSE 0]
    <3>1. /\ poll \in Info!Poll /\ poll.gen = iPend[p].gen
          /\ poll.of \in {0, iPend[p].of}
      BY DEF InfoInv, Info!Poll
    <3>2. iPend' = [iPend EXCEPT ![p] = poll] /\ UNCHANGED iLink
      BY <2>2 DEF Info!Answers, InfoInv
    <3> QED BY <3>1, <3>2 DEF Becomes, InfoInv, Info!GenerationTells
  <2>3. CASE Info!LookAtConnection(p)
    <3> DEFINE state == IF iLink.up /\ iPend[p].gen = iLink.gen
                        THEN "current" ELSE "outdated"
               poll  == [iPend[p] EXCEPT !.state = state]
    <3>1. poll \in Info!Poll /\ poll.gen = iPend[p].gen /\ poll.of = iPend[p].of
      BY DEF InfoInv, Info!Poll
    <3>2. iPend' = [iPend EXCEPT ![p] = poll] /\ UNCHANGED iLink
      BY <2>3 DEF Info!LookAtConnection, InfoInv
    <3> QED BY <3>1, <3>2 DEF Becomes, InfoInv, Info!GenerationTells
  <2>4. CASE Info!Fails(p) \/ Info!Ends(p)
    <3>1. Info!NoPoll \in Info!Poll /\ Info!NoPoll.gen = 0
      BY DEF Info!NoPoll, Info!Poll
    <3>2. iPend' = [iPend EXCEPT ![p] = Info!NoPoll] /\ UNCHANGED iLink
      BY <2>4 DEF Info!Fails, Info!Ends
    <3>3. 0 <= iLink.gen /\ iLink.gen # 0
      BY DEF InfoInv
    <3> QED BY <3>1, <3>2, <3>3 DEF Becomes
  <2> QED BY <2>1, <2>2, <2>3, <2>4
<1>2. PICK poll \in Info!Poll : Becomes(p, poll)
  BY <1>1
<1> QED BY <1>2 DEF Becomes, InfoInv, Info!GenerationTells

\* A new generation is above those of all polls.
LEMMA LinkTells ==
    ASSUME InfoInv,
           \/ Info!ConnectionLost \/ Info!ProbeSucceeded \/ Info!Configure
           \/ Info!FinishConnection
    PROVE  InfoInv'
<1>1. CASE Info!ConnectionLost \/ Info!FinishConnection
  <2>1. /\ iLink'.gen = iLink.gen /\ iLink'.epoch = iLink.epoch
        /\ iLink' \in [gen : Nat \ {0}, epoch : Nat, up : BOOLEAN]
        /\ UNCHANGED iPend
    BY <1>1 DEF InfoInv, Info!ConnectionLost, Info!FinishConnection
  <2> QED BY <2>1 DEF InfoInv, Info!GenerationTells
<1>2. CASE Info!ProbeSucceeded \/ Info!Configure
  <2>1. /\ iLink'.gen = iLink.gen + 1
        /\ iLink' \in [gen : Nat \ {0}, epoch : Nat, up : BOOLEAN]
    <3>1. iLink.gen + 1 \in Nat \ {0} /\ iLink.epoch + 1 \in Nat
      BY DEF InfoInv
    <3>2. CASE Info!ProbeSucceeded
      BY <3>1, <3>2 DEF InfoInv, Info!ProbeSucceeded
    <3>3. CASE Info!Configure
      BY <3>1, <3>3 DEF Info!Configure
    <3> QED BY <1>2, <3>2, <3>3
  <2>2. /\ iPend' \in [Info!Polls -> Info!Poll]
        /\ \A p \in Info!Polls : iPend'[p].gen = 0 \/ iPend'[p].gen = iPend[p].gen
    BY <1>2 DEF InfoInv, Info!ProbeSucceeded, Info!Configure, Info!NoPoll, Info!Poll
  <2>3. \A p \in Info!Polls : iPend'[p].gen < iLink'.gen
    BY <2>1, <2>2 DEF InfoInv, Info!GenerationTells, Info!Poll
  <2>4. \A p \in Info!Polls :
           /\ iPend'[p].gen <= iLink'.gen
           /\ iPend'[p].gen # iLink'.gen
    BY <2>1, <2>2, <2>3 DEF Info!Poll
  <2> QED BY <2>1, <2>2, <2>4 DEF InfoInv, Info!GenerationTells
<1> QED BY <1>1, <1>2

LEMMA InfoInvariant == Spec => []InfoInv
<1>1. Init => InfoInv
  <2> SUFFICES ASSUME Info!Init PROVE InfoInv
    BY DEF Init
  <2> QED BY DEF Info!Init, InfoInv, Info!GenerationTells, Info!NoPoll, Info!Poll
<1>2. InfoInv /\ [Next]_vars => InfoInv'
  <2> SUFFICES ASSUME InfoInv, [Next]_vars PROVE InfoInv'
    OBVIOUS
  <2>1. ASSUME NEW p \in Info!Polls,
               Info!PollInfo(p) \/ Info!LookAtConnection(p) \/ Info!Fails(p)
        PROVE  InfoInv'
    BY <2>1, PollTells
  <2>2. CASE Info!GetAges \/ Info!GetInfo \/ Info!StoreAges \/ Info!StoreInfo
    BY <2>2, PollTells
       DEF Info!GetAges, Info!GetInfo, Info!StoreAges, Info!StoreInfo, Info!Polls
  <2>3. CASE \/ Info!ConnectionLost \/ Info!ProbeSucceeded \/ Info!Configure
             \/ Info!FinishConnection
    BY <2>3, LinkTells
  <2>4. CASE \/ \E p \in Info!Polls : Info!Elapse(p)
             \/ Info!ImageChanges \/ UNCHANGED infoVars
    <3>1. UNCHANGED <<iLink, iPend>>
      BY <2>4 DEF Info!Elapse, Info!ImageChanges, infoVars
    <3> QED BY <3>1 DEF InfoInv, Info!GenerationTells
  <2> QED
    BY <2>1, <2>2, <2>3, <2>4 DEF Next, vars, Info!Next, Info!Completes
<1> QED BY <1>1, <1>2, PTL DEF Spec

\* An answer of the current generation is about the stream of the last
\* configuration, or about no image (pollInfo).
THEOREM GenerationTellsHolds == Spec => []GenerationTells
<1>1. InfoInv => GenerationTells
  BY DEF InfoInv, GenerationTells
<1> QED BY <1>1, InfoInvariant, PTL

\* A completion whose connection has not ended since the call was sent stores
\* nothing of an older stream: the two locks it takes one after the other can be
\* told apart only by a connection that ends in between (pollInfo).
THEOREM StoredIsCurrentHolds == Spec => StoredIsCurrent
<1> DEFINE Current ==
      \A p \in Info!Polls :
         iPend[p].gen = iLink.gen /\ iPend'[p] = Info!NoPoll
            => /\ iDetails' \in {0, iDetails, iLink'.epoch}
               /\ iAge' \in {0, iAge, iLink'.epoch}
<1>1. ASSUME InfoInv, [Next]_vars PROVE Current
  <2>0. \A p \in Info!Polls :
           iPend[p].gen = iLink.gen =>
              iPend[p].of \in {0, iLink.epoch} /\ iPend[p] # Info!NoPoll
    <3>1. iLink.gen # 0 /\ Info!NoPoll.gen = 0
      BY <1>1 DEF InfoInv, Info!NoPoll
    <3> QED BY <1>1, <3>1 DEF InfoInv, Info!GenerationTells
  <2>1. CASE Info!StoreAges
    <3>1. /\ UNCHANGED iLink
          /\ iDetails' \in {0, iDetails} /\ iAge' \in {iAge, iPend["ages"].of}
          /\ iPend'["info"] = iPend["info"]
      BY <1>1, <2>1 DEF Info!StoreAges, Info!Ends, InfoInv, Info!Polls
    <3> QED BY <2>0, <3>1 DEF Info!Polls
  <2>2. CASE Info!StoreInfo
    <3>1. /\ UNCHANGED <<iLink, iAge>>
          /\ iDetails' \in {iDetails, iPend["info"].of}
          /\ iPend'["ages"] = iPend["ages"]
      BY <1>1, <2>2 DEF Info!StoreInfo, Info!Ends, InfoInv, Info!Polls
    <3> QED BY <2>0, <3>1 DEF Info!Polls
  <2>3. CASE ~Info!StoreAges /\ ~Info!StoreInfo
    <3>1. iDetails' \in {0, iDetails} /\ iAge' \in {0, iAge}
      BY <1>1, <2>3
         DEF Next, vars, infoVars, Info!Next, Info!Completes, Info!PollInfo,
             Info!Elapse, Info!Fails, Info!GetAges, Info!GetInfo, Info!Answers,
             Info!LookAtConnection, Info!ConnectionLost, Info!ProbeSucceeded,
             Info!Configure, Info!FinishConnection, Info!ImageChanges
    <3> QED BY <3>1
  <2> QED BY <2>1, <2>2, <2>3
<1>2. InfoInv /\ [Next]_vars => [Current]_(Info!ivars)
  BY <1>1
<1> QED BY <1>2, InfoInvariant, PTL DEF Spec, StoredIsCurrent, Info!StoredIsCurrent

-----------------------------------------------------------------------------
(* The end of the client.                                                  *)

\* The groups whose calls the destructor has waited for.
Waited(stage) ==
    CASE stage = "connection" -> {"connection"}
      [] stage = "image"      -> {"connection", "image"}
      [] stage = "info"       -> {"connection", "image", "info"}
      [] stage \in {"unary", "activity", "gone"} ->
            {"connection", "image", "info", "unary"}
      [] OTHER -> {}

\* A group that was waited for has no call any more, nor will it get one; a
\* completion that ends holds the mutex; and the wait for the activity finds
\* nobody: what NothingOutlives needs to be inductive.
GoneInv ==
    /\ dRpc \in [Rpcs -> Shutdown!RpcStates]
    /\ \A r \in Rpcs : dRpc[r] = "ending" => dMutex = r
    /\ \A r \in Rpcs : r \in Waited(dStage) =>
          dRpc[r] \in {"idle", "recorded", "ending", "over"}
    /\ dStage \in {"activity", "gone"} => \A r \in Rpcs : dRpc[r] \in {"idle", "over"}

LEMMA GroupsAre ==
    /\ Rpcs \subseteq {"connection", "image", "info", "unary"}
    /\ \A i \in 1 .. 4 : \A r \in Rpcs :
          [c \in Rpcs |-> c][r] = Shutdown!Groups[i] <=> r = Shutdown!Groups[i]
<1>1. [r \in Rpcs |-> r] \in [Rpcs -> {Shutdown!Groups[i] : i \in 1 .. 4}]
  BY ConstantsAssumption DEF Shutdown!GroupAssumption
<1>2. \A r \in Rpcs : r \in {Shutdown!Groups[i] : i \in 1 .. 4}
  BY <1>1
<1>3. {Shutdown!Groups[i] : i \in 1 .. 4} = {"connection", "image", "info", "unary"}
  BY DEF Shutdown!Groups
<1> QED BY <1>2, <1>3

\* A call moves on, to a state that no wait minds.
LEMMA AdvanceGone ==
    ASSUME GoneInv, NEW r \in Rpcs, Shutdown!Advance(r) \/ Shutdown!Enter(r)
    PROVE  GoneInv'
BY ConstantsAssumption
DEF Shutdown!NobodyAssumption, GoneInv, Shutdown!Advance, Shutdown!Enter,
    Shutdown!BeginActivity, Shutdown!Record, Shutdown!EndActivity,
    Shutdown!ReleaseActivity, Shutdown!Goes, Shutdown!RpcStates, Shutdown!Nobody

\* The destructor waits for one group after the other.
LEMMA WaitGone ==
    ASSUME GoneInv, NEW i \in 1 .. 4, Shutdown!WaitFor(i)
    PROVE  GoneInv'
<1>1. /\ dStage' = Shutdown!Groups[i]
      /\ dStage = IF i = 1 THEN "shut" ELSE Shutdown!Groups[i - 1]
      /\ UNCHANGED <<dRpc, dMutex>>
  BY DEF Shutdown!WaitFor, Shutdown!Before
<1>2. \A r \in Rpcs : r = dStage' => dRpc[r] \notin {"out", "entered", "begun"}
  BY <1>1, GroupsAre DEF Shutdown!WaitFor, Shutdown!Pending
<1>3. /\ Waited(dStage') = Waited(dStage) \cup {dStage'}
      /\ dStage' \notin {"activity", "gone"}
  <2>1. \/ i = 1 /\ dStage = "shut" /\ dStage' = "connection"
        \/ i = 2 /\ dStage = "connection" /\ dStage' = "image"
        \/ i = 3 /\ dStage = "image" /\ dStage' = "info"
        \/ i = 4 /\ dStage = "info" /\ dStage' = "unary"
    BY <1>1 DEF Shutdown!Groups
  <2> QED BY <2>1 DEF Waited
<1> QED
  BY <1>1, <1>2, <1>3 DEF GoneInv, Shutdown!RpcStates

\* The last wait looks at the count with the mutex in its hands.
LEMMA ActivityGone ==
    ASSUME GoneInv, Shutdown!AwaitActivity
    PROVE  GoneInv'
<1>1. /\ dStage = "unary" /\ dStage' = "activity" /\ dMutex = Shutdown!Nobody
      /\ \A r \in Rpcs : dRpc[r] \notin {"begun", "recorded"}
      /\ UNCHANGED <<dRpc, dMutex>>
  BY DEF Shutdown!AwaitActivity, Shutdown!Active
<1>2. \A r \in Rpcs : dRpc[r] # "ending"
  BY <1>1, ConstantsAssumption
  DEF GoneInv, Shutdown!NobodyAssumption, Shutdown!Nobody
<1>3. Waited("unary") = {"connection", "image", "info", "unary"}
      /\ Waited("activity") = {"connection", "image", "info", "unary"}
  BY DEF Waited
<1>4. \A r \in Rpcs : dRpc[r] \in {"idle", "over"}
  BY <1>1, <1>2, <1>3, GroupsAre DEF GoneInv, Shutdown!RpcStates
<1> QED BY <1>1, <1>2, <1>4 DEF GoneInv

\* When the client is destroyed no completion is in its code, none holds its
\* mutexes, and no call is out that could still call one
\* (endGrpcCallbackActivity, the waits of the destructor).
THEOREM NothingOutlivesTheClient == Spec => []NothingOutlives
<1>1. Init => GoneInv
  BY DEF Init, Shutdown!Init, GoneInv, Waited, Shutdown!RpcStates
<1>2. GoneInv /\ [Next]_vars => GoneInv'
  <2> SUFFICES ASSUME GoneInv, [Next]_vars PROVE GoneInv'
    OBVIOUS
  <2>1. CASE Shutdown!Flag \/ Shutdown!ShutFoundation
    BY <2>1
    DEF Shutdown!Flag, Shutdown!ShutFoundation, GoneInv, Waited
  <2>2. CASE \/ Shutdown!AwaitConnection \/ Shutdown!AwaitImages
             \/ Shutdown!AwaitInfo \/ Shutdown!AwaitUnary
    <3>1. (\E i \in 1 .. 4 : Shutdown!WaitFor(i)) \/ UNCHANGED <<dStage, dRpc, dMutex>>
      BY <2>2
      DEF Shutdown!AwaitConnection, Shutdown!AwaitImages, Shutdown!AwaitInfo,
          Shutdown!AwaitUnary, Shutdown!Cancel
    <3> QED BY <3>1, WaitGone DEF GoneInv, Waited
  <2>3. CASE Shutdown!AwaitActivity
    BY <2>3, ActivityGone
  <2>4. CASE Shutdown!Delete
    BY <2>4 DEF Shutdown!Delete, GoneInv, Waited
  <2>5. ASSUME NEW r \in Rpcs, Shutdown!Dispatch(r) PROVE GoneInv'
    BY <2>5
    DEF Shutdown!Dispatch, Shutdown!Goes, GoneInv, Waited, Shutdown!RpcStates
  <2>6. ASSUME NEW r \in Rpcs, Shutdown!Enter(r) \/ Shutdown!Completion(r)
        PROVE  GoneInv'
    <3>1. CASE Shutdown!Enter(r) \/ Shutdown!Advance(r)
      BY <3>1, AdvanceGone
    <3>2. CASE \E event \in {"slot", "closure"} : Shutdown!PostEvent(r, event)
      BY <3>2 DEF Shutdown!PostEvent, GoneInv
    <3> QED BY <2>6, <3>1, <3>2 DEF Shutdown!Completion
  <2>7. CASE Shutdown!RunEvent \/ UNCHANGED shutdownVars
    BY <2>7 DEF Shutdown!RunEvent, shutdownVars, GoneInv
  <2> QED
    BY <2>1, <2>2, <2>3, <2>4, <2>5, <2>6, <2>7
    DEF Next, vars, Shutdown!Next, Shutdown!Destruct
<1>3. GoneInv => NothingOutlives
  BY DEF GoneInv, NothingOutlives, Shutdown!NothingOutlives
<1> QED BY <1>1, <1>2, <1>3, PTL DEF Spec
=============================================================================
