------------------------ MODULE ServerOwnershipProofs ------------------------
(***************************************************************************)
(* Proof that every unanswered ImagePlease call of ServerThread has exactly *)
(* one owner, for any number of threads and requests.                       *)
(*                                                                          *)
(* Owners(r) counts the places that refer to a request, and positions of    *)
(* the queue move whenever something in front of them is erased.  The       *)
(* inductive invariant therefore speaks of the sets of requests that the    *)
(* places hold: the queue, and for each thread its local variable and its   *)
(* two local lists.  A step moves one request from one place to another,    *)
(* takes a fresh one in, or answers one and lets it go.                     *)
(***************************************************************************)
EXTENDS ServerThreadProofs

-----------------------------------------------------------------------------
(* Sequences without repetition.                                           *)

Elems(s) == {s[i] : i \in DOMAIN s}
Once(s) == \A i, j \in DOMAIN s : s[i] = s[j] => i = j

\* Erasing an element of such a sequence takes exactly that element away.
LEMMA RemoveAtOnce ==
    ASSUME NEW S, NEW s \in Seq(S), NEW i \in 1..Len(s), Once(s)
    PROVE  /\ Elems(RemoveAt(s, i)) = Elems(s) \ {s[i]}
           /\ Once(RemoveAt(s, i))
<1> DEFINE t == RemoveAt(s, i)
           before == SubSeq(s, 1, i-1)
           after == SubSeq(s, i+1, Len(s))
<1>1. /\ t \in Seq(S) /\ Len(t) = Len(s) - 1
      /\ DOMAIN s = 1..Len(s) /\ DOMAIN t = 1..Len(t)
      /\ Len(s) \in Nat /\ Len(t) \in Nat /\ i \in 1..Len(s)
  BY RemoveAtType
<1>2. \A j \in 1..Len(t) : t[j] = IF j < i THEN s[j] ELSE s[j+1]
  <2>1. before \in Seq(S) /\ Len(before) = i-1 /\ \A j \in 1..(i-1) : before[j] = s[j]
    BY <1>1
  <2>2. /\ after \in Seq(S) /\ Len(after) = Len(s) - i
        /\ \A j \in 1..(Len(s) - i) : after[j] = s[i + j]
    BY <1>1
  <2>3. t = before \o after
    BY DEF RemoveAt
  <2> HIDE DEF before, after, t
  <2>4. \A j \in 1..Len(t) :
           t[j] = IF j <= Len(before) THEN before[j] ELSE after[j - Len(before)]
    <3>1. Len(t) = Len(before) + Len(after)
      BY <2>1, <2>2, <1>1
    <3> QED
      BY <2>1, <2>2, <2>3, <3>1, ConcatProperties
  <2>5. ASSUME NEW j \in 1..Len(t)
        PROVE  t[j] = IF j < i THEN s[j] ELSE s[j+1]
    <3>1. CASE j < i
      <4>1. j \in 1..(i-1)
        BY <3>1, <1>1
      <4> QED
        BY <4>1, <3>1, <2>1, <2>4, <1>1
    <3>2. CASE ~(j < i)
      <4>1. j - (i-1) \in 1..(Len(s) - i) /\ i + (j - (i-1)) = j + 1 /\ ~(j <= i - 1)
        BY <3>2, <1>1
      <4>2. t[j] = after[j - (i-1)]
        BY <4>1, <2>1, <2>4
      <4> QED
        BY <3>2, <4>1, <4>2, <2>2
    <3> QED
      BY <3>1, <3>2
  <2> QED
    BY <2>5
<1> HIDE DEF t, before, after
<1>4. Once(t)
  <2> SUFFICES ASSUME NEW j \in 1..Len(t), NEW k \in 1..Len(t), t[j] = t[k]
               PROVE  j = k
    BY <1>1 DEF Once
  <2> DEFINE at(n) == IF n < i THEN n ELSE n + 1
  <2>1. at(j) \in 1..Len(s) /\ at(k) \in 1..Len(s) /\ t[j] = s[at(j)] /\ t[k] = s[at(k)]
    BY <1>1, <1>2
  <2>2. at(j) = at(k)
    BY <2>1, <1>1 DEF Once
  <2> QED
    BY <2>2, <1>1
<1>5. Elems(t) \subseteq Elems(s) \ {s[i]}
  <2> SUFFICES ASSUME NEW j \in 1..Len(t)
               PROVE  t[j] \in Elems(s) /\ t[j] # s[i]
    BY <1>1 DEF Elems
  <2> DEFINE at(n) == IF n < i THEN n ELSE n + 1
  <2>1. at(j) \in 1..Len(s) /\ at(j) # i /\ t[j] = s[at(j)]
    BY <1>1, <1>2
  <2> HIDE DEF at
  <2> QED
    BY <2>1, <1>1 DEF Elems, Once
<1>6. ASSUME NEW k \in 1..Len(s), k # i
      PROVE  s[k] \in Elems(t)
  <2>1. CASE k < i
    <3>1. k \in 1..Len(t) /\ t[k] = s[k]
      BY <2>1, <1>1, <1>2
    <3> QED
      BY <3>1, <1>1 DEF Elems
  <2>2. CASE k > i
    <3>1. k - 1 \in 1..Len(t) /\ ~(k - 1 < i) /\ (k - 1) + 1 = k
      BY <2>2, <1>1
    <3> QED
      BY <3>1, <1>1, <1>2 DEF Elems
  <2> QED
    BY <1>6, <2>1, <2>2, <1>1
<1>7. Elems(s) \ {s[i]} \subseteq Elems(t)
  BY <1>6, <1>1 DEF Elems
<1> QED
  BY <1>4, <1>5, <1>7 DEF t

\* Appending a new element adds exactly that element.
LEMMA AppendOnce ==
    ASSUME NEW S, NEW s \in Seq(S), NEW e \in S, Once(s), e \notin Elems(s)
    PROVE  /\ Elems(Append(s, e)) = Elems(s) \cup {e}
           /\ Once(Append(s, e))
<1> DEFINE t == Append(s, e)
<1>1. /\ DOMAIN s = 1..Len(s) /\ Len(s) \in Nat
      /\ DOMAIN t = 1..(Len(s) + 1)
      /\ \A j \in 1..Len(s) : t[j] = s[j]
      /\ t[Len(s) + 1] = e
  OBVIOUS
<1> HIDE DEF t
<1>2. Once(t)
  BY <1>1 DEF Once, Elems
<1>3. Elems(t) \subseteq Elems(s) \cup {e}
  BY <1>1 DEF Elems
<1>4. Elems(s) \cup {e} \subseteq Elems(t)
  BY <1>1 DEF Elems
<1> QED
  BY <1>2, <1>3, <1>4 DEF t

\* Popping the first element takes exactly that element away.
LEMMA TailOnce ==
    ASSUME NEW S, NEW s \in Seq(S), Once(s), s # << >>
    PROVE  /\ Head(s) \in Elems(s)
           /\ Elems(Tail(s)) = Elems(s) \ {Head(s)}
           /\ Once(Tail(s))
<1> DEFINE t == Tail(s)
<1>1. /\ DOMAIN s = 1..Len(s) /\ Len(s) \in Nat /\ Len(s) > 0
      /\ DOMAIN t = 1..(Len(s) - 1)
      /\ \A j \in 1..(Len(s) - 1) : t[j] = s[j + 1]
      /\ Head(s) = s[1]
  OBVIOUS
<1> HIDE DEF t
<1>2. Once(t)
  BY <1>1 DEF Once
<1>3. Elems(t) \subseteq Elems(s) \ {Head(s)}
  BY <1>1 DEF Once, Elems
<1>4. ASSUME NEW k \in 1..Len(s), k # 1
      PROVE  s[k] \in Elems(t)
  <2>1. k - 1 \in 1..(Len(s) - 1) /\ (k - 1) + 1 = k
    BY <1>1, <1>4
  <2> QED
    BY <2>1, <1>1 DEF Elems
<1>5. Elems(s) \ {Head(s)} \subseteq Elems(t)
  BY <1>1, <1>4 DEF Elems
<1>6. Head(s) \in Elems(s)
  BY <1>1 DEF Elems
<1> QED
  BY <1>2, <1>3, <1>5, <1>6 DEF t

-----------------------------------------------------------------------------
(* Places and what they hold.                                              *)

\* A place is the queue, or one of the three of a thread.
InQueue        == <<"queue", Qt>>
InHand(p)      == <<"mine", p>>
InCancelled(p) == <<"cancelled", p>>
InTimedOut(p)  == <<"timedOut", p>>

Places == {InQueue} \cup {InHand(p) : p \in Procs}
          \cup {InCancelled(p) : p \in Procs} \cup {InTimedOut(p) : p \in Procs}

Held == [place \in Places |->
    CASE place[1] = "queue"     -> Elems(queue)
      [] place[1] = "mine"      -> {mine[place[2]]} \ {NoRequest}
      [] place[1] = "cancelled" -> cancelledRequests[place[2]]
      [] OTHER                  -> timedOutRequests[place[2]]]

\* No request is held at two places.
Apart == \A a, b \in Places : a # b => Held[a] \cap Held[b] = {}

\* A request is held exactly as long as it has no answer.
HeldWhileOpen ==
    \A r \in Requests :
        ~request[r].finished <=> \E a \in Places : r \in Held[a]

\* A thread that is not at work on a request has none.
HandFree ==
    \A p \in Procs :
        pc[p] \notin {"enqueue", "popped", "render", "reply"} => mine[p] = NoRequest

OwnInv == Once(queue) /\ Apart /\ HeldWhileOpen /\ HandFree

-----------------------------------------------------------------------------
(* The four things a step can do to the places.                            *)

SameAnswers ==
    \A x \in Requests : request'[x].finished = request[x].finished

\* Nothing is moved.
Rests ==
    /\ \A c \in Places : Held'[c] = Held[c]
    /\ SameAnswers

\* r goes from a to b.
Moves(r, a, b) ==
    /\ r \in Held[a]
    /\ \A c \in Places : Held'[c] = IF c = a THEN Held[a] \ {r}
                                    ELSE IF c = b THEN Held[b] \cup {r}
                                    ELSE Held[c]
    /\ SameAnswers

\* r, reused, is taken in at a.
Enters(r, a) ==
    /\ request[r].finished
    /\ \A c \in Places : Held'[c] = IF c = a THEN Held[a] \cup {r} ELSE Held[c]
    /\ \A x \in Requests :
          request'[x].finished = IF x = r THEN FALSE ELSE request[x].finished

\* r is answered, and a lets it go.
Leaves(r, a) ==
    /\ r \in Held[a]
    /\ \A c \in Places : Held'[c] = IF c = a THEN Held[a] \ {r} ELSE Held[c]
    /\ \A x \in Requests :
          request'[x].finished = IF x = r THEN TRUE ELSE request[x].finished

\* Whichever of them happens, the places stay apart and hold what is open.
LEMMA PlacesStep ==
    ASSUME Apart, HeldWhileOpen,
           \/ Rests
           \/ \E r \in Requests, a, b \in Places : a # b /\ Moves(r, a, b)
           \/ \E r \in Requests, a \in Places : Enters(r, a) \/ Leaves(r, a)
    PROVE  Apart' /\ HeldWhileOpen'
<1>1. Places' = Places
  BY DEF Places
<1>2. CASE Rests
  BY <1>1, <1>2 DEF Rests, SameAnswers, Apart, HeldWhileOpen
<1>3. ASSUME NEW r \in Requests, NEW a \in Places, NEW b \in Places, a # b,
             Moves(r, a, b)
      PROVE  Apart' /\ HeldWhileOpen'
  <2>1. Apart'
    BY <1>1, <1>3 DEF Moves, Apart
  <2>2. HeldWhileOpen'
    BY <1>1, <1>3 DEF Moves, SameAnswers, HeldWhileOpen
  <2> QED BY <2>1, <2>2
<1>4. ASSUME NEW r \in Requests, NEW a \in Places, Enters(r, a)
      PROVE  Apart' /\ HeldWhileOpen'
  <2>1. Apart'
    BY <1>1, <1>4 DEF Enters, Apart, HeldWhileOpen
  <2>2. HeldWhileOpen'
    BY <1>1, <1>4 DEF Enters, HeldWhileOpen
  <2> QED BY <2>1, <2>2
<1>5. ASSUME NEW r \in Requests, NEW a \in Places, Leaves(r, a)
      PROVE  Apart' /\ HeldWhileOpen'
  <2>1. Apart'
    BY <1>1, <1>5 DEF Leaves, Apart
  <2>2. HeldWhileOpen'
    <3> SUFFICES ASSUME NEW x \in Requests
                 PROVE  ~request'[x].finished <=> \E c \in Places : x \in Held'[c]
      BY <1>1 DEF HeldWhileOpen
    <3>1. CASE x = r
      BY <1>5, <3>1 DEF Leaves, Apart
    <3>2. CASE x # r
      BY <1>5, <3>2 DEF Leaves, HeldWhileOpen
    <3> QED BY <3>1, <3>2
  <2> QED BY <2>1, <2>2
<1> QED
  BY <1>2, <1>3, <1>4, <1>5

\* The places of different kinds or of different threads are different.
LEMMA PlacesDiffer ==
    /\ InQueue \in Places
    /\ \A c \in Places :
          \/ c = InQueue
          \/ \E p \in Procs : c = InHand(p) \/ c = InCancelled(p) \/ c = InTimedOut(p)
    /\ \A p \in Procs :
          /\ {InHand(p), InCancelled(p), InTimedOut(p)} \subseteq Places
          /\ InQueue \notin {InHand(p), InCancelled(p), InTimedOut(p)}
          /\ \A q \in Procs :
                /\ InHand(p) \notin {InCancelled(q), InTimedOut(q)}
                /\ InCancelled(p) # InTimedOut(q)
                /\ p # q => /\ InHand(p) # InHand(q)
                            /\ InCancelled(p) # InCancelled(q)
                            /\ InTimedOut(p) # InTimedOut(q)
<1>1. /\ InQueue \in Places
      /\ \A p \in Procs : {InHand(p), InCancelled(p), InTimedOut(p)} \subseteq Places
      /\ \A c \in Places :
          \/ c = InQueue
          \/ \E p \in Procs : c = InHand(p) \/ c = InCancelled(p) \/ c = InTimedOut(p)
  BY DEF Places
<1>2. ASSUME NEW p \in Procs, NEW q \in Procs
      PROVE  /\ InQueue \notin {InHand(p), InCancelled(p), InTimedOut(p)}
             /\ InHand(p) \notin {InCancelled(q), InTimedOut(q)}
             /\ InCancelled(p) # InTimedOut(q)
             /\ p # q => /\ InHand(p) # InHand(q)
                         /\ InCancelled(p) # InCancelled(q)
                         /\ InTimedOut(p) # InTimedOut(q)
  BY DEF InQueue, InHand, InCancelled, InTimedOut
<1> QED BY <1>1, <1>2

\* What each place holds.
LEMMA HeldIs ==
    /\ Held[InQueue] = Elems(queue) /\ Held'[InQueue] = Elems(queue')
    /\ \A p \in Procs :
          /\ Held[InHand(p)] = {mine[p]} \ {NoRequest}
          /\ Held'[InHand(p)] = {mine'[p]} \ {NoRequest}
          /\ Held[InCancelled(p)] = cancelledRequests[p]
          /\ Held'[InCancelled(p)] = cancelledRequests'[p]
          /\ Held[InTimedOut(p)] = timedOutRequests[p]
          /\ Held'[InTimedOut(p)] = timedOutRequests'[p]
<1>1. Held[InQueue] = Elems(queue) /\ Held'[InQueue] = Elems(queue')
  BY PlacesDiffer DEF Held, InQueue
<1>2. ASSUME NEW p \in Procs
      PROVE  Held[InHand(p)] = {mine[p]} \ {NoRequest} /\ Held'[InHand(p)] = {mine'[p]} \ {NoRequest}
  BY PlacesDiffer DEF Held, InHand
<1>3. ASSUME NEW p \in Procs
      PROVE  Held[InCancelled(p)] = cancelledRequests[p] /\ Held'[InCancelled(p)] = cancelledRequests'[p]
  BY PlacesDiffer DEF Held, InCancelled
<1>4. ASSUME NEW p \in Procs
      PROVE  Held[InTimedOut(p)] = timedOutRequests[p] /\ Held'[InTimedOut(p)] = timedOutRequests'[p]
  BY PlacesDiffer DEF Held, InTimedOut
<1> QED BY <1>1, <1>2, <1>3, <1>4

\* Outside the places of S, whose variables may change, nothing is moved.
LEMMA OnlyAt ==
    ASSUME NEW S,
           InQueue \in S \/ queue' = queue,
           \A p \in Procs :
              /\ InHand(p) \in S \/ mine'[p] = mine[p]
              /\ InCancelled(p) \in S \/ cancelledRequests'[p] = cancelledRequests[p]
              /\ InTimedOut(p) \in S \/ timedOutRequests'[p] = timedOutRequests[p]
    PROVE  \A c \in Places : c \notin S => Held'[c] = Held[c]
<1> SUFFICES ASSUME NEW c \in Places, c \notin S PROVE Held'[c] = Held[c]
  OBVIOUS
<1>1. CASE c = InQueue
  BY <1>1, HeldIs
<1>2. ASSUME NEW p \in Procs, c = InHand(p) PROVE Held'[c] = Held[c]
  BY <1>2, HeldIs
<1>3. ASSUME NEW p \in Procs, c = InCancelled(p) PROVE Held'[c] = Held[c]
  BY <1>3, HeldIs
<1>4. ASSUME NEW p \in Procs, c = InTimedOut(p) PROVE Held'[c] = Held[c]
  BY <1>4, HeldIs
<1> QED BY <1>1, <1>2, <1>3, <1>4, PlacesDiffer

\* Steps that leave every place alone and answer nobody.
LEMMA RestsByParts ==
    ASSUME UNCHANGED <<queue, mine, cancelledRequests, timedOutRequests>>, SameAnswers
    PROVE  Rests
<1> DEFINE S == {}
<1>1. \A p \in Procs :
         /\ InHand(p) \in S \/ mine'[p] = mine[p]
         /\ InCancelled(p) \in S \/ cancelledRequests'[p] = cancelledRequests[p]
         /\ InTimedOut(p) \in S \/ timedOutRequests'[p] = timedOutRequests[p]
  OBVIOUS
<1>2. \A c \in Places : c \notin S
  OBVIOUS
<1> HIDE DEF S
<1>3. \A c \in Places : c \notin S => Held'[c] = Held[c]
  BY <1>1, OnlyAt
<1> QED BY <1>2, <1>3 DEF Rests

\* finish() on a call without an answer answers that call and no other.
LEMMA FinishAnswers ==
    ASSUME TypeInv, NEW r \in Requests, NEW reply, Finish(r, reply),
           ~request[r].finished
    PROVE  \A x \in Requests :
              request'[x].finished = IF x = r THEN TRUE ELSE request[x].finished
  BY DEF Finish, TypeInv, TypeOK, Request

-----------------------------------------------------------------------------
(* The steps.                                                              *)

\* A call that is taken in, or answered at once while there is no image.
LEMMA ImagePleaseOwns ==
    ASSUME TypeInv, OwnInv,
           NEW h \in Handlers, NEW r \in Requests, ImagePlease(h, r)
    PROVE  OwnInv'
<1> h \in Procs
  BY DEF Procs
<1>1. request[r].finished /\ r # NoRequest
  BY ProcsAssumption DEF TypeInv, RequestOK, ImagePlease
<1>2. mine[h] = NoRequest
  BY DEF OwnInv, HandFree, ImagePlease, At
<1>3. CASE connected
  <2>1. /\ mine' = [mine EXCEPT ![h] = r] /\ pc' = [pc EXCEPT ![h] = "enqueue"]
        /\ request' = [request EXCEPT ![r] = Fresh]
        /\ UNCHANGED <<queue, cancelledRequests, timedOutRequests>>
    BY <1>3 DEF ImagePlease, Goto, pruning
  <2>2. mine'[h] = r /\ \A q \in Procs : q = h \/ mine'[q] = mine[q]
    BY <2>1 DEF TypeInv, TypeOK
  <2>3. Enters(r, InHand(h))
    <3>1. \A x \in Requests :
             request'[x].finished = IF x = r THEN FALSE ELSE request[x].finished
      BY <2>1 DEF TypeInv, TypeOK, Fresh
    <3>2. Held[InHand(h)] = {} /\ Held'[InHand(h)] = {r}
      BY <1>1, <1>2, <2>2, HeldIs
    <3>3. \A c \in Places : c \notin {InHand(h)} => Held'[c] = Held[c]
      BY <2>1, <2>2, OnlyAt
    <3> QED
      BY <1>1, <3>1, <3>2, <3>3 DEF Enters
  <2>4. HandFree'
    BY <2>1 DEF OwnInv, HandFree, TypeInv, TypeOK
  <2> QED
    BY <2>1, <2>3, <2>4, PlacesStep, PlacesDiffer DEF OwnInv
<1>4. CASE ~connected
  <2>1. UNCHANGED <<queue, mine, cancelledRequests, timedOutRequests, pc>>
    BY <1>4 DEF ImagePlease, pruning
  <2>2. SameAnswers
    <3>1. request' = [request EXCEPT ![r] =
                         [Fresh EXCEPT !.finished = TRUE, !.reply.status = "NO_IMAGE"]]
      BY <1>4 DEF ImagePlease
    <3>2. [Fresh EXCEPT !.finished = TRUE, !.reply.status = "NO_IMAGE"].finished
      BY DEF Fresh
    <3> QED
      BY <1>1, <3>1, <3>2, Zenon DEF SameAnswers, TypeInv, TypeOK
  <2>3. Rests
    BY <2>1, <2>2, RestsByParts
  <2> QED
    BY <2>1, <2>3, PlacesStep DEF OwnInv, HandFree
<1> QED BY <1>3, <1>4

\* The handler hands its call to the queue.
LEMMA EnqueueOwns ==
    ASSUME TypeInv, OwnInv, NEW p \in Procs, Enqueue(p)
    PROVE  OwnInv'
<1> DEFINE r == mine[p]
<1>1. r \in Requests /\ r # NoRequest
  BY ProcsAssumption DEF TypeInv, HandOK, Enqueue, At
<1>2. /\ mine'[p] = NoRequest /\ \A q \in Procs : q = p \/ mine'[q] = mine[q]
      /\ UNCHANGED <<cancelledRequests, timedOutRequests, request>>
  BY DEF Enqueue, pruning, TypeInv, TypeOK
<1>3. Held[InHand(p)] = {r} /\ Held'[InHand(p)] = {}
  BY <1>1, <1>2, HeldIs
<1>4. r \notin Elems(queue)
  BY <1>3, HeldIs, PlacesDiffer DEF OwnInv, Apart
<1>5. Once(queue') /\ Elems(queue') = Elems(queue) \cup {r}
  BY <1>1, <1>4, AppendOnce DEF Enqueue, OwnInv, TypeInv, TypeOK
<1>6. \A c \in Places : c \notin {InHand(p), InQueue} => Held'[c] = Held[c]
  BY <1>2, OnlyAt
<1> HIDE DEF r
<1>7. Moves(r, InHand(p), InQueue)
  BY <1>2, <1>3, <1>5, <1>6, HeldIs, PlacesDiffer DEF Moves, SameAnswers
<1>8. HandFree'
  BY DEF Enqueue, Goto, OwnInv, HandFree, TypeInv, TypeOK
<1> QED
  BY <1>1, <1>5, <1>7, <1>8, PlacesStep, PlacesDiffer DEF OwnInv

\* The service takes the first call of the queue.
LEMMA PopOwns ==
    ASSUME TypeInv, OwnInv, ServicePop
    PROVE  OwnInv'
<1> Qt \in Procs
  BY DEF Procs
<1>1. CASE queue = << >>
  <2>1. UNCHANGED <<queue, mine, cancelledRequests, timedOutRequests, request>>
    BY <1>1 DEF ServicePop, pruning
  <2>2. Rests
    BY <2>1, RestsByParts DEF SameAnswers
  <2>3. HandFree'
    BY <1>1 DEF ServicePop, Goto, At, OwnInv, HandFree, TypeInv, TypeOK
  <2> QED
    BY <2>1, <2>2, <2>3, PlacesStep DEF OwnInv
<1>2. CASE queue # << >>
  <2> DEFINE r == Head(queue)
  <2>1. /\ r \in Elems(queue) /\ r \in Requests /\ r # NoRequest
        /\ Elems(queue') = Elems(queue) \ {r} /\ Once(queue')
    <3>1. queue \in Seq(Requests) /\ Once(queue) /\ queue' = Tail(queue)
      BY <1>2 DEF ServicePop, OwnInv, TypeInv, TypeOK
    <3>2. r \in Requests
      BY <1>2, <3>1
    <3> HIDE DEF r
    <3> QED
      BY <1>2, <3>1, <3>2, TailOnce, ProcsAssumption DEF r
  <2>2. mine[Qt] = NoRequest
    BY DEF ServicePop, At, OwnInv, HandFree
  <2>3. /\ mine'[Qt] = r /\ \A q \in Procs : q = Qt \/ mine'[q] = mine[q]
        /\ UNCHANGED <<cancelledRequests, timedOutRequests, request>>
    BY <1>2 DEF ServicePop, pruning, TypeInv, TypeOK
  <2> HIDE DEF r
  <2>4. Held[InHand(Qt)] = {} /\ Held'[InHand(Qt)] = {r}
    BY <2>1, <2>2, <2>3, HeldIs
  <2>5. \A c \in Places : c \notin {InHand(Qt), InQueue} => Held'[c] = Held[c]
    BY <2>3, OnlyAt
  <2>6. Moves(r, InQueue, InHand(Qt))
    BY <2>1, <2>3, <2>4, <2>5, HeldIs, PlacesDiffer DEF Moves, SameAnswers
  <2>7. HandFree'
    BY <1>2 DEF ServicePop, Goto, OwnInv, HandFree, TypeInv, TypeOK
  <2> QED
    BY <2>1, <2>6, <2>7, PlacesStep, PlacesDiffer DEF OwnInv
<1> QED BY <1>1, <1>2

\* A prune puts a call of the queue into one of its lists: a call that is done
\* is not in the queue, so that no entry is merely dropped.
LEMMA PruneCancelledOwns ==
    ASSUME TypeInv, OwnInv, NEW p \in Procs, PruneCancelled(p)
    PROVE  OwnInv'
<1> DEFINE r == Current(p)
<1>1. queue \in Seq(Requests) /\ cursor[p] \in 1..Len(queue)
  BY DEF PruneCancelled, TypeInv, TypeOK
<1>2. r \in Requests /\ r \in Elems(queue)
  BY <1>1 DEF Current, Elems
<1>3. ~request[r].finished
  BY <1>2, HeldIs, PlacesDiffer DEF OwnInv, HeldWhileOpen
<1>4. ~request[r].done
  BY <1>2, <1>3 DEF TypeInv, RequestOK
<1>5. Once(queue') /\ Elems(queue') = Elems(queue) \ {r}
  BY <1>1, RemoveAtOnce DEF OwnInv, PruneCancelled, Current
<1> HIDE DEF r
<1>6. /\ cancelledRequests'[p] = cancelledRequests[p] \cup {r}
      /\ \A q \in Procs : q = p \/ cancelledRequests'[q] = cancelledRequests[q]
      /\ UNCHANGED <<mine, timedOutRequests, request, pc>>
  BY <1>4 DEF PruneCancelled, r, TypeInv, TypeOK
<1>7. \A c \in Places : c \notin {InCancelled(p), InQueue} => Held'[c] = Held[c]
  BY <1>6, OnlyAt
<1>8. Moves(r, InQueue, InCancelled(p))
  BY <1>2, <1>5, <1>6, <1>7, HeldIs, PlacesDiffer DEF Moves, SameAnswers
<1> QED
  BY <1>2, <1>5, <1>6, <1>8, PlacesStep, PlacesDiffer DEF OwnInv, HandFree

LEMMA PruneTimedOutOwns ==
    ASSUME TypeInv, OwnInv, NEW p \in Procs, PruneTimedOut(p)
    PROVE  OwnInv'
<1> DEFINE r == Current(p)
<1>1. queue \in Seq(Requests) /\ cursor[p] \in 1..Len(queue)
  BY DEF PruneTimedOut, TypeInv, TypeOK
<1>2. r \in Requests /\ r \in Elems(queue)
  BY <1>1 DEF Current, Elems
<1>3. Once(queue') /\ Elems(queue') = Elems(queue) \ {r}
  BY <1>1, RemoveAtOnce DEF OwnInv, PruneTimedOut, Current
<1> HIDE DEF r
<1>4. /\ timedOutRequests'[p] = timedOutRequests[p] \cup {r}
      /\ \A q \in Procs : q = p \/ timedOutRequests'[q] = timedOutRequests[q]
      /\ UNCHANGED <<mine, cancelledRequests, request, pc>>
  BY DEF PruneTimedOut, r, TypeInv, TypeOK
<1>5. \A c \in Places : c \notin {InTimedOut(p), InQueue} => Held'[c] = Held[c]
  BY <1>4, OnlyAt
<1>6. Moves(r, InQueue, InTimedOut(p))
  BY <1>2, <1>3, <1>4, <1>5, HeldIs, PlacesDiffer DEF Moves, SameAnswers
<1> QED
  BY <1>2, <1>3, <1>4, <1>6, PlacesStep, PlacesDiffer DEF OwnInv, HandFree

\* The prunes answer the calls of their lists.
LEMMA FinishCancelledOwns ==
    ASSUME TypeInv, OwnInv, NEW p \in Procs, FinishCancelled(p)
    PROVE  OwnInv'
<1>1. PICK r \in cancelledRequests[p] :
        /\ cancelledRequests' = [cancelledRequests EXCEPT ![p] = @ \ {r}]
        /\ Finish(r, request[r].reply)
  BY DEF FinishCancelled
<1>2. r \in Requests
  BY DEF TypeInv, TypeOK
<1>3. ~request[r].finished
  BY <1>2, HeldIs, PlacesDiffer DEF OwnInv, HeldWhileOpen
<1>4. \A x \in Requests :
         request'[x].finished = IF x = r THEN TRUE ELSE request[x].finished
  BY <1>1, <1>2, <1>3, FinishAnswers
<1>5. /\ cancelledRequests'[p] = cancelledRequests[p] \ {r}
      /\ \A q \in Procs : q = p \/ cancelledRequests'[q] = cancelledRequests[q]
      /\ UNCHANGED <<queue, mine, timedOutRequests, pc>>
  BY <1>1 DEF FinishCancelled, TypeInv, TypeOK
<1>6. \A c \in Places : c \notin {InCancelled(p)} => Held'[c] = Held[c]
  BY <1>5, OnlyAt
<1>7. Leaves(r, InCancelled(p))
  BY <1>1, <1>4, <1>5, <1>6, HeldIs, PlacesDiffer DEF Leaves
<1> QED
  BY <1>2, <1>5, <1>7, PlacesStep, PlacesDiffer DEF OwnInv, HandFree

LEMMA FinishTimedOutOwns ==
    ASSUME TypeInv, OwnInv, NEW p \in Procs, FinishTimedOut(p)
    PROVE  OwnInv'
<1>1. PICK r \in timedOutRequests[p] :
        /\ timedOutRequests' = [timedOutRequests EXCEPT ![p] = @ \ {r}]
        /\ Finish(r, [EmptyReply EXCEPT !.status =
                          IF connected THEN "TIMEOUT" ELSE "NO_IMAGE"])
  BY DEF FinishTimedOut
<1>2. r \in Requests
  BY DEF TypeInv, TypeOK
<1>3. ~request[r].finished
  BY <1>2, HeldIs, PlacesDiffer DEF OwnInv, HeldWhileOpen
<1>4. \A x \in Requests :
         request'[x].finished = IF x = r THEN TRUE ELSE request[x].finished
  BY <1>1, <1>2, <1>3, FinishAnswers
<1>5. /\ timedOutRequests'[p] = timedOutRequests[p] \ {r}
      /\ \A q \in Procs : q = p \/ timedOutRequests'[q] = timedOutRequests[q]
      /\ UNCHANGED <<queue, mine, cancelledRequests, pc>>
  BY <1>1 DEF FinishTimedOut, TypeInv, TypeOK
<1>6. \A c \in Places : c \notin {InTimedOut(p)} => Held'[c] = Held[c]
  BY <1>5, OnlyAt
<1>7. Leaves(r, InTimedOut(p))
  BY <1>1, <1>4, <1>5, <1>6, HeldIs, PlacesDiffer DEF Leaves
<1> QED
  BY <1>2, <1>5, <1>7, PlacesStep, PlacesDiffer DEF OwnInv, HandFree

\* The service lets its call go: it is no longer held by anybody.
LEMMA HandLeaves ==
    ASSUME TypeInv, OwnInv, NEW reply,
           mine[Qt] \in Requests, Finish(mine[Qt], reply),
           mine' = [mine EXCEPT ![Qt] = NoRequest],
           UNCHANGED <<queue, cancelledRequests, timedOutRequests>>
    PROVE  Once(queue') /\ Apart' /\ HeldWhileOpen'
<1> DEFINE r == mine[Qt]
<1> Qt \in Procs
  BY DEF Procs
<1>1. r \in Requests /\ r # NoRequest
  BY ProcsAssumption
<1>2. /\ mine'[Qt] = NoRequest /\ \A q \in Procs : q = Qt \/ mine'[q] = mine[q]
  BY DEF TypeInv, TypeOK
<1>3. Held[InHand(Qt)] = {r} /\ Held'[InHand(Qt)] = {}
  BY <1>1, <1>2, HeldIs
<1> Finish(r, reply)
  OBVIOUS
<1> HIDE DEF r
<1>4. ~request[r].finished
  BY <1>1, <1>3, PlacesDiffer DEF OwnInv, HeldWhileOpen
<1>5. \A x \in Requests :
         request'[x].finished = IF x = r THEN TRUE ELSE request[x].finished
  BY <1>1, <1>4, FinishAnswers
<1>6. \A c \in Places : c \notin {InHand(Qt)} => Held'[c] = Held[c]
  BY <1>2, OnlyAt
<1>7. Leaves(r, InHand(Qt))
  BY <1>3, <1>5, <1>6 DEF Leaves
<1> QED
  BY <1>1, <1>7, PlacesStep, PlacesDiffer DEF OwnInv

\* A popped call is not done yet, so that a skipped one is answered too.
LEMMA ServiceSkipOwns ==
    ASSUME TypeInv, OwnInv, ServiceSkip
    PROVE  OwnInv'
<1> Qt \in Procs
  BY DEF Procs
<1>1. mine[Qt] \in Requests /\ mine[Qt] # NoRequest
  BY ProcsAssumption DEF TypeInv, HandOK, ServiceSkip, At
<1>2. ~request[mine[Qt]].done
  <2>1. mine[Qt] \in Held[InHand(Qt)]
    BY <1>1, HeldIs
  <2>2. ~request[mine[Qt]].finished
    BY <1>1, <2>1, PlacesDiffer DEF OwnInv, HeldWhileOpen
  <2> QED
    BY <1>1, <2>2 DEF TypeInv, RequestOK
<1>3. Finish(mine[Qt], request[mine[Qt]].reply)
  BY <1>2 DEF ServiceSkip
<1>4. Once(queue') /\ Apart' /\ HeldWhileOpen'
  BY <1>1, <1>3, HandLeaves DEF ServiceSkip, pruning
<1>5. HandFree'
  BY DEF ServiceSkip, Goto, OwnInv, HandFree, TypeInv, TypeOK
<1> QED BY <1>4, <1>5 DEF OwnInv

LEMMA ServiceReplyOwns ==
    ASSUME TypeInv, OwnInv, ServiceReply
    PROVE  OwnInv'
<1> Qt \in Procs
  BY DEF Procs
<1>1. mine[Qt] \in Requests
  BY DEF TypeInv, HandOK, ServiceReply, At
<1>2. Finish(mine[Qt], [status |-> "VALID", serial |-> deliverSerial,
                        content |-> image])
  BY DEF ServiceReply
<1>3. Once(queue') /\ Apart' /\ HeldWhileOpen'
  BY <1>1, <1>2, HandLeaves DEF ServiceReply, pruning
<1>4. HandFree'
  BY DEF ServiceReply, Goto, OwnInv, HandFree, TypeInv, TypeOK
<1> QED BY <1>3, <1>4 DEF OwnInv

\* What a step outside the queue does: no place changes, nobody is answered,
\* and a thread that starts to work on a request has one already.
LEMMA Elsewhere ==
    ASSUME OwnInv, SameAnswers,
           UNCHANGED <<queue, mine, cancelledRequests, timedOutRequests>>,
           \A p \in Procs :
              pc'[p] \notin {"enqueue", "popped", "render", "reply"} =>
                 \/ pc'[p] = pc[p]
                 \/ pc[p] \notin {"enqueue", "popped", "render", "reply"}
    PROVE  OwnInv'
<1>1. Rests
  BY RestsByParts
<1>2. HandFree'
  BY DEF OwnInv, HandFree
<1> QED
  BY <1>1, <1>2, PlacesStep DEF OwnInv

\* The other fields of a request are not the places' business.
LEMMA RequestStepsOwn ==
    ASSUME TypeInv, OwnInv, NEW r \in Requests,
           OnCancel(r) \/ OnDone(r) \/ Age(r)
    PROVE  OwnInv'
<1>1. SameAnswers
  <2>1. CASE OnCancel(r)
    BY <2>1 DEF OnCancel, SameAnswers, TypeInv, TypeOK, Request
  <2>2. CASE OnDone(r)
    BY <2>2 DEF OnDone, SameAnswers, TypeInv, TypeOK, Request
  <2>3. CASE Age(r)
    BY <2>3 DEF Age, SameAnswers, TypeInv, TypeOK, Request
  <2> QED BY <2>1, <2>2, <2>3
<1>2. UNCHANGED <<queue, mine, cancelledRequests, timedOutRequests, pc>>
  BY DEF OnCancel, OnDone, Age, pruning
<1> QED
  BY <1>1, <1>2, Elsewhere

\* Marking, scheduling, locking and walking leave every call where it is.
LEMMA ThreadStepsOwn ==
    ASSUME TypeInv, OwnInv, NEW p \in Procs,
           \/ Change(p) \/ MarkSerial(p) \/ MarkDirty(p) \/ Schedule(p) \/ Emit(p)
           \/ PruneLock(p) \/ PruneKeep(p) \/ PruneUnlock(p) \/ PruneReturn(p)
    PROVE  OwnInv'
<1>1. /\ UNCHANGED <<queue, mine, cancelledRequests, timedOutRequests, request>>
      /\ pc[p] \notin {"enqueue", "popped", "render", "reply"}
      /\ \A q \in Procs : q = p \/ pc'[q] = pc[q]
  <2>1. CASE Change(p) \/ MarkSerial(p) \/ MarkDirty(p) \/ Schedule(p) \/ Emit(p)
    BY <2>1 DEF Change, MarkSerial, MarkDirty, Schedule, Emit, At, Goto, pruning,
                TypeInv, TypeOK
  <2>2. CASE PruneLock(p) \/ PruneKeep(p) \/ PruneUnlock(p) \/ PruneReturn(p)
    BY <2>2 DEF PruneLock, PruneKeep, PruneUnlock, PruneReturn, At, Goto, pruning,
                TypeInv, TypeOK
  <2> QED BY <2>1, <2>2
<1> QED
  BY <1>1, Elsewhere DEF SameAnswers

\* So do the steps of the Qt and the cleanup thread that touch no call.
LEMMA SlotStepsOwn ==
    ASSUME TypeInv, OwnInv,
           \/ UpdateUnchanged \/ OnConnect \/ Tick \/ ServiceBegin \/ ServiceCheck
           \/ ServiceSerial \/ ServiceRender \/ ServiceCompare \/ ServiceClear
           \/ ServiceAgain
    PROVE  OwnInv'
<1> Qt \in Procs /\ Cleaner \in Procs
  BY DEF Procs
<1>1. /\ UNCHANGED <<queue, mine, cancelledRequests, timedOutRequests, request>>
      /\ \A q \in Procs :
            pc'[q] \notin {"enqueue", "popped", "render", "reply"} =>
               pc'[q] = pc[q] \/ pc[q] \notin {"enqueue", "popped", "render", "reply"}
  <2>1. CASE UpdateUnchanged \/ OnConnect \/ Tick \/ ServiceBegin \/ ServiceCheck
    BY <2>1 DEF UpdateUnchanged, OnConnect, Tick, ServiceBegin, ServiceCheck, At,
                Goto, pruning, TypeInv, TypeOK
  <2>2. CASE ServiceSerial
    BY <2>2 DEF ServiceSerial, At, Goto, pruning, TypeInv, TypeOK
  <2>3. CASE ServiceRender
    BY <2>3 DEF ServiceRender, At, Goto, pruning, TypeInv, TypeOK
  <2>4. CASE ServiceCompare \/ ServiceClear \/ ServiceAgain
    BY <2>4 DEF ServiceCompare, ServiceClear, ServiceAgain, At, Goto, pruning,
                TypeInv, TypeOK
  <2> QED BY <2>1, <2>2, <2>3, <2>4
<1> QED
  BY <1>1, Elsewhere DEF SameAnswers

-----------------------------------------------------------------------------
(* The theorem.                                                            *)

LEMMA OwnInit == Init => OwnInv
<1> SUFFICES ASSUME Init PROVE OwnInv
  OBVIOUS
<1>1. \A r \in Requests : request[r].finished
  BY DEF Init, Destroyed, Fresh
<1>2. \A p \in Procs : mine[p] = NoRequest /\ cancelledRequests[p] = {} /\ timedOutRequests[p] = {}
  BY DEF Init
<1>3. Elems(queue) = {} /\ Once(queue)
  BY DEF Init, Elems, Once
<1>4. \A c \in Places : Held[c] = {}
  BY <1>2, <1>3, PlacesDiffer, HeldIs
<1> QED
  BY <1>1, <1>2, <1>3, <1>4 DEF OwnInv, Apart, HeldWhileOpen, HandFree

LEMMA OwnStep ==
    ASSUME TypeInv, OwnInv, [Next]_vars
    PROVE  OwnInv'
<1>1. ASSUME NEW h \in Handlers, NEW r \in Requests, ImagePlease(h, r)
      PROVE  OwnInv'
  BY <1>1, ImagePleaseOwns
<1>2. ASSUME NEW r \in Requests, OnCancel(r) \/ OnDone(r) \/ Age(r)
      PROVE  OwnInv'
  BY <1>2, RequestStepsOwn
<1>3. ASSUME NEW p \in Procs, Change(p) \/ Running(p)
      PROVE  OwnInv'
  BY <1>3, ThreadStepsOwn, PruneCancelledOwns, PruneTimedOutOwns, FinishCancelledOwns,
     FinishTimedOutOwns DEF Running
<1>4. ASSUME NEW p \in Procs, Locking(p)
      PROVE  OwnInv'
  BY <1>4, EnqueueOwns, ThreadStepsOwn, PopOwns, SlotStepsOwn DEF Locking
<1>5. ASSUME UpdateUnchanged \/ Tick \/ Service
      PROVE  OwnInv'
  BY <1>5, SlotStepsOwn, ServiceSkipOwns, ServiceReplyOwns DEF Service
<1>6. CASE UNCHANGED vars
  BY <1>6, Elsewhere DEF vars, pruning, SameAnswers
<1> QED
  BY <1>1, <1>2, <1>3, <1>4, <1>5, <1>6 DEF Next

\* The sets of places count the owners: what is held once has one owner.
LEMMA OwnersCount ==
    ASSUME TypeInv, OwnInv
    PROVE  OwnedOnce
<1> SUFFICES ASSUME NEW r \in Requests
             PROVE  Cardinality(Owners(r)) = IF request[r].finished THEN 0 ELSE 1
  BY DEF OwnedOnce
<1> r # NoRequest
  BY ProcsAssumption
<1> DEFINE at(i) == <<"queue", i>>
<1>1. ASSUME NEW o \in Owners(r)
      PROVE  \/ \E i \in DOMAIN queue : o = at(i) /\ queue[i] = r
             \/ \E p \in Procs : o = InHand(p) /\ r \in Held[InHand(p)]
             \/ \E p \in Procs : o = InCancelled(p) /\ r \in Held[InCancelled(p)]
             \/ \E p \in Procs : o = InTimedOut(p) /\ r \in Held[InTimedOut(p)]
  BY <1>1, HeldIs DEF Owners, InHand, InCancelled, InTimedOut
<1>2. /\ \A i \in DOMAIN queue : queue[i] = r => at(i) \in Owners(r)
      /\ \A p \in Procs :
            /\ r \in Held[InHand(p)] => InHand(p) \in Owners(r)
            /\ r \in Held[InCancelled(p)] => InCancelled(p) \in Owners(r)
            /\ r \in Held[InTimedOut(p)] => InTimedOut(p) \in Owners(r)
  BY HeldIs DEF Owners, InHand, InCancelled, InTimedOut
<1> HIDE DEF at
<1>3. \A i \in DOMAIN queue : queue[i] = r => r \in Held[InQueue]
  BY HeldIs DEF Elems
<1>4. CASE request[r].finished
  <2>1. \A c \in Places : r \notin Held[c]
    BY <1>4 DEF OwnInv, HeldWhileOpen
  <2>2. Owners(r) = {}
    BY <1>1, <1>3, <2>1, PlacesDiffer
  <2> QED
    BY <1>4, <2>2, FS_EmptySet
<1>5. CASE ~request[r].finished
  <2>1. PICK c \in Places : r \in Held[c]
    BY <1>5 DEF OwnInv, HeldWhileOpen
  <2>2. \A d \in Places : d # c => r \notin Held[d]
    BY <2>1 DEF OwnInv, Apart
  <2>3. \E o : Owners(r) = {o}
    <3>1. CASE c = InQueue
      <4>1. PICK i \in DOMAIN queue : queue[i] = r
        BY <2>1, <3>1, HeldIs DEF Elems
      <4>2. \A j \in DOMAIN queue : queue[j] = r => j = i
        BY <4>1 DEF OwnInv, Once
      <4>3. \A p \in Procs : /\ r \notin Held[InHand(p)]
                             /\ r \notin Held[InCancelled(p)]
                             /\ r \notin Held[InTimedOut(p)]
        BY <2>2, <3>1, PlacesDiffer
      <4>4. Owners(r) = {at(i)}
        BY <1>1, <1>2, <4>1, <4>2, <4>3
      <4> QED BY <4>4
    <3>2. CASE c # InQueue
      <4>1. \A i \in DOMAIN queue : queue[i] # r
        BY <1>3, <2>2, <3>2, PlacesDiffer
      <4>2. \A o \in Owners(r) : o = c
        BY <1>1, <2>2, <4>1, PlacesDiffer
      <4>3. c \in Owners(r)
        BY <1>2, <2>1, <3>2, PlacesDiffer
      <4>4. Owners(r) = {c}
        BY <4>2, <4>3
      <4> QED BY <4>4
    <3> QED BY <3>1, <3>2
  <2> QED
    BY <1>5, <2>3, FS_Singleton
<1> QED BY <1>4, <1>5

\* Whatever the handlers, the service and the two prunes do, and in whatever
\* order, a call without an answer is referred to by exactly one position of
\* the queue, local variable or local list, and an answered call by none: no
\* call is lost and none is answered twice (rtimvServerThread.cpp:404-558).
THEOREM OwnedOnceHolds == Spec => []OwnedOnce
<1>1. Init => OwnInv
  BY OwnInit
<1>2. TypeInv /\ OwnInv /\ [Next]_vars => OwnInv'
  BY OwnStep
<1>3. TypeInv /\ OwnInv => OwnedOnce
  BY OwnersCount
<1> QED
  BY <1>1, <1>2, <1>3, TypeInvariant, PTL DEF Spec
=============================================================================
