------------------------- MODULE ServerThreadProofs -------------------------
(***************************************************************************)
(* Proofs about ServerThread, for any number of threads and requests.      *)
(***************************************************************************)
EXTENDS ServerThread, FiniteSetTheorems, SequenceTheorems, TLAPS

-----------------------------------------------------------------------------
(* Type correctness.                                                       *)

\* Erasing one element of the deque leaves a deque that is one shorter.
LEMMA RemoveAtType ==
    ASSUME NEW S, NEW s \in Seq(S), NEW i \in 1..Len(s)
    PROVE  /\ RemoveAt(s, i) \in Seq(S)
           /\ Len(RemoveAt(s, i)) = Len(s) - 1
<1> DEFINE before == SubSeq(s, 1, i-1)
           after == SubSeq(s, i+1, Len(s))
<1>1. before \in Seq(S) /\ Len(before) = i-1
  OBVIOUS
<1>2. after \in Seq(S) /\ Len(after) = Len(s) - i
  OBVIOUS
<1>3. RemoveAt(s, i) = before \o after
  BY DEF RemoveAt
<1>4. Len(s) \in Nat /\ i \in Nat
  OBVIOUS
<1> HIDE DEF before, after
<1>5. before \o after \in Seq(S)
  BY <1>1, <1>2, ConcatProperties
<1>6. Len(before \o after) = Len(before) + Len(after)
  BY <1>1, <1>2, ConcatProperties
<1> QED
  BY <1>1, <1>2, <1>3, <1>4, <1>5, <1>6

\* The initial state is well typed.
LEMMA InitType == Init => TypeOK
<1> SUFFICES ASSUME Init PROVE TypeOK
  OBVIOUS
<1>1. Destroyed \in Request
  BY DEF Request, Reply, Destroyed, Fresh, EmptyReply, Statuses
<1>2. request \in [Requests -> Request]
  BY <1>1 DEF Init
<1>3. queue \in Seq(Requests)
  BY DEF Init
<1>4. pc \in [Procs -> Labels]
  BY DEF Init, Labels
<1>5. /\ cursor \in [Procs -> Nat \ {0}]
      /\ mine \in [Procs -> Requests \cup {NoRequest}]
      /\ cancelledRequests \in [Procs -> SUBSET Requests]
      /\ timedOutRequests \in [Procs -> SUBSET Requests]
  BY DEF Init
<1> QED
  BY <1>2, <1>3, <1>4, <1>5 DEF Init, TypeOK

\* finish() leaves a well-typed request.
LEMMA FinishType ==
    ASSUME request \in [Requests -> Request], NEW r \in Requests,
           NEW reply \in Reply, Finish(r, reply)
    PROVE  request' \in [Requests -> Request]
  BY DEF Finish, Request

LEMMA ReplyTypes ==
    /\ EmptyReply \in Reply
    /\ Fresh \in Request
    /\ [Fresh EXCEPT !.finished = TRUE, !.reply.status = "NO_IMAGE"] \in Request
    /\ [EmptyReply EXCEPT !.status = "TIMEOUT"] \in Reply
    /\ [EmptyReply EXCEPT !.status = "NO_IMAGE"] \in Reply
  BY DEF EmptyReply, Fresh, Reply, Request, Statuses

\* rpcActive() counts the living reactors.
RpcCount == activeRpc = Cardinality(Living)

\* A destroyed reactor was finished first, and an unfinished request has not
\* been given a reply.
RequestOK ==
    \A r \in Requests :
        /\ request[r].done => request[r].finished
        /\ ~request[r].finished => request[r].reply = EmptyReply

\* A thread at work on a request has it in its local variable.
HandOK ==
    \A p \in Procs :
        pc[p] \in {"enqueue", "popped", "render", "reply"} => mine[p] \in Requests

\* Every step keeps the state well typed.
LEMMA TypeStep ==
    ASSUME TypeOK, RpcCount, HandOK, [Next]_vars
    PROVE  TypeOK'
<1> USE DEF flags, signal, pruning, serving, Goto, At
<1> Qt \in Procs /\ Cleaner \in Procs /\ Handlers \subseteq Procs
  BY DEF Procs
<1>1. ASSUME NEW h \in Handlers, NEW r \in Requests, ImagePlease(h, r)
      PROVE  TypeOK'
  <2>1. request' \in [Requests -> Request]
    BY <1>1, ReplyTypes DEF TypeOK, ImagePlease
  <2>2. mine' \in [Procs -> Requests \cup {NoRequest}] /\ pc' \in [Procs -> Labels]
    BY <1>1 DEF TypeOK, ImagePlease, Labels
  <2> QED
    BY <1>1, <2>1, <2>2 DEF TypeOK, ImagePlease
<1>2. ASSUME NEW r \in Requests, OnCancel(r)
      PROVE  TypeOK'
  <2>1. request' \in [Requests -> Request]
    BY <1>2 DEF TypeOK, OnCancel, Request
  <2> QED
    BY <1>2, <2>1 DEF TypeOK, OnCancel
<1>4. ASSUME NEW r \in Requests, Age(r)
      PROVE  TypeOK'
  <2>1. request' \in [Requests -> Request]
    BY <1>4 DEF TypeOK, Age, Request
  <2> QED
    BY <1>4, <2>1 DEF TypeOK, Age
<1>3. ASSUME NEW r \in Requests, OnDone(r)
      PROVE  TypeOK'
  <2>1. request' \in [Requests -> Request]
    BY <1>3 DEF TypeOK, OnDone, Request
  <2>2. IsFiniteSet(Living) /\ r \in Living
    BY <1>3, ProcsAssumption, FS_Subset DEF Living, OnDone
  <2>3. Cardinality(Living) \in Nat /\ Cardinality(Living) # 0
    BY <2>2, FS_CardinalityType, FS_EmptySet
  <2>4. activeRpc - 1 \in Nat
    BY <2>3 DEF RpcCount
  <2> QED
    BY <1>3, <2>1, <2>4 DEF TypeOK, OnDone
<1>5. ASSUME NEW p \in Procs, Change(p)
      PROVE  TypeOK'
  BY <1>5 DEF TypeOK, Change, Labels
<1>6. ASSUME NEW p \in Procs, MarkSerial(p)
      PROVE  TypeOK'
  BY <1>6 DEF TypeOK, MarkSerial, Labels
<1>7. ASSUME NEW p \in Procs, MarkDirty(p)
      PROVE  TypeOK'
  BY <1>7 DEF TypeOK, MarkDirty, Labels
<1>8. ASSUME NEW p \in Procs, Schedule(p)
      PROVE  TypeOK'
  BY <1>8 DEF TypeOK, Schedule, Return, Labels
<1>9. ASSUME NEW p \in Procs, Emit(p)
      PROVE  TypeOK'
  BY <1>9 DEF TypeOK, Emit, Return, Labels
<1>10. ASSUME NEW p \in Procs, PruneLock(p)
      PROVE  TypeOK'
  BY <1>10 DEF TypeOK, PruneLock, Labels
<1>11. ASSUME NEW p \in Procs, PruneKeep(p)
      PROVE  TypeOK'
  BY <1>11 DEF TypeOK, PruneKeep, Labels
<1>12. ASSUME NEW p \in Procs, PruneUnlock(p)
      PROVE  TypeOK'
  BY <1>12 DEF TypeOK, PruneUnlock, Labels
<1>13. ASSUME NEW p \in Procs, PruneReturn(p)
      PROVE  TypeOK'
  BY <1>13 DEF TypeOK, PruneReturn, Labels
<1>14. ASSUME NEW p \in Procs, Enqueue(p)
       PROVE  TypeOK'
  <2>1. pc' \in [Procs -> Labels] /\ mine' \in [Procs -> Requests \cup {NoRequest}]
    BY <1>14 DEF TypeOK, Enqueue, Labels
  <2>2. mine[p] \in Requests
    BY <1>14 DEF HandOK, Enqueue
  <2>3. queue' \in Seq(Requests)
    BY <1>14, <2>2 DEF TypeOK, Enqueue
  <2> QED
    BY <1>14, <2>1, <2>3 DEF TypeOK, Enqueue
<1>15. ASSUME NEW p \in Procs, PruneCancelled(p)
       PROVE  TypeOK'
  <2>1. queue \in Seq(Requests) /\ cursor[p] \in 1..Len(queue)
    BY <1>15 DEF TypeOK, PruneCancelled
  <2>2. queue' \in Seq(Requests)
    BY <1>15, <2>1, RemoveAtType DEF PruneCancelled
  <2>3. queue[cursor[p]] \in Requests
    BY <2>1
  <2>4. cancelledRequests' \in [Procs -> SUBSET Requests]
    BY <1>15, <2>3 DEF TypeOK, PruneCancelled, Current
  <2> QED
    BY <1>15, <2>2, <2>4 DEF TypeOK, PruneCancelled
<1>16. ASSUME NEW p \in Procs, PruneTimedOut(p)
       PROVE  TypeOK'
  <2>1. queue \in Seq(Requests) /\ cursor[p] \in 1..Len(queue)
    BY <1>16 DEF TypeOK, PruneTimedOut
  <2>2. queue' \in Seq(Requests)
    BY <1>16, <2>1, RemoveAtType DEF PruneTimedOut
  <2>3. queue[cursor[p]] \in Requests
    BY <2>1
  <2>4. timedOutRequests' \in [Procs -> SUBSET Requests]
    BY <1>16, <2>3 DEF TypeOK, PruneTimedOut, Current
  <2> QED
    BY <1>16, <2>2, <2>4 DEF TypeOK, PruneTimedOut
<1>17. ASSUME NEW p \in Procs, FinishCancelled(p)
       PROVE  TypeOK'
  <2>1. PICK r \in cancelledRequests[p] :
            /\ cancelledRequests' = [cancelledRequests EXCEPT ![p] = @ \ {r}]
            /\ Finish(r, request[r].reply)
    BY <1>17 DEF FinishCancelled
  <2>2. r \in Requests /\ request[r].reply \in Reply
    BY <2>1, ReplyTypes DEF TypeOK, Request
  <2>3. request' \in [Requests -> Request]
    BY <2>1, <2>2, FinishType DEF TypeOK
  <2> QED
    BY <1>17, <2>1, <2>3 DEF TypeOK, FinishCancelled
<1>18. ASSUME NEW p \in Procs, FinishTimedOut(p)
       PROVE  TypeOK'
  <2>1. PICK r \in timedOutRequests[p] :
            /\ timedOutRequests' = [timedOutRequests EXCEPT ![p] = @ \ {r}]
            /\ Finish(r, [EmptyReply EXCEPT !.status = IF connected THEN "TIMEOUT" ELSE "NO_IMAGE"])
    BY <1>18 DEF FinishTimedOut
  <2>2. r \in Requests /\ [EmptyReply EXCEPT !.status = IF connected THEN "TIMEOUT" ELSE "NO_IMAGE"] \in Reply
    BY <2>1, ReplyTypes DEF TypeOK, Request
  <2>3. request' \in [Requests -> Request]
    BY <2>1, <2>2, FinishType DEF TypeOK
  <2> QED
    BY <1>18, <2>1, <2>3 DEF TypeOK, FinishTimedOut
<1>19. CASE UpdateUnchanged
  BY <1>19 DEF TypeOK, UpdateUnchanged, Labels
<1>20. CASE OnConnect
  BY <1>20 DEF TypeOK, OnConnect, Labels
<1>21. CASE Tick
  BY <1>21 DEF TypeOK, Tick, Labels
<1>22. CASE ServiceBegin
  <2>1. posted - 1 \in Nat
    BY <1>22 DEF TypeOK, ServiceBegin
  <2>2. pc' \in [Procs -> Labels]
    BY <1>22 DEF TypeOK, ServiceBegin, Labels
  <2> QED
    BY <1>22, <2>1, <2>2 DEF TypeOK, ServiceBegin
<1>23. CASE ServiceCheck
  BY <1>23 DEF TypeOK, ServiceCheck, Labels
<1>25. CASE ServiceSerial
  BY <1>25 DEF TypeOK, ServiceSerial, Labels
<1>26. CASE ServiceRender
  BY <1>26 DEF TypeOK, ServiceRender, Labels
<1>27. CASE ServiceCompare
  BY <1>27 DEF TypeOK, ServiceCompare, Labels
<1>28. CASE ServiceClear
  BY <1>28 DEF TypeOK, ServiceClear, Labels
<1>29. CASE ServiceAgain
  BY <1>29 DEF TypeOK, ServiceAgain, Labels
<1>24. CASE ServicePop
  <2>1. CASE queue = << >>
    BY <1>24, <2>1 DEF TypeOK, ServicePop, Labels
  <2>2. CASE queue # << >>
    <3>1. Head(queue) \in Requests /\ Tail(queue) \in Seq(Requests)
      BY <2>2 DEF TypeOK
    <3> QED
      BY <1>24, <2>2, <3>1 DEF TypeOK, ServicePop, Labels
  <2> QED
    BY <2>1, <2>2
<1>30. CASE ServiceSkip
  <2>1. mine[Qt] \in Requests /\ request[mine[Qt]].reply \in Reply
    BY <1>30 DEF HandOK, ServiceSkip, TypeOK, Request
  <2>2. request' \in [Requests -> Request]
    BY <1>30, <2>1, FinishType DEF TypeOK, ServiceSkip
  <2> QED
    BY <1>30, <2>2 DEF TypeOK, ServiceSkip, Labels
<1>31. CASE ServiceReply
  <2>1. /\ mine[Qt] \in Requests
        /\ [status |-> "VALID", serial |-> deliverSerial, content |-> image] \in Reply
    BY <1>31 DEF HandOK, ServiceReply, TypeOK, Reply, Statuses
  <2>2. request' \in [Requests -> Request]
    BY <1>31, <2>1, FinishType DEF TypeOK, ServiceReply
  <2> QED
    BY <1>31, <2>2 DEF TypeOK, ServiceReply, Labels
<1>32. CASE UNCHANGED vars
  BY <1>32 DEF vars, TypeOK
<1> QED
  BY <1>1, <1>2, <1>3, <1>4, <1>5, <1>6, <1>7, <1>8, <1>9, <1>10, <1>11,
     <1>12, <1>13, <1>14, <1>15, <1>16, <1>17, <1>18, <1>19, <1>20, <1>21,
     <1>22, <1>23, <1>24, <1>25, <1>26, <1>27, <1>28, <1>29, <1>30, <1>31,
     <1>32 DEF Next, Locking, Running, Service

-----------------------------------------------------------------------------
(* The two counters and the local variables.                               *)

\* What a step does to the requests and to the counter of living reactors.
LEMMA RequestSteps ==
    ASSUME TypeOK, HandOK, [Next]_vars
    PROVE  \/ UNCHANGED <<request, activeRpc>>
           \/ \E h \in Handlers, r \in Requests : ImagePlease(h, r)
           \/ \E r \in Requests : OnDone(r)
           \/ \E r \in Requests : OnCancel(r) \/ Age(r)
           \/ /\ \E r \in Requests, reply \in Reply : Finish(r, reply)
              /\ UNCHANGED activeRpc
<1> Qt \in Procs
  BY DEF Procs
<1>1. ASSUME NEW p \in Procs, FinishCancelled(p)
      PROVE  /\ \E r \in Requests, reply \in Reply : Finish(r, reply)
             /\ UNCHANGED activeRpc
  BY <1>1 DEF TypeOK, Request, FinishCancelled
<1>2. ASSUME NEW p \in Procs, FinishTimedOut(p)
      PROVE  /\ \E r \in Requests, reply \in Reply : Finish(r, reply)
             /\ UNCHANGED activeRpc
  BY <1>2, ReplyTypes DEF TypeOK, FinishTimedOut
<1>3. CASE ServiceSkip
  BY <1>3 DEF HandOK, TypeOK, Request, ServiceSkip, At
<1>4. CASE ServiceReply
  <2>1. /\ mine[Qt] \in Requests
        /\ [status |-> "VALID", serial |-> deliverSerial, content |-> image] \in Reply
    BY <1>4 DEF HandOK, ServiceReply, At, TypeOK, Reply, Statuses
  <2> QED
    BY <1>4, <2>1 DEF ServiceReply
<1>5. CASE \E p \in Procs : Change(p) \/ Locking(p)
  BY <1>5 DEF Change, Locking, Enqueue, PruneLock, ServicePop, ServiceAgain
<1>6. ASSUME NEW p \in Procs, Running(p)
      PROVE  \/ UNCHANGED <<request, activeRpc>>
             \/ FinishCancelled(p)
             \/ FinishTimedOut(p)
  BY <1>6 DEF Running, MarkSerial, MarkDirty, Schedule, Emit, PruneCancelled,
     PruneTimedOut, PruneKeep, PruneUnlock, PruneReturn
<1>7. CASE Service
  BY <1>3, <1>4, <1>7 DEF Service, OnConnect, ServiceBegin, ServiceCheck,
     ServiceSerial, ServiceRender, ServiceCompare, ServiceClear
<1>8. CASE UpdateUnchanged \/ Tick \/ UNCHANGED vars
  BY <1>8 DEF UpdateUnchanged, Tick, vars
<1> QED
  BY <1>1, <1>2, <1>5, <1>6, <1>7, <1>8 DEF Next

\* The counter follows the reactors.
LEMMA RpcCountStep ==
    ASSUME TypeOK, HandOK, RpcCount, RequestOK, [Next]_vars
    PROVE  RpcCount'
<1> IsFiniteSet(Living)
  BY ProcsAssumption, FS_Subset DEF Living
<1>1. CASE UNCHANGED <<request, activeRpc>>
  BY <1>1 DEF RpcCount, Living
<1>2. ASSUME NEW h \in Handlers, NEW r \in Requests, ImagePlease(h, r)
      PROVE  RpcCount'
  <2>1. r \notin Living
    BY <1>2 DEF ImagePlease, Living
  <2>2. PICK fresh \in Request :
            request' = [request EXCEPT ![r] = fresh] /\ ~fresh.done
    <3>1. ~Fresh.done
      BY DEF Fresh
    <3>2. ~[Fresh EXCEPT !.finished = TRUE, !.reply.status = "NO_IMAGE"].done
      BY DEF Fresh
    <3> QED
      BY <1>2, <3>1, <3>2, ReplyTypes DEF ImagePlease
  <2>3. Living' = Living \cup {r}
    BY <2>2 DEF Living, TypeOK
  <2> QED
    BY <1>2, <2>1, <2>3, FS_AddElement DEF ImagePlease, RpcCount
<1>3. ASSUME NEW r \in Requests, OnDone(r)
      PROVE  RpcCount'
  <2>1. r \in Living /\ Living' = Living \ {r}
    BY <1>3 DEF OnDone, Living, TypeOK, Request
  <2> QED
    BY <1>3, <2>1, FS_RemoveElement DEF OnDone, RpcCount
<1>4. ASSUME NEW r \in Requests, OnCancel(r) \/ Age(r)
      PROVE  RpcCount'
  <2>1. Living' = Living
    BY <1>4 DEF OnCancel, Age, Living, TypeOK, Request
  <2> QED
    BY <1>4, <2>1 DEF OnCancel, Age, RpcCount
<1>5. ASSUME NEW r \in Requests, NEW reply \in Reply, Finish(r, reply),
             UNCHANGED activeRpc
      PROVE  RpcCount'
  <2>1. Living' = Living
    BY <1>5 DEF Finish, Living, TypeOK, Request
  <2> QED
    BY <1>5, <2>1 DEF RpcCount
<1> QED
  BY <1>1, <1>2, <1>3, <1>4, <1>5, RequestSteps

\* A destroyed reactor stays finished, and only finish() fills in a reply.
LEMMA RequestOKStep ==
    ASSUME TypeOK, HandOK, RequestOK, [Next]_vars
    PROVE  RequestOK'
<1>1. CASE UNCHANGED <<request, activeRpc>>
  BY <1>1 DEF RequestOK
<1>2. ASSUME NEW h \in Handlers, NEW r \in Requests, ImagePlease(h, r)
      PROVE  RequestOK'
  <2>1. PICK fresh \in Request :
            /\ request' = [request EXCEPT ![r] = fresh]
            /\ ~fresh.done
            /\ ~fresh.finished => fresh.reply = EmptyReply
    <3>1. ~Fresh.done /\ Fresh.reply = EmptyReply
      BY DEF Fresh
    <3>2. LET refused == [Fresh EXCEPT !.finished = TRUE, !.reply.status = "NO_IMAGE"]
          IN  ~refused.done /\ refused.finished
      BY DEF Fresh
    <3> QED
      BY <1>2, <3>1, <3>2, ReplyTypes DEF ImagePlease
  <2> QED
    BY <2>1 DEF RequestOK, TypeOK
<1>3. ASSUME NEW r \in Requests, OnDone(r)
      PROVE  RequestOK'
  BY <1>3 DEF OnDone, RequestOK, TypeOK, Request
<1>4. ASSUME NEW r \in Requests, OnCancel(r) \/ Age(r)
      PROVE  RequestOK'
  <2>1. CASE OnCancel(r)
    BY <2>1 DEF OnCancel, RequestOK, TypeOK, Request
  <2>2. CASE Age(r)
    BY <2>2 DEF Age, RequestOK, TypeOK, Request
  <2> QED
    BY <1>4, <2>1, <2>2
<1>5. ASSUME NEW r \in Requests, NEW reply \in Reply, Finish(r, reply)
      PROVE  RequestOK'
  BY <1>5 DEF Finish, RequestOK, TypeOK, Request
<1> QED
  BY <1>1, <1>2, <1>3, <1>4, <1>5, RequestSteps

\* Local variables hold what the code they belong to put there.
LEMMA HandStep ==
    ASSUME TypeOK, HandOK, [Next]_vars
    PROVE  HandOK'
<1> USE DEF Goto, At
<1> Qt \in Procs /\ Handlers \subseteq Procs
  BY DEF Procs
<1>1. ASSUME NEW h \in Handlers, NEW r \in Requests, ImagePlease(h, r)
      PROVE  HandOK'
  BY <1>1 DEF HandOK, TypeOK, ImagePlease
<1>2. ASSUME NEW r \in Requests, OnCancel(r)
      PROVE  HandOK'
  BY <1>2 DEF HandOK, TypeOK, OnCancel
<1>3. ASSUME NEW r \in Requests, OnDone(r)
      PROVE  HandOK'
  BY <1>3 DEF HandOK, TypeOK, OnDone
<1>4. ASSUME NEW r \in Requests, Age(r)
      PROVE  HandOK'
  BY <1>4 DEF HandOK, TypeOK, Age
<1>5. ASSUME NEW p \in Procs, Change(p)
      PROVE  HandOK'
  BY <1>5 DEF HandOK, TypeOK, Change
<1>6. ASSUME NEW p \in Procs, Enqueue(p)
      PROVE  HandOK'
  BY <1>6 DEF HandOK, TypeOK, Enqueue
<1>7. ASSUME NEW p \in Procs, PruneLock(p)
      PROVE  HandOK'
  BY <1>7 DEF HandOK, TypeOK, PruneLock
<1>8. ASSUME NEW p \in Procs, MarkSerial(p)
      PROVE  HandOK'
  BY <1>8 DEF HandOK, TypeOK, MarkSerial
<1>9. ASSUME NEW p \in Procs, MarkDirty(p)
      PROVE  HandOK'
  BY <1>9 DEF HandOK, TypeOK, MarkDirty
<1>10. ASSUME NEW p \in Procs, Schedule(p)
      PROVE  HandOK'
  BY <1>10 DEF HandOK, TypeOK, Schedule, Return
<1>11. ASSUME NEW p \in Procs, Emit(p)
      PROVE  HandOK'
  BY <1>11 DEF HandOK, TypeOK, Emit, Return
<1>12. ASSUME NEW p \in Procs, PruneCancelled(p)
      PROVE  HandOK'
  BY <1>12 DEF HandOK, TypeOK, PruneCancelled
<1>13. ASSUME NEW p \in Procs, PruneTimedOut(p)
      PROVE  HandOK'
  BY <1>13 DEF HandOK, TypeOK, PruneTimedOut
<1>14. ASSUME NEW p \in Procs, PruneKeep(p)
      PROVE  HandOK'
  BY <1>14 DEF HandOK, TypeOK, PruneKeep
<1>15. ASSUME NEW p \in Procs, PruneUnlock(p)
      PROVE  HandOK'
  BY <1>15 DEF HandOK, TypeOK, PruneUnlock
<1>16. ASSUME NEW p \in Procs, FinishCancelled(p)
      PROVE  HandOK'
  BY <1>16 DEF HandOK, TypeOK, FinishCancelled
<1>17. ASSUME NEW p \in Procs, FinishTimedOut(p)
      PROVE  HandOK'
  BY <1>17 DEF HandOK, TypeOK, FinishTimedOut
<1>18. ASSUME NEW p \in Procs, PruneReturn(p)
      PROVE  HandOK'
  BY <1>18 DEF HandOK, TypeOK, PruneReturn
<1>19. CASE ServicePop
  <2>1. CASE queue = << >>
    BY <1>19, <2>1 DEF HandOK, TypeOK, ServicePop
  <2>2. CASE queue # << >>
    <3>1. Head(queue) \in Requests
      BY <2>2 DEF TypeOK
    <3> QED
      BY <1>19, <2>2, <3>1 DEF HandOK, TypeOK, ServicePop
  <2> QED
    BY <2>1, <2>2
<1>20. CASE ServiceAgain
  BY <1>20 DEF HandOK, TypeOK, ServiceAgain
<1>21. CASE UpdateUnchanged
  BY <1>21 DEF HandOK, TypeOK, UpdateUnchanged
<1>22. CASE Tick
  BY <1>22 DEF HandOK, TypeOK, Tick
<1>23. CASE OnConnect
  BY <1>23 DEF HandOK, TypeOK, OnConnect
<1>24. CASE ServiceBegin
  BY <1>24 DEF HandOK, TypeOK, ServiceBegin
<1>25. CASE ServiceCheck
  BY <1>25 DEF HandOK, TypeOK, ServiceCheck
<1>26. CASE ServiceSkip
  BY <1>26 DEF HandOK, TypeOK, ServiceSkip
<1>27. CASE ServiceSerial
  BY <1>27 DEF HandOK, TypeOK, ServiceSerial
<1>28. CASE ServiceRender
  BY <1>28 DEF HandOK, TypeOK, ServiceRender
<1>29. CASE ServiceReply
  BY <1>29 DEF HandOK, TypeOK, ServiceReply
<1>30. CASE ServiceCompare
  BY <1>30 DEF HandOK, TypeOK, ServiceCompare
<1>31. CASE ServiceClear
  BY <1>31 DEF HandOK, TypeOK, ServiceClear
<1>32. CASE UNCHANGED vars
  BY <1>32 DEF HandOK, TypeOK, vars, flags, signal, pruning, serving
<1> QED
  BY <1>1, <1>2, <1>3, <1>4, <1>5, <1>6, <1>7, <1>8, <1>9, <1>10, <1>11,
     <1>12, <1>13, <1>14, <1>15, <1>16, <1>17, <1>18, <1>19, <1>20, <1>21,
     <1>22, <1>23, <1>24, <1>25, <1>26, <1>27, <1>28, <1>29, <1>30, <1>31, <1>32
     DEF Next, Locking, Running, Service

\* The part of the inductive invariant that types and counts.
TypeInv == TypeOK /\ RpcCount /\ HandOK /\ RequestOK

\* It holds in every reachable state.
LEMMA TypeInvariant == Spec => []TypeInv
<1>1. Init => TypeInv
  <2> SUFFICES ASSUME Init PROVE TypeInv
    OBVIOUS
  <2>1. Living = {}
    BY DEF Init, Living, Destroyed, Fresh
  <2>2. RpcCount
    BY <2>1, FS_EmptySet DEF Init, RpcCount
  <2>3. HandOK /\ RequestOK
    BY DEF Init, HandOK, RequestOK, Destroyed, Fresh
  <2> QED
    BY <2>2, <2>3, InitType DEF TypeInv
<1>2. TypeInv /\ [Next]_vars => TypeInv'
  BY TypeStep, RpcCountStep, HandStep, RequestOKStep DEF TypeInv
<1> QED
  BY <1>1, <1>2, PTL DEF Spec

\* TypeOK for any number of threads and requests: in particular m_activeRpc
\* never wraps around, OnDone runs only while a reactor is counted.
THEOREM TypeCorrect == Spec => []TypeOK
  BY TypeInvariant, PTL DEF TypeInv

-----------------------------------------------------------------------------
(* No lost wake-up.                                                        *)

\* A scheduled service is posted or about to be; nothing is queued before the
\* first image; only the Qt thread connects.
SignalInv ==
    /\ scheduled => posted > 0 \/ \E p \in Procs : pc[p] = "emit"
    /\ ~connected => queue = << >> /\ \A p \in Procs : pc[p] # "enqueue"
    /\ \A p \in Procs : pc[p] = "connect" => p = Qt /\ ~connected

\* Every step keeps the signal consistent.
LEMMA SignalStep ==
    ASSUME TypeOK, SignalInv, [Next]_vars
    PROVE  SignalInv'
<1> USE DEF Goto, At, flags, signal
<1> Qt \in Procs /\ Handlers \subseteq Procs
  BY DEF Procs
<1>1. ASSUME NEW h \in Handlers, NEW r \in Requests, ImagePlease(h, r)
      PROVE  SignalInv'
  BY <1>1 DEF SignalInv, TypeOK, ImagePlease
<1>2. ASSUME NEW r \in Requests, OnCancel(r)
      PROVE  SignalInv'
  BY <1>2 DEF SignalInv, TypeOK, OnCancel
<1>3. ASSUME NEW r \in Requests, OnDone(r)
      PROVE  SignalInv'
  BY <1>3 DEF SignalInv, TypeOK, OnDone
<1>4. ASSUME NEW r \in Requests, Age(r)
      PROVE  SignalInv'
  BY <1>4 DEF SignalInv, TypeOK, Age
<1>5. ASSUME NEW p \in Procs, Change(p)
      PROVE  SignalInv'
  BY <1>5 DEF SignalInv, TypeOK, Change
<1>6. ASSUME NEW p \in Procs, Enqueue(p)
      PROVE  SignalInv'
  BY <1>6 DEF SignalInv, TypeOK, Enqueue
<1>7. ASSUME NEW p \in Procs, PruneLock(p)
      PROVE  SignalInv'
  BY <1>7 DEF SignalInv, TypeOK, PruneLock
<1>8. ASSUME NEW p \in Procs, MarkSerial(p)
      PROVE  SignalInv'
  BY <1>8 DEF SignalInv, TypeOK, MarkSerial
<1>9. ASSUME NEW p \in Procs, MarkDirty(p)
      PROVE  SignalInv'
  BY <1>9 DEF SignalInv, TypeOK, MarkDirty
<1>10. ASSUME NEW p \in Procs, Schedule(p)
      PROVE  SignalInv'
  BY <1>10 DEF SignalInv, TypeOK, Schedule, Return
<1>11. ASSUME NEW p \in Procs, Emit(p)
      PROVE  SignalInv'
  BY <1>11 DEF SignalInv, TypeOK, Emit, Return
<1>12. ASSUME NEW p \in Procs, PruneCancelled(p)
      PROVE  SignalInv'
  BY <1>12 DEF SignalInv, TypeOK, PruneCancelled
<1>13. ASSUME NEW p \in Procs, PruneTimedOut(p)
      PROVE  SignalInv'
  BY <1>13 DEF SignalInv, TypeOK, PruneTimedOut
<1>14. ASSUME NEW p \in Procs, PruneKeep(p)
      PROVE  SignalInv'
  BY <1>14 DEF SignalInv, TypeOK, PruneKeep
<1>15. ASSUME NEW p \in Procs, PruneUnlock(p)
      PROVE  SignalInv'
  BY <1>15 DEF SignalInv, TypeOK, PruneUnlock
<1>16. ASSUME NEW p \in Procs, FinishCancelled(p)
      PROVE  SignalInv'
  BY <1>16 DEF SignalInv, TypeOK, FinishCancelled
<1>17. ASSUME NEW p \in Procs, FinishTimedOut(p)
      PROVE  SignalInv'
  BY <1>17 DEF SignalInv, TypeOK, FinishTimedOut
<1>18. ASSUME NEW p \in Procs, PruneReturn(p)
      PROVE  SignalInv'
  BY <1>18 DEF SignalInv, TypeOK, PruneReturn
<1>19. CASE ServicePop
  BY <1>19 DEF SignalInv, TypeOK, ServicePop
<1>20. CASE ServiceAgain
  BY <1>20 DEF SignalInv, TypeOK, ServiceAgain
<1>21. CASE UpdateUnchanged
  BY <1>21 DEF SignalInv, TypeOK, UpdateUnchanged
<1>22. CASE Tick
  BY <1>22 DEF SignalInv, TypeOK, Tick
<1>23. CASE OnConnect
  BY <1>23 DEF SignalInv, TypeOK, OnConnect
<1>24. CASE ServiceBegin
  BY <1>24 DEF SignalInv, TypeOK, ServiceBegin
<1>25. CASE ServiceCheck
  BY <1>25 DEF SignalInv, TypeOK, ServiceCheck
<1>26. CASE ServiceSkip
  BY <1>26 DEF SignalInv, TypeOK, ServiceSkip
<1>27. CASE ServiceSerial
  BY <1>27 DEF SignalInv, TypeOK, ServiceSerial
<1>28. CASE ServiceRender
  BY <1>28 DEF SignalInv, TypeOK, ServiceRender
<1>29. CASE ServiceReply
  BY <1>29 DEF SignalInv, TypeOK, ServiceReply
<1>30. CASE ServiceCompare
  BY <1>30 DEF SignalInv, TypeOK, ServiceCompare
<1>31. CASE ServiceClear
  BY <1>31 DEF SignalInv, TypeOK, ServiceClear
<1>32. CASE UNCHANGED vars
  BY <1>32 DEF SignalInv, TypeOK, vars, flags, signal, pruning, serving
<1> QED
  BY <1>1, <1>2, <1>3, <1>4, <1>5, <1>6, <1>7, <1>8, <1>9, <1>10, <1>11,
     <1>12, <1>13, <1>14, <1>15, <1>16, <1>17, <1>18, <1>19, <1>20, <1>21,
     <1>22, <1>23, <1>24, <1>25, <1>26, <1>27, <1>28, <1>29, <1>30, <1>31, <1>32
     DEF Next, Locking, Running, Service

\* Every step keeps the promise of NoLostWakeup.
LEMMA WakeupStep ==
    ASSUME TypeOK, SignalInv, NoLostWakeup, [Next]_vars
    PROVE  NoLostWakeup'
<1> USE DEF Goto, At, flags, signal, ServiceLabels
<1> Qt \in Procs /\ Handlers \subseteq Procs /\ Cleaner # Qt
  BY ProcsAssumption DEF Procs
<1>1. ASSUME NEW h \in Handlers, NEW r \in Requests, ImagePlease(h, r)
      PROVE  NoLostWakeup'
  BY <1>1 DEF NoLostWakeup, Awake, TypeOK, ImagePlease
<1>2. ASSUME NEW r \in Requests, OnCancel(r)
      PROVE  NoLostWakeup'
  BY <1>2 DEF NoLostWakeup, Awake, TypeOK, OnCancel
<1>3. ASSUME NEW r \in Requests, OnDone(r)
      PROVE  NoLostWakeup'
  BY <1>3 DEF NoLostWakeup, Awake, TypeOK, OnDone
<1>4. ASSUME NEW r \in Requests, Age(r)
      PROVE  NoLostWakeup'
  BY <1>4 DEF NoLostWakeup, Awake, TypeOK, Age
<1>5. ASSUME NEW p \in Procs, Change(p)
      PROVE  NoLostWakeup'
  BY <1>5 DEF NoLostWakeup, Awake, TypeOK, Change
<1>6. ASSUME NEW p \in Procs, Enqueue(p)
      PROVE  NoLostWakeup'
  BY <1>6 DEF NoLostWakeup, Awake, TypeOK, Enqueue
<1>7. ASSUME NEW p \in Procs, PruneLock(p)
      PROVE  NoLostWakeup'
  BY <1>7 DEF NoLostWakeup, Awake, TypeOK, PruneLock
<1>8. ASSUME NEW p \in Procs, MarkSerial(p)
      PROVE  NoLostWakeup'
  BY <1>8 DEF NoLostWakeup, Awake, TypeOK, MarkSerial
<1>9. ASSUME NEW p \in Procs, MarkDirty(p)
      PROVE  NoLostWakeup'
  BY <1>9 DEF NoLostWakeup, Awake, TypeOK, MarkDirty
<1>10. ASSUME NEW p \in Procs, Schedule(p)
      PROVE  NoLostWakeup'
  BY <1>10 DEF NoLostWakeup, Awake, TypeOK, Schedule, Return, SignalInv
<1>11. ASSUME NEW p \in Procs, Emit(p)
      PROVE  NoLostWakeup'
  BY <1>11 DEF NoLostWakeup, Awake, TypeOK, Emit, Return
<1>12. ASSUME NEW p \in Procs, PruneCancelled(p)
      PROVE  NoLostWakeup'
  BY <1>12 DEF NoLostWakeup, Awake, TypeOK, PruneCancelled
<1>13. ASSUME NEW p \in Procs, PruneTimedOut(p)
      PROVE  NoLostWakeup'
  BY <1>13 DEF NoLostWakeup, Awake, TypeOK, PruneTimedOut
<1>14. ASSUME NEW p \in Procs, PruneKeep(p)
      PROVE  NoLostWakeup'
  BY <1>14 DEF NoLostWakeup, Awake, TypeOK, PruneKeep
<1>15. ASSUME NEW p \in Procs, PruneUnlock(p)
      PROVE  NoLostWakeup'
  BY <1>15 DEF NoLostWakeup, Awake, TypeOK, PruneUnlock
<1>16. ASSUME NEW p \in Procs, FinishCancelled(p)
      PROVE  NoLostWakeup'
  BY <1>16 DEF NoLostWakeup, Awake, TypeOK, FinishCancelled
<1>17. ASSUME NEW p \in Procs, FinishTimedOut(p)
      PROVE  NoLostWakeup'
  BY <1>17 DEF NoLostWakeup, Awake, TypeOK, FinishTimedOut
<1>18. ASSUME NEW p \in Procs, PruneReturn(p)
      PROVE  NoLostWakeup'
  BY <1>18 DEF NoLostWakeup, Awake, TypeOK, PruneReturn
<1>19. CASE ServicePop
  BY <1>19 DEF NoLostWakeup, Awake, TypeOK, ServicePop
<1>20. CASE ServiceAgain
  BY <1>20 DEF NoLostWakeup, Awake, TypeOK, ServiceAgain
<1>21. CASE UpdateUnchanged
  BY <1>21 DEF NoLostWakeup, Awake, TypeOK, UpdateUnchanged
<1>22. CASE Tick
  BY <1>22 DEF NoLostWakeup, Awake, TypeOK, Tick
<1>23. CASE OnConnect
  BY <1>23 DEF NoLostWakeup, Awake, TypeOK, OnConnect, SignalInv
<1>24. CASE ServiceBegin
  BY <1>24 DEF NoLostWakeup, Awake, TypeOK, ServiceBegin
<1>25. CASE ServiceCheck
  BY <1>25 DEF NoLostWakeup, Awake, TypeOK, ServiceCheck
<1>26. CASE ServiceSkip
  BY <1>26 DEF NoLostWakeup, Awake, TypeOK, ServiceSkip
<1>27. CASE ServiceSerial
  BY <1>27 DEF NoLostWakeup, Awake, TypeOK, ServiceSerial
<1>28. CASE ServiceRender
  BY <1>28 DEF NoLostWakeup, Awake, TypeOK, ServiceRender
<1>29. CASE ServiceReply
  BY <1>29 DEF NoLostWakeup, Awake, TypeOK, ServiceReply
<1>30. CASE ServiceCompare
  BY <1>30 DEF NoLostWakeup, Awake, TypeOK, ServiceCompare
<1>31. CASE ServiceClear
  BY <1>31 DEF NoLostWakeup, Awake, TypeOK, ServiceClear
<1>32. CASE UNCHANGED vars
  BY <1>32 DEF NoLostWakeup, Awake, TypeOK, vars, flags, signal, pruning,
     serving
<1> QED
  BY <1>1, <1>2, <1>3, <1>4, <1>5, <1>6, <1>7, <1>8, <1>9, <1>10, <1>11,
     <1>12, <1>13, <1>14, <1>15, <1>16, <1>17, <1>18, <1>19, <1>20, <1>21,
     <1>22, <1>23, <1>24, <1>25, <1>26, <1>27, <1>28, <1>29, <1>30, <1>31, <1>32
     DEF Next, Locking, Running, Service
\* No lost wake-up, for any number of gRPC threads, calls and changes: a ready
\* response and a waiting call are brought together without a further event.
THEOREM NoLostWakeupHolds == Spec => []NoLostWakeup
<1>1. Init => SignalInv /\ NoLostWakeup
  BY DEF Init, SignalInv, NoLostWakeup
<1>2. TypeOK /\ SignalInv /\ NoLostWakeup /\ [Next]_vars
        => (SignalInv /\ NoLostWakeup)'
  BY SignalStep, WakeupStep
<1> QED
  BY <1>1, <1>2, TypeCorrect, PTL DEF Spec

-----------------------------------------------------------------------------
(* Freshness of the replies.                                               *)

\* Each change is announced by one serial, after it was painted.
Announced == painted = serial + Cardinality(Marking)

\* Only the threads of the model can be marking.
LEMMA MarkingFinite == IsFiniteSet(Marking)
<1>1. IsFiniteSet(Handlers \cup {Qt, Cleaner})
  <2>1. IsFiniteSet({Qt}) /\ IsFiniteSet({Cleaner})
    BY FS_Singleton
  <2>2. IsFiniteSet({Qt} \cup {Cleaner})
    BY <2>1, FS_Union
  <2>3. IsFiniteSet(Handlers \cup ({Qt} \cup {Cleaner}))
    BY <2>2, FS_Union, ProcsAssumption
  <2>4. Handlers \cup ({Qt} \cup {Cleaner}) = Handlers \cup {Qt, Cleaner}
    OBVIOUS
  <2> QED
    BY <2>3, <2>4
<1> QED
  BY <1>1, FS_Subset DEF Marking, Procs

\* Every step keeps the count.
LEMMA AnnouncedStep ==
    ASSUME TypeOK, Announced, [Next]_vars
    PROVE  Announced'
<1> USE MarkingFinite DEF Goto, At, flags, signal
<1> Qt \in Procs /\ Handlers \subseteq Procs /\ Cleaner \in Procs
  BY DEF Procs
<1>1. ASSUME NEW h \in Handlers, NEW r \in Requests, ImagePlease(h, r)
      PROVE  Announced'
  <2>1. Marking' = Marking
    BY <1>1 DEF Marking, TypeOK, ImagePlease
  <2> QED
    BY <1>1, <2>1 DEF Announced, ImagePlease
<1>2. ASSUME NEW r \in Requests, OnCancel(r)
      PROVE  Announced'
  <2>1. Marking' = Marking
    BY <1>2 DEF Marking, TypeOK, OnCancel
  <2> QED
    BY <1>2, <2>1 DEF Announced, OnCancel
<1>3. ASSUME NEW r \in Requests, OnDone(r)
      PROVE  Announced'
  <2>1. Marking' = Marking
    BY <1>3 DEF Marking, TypeOK, OnDone
  <2> QED
    BY <1>3, <2>1 DEF Announced, OnDone
<1>4. ASSUME NEW r \in Requests, Age(r)
      PROVE  Announced'
  <2>1. Marking' = Marking
    BY <1>4 DEF Marking, TypeOK, Age
  <2> QED
    BY <1>4, <2>1 DEF Announced, Age
<1>5. ASSUME NEW p \in Procs, Change(p)
      PROVE  Announced'
  <2>1. p \notin Marking /\ Marking' = Marking \cup {p}
    BY <1>5 DEF Change, Marking, TypeOK
  <2>2. Cardinality(Marking') = Cardinality(Marking) + 1
    BY <2>1, FS_AddElement
  <2>3. Cardinality(Marking) \in Nat
    BY FS_CardinalityType
  <2> QED
    BY <1>5, <2>2, <2>3 DEF Change, Announced, TypeOK
<1>6. ASSUME NEW p \in Procs, Enqueue(p)
      PROVE  Announced'
  <2>1. Marking' = Marking
    BY <1>6 DEF Marking, TypeOK, Enqueue
  <2> QED
    BY <1>6, <2>1 DEF Announced, Enqueue
<1>7. ASSUME NEW p \in Procs, PruneLock(p)
      PROVE  Announced'
  <2>1. Marking' = Marking
    BY <1>7 DEF Marking, TypeOK, PruneLock
  <2> QED
    BY <1>7, <2>1 DEF Announced, PruneLock
<1>8. ASSUME NEW p \in Procs, MarkSerial(p)
      PROVE  Announced'
  <2>1. p \in Marking /\ Marking' = Marking \ {p}
    BY <1>8 DEF MarkSerial, Marking, TypeOK
  <2>2. Cardinality(Marking') = Cardinality(Marking) - 1
    BY <2>1, FS_RemoveElement
  <2>3. Cardinality(Marking) \in Nat
    BY FS_CardinalityType
  <2>4. painted' = painted /\ serial' = serial + 1
    BY <1>8 DEF MarkSerial
  <2> QED
    BY <2>2, <2>3, <2>4 DEF Announced, TypeOK
<1>9. ASSUME NEW p \in Procs, MarkDirty(p)
      PROVE  Announced'
  <2>1. Marking' = Marking
    BY <1>9 DEF Marking, TypeOK, MarkDirty
  <2> QED
    BY <1>9, <2>1 DEF Announced, MarkDirty
<1>10. ASSUME NEW p \in Procs, Schedule(p)
      PROVE  Announced'
  <2>1. Marking' = Marking
    BY <1>10 DEF Marking, TypeOK, Schedule, Return
  <2> QED
    BY <1>10, <2>1 DEF Announced, Schedule
<1>11. ASSUME NEW p \in Procs, Emit(p)
      PROVE  Announced'
  <2>1. Marking' = Marking
    BY <1>11 DEF Marking, TypeOK, Emit, Return
  <2> QED
    BY <1>11, <2>1 DEF Announced, Emit
<1>12. ASSUME NEW p \in Procs, PruneCancelled(p)
      PROVE  Announced'
  <2>1. Marking' = Marking
    BY <1>12 DEF Marking, TypeOK, PruneCancelled
  <2> QED
    BY <1>12, <2>1 DEF Announced, PruneCancelled
<1>13. ASSUME NEW p \in Procs, PruneTimedOut(p)
      PROVE  Announced'
  <2>1. Marking' = Marking
    BY <1>13 DEF Marking, TypeOK, PruneTimedOut
  <2> QED
    BY <1>13, <2>1 DEF Announced, PruneTimedOut
<1>14. ASSUME NEW p \in Procs, PruneKeep(p)
      PROVE  Announced'
  <2>1. Marking' = Marking
    BY <1>14 DEF Marking, TypeOK, PruneKeep
  <2> QED
    BY <1>14, <2>1 DEF Announced, PruneKeep
<1>15. ASSUME NEW p \in Procs, PruneUnlock(p)
      PROVE  Announced'
  <2>1. Marking' = Marking
    BY <1>15 DEF Marking, TypeOK, PruneUnlock
  <2> QED
    BY <1>15, <2>1 DEF Announced, PruneUnlock
<1>16. ASSUME NEW p \in Procs, FinishCancelled(p)
      PROVE  Announced'
  <2>1. Marking' = Marking
    BY <1>16 DEF Marking, TypeOK, FinishCancelled
  <2> QED
    BY <1>16, <2>1 DEF Announced, FinishCancelled
<1>17. ASSUME NEW p \in Procs, FinishTimedOut(p)
      PROVE  Announced'
  <2>1. Marking' = Marking
    BY <1>17 DEF Marking, TypeOK, FinishTimedOut
  <2> QED
    BY <1>17, <2>1 DEF Announced, FinishTimedOut
<1>18. ASSUME NEW p \in Procs, PruneReturn(p)
      PROVE  Announced'
  <2>1. Marking' = Marking
    BY <1>18 DEF Marking, TypeOK, PruneReturn
  <2> QED
    BY <1>18, <2>1 DEF Announced, PruneReturn
<1>19. CASE ServicePop
  <2>1. Marking' = Marking
    BY <1>19 DEF Marking, TypeOK, ServicePop
  <2> QED
    BY <1>19, <2>1 DEF Announced, ServicePop
<1>20. CASE ServiceAgain
  <2>1. Marking' = Marking
    BY <1>20 DEF Marking, TypeOK, ServiceAgain
  <2> QED
    BY <1>20, <2>1 DEF Announced, ServiceAgain
<1>21. CASE UpdateUnchanged
  <2>1. Marking' = Marking
    BY <1>21 DEF Marking, TypeOK, UpdateUnchanged
  <2> QED
    BY <1>21, <2>1 DEF Announced, UpdateUnchanged
<1>22. CASE Tick
  <2>1. Marking' = Marking
    BY <1>22 DEF Marking, TypeOK, Tick
  <2> QED
    BY <1>22, <2>1 DEF Announced, Tick
<1>23. CASE OnConnect
  <2>1. Marking' = Marking
    BY <1>23 DEF Marking, TypeOK, OnConnect
  <2> QED
    BY <1>23, <2>1 DEF Announced, OnConnect
<1>24. CASE ServiceBegin
  <2>1. Marking' = Marking
    BY <1>24 DEF Marking, TypeOK, ServiceBegin
  <2> QED
    BY <1>24, <2>1 DEF Announced, ServiceBegin
<1>25. CASE ServiceCheck
  <2>1. Marking' = Marking
    BY <1>25 DEF Marking, TypeOK, ServiceCheck
  <2> QED
    BY <1>25, <2>1 DEF Announced, ServiceCheck
<1>26. CASE ServiceSkip
  <2>1. Marking' = Marking
    BY <1>26 DEF Marking, TypeOK, ServiceSkip
  <2> QED
    BY <1>26, <2>1 DEF Announced, ServiceSkip
<1>27. CASE ServiceSerial
  <2>1. Marking' = Marking
    BY <1>27 DEF Marking, TypeOK, ServiceSerial
  <2> QED
    BY <1>27, <2>1 DEF Announced, ServiceSerial
<1>28. CASE ServiceRender
  <2>1. Marking' = Marking
    BY <1>28 DEF Marking, TypeOK, ServiceRender
  <2> QED
    BY <1>28, <2>1 DEF Announced, ServiceRender
<1>29. CASE ServiceReply
  <2>1. Marking' = Marking
    BY <1>29 DEF Marking, TypeOK, ServiceReply
  <2> QED
    BY <1>29, <2>1 DEF Announced, ServiceReply
<1>30. CASE ServiceCompare
  <2>1. Marking' = Marking
    BY <1>30 DEF Marking, TypeOK, ServiceCompare
  <2> QED
    BY <1>30, <2>1 DEF Announced, ServiceCompare
<1>31. CASE ServiceClear
  <2>1. Marking' = Marking
    BY <1>31 DEF Marking, TypeOK, ServiceClear
  <2> QED
    BY <1>31, <2>1 DEF Announced, ServiceClear
<1>32. CASE UNCHANGED vars
  BY <1>32 DEF Announced, Marking, vars, pruning, serving
<1> QED
  BY <1>1, <1>2, <1>3, <1>4, <1>5, <1>6, <1>7, <1>8, <1>9, <1>10, <1>11,
     <1>12, <1>13, <1>14, <1>15, <1>16, <1>17, <1>18, <1>19, <1>20, <1>21,
     <1>22, <1>23, <1>24, <1>25, <1>26, <1>27, <1>28, <1>29, <1>30, <1>31, <1>32
     DEF Next, Locking, Running, Service
\* The image under way is at least as new as the serial it will carry.
FreshInv ==
    /\ pc[Qt] \in {"render", "reply"} => deliverSerial <= serial
    /\ pc[Qt] = "reply" => deliverSerial <= image /\ image <= painted
    /\ RepliesAreFresh

\* Responses are announced after they were made.
LEMMA SerialBehind == TypeOK /\ Announced => serial <= painted
  BY MarkingFinite, FS_CardinalityType DEF TypeOK, Announced

\* A step that gives one request a reply keeps all replies fresh if that one is.
LEMMA FinishFresh ==
    ASSUME TypeOK, RepliesAreFresh, NEW r \in Requests, NEW reply \in Reply,
           Finish(r, reply), UNCHANGED serial,
           reply.status = "VALID" =>
               reply.content >= reply.serial /\ reply.serial <= serial
    PROVE  RepliesAreFresh'
  BY DEF TypeOK, RepliesAreFresh, Finish, Request

\* Every step keeps the replies fresh.
LEMMA FreshStep ==
    ASSUME TypeOK, HandOK, Announced, FreshInv, [Next]_vars
    PROVE  FreshInv'
<1> USE DEF Goto, At, flags, signal, serving
<1> Qt \in Procs /\ Handlers \subseteq Procs
  BY DEF Procs
<1>a. serial <= painted /\ serial \in Nat /\ painted \in Nat
      /\ deliverSerial \in Nat /\ image \in Nat
  BY SerialBehind DEF TypeOK
<1>1. ASSUME NEW h \in Handlers, NEW r \in Requests, ImagePlease(h, r)
      PROVE  FreshInv'
  <2>1. PICK fresh \in Request :
            /\ request' = [request EXCEPT ![r] = fresh]
            /\ fresh.reply.status # "VALID"
    <3>1. Fresh.reply.status # "VALID"
      BY DEF Fresh, EmptyReply
    <3>2. [Fresh EXCEPT !.finished = TRUE, !.reply.status = "NO_IMAGE"].reply.status # "VALID"
      BY DEF Fresh, EmptyReply
    <3> QED
      BY <1>1, <3>1, <3>2, ReplyTypes DEF ImagePlease
  <2>2. RepliesAreFresh'
    BY <1>1, <2>1 DEF ImagePlease, FreshInv, RepliesAreFresh, TypeOK
  <2> QED
    BY <1>1, <2>2 DEF ImagePlease, FreshInv, TypeOK
<1>2. ASSUME NEW r \in Requests, OnCancel(r)
      PROVE  FreshInv'
  <2>1. \A q \in Requests : request'[q].reply = request[q].reply
    BY <1>2 DEF OnCancel, TypeOK, Request
  <2>2. UNCHANGED <<pc, serial, painted, deliverSerial, image>>
    BY <1>2 DEF OnCancel
  <2> QED
    BY <2>1, <2>2 DEF FreshInv, RepliesAreFresh
<1>3. ASSUME NEW r \in Requests, OnDone(r)
      PROVE  FreshInv'
  <2>1. \A q \in Requests : request'[q].reply = request[q].reply
    BY <1>3 DEF OnDone, TypeOK, Request
  <2>2. UNCHANGED <<pc, serial, painted, deliverSerial, image>>
    BY <1>3 DEF OnDone
  <2> QED
    BY <2>1, <2>2 DEF FreshInv, RepliesAreFresh
<1>4. ASSUME NEW r \in Requests, Age(r)
      PROVE  FreshInv'
  <2>1. \A q \in Requests : request'[q].reply = request[q].reply
    BY <1>4 DEF Age, TypeOK, Request
  <2>2. UNCHANGED <<pc, serial, painted, deliverSerial, image>>
    BY <1>4 DEF Age
  <2> QED
    BY <2>1, <2>2 DEF FreshInv, RepliesAreFresh
<1>5. ASSUME NEW p \in Procs, Change(p)
      PROVE  FreshInv'
  <2>1. RepliesAreFresh'
    BY <1>5, <1>a DEF FreshInv, RepliesAreFresh, TypeOK, Request, Reply, Change
  <2> QED
    BY <1>5, <1>a, <2>1 DEF FreshInv, TypeOK, Change
<1>6. ASSUME NEW p \in Procs, Enqueue(p)
      PROVE  FreshInv'
  <2>1. RepliesAreFresh'
    BY <1>6, <1>a DEF FreshInv, RepliesAreFresh, TypeOK, Request, Reply, Enqueue
  <2> QED
    BY <1>6, <1>a, <2>1 DEF FreshInv, TypeOK, Enqueue
<1>7. ASSUME NEW p \in Procs, PruneLock(p)
      PROVE  FreshInv'
  <2>1. RepliesAreFresh'
    BY <1>7, <1>a DEF FreshInv, RepliesAreFresh, TypeOK, Request, Reply,
       PruneLock
  <2> QED
    BY <1>7, <1>a, <2>1 DEF FreshInv, TypeOK, PruneLock
<1>8. ASSUME NEW p \in Procs, MarkSerial(p)
      PROVE  FreshInv'
  <2>1. RepliesAreFresh'
    BY <1>8, <1>a DEF FreshInv, RepliesAreFresh, TypeOK, Request, Reply,
       MarkSerial
  <2> QED
    BY <1>8, <1>a, <2>1 DEF FreshInv, TypeOK, MarkSerial
<1>9. ASSUME NEW p \in Procs, MarkDirty(p)
      PROVE  FreshInv'
  <2>1. RepliesAreFresh'
    BY <1>9, <1>a DEF FreshInv, RepliesAreFresh, TypeOK, Request, Reply,
       MarkDirty
  <2> QED
    BY <1>9, <1>a, <2>1 DEF FreshInv, TypeOK, MarkDirty
<1>10. ASSUME NEW p \in Procs, Schedule(p)
      PROVE  FreshInv'
  <2>1. RepliesAreFresh'
    BY <1>10, <1>a DEF FreshInv, RepliesAreFresh, TypeOK, Request, Reply,
       Schedule
  <2> QED
    BY <1>10, <1>a, <2>1 DEF FreshInv, TypeOK, Schedule, Return
<1>11. ASSUME NEW p \in Procs, Emit(p)
      PROVE  FreshInv'
  <2>1. RepliesAreFresh'
    BY <1>11, <1>a DEF FreshInv, RepliesAreFresh, TypeOK, Request, Reply, Emit
  <2> QED
    BY <1>11, <1>a, <2>1 DEF FreshInv, TypeOK, Emit, Return
<1>12. ASSUME NEW p \in Procs, PruneCancelled(p)
      PROVE  FreshInv'
  <2>1. RepliesAreFresh'
    BY <1>12, <1>a DEF FreshInv, RepliesAreFresh, TypeOK, Request, Reply,
       PruneCancelled
  <2> QED
    BY <1>12, <1>a, <2>1 DEF FreshInv, TypeOK, PruneCancelled
<1>13. ASSUME NEW p \in Procs, PruneTimedOut(p)
      PROVE  FreshInv'
  <2>1. RepliesAreFresh'
    BY <1>13, <1>a DEF FreshInv, RepliesAreFresh, TypeOK, Request, Reply,
       PruneTimedOut
  <2> QED
    BY <1>13, <1>a, <2>1 DEF FreshInv, TypeOK, PruneTimedOut
<1>14. ASSUME NEW p \in Procs, PruneKeep(p)
      PROVE  FreshInv'
  <2>1. RepliesAreFresh'
    BY <1>14, <1>a DEF FreshInv, RepliesAreFresh, TypeOK, Request, Reply,
       PruneKeep
  <2> QED
    BY <1>14, <1>a, <2>1 DEF FreshInv, TypeOK, PruneKeep
<1>15. ASSUME NEW p \in Procs, PruneUnlock(p)
      PROVE  FreshInv'
  <2>1. RepliesAreFresh'
    BY <1>15, <1>a DEF FreshInv, RepliesAreFresh, TypeOK, Request, Reply,
       PruneUnlock
  <2> QED
    BY <1>15, <1>a, <2>1 DEF FreshInv, TypeOK, PruneUnlock
<1>16. ASSUME NEW p \in Procs, FinishCancelled(p)
      PROVE  FreshInv'
  <2>1. PICK r \in cancelledRequests[p] : Finish(r, request[r].reply)
    BY <1>16 DEF FinishCancelled
  <2> DEFINE reply == request[r].reply
  <2>2. r \in Requests /\ reply \in Reply
    BY ReplyTypes DEF TypeOK, Request
  <2>3. reply.status = "VALID" => reply.content >= reply.serial /\ reply.serial <= serial
    BY <2>2 DEF TypeOK, Request, FreshInv, RepliesAreFresh
  <2>4. UNCHANGED <<pc, serial, painted, deliverSerial, image>>
    BY <1>16 DEF FinishCancelled
  <2>5. RepliesAreFresh'
    <3> HIDE DEF reply
    <3>1. Finish(r, reply)
      BY <2>1 DEF reply
    <3> QED
      BY <2>2, <2>3, <2>4, <3>1, FinishFresh DEF FreshInv
  <2> QED
    BY <2>4, <2>5 DEF FreshInv
<1>17. ASSUME NEW p \in Procs, FinishTimedOut(p)
      PROVE  FreshInv'
  <2>1. PICK r \in timedOutRequests[p] : Finish(r, [EmptyReply EXCEPT !.status = IF connected THEN "TIMEOUT" ELSE "NO_IMAGE"])
    BY <1>17 DEF FinishTimedOut
  <2> DEFINE reply == [EmptyReply EXCEPT !.status = IF connected THEN "TIMEOUT" ELSE "NO_IMAGE"]
  <2>2. r \in Requests /\ reply \in Reply
    BY ReplyTypes DEF TypeOK, Request
  <2>3. reply.status = "VALID" => reply.content >= reply.serial /\ reply.serial <= serial
    BY <2>2 DEF TypeOK, EmptyReply
  <2>4. UNCHANGED <<pc, serial, painted, deliverSerial, image>>
    BY <1>17 DEF FinishTimedOut
  <2>5. RepliesAreFresh'
    <3> HIDE DEF reply
    <3>1. Finish(r, reply)
      BY <2>1 DEF reply
    <3> QED
      BY <2>2, <2>3, <2>4, <3>1, FinishFresh DEF FreshInv
  <2> QED
    BY <2>4, <2>5 DEF FreshInv
<1>18. ASSUME NEW p \in Procs, PruneReturn(p)
      PROVE  FreshInv'
  <2>1. RepliesAreFresh'
    BY <1>18, <1>a DEF FreshInv, RepliesAreFresh, TypeOK, Request, Reply,
       PruneReturn
  <2> QED
    BY <1>18, <1>a, <2>1 DEF FreshInv, TypeOK, PruneReturn
<1>19. CASE ServicePop
  <2>1. RepliesAreFresh'
    BY <1>19, <1>a DEF FreshInv, RepliesAreFresh, TypeOK, Request, Reply,
       ServicePop
  <2> QED
    BY <1>19, <1>a, <2>1 DEF FreshInv, TypeOK, ServicePop
<1>20. CASE ServiceAgain
  <2>1. RepliesAreFresh'
    BY <1>20, <1>a DEF FreshInv, RepliesAreFresh, TypeOK, Request, Reply,
       ServiceAgain
  <2> QED
    BY <1>20, <1>a, <2>1 DEF FreshInv, TypeOK, ServiceAgain
<1>21. CASE UpdateUnchanged
  <2>1. RepliesAreFresh'
    BY <1>21, <1>a DEF FreshInv, RepliesAreFresh, TypeOK, Request, Reply,
       UpdateUnchanged
  <2> QED
    BY <1>21, <1>a, <2>1 DEF FreshInv, TypeOK, UpdateUnchanged
<1>22. CASE Tick
  <2>1. RepliesAreFresh'
    BY <1>22, <1>a DEF FreshInv, RepliesAreFresh, TypeOK, Request, Reply, Tick
  <2> QED
    BY <1>22, <1>a, <2>1 DEF FreshInv, TypeOK, Tick
<1>23. CASE OnConnect
  <2>1. RepliesAreFresh'
    BY <1>23, <1>a DEF FreshInv, RepliesAreFresh, TypeOK, Request, Reply,
       OnConnect
  <2> QED
    BY <1>23, <1>a, <2>1 DEF FreshInv, TypeOK, OnConnect
<1>24. CASE ServiceBegin
  <2>1. RepliesAreFresh'
    BY <1>24, <1>a DEF FreshInv, RepliesAreFresh, TypeOK, Request, Reply,
       ServiceBegin
  <2> QED
    BY <1>24, <1>a, <2>1 DEF FreshInv, TypeOK, ServiceBegin
<1>25. CASE ServiceCheck
  <2>1. RepliesAreFresh'
    BY <1>25, <1>a DEF FreshInv, RepliesAreFresh, TypeOK, Request, Reply,
       ServiceCheck
  <2> QED
    BY <1>25, <1>a, <2>1 DEF FreshInv, TypeOK, ServiceCheck
<1>26. CASE ServiceSkip
  <2> DEFINE r == mine[Qt]
  <2>1. r \in Requests /\ request[r].reply \in Reply
    BY <1>26 DEF ServiceSkip, HandOK, TypeOK, Request
  <2>2. UNCHANGED serial /\ pc'[Qt] = "schedule"
    BY <1>26 DEF ServiceSkip, TypeOK
  <2>3. RepliesAreFresh'
    <3>1. CASE UNCHANGED request
      BY <2>2, <3>1 DEF FreshInv, RepliesAreFresh
    <3>2. CASE Finish(r, request[r].reply)
      BY <2>1, <2>2, <3>2, FinishFresh DEF FreshInv, RepliesAreFresh
    <3> QED
      BY <1>26, <3>1, <3>2 DEF ServiceSkip
  <2> QED
    BY <2>2, <2>3 DEF FreshInv
<1>27. CASE ServiceSerial
  <2>1. RepliesAreFresh'
    BY <1>27, <1>a DEF FreshInv, RepliesAreFresh, TypeOK, Request, Reply,
       ServiceSerial
  <2> QED
    BY <1>27, <1>a, <2>1 DEF FreshInv, TypeOK, ServiceSerial
<1>28. CASE ServiceRender
  <2>1. RepliesAreFresh'
    BY <1>28, <1>a DEF FreshInv, RepliesAreFresh, TypeOK, Request, Reply,
       ServiceRender
  <2> QED
    BY <1>28, <1>a, <2>1 DEF FreshInv, TypeOK, ServiceRender
<1>29. CASE ServiceReply
  <2> DEFINE reply == [status |-> "VALID", serial |-> deliverSerial,
                       content |-> image]
  <2>1. mine[Qt] \in Requests /\ reply \in Reply
    BY <1>29 DEF ServiceReply, HandOK, TypeOK, Reply, Statuses
  <2>2. UNCHANGED serial /\ pc'[Qt] = "compare" /\ Finish(mine[Qt], reply)
    BY <1>29 DEF ServiceReply, TypeOK
  <2>3. reply.content >= reply.serial /\ reply.serial <= serial
    BY <1>29, <1>a DEF ServiceReply, FreshInv
  <2>4. RepliesAreFresh'
    <3> HIDE DEF reply
    <3> QED
      BY <2>1, <2>2, <2>3, FinishFresh DEF FreshInv
  <2> QED
    BY <2>2, <2>4 DEF FreshInv
<1>30. CASE ServiceCompare
  <2>1. RepliesAreFresh'
    BY <1>30, <1>a DEF FreshInv, RepliesAreFresh, TypeOK, Request, Reply,
       ServiceCompare
  <2> QED
    BY <1>30, <1>a, <2>1 DEF FreshInv, TypeOK, ServiceCompare
<1>31. CASE ServiceClear
  <2>1. RepliesAreFresh'
    BY <1>31, <1>a DEF FreshInv, RepliesAreFresh, TypeOK, Request, Reply,
       ServiceClear
  <2> QED
    BY <1>31, <1>a, <2>1 DEF FreshInv, TypeOK, ServiceClear
<1>32. CASE UNCHANGED vars
  BY <1>32 DEF FreshInv, RepliesAreFresh, vars, pruning
<1> QED
  BY <1>1, <1>2, <1>3, <1>4, <1>5, <1>6, <1>7, <1>8, <1>9, <1>10, <1>11,
     <1>12, <1>13, <1>14, <1>15, <1>16, <1>17, <1>18, <1>19, <1>20, <1>21,
     <1>22, <1>23, <1>24, <1>25, <1>26, <1>27, <1>28, <1>29, <1>30, <1>31, <1>32
     DEF Next, Locking, Running, Service

\* The freshness invariant holds in every reachable state.
LEMMA FreshInvariant == Spec => [](Announced /\ FreshInv)
<1>1. Init => Announced /\ FreshInv
  <2> SUFFICES ASSUME Init PROVE Announced /\ FreshInv
    OBVIOUS
  <2>1. Marking = {}
    BY DEF Init, Marking, At
  <2>2. Announced
    BY <2>1, FS_EmptySet DEF Init, Announced
  <2>3. RepliesAreFresh
    BY DEF Init, RepliesAreFresh, Destroyed, Fresh, EmptyReply
  <2>4. pc[Qt] = "idle"
    BY DEF Init, Procs
  <2> QED
    BY <2>2, <2>3, <2>4 DEF FreshInv
<1>2. TypeInv /\ Announced /\ FreshInv /\ [Next]_vars => (Announced /\ FreshInv)'
  BY AnnouncedStep, FreshStep DEF TypeInv
<1> QED
  BY <1>1, <1>2, TypeInvariant, PTL DEF Spec

\* Replies are fresh, for any number of threads recoloring the image while it
\* is rendered and sent.
THEOREM RepliesAreFreshHolds == Spec => []RepliesAreFresh
<1>1. FreshInv => RepliesAreFresh
  BY DEF FreshInv
<1> QED
  BY <1>1, FreshInvariant, PTL
-----------------------------------------------------------------------------
(* The stream implements ImagePleaseService.                               *)

\* finish() is one step of the service, or no step if it came second.
LEMMA FinishRefines ==
    ASSUME TypeOK, RequestOK, UNCHANGED <<painted, serial>>,
           NEW r \in Requests, NEW reply \in Reply, Finish(r, reply),
           \/ /\ reply.status = "VALID"
              /\ reply.serial <= serial
              /\ reply.serial <= reply.content
              /\ reply.content <= painted
           \/ reply \in {[EmptyReply EXCEPT !.status = st] :
                             st \in {"none", "TIMEOUT", "NO_IMAGE"}}
    PROVE  [AbstractService!SNext]_(AbstractService!svars)
<1>1. CASE request[r].finished
  <2>1. request' = request
    BY <1>1 DEF Finish, TypeOK, Request
  <2> QED
    BY <2>1 DEF AbstractService!svars, Waiting, Answer
<1>2. CASE ~request[r].finished
  <2>1. Waiting' = Waiting \ {r} /\ r \in Waiting
    BY <1>2 DEF Finish, Waiting, TypeOK, Request
  <2>2. Answer' = [Answer EXCEPT ![r] = reply]
    BY <1>2 DEF Finish, Answer, TypeOK, Request
  <2>3. Answer'[r] = reply
    BY <2>2 DEF Answer
  <2>4. AbstractService!Deliver(r, Answer'[r]) \/ AbstractService!GiveUp(r, Answer'[r])
    BY <2>1, <2>2, <2>3 DEF AbstractService!Deliver, AbstractService!GiveUp,
       AbstractService!Unanswered, EmptyReply
  <2> QED
    BY <2>4 DEF AbstractService!SNext
<1> QED
  BY <1>1, <1>2

\* Every step of the stream is a step of the service or a stutter.
LEMMA ServiceStep ==
    ASSUME TypeInv, Announced, FreshInv, [Next]_vars
    PROVE  [AbstractService!SNext]_(AbstractService!svars)
<1> USE DEF TypeInv, flags
<1> Qt \in Procs /\ Handlers \subseteq Procs
  BY DEF Procs
<1>e. EmptyReply \in {[EmptyReply EXCEPT !.status = st] :
                         st \in {"none", "TIMEOUT", "NO_IMAGE"}}
  BY DEF EmptyReply
<1>1. ASSUME NEW h \in Handlers, NEW r \in Requests, ImagePlease(h, r)
      PROVE  [AbstractService!SNext]_(AbstractService!svars)
  <2>1. UNCHANGED <<painted, serial>> /\ r \notin Waiting
    BY <1>1 DEF ImagePlease, RequestOK, Waiting
  <2>2. CASE connected
    <3>1. request' = [request EXCEPT ![r] = Fresh]
      BY <1>1, <2>2 DEF ImagePlease
    <3>2. Waiting' = Waiting \cup {r}
      BY <3>1 DEF Waiting, TypeOK, Fresh
    <3>3. Answer' = [Answer EXCEPT ![r] = AbstractService!Unanswered]
      BY <3>1 DEF Answer, TypeOK, Fresh, EmptyReply, AbstractService!Unanswered
    <3>4. AbstractService!Ask(r)
      BY <2>1, <3>2, <3>3 DEF AbstractService!Ask
    <3> QED
      BY <3>4 DEF AbstractService!SNext
  <2>3. CASE ~connected
    <3> DEFINE refused == [Fresh EXCEPT !.finished = TRUE, !.reply.status = "NO_IMAGE"]
    <3>1. request' = [request EXCEPT ![r] = refused]
      BY <1>1, <2>3 DEF ImagePlease
    <3>2. /\ refused.finished
          /\ refused.reply = [AbstractService!Unanswered EXCEPT !.status = "NO_IMAGE"]
      BY DEF Fresh, EmptyReply, AbstractService!Unanswered
    <3> HIDE DEF refused
    <3>3. Waiting' = Waiting
      BY <2>1, <3>1, <3>2 DEF Waiting, TypeOK
    <3>4. Answer' = [Answer EXCEPT ![r] = refused.reply]
      BY <3>1 DEF Answer, TypeOK
    <3>5. AbstractService!Refuse(r)
      BY <2>1, <3>2, <3>3, <3>4 DEF AbstractService!Refuse
    <3> QED
      BY <3>5 DEF AbstractService!SNext
  <2> QED
    BY <2>2, <2>3
<1>2. ASSUME NEW r \in Requests, OnCancel(r)
      PROVE  [AbstractService!SNext]_(AbstractService!svars)
  <2>1. Waiting' = Waiting /\ Answer' = Answer
    BY <1>2 DEF OnCancel, Waiting, Answer, TypeOK, Request
  <2> QED
    BY <1>2, <2>1 DEF AbstractService!svars, OnCancel
<1>3. ASSUME NEW r \in Requests, OnDone(r)
      PROVE  [AbstractService!SNext]_(AbstractService!svars)
  <2>1. Waiting' = Waiting /\ Answer' = Answer
    BY <1>3 DEF OnDone, Waiting, Answer, TypeOK, Request
  <2> QED
    BY <1>3, <2>1 DEF AbstractService!svars, OnDone
<1>4. ASSUME NEW r \in Requests, Age(r)
      PROVE  [AbstractService!SNext]_(AbstractService!svars)
  <2>1. Waiting' = Waiting /\ Answer' = Answer
    BY <1>4 DEF Age, Waiting, Answer, TypeOK, Request
  <2> QED
    BY <1>4, <2>1 DEF AbstractService!svars, Age
<1>5. ASSUME NEW p \in Procs, Change(p)
      PROVE  [AbstractService!SNext]_(AbstractService!svars)
  <2> QED
    BY <1>5 DEF Change, AbstractService!SNext, AbstractService!Paint, Waiting,
       Answer
<1>6. ASSUME NEW p \in Procs, Enqueue(p)
      PROVE  [AbstractService!SNext]_(AbstractService!svars)
  <2>1. UNCHANGED <<painted, serial, request>>
    BY <1>6 DEF Enqueue
  <2> QED
    BY <2>1 DEF AbstractService!svars, Waiting, Answer
<1>7. ASSUME NEW p \in Procs, PruneLock(p)
      PROVE  [AbstractService!SNext]_(AbstractService!svars)
  <2>1. UNCHANGED <<painted, serial, request>>
    BY <1>7 DEF PruneLock
  <2> QED
    BY <2>1 DEF AbstractService!svars, Waiting, Answer
<1>8. ASSUME NEW p \in Procs, MarkSerial(p)
      PROVE  [AbstractService!SNext]_(AbstractService!svars)
  <2>1. Marking # {}
    BY <1>8 DEF MarkSerial, Marking
  <2>2. Cardinality(Marking) \in Nat /\ Cardinality(Marking) # 0
    BY <2>1, MarkingFinite, FS_CardinalityType, FS_EmptySet
  <2>3. serial < painted
    BY <2>2 DEF Announced, TypeOK
  <2> QED
    BY <1>8, <2>3 DEF MarkSerial, AbstractService!SNext,
       AbstractService!Announce,
       Waiting, Answer
<1>9. ASSUME NEW p \in Procs, MarkDirty(p)
      PROVE  [AbstractService!SNext]_(AbstractService!svars)
  <2>1. UNCHANGED <<painted, serial, request>>
    BY <1>9 DEF MarkDirty
  <2> QED
    BY <2>1 DEF AbstractService!svars, Waiting, Answer
<1>10. ASSUME NEW p \in Procs, Schedule(p)
      PROVE  [AbstractService!SNext]_(AbstractService!svars)
  <2>1. UNCHANGED <<painted, serial, request>>
    BY <1>10 DEF Schedule
  <2> QED
    BY <2>1 DEF AbstractService!svars, Waiting, Answer
<1>11. ASSUME NEW p \in Procs, Emit(p)
      PROVE  [AbstractService!SNext]_(AbstractService!svars)
  <2>1. UNCHANGED <<painted, serial, request>>
    BY <1>11 DEF Emit
  <2> QED
    BY <2>1 DEF AbstractService!svars, Waiting, Answer
<1>12. ASSUME NEW p \in Procs, PruneCancelled(p)
      PROVE  [AbstractService!SNext]_(AbstractService!svars)
  <2>1. UNCHANGED <<painted, serial, request>>
    BY <1>12 DEF PruneCancelled
  <2> QED
    BY <2>1 DEF AbstractService!svars, Waiting, Answer
<1>13. ASSUME NEW p \in Procs, PruneTimedOut(p)
      PROVE  [AbstractService!SNext]_(AbstractService!svars)
  <2>1. UNCHANGED <<painted, serial, request>>
    BY <1>13 DEF PruneTimedOut
  <2> QED
    BY <2>1 DEF AbstractService!svars, Waiting, Answer
<1>14. ASSUME NEW p \in Procs, PruneKeep(p)
      PROVE  [AbstractService!SNext]_(AbstractService!svars)
  <2>1. UNCHANGED <<painted, serial, request>>
    BY <1>14 DEF PruneKeep
  <2> QED
    BY <2>1 DEF AbstractService!svars, Waiting, Answer
<1>15. ASSUME NEW p \in Procs, PruneUnlock(p)
      PROVE  [AbstractService!SNext]_(AbstractService!svars)
  <2>1. UNCHANGED <<painted, serial, request>>
    BY <1>15 DEF PruneUnlock
  <2> QED
    BY <2>1 DEF AbstractService!svars, Waiting, Answer
<1>16. ASSUME NEW p \in Procs, FinishCancelled(p)
      PROVE  [AbstractService!SNext]_(AbstractService!svars)
  <2>1. PICK r \in cancelledRequests[p] : Finish(r, request[r].reply)
    BY <1>16 DEF FinishCancelled
  <2>2. r \in Requests /\ request[r].reply \in Reply
    BY DEF TypeOK, Request
  <2>3. UNCHANGED <<painted, serial>>
    BY <1>16 DEF FinishCancelled
  <2>4. CASE request[r].finished
    <3>1. Finish(r, EmptyReply)
      BY <2>1, <2>4 DEF Finish
    <3> QED
      BY <1>e, <2>2, <2>3, <3>1, ReplyTypes, FinishRefines
  <2>5. CASE ~request[r].finished
    <3>1. request[r].reply = EmptyReply
      BY <2>2, <2>5 DEF RequestOK
    <3> QED
      BY <1>e, <2>1, <2>2, <2>3, <3>1, FinishRefines
  <2> QED
    BY <2>4, <2>5
<1>17. ASSUME NEW p \in Procs, FinishTimedOut(p)
      PROVE  [AbstractService!SNext]_(AbstractService!svars)
  <2> DEFINE reply == [EmptyReply EXCEPT !.status =
                           IF connected THEN "TIMEOUT" ELSE "NO_IMAGE"]
  <2>1. PICK r \in timedOutRequests[p] : Finish(r, reply)
    BY <1>17 DEF FinishTimedOut
  <2>2. r \in Requests /\ reply \in Reply
    BY ReplyTypes DEF TypeOK
  <2>3. UNCHANGED <<painted, serial>>
    BY <1>17 DEF FinishTimedOut
  <2>4. reply \in {[EmptyReply EXCEPT !.status = st] :
                     st \in {"none", "TIMEOUT", "NO_IMAGE"}}
    OBVIOUS
  <2> HIDE DEF reply
  <2> QED
    BY <2>1, <2>2, <2>3, <2>4, FinishRefines
<1>18. ASSUME NEW p \in Procs, PruneReturn(p)
      PROVE  [AbstractService!SNext]_(AbstractService!svars)
  <2>1. UNCHANGED <<painted, serial, request>>
    BY <1>18 DEF PruneReturn
  <2> QED
    BY <2>1 DEF AbstractService!svars, Waiting, Answer
<1>19. CASE ServicePop
  <2>1. UNCHANGED <<painted, serial, request>>
    BY <1>19 DEF ServicePop
  <2> QED
    BY <2>1 DEF AbstractService!svars, Waiting, Answer
<1>20. CASE ServiceAgain
  <2>1. UNCHANGED <<painted, serial, request>>
    BY <1>20 DEF ServiceAgain
  <2> QED
    BY <2>1 DEF AbstractService!svars, Waiting, Answer
<1>21. CASE UpdateUnchanged
  <2>1. UNCHANGED <<painted, serial, request>>
    BY <1>21 DEF UpdateUnchanged
  <2> QED
    BY <2>1 DEF AbstractService!svars, Waiting, Answer
<1>22. CASE Tick
  <2>1. UNCHANGED <<painted, serial, request>>
    BY <1>22 DEF Tick
  <2> QED
    BY <2>1 DEF AbstractService!svars, Waiting, Answer
<1>23. CASE OnConnect
  <2>1. UNCHANGED <<painted, serial, request>>
    BY <1>23 DEF OnConnect
  <2> QED
    BY <2>1 DEF AbstractService!svars, Waiting, Answer
<1>24. CASE ServiceBegin
  <2>1. UNCHANGED <<painted, serial, request>>
    BY <1>24 DEF ServiceBegin
  <2> QED
    BY <2>1 DEF AbstractService!svars, Waiting, Answer
<1>25. CASE ServiceCheck
  <2>1. UNCHANGED <<painted, serial, request>>
    BY <1>25 DEF ServiceCheck
  <2> QED
    BY <2>1 DEF AbstractService!svars, Waiting, Answer
<1>26. CASE ServiceSkip
  <2> DEFINE r == mine[Qt]
  <2>1. r \in Requests /\ request[r].reply \in Reply
    BY <1>26 DEF ServiceSkip, HandOK, TypeOK, Request, At
  <2>2. UNCHANGED <<painted, serial>>
    BY <1>26 DEF ServiceSkip
  <2>3. CASE UNCHANGED request
    BY <2>2, <2>3 DEF AbstractService!svars, Waiting, Answer
  <2>4. CASE ~request[r].finished /\ Finish(r, request[r].reply)
    <3>1. request[r].reply = EmptyReply
      BY <2>1, <2>4 DEF RequestOK
    <3> QED
      BY <1>e, <2>1, <2>2, <2>4, <3>1, FinishRefines
  <2>5. CASE request[r].finished /\ Finish(r, request[r].reply)
    <3>1. UNCHANGED request
      BY <2>1, <2>5 DEF Finish, TypeOK, Request
    <3> QED
      BY <2>2, <3>1 DEF AbstractService!svars, Waiting, Answer
  <2> QED
    BY <1>26, <2>3, <2>4, <2>5 DEF ServiceSkip
<1>27. CASE ServiceSerial
  <2>1. UNCHANGED <<painted, serial, request>>
    BY <1>27 DEF ServiceSerial
  <2> QED
    BY <2>1 DEF AbstractService!svars, Waiting, Answer
<1>28. CASE ServiceRender
  <2>1. UNCHANGED <<painted, serial, request>>
    BY <1>28 DEF ServiceRender
  <2> QED
    BY <2>1 DEF AbstractService!svars, Waiting, Answer
<1>29. CASE ServiceReply
  <2> DEFINE reply == [status |-> "VALID", serial |-> deliverSerial,
                       content |-> image]
  <2>1. mine[Qt] \in Requests /\ reply \in Reply
    BY <1>29 DEF ServiceReply, HandOK, TypeOK, Reply, Statuses, At
  <2>2. UNCHANGED <<painted, serial>> /\ Finish(mine[Qt], reply)
    BY <1>29 DEF ServiceReply
  <2>3. /\ reply.status = "VALID"
        /\ reply.serial <= serial
        /\ reply.serial <= reply.content
        /\ reply.content <= painted
    BY <1>29 DEF ServiceReply, FreshInv, TypeOK, At
  <2> HIDE DEF reply
  <2> QED
    BY <2>1, <2>2, <2>3, FinishRefines
<1>30. CASE ServiceCompare
  <2>1. UNCHANGED <<painted, serial, request>>
    BY <1>30 DEF ServiceCompare
  <2> QED
    BY <2>1 DEF AbstractService!svars, Waiting, Answer
<1>31. CASE ServiceClear
  <2>1. UNCHANGED <<painted, serial, request>>
    BY <1>31 DEF ServiceClear
  <2> QED
    BY <2>1 DEF AbstractService!svars, Waiting, Answer
<1>32. CASE UNCHANGED vars
  BY <1>32 DEF AbstractService!svars, Waiting, Answer, vars
<1> QED
  BY <1>1, <1>2, <1>3, <1>4, <1>5, <1>6, <1>7, <1>8, <1>9, <1>10, <1>11,
     <1>12, <1>13, <1>14, <1>15, <1>16, <1>17, <1>18, <1>19, <1>20, <1>21,
     <1>22, <1>23, <1>24, <1>25, <1>26, <1>27, <1>28, <1>29, <1>30, <1>31, <1>32
     DEF Next, Locking, Running, Service

\* The queue, the flags and the threads of a stream implement the service
\* ImagePlease promises: an accepted call is answered by exactly one step.
THEOREM StreamImplementsService == Spec => ImplementsService
<1>1. Init => AbstractService!SInit
  <2> SUFFICES ASSUME Init PROVE AbstractService!SInit
    OBVIOUS
  <2>1. Waiting = {} /\ Answer = [r \in Requests |-> AbstractService!Unanswered]
    BY DEF Init, Waiting, Answer, Destroyed, Fresh, EmptyReply,
       AbstractService!Unanswered
  <2> QED
    BY <2>1 DEF Init, AbstractService!SInit
<1>2. Spec => [](Announced /\ FreshInv)
  BY FreshInvariant, PTL
<1>3. TypeInv /\ Announced /\ FreshInv /\ [Next]_vars
        => [AbstractService!SNext]_(AbstractService!svars)
  BY ServiceStep
<1> QED
  BY <1>1, <1>2, <1>3, TypeInvariant, PTL
     DEF Spec, ImplementsService, AbstractService!SSpec
=============================================================================
