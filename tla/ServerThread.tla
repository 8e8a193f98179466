---------------------------- MODULE ServerThread ----------------------------
(***************************************************************************)
(* One image stream of rtimvServer (src/src/server/rtimvServerThread.cpp): *)
(* the queue of ImagePlease calls waiting for an image, the dirty flag and *)
(* serial that say whether there is something new to send, and the queued  *)
(* Qt event that brings the two together.                                  *)
(*                                                                         *)
(* Three kinds of thread meet here:                                        *)
(*   - the gRPC threads (Handlers) run the RPC handlers: they queue        *)
(*     ImagePlease calls and run the setters that recolor the image;       *)
(*   - the Qt thread of the server (Qt) runs every slot: it loads new      *)
(*     frames and serves the queue;                                        *)
(*   - the cleanup loop of rtimvServer::startServer (Cleaner) prunes the   *)
(*     queue once a second.                                                *)
(* Every load, store or exchange of an atomic and every critical section   *)
(* of m_pendingImageMutex is a step of its own.                            *)
(***************************************************************************)
EXTENDS Naturals, Sequences, SequencesExt, FiniteSets

CONSTANTS
    Handlers,    \* the gRPC threads
    Qt,          \* the thread whose event loop runs the slots
    Cleaner,     \* the thread of rtimvServer::startServer
    Requests,    \* the pendingImageRequest objects, reused once destroyed
    NoRequest,   \* a null request pointer
    Unlocked,    \* the holder of a free mutex
    MaxChanges   \* bound on the changes of the rendered response

Procs == Handlers \cup {Qt, Cleaner}

ASSUME ProcsAssumption ==
    /\ Qt \notin Handlers
    /\ Cleaner \notin Handlers
    /\ Qt # Cleaner
    /\ Unlocked \notin Procs
    /\ NoRequest \notin Requests
    /\ IsFiniteSet(Handlers)
    /\ IsFiniteSet(Requests)

ASSUME BoundAssumption == MaxChanges \in Nat

Statuses == {"none", "NO_IMAGE", "TIMEOUT", "VALID"}

Reply == [status : Statuses, serial : Nat, content : Nat]

\* A pendingImageRequest; "aged" abstracts the clock: now - m_enqueueTime is
\* greater than the timeout of the cleanup loop.
Request == [cancelled : BOOLEAN, done : BOOLEAN, finished : BOOLEAN,
            aged : BOOLEAN, reply : Reply]

\* Where a thread can be: in its handler or slot, in markResponseDirty, in
\* prunePendingImageRequests, in servicePendingImageRequests.
Labels ==
    {"idle", "enqueue", "connect", "mark", "setDirty", "schedule", "emit",
     "lock", "walk", "finishPruned", "check", "pop", "popped", "render",
     "reply", "compare", "clear", "again"}

EmptyReply == [status |-> "none", serial |-> 0, content |-> 0]

Fresh == [cancelled |-> FALSE, done |-> FALSE, finished |-> FALSE,
          aged |-> FALSE, reply |-> EmptyReply]

Destroyed == [Fresh EXCEPT !.done = TRUE, !.finished = TRUE]

VARIABLES
    connected,          \* m_connected: a first image was loaded
    painted,            \* version of what mtxuL_render would encode now
    serial,             \* m_responseSerial
    dirty,              \* m_responseDirty
    scheduled,          \* m_servicePendingScheduled
    posted,             \* servicePending events in the Qt event queue
    queue,              \* m_pendingImageRequests
    mutex,              \* holder of m_pendingImageMutex
    request,            \* the request objects
    activeRpc,          \* m_activeRpc, the part due to ImagePlease reactors
    pc,                 \* where each thread is
    mine,               \* the request a thread has in its local variable
    cursor,             \* position of requestIt while a thread prunes
    cancelledRequests,  \* the local lists of prunePendingImageRequests
    timedOutRequests,
    deliverSerial,      \* local of servicePendingImageRequests
    image               \* version of the rendered JPEG

flags   == <<connected, painted, serial, dirty>>
signal  == <<scheduled, posted>>
pruning == <<cursor, cancelledRequests, timedOutRequests>>
serving == <<deliverSerial, image>>
vars == <<flags, signal, queue, mutex, request, activeRpc, pc, mine, pruning,
          serving>>

Init ==
    /\ connected = FALSE
    /\ painted = 0
    /\ serial = 0
    /\ dirty = FALSE
    /\ scheduled = FALSE
    /\ posted = 0
    /\ queue = << >>
    /\ mutex = Unlocked
    /\ request = [r \in Requests |-> Destroyed]
    /\ activeRpc = 0
    /\ pc = [p \in Procs |-> "idle"]
    /\ mine = [p \in Procs |-> NoRequest]
    /\ cursor = [p \in Procs |-> 1]
    /\ cancelledRequests = [p \in Procs |-> {}]
    /\ timedOutRequests = [p \in Procs |-> {}]
    /\ deliverSerial = 0
    /\ image = 0

-----------------------------------------------------------------------------
(* Shared pieces.                                                          *)

Goto(p, label) == pc' = [pc EXCEPT ![p] = label]

At(p, label) == pc[p] = label

\* pendingImageRequest::finish: only the first call issues Finish.
Finish(r, reply) ==
    request' = [request EXCEPT ![r] =
        IF @.finished THEN @ ELSE [@ EXCEPT !.finished = TRUE, !.reply = reply]]

\* Where a thread goes when its slot or handler is over: the Qt thread that
\* has loaded a frame while not yet connected still has to call onConnect.
Return(p) == IF p = Qt /\ ~connected THEN "connect" ELSE "idle"

-----------------------------------------------------------------------------
(* The gRPC runtime.                                                       *)

\* newImagePleaseReactor and the head of enqueueImageRequest: the reactor is
\* constructed (rpcBegin); without an image the call is answered at once.
ImagePlease(h, r) ==
    /\ At(h, "idle")
    /\ request[r].done
    /\ activeRpc' = activeRpc + 1
    /\ IF connected
       THEN /\ request' = [request EXCEPT ![r] = Fresh]
            /\ mine' = [mine EXCEPT ![h] = r]
            /\ Goto(h, "enqueue")
       ELSE /\ request' = [request EXCEPT ![r] =
                   [Fresh EXCEPT !.finished = TRUE,
                                 !.reply.status = "NO_IMAGE"]]
            /\ UNCHANGED <<mine, pc>>
    /\ UNCHANGED <<flags, signal, queue, mutex, pruning, serving>>

\* The rest of enqueueImageRequest, up to the call of
\* schedulePendingImageService.
Enqueue(h) ==
    /\ At(h, "enqueue")
    /\ mutex = Unlocked
    /\ queue' = Append(queue, mine[h])
    /\ mine' = [mine EXCEPT ![h] = NoRequest]
    /\ Goto(h, "schedule")
    /\ UNCHANGED <<flags, signal, mutex, request, activeRpc, pruning, serving>>

\* pendingImageReactor::OnCancel, at any time of the reactor's life.
OnCancel(r) ==
    /\ ~request[r].done
    /\ ~request[r].cancelled
    /\ request' = [request EXCEPT ![r].cancelled = TRUE]
    /\ UNCHANGED <<flags, signal, queue, mutex, activeRpc, pc, mine, pruning,
                   serving>>

\* pendingImageReactor::OnDone; gRPC calls it only after Finish.
OnDone(r) ==
    /\ request[r].finished
    /\ ~request[r].done
    /\ request' = [request EXCEPT ![r].done = TRUE]
    /\ activeRpc' = activeRpc - 1
    /\ UNCHANGED <<flags, signal, queue, mutex, pc, mine, pruning, serving>>

\* The clock: a request becomes older than the timeout.
Age(r) ==
    /\ ~request[r].finished
    /\ ~request[r].aged
    /\ request' = [request EXCEPT ![r].aged = TRUE]
    /\ UNCHANGED <<flags, signal, queue, mutex, activeRpc, pc, mine, pruning,
                   serving>>

-----------------------------------------------------------------------------
(* Marking the response dirty, and scheduling the service.                 *)

\* What is rendered changes (a frame, a recolor, the JPEG quality): the caller
\* then calls markResponseDirty.
Change(p) ==
    /\ p # Cleaner
    /\ At(p, "idle")
    /\ painted < MaxChanges
    /\ painted' = painted + 1
    /\ Goto(p, "mark")
    /\ UNCHANGED <<connected, serial, dirty, signal, queue, mutex, request,
                   activeRpc, mine, pruning, serving>>

\* Mutant of MarkSerial: mtxL_postChangeImdata marks the response again.
MarkSerialTwice(p) ==
    /\ At(p, "mark")
    /\ serial' = serial + 2
    /\ Goto(p, "setDirty")
    /\ UNCHANGED <<connected, painted, dirty, signal, queue, mutex, request,
                   activeRpc, mine, pruning, serving>>

\* markResponseDirty: m_responseSerial.fetch_add( 1 ).
MarkSerial(p) ==
    /\ At(p, "mark")
    /\ serial' = serial + 1
    /\ Goto(p, "setDirty")
    /\ UNCHANGED <<connected, painted, dirty, signal, queue, mutex, request,
                   activeRpc, mine, pruning, serving>>

\* markResponseDirty: m_responseDirty.store( true ).
MarkDirty(p) ==
    /\ At(p, "setDirty")
    /\ dirty' = TRUE
    /\ Goto(p, "schedule")
    /\ UNCHANGED <<connected, painted, serial, signal, queue, mutex, request,
                   activeRpc, mine, pruning, serving>>

\* schedulePendingImageService: the exchange.
Schedule(p) ==
    /\ At(p, "schedule")
    /\ scheduled' = TRUE
    /\ Goto(p, IF scheduled THEN Return(p) ELSE "emit")
    /\ UNCHANGED <<flags, posted, queue, mutex, request, activeRpc, mine,
                   pruning, serving>>

\* schedulePendingImageService: emit servicePending(), a queued connection.
Emit(p) ==
    /\ At(p, "emit")
    /\ posted' = posted + 1
    /\ Goto(p, Return(p))
    /\ UNCHANGED <<flags, scheduled, queue, mutex, request, activeRpc, mine,
                   pruning, serving>>

\* rtimvBase::updateImages when its mtxUL_changeImdata call was dropped.
UpdateUnchanged ==
    /\ At(Qt, "idle")
    /\ ~connected
    /\ Goto(Qt, "connect")
    /\ UNCHANGED <<flags, signal, queue, mutex, request, activeRpc, mine,
                   pruning, serving>>

\* The end of updateImages: onConnect when it was the main image that was
\* updated (not only a dark, mask or saturation map).
OnConnect ==
    /\ At(Qt, "connect")
    /\ connected' \in BOOLEAN
    /\ Goto(Qt, "idle")
    /\ UNCHANGED <<painted, serial, dirty, signal, queue, mutex, request,
                   activeRpc, mine, pruning, serving>>

-----------------------------------------------------------------------------
(* prunePendingImageRequests.  The cleanup loop calls it with its timeout, *)
(* the service with 0, which disables the timeout.                         *)

\* The cleanup loop wakes up, once a second.
Tick ==
    /\ At(Cleaner, "idle")
    /\ Goto(Cleaner, "lock")
    /\ UNCHANGED <<flags, signal, queue, mutex, request, activeRpc, mine,
                   pruning, serving>>

PruneLock(p) ==
    /\ At(p, "lock")
    /\ mutex = Unlocked
    /\ mutex' = p
    /\ cursor' = [cursor EXCEPT ![p] = 1]
    /\ Goto(p, "walk")
    /\ UNCHANGED <<flags, signal, queue, request, activeRpc, mine,
                   cancelledRequests, timedOutRequests, serving>>

\* The request under requestIt.
Current(p) == queue[cursor[p]]

\* Mutant of Expired: no request is ever too old.
ExpiredNever(p, r) == FALSE

Expired(p, r) == p = Cleaner /\ request[r].aged

\* Mutant of PruneCancelled: the request stays in the queue.
PruneCancelledKeeps(p) ==
    /\ At(p, "walk")
    /\ cursor[p] <= Len(queue)
    /\ LET r == Current(p) IN
       /\ request[r].done \/ request[r].cancelled
       /\ cancelledRequests' = [cancelledRequests EXCEPT ![p] =
              IF request[r].done THEN @ ELSE @ \cup {r}]
    /\ cursor' = [cursor EXCEPT ![p] = @ + 1]
    /\ UNCHANGED <<flags, signal, queue, mutex, request, activeRpc, pc, mine,
                   timedOutRequests, serving>>

\* An already done request is dropped, a cancelled one kept to be finished.
PruneCancelled(p) ==
    /\ At(p, "walk")
    /\ cursor[p] <= Len(queue)
    /\ LET r == Current(p) IN
       /\ request[r].done \/ request[r].cancelled
       /\ cancelledRequests' = [cancelledRequests EXCEPT ![p] =
              IF request[r].done THEN @ ELSE @ \cup {r}]
    /\ queue' = RemoveAt(queue, cursor[p])
    /\ UNCHANGED <<flags, signal, mutex, request, activeRpc, pc, mine, cursor,
                   timedOutRequests, serving>>

PruneTimedOut(p) ==
    /\ At(p, "walk")
    /\ cursor[p] <= Len(queue)
    /\ LET r == Current(p) IN
       /\ ~request[r].done
       /\ ~request[r].cancelled
       /\ Expired(p, r)
       /\ timedOutRequests' = [timedOutRequests EXCEPT ![p] = @ \cup {r}]
    /\ queue' = RemoveAt(queue, cursor[p])
    /\ UNCHANGED <<flags, signal, mutex, request, activeRpc, pc, mine, cursor,
                   cancelledRequests, serving>>

PruneKeep(p) ==
    /\ At(p, "walk")
    /\ cursor[p] <= Len(queue)
    /\ LET r == Current(p) IN
       /\ ~request[r].done
       /\ ~request[r].cancelled
       /\ ~Expired(p, r)
    /\ cursor' = [cursor EXCEPT ![p] = @ + 1]
    /\ UNCHANGED <<flags, signal, queue, mutex, request, activeRpc, pc, mine,
                   cancelledRequests, timedOutRequests, serving>>

PruneUnlock(p) ==
    /\ At(p, "walk")
    /\ cursor[p] > Len(queue)
    /\ mutex' = Unlocked
    /\ cursor' = [cursor EXCEPT ![p] = 1]
    /\ Goto(p, "finishPruned")
    /\ UNCHANGED <<flags, signal, queue, request, activeRpc, mine,
                   cancelledRequests, timedOutRequests, serving>>

\* The two loops after the critical section: cancelled requests first, then
\* the expired ones, whose status is chosen by what connected() says now.
FinishCancelled(p) ==
    /\ At(p, "finishPruned")
    /\ \E r \in cancelledRequests[p] :
        /\ cancelledRequests' = [cancelledRequests EXCEPT ![p] = @ \ {r}]
        /\ Finish(r, request[r].reply)
    /\ UNCHANGED <<flags, signal, queue, mutex, activeRpc, pc, mine, cursor,
                   timedOutRequests, serving>>

FinishTimedOut(p) ==
    /\ At(p, "finishPruned")
    /\ cancelledRequests[p] = {}
    /\ \E r \in timedOutRequests[p] :
        /\ timedOutRequests' = [timedOutRequests EXCEPT ![p] = @ \ {r}]
        /\ Finish(r, [EmptyReply EXCEPT !.status =
                          IF connected THEN "TIMEOUT" ELSE "NO_IMAGE"])
    /\ UNCHANGED <<flags, signal, queue, mutex, activeRpc, pc, mine, cursor,
                   cancelledRequests, serving>>

PruneReturn(p) ==
    /\ At(p, "finishPruned")
    /\ cancelledRequests[p] = {}
    /\ timedOutRequests[p] = {}
    /\ Goto(p, IF p = Qt THEN "check" ELSE "idle")
    /\ UNCHANGED <<flags, signal, queue, mutex, request, activeRpc, mine,
                   pruning, serving>>

-----------------------------------------------------------------------------
(* servicePendingImageRequests, a slot of the Qt thread.                   *)

ServiceBegin ==
    /\ At(Qt, "idle")
    /\ posted > 0
    /\ posted' = posted - 1
    /\ scheduled' = FALSE
    /\ Goto(Qt, "lock")
    /\ UNCHANGED <<flags, queue, mutex, request, activeRpc, mine, pruning,
                   serving>>

ServiceCheck ==
    /\ At(Qt, "check")
    /\ Goto(Qt, IF connected /\ dirty THEN "pop" ELSE "idle")
    /\ UNCHANGED <<flags, signal, queue, mutex, request, activeRpc, mine,
                   pruning, serving>>

ServicePop ==
    /\ At(Qt, "pop")
    /\ mutex = Unlocked
    /\ IF queue = << >>
       THEN /\ Goto(Qt, "idle")
            /\ UNCHANGED <<queue, mine>>
       ELSE /\ mine' = [mine EXCEPT ![Qt] = Head(queue)]
            /\ queue' = Tail(queue)
            /\ Goto(Qt, "popped")
    /\ UNCHANGED <<flags, signal, mutex, request, activeRpc, pruning, serving>>

\* A request that was cancelled after the prune is finished without an image.
ServiceSkip ==
    /\ At(Qt, "popped")
    /\ request[mine[Qt]].done \/ request[mine[Qt]].cancelled
    /\ IF request[mine[Qt]].done
       THEN UNCHANGED request
       ELSE Finish(mine[Qt], request[mine[Qt]].reply)
    /\ mine' = [mine EXCEPT ![Qt] = NoRequest]
    /\ Goto(Qt, "schedule")
    /\ UNCHANGED <<flags, signal, queue, mutex, activeRpc, pruning, serving>>

\* The serial is read before the image is rendered.
ServiceSerial ==
    /\ At(Qt, "popped")
    /\ ~request[mine[Qt]].done
    /\ ~request[mine[Qt]].cancelled
    /\ deliverSerial' = serial
    /\ Goto(Qt, "render")
    /\ UNCHANGED <<flags, signal, queue, mutex, request, activeRpc, mine,
                   pruning, image>>

ServiceRender ==
    /\ At(Qt, "render")
    /\ image' = painted
    /\ Goto(Qt, "reply")
    /\ UNCHANGED <<flags, signal, queue, mutex, request, activeRpc, mine,
                   pruning, deliverSerial>>

\* Mutant of ServiceReply: the serial is read when the reply is filled in.
ServiceReplyLate ==
    /\ At(Qt, "reply")
    /\ Finish(mine[Qt], [status |-> "VALID", serial |-> serial,
                         content |-> image])
    /\ mine' = [mine EXCEPT ![Qt] = NoRequest]
    /\ Goto(Qt, "compare")
    /\ UNCHANGED <<flags, signal, queue, mutex, activeRpc, pruning, serving>>

ServiceReply ==
    /\ At(Qt, "reply")
    /\ Finish(mine[Qt], [status |-> "VALID", serial |-> deliverSerial,
                         content |-> image])
    /\ mine' = [mine EXCEPT ![Qt] = NoRequest]
    /\ Goto(Qt, "compare")
    /\ UNCHANGED <<flags, signal, queue, mutex, activeRpc, pruning, serving>>

\* if( m_responseSerial.load() == deliverSerial ) ...
ServiceCompare ==
    /\ At(Qt, "compare")
    /\ Goto(Qt, IF serial = deliverSerial THEN "clear" ELSE "again")
    /\ UNCHANGED <<flags, signal, queue, mutex, request, activeRpc, mine,
                   pruning, serving>>

\* ... m_responseDirty.store( false ), a step of its own.
ServiceClear ==
    /\ At(Qt, "clear")
    /\ dirty' = FALSE
    /\ Goto(Qt, "again")
    /\ UNCHANGED <<connected, painted, serial, signal, queue, mutex, request,
                   activeRpc, mine, pruning, serving>>

\* Mutant of ServiceAgain: no further pass.
ServiceAgainNever ==
    /\ At(Qt, "again")
    /\ Goto(Qt, "idle")
    /\ UNCHANGED <<flags, signal, queue, mutex, request, activeRpc, mine,
                   pruning, serving>>

\* Schedule another pass if there is more to deliver; the queue length is read
\* under the mutex, after the flag.
ServiceAgain ==
    /\ At(Qt, "again")
    /\ IF dirty THEN mutex = Unlocked ELSE TRUE
    /\ Goto(Qt, IF dirty /\ queue # << >> THEN "schedule" ELSE "idle")
    /\ UNCHANGED <<flags, signal, queue, mutex, request, activeRpc, mine,
                   pruning, serving>>

-----------------------------------------------------------------------------
\* Steps a thread takes by itself once it has started something.
Locking(p) ==
    \/ Enqueue(p)
    \/ PruneLock(p)
    \/ p = Qt /\ (ServicePop \/ ServiceAgain)

Running(p) ==
    \/ MarkSerial(p)
    \/ MarkDirty(p)
    \/ Schedule(p)
    \/ Emit(p)
    \/ PruneCancelled(p)
    \/ PruneTimedOut(p)
    \/ PruneKeep(p)
    \/ PruneUnlock(p)
    \/ FinishCancelled(p)
    \/ FinishTimedOut(p)
    \/ PruneReturn(p)

Service ==
    \/ OnConnect
    \/ ServiceBegin
    \/ ServiceCheck
    \/ ServiceSkip
    \/ ServiceSerial
    \/ ServiceRender
    \/ ServiceReply
    \/ ServiceCompare
    \/ ServiceClear

Next ==
    \/ \E h \in Handlers, r \in Requests : ImagePlease(h, r)
    \/ \E r \in Requests : OnCancel(r) \/ OnDone(r) \/ Age(r)
    \/ \E p \in Procs : Change(p) \/ Locking(p) \/ Running(p)
    \/ UpdateUnchanged
    \/ Tick
    \/ Service

Spec == Init /\ [][Next]_vars

\* Threads are scheduled and the Qt event loop runs; the cleanup loop wakes up
\* again and again; m_pendingImageMutex is held for short moments, so whoever
\* waits for it gets it; time passes.  Nobody has to call, cancel or change.
Fairness ==
    /\ \A p \in Procs : WF_vars(Running(p)) /\ SF_vars(Locking(p))
    /\ WF_vars(Service)
    /\ WF_vars(Tick)
    /\ \A r \in Requests : WF_vars(Age(r))

FairSpec == Spec /\ Fairness

-----------------------------------------------------------------------------
(* Properties.                                                             *)

TypeOK ==
    /\ connected \in BOOLEAN
    /\ painted \in Nat
    /\ serial \in Nat
    /\ dirty \in BOOLEAN
    /\ scheduled \in BOOLEAN
    /\ posted \in Nat
    /\ queue \in Seq(Requests)
    /\ mutex \in Procs \cup {Unlocked}
    /\ request \in [Requests -> Request]
    /\ activeRpc \in Nat
    /\ pc \in [Procs -> Labels]
    /\ mine \in [Procs -> Requests \cup {NoRequest}]
    /\ cursor \in [Procs -> Nat \ {0}]
    /\ cancelledRequests \in [Procs -> SUBSET Requests]
    /\ timedOutRequests \in [Procs -> SUBSET Requests]
    /\ deliverSerial \in Nat
    /\ image \in Nat

\* The places that still refer to a request: a position of the queue, the
\* local variable of a thread, a local list of a prune.
Owners(r) ==
    {<<"queue", i>> : i \in {j \in DOMAIN queue : queue[j] = r}}
    \cup {<<"mine", p>> : p \in {q \in Procs : mine[q] = r}}
    \cup {<<"cancelled", p>> : p \in {q \in Procs : r \in cancelledRequests[q]}}
    \cup {<<"timedOut", p>> : p \in {q \in Procs : r \in timedOutRequests[q]}}

\* An ImagePlease call that has no answer yet is owned by exactly one place,
\* and an answered one by none: no interleaving of the handlers, the service
\* and the two prunes loses a call (its RPC would never complete and
\* m_activeRpc never return to 0) or has two threads fill in its reply
\* (rtimvServerThread.cpp:404-558).
OwnedOnce ==
    \A r \in Requests :
        Cardinality(Owners(r)) = IF request[r].finished THEN 0 ELSE 1

\* The reactors that exist, and the threads that changed the response and have
\* not yet advanced its serial.
Living == {r \in Requests : ~request[r].done}
Marking == {p \in Procs : At(p, "mark")}

\* The Qt thread is in a service pass and will look at the flag and the queue,
\* or will schedule another pass, before it returns.
ServiceLabels ==
    {"lock", "walk", "finishPruned", "check", "pop", "popped", "render",
     "reply", "compare", "clear", "again"}

Awake ==
    \/ posted > 0
    \/ pc[Qt] \in ServiceLabels
    \/ \E p \in Procs : pc[p] \in {"schedule", "emit"}

\* No lost wake-up: while a response is ready and a call waits for one, a
\* service pass is running or on its way, whatever the order in which calls
\* arrive, changes are marked and passes give up because they saw no work.
NoLostWakeup == connected /\ dirty /\ queue # << >> => Awake

\* A VALID reply never shows an older image than its response_serial promises,
\* although the image is recolored by other threads between the read of the
\* serial, the rendering and the reply (rtimvServerThread.cpp:528-545).
RepliesAreFresh ==
    \A r \in Requests :
        request[r].reply.status = "VALID" =>
            /\ request[r].reply.content >= request[r].reply.serial
            /\ request[r].reply.serial <= serial

\* Every ImagePlease call is answered: with an image, or at the latest by the
\* first pass of the cleanup loop after its timeout
\* (rtimvServerThread.cpp:435-440, rtimvServer.cpp:545).
CallsAreAnswered ==
    \A r \in Requests : ~request[r].finished ~> request[r].finished

\* The calls that wait for an answer, and the abstract service they implement.
Waiting == {r \in Requests : ~request[r].finished}
Answer == [r \in Requests |-> request[r].reply]

AbstractService == INSTANCE ImagePleaseService WITH
    Calls <- Requests,
    pending <- Waiting,
    answer <- Answer

\* The stream implements the service ImagePlease promises: each call is
\* answered once, by one step, and the serial and the image of a VALID answer
\* are consistent with what was rendered (rtimvServerThread.cpp:359-558).
ImplementsService == AbstractService!SSpec

\* What the comment on m_responseDirty says, rtimvServerThread.hpp:63: "True
\* when a newer response than the last delivered reply is ready to send."
\* Threads inside markResponseDirty and a service pass under way are excused.
NewerResponseIsDirty ==
    /\ connected
    /\ serial > deliverSerial
    /\ \A p \in Procs : ~At(p, "setDirty")
    /\ pc[Qt] \notin ServiceLabels
    => dirty
=============================================================================
