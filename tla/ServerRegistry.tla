--------------------------- MODULE ServerRegistry ---------------------------
(***************************************************************************)
(* The table of clients of rtimvServer (src/src/server/rtimvServer.cpp):   *)
(* how the rtimvServerThread of a client is made, put to sleep, woken,     *)
(* disconnected and deleted, while RPC handlers use it.                    *)
(*                                                                         *)
(* Three kinds of thread share the table:                                  *)
(*   - the gRPC threads (Handlers) look a client up under a shared lock of *)
(*     m_clientMutex and use its thread after releasing it: the setters    *)
(*     recolor, and post servicePending to it;                             *)
(*   - the cleanup loop of startServer examines the table under a shared   *)
(*     lock, releases it, and erases under an exclusive one;               *)
(*   - the main Qt thread runs doConfigure, and every slot and the         *)
(*     deletion of the rtimvServerThread objects, which live in it, in the *)
(*     order in which they were posted.                                    *)
(* A section under the shared lock reads atomics only and is one step.     *)
(*                                                                         *)
(* The loop decides that a stream goes and releases the lock before it     *)
(* erases it, and does not count its calls again: a handler that looks it  *)
(* up in between goes on with an object that may be deleted under it.      *)
(* What a program does that uses a deleted object is not defined: here it  *)
(* ends, or nothing comes of it.                                           *)
(***************************************************************************)
EXTENDS Naturals, Sequences, FiniteSets

CONSTANTS
    Peers,       \* the keys of m_clients
    Threads,     \* the rtimvServerThread objects, reused once deleted
    NoThread,    \* no thread
    Handlers,    \* the gRPC threads
    MaxCalls,    \* bound on the ImagePlease calls pending at a thread
    MaxEvents    \* bound on the events in the main Qt queue

ASSUME ConstantsAssumption ==
    /\ NoThread \notin Threads
    /\ MaxCalls \in Nat \ {0}
    /\ MaxEvents \in Nat \ {0}

Ages == {"recent", "sleepy", "stale"}

\* Not made yet, or deleted; in use; chosen by the cleanup loop; taken out of the
\* table; handed to deleteLater.
Lives == {"absent", "live", "marked", "erased", "condemned"}

VARIABLES
    clients,     \* m_clients
    life,        \* how far each thread is in its life
    configured,  \* m_configured: "no" (0), "yes" (1) or "failed" (-1)
    asleep,      \* m_asleep; the image timer runs when it is false
    scheduled,   \* m_servicePendingScheduled: servicePending is in the queue of
                 \* the main thread, at whatever place
    age,         \* sinceLastRequest(): past client.sleep, past client.disconnect
    pending,     \* ImagePlease calls of a thread without an answer
    events,      \* the main Qt event queue, without servicePending
    building,    \* the thread doConfigure is at work on
    using,       \* the thread a handler uses, after PREPARE_RPC_REACTOR
    waiting,     \* the peer for which a handler waits in Configure
    seen,        \* seenClient of that handler
    late,        \* the threads a call found that were to go already
    misused      \* the deleted thread that the program ended on

threads == <<life, configured, asleep, age, pending, scheduled>>
main    == <<events, building>>
calls   == <<using, waiting, seen>>
history == <<late, misused>>
vars == <<clients, threads, main, calls, history>>

Nobody == "nobody"

Init ==
    /\ clients = [p \in Peers |-> NoThread]
    /\ life = [t \in Threads |-> "absent"]
    /\ configured = [t \in Threads |-> "no"]
    /\ asleep = [t \in Threads |-> FALSE]
    /\ age = [t \in Threads |-> "recent"]
    /\ pending = [t \in Threads |-> 0]
    /\ scheduled = [t \in Threads |-> FALSE]
    /\ events = << >>
    /\ building = NoThread
    /\ using = [h \in Handlers |-> NoThread]
    /\ waiting = [h \in Handlers |-> Nobody]
    /\ seen = [h \in Handlers |-> FALSE]
    /\ late = {}
    /\ misused = NoThread

Idle(h) == using[h] = NoThread /\ waiting[h] = Nobody

\* m_activeRpc > 0: the handlers and the ImagePlease reactors of a thread.
InUse(t) == pending[t] > 0 \/ \E h \in Handlers : using[h] = t

Post(event) ==
    /\ Len(events) < MaxEvents
    /\ events' = Append(events, event)

-----------------------------------------------------------------------------
(* Configuring a client.                                                   *)

Exists(t) == life[t] # "absent"

\* An object that can be made: there is none, and no call refers to an old one.
Unused(t) == ~Exists(t) /\ ~InUse(t)

\* Objects left for the configure events in the queue (a bound of the model).
ThreadsLeft ==
    Cardinality({t \in Threads : Unused(t)})
        > Len(SelectSeq(events, LAMBDA e : e[1] = "configure"))

\* The head of Configure: a known peer is answered at once (result -2).
Configure(h, p) ==
    /\ Idle(h)
    /\ clients[p] = NoThread
    /\ ThreadsLeft
    /\ Post(<<"configure", p>>)
    /\ waiting' = [waiting EXCEPT ![h] = p]
    /\ seen' = [seen EXCEPT ![h] = FALSE]
    /\ UNCHANGED <<clients, threads, building, using, history>>

\* Mutant: the loop does not notice that the thread disappeared.
ConfigurePollMissesErase(h) ==
    /\ waiting[h] # Nobody
    /\ LET t == clients[waiting[h]]
           over == t # NoThread /\ configured[t] # "no"
       IN  /\ waiting' = [waiting EXCEPT ![h] = IF over THEN Nobody ELSE @]
           /\ seen' = [seen EXCEPT ![h] = ~over /\ (@ \/ t # NoThread)]
    /\ UNCHANGED <<clients, threads, main, using, history>>

\* One turn of the loop of Configure.
ConfigurePoll(h) ==
    /\ waiting[h] # Nobody
    /\ LET t == clients[waiting[h]]
           over == IF t = NoThread THEN seen[h] ELSE configured[t] # "no"
       IN  /\ waiting' = [waiting EXCEPT ![h] = IF over THEN Nobody ELSE @]
           /\ seen' = [seen EXCEPT ![h] = ~over /\ (@ \/ t # NoThread)]
    /\ UNCHANGED <<clients, threads, main, using, history>>

\* Mutant: the thread is made before the table is looked at again.
DoConfigureUnchecked ==
    /\ building = NoThread
    /\ events # << >>
    /\ Head(events)[1] = "configure"
    /\ events' = Tail(events)
    /\ \E t \in Threads :
        /\ Unused(t)
        /\ life' = [life EXCEPT ![t] = "live"]
        /\ clients' = [clients EXCEPT ![Head(events)[2]] = IF @ = NoThread THEN t ELSE @]
        /\ building' = clients'[Head(events)[2]]
    /\ UNCHANGED <<configured, asleep, age, pending, scheduled, calls, history>>

\* doConfigure makes and inserts a thread, under the exclusive lock, unless the
\* peer got one since its Configure looked.
DoConfigure ==
    /\ building = NoThread
    /\ events # << >>
    /\ Head(events)[1] = "configure"
    /\ events' = Tail(events)
    /\ LET p == Head(events)[2] IN
       IF clients[p] # NoThread
       THEN UNCHANGED <<clients, threads, building, late>>
       ELSE \E t \in Threads :
              /\ Unused(t)
              /\ life' = [life EXCEPT ![t] = "live"]
              /\ clients' = [clients EXCEPT ![p] = t]
              /\ building' = t
              /\ configured' = [configured EXCEPT ![t] = "no"]
              /\ asleep' = [asleep EXCEPT ![t] = FALSE]
              /\ age' = [age EXCEPT ![t] = "recent"]
              /\ scheduled' = [scheduled EXCEPT ![t] = FALSE]
              /\ late' = late \ {t}
              /\ UNCHANGED pending
    /\ UNCHANGED <<calls, misused>>

\* ... and configures it; with success the thread starts and counts as just
\* asked.
ThreadConfigured ==
    /\ building # NoThread
    /\ building' = NoThread
    /\ \E result \in {"yes", "failed"} :
          /\ configured' = [configured EXCEPT ![building] = result]
          /\ age' = IF result = "yes" THEN [age EXCEPT ![building] = "recent"] ELSE age
    /\ UNCHANGED <<clients, life, asleep, pending, scheduled, events, calls, history>>

-----------------------------------------------------------------------------
(* Calls.                                                                  *)

\* Mutant: a call does not wake its stream.
TouchOnly(t) ==
    /\ age' = [age EXCEPT ![t] = "recent"]
    /\ UNCHANGED events

\* What a call does first to the thread it found: lastRequest( -1 ), and
\* emit_awaken if asleep.
Touch(t) ==
    /\ age' = [age EXCEPT ![t] = "recent"]
    /\ IF asleep[t] THEN Post(<<"awaken", t>>) ELSE UNCHANGED events

\* The lookup, under the shared lock.
Found(t) ==
    /\ Touch(t)
    /\ late' = IF life[t] = "marked" THEN late \cup {t} ELSE late

\* PREPARE_RPC_REACTOR of any unary call but Ping, ImagePlease and Configure.
BeginCall(h, p) ==
    /\ Idle(h)
    /\ clients[p] # NoThread
    /\ Found(clients[p])
    /\ using' = [using EXCEPT ![h] = clients[p]]
    /\ UNCHANGED <<clients, life, configured, asleep, pending, scheduled, building,
                   waiting, seen, misused>>

\* A deleted object is used: the program ends, or the memory is as it was.
Misuse(t) == misused' \in {misused, t}

\* The body of the handler, without the lock: a setter recolors in the end, which
\* marks the response dirty and schedules the service of the pending calls.
UseThread(h) ==
    /\ using[h] # NoThread
    /\ LET t == using[h] IN
       IF Exists(t) THEN scheduled' = [scheduled EXCEPT ![t] = TRUE] /\ UNCHANGED misused
       ELSE Misuse(t) /\ UNCHANGED scheduled
    /\ UNCHANGED <<clients, life, configured, asleep, age, pending, main, calls, late>>

\* The handler returns: rpcActivityGuard counts it off at the object.
EndCall(h) ==
    /\ using[h] # NoThread
    /\ using' = [using EXCEPT ![h] = NoThread]
    /\ IF Exists(using[h]) THEN UNCHANGED misused ELSE Misuse(using[h])
    /\ UNCHANGED <<clients, threads, main, waiting, seen, late>>

\* ImagePlease queues its call and schedules the service under the shared lock;
\* a stream without an image answers at once.
ImagePlease(p) ==
    /\ clients[p] # NoThread
    /\ pending[clients[p]] < MaxCalls
    /\ Found(clients[p])
    /\ \/ /\ pending' = [pending EXCEPT ![clients[p]] = @ + 1]
          /\ scheduled' = [scheduled EXCEPT ![clients[p]] = TRUE]
       \/ UNCHANGED <<pending, scheduled>>
    /\ UNCHANGED <<clients, life, configured, asleep, building, calls, misused>>

\* The image timer has a new image, or the statistics are there.
ImageReady(t) ==
    /\ Exists(t) /\ building = NoThread /\ ~asleep[t]
    /\ scheduled' = [scheduled EXCEPT ![t] = TRUE]
    /\ UNCHANGED <<clients, life, configured, asleep, age, pending, main, calls, history>>

\* A service pass answers a call, which counts as a request, or has none to
\* answer, or nothing new (module ServerThread).
Service(t) ==
    /\ Exists(t) /\ building = NoThread /\ scheduled[t]
    /\ \E again \in BOOLEAN : scheduled' = [scheduled EXCEPT ![t] = again]
    /\ \/ /\ pending[t] > 0
          /\ pending' = [pending EXCEPT ![t] = @ - 1]
          /\ age' = [age EXCEPT ![t] = "recent"]
       \/ UNCHANGED <<pending, age>>
    /\ UNCHANGED <<clients, life, configured, asleep, main, calls, history>>

\* The cleanup loop prunes a call that waits too long.
Pruned(t) ==
    /\ \E p \in Peers : clients[p] = t
    /\ pending[t] > 0
    /\ pending' = [pending EXCEPT ![t] = @ - 1]
    /\ UNCHANGED <<clients, life, configured, asleep, age, scheduled, main, calls, history>>

\* A call of a deleted thread ends with its deadline at the client; when it was
\* answered before, OnDone counts it off at the object.
Orphaned(t) ==
    /\ ~Exists(t) /\ pending[t] > 0
    /\ pending' = [pending EXCEPT ![t] = @ - 1]
    /\ Misuse(t)
    /\ UNCHANGED <<clients, life, configured, asleep, age, scheduled, main, calls, late>>

-----------------------------------------------------------------------------
(* The cleanup loop, and the slots it triggers.                            *)

\* The clock.  A handler in Configure looks every 50 ms: it has seen a thread
\* before that one is old.
Elapse(t) ==
    /\ life[t] = "live"
    /\ age[t] # "stale"
    /\ \A h \in Handlers : waiting[h] # Nobody /\ clients[waiting[h]] = t => seen[h]
    /\ age' = [age EXCEPT ![t] = IF @ = "recent" THEN "sleepy" ELSE "stale"]
    /\ UNCHANGED <<clients, life, configured, asleep, pending, scheduled, main, calls,
                   history>>

Examined == \E t \in Threads : life[t] \in {"marked", "erased"}

Staying == <<configured, asleep, age, pending, scheduled>>

\* Mutant: the calls are not counted.
MarkStaleAnyway(t) ==
    /\ ~Examined
    /\ \E p \in Peers : clients[p] = t
    /\ age[t] = "stale"
    /\ life' = [life EXCEPT ![t] = "marked"]
    /\ UNCHANGED <<clients, Staying, main, calls, history>>

\* A thread without requests for client.disconnect seconds is to go, unless a
\* call uses it: so decides the loop under the shared lock, and releases it.
MarkStale(t) ==
    /\ ~Examined
    /\ \E p \in Peers : clients[p] = t
    /\ age[t] = "stale"
    /\ ~InUse(t)
    /\ life' = [life EXCEPT ![t] = "marked"]
    /\ UNCHANGED <<clients, Staying, main, calls, history>>

\* Under the exclusive lock, looking at nothing again.
Erase(t) ==
    /\ life[t] = "marked"
    /\ life' = [life EXCEPT ![t] = "erased"]
    /\ clients' = [p \in Peers |-> IF clients[p] = t THEN NoThread ELSE clients[p]]
    /\ UNCHANGED <<Staying, main, calls, history>>

\* quit, wait, deleteLater.
Condemn(t) ==
    /\ life[t] = "erased"
    /\ life' = [life EXCEPT ![t] = "condemned"]
    /\ Post(<<"delete", t>>)
    /\ UNCHANGED <<clients, Staying, building, calls, history>>

\* A thread without requests for client.sleep seconds is sent to sleep.
GoToSleep(t) ==
    /\ ~Examined
    /\ \E p \in Peers : clients[p] = t
    /\ age[t] = "sleepy"
    /\ pending[t] = 0
    /\ ~asleep[t]
    /\ Post(<<"sleep", t>>)
    /\ UNCHANGED <<clients, threads, building, calls, history>>

\* The slots sleep and wakeup.
Slot ==
    /\ building = NoThread
    /\ events # << >>
    /\ Head(events)[1] \in {"sleep", "awaken"}
    /\ asleep' = [asleep EXCEPT ![Head(events)[2]] = (Head(events)[1] = "sleep")]
    /\ events' = Tail(events)
    /\ UNCHANGED <<clients, life, configured, age, pending, scheduled, building, calls,
                   history>>

\* The deferred deletion.  Qt drops what is still posted to the object, which is
\* servicePending at most (UsedWhileThere).  Without the object its members mean
\* nothing: they are as those of the next one.
Delete ==
    /\ building = NoThread
    /\ events # << >>
    /\ Head(events)[1] = "delete"
    /\ events' = Tail(events)
    /\ LET t == Head(events)[2] IN
          /\ life' = [life EXCEPT ![t] = "absent"]
          /\ configured' = [configured EXCEPT ![t] = "no"]
          /\ asleep' = [asleep EXCEPT ![t] = FALSE]
          /\ age' = [age EXCEPT ![t] = "recent"]
          /\ scheduled' = [scheduled EXCEPT ![t] = FALSE]
          /\ late' = IF InUse(t) THEN late ELSE late \ {t}
    /\ UNCHANGED <<clients, pending, building, calls, misused>>

-----------------------------------------------------------------------------
Handler(h) ==
    \/ \E p \in Peers : Configure(h, p) \/ BeginCall(h, p)
    \/ ConfigurePoll(h)
    \/ UseThread(h)
    \/ EndCall(h)

MainThread == DoConfigure \/ ThreadConfigured \/ Slot \/ Delete

Cleanup(t) == MarkStale(t) \/ Erase(t) \/ Condemn(t) \/ GoToSleep(t) \/ Pruned(t)

\* The program has not ended.
Runs == misused = NoThread

Step ==
    \/ \E h \in Handlers : Handler(h)
    \/ \E p \in Peers : ImagePlease(p)
    \/ \E t \in Threads :
          ImageReady(t) \/ Service(t) \/ Orphaned(t) \/ Elapse(t) \/ Cleanup(t)
    \/ MainThread

Next == (Runs /\ Step) \/ (~Runs /\ UNCHANGED vars)

Spec == Init /\ [][Next]_vars

\* While the program runs: the main event loop runs, and the threads of the calls in
\* Configure; the cleanup loop prunes calls, and a client that has an answer asks
\* again (module ClientConnection).  Nobody has to configure, handlers and the
\* cleanup loop may stop anywhere else, and time may stand still.
Fairness ==
    /\ WF_vars(Runs /\ MainThread)
    /\ \A h \in Handlers : SF_vars(Runs /\ ConfigurePoll(h))
    /\ \A t \in Threads : WF_vars(Runs /\ Pruned(t))
    /\ \A p \in Peers : SF_vars(Runs /\ ImagePlease(p))

FairSpec == Spec /\ Fairness

-----------------------------------------------------------------------------
(* Properties.                                                             *)

Events == ({"configure"} \X Peers) \cup ({"sleep", "awaken", "delete"} \X Threads)

TypeOK ==
    /\ clients \in [Peers -> Threads \cup {NoThread}]
    /\ life \in [Threads -> Lives]
    /\ configured \in [Threads -> {"no", "yes", "failed"}]
    /\ asleep \in [Threads -> BOOLEAN]
    /\ age \in [Threads -> Ages]
    /\ pending \in [Threads -> Nat]
    /\ scheduled \in [Threads -> BOOLEAN]
    /\ events \in Seq(Events)
    /\ building \in Threads \cup {NoThread}
    /\ using \in [Handlers -> Threads \cup {NoThread}]
    /\ waiting \in [Handlers -> Peers \cup {Nobody}]
    /\ seen \in [Handlers -> BOOLEAN]
    /\ late \subseteq Threads
    /\ misused \in Threads \cup {NoThread}

\* The table holds exactly the threads in use, each for one peer: Configure
\* calls of one peer that overlap (a client that gave up waiting and asked
\* again) make one thread and leak none, and a lookup never finds a thread that
\* is being deleted (rtimvServer.cpp:562-591, 627-703, 1505-1530).
TableIsExact ==
    /\ \A t \in Threads :
        life[t] \in {"live", "marked"} <=> \E p \in Peers : clients[p] = t
    /\ \A p, q \in Peers :
        clients[p] = clients[q] /\ clients[p] # NoThread => p = q

\* The deletion of an object is the last of its signals that were posted under the
\* lock, and comes once (rtimvServer.cpp:546-612).
DeletionIsLast ==
    \A i \in DOMAIN events :
        events[i][1] # "configure" =>
            /\ life[events[i][2]] # "absent"
            /\ \A j \in 1 .. i - 1 :
                events[j][1] = "delete" => events[j][2] # events[i][2]

\* A call does not meet an object that is gone, although handlers go on with one
\* without the lock while the cleanup loop decides that it goes and the main thread
\* deletes it; but for a call that found it after the decision, which is not made
\* again when the table is locked to erase it (rtimvServer.cpp:226-282, 546-592).
UsedWhileThere ==
    /\ misused # NoThread => misused \in late
    /\ DeletionIsLast

\* Whatever happens to the thread of its peer, a Configure call has something that
\* will end it: its event is still in the queue, the thread has its result or is
\* being configured, or the thread has gone and the loop knows that there was one
\* (rtimvServer.cpp:651-697, 1505-1560).
ConfigureIsServed ==
    \A h \in Handlers : waiting[h] # Nobody =>
        LET p == waiting[h]
            t == clients[p]
        IN IF t = NoThread
           THEN seen[h] \/ \E i \in DOMAIN events : events[i] = <<"configure", p>>
           ELSE configured[t] # "no" \/ building = t

\* As long as the program runs, every Configure call returns, also when its peer
\* already got a thread, when configuring fails, or when the thread disappears
\* (rtimvServer.cpp:651-697).
ConfigureReturns ==
    \A h \in Handlers : waiting[h] # Nobody ~> waiting[h] = Nobody \/ ~Runs

\* A stream that was sent to sleep while its client was asking is woken again:
\* gotosleep and awaken may cross, and the sleep that comes last does not last
\* (rtimvServer.cpp:274-277, 600-606, 1043-1046; rtimvServerThread.cpp:685-701).
StreamsWake ==
    \A t \in Threads : asleep[t] ~> ~asleep[t] \/ life[t] # "live" \/ ~Runs

=============================================================================
