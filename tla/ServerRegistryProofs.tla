------------------------ MODULE ServerRegistryProofs ------------------------
(***************************************************************************)
(* Proofs about ServerRegistry, for any peers, threads and handlers: the   *)
(* table holds exactly the threads in use, each for one peer; the deletion *)
(* of a thread is the last of its events, and only calls that found it     *)
(* after its end was decided can meet it deleted; and a Configure call     *)
(* never waits for what nobody is going to do.                             *)
(***************************************************************************)
EXTENDS ServerRegistry, SequenceTheorems, TLAPS

\* Only a condemned thread has a deletion in the queue.
CondemnedOnly ==
    \A i \in DOMAIN events :
        events[i][1] = "delete" => life[events[i][2]] = "condemned"

\* A thread that calls refer to is in use, or was found when it was to go.
FoundInTime ==
    \A t \in Threads : InUse(t) => life[t] = "live" \/ t \in late

Inv ==
    /\ TypeOK
    /\ TableIsExact
    /\ CondemnedOnly
    /\ FoundInTime
    /\ UsedWhileThere

\* An event is a pair of a kind and the peer or the thread it is about.
LEMMA EventKinds ==
    ASSUME NEW e \in Events
    PROVE  \/ e[1] = "configure" /\ e[2] \in Peers
           \/ e[1] \in {"sleep", "awaken", "delete"} /\ e[2] \in Threads
  BY DEF Events

\* Posting keeps the queue well typed.
LEMMA PostType ==
    ASSUME events \in Seq(Events), NEW e \in Events, Post(e)
    PROVE  /\ events' \in Seq(Events)
           /\ Len(events') = Len(events) + 1
           /\ events'[Len(events')] = e
           /\ \A i \in 1 .. Len(events) : events'[i] = events[i]
  BY DEF Post

\* Taking an event from the queue.
LEMMA TakeType ==
    ASSUME events \in Seq(Events), events # << >>
    PROVE  /\ Head(events) = events[1]
           /\ Head(events) \in Events
           /\ Tail(events) \in Seq(Events)
           /\ Len(Tail(events)) = Len(events) - 1
           /\ \A i \in 1 .. Len(events) - 1 : Tail(events)[i] = events[i + 1]
  OBVIOUS

\* The table is empty and nothing is posted.
LEMMA InitInv == Init => Inv
<1> SUFFICES ASSUME Init PROVE Inv
  OBVIOUS
<1>1. TypeOK
  BY ConstantsAssumption DEF Init, TypeOK, Lives, Ages
<1>2. TableIsExact
  BY ConstantsAssumption DEF Init, TableIsExact
<1>3. CondemnedOnly /\ DeletionIsLast
  BY DEF Init, CondemnedOnly, DeletionIsLast
<1>4. FoundInTime /\ UsedWhileThere
  BY <1>3, ConstantsAssumption DEF Init, FoundInTime, InUse, UsedWhileThere
<1>5. QED
  BY <1>1, <1>2, <1>3, <1>4 DEF Inv

\* Waking a stream keeps the types.
LEMMA TouchType ==
    ASSUME TypeOK, NEW t \in Threads, Touch(t)
    PROVE  age' \in [Threads -> Ages] /\ events' \in Seq(Events)
<1>1. <<"awaken", t>> \in Events
  BY DEF Events
<1>2. age' \in [Threads -> Ages]
  BY DEF Touch, TypeOK, Ages
<1>3. CASE asleep[t]
  BY <1>1, <1>2, <1>3, PostType DEF Touch, TypeOK
<1>4. CASE ~asleep[t]
  BY <1>2, <1>4 DEF Touch, TypeOK
<1>5. QED
  BY <1>3, <1>4

\* So does the lookup.
LEMMA FoundType ==
    ASSUME TypeOK, NEW t \in Threads, Found(t)
    PROVE  age' \in [Threads -> Ages] /\ events' \in Seq(Events) /\ late' \subseteq Threads
  BY TouchType DEF Found, TypeOK

\* Every step keeps the types.
LEMMA TypeStep ==
    ASSUME TypeOK, [Next]_vars
    PROVE  TypeOK'
<1> USE ConstantsAssumption
<1>1. ASSUME NEW h \in Handlers, NEW p \in Peers, Configure(h, p)
      PROVE  TypeOK'
  <2>1. <<"configure", p>> \in Events
    BY DEF Events
  <2>2. events' \in Seq(Events)
    BY <1>1, <2>1, PostType DEF Configure, TypeOK
  <2>3. QED
    BY <1>1, <2>2 DEF Configure, TypeOK, threads, history
<1>2. ASSUME NEW h \in Handlers, ConfigurePoll(h) PROVE TypeOK'
  <2>1. /\ waiting' \in [Handlers -> Peers \cup {Nobody}]
        /\ seen' \in [Handlers -> BOOLEAN]
    BY <1>2 DEF ConfigurePoll, TypeOK
  <2>2. QED
    BY <1>2, <2>1 DEF ConfigurePoll, TypeOK, threads, main, history
<1>3. CASE DoConfigure
  <2>1. events' \in Seq(Events)
    BY <1>3, TakeType DEF DoConfigure, TypeOK
  <2>2. CASE clients[Head(events)[2]] # NoThread
    BY <1>3, <2>1, <2>2 DEF DoConfigure, TypeOK, threads, calls
  <2>3. CASE clients[Head(events)[2]] = NoThread
    <3>1. PICK t \in Threads :
            /\ life' = [life EXCEPT ![t] = "live"]
            /\ clients' = [clients EXCEPT ![Head(events)[2]] = t]
            /\ building' = t
            /\ configured' = [configured EXCEPT ![t] = "no"]
            /\ asleep' = [asleep EXCEPT ![t] = FALSE]
            /\ age' = [age EXCEPT ![t] = "recent"]
            /\ scheduled' = [scheduled EXCEPT ![t] = FALSE]
            /\ late' = late \ {t}
            /\ UNCHANGED pending
      BY <1>3, <2>3 DEF DoConfigure
    <3>2. QED
      BY <1>3, <2>1, <3>1 DEF DoConfigure, TypeOK, calls, Lives, Ages
  <2>4. QED
    BY <2>2, <2>3
<1>4. CASE ThreadConfigured
  BY <1>4 DEF ThreadConfigured, TypeOK, calls, history, Ages
<1>5. ASSUME NEW h \in Handlers, NEW p \in Peers, BeginCall(h, p)
      PROVE  TypeOK'
  <2>1. clients[p] \in Threads
    BY <1>5 DEF BeginCall, TypeOK
  <2>2. age' \in [Threads -> Ages] /\ events' \in Seq(Events) /\ late' \subseteq Threads
    BY <1>5, <2>1, FoundType DEF BeginCall
  <2>3. QED
    BY <1>5, <2>1, <2>2 DEF BeginCall, TypeOK
<1>6. ASSUME NEW h \in Handlers, UseThread(h) \/ EndCall(h) PROVE TypeOK'
  <2>1. using[h] \in Threads
    BY <1>6 DEF UseThread, EndCall, TypeOK
  <2>2. misused' \in Threads \cup {NoThread}
    BY <1>6, <2>1 DEF UseThread, EndCall, Misuse, TypeOK
  <2>3. scheduled' \in [Threads -> BOOLEAN]
    BY <1>6, <2>1 DEF UseThread, EndCall, TypeOK, threads
  <2>4. QED
    BY <1>6, <2>2, <2>3 DEF UseThread, EndCall, TypeOK, threads, main, calls
<1>7. ASSUME NEW p \in Peers, ImagePlease(p) PROVE TypeOK'
  <2>1. clients[p] \in Threads
    BY <1>7 DEF ImagePlease, TypeOK
  <2>2. age' \in [Threads -> Ages] /\ events' \in Seq(Events) /\ late' \subseteq Threads
    BY <1>7, <2>1, FoundType DEF ImagePlease
  <2>3. /\ pending' \in [Threads -> Nat]
        /\ scheduled' \in [Threads -> BOOLEAN]
    <3>1. CASE UNCHANGED <<pending, scheduled>>
      BY <3>1 DEF TypeOK
    <3>2. CASE /\ pending' = [pending EXCEPT ![clients[p]] = @ + 1]
               /\ scheduled' = [scheduled EXCEPT ![clients[p]] = TRUE]
      BY <2>1, <3>2 DEF TypeOK
    <3>3. QED
      BY <1>7, <3>1, <3>2 DEF ImagePlease
  <2>4. UNCHANGED <<clients, life, configured, asleep, building, using, waiting, seen,
                    misused>>
    BY <1>7 DEF ImagePlease, calls
  <2>5. QED
    BY <2>2, <2>3, <2>4 DEF TypeOK
<1>8. ASSUME NEW t \in Threads, ImageReady(t) \/ Service(t) \/ Pruned(t) \/ Orphaned(t)
      PROVE  TypeOK'
  <2>1. pending' \in [Threads -> Nat]
    BY <1>8 DEF ImageReady, Service, Pruned, Orphaned, TypeOK
  <2>2. age' \in [Threads -> Ages]
    BY <1>8 DEF ImageReady, Service, Pruned, Orphaned, TypeOK, Ages
  <2>3. scheduled' \in [Threads -> BOOLEAN]
    BY <1>8 DEF ImageReady, Service, Pruned, Orphaned, TypeOK
  <2>4. misused' \in Threads \cup {NoThread}
    BY <1>8 DEF ImageReady, Service, Pruned, Orphaned, Misuse, TypeOK, history
  <2>5. QED
    BY <1>8, <2>1, <2>2, <2>3, <2>4
       DEF ImageReady, Service, Pruned, Orphaned, TypeOK, main, calls, history
<1>9. ASSUME NEW t \in Threads, Elapse(t) PROVE TypeOK'
  BY <1>9 DEF Elapse, TypeOK, main, calls, history, Ages
<1>10. ASSUME NEW t \in Threads, MarkStale(t) PROVE TypeOK'
  BY <1>10 DEF MarkStale, TypeOK, Staying, main, calls, history, Lives
<1>11. ASSUME NEW t \in Threads, Erase(t) PROVE TypeOK'
  BY <1>11 DEF Erase, TypeOK, Staying, main, calls, history, Lives
<1>12. ASSUME NEW t \in Threads, Condemn(t) PROVE TypeOK'
  <2>1. <<"delete", t>> \in Events
    BY DEF Events
  <2>2. events' \in Seq(Events)
    BY <1>12, <2>1, PostType DEF Condemn, TypeOK
  <2>3. QED
    BY <1>12, <2>2 DEF Condemn, TypeOK, Staying, calls, history, Lives
<1>13. ASSUME NEW t \in Threads, GoToSleep(t) PROVE TypeOK'
  <2>1. <<"sleep", t>> \in Events
    BY DEF Events
  <2>2. events' \in Seq(Events)
    BY <1>13, <2>1, PostType DEF GoToSleep, TypeOK
  <2>3. QED
    BY <1>13, <2>2 DEF GoToSleep, TypeOK, threads, calls, history
<1>14. CASE Slot
  <2>1. events' \in Seq(Events)
    BY <1>14, TakeType DEF Slot, TypeOK
  <2>2. QED
    BY <1>14, <2>1 DEF Slot, TypeOK, calls, history
<1>15. CASE Delete
  <2>1. events' \in Seq(Events)
    BY <1>15, TakeType DEF Delete, TypeOK
  <2>2. QED
    BY <1>15, <2>1 DEF Delete, TypeOK, calls, Lives, Ages
<1>16. CASE UNCHANGED vars
  BY <1>16 DEF vars, threads, main, calls, history, TypeOK
<1>17. QED
  BY <1>1, <1>2, <1>3, <1>4, <1>5, <1>6, <1>7, <1>8, <1>9, <1>10, <1>11, <1>12,
     <1>13, <1>14, <1>15, <1>16 DEF Next, Step, Handler, MainThread, Cleanup

\* The type invariant: it needs no other (rtimvServer.cpp:505-703, 1403-1577).
THEOREM TypeCorrect == Spec => []TypeOK
<1>1. Init => TypeOK
  BY InitInv DEF Inv
<1>2. TypeOK /\ [Next]_vars => TypeOK'
  BY TypeStep
<1>3. QED
  BY <1>1, <1>2, PTL DEF Spec

\* Steps that change neither the table nor a life keep the table exact.
LEMMA TableFramed ==
    ASSUME TableIsExact, UNCHANGED <<clients, life>>
    PROVE  TableIsExact'
  BY DEF TableIsExact

\* Every step keeps the table exact.
LEMMA TableStep ==
    ASSUME TypeOK, TableIsExact, CondemnedOnly, [Next]_vars
    PROVE  TableIsExact'
<1> USE ConstantsAssumption
<1>1. CASE DoConfigure
  <2>1. CASE clients[Head(events)[2]] # NoThread
    BY <1>1, <2>1, TableFramed DEF DoConfigure, threads
  <2>2. CASE clients[Head(events)[2]] = NoThread
    <3> DEFINE p == Head(events)[2]
    <3>1. p \in Peers
      BY <1>1, TakeType, EventKinds DEF DoConfigure, TypeOK
    <3>2. PICK t \in Threads :
            /\ Unused(t)
            /\ life' = [life EXCEPT ![t] = "live"]
            /\ clients' = [clients EXCEPT ![p] = t]
      BY <1>1, <2>2 DEF DoConfigure
    <3>3. \A q \in Peers : clients[q] # t
      BY <3>2 DEF TableIsExact, Unused, Exists
    <3> HIDE DEF p
    <3>4. ASSUME NEW u \in Threads
          PROVE  life'[u] \in {"live", "marked"} <=> \E q \in Peers : clients'[q] = u
      <4>1. CASE u = t
        BY <3>1, <3>2, <4>1 DEF TypeOK
      <4>2. CASE u # t
        <5>1. life'[u] = life[u]
          BY <3>2, <4>2 DEF TypeOK
        <5>2. \A q \in Peers : clients'[q] = u <=> clients[q] = u
          BY <2>2, <3>1, <3>2, <4>2 DEF TypeOK, p
        <5>3. QED
          BY <5>1, <5>2 DEF TableIsExact
      <4>3. QED
        BY <4>1, <4>2
    <3>5. ASSUME NEW q \in Peers, NEW r \in Peers,
                 clients'[q] = clients'[r], clients'[q] # NoThread
          PROVE  q = r
      BY <3>1, <3>2, <3>3, <3>5 DEF TypeOK, TableIsExact
    <3>6. QED
      BY <3>4, <3>5 DEF TableIsExact
  <2>3. QED
    BY <2>1, <2>2
<1>2. ASSUME NEW t \in Threads, MarkStale(t) PROVE TableIsExact'
  <2>1. life[t] \in {"live", "marked"}
    BY <1>2 DEF MarkStale, TableIsExact
  <2>2. clients' = clients /\ life' = [life EXCEPT ![t] = "marked"]
    BY <1>2 DEF MarkStale
  <2>3. \A u \in Threads : life'[u] \in {"live", "marked"} <=> life[u] \in {"live", "marked"}
    BY <2>1, <2>2 DEF TypeOK
  <2>4. QED
    BY <2>2, <2>3 DEF TableIsExact
<1>3. ASSUME NEW t \in Threads, Erase(t) PROVE TableIsExact'
  <2>1. /\ life' = [life EXCEPT ![t] = "erased"]
        /\ clients' = [p \in Peers |-> IF clients[p] = t THEN NoThread ELSE clients[p]]
    BY <1>3 DEF Erase
  <2>2. ASSUME NEW u \in Threads
        PROVE  life'[u] \in {"live", "marked"} <=> \E q \in Peers : clients'[q] = u
    <3>1. CASE u = t
      BY <2>1, <3>1 DEF TypeOK
    <3>2. CASE u # t
      <4>1. life'[u] = life[u]
        BY <2>1, <3>2 DEF TypeOK
      <4>2. \A q \in Peers : clients'[q] = u <=> clients[q] = u
        BY <2>1, <3>2
      <4>3. QED
        BY <4>1, <4>2 DEF TableIsExact
    <3>3. QED
      BY <3>1, <3>2
  <2>3. ASSUME NEW q \in Peers, NEW r \in Peers,
               clients'[q] = clients'[r], clients'[q] # NoThread
        PROVE  q = r
    <3>1. clients'[q] = clients[q] /\ clients'[r] = clients[r]
      BY <2>1, <2>3
    <3>2. QED
      BY <2>3, <3>1 DEF TableIsExact
  <2>4. QED
    BY <2>2, <2>3 DEF TableIsExact
<1>4. ASSUME NEW t \in Threads, Condemn(t) PROVE TableIsExact'
  <2>1. /\ life[t] = "erased" /\ clients' = clients
        /\ life' = [life EXCEPT ![t] = "condemned"]
    BY <1>4 DEF Condemn
  <2>2. \A u \in Threads : life'[u] \in {"live", "marked"} <=> life[u] \in {"live", "marked"}
    BY <2>1 DEF TypeOK
  <2>3. QED
    BY <2>1, <2>2 DEF TableIsExact
<1>5. CASE Delete
  <2> DEFINE t == Head(events)[2]
  <2>1. t \in Threads /\ life[t] = "condemned"
    <3>1. events \in Seq(Events) /\ events # << >> /\ Head(events)[1] = "delete"
      BY <1>5 DEF Delete, TypeOK
    <3>2. Head(events) = events[1] /\ Head(events) \in Events /\ 1 \in DOMAIN events
      BY <3>1, TakeType
    <3>3. QED
      BY <3>1, <3>2, EventKinds DEF CondemnedOnly
  <2>2. clients' = clients /\ life' = [life EXCEPT ![t] = "absent"]
    BY <1>5 DEF Delete
  <2> HIDE DEF t
  <2>3. \A u \in Threads : life'[u] \in {"live", "marked"} <=> life[u] \in {"live", "marked"}
    BY <2>1, <2>2 DEF TypeOK
  <2>4. QED
    BY <2>2, <2>3 DEF TableIsExact
<1>6. CASE \E h \in Handlers : Handler(h)
  BY <1>6, TableFramed
     DEF Handler, Configure, ConfigurePoll, BeginCall, UseThread, EndCall, threads
<1>7. CASE \E p \in Peers : ImagePlease(p)
  BY <1>7, TableFramed DEF ImagePlease
<1>8. CASE ThreadConfigured \/ Slot
  BY <1>8, TableFramed DEF ThreadConfigured, Slot
<1>9. CASE \E t \in Threads :
             \/ ImageReady(t) \/ Service(t) \/ Pruned(t) \/ Orphaned(t)
             \/ Elapse(t) \/ GoToSleep(t)
  BY <1>9, TableFramed
     DEF ImageReady, Service, Pruned, Orphaned, Elapse, GoToSleep, threads
<1>10. CASE UNCHANGED vars
  BY <1>10, TableFramed DEF vars, threads
<1>11. QED
  BY <1>1, <1>2, <1>3, <1>4, <1>5, <1>6, <1>7, <1>8, <1>9, <1>10
     DEF Next, Step, MainThread, Cleanup

-----------------------------------------------------------------------------
(* The queue of the main thread.                                           *)

QueueOK == CondemnedOnly /\ DeletionIsLast

\* Steps that neither post nor take, and move no life.
LEMMA QueueFramed ==
    ASSUME QueueOK, UNCHANGED <<events, life>>
    PROVE  QueueOK'
  BY DEF QueueOK, CondemnedOnly, DeletionIsLast

\* A thread that is not condemned moves on.
LEMMA QueueLife ==
    ASSUME TypeOK, QueueOK, UNCHANGED events, NEW t \in Threads,
           life[t] # "condemned",
           NEW x \in Lives \ {"absent"}, life' = [life EXCEPT ![t] = x]
    PROVE  QueueOK'
<1>1. ASSUME NEW i \in DOMAIN events
      PROVE  events[i] \in Events
  BY <1>1 DEF TypeOK
<1>2. CondemnedOnly'
  BY <1>1, EventKinds DEF QueueOK, CondemnedOnly, TypeOK
<1>3. DeletionIsLast'
  BY <1>1, EventKinds DEF QueueOK, DeletionIsLast, TypeOK
<1>4. QED
  BY <1>2, <1>3 DEF QueueOK

\* An event other than a deletion is posted, to a thread in the table if it is
\* about a thread.
LEMMA QueuePost ==
    ASSUME TypeOK, QueueOK, UNCHANGED life, NEW e \in Events, Post(e),
           e[1] # "delete",
           e[1] # "configure" => life[e[2]] \in {"live", "marked"}
    PROVE  QueueOK'
<1> DEFINE n == Len(events)
<1>1. /\ n \in Nat /\ DOMAIN events = 1 .. n
      /\ events' \in Seq(Events) /\ DOMAIN events' = 1 .. n + 1
      /\ events'[n + 1] = e
      /\ \A i \in 1 .. n : events'[i] = events[i]
  BY PostType DEF TypeOK
<1> HIDE DEF n
<1>2. CondemnedOnly'
  BY <1>1 DEF QueueOK, CondemnedOnly
<1>3. DeletionIsLast'
  <2> SUFFICES ASSUME NEW i \in 1 .. n + 1, events'[i][1] # "configure"
               PROVE  /\ life[events'[i][2]] # "absent"
                      /\ \A j \in 1 .. i - 1 :
                           events'[j][1] = "delete" => events'[j][2] # events'[i][2]
    BY <1>1 DEF DeletionIsLast
  <2>1. CASE i \in 1 .. n
    <3>1. \A j \in 1 .. i - 1 : j \in 1 .. n
      BY <1>1, <2>1
    <3>2. QED
      BY <1>1, <2>1, <3>1 DEF QueueOK, DeletionIsLast
  <2>2. CASE i = n + 1
    <3>1. \A j \in 1 .. i - 1 : j \in 1 .. n
      BY <1>1, <2>2
    <3>2. QED
      BY <1>1, <2>2, <3>1 DEF QueueOK, CondemnedOnly
  <2>3. QED
    BY <1>1, <2>1, <2>2
<1>4. QED
  BY <1>2, <1>3 DEF QueueOK

\* The first event is taken, and no thread moves that another one is about.
LEMMA QueueTake ==
    ASSUME TypeOK, QueueOK, events # << >>, events' = Tail(events),
           \A i \in 2 .. Len(events) :
               events[i][1] # "configure" => life'[events[i][2]] = life[events[i][2]]
    PROVE  QueueOK'
<1> DEFINE n == Len(events)
<1>1. /\ n \in Nat \ {0} /\ DOMAIN events = 1 .. n /\ DOMAIN events' = 1 .. n - 1
      /\ \A i \in 1 .. n - 1 : events'[i] = events[i + 1]
  BY TakeType DEF TypeOK
<1>5. ASSUME NEW i \in 1 .. n - 1, events'[i][1] # "configure"
      PROVE  life'[events'[i][2]] = life[events[i + 1][2]]
  <2>1. i + 1 \in 2 .. n /\ events'[i] = events[i + 1]
    BY <1>1
  <2>2. QED
    BY <1>5, <2>1
<1> HIDE DEF n
<1>2. CondemnedOnly'
  BY <1>1, <1>5 DEF QueueOK, CondemnedOnly
<1>3. DeletionIsLast'
  <2> SUFFICES ASSUME NEW i \in 1 .. n - 1, events'[i][1] # "configure"
               PROVE  /\ life'[events'[i][2]] # "absent"
                      /\ \A j \in 1 .. i - 1 :
                           events'[j][1] = "delete" => events'[j][2] # events'[i][2]
    BY <1>1 DEF DeletionIsLast
  <2>1. \A j \in 1 .. i - 1 : j + 1 \in 1 .. (i + 1) - 1 /\ events'[j] = events[j + 1]
    BY <1>1
  <2>2. i + 1 \in 1 .. n /\ events'[i] = events[i + 1]
    BY <1>1
  <2>3. QED
    BY <1>1, <2>1, <2>2 DEF QueueOK, DeletionIsLast
<1>4. QED
  BY <1>2, <1>3 DEF QueueOK

\* A thread is handed to its deletion.
LEMMA QueueCondemn ==
    ASSUME TypeOK, QueueOK, NEW t \in Threads, Condemn(t)
    PROVE  QueueOK'
<1> DEFINE n == Len(events)
<1>1. /\ n \in Nat /\ DOMAIN events = 1 .. n
      /\ events' \in Seq(Events) /\ DOMAIN events' = 1 .. n + 1
      /\ events'[n + 1] = <<"delete", t>>
      /\ \A i \in 1 .. n : events'[i] = events[i] /\ events[i] \in Events
  BY PostType DEF TypeOK, Condemn, Events
<1>2. life[t] = "erased" /\ life' = [life EXCEPT ![t] = "condemned"]
  BY DEF Condemn
<1> HIDE DEF n
<1>3. \A u \in Threads : life'[u] = IF u = t THEN "condemned" ELSE life[u]
  BY <1>2 DEF TypeOK
<1>4. CondemnedOnly'
  <2> SUFFICES ASSUME NEW i \in 1 .. n + 1, events'[i][1] = "delete"
               PROVE  life'[events'[i][2]] = "condemned"
    BY <1>1 DEF CondemnedOnly
  <2>1. CASE i = n + 1
    BY <1>1, <1>3, <2>1
  <2>2. CASE i \in 1 .. n
    BY <1>1, <1>3, <2>2, EventKinds DEF QueueOK, CondemnedOnly
  <2>3. QED
    BY <1>1, <2>1, <2>2
<1>5. DeletionIsLast'
  <2> SUFFICES ASSUME NEW i \in 1 .. n + 1, events'[i][1] # "configure"
               PROVE  /\ life'[events'[i][2]] # "absent"
                      /\ \A j \in 1 .. i - 1 :
                           events'[j][1] = "delete" => events'[j][2] # events'[i][2]
    BY <1>1 DEF DeletionIsLast
  <2>1. CASE i \in 1 .. n
    <3>1. \A j \in 1 .. i - 1 : j \in 1 .. n
      BY <1>1, <2>1
    <3>2. events[i][2] \in Threads
      BY <1>1, <2>1, EventKinds
    <3>3. QED
      BY <1>1, <1>3, <2>1, <3>1, <3>2 DEF QueueOK, DeletionIsLast
  <2>2. CASE i = n + 1
    <3>1. \A j \in 1 .. i - 1 : j \in 1 .. n
      BY <1>1, <2>2
    <3>2. QED
      BY <1>1, <1>2, <1>3, <2>2, <3>1 DEF QueueOK, CondemnedOnly
  <2>3. QED
    BY <1>1, <2>1, <2>2
<1>6. QED
  BY <1>4, <1>5 DEF QueueOK

\* What a call posts goes to a stream of the table.
LEMMA QueueTouch ==
    ASSUME TypeOK, TableIsExact, QueueOK, UNCHANGED life,
           NEW p \in Peers, clients[p] # NoThread, Touch(clients[p])
    PROVE  QueueOK'
<1>1. clients[p] \in Threads
  BY DEF TypeOK
<1>2. life[clients[p]] \in {"live", "marked"}
  BY <1>1 DEF TableIsExact
<1>3. CASE asleep[clients[p]]
  <2> DEFINE e == <<"awaken", clients[p]>>
  <2>1. Post(e)
    BY <1>3 DEF Touch
  <2>2. /\ e \in Events /\ e[1] # "delete"
        /\ life[e[2]] \in {"live", "marked"}
    BY <1>1, <1>2 DEF Events
  <2> HIDE DEF e
  <2>3. QED
    BY <2>1, <2>2, QueuePost
<1>4. CASE ~asleep[clients[p]]
  BY <1>4, QueueFramed DEF Touch
<1>5. QED
  BY <1>3, <1>4

\* Every step keeps the queue in order.
LEMMA QueueStep ==
    ASSUME TypeOK, TableIsExact, QueueOK, [Next]_vars
    PROVE  QueueOK'
<1> USE ConstantsAssumption
<1>1. ASSUME NEW h \in Handlers, NEW p \in Peers, Configure(h, p)
      PROVE  QueueOK'
  <2>1. <<"configure", p>> \in Events
    BY DEF Events
  <2>2. QED
    BY <1>1, <2>1, QueuePost DEF Configure, threads
<1>2. ASSUME NEW h \in Handlers, NEW p \in Peers, BeginCall(h, p)
      PROVE  QueueOK'
  BY <1>2, QueueTouch DEF BeginCall, Found
<1>3. ASSUME NEW p \in Peers, ImagePlease(p) PROVE QueueOK'
  BY <1>3, QueueTouch DEF ImagePlease, Found
<1>4. ASSUME NEW t \in Threads, GoToSleep(t) PROVE QueueOK'
  <2>1. <<"sleep", t>> \in Events
    BY DEF Events
  <2>2. life[t] \in {"live", "marked"}
    BY <1>4 DEF GoToSleep, TableIsExact
  <2>3. QED
    BY <1>4, <2>1, <2>2, QueuePost DEF GoToSleep, threads
<1>5. ASSUME NEW t \in Threads, MarkStale(t) PROVE QueueOK'
  <2>1. life[t] # "condemned"
    BY <1>5 DEF MarkStale, TableIsExact
  <2>2. "marked" \in Lives \ {"absent"}
    BY DEF Lives
  <2>3. QED
    BY <1>5, <2>1, <2>2, QueueLife DEF MarkStale, main
<1>6. ASSUME NEW t \in Threads, Erase(t) PROVE QueueOK'
  <2>1. "erased" \in Lives \ {"absent"}
    BY DEF Lives
  <2>2. QED
    BY <1>6, <2>1, QueueLife DEF Erase, main
<1>7. ASSUME NEW t \in Threads, Condemn(t) PROVE QueueOK'
  BY <1>7, QueueCondemn
<1>8. CASE Slot
  BY <1>8, QueueTake DEF Slot
<1>9. CASE DoConfigure
  <2>1. ASSUME NEW i \in 2 .. Len(events), events[i][1] # "configure"
        PROVE  life'[events[i][2]] = life[events[i][2]]
    <3>1. i \in DOMAIN events /\ events[i] \in Events
      BY <1>9, <2>1 DEF DoConfigure, TypeOK
    <3>2. events[i][2] \in Threads /\ life[events[i][2]] # "absent"
      BY <2>1, <3>1, EventKinds DEF QueueOK, DeletionIsLast
    <3>3. CASE UNCHANGED life
      BY <3>3
    <3>4. CASE \E t \in Threads : Unused(t) /\ life' = [life EXCEPT ![t] = "live"]
      BY <3>2, <3>4 DEF Unused, Exists, TypeOK
    <3>5. QED
      BY <1>9, <3>3, <3>4 DEF DoConfigure, threads
  <2>2. QED
    BY <1>9, <2>1, QueueTake DEF DoConfigure
<1>10. CASE Delete
  <2>1. ASSUME NEW i \in 2 .. Len(events), events[i][1] # "configure"
        PROVE  life'[events[i][2]] = life[events[i][2]]
    <3>1. /\ i \in DOMAIN events /\ 1 \in 1 .. i - 1
          /\ events[i] \in Events /\ events[1] \in Events /\ Head(events) = events[1]
      BY <1>10, <2>1 DEF Delete, TypeOK
    <3>2. events[1][2] # events[i][2]
      BY <1>10, <2>1, <3>1 DEF Delete, QueueOK, DeletionIsLast
    <3>3. events[i][2] \in Threads
      BY <2>1, <3>1, EventKinds
    <3>4. QED
      BY <1>10, <3>1, <3>2, <3>3 DEF Delete, TypeOK
  <2>2. QED
    BY <1>10, <2>1, QueueTake DEF Delete
<1>11. CASE \E h \in Handlers : ConfigurePoll(h) \/ UseThread(h) \/ EndCall(h)
  BY <1>11, QueueFramed DEF ConfigurePoll, UseThread, EndCall, threads, main
<1>12. CASE \E t \in Threads :
              ImageReady(t) \/ Service(t) \/ Pruned(t) \/ Orphaned(t) \/ Elapse(t)
  BY <1>12, QueueFramed DEF ImageReady, Service, Pruned, Orphaned, Elapse, main
<1>13. CASE ThreadConfigured \/ UNCHANGED vars
  BY <1>13, QueueFramed DEF ThreadConfigured, vars, threads, main
<1>14. QED
  BY <1>1, <1>2, <1>3, <1>4, <1>5, <1>6, <1>7, <1>8, <1>9, <1>10, <1>11, <1>12, <1>13
     DEF Next, Step, Handler, MainThread, Cleanup

-----------------------------------------------------------------------------
(* The calls, and the objects they refer to.                               *)

Meeting == misused # NoThread => misused \in late

\* Steps that begin no call and leave alone who was found when.
LEMMA MeetingFramed ==
    ASSUME FoundInTime, Meeting, UNCHANGED <<late, misused>>,
           \A t \in Threads : InUse(t)' => InUse(t),
           \A t \in Threads : InUse(t) /\ life[t] = "live" => life'[t] = "live"
    PROVE  FoundInTime' /\ Meeting'
  BY DEF FoundInTime, Meeting

\* Who is found in the table is in use, or is noted.
LEMMA MeetingFound ==
    ASSUME TypeOK, TableIsExact, FoundInTime, Meeting, UNCHANGED <<life, misused>>,
           NEW p \in Peers, clients[p] # NoThread, Found(clients[p]),
           \A t \in Threads \ {clients[p]} : InUse(t)' => InUse(t)
    PROVE  FoundInTime' /\ Meeting'
<1>1. clients[p] \in Threads
  BY DEF TypeOK
<1>2. life[clients[p]] \in {"live", "marked"}
  BY <1>1 DEF TableIsExact
<1>3. late \subseteq late' /\ (life[clients[p]] = "marked" => clients[p] \in late')
  BY DEF Found
<1> QED BY <1>2, <1>3 DEF FoundInTime, Meeting

\* Whoever meets a deleted object refers to it, and so found it when it was to go.
LEMMA MeetingMisuse ==
    ASSUME FoundInTime, Runs, NEW t \in Threads, InUse(t), UNCHANGED <<life, late>>,
           misused' = misused \/ (~Exists(t) /\ Misuse(t)),
           \A u \in Threads : InUse(u)' => InUse(u)
    PROVE  FoundInTime' /\ Meeting'
  BY DEF FoundInTime, Meeting, Runs, Misuse, Exists

LEMMA MeetingStep ==
    ASSUME TypeOK, TableIsExact, CondemnedOnly, FoundInTime, Meeting, [Next]_vars
    PROVE  FoundInTime' /\ Meeting'
<1> USE ConstantsAssumption
<1>1. ASSUME NEW h \in Handlers, NEW p \in Peers, BeginCall(h, p)
      PROVE  FoundInTime' /\ Meeting'
  <2>1. \A t \in Threads \ {clients[p]} : InUse(t)' => InUse(t)
    BY <1>1 DEF BeginCall, InUse, TypeOK
  <2> QED BY <1>1, <2>1, MeetingFound DEF BeginCall
<1>2. ASSUME NEW p \in Peers, ImagePlease(p) PROVE FoundInTime' /\ Meeting'
  <2>1. \A t \in Threads \ {clients[p]} : InUse(t)' => InUse(t)
    BY <1>2 DEF ImagePlease, InUse, TypeOK, calls
  <2> QED BY <1>2, <2>1, MeetingFound DEF ImagePlease
<1>3. ASSUME NEW h \in Handlers, UseThread(h) \/ EndCall(h), Runs
      PROVE  FoundInTime' /\ Meeting'
  <2>1. using[h] \in Threads /\ InUse(using[h])
    BY <1>3 DEF UseThread, EndCall, InUse, TypeOK
  <2>2. /\ UNCHANGED <<life, late>>
        /\ misused' = misused \/ (~Exists(using[h]) /\ Misuse(using[h]))
    BY <1>3 DEF UseThread, EndCall, threads
  <2>3. \A t \in Threads : InUse(t)' => InUse(t)
    BY <1>3 DEF UseThread, EndCall, InUse, TypeOK, threads, calls
  <2> QED BY <1>3, <2>1, <2>2, <2>3, MeetingMisuse
<1>4. ASSUME NEW t \in Threads, Orphaned(t), Runs PROVE FoundInTime' /\ Meeting'
  <2>1. InUse(t) /\ UNCHANGED <<life, late>> /\ ~Exists(t) /\ Misuse(t)
    BY <1>4 DEF Orphaned, InUse
  <2>2. \A u \in Threads : InUse(u)' => InUse(u)
    BY <1>4 DEF Orphaned, InUse, TypeOK, calls
  <2> QED BY <1>4, <2>1, <2>2, MeetingMisuse
<1>5. ASSUME NEW t \in Threads, MarkStale(t) PROVE FoundInTime' /\ Meeting'
  <2>1. \A u \in Threads : InUse(u)' => InUse(u)
    BY <1>5 DEF MarkStale, InUse, Staying, calls
  <2>2. \A u \in Threads : InUse(u) /\ life[u] = "live" => life'[u] = "live"
    BY <1>5 DEF MarkStale, TypeOK
  <2> QED BY <1>5, <2>1, <2>2, MeetingFramed DEF MarkStale, history
<1>6. ASSUME NEW t \in Threads, Erase(t) \/ Condemn(t) PROVE FoundInTime' /\ Meeting'
  <2>1. \A u \in Threads : InUse(u)' => InUse(u)
    BY <1>6 DEF Erase, Condemn, InUse, Staying, calls
  <2>2. \A u \in Threads : InUse(u) /\ life[u] = "live" => life'[u] = "live"
    BY <1>6 DEF Erase, Condemn, TypeOK
  <2> QED BY <1>6, <2>1, <2>2, MeetingFramed DEF Erase, Condemn, history
<1>7. CASE DoConfigure /\ Runs
  <2>1. \A u \in Threads : InUse(u)' => InUse(u)
    BY <1>7 DEF DoConfigure, InUse, threads, calls
  <2>2. CASE UNCHANGED <<life, late>>
    BY <1>7, <2>1, <2>2, MeetingFramed DEF DoConfigure
  <2>3. ASSUME NEW t \in Threads, Unused(t), life' = [life EXCEPT ![t] = "live"],
               late' = late \ {t}
        PROVE  FoundInTime' /\ Meeting'
    BY <1>7, <2>1, <2>3 DEF DoConfigure, FoundInTime, Meeting, Runs, Unused, TypeOK
  <2> QED BY <1>7, <2>2, <2>3 DEF DoConfigure, threads
<1>8. CASE Delete /\ Runs
  <2> DEFINE t == Head(events)[2]
  <2>1. 1 \in DOMAIN events /\ events[1] = Head(events)
    BY <1>8, TakeType DEF Delete, TypeOK
  <2>2. life[t] = "condemned"
    BY <1>8, <2>1 DEF Delete, CondemnedOnly
  <2>3. /\ life' = [life EXCEPT ![t] = "absent"]
        /\ late' = IF InUse(t) THEN late ELSE late \ {t}
        /\ UNCHANGED misused
    BY <1>8 DEF Delete
  <2>4. \A u \in Threads : InUse(u)' <=> InUse(u)
    BY <1>8 DEF Delete, InUse, calls
  <2> HIDE DEF t
  <2>5. FoundInTime'
    BY <2>2, <2>3, <2>4 DEF FoundInTime, TypeOK
  <2>6. Meeting'
    BY <1>8, <2>3 DEF Meeting, Runs
  <2> QED BY <2>5, <2>6
<1>9. CASE \/ ThreadConfigured \/ Slot
           \/ \E h \in Handlers : ConfigurePoll(h) \/ \E p \in Peers : Configure(h, p)
           \/ UNCHANGED vars
  BY <1>9, MeetingFramed
     DEF ThreadConfigured, Slot, ConfigurePoll, Configure, InUse, threads, calls, history,
         vars
<1>10. CASE \E t \in Threads :
              ImageReady(t) \/ Service(t) \/ Pruned(t) \/ Elapse(t) \/ GoToSleep(t)
  <2>1. \A u \in Threads : InUse(u)' => InUse(u)
    BY <1>10
       DEF ImageReady, Service, Pruned, Elapse, GoToSleep, InUse, TypeOK, threads, calls
  <2> QED BY <1>10, <2>1, MeetingFramed
             DEF ImageReady, Service, Pruned, Elapse, GoToSleep, threads, history
<1> QED
  BY <1>1, <1>2, <1>3, <1>4, <1>5, <1>6, <1>7, <1>8, <1>9, <1>10
     DEF Next, Step, Handler, MainThread, Cleanup

-----------------------------------------------------------------------------
(* The invariant and what follows from it.                                 *)

\* The inductive invariant: the deletion of a stream waits in the queue only
\* after the stream has left the table, so the steps that post to a stream of
\* the table never find one that is condemned; and the calls that refer to a
\* stream that has left it are those that are noted.
THEOREM Invariance == Spec => []Inv
<1>1. Init => Inv
  BY InitInv
<1>2. Inv /\ [Next]_vars => Inv'
  <2> SUFFICES ASSUME Inv, [Next]_vars PROVE Inv'
    OBVIOUS
  <2>1. TypeOK' /\ TableIsExact' /\ QueueOK'
    BY TypeStep, TableStep, QueueStep DEF Inv, UsedWhileThere, QueueOK
  <2>2. FoundInTime' /\ Meeting'
    BY MeetingStep DEF Inv, UsedWhileThere, Meeting
  <2> QED BY <2>1, <2>2 DEF Inv, UsedWhileThere, QueueOK, Meeting
<1>3. QED
  BY <1>1, <1>2, PTL DEF Spec

\* The table holds exactly the streams in use, whatever Configure calls overlap
\* with each other and with the cleanup loop (rtimvServer.cpp:562-591, 627-703,
\* 1505-1530).
THEOREM TableIsExactHolds == Spec => []TableIsExact
<1>1. Inv => TableIsExact
  BY DEF Inv
<1>2. QED
  BY <1>1, Invariance, PTL

\* Only a call that found a stream between the decision to erase it and its erasure
\* can meet it deleted, whatever handlers, the cleanup loop and the main thread do;
\* and the deletion of a stream is the last of its events (rtimvServer.cpp:226-282,
\* 546-612).
THEOREM UsedWhileThereHolds == Spec => []UsedWhileThere
<1>1. Inv => UsedWhileThere
  BY DEF Inv
<1>2. QED
  BY <1>1, Invariance, PTL

-----------------------------------------------------------------------------
(* What ends the waiting of a Configure call.                              *)

Asked(p) == \E i \in DOMAIN events : events[i] = <<"configure", p>>

\* A call whose peer has no thread has its event in the queue, or saw a thread.
Expected ==
    \A h \in Handlers : waiting[h] # Nobody /\ clients[waiting[h]] = NoThread
        => seen[h] \/ Asked(waiting[h])

\* A thread of the table has its result, or is being configured.
Results ==
    \A t \in Threads :
        life[t] \in {"live", "marked"} => configured[t] # "no" \/ building = t

\* A thread that a call has not seen yet is young: it cannot go unseen.
Unseen(h) == waiting[h] # Nobody /\ clients[waiting[h]] # NoThread /\ ~seen[h]

Young ==
    \A h \in Handlers : Unseen(h) =>
        life[clients[waiting[h]]] = "live" /\ age[clients[waiting[h]]] = "recent"

ServedInv == Expected /\ Results /\ Young

\* An event stays in the queue when another is posted, or is taken.
LEMMA PostKeeps ==
    ASSUME events \in Seq(Events), NEW e \in Events, Post(e), NEW p
    PROVE  /\ Asked(p) => Asked(p)'
           /\ e = <<"configure", p>> => Asked(p)'
<1>1. /\ events' \in Seq(Events) /\ Len(events') = Len(events) + 1
      /\ events'[Len(events')] = e
      /\ \A i \in 1 .. Len(events) : events'[i] = events[i]
  BY PostType
<1>2. /\ DOMAIN events = 1 .. Len(events) /\ DOMAIN events' = 1 .. Len(events) + 1
      /\ Len(events) \in Nat
  BY <1>1
<1> QED BY <1>1, <1>2 DEF Asked

LEMMA TakeKeeps ==
    ASSUME events \in Seq(Events), events # << >>, events' = Tail(events),
           NEW p, Head(events) # <<"configure", p>>, Asked(p)
    PROVE  Asked(p)'
<1>1. PICK i \in DOMAIN events : events[i] = <<"configure", p>>
  BY DEF Asked
<1>2. i \in 2 .. Len(events)
  BY <1>1, TakeType
<1>3. i - 1 \in DOMAIN events' /\ events'[i - 1] = events[i]
  BY <1>2, TakeType
<1> QED BY <1>1, <1>3 DEF Asked

\* Steps that neither configure nor move a life.
LEMMA ServedFramed ==
    ASSUME TypeOK, ServedInv,
           UNCHANGED <<clients, life, configured, building, waiting, seen>>,
           \A t \in Threads : age'[t] \in {age[t], "recent"},
           \A p \in Peers : Asked(p) => Asked(p)'
    PROVE  ServedInv'
<1>1. Expected'
  BY DEF ServedInv, Expected, TypeOK
<1>2. Results'
  BY DEF ServedInv, Results
<1>3. Young'
  BY DEF ServedInv, Young, Unseen, TypeOK
<1> QED BY <1>1, <1>2, <1>3 DEF ServedInv

LEMMA ServedTouch ==
    ASSUME TypeOK, ServedInv,
           UNCHANGED <<clients, life, configured, building, waiting, seen>>,
           NEW t \in Threads, Touch(t)
    PROVE  ServedInv'
<1>1. \A u \in Threads : age'[u] \in {age[u], "recent"}
  BY DEF Touch, TypeOK
<1>2. \A p \in Peers : Asked(p) => Asked(p)'
  <2>1. <<"awaken", t>> \in Events
    BY DEF Events
  <2>2. CASE asleep[t]
    BY <2>1, <2>2, PostKeeps DEF Touch, TypeOK
  <2>3. CASE ~asleep[t]
    BY <2>3 DEF Touch, Asked
  <2> QED BY <2>2, <2>3
<1> QED BY <1>1, <1>2, ServedFramed

\* A new thread is in the table, for all that wait for its peer.
LEMMA ServedByDoConfigure ==
    ASSUME TypeOK, TableIsExact, ServedInv, DoConfigure
    PROVE  ServedInv'
<1> USE ConstantsAssumption
<1> DEFINE p == Head(events)[2]
<1>1. p \in Peers /\ Head(events) = <<"configure", p>>
  BY TakeType DEF DoConfigure, TypeOK, Events
<1>2. ASSUME NEW q \in Peers, q # p, Asked(q) PROVE Asked(q)'
  BY <1>1, <1>2, TakeKeeps DEF DoConfigure, TypeOK
<1>3. UNCHANGED <<waiting, seen>> /\ building = NoThread
  BY DEF DoConfigure, calls
<1>4. CASE clients[p] # NoThread
  <2>1. UNCHANGED <<clients, life, configured, age, building>>
    BY <1>4 DEF DoConfigure, threads
  <2>2. Expected'
    BY <1>2, <1>3, <1>4, <2>1 DEF ServedInv, Expected, TypeOK
  <2>3. Results' /\ Young'
    BY <1>3, <2>1 DEF ServedInv, Results, Young, Unseen
  <2> QED BY <2>2, <2>3 DEF ServedInv
<1>5. CASE clients[p] = NoThread
  <2>1. PICK t \in Threads :
          /\ Unused(t)
          /\ life' = [life EXCEPT ![t] = "live"]
          /\ clients' = [clients EXCEPT ![p] = t]
          /\ building' = t
          /\ configured' = [configured EXCEPT ![t] = "no"]
          /\ age' = [age EXCEPT ![t] = "recent"]
    BY <1>5 DEF DoConfigure
  <2>2. \A q \in Peers : clients[q] # t
    BY <2>1 DEF TableIsExact, Unused, Exists
  <2> HIDE DEF p
  <2>3. /\ clients'[p] = t /\ \A q \in Peers : q # p => clients'[q] = clients[q]
        /\ life'[t] = "live" /\ age'[t] = "recent"
        /\ \A u \in Threads : u # t =>
              life'[u] = life[u] /\ age'[u] = age[u] /\ configured'[u] = configured[u]
    BY <1>1, <2>1 DEF TypeOK
  <2>4. Expected'
    <3> SUFFICES ASSUME NEW h \in Handlers, waiting[h] # Nobody,
                        clients'[waiting[h]] = NoThread
                 PROVE  (seen[h] \/ Asked(waiting[h]))'
      BY <1>3 DEF Expected
    <3>1. waiting[h] \in Peers /\ t # NoThread
      BY DEF TypeOK
    <3>2. waiting[h] # p /\ clients[waiting[h]] = NoThread
      BY <2>3, <3>1
    <3>3. seen[h] \/ Asked(waiting[h])
      BY <3>2 DEF ServedInv, Expected
    <3>4. Asked(waiting[h]) => Asked(waiting[h])'
      BY <1>2, <1>3, <3>1, <3>2
    <3> QED BY <1>3, <3>3, <3>4
  <2>5. Results'
    BY <1>3, <2>1, <2>3 DEF ServedInv, Results
  <2>6. Young'
    <3> SUFFICES ASSUME NEW h \in Handlers, Unseen(h)'
                 PROVE  /\ life'[clients'[waiting[h]]] = "live"
                        /\ age'[clients'[waiting[h]]] = "recent"
      BY <1>3 DEF Young
    <3>1. waiting[h] \in Peers
      BY <1>3 DEF Unseen, TypeOK
    <3>2. CASE waiting[h] = p
      BY <2>3, <3>2
    <3>3. CASE waiting[h] # p
      <4>1. Unseen(h) /\ clients'[waiting[h]] = clients[waiting[h]]
        BY <1>3, <2>3, <3>1, <3>3 DEF Unseen
      <4>2. clients[waiting[h]] \in Threads /\ clients[waiting[h]] # t
        BY <2>2, <3>1, <4>1 DEF Unseen, TypeOK
      <4> QED BY <2>3, <4>1, <4>2 DEF ServedInv, Young
    <3> QED BY <3>2, <3>3
  <2> QED BY <2>4, <2>5, <2>6 DEF ServedInv
<1> QED BY <1>4, <1>5

\* A call looks at the table, or begins to wait.
LEMMA ServedByConfigure ==
    ASSUME TypeOK, ServedInv, NEW h \in Handlers,
           ConfigurePoll(h) \/ \E p \in Peers : Configure(h, p)
    PROVE  ServedInv'
<1> USE ConstantsAssumption
<1>1. ASSUME NEW p \in Peers, Configure(h, p) PROVE ServedInv'
  <2>1. <<"configure", p>> \in Events
    BY DEF Events
  <2>2. Asked(p)' /\ \A q \in Peers : Asked(q) => Asked(q)'
    BY <1>1, <2>1, PostKeeps DEF Configure, TypeOK
  <2>3. /\ waiting' = [waiting EXCEPT ![h] = p] /\ clients[p] = NoThread
        /\ seen' = [seen EXCEPT ![h] = FALSE]
        /\ UNCHANGED <<clients, life, configured, age, building>>
    BY <1>1 DEF Configure, threads
  <2>4. Expected'
    BY <2>2, <2>3 DEF ServedInv, Expected, TypeOK
  <2>5. Results' /\ Young'
    BY <2>3 DEF ServedInv, Results, Young, Unseen, TypeOK
  <2> QED BY <2>4, <2>5 DEF ServedInv
<1>2. CASE ConfigurePoll(h)
  <2> DEFINE t    == clients[waiting[h]]
             over == IF t = NoThread THEN seen[h] ELSE configured[t] # "no"
  <2>1. /\ waiting' = [waiting EXCEPT ![h] = IF over THEN Nobody ELSE @]
        /\ seen' = [seen EXCEPT ![h] = ~over /\ (@ \/ t # NoThread)]
        /\ UNCHANGED <<clients, life, configured, age, building, events>>
    BY <1>2 DEF ConfigurePoll, threads, main
  <2> HIDE DEF over
  <2>2. /\ waiting'[h] = IF over THEN Nobody ELSE waiting[h]
        /\ seen'[h] = (~over /\ (seen[h] \/ t # NoThread))
        /\ \A g \in Handlers : g # h => waiting'[g] = waiting[g] /\ seen'[g] = seen[g]
    BY <2>1 DEF TypeOK
  <2>3. \A p : Asked(p) <=> Asked(p)'
    BY <2>1 DEF Asked
  <2>4. t = NoThread /\ ~over => ~seen[h]
    BY DEF over
  <2>5. Expected'
    BY <2>1, <2>2, <2>3, <2>4 DEF ServedInv, Expected
  <2>6. Results'
    BY <2>1 DEF ServedInv, Results
  <2>7. Young'
    <3>1. \A g \in Handlers : Unseen(g)' => Unseen(g) /\ waiting'[g] = waiting[g]
      BY <2>1, <2>2 DEF Unseen
    <3> QED BY <2>1, <3>1 DEF ServedInv, Young
  <2> QED BY <2>5, <2>6, <2>7 DEF ServedInv
<1> QED BY <1>1, <1>2

\* A thread grows old, and goes, only after all that wait for it have seen it.
LEMMA ServedByCleanup ==
    ASSUME TypeOK, TableIsExact, ServedInv, NEW t \in Threads,
           Elapse(t) \/ MarkStale(t) \/ Erase(t) \/ Condemn(t)
    PROVE  ServedInv'
<1> USE ConstantsAssumption
<1>1. UNCHANGED <<waiting, seen, configured, building>>
  BY DEF Elapse, MarkStale, Erase, Condemn, Staying, main, calls
<1>2. ASSUME Elapse(t) \/ MarkStale(t) \/ Erase(t),
             \A h \in Handlers : Unseen(h) => clients[waiting[h]] # t
      PROVE  ServedInv'
  <2>1. /\ UNCHANGED events
        /\ \A p \in Peers :
              clients'[p] = clients[p] \/ (clients[p] = t /\ clients'[p] = NoThread)
        /\ \A u \in Threads : u # t => life'[u] = life[u] /\ age'[u] = age[u]
        /\ life'[t] \in {"live", "marked"} => life[t] \in {"live", "marked"}
    BY <1>2 DEF Elapse, MarkStale, Erase, Staying, main, TypeOK, TableIsExact
  <2>2. \A p : Asked(p) <=> Asked(p)'
    BY <2>1 DEF Asked
  <2>3. Expected'
    <3> SUFFICES ASSUME NEW h \in Handlers, waiting[h] # Nobody,
                        clients'[waiting[h]] = NoThread
                 PROVE  seen[h] \/ Asked(waiting[h])
      BY <1>1, <2>2 DEF Expected
    <3>1. waiting[h] \in Peers
      BY DEF TypeOK
    <3>2. CASE clients[waiting[h]] = NoThread
      BY <3>2 DEF ServedInv, Expected
    <3>3. CASE clients[waiting[h]] = t
      BY <1>2, <3>3 DEF Unseen
    <3> QED BY <2>1, <3>1, <3>2, <3>3
  <2>4. Results'
    BY <1>1, <2>1 DEF ServedInv, Results
  <2>5. Young'
    <3> SUFFICES ASSUME NEW h \in Handlers, Unseen(h)'
                 PROVE  /\ life'[clients'[waiting[h]]] = "live"
                        /\ age'[clients'[waiting[h]]] = "recent"
      BY <1>1 DEF Young
    <3>1. waiting[h] \in Peers /\ clients'[waiting[h]] # NoThread
      BY <1>1 DEF Unseen, TypeOK
    <3>2. Unseen(h) /\ clients'[waiting[h]] = clients[waiting[h]]
      BY <1>1, <2>1, <3>1 DEF Unseen
    <3>3. clients[waiting[h]] \in Threads /\ clients[waiting[h]] # t
      BY <1>2, <3>1, <3>2 DEF TypeOK
    <3> QED BY <2>1, <3>2, <3>3 DEF ServedInv, Young
  <2> QED BY <2>3, <2>4, <2>5 DEF ServedInv
<1>3. CASE Elapse(t)
  <2>1. \A h \in Handlers : Unseen(h) => clients[waiting[h]] # t
    BY <1>3 DEF Elapse, Unseen
  <2> QED BY <1>2, <1>3, <2>1
<1>4. CASE MarkStale(t) \/ Erase(t)
  <2>1. age[t] = "stale" \/ life[t] = "marked"
    BY <1>4 DEF MarkStale, Erase
  <2>2. \A h \in Handlers : Unseen(h) => clients[waiting[h]] # t
    BY <2>1 DEF ServedInv, Young
  <2> QED BY <1>2, <1>4, <2>2
<1>5. CASE Condemn(t)
  <2>1. <<"delete", t>> \in Events
    BY DEF Events
  <2>2. \A p \in Peers : Asked(p) => Asked(p)'
    BY <1>5, <2>1, PostKeeps DEF Condemn, TypeOK
  <2>3. /\ UNCHANGED <<clients, age>> /\ life[t] = "erased" /\ life'[t] = "condemned"
        /\ \A u \in Threads : u # t => life'[u] = life[u]
    BY <1>5 DEF Condemn, Staying, TypeOK
  <2>4. Expected'
    BY <1>1, <2>2, <2>3 DEF ServedInv, Expected, TypeOK
  <2>5. Results'
    BY <1>1, <2>3 DEF ServedInv, Results
  <2>6. Young'
    <3>1. \A h \in Handlers : Unseen(h) => clients[waiting[h]] \in Threads \ {t}
      BY <2>3 DEF ServedInv, Young, Unseen, TypeOK
    <3> QED BY <1>1, <2>3, <3>1 DEF ServedInv, Young, Unseen
  <2> QED BY <2>4, <2>5, <2>6 DEF ServedInv
<1> QED BY <1>3, <1>4, <1>5

LEMMA ServedStep ==
    ASSUME Inv, ServedInv, [Next]_vars
    PROVE  ServedInv'
<1> USE ConstantsAssumption DEF Inv
<1>1. ASSUME NEW h \in Handlers, NEW p \in Peers, BeginCall(h, p) PROVE ServedInv'
  <2>1. clients[p] \in Threads
    BY <1>1 DEF BeginCall, TypeOK
  <2> QED BY <1>1, <2>1, ServedTouch DEF BeginCall, Found
<1>2. ASSUME NEW p \in Peers, ImagePlease(p) PROVE ServedInv'
  <2>1. clients[p] \in Threads
    BY <1>2 DEF ImagePlease, TypeOK
  <2> QED BY <1>2, <2>1, ServedTouch DEF ImagePlease, Found, calls
<1>3. ASSUME NEW h \in Handlers, UseThread(h) \/ EndCall(h) PROVE ServedInv'
  BY <1>3, ServedFramed DEF UseThread, EndCall, threads, main, calls, Asked
<1>4. ASSUME NEW t \in Threads, ImageReady(t) \/ Service(t) \/ Pruned(t) \/ Orphaned(t)
      PROVE  ServedInv'
  <2>1. \A u \in Threads : age'[u] \in {age[u], "recent"}
    BY <1>4 DEF ImageReady, Service, Pruned, Orphaned, TypeOK
  <2> QED BY <1>4, <2>1, ServedFramed
             DEF ImageReady, Service, Pruned, Orphaned, main, calls, Asked
<1>5. ASSUME NEW t \in Threads, GoToSleep(t) PROVE ServedInv'
  <2>1. <<"sleep", t>> \in Events
    BY DEF Events
  <2>2. \A p \in Peers : Asked(p) => Asked(p)'
    BY <1>5, <2>1, PostKeeps DEF GoToSleep, TypeOK
  <2> QED BY <1>5, <2>2, ServedFramed DEF GoToSleep, threads, calls
<1>6. CASE Slot
  <2>1. \A p \in Peers : Asked(p) => Asked(p)'
    BY <1>6, TakeKeeps DEF Slot, TypeOK
  <2> QED BY <1>6, <2>1, ServedFramed DEF Slot, calls
<1>7. CASE Delete
  <2>1. \A p \in Peers : Asked(p) => Asked(p)'
    BY <1>7, TakeKeeps DEF Delete, TypeOK
  <2>2. 1 \in DOMAIN events /\ events[1] = Head(events) /\ Head(events) \in Events
    BY <1>7, TakeType DEF Delete, TypeOK
  <2>3. Head(events)[2] \in Threads /\ life[Head(events)[2]] = "condemned"
    BY <1>7, <2>2, EventKinds DEF Delete, CondemnedOnly
  <2>4. /\ UNCHANGED <<clients, building, waiting, seen>>
        /\ life' = [life EXCEPT ![Head(events)[2]] = "absent"]
        /\ configured' = [configured EXCEPT ![Head(events)[2]] = "no"]
        /\ age' = [age EXCEPT ![Head(events)[2]] = "recent"]
    BY <1>7 DEF Delete, calls
  <2>5. \A u \in Threads :
           life[u] # "condemned" =>
               life'[u] = life[u] /\ age'[u] = age[u] /\ configured'[u] = configured[u]
    BY <2>3, <2>4 DEF TypeOK
  <2>6. \A u \in Threads : life'[u] \in {"live", "marked"} => life[u] = life'[u]
    BY <2>3, <2>4 DEF TypeOK
  <2>7. Expected'
    BY <2>1, <2>4 DEF ServedInv, Expected, TypeOK
  <2>8. Results'
    BY <2>4, <2>5, <2>6 DEF ServedInv, Results
  <2>9. Young'
    <3>1. \A h \in Handlers : Unseen(h) => clients[waiting[h]] \in Threads
      BY DEF Unseen, TypeOK
    <3> QED BY <2>4, <2>5, <3>1 DEF ServedInv, Young, Unseen
  <2> QED BY <2>7, <2>8, <2>9 DEF ServedInv
<1>8. CASE ThreadConfigured
  <2>1. PICK result \in {"yes", "failed"} :
          /\ configured' = [configured EXCEPT ![building] = result]
          /\ age' = IF result = "yes" THEN [age EXCEPT ![building] = "recent"] ELSE age
    BY <1>8 DEF ThreadConfigured
  <2>2. /\ building \in Threads
        /\ UNCHANGED <<clients, life, waiting, seen, events>>
    BY <1>8 DEF ThreadConfigured, calls, TypeOK
  <2>3. \A u \in Threads : age'[u] \in {age[u], "recent"}
    BY <2>1, <2>2 DEF TypeOK
  <2>4. Expected'
    BY <2>2 DEF ServedInv, Expected, Asked
  <2>5. Results'
    BY <2>1, <2>2 DEF ServedInv, Results, TypeOK
  <2>6. Young'
    BY <2>2, <2>3 DEF ServedInv, Young, Unseen, TypeOK
  <2> QED BY <2>4, <2>5, <2>6 DEF ServedInv
<1>9. CASE UNCHANGED vars
  BY <1>9, ServedFramed DEF vars, threads, main, calls, Asked
<1> QED
  BY <1>1, <1>2, <1>3, <1>4, <1>5, <1>6, <1>7, <1>8, <1>9, ServedByDoConfigure,
     ServedByConfigure, ServedByCleanup
     DEF Next, Step, Handler, MainThread, Cleanup

\* Whatever other calls, the cleanup loop and the main thread do, a Configure call
\* never waits for something that nobody is going to do (rtimvServer.cpp:651-697).
THEOREM ConfigureIsServedHolds == Spec => []ConfigureIsServed
<1>1. Init => ServedInv
  BY DEF Init, ServedInv, Expected, Results, Young, Unseen
<1>2. Inv /\ ServedInv /\ [Next]_vars => ServedInv'
  BY ServedStep
<1>3. Inv /\ ServedInv => ConfigureIsServed
  <2> SUFFICES ASSUME Inv, ServedInv, NEW h \in Handlers, waiting[h] # Nobody
               PROVE  IF clients[waiting[h]] = NoThread
                      THEN seen[h] \/ Asked(waiting[h])
                      ELSE \/ configured[clients[waiting[h]]] # "no"
                           \/ building = clients[waiting[h]]
    BY DEF ConfigureIsServed, Asked
  <2>1. waiting[h] \in Peers
    BY DEF Inv, TypeOK
  <2>2. CASE clients[waiting[h]] = NoThread
    BY <2>2 DEF ServedInv, Expected
  <2>3. CASE clients[waiting[h]] # NoThread
    <3>1. /\ clients[waiting[h]] \in Threads
          /\ life[clients[waiting[h]]] \in {"live", "marked"}
      BY <2>1, <2>3 DEF Inv, TypeOK, TableIsExact
    <3> QED BY <2>3, <3>1 DEF ServedInv, Results
  <2> QED BY <2>2, <2>3
<1>4. QED
  BY <1>1, <1>2, <1>3, Invariance, PTL DEF Spec
=============================================================================
