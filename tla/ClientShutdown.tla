--------------------------- MODULE ClientShutdown ---------------------------
(***************************************************************************)
(* The end of a remote client (src/src/server/rtimvClientBase.cpp): its    *)
(* destructor against the calls that are out, their completions on gRPC    *)
(* threads, and the events on the Qt thread of rtimvBaseObject.            *)
(*                                                                         *)
(* A completion registers itself, forgets its call, goes on to post events *)
(* through the members of the client, and leaves.  The destructor waits    *)
(* for the calls group by group, and then for the completions that still   *)
(* run.  It may run on the Qt thread, as it does in the GUI, or elsewhere. *)
(***************************************************************************)
EXTENDS Naturals, Sequences

CONSTANTS Rpcs,      \* calls
          Group,     \* what each belongs to
          MaxEvents  \* bound on the events that wait on the Qt thread

\* The order in which the destructor waits for them.
Groups == <<"connection", "image", "info", "unary">>

GroupAssumption == Group \in [Rpcs -> {Groups[i] : i \in 1 .. 4}]
EventsAssumption == MaxEvents \in Nat
NobodyAssumption == "nobody" \notin Rpcs

VARIABLES
    dOnQt,      \* the destructor runs on the Qt thread
    dStage,     \* where the destructor is
    dRpc,       \* where each call is
    dCancelled, \* the calls that were told to end
    dParent,    \* m_parent of the foundation is not null
    dEvents,    \* events posted to the foundation: slots and closures
    dMutex      \* the completion that holds m_callbackActivityMutex, or none

dvars == <<dOnQt, dStage, dRpc, dCancelled, dParent, dEvents, dMutex>>

Nobody == "nobody"
Stages == {"alive", "flagged", "shut"} \cup {Groups[i] : i \in 1 .. 4}
             \cup {"activity", "gone"}
RpcStates == {"idle", "out", "entered", "begun", "recorded", "ending", "over"}

Init ==
    /\ dOnQt \in BOOLEAN
    /\ dStage = "alive" /\ dParent = TRUE
    /\ dRpc = [r \in Rpcs |-> "idle"]
    /\ dCancelled = {} /\ dEvents = <<>> /\ dMutex = Nobody

\* The Qt thread runs events unless the destructor has it.
QtRuns == dOnQt => dStage \in {"alive", "gone"}

Goes(r, from, to) ==
    dRpc[r] = from /\ dRpc' = [dRpc EXCEPT ![r] = to]

\* A slot, a timer or the user makes a call, unless it sees the flag.
Dispatch(r) ==
    /\ QtRuns /\ dStage = "alive"
    /\ Goes(r, "idle", "out")
    /\ UNCHANGED <<dOnQt, dStage, dCancelled, dParent, dEvents, dMutex>>

\* gRPC calls the completion: answered, out of time, or cancelled.
Enter(r) ==
    /\ Goes(r, "out", "entered")
    /\ UNCHANGED <<dOnQt, dStage, dCancelled, dParent, dEvents, dMutex>>

BeginActivity(r) ==
    /\ dMutex = Nobody
    /\ Goes(r, "entered", "begun")
    /\ UNCHANGED <<dOnQt, dStage, dCancelled, dParent, dEvents, dMutex>>

\* The call is no longer pending, and whoever waits for it is notified.
Record(r) ==
    /\ Goes(r, "begun", "recorded")
    /\ UNCHANGED <<dOnQt, dStage, dCancelled, dParent, dEvents, dMutex>>

\* The rest of the completion reaches the GUI through the foundation: by a
\* slot that asks for its owner, or by a closure that has the client in it.
PostEvent(r, event) ==
    /\ dRpc[r] = "recorded"
    /\ Len(dEvents) < MaxEvents
    /\ dStage = "alive" \/ event = "slot"
    /\ dEvents' = Append(dEvents, event)
    /\ UNCHANGED <<dOnQt, dStage, dRpc, dCancelled, dParent, dMutex>>

\* The count is lowered and the destructor notified with the mutex held.
EndActivity(r) ==
    /\ dMutex = Nobody
    /\ Goes(r, "recorded", "ending")
    /\ dMutex' = r
    /\ UNCHANGED <<dOnQt, dStage, dCancelled, dParent, dEvents>>

ReleaseActivity(r) ==
    /\ Goes(r, "ending", "over")
    /\ dMutex' = Nobody
    /\ UNCHANGED <<dOnQt, dStage, dCancelled, dParent, dEvents>>

\* The Qt thread runs what was posted.  A slot finds m_parent null after
\* shutdown, a closure reads the flag of the client.
RunEvent ==
    /\ QtRuns /\ dEvents # <<>>
    /\ dEvents' = Tail(dEvents)
    /\ UNCHANGED <<dOnQt, dStage, dRpc, dCancelled, dParent, dMutex>>

-----------------------------------------------------------------------------
Active  == {r \in Rpcs : dRpc[r] \in {"begun", "recorded"}}
Pending(g) == {r \in Rpcs : Group[r] = g /\ dRpc[r] \in {"out", "entered", "begun"}}

Flag ==
    /\ dStage = "alive" /\ dStage' = "flagged"
    /\ UNCHANGED <<dOnQt, dRpc, dCancelled, dParent, dEvents, dMutex>>

\* Directly, or by a call into the Qt thread that waits for it.
ShutFoundation ==
    /\ dStage = "flagged" /\ dStage' = "shut"
    /\ dParent' = FALSE
    /\ UNCHANGED <<dOnQt, dRpc, dCancelled, dEvents, dMutex>>

\* What the wait for group i comes after.
Before(i) == IF i = 1 THEN "shut" ELSE Groups[i - 1]

\* Mutant of Cancel: the calls about details and ages are forgotten.
CancelMost(i) ==
    /\ i # 3
    /\ dStage = Before(i)
    /\ dCancelled' = dCancelled \cup Pending(Groups[i])
    /\ dCancelled' # dCancelled
    /\ UNCHANGED <<dOnQt, dStage, dRpc, dParent, dEvents, dMutex>>

\* Images and the unary calls are given time before they are cancelled.
Cancel(i) ==
    /\ dStage = Before(i)
    /\ dCancelled' = dCancelled \cup Pending(Groups[i])
    /\ dCancelled' # dCancelled
    /\ UNCHANGED <<dOnQt, dStage, dRpc, dParent, dEvents, dMutex>>

WaitFor(i) ==
    /\ dStage = Before(i)
    /\ Pending(Groups[i]) = {}
    /\ dStage' = Groups[i]
    /\ UNCHANGED <<dOnQt, dRpc, dCancelled, dParent, dEvents, dMutex>>

AwaitConnection == Cancel(1) \/ WaitFor(1)
AwaitImages     == Cancel(2) \/ WaitFor(2)
AwaitInfo       == Cancel(3) \/ WaitFor(3)
AwaitUnary      == Cancel(4) \/ WaitFor(4)

\* Mutant of AwaitActivity: the mutex is not taken to look at the count.
AwaitActivityUnlocked ==
    /\ dStage = "unary" /\ Active = {}
    /\ dStage' = "activity"
    /\ UNCHANGED <<dOnQt, dRpc, dCancelled, dParent, dEvents, dMutex>>

AwaitActivity ==
    /\ dStage = "unary" /\ dMutex = Nobody
    /\ Active = {}
    /\ dStage' = "activity"
    /\ UNCHANGED <<dOnQt, dRpc, dCancelled, dParent, dEvents, dMutex>>

\* With the foundation go its events; on another thread it goes later, by an
\* event of its own.
Delete ==
    /\ dStage = "activity" /\ dStage' = "gone"
    /\ dEvents' = IF dOnQt THEN <<>> ELSE dEvents
    /\ UNCHANGED <<dOnQt, dRpc, dCancelled, dParent, dMutex>>

Destruct ==
    \/ ShutFoundation \/ AwaitConnection \/ AwaitImages \/ AwaitInfo
    \/ AwaitUnary \/ AwaitActivity \/ Delete

Advance(r) ==
    BeginActivity(r) \/ Record(r) \/ EndActivity(r) \/ ReleaseActivity(r)

Completion(r) ==
    Advance(r) \/ \E event \in {"slot", "closure"} : PostEvent(r, event)

Next ==
    \/ Flag \/ Destruct \/ RunEvent
    \/ \E r \in Rpcs : Dispatch(r) \/ Enter(r) \/ Completion(r)

Spec == Init /\ [][Next]_dvars

\* Threads run; a call ends when it is cancelled or out of time, which the
\* destructor of the client does not rely on.
Fairness ==
    /\ WF_dvars(Destruct)
    /\ \A r \in Rpcs : WF_dvars((r \in dCancelled /\ Enter(r)) \/ Advance(r))

FairSpec == Spec /\ Fairness

-----------------------------------------------------------------------------
TypeOK ==
    /\ dOnQt \in BOOLEAN /\ dParent \in BOOLEAN
    /\ dStage \in Stages
    /\ dRpc \in [Rpcs -> RpcStates] /\ dCancelled \subseteq Rpcs
    /\ dEvents \in Seq({"slot", "closure"}) /\ dMutex \in Rpcs \cup {Nobody}

\* When the client is destroyed no completion is in its code, none holds its
\* mutexes, and no call is out that could still call one: not for any order
\* of completions and waits (endGrpcCallbackActivity notifies with the mutex
\* held so that the condition variable is not destroyed first).
NothingOutlives ==
    dStage = "gone" => \A r \in Rpcs : dRpc[r] \in {"idle", "over"}

\* The destructor ends whatever calls were out and wherever their completions
\* were.
DestructorEnds == dStage = "flagged" ~> dStage = "gone"
=============================================================================
