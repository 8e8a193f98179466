------------------------- MODULE ImagePleaseService -------------------------
(***************************************************************************)
(* What ImagePlease promises a client of rtimvServer, without threads,     *)
(* queues or events (proto ImagePlease; rtimvServerThread.cpp:359-558): a  *)
(* call waits until it is answered, once; an answer that carries an image  *)
(* shows a response at least as new as its serial; the serial never runs   *)
(* ahead of the responses that were made.                                  *)
(***************************************************************************)
EXTENDS Naturals

CONSTANT Calls

VARIABLES
    painted,    \* responses made so far
    serial,     \* responses announced so far
    pending,    \* the calls that wait
    answer      \* the last answer to each call

svars == <<painted, serial, pending, answer>>

Answers == [status : {"none", "NO_IMAGE", "TIMEOUT", "VALID"},
            serial : Nat, content : Nat]

Unanswered == [status |-> "none", serial |-> 0, content |-> 0]

SInit ==
    /\ painted = 0
    /\ serial = 0
    /\ pending = {}
    /\ answer = [c \in Calls |-> Unanswered]

\* A response is made before it is announced.
Paint ==
    /\ painted' = painted + 1
    /\ UNCHANGED <<serial, pending, answer>>

Announce ==
    /\ serial < painted
    /\ serial' = serial + 1
    /\ UNCHANGED <<painted, pending, answer>>

Ask(c) ==
    /\ c \notin pending
    /\ pending' = pending \cup {c}
    /\ answer' = [answer EXCEPT ![c] = Unanswered]
    /\ UNCHANGED <<painted, serial>>

\* Refused at once: the stream has no image yet.
Refuse(c) ==
    /\ c \notin pending
    /\ answer' = [answer EXCEPT ![c] = [Unanswered EXCEPT !.status = "NO_IMAGE"]]
    /\ UNCHANGED <<painted, serial, pending>>

Deliver(c, a) ==
    /\ c \in pending
    /\ a.status = "VALID"
    /\ a.serial <= serial
    /\ a.serial <= a.content
    /\ a.content <= painted
    /\ answer' = [answer EXCEPT ![c] = a]
    /\ pending' = pending \ {c}
    /\ UNCHANGED <<painted, serial>>

\* Answered without an image: given up by the caller, or by the server.
GiveUp(c, a) ==
    /\ c \in pending
    /\ a \in {[Unanswered EXCEPT !.status = s] : s \in {"none", "TIMEOUT", "NO_IMAGE"}}
    /\ answer' = [answer EXCEPT ![c] = a]
    /\ pending' = pending \ {c}
    /\ UNCHANGED <<painted, serial>>

SNext ==
    \/ Paint
    \/ Announce
    \/ \E c \in Calls :
        \/ Ask(c)
        \/ Refuse(c)
        \/ Deliver(c, answer'[c])
        \/ GiveUp(c, answer'[c])

SSpec == SInit /\ [][SNext]_svars
=============================================================================
