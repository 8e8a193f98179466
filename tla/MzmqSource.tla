----------------------------- MODULE MzmqSource -----------------------------
(***************************************************************************)
(* A milkzmq stream as the source of an image                              *)
(* (src/src/common/images/mzmqImage.cpp).                                  *)
(*                                                                         *)
(* A thread of its own asks the server for one frame after the other,      *)
(* exchanges the memory with m_accessMutex when the size changes, then     *)
(* takes over the frame number, and then copies the pixels without the     *)
(* mutex.  The Qt thread compares the frame numbers without the mutex and  *)
(* reads the pixels with it.                                               *)
(***************************************************************************)
EXTENDS Naturals

CONSTANTS MaxFrames,  \* bound on the frames the server makes
          MaxDowns    \* bound on the ends of the server

FramesAssumption == MaxFrames \in Nat /\ MaxDowns \in Nat

VARIABLES
    zServer,    \* the server is up, its frame and its size
    zWire,      \* what is on its way: a request, a frame, or nothing
    zAt,        \* where the thread is
    zMsg,       \* the frame the thread has received
    zBuffer,    \* m_data: its size (0 when null) and the frame in it
    zDims,      \* m_nx and m_ny
    zAttached,  \* m_imageAttached
    zCnt,       \* m_cnt0 and m_lastCnt0 + 1
    zReads,     \* the Qt thread holds the mutex to read, the size it reads, or 0
    zDowns      \* ends of the server

zvars == <<zServer, zWire, zAt, zMsg, zBuffer, zDims, zAttached, zCnt, zReads,
           zDowns>>

FrameSizes == 1 .. 2
Frame == [size : 0 .. 2, no : Nat]
NoFrame == [size |-> 0, no |-> 0]

Init ==
    /\ zServer = [up |-> FALSE, size |-> 1, no |-> 1]
    /\ zWire = "nothing" /\ zAt = "subscribe"
    /\ zMsg = NoFrame /\ zBuffer = NoFrame
    /\ zDims = 0 /\ zAttached = FALSE
    /\ zCnt = [cnt |-> 0, last |-> 0]
    /\ zReads = 0 /\ zDowns = 0

-----------------------------------------------------------------------------
(* The server: one frame for a request, a short message when it ends.      *)

Serve ==
    /\ zServer.up /\ zWire = "request"
    /\ zWire' = "frame"
    /\ UNCHANGED <<zServer, zAt, zMsg, zBuffer, zDims, zAttached, zCnt, zReads,
                   zDowns>>

ServerUp ==
    /\ ~zServer.up
    /\ \E size \in FrameSizes : zServer' = [zServer EXCEPT !.up = TRUE, !.size = size]
    /\ UNCHANGED <<zWire, zAt, zMsg, zBuffer, zDims, zAttached, zCnt, zReads,
                   zDowns>>

\* The end may be told, and what was on its way is lost.
ServerDown ==
    /\ zServer.up /\ zDowns < MaxDowns
    /\ zDowns' = zDowns + 1
    /\ zServer' = [zServer EXCEPT !.up = FALSE]
    /\ zWire' \in {"nothing", "end"}
    /\ UNCHANGED <<zAt, zMsg, zBuffer, zDims, zAttached, zCnt, zReads>>

NewFrame ==
    /\ zServer.up /\ zServer.no < MaxFrames
    /\ zServer' = [zServer EXCEPT !.no = @ + 1]
    /\ UNCHANGED <<zWire, zAt, zMsg, zBuffer, zDims, zAttached, zCnt, zReads,
                   zDowns>>

-----------------------------------------------------------------------------
(* imageThreadExec.                                                        *)

Subscribe ==
    /\ zAt = "subscribe"
    /\ zAt' = "receive" /\ zWire' = "request"
    /\ UNCHANGED <<zServer, zMsg, zBuffer, zDims, zAttached, zCnt, zReads,
                   zDowns>>

\* Mutant of ReceiveTimeout: a request is sent again only if it was not lost.
ReceiveTimeoutSent ==
    /\ zAt = "receive" /\ zWire = "request"
    /\ zWire' = "request"
    /\ UNCHANGED <<zServer, zAt, zMsg, zBuffer, zDims, zAttached, zCnt, zReads,
                   zDowns>>

\* After a second without an answer the request is sent again.
ReceiveTimeout ==
    /\ zAt = "receive" /\ zWire \in {"nothing", "request"}
    /\ zWire' = "request"
    /\ UNCHANGED <<zServer, zAt, zMsg, zBuffer, zDims, zAttached, zCnt, zReads,
                   zDowns>>

Receive ==
    /\ zAt = "receive" /\ zWire = "frame"
    /\ zWire' = "nothing"
    /\ zMsg' = [size |-> zServer.size, no |-> zServer.no]
    /\ zAt' = "header"
    /\ UNCHANGED <<zServer, zBuffer, zDims, zAttached, zCnt, zReads, zDowns>>

\* Mutant of Reallocate: the mutex is not taken.
ReallocateUnlocked ==
    /\ zAt = "header"
    /\ zMsg.size # zDims \/ ~zAttached
    /\ zBuffer' = [size |-> zMsg.size, no |-> 0]
    /\ zDims' = zMsg.size
    /\ zAttached' = TRUE
    /\ UNCHANGED <<zServer, zWire, zAt, zMsg, zCnt, zReads, zDowns>>

\* Another size, or memory that is gone: the memory is exchanged, with the
\* mutex, and only then the image counts as attached.
Reallocate ==
    /\ zAt = "header"
    /\ zMsg.size # zDims \/ ~zAttached
    /\ zReads = 0
    /\ zBuffer' = [size |-> zMsg.size, no |-> 0]
    /\ zDims' = zMsg.size
    /\ zAttached' = TRUE
    /\ UNCHANGED <<zServer, zWire, zAt, zMsg, zCnt, zReads, zDowns>>

TakeNumber ==
    /\ zAt = "header" /\ zMsg.size = zDims /\ zAttached
    /\ zCnt' = [zCnt EXCEPT !.cnt = zMsg.no]
    /\ zAt' = "copy"
    /\ UNCHANGED <<zServer, zWire, zMsg, zBuffer, zDims, zAttached, zReads,
                   zDowns>>

\* The pixels are decoded and copied without the mutex, and the next frame is
\* asked for.
Copy ==
    /\ zAt = "copy"
    /\ zBuffer' = [zBuffer EXCEPT !.no = zMsg.no]
    /\ zAt' = "receive" /\ zWire' = "request"
    /\ UNCHANGED <<zServer, zMsg, zDims, zAttached, zCnt, zReads, zDowns>>

\* A message without pixels: the thread lets go of everything and subscribes
\* again.
DetachAndReconnect ==
    /\ zAt = "receive" /\ zWire = "end"
    /\ zReads = 0
    /\ zWire' = "nothing" /\ zAt' = "subscribe"
    /\ zBuffer' = NoFrame /\ zAttached' = FALSE
    /\ zCnt' = [zCnt EXCEPT !.last = 0]
    /\ UNCHANGED <<zServer, zMsg, zDims, zReads, zDowns>>

-----------------------------------------------------------------------------
(* The Qt thread.                                                          *)

\* update: another number is another frame.  It is read with the mutex, after
\* the image was found to be valid with the mutex.
Update ==
    /\ zReads = 0
    /\ zBuffer.size # 0 /\ zAttached /\ zCnt.cnt # zCnt.last
    /\ zCnt' = [zCnt EXCEPT !.last = zCnt.cnt]
    /\ zReads' = zDims
    /\ UNCHANGED <<zServer, zWire, zAt, zMsg, zBuffer, zDims, zAttached, zDowns>>

EndReading ==
    /\ zReads # 0
    /\ zReads' = 0
    /\ UNCHANGED <<zServer, zWire, zAt, zMsg, zBuffer, zDims, zAttached, zCnt,
                   zDowns>>

Thread ==
    \/ Subscribe \/ Receive \/ Reallocate \/ TakeNumber \/ Copy
    \/ DetachAndReconnect

Next ==
    \/ Serve \/ ServerUp \/ ServerDown \/ NewFrame
    \/ Thread \/ ReceiveTimeout
    \/ Update \/ EndReading

Spec == Init /\ [][Next]_zvars

\* Both threads run, and a server that is up answers.
Fairness ==
    /\ WF_zvars(Thread) /\ WF_zvars(ReceiveTimeout)
    /\ WF_zvars(EndReading) /\ WF_zvars(Serve)

-----------------------------------------------------------------------------
TypeOK ==
    /\ zServer \in [up : BOOLEAN, size : FrameSizes, no : Nat]
    /\ zWire \in {"nothing", "request", "frame", "end"}
    /\ zAt \in {"subscribe", "receive", "header", "copy"}
    /\ zMsg \in Frame /\ zBuffer \in Frame
    /\ zDims \in 0 .. 2 /\ zAttached \in BOOLEAN
    /\ zCnt \in [cnt : Nat, last : Nat]
    /\ zReads \in 0 .. 2 /\ zDowns \in 0 .. MaxDowns

\* While the Qt thread reads pixels the memory is there and has the size that
\* is read, whatever the server sends meanwhile.
ReadsWithinBuffer == zReads # 0 => zBuffer.size = zReads

\* While the server stays up its frames come through in the end, however the
\* server ended before and whatever was lost.
FramesComeThrough ==
    <>[](zServer.up => zAttached /\ zBuffer.size = zServer.size)
=============================================================================
