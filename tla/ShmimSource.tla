---------------------------- MODULE ShmimSource -----------------------------
(***************************************************************************)
(* A shared memory stream of ImageStreamIO as the source of an image       *)
(* (src/src/common/images/shmimImage.cpp).                                 *)
(*                                                                         *)
(* The Qt thread looks for the stream with a timer, maps it, and asks for  *)
(* its inode: two looks at the path.  On every update it compares the      *)
(* frame counter; after a while without a new frame it looks whether the   *)
(* path is still the stream it has mapped.  The producer creates, writes,  *)
(* resizes, cleans up, removes and replaces the stream at any time, and    *)
(* what was removed stays mapped.                                          *)
(***************************************************************************)
EXTENDS Naturals

CONSTANTS MaxStreams,  \* bound on the streams the producer creates
          MaxFrames    \* bound on frames of one stream and on its sizes

StreamsAssumption == MaxStreams \in Nat /\ MaxFrames \in Nat \ {0}

VARIABLES
    sPath,      \* the stream at the path, or 0
    sStreams,   \* what each stream is like
    s,          \* the members of the source
    sSeeks,     \* m_timer is running
    sAt,        \* what the Qt thread does: "idle", or about to ask for the inode
    sRaced      \* for the properties: replaced between mapping and asking

svars == <<sPath, sStreams, s, sSeeks, sAt, sRaced>>

Idents == 1 .. MaxStreams
Stream == [state : {"none", "starting", "on", "gone"}, size : 1 .. 2, cnt : Nat]

\* mapped is the stream behind m_image, last is m_lastCnt0 + 1, and shown the
\* frame and stream the GUI was given.
Source == [attached : BOOLEAN, mapped : 0 .. MaxStreams, size : 0 .. 2,
           inode : 0 .. MaxStreams, last : Nat, shown : Nat \X Nat]

Init ==
    /\ sPath = 0
    /\ sStreams = [i \in Idents |-> [state |-> "none", size |-> 1, cnt |-> 1]]
    /\ s = [attached |-> FALSE, mapped |-> 0, size |-> 0, inode |-> 0,
            last |-> 0, shown |-> <<0, 0>>]
    /\ sSeeks = TRUE /\ sAt = "idle" /\ sRaced = FALSE

-----------------------------------------------------------------------------
(* The producer.                                                           *)

Client == <<s, sSeeks, sAt>>

Create(i) ==
    /\ sPath = 0 /\ sStreams[i].state = "none"
    /\ \A j \in Idents : j < i => sStreams[j].state # "none"
    /\ sPath' = i
    /\ sStreams' = [sStreams EXCEPT ![i].state = "starting"]
    /\ UNCHANGED <<Client, sRaced>>

Start ==
    /\ sPath # 0 /\ sStreams[sPath].state = "starting"
    /\ sStreams' = [sStreams EXCEPT ![sPath].state = "on"]
    /\ UNCHANGED <<Client, sPath, sRaced>>

Write ==
    /\ sPath # 0 /\ sStreams[sPath].state = "on"
    /\ sStreams[sPath].cnt < MaxFrames
    /\ \E size \in 1 .. 2 :
          sStreams' = [sStreams EXCEPT ![sPath].cnt = @ + 1, ![sPath].size = size]
    /\ UNCHANGED <<Client, sPath, sRaced>>

\* A clean end marks the memory; a crash, or a rude restart, does not.
Remove ==
    /\ sPath # 0
    /\ sPath' = 0
    /\ sRaced' = (sRaced \/ sAt = "stat")
    /\ \/ sStreams' = [sStreams EXCEPT ![sPath].state = "gone"]
       \/ UNCHANGED sStreams
    /\ UNCHANGED Client

-----------------------------------------------------------------------------
(* The source.                                                             *)

Producer == <<sPath, sStreams, sRaced>>

\* shmimTimerout and imConnect, up to the question for the inode.
ImConnect ==
    /\ sAt = "idle" /\ sSeeks
    /\ sPath # 0 /\ sStreams[sPath].state = "on"
    /\ s' = [s EXCEPT !.mapped = sPath, !.size = sStreams[sPath].size]
    /\ sAt' = "stat"
    /\ UNCHANGED <<Producer, sSeeks>>

AskInode ==
    /\ sAt = "stat"
    /\ sAt' = "idle"
    /\ IF sPath = 0
       THEN s' = [s EXCEPT !.mapped = 0] /\ UNCHANGED sSeeks
       ELSE /\ s' = [s EXCEPT !.inode = sPath, !.attached = TRUE]
            /\ sSeeks' = FALSE
    /\ UNCHANGED Producer

Mapped == sStreams[s.mapped]

Detach ==
    /\ s' = [s EXCEPT !.attached = FALSE, !.mapped = 0, !.last = 0]
    /\ sSeeks' = TRUE

\* update: the producer has cleaned up, or the size is another one.
UpdateGone ==
    /\ sAt = "idle" /\ s.attached
    /\ Mapped.state = "gone" \/ Mapped.size # s.size
    /\ Detach
    /\ UNCHANGED <<Producer, sAt>>

UpdateFrame ==
    /\ sAt = "idle" /\ s.attached
    /\ Mapped.state # "gone" /\ Mapped.size = s.size
    /\ Mapped.cnt # s.last
    /\ s' = [s EXCEPT !.last = Mapped.cnt, !.shown = <<s.mapped, Mapped.cnt>>]
    /\ UNCHANGED <<Producer, sAt, sSeeks>>

\* Mutant of UpdateOld: only a path without a stream is another stream.
UpdateOldMissing ==
    /\ sAt = "idle" /\ s.attached
    /\ Mapped.state # "gone" /\ Mapped.size = s.size
    /\ Mapped.cnt = s.last
    /\ sPath = 0
    /\ Detach
    /\ UNCHANGED <<Producer, sAt>>

\* A quarter of a second without a frame: is the path still this stream?
UpdateOld ==
    /\ sAt = "idle" /\ s.attached
    /\ Mapped.state # "gone" /\ Mapped.size = s.size
    /\ Mapped.cnt = s.last
    /\ sPath # s.inode
    /\ Detach
    /\ UNCHANGED <<Producer, sAt>>

Update == UpdateGone \/ UpdateFrame \/ UpdateOld

Next ==
    \/ \E i \in Idents : Create(i)
    \/ Start \/ Write \/ Remove
    \/ ImConnect \/ AskInode \/ Update

Spec == Init /\ [][Next]_svars

\* The timers of the Qt thread.
Fairness == WF_svars(ImConnect) /\ WF_svars(AskInode) /\ WF_svars(Update)

-----------------------------------------------------------------------------
TypeOK ==
    /\ sPath \in 0 .. MaxStreams
    /\ sStreams \in [Idents -> Stream] /\ s \in Source
    /\ sSeeks \in BOOLEAN /\ sAt \in {"idle", "stat"} /\ sRaced \in BOOLEAN

\* Whatever the producer does, the source looks for a stream or has one; the inode it
\* compares is that of the memory it has mapped, and the counter it compares is that
\* of the frame of this very stream which it has shown: it does not take a new
\* stream for the old one because it has the same counter (shmimImage.cpp:168-331).
NeverDeaf ==
    sAt = "idle" =>
        /\ sSeeks <=> ~s.attached
        /\ s.attached =>
              /\ sRaced \/ s.inode = s.mapped
              /\ s.last # 0 => s.shown = <<s.mapped, s.last>>

\* However the producer ended, crashed, restarted or resized its stream, the
\* newest frame of the stream at the path is shown in the end, unless the
\* stream was replaced between the mapping and the question for its inode.
StreamIsFollowed ==
    <>[](~sRaced /\ sPath # 0 /\ sStreams[sPath].state = "on"
            => s.attached /\ s.shown = <<sPath, sStreams[sPath].cnt>>)
=============================================================================
