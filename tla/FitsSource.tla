----------------------------- MODULE FitsSource -----------------------------
(***************************************************************************)
(* A FITS file, or a directory of FITS files, as the source of an image    *)
(* (src/src/common/images/fitsImage.cpp, fitsDirectory.cpp).               *)
(*                                                                         *)
(* The Qt thread looks for the source with a timer until it finds it, and  *)
(* then looks for changes on every update of the images; reading and then  *)
(* asking for the time of the last change are two looks at the disk.  The  *)
(* frames of a cube are stepped through by the Qt thread's timer, and, in  *)
(* the server, by calls of clients.                                        *)
(***************************************************************************)
EXTENDS CubeFrames

CONSTANTS MaxFrames,   \* bound on the frames of a cube
          MaxWrites,   \* bound on changes of the disk
          MaxSteps     \* bound on steps through the cube

FramesAssumption == MaxFrames \in Nat \ {0}
WritesAssumption == MaxWrites \in Nat /\ MaxSteps \in Nat
UintAssumption == Uint \in Nat /\ Uint > MaxFrames

VARIABLES
    fKind,     \* "file" or "directory"
    fDisk,     \* whether it is there, when it was last written, and its size
    f,         \* the members of the source
    fSeeks,    \* m_timer is running
    fAt,       \* what the Qt thread does: "idle", or about to look at the time
    fCount,    \* writes and steps so far
    fRaced,    \* for the properties: written between reading and looking
    fDead      \* last_write_time has thrown

fvars == <<fKind, fDisk, f, fSeeks, fAt, fCount, fRaced, fDead>>

Disk == [there : BOOLEAN, stamp : Nat, frames : 1 .. MaxFrames]

\* data is the version of what m_data holds, or 0; curr the frame that
\* m_currData points to.
Source == [found : BOOLEAN, updated : BOOLEAN, data : Nat, frames : Nat,
           no : Nat, next : Nat, curr : Nat, seen : Nat]

Init ==
    /\ fKind \in {"file", "directory"}
    /\ fDisk \in [there : BOOLEAN, stamp : {1}, frames : 1 .. MaxFrames]
    /\ f = [found |-> FALSE, updated |-> FALSE, data |-> 0, frames |-> 0,
            no |-> 0, next |-> 0, curr |-> 0, seen |-> 0]
    /\ fSeeks = TRUE /\ fAt = "idle"
    /\ fCount = [writes |-> 0, steps |-> 0]
    /\ fRaced = FALSE /\ fDead = FALSE

Running == ~fDead /\ fAt = "idle"

-----------------------------------------------------------------------------
\* Which frame is next.
Step(next) ==
    /\ Running /\ f.frames > 0
    /\ fCount.steps < MaxSteps
    /\ fCount' = [fCount EXCEPT !.steps = @ + 1]
    /\ f' = [f EXCEPT !.next = next]
    /\ UNCHANGED <<fKind, fDisk, fSeeks, fAt, fRaced, fDead>>

\* updateCube, cubeFrame and cubeFrameDelta of rtimvBase.
UpdateCube == Step(IncImageNo(f.no, f.frames)) \/ Step(DecImageNo(f.no, f.frames))
CubeFrame(n) == Step(ImageNo(n, f.frames))
CubeFrameDelta(d) == Step(DeltaImageNo(d, f.no, f.next, f.frames))

-----------------------------------------------------------------------------
\* Reading the file gives the whole cube; the memory is exchanged when the
\* number of pixels changes, and only then m_currData is the first frame.
ReadFile ==
    LET fresh == f.data = 0 \/ f.frames # fDisk.frames
    IN [f EXCEPT !.data = fDisk.stamp, !.frames = fDisk.frames,
                 !.curr = IF fresh THEN 0 ELSE @]

\* Reading a directory gives the names; a frame is read when it is next.
ReadNames == [f EXCEPT !.frames = fDisk.frames, !.no = 1, !.next = 0]

Lost == [f EXCEPT !.data = 0, !.found = FALSE]

\* imageTimerout and imConnect, up to the look at the time.
ImConnect ==
    /\ Running /\ fSeeks
    /\ IF fDisk.there
       THEN /\ f' = [(IF fKind = "file" THEN ReadFile ELSE ReadNames)
                        EXCEPT !.found = TRUE, !.updated = FALSE]
            /\ fSeeks' = FALSE /\ fAt' = "look"
       ELSE /\ f' = [f EXCEPT !.found = FALSE, !.updated = FALSE]
            /\ UNCHANGED <<fSeeks, fAt>>
    /\ UNCHANGED <<fKind, fDisk, fCount, fRaced, fDead>>

\* last_write_time throws when there is nothing, and nobody catches it.
Look ==
    /\ ~fDead /\ fAt = "look"
    /\ fAt' = "idle"
    /\ IF fDisk.there
       THEN f' = [f EXCEPT !.seen = fDisk.stamp] /\ UNCHANGED fDead
       ELSE fDead' = TRUE /\ UNCHANGED f
    /\ UNCHANGED <<fKind, fDisk, fSeeks, fCount, fRaced>>

Detach == f' = Lost /\ fSeeks' = TRUE

Quietly == UNCHANGED <<fKind, fDisk, fCount, fRaced>>

\* update of a file.
FirstUpdate ==
    /\ Running /\ fKind = "file" /\ f.found /\ ~f.updated
    /\ f' = [f EXCEPT !.updated = TRUE]
    /\ UNCHANGED <<fSeeks, fAt, fDead>> /\ Quietly

UpdateGone ==
    /\ Running /\ f.found /\ ~fDisk.there
    /\ fKind = "file" => f.updated
    /\ fDead' = TRUE
    /\ UNCHANGED <<f, fSeeks, fAt>> /\ Quietly

Unseen == f.seen # fDisk.stamp

\* Mutant of UpdateFile: another time is remembered before the file is read.
UpdateFileBlind ==
    /\ Running /\ fKind = "file" /\ f.found /\ f.updated /\ fDisk.there
    /\ \/ /\ Unseen
          /\ \/ f' = [f EXCEPT !.seen = fDisk.stamp] /\ UNCHANGED <<fAt, fSeeks>>
             \/ fCount.writes < MaxWrites /\ Detach /\ UNCHANGED fAt
       \/ /\ ~Unseen /\ f.next # f.no
          /\ f' = [f EXCEPT !.no = f.next, !.curr = f.next]
          /\ UNCHANGED <<fSeeks, fAt>>
    /\ UNCHANGED fDead /\ Quietly

\* The file is there but cannot be read when it is still being written.
UpdateFile ==
    /\ Running /\ fKind = "file" /\ f.found /\ f.updated /\ fDisk.there
    /\ \/ /\ Unseen
          /\ \/ f' = ReadFile /\ fAt' = "look" /\ UNCHANGED fSeeks
             \/ fCount.writes < MaxWrites /\ Detach /\ UNCHANGED fAt
       \/ /\ ~Unseen /\ f.next # f.no
          /\ f' = [f EXCEPT !.no = f.next, !.curr = f.next]
          /\ UNCHANGED <<fSeeks, fAt>>
    /\ UNCHANGED fDead /\ Quietly

\* update of a directory, which starts over when the directory has changed or
\* the next frame cannot be read; with one file no frame is ever read.
ReadFrame == [f EXCEPT !.no = f.next, !.curr = f.next, !.data = fDisk.stamp]

UpdateDirectory ==
    /\ Running /\ fKind = "directory" /\ f.found /\ fDisk.there
    /\ \/ Unseen /\ Detach
       \/ /\ ~Unseen /\ f.frames > 1 /\ f.next # f.no
          /\ \/ f.next < f.frames /\ f' = ReadFrame /\ UNCHANGED fSeeks
             \/ /\ f.next >= f.frames \/ fCount.writes < MaxWrites
                /\ f' = [Lost EXCEPT !.no = f.next] /\ fSeeks' = TRUE
    /\ UNCHANGED <<fAt, fDead>> /\ Quietly

Update == FirstUpdate \/ UpdateGone \/ UpdateFile \/ UpdateDirectory

-----------------------------------------------------------------------------
\* The source is written anew, or removed.
DiskChanges(there, frames) ==
    /\ fCount.writes < MaxWrites
    /\ fCount' = [fCount EXCEPT !.writes = @ + 1]
    /\ fDisk' = [there |-> there, frames |-> frames, stamp |-> fDisk.stamp + 1]
    /\ fRaced' = (fRaced \/ fAt = "look")
    /\ UNCHANGED <<fKind, f, fSeeks, fAt, fDead>>

Offsets == -MaxFrames - 1 .. MaxFrames + 1

Next ==
    \/ ImConnect \/ Look \/ Update
    \/ UpdateCube
    \/ \E n \in 0 .. MaxFrames : CubeFrame(n)
    \/ \E d \in Offsets : CubeFrameDelta(d)
    \/ \E frames \in 1 .. MaxFrames :
          \E there \in BOOLEAN : DiskChanges(there, frames)

Spec == Init /\ [][Next]_fvars

\* The timers of the Qt thread.
Fairness == WF_fvars(ImConnect) /\ WF_fvars(Look) /\ WF_fvars(Update)

-----------------------------------------------------------------------------
TypeOK ==
    /\ fKind \in {"file", "directory"}
    /\ fDisk \in Disk /\ f \in Source
    /\ fSeeks \in BOOLEAN /\ fAt \in {"idle", "look"}
    /\ fRaced \in BOOLEAN /\ fDead \in BOOLEAN
    /\ fCount \in [writes : 0 .. MaxWrites, steps : 0 .. MaxSteps]

\* One change of the frame by at most the length of the cube, from a frame that
\* is shown, goes around the cube (deltaImageNo).
DeltaIsModular ==
    f.found /\ f.next = f.no /\ f.no < f.frames =>
        \A d \in -f.frames .. f.frames : DeltaImageNo(d, f.no, f.next, f.frames) = (f.no + d) % f.frames

\* A time that counts as seen is that of the version that was read, so that no write
\* is taken for one that is shown, unless it came between the two looks at the
\* disk; and a source that was lost is looked for again (fitsImage.cpp:337-404,
\* fitsDirectory.cpp:300-377).  A directory may not have read a frame yet.
SeenIsShown ==
    fAt = "idle" /\ ~fDead =>
        /\ fSeeks <=> ~f.found
        /\ f.found /\ ~fRaced =>
              \/ f.data = f.seen
              \/ fKind = "directory" /\ f.data = 0

\* A file that is not written any more is shown as it was written last,
\* unless it was written between reading it and looking at its time.
RewriteIsShown ==
    fKind = "file" =>
        <>[](~fDead /\ ~fRaced /\ fDisk.there => f.data = fDisk.stamp)

=============================================================================
