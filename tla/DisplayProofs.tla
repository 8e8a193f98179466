---------------------------- MODULE DisplayProofs ----------------------------
(***************************************************************************)
(* What is proved of the sources and of what is shown beside the image for *)
(* every value of the constants: the pixels of a stream are read from      *)
(* memory of their size (MzmqSource), a step through a cube goes around it *)
(* and no write of a file is taken for one that was read (FitsSource), a   *)
(* stream is not taken for the one before it (ShmimSource), the panel      *)
(* shows the page that is open (TextOverlays), a value stands beside the   *)
(* coordinates of its pixel and is renewed after a frame (MouseReadout),   *)
(* and the cube window shows the state it controls and the number of the   *)
(* frame (CubeControl).                                                    *)
(***************************************************************************)
EXTENDS MCDisplay, TLAPS

-----------------------------------------------------------------------------
(* The memory of a milkzmq stream.                                         *)

\* While the image counts as attached the memory has the size of m_nx, m_ny:
\* what ReadsWithinBuffer needs to be inductive.
BufferInv ==
    /\ zBuffer = [size |-> zBuffer.size, no |-> zBuffer.no]
    /\ zAttached => zBuffer.size = zDims
    /\ ReadsWithinBuffer

\* While the Qt thread reads pixels the memory is there and has the size that
\* is read, whatever the server sends meanwhile (imageThreadExec, the mutex of
\* rtimvImage).
THEOREM ReadsStayWithinBuffer == Spec => []ReadsWithinBuffer
<1> USE DEF BufferInv, ReadsWithinBuffer, Mzmq!ReadsWithinBuffer
<1>1. Init => BufferInv
  BY DEF Init, Mzmq!Init, Mzmq!NoFrame
<1>2. BufferInv /\ [Next]_vars => BufferInv'
  <2> SUFFICES ASSUME BufferInv, [Next]_vars PROVE BufferInv'
    OBVIOUS
  <2>1. CASE Mzmq!Reallocate
    BY <2>1 DEF Mzmq!Reallocate
  <2>2. CASE Mzmq!Copy
    BY <2>2 DEF Mzmq!Copy
  <2>3. CASE Mzmq!DetachAndReconnect
    BY <2>3 DEF Mzmq!DetachAndReconnect, Mzmq!NoFrame
  <2>4. CASE Mzmq!Update
    BY <2>4 DEF Mzmq!Update
  <2>5. CASE Mzmq!EndReading
    BY <2>5 DEF Mzmq!EndReading
  <2>6. CASE \/ Mzmq!Serve \/ Mzmq!ServerUp \/ Mzmq!ServerDown \/ Mzmq!NewFrame
             \/ Mzmq!Subscribe \/ Mzmq!Receive \/ Mzmq!TakeNumber
             \/ Mzmq!ReceiveTimeout \/ UNCHANGED mzmqVars
    <3>1. UNCHANGED <<zBuffer, zDims, zAttached, zReads>>
      BY <2>6
      DEF Mzmq!Serve, Mzmq!ServerUp, Mzmq!ServerDown, Mzmq!NewFrame,
          Mzmq!Subscribe, Mzmq!Receive, Mzmq!TakeNumber, Mzmq!ReceiveTimeout,
          mzmqVars
    <3> QED BY <3>1
  <2> QED
    BY <2>1, <2>2, <2>3, <2>4, <2>5, <2>6 DEF Next, vars, Mzmq!Next, Mzmq!Thread
<1>3. BufferInv => ReadsWithinBuffer
  OBVIOUS
<1> QED BY <1>1, <1>2, <1>3, PTL DEF Spec

-----------------------------------------------------------------------------
(* The steps through a cube.                                               *)

Sources == [found : BOOLEAN, updated : BOOLEAN, data : Nat,
            frames : 0 .. MaxFrames, no : Nat, next : Nat, curr : Nat, seen : Nat]

\* The numbers of the source are natural and a cube is no longer than the
\* bound, which is below 2^32.
CubeInv == f \in Sources /\ fDisk \in Fits!Disk

LEMMA Remainder ==
    ASSUME NEW n \in Nat, NEW a \in Nat, a < n
    PROVE  a % n = a
OBVIOUS

\* deltaImageNo goes around the cube, by no more than its length.
LEMMA DeltaGoesAround ==
    ASSUME CubeInv, f.next = f.no, f.no < f.frames,
           NEW d \in -f.frames .. f.frames
    PROVE  Fits!DeltaImageNo(d, f.no, f.next, f.frames) = (f.no + d) % f.frames
<1>1. /\ f.frames \in Nat /\ f.no \in Nat /\ f.frames > 0 /\ f.frames < Uint
      /\ Uint \in Nat /\ d \in Int /\ -f.frames <= d /\ d <= f.frames
  BY ConstantsAssumption
  DEF Fits!UintAssumption, Fits!FramesAssumption, CubeInv, Sources
<1>2. Fits!Behind(f.no, f.frames) = f.frames - 1 - f.no
  <2>1. f.frames - 1 - f.no \in Nat /\ f.frames - 1 - f.no < Uint
    BY <1>1
  <2> QED BY <1>1, <2>1, Remainder DEF Fits!Behind
<1>3. Fits!Reduced(d, f.frames) = d
  BY <1>1 DEF Fits!Reduced
<1>4. CASE d < 0 /\ -d > f.no
  <2>1. Fits!DeltaImageNo(d, f.no, f.next, f.frames) = f.frames + f.no + d
    BY <1>3, <1>4 DEF Fits!DeltaImageNo
  <2>2. (f.no + d) % f.frames = f.frames + f.no + d
    BY <1>1, <1>4
  <2> QED BY <2>1, <2>2
<1>5. CASE d > 0 /\ d > Fits!Behind(f.no, f.frames)
  <2>1. Fits!DeltaImageNo(d, f.no, f.next, f.frames) = d - (f.frames - f.no)
    <3>1. Fits!DeltaImageNo(d, f.no, f.next, f.frames) = (d - (f.frames - f.no)) % Uint
      BY <1>1, <1>3, <1>5 DEF Fits!DeltaImageNo
    <3>2. d - (f.frames - f.no) \in Nat /\ d - (f.frames - f.no) < Uint
      BY <1>1, <1>2, <1>5
    <3> QED BY <1>1, <3>1, <3>2, Remainder
  <2>2. (f.no + d) % f.frames = d - (f.frames - f.no)
    <3> DEFINE a == d - (f.frames - f.no)
    <3>1. a \in Nat /\ a < f.frames /\ f.no + d = a + f.frames
      BY <1>1, <1>2, <1>5
    <3> HIDE DEF a
    <3>2. (a + f.frames) % f.frames = a
      BY <1>1, <3>1
    <3> QED BY <3>1, <3>2 DEF a
  <2> QED BY <2>1, <2>2
<1>6. CASE ~(d < 0 /\ -d > f.no) /\ ~(d > 0 /\ d > Fits!Behind(f.no, f.frames))
  <2>1. Fits!DeltaImageNo(d, f.no, f.next, f.frames) = (f.no + d) % Uint
    BY <1>1, <1>3, <1>6 DEF Fits!DeltaImageNo
  <2>2. f.no + d \in Nat /\ f.no + d < f.frames
    BY <1>1, <1>2, <1>6
  <2> QED BY <1>1, <2>1, <2>2, Remainder
<1> QED BY <1>4, <1>5, <1>6

\* Whichever way the operator goes through the cube, the next frame has a
\* natural number.
LEMMA StepNext ==
    ASSUME CubeInv, f.frames > 0,
           \/ Fits!UpdateCube
           \/ \E n \in 0 .. MaxFrames : Fits!CubeFrame(n)
           \/ \E d \in Fits!Offsets : Fits!CubeFrameDelta(d)
    PROVE  \E next \in Nat : f' = [f EXCEPT !.next = next]
<1>1. /\ f.frames \in Nat /\ f.no \in Nat /\ f.next \in Nat /\ f.frames < Uint
      /\ Uint \in Nat /\ MaxFrames \in Nat /\ Uint > 0
  BY ConstantsAssumption
  DEF Fits!UintAssumption, Fits!FramesAssumption, CubeInv, Sources
<1>2. Fits!Last(f.frames) = f.frames - 1
  BY <1>1, Remainder DEF Fits!Last
<1>3. CASE Fits!UpdateCube
  <2>1. Fits!IncImageNo(f.no, f.frames) \in Nat /\ Fits!DecImageNo(f.no, f.frames) \in Nat
    BY <1>1, <1>2 DEF Fits!IncImageNo, Fits!DecImageNo
  <2> QED BY <1>3, <2>1 DEF Fits!UpdateCube, Fits!Step
<1>4. ASSUME NEW n \in 0 .. MaxFrames, Fits!CubeFrame(n)
      PROVE  \E next \in Nat : f' = [f EXCEPT !.next = next]
  <2>1. Fits!ImageNo(n, f.frames) \in Nat
    BY <1>1, <1>2 DEF Fits!ImageNo
  <2> QED BY <1>4, <2>1 DEF Fits!CubeFrame, Fits!Step
<1>5. ASSUME NEW e \in Fits!Offsets, Fits!CubeFrameDelta(e)
      PROVE  \E next \in Nat : f' = [f EXCEPT !.next = next]
  <2> DEFINE d == Fits!Reduced(e, f.frames)
  <2>1. e \in Int
    BY <1>1 DEF Fits!Offsets
  <2>2. d \in Int /\ (d < 0 => -d <= f.frames)
    <3>1. (e % Uint) % f.frames \in Nat
      <4>1. e % Uint \in Nat
        BY <1>1, <2>1
      <4> QED BY <1>1, <4>1
    <3> QED BY <1>1, <2>1, <3>1 DEF Fits!Reduced
  <2> HIDE DEF d
  <2>3. (f.next + d) % Uint \in Nat /\ (d - (f.frames - f.no)) % Uint \in Nat
    BY <1>1, <2>2
  <2>4. Fits!DeltaImageNo(e, f.no, f.next, f.frames) =
          IF d < 0 /\ -d > f.no THEN f.frames + f.no + d
          ELSE IF d > 0 /\ d > Fits!Behind(f.no, f.frames)
          THEN (d - (f.frames - f.no)) % Uint
          ELSE (f.next + d) % Uint
    BY <2>2 DEF Fits!DeltaImageNo, d
  <2>5. Fits!DeltaImageNo(e, f.no, f.next, f.frames) \in Nat
    BY <1>1, <2>2, <2>3, <2>4
  <2> QED BY <1>5, <2>5 DEF Fits!CubeFrameDelta, Fits!Step
<1> QED BY <1>3, <1>4, <1>5

LEMMA CubeStep ==
    ASSUME CubeInv, Fits!Next
    PROVE  CubeInv'
<1> USE DEF CubeInv, Fits!Disk
<1>1. /\ MaxFrames \in Nat /\ fDisk.frames \in 0 .. MaxFrames
      /\ fDisk.frames \in 1 .. MaxFrames /\ fDisk.stamp \in Nat
  BY ConstantsAssumption DEF Fits!FramesAssumption
<1>2. Fits!ReadFile \in Sources /\ Fits!ReadNames \in Sources /\ Fits!Lost \in Sources
  BY <1>1 DEF Fits!ReadFile, Fits!ReadNames, Fits!Lost, Sources
<1>3. CASE \/ Fits!UpdateCube
           \/ \E n \in 0 .. MaxFrames : Fits!CubeFrame(n)
           \/ \E d \in Fits!Offsets : Fits!CubeFrameDelta(d)
  <2>1. f.frames > 0 /\ UNCHANGED fDisk
    BY <1>3 DEF Fits!UpdateCube, Fits!CubeFrame, Fits!CubeFrameDelta, Fits!Step
  <2>2. PICK next \in Nat : f' = [f EXCEPT !.next = next]
    BY <1>3, <2>1, StepNext
  <2> QED BY <2>1, <2>2 DEF Sources
<1>4. CASE Fits!ImConnect
  <2>1. \A g \in Sources, b \in BOOLEAN :
          [g EXCEPT !.found = b, !.updated = FALSE] \in Sources
    BY DEF Sources
  <2>2. \/ f' = [Fits!ReadFile EXCEPT !.found = TRUE, !.updated = FALSE]
        \/ f' = [Fits!ReadNames EXCEPT !.found = TRUE, !.updated = FALSE]
        \/ f' = [f EXCEPT !.found = FALSE, !.updated = FALSE]
    BY <1>4 DEF Fits!ImConnect
  <2> QED BY <1>2, <1>4, <2>1, <2>2 DEF Fits!ImConnect
<1>5. CASE Fits!Look
  BY <1>1, <1>5 DEF Fits!Look, Sources
<1>6. CASE Fits!FirstUpdate \/ Fits!UpdateGone
  BY <1>6 DEF Fits!FirstUpdate, Fits!UpdateGone, Fits!Quietly, Sources
<1>7. CASE Fits!UpdateFile
  BY <1>2, <1>7 DEF Fits!UpdateFile, Fits!Detach, Fits!Quietly, Sources
<1>8. CASE Fits!UpdateDirectory
  <2>1. Fits!ReadFrame \in Sources
    BY <1>1 DEF Fits!ReadFrame, Sources
  <2>2. [Fits!Lost EXCEPT !.no = f.next] \in Sources
    BY <1>2 DEF Sources
  <2> QED
    BY <1>2, <1>8, <2>1, <2>2 DEF Fits!UpdateDirectory, Fits!Detach, Fits!Quietly
<1>9. ASSUME NEW frames \in 1 .. MaxFrames, NEW there \in BOOLEAN,
             Fits!DiskChanges(there, frames)
      PROVE  CubeInv'
  BY <1>1, <1>9 DEF Fits!DiskChanges
<1> QED
  BY <1>3, <1>4, <1>5, <1>6, <1>7, <1>8, <1>9 DEF Fits!Next, Fits!Update

LEMMA CubeInvariant == Spec => []CubeInv
<1>1. Init => CubeInv
  <2>1. SUFFICES ASSUME Fits!Init PROVE CubeInv
    BY DEF Init
  <2>2. MaxFrames \in Nat
    BY ConstantsAssumption DEF Fits!FramesAssumption
  <2> QED BY <2>1, <2>2 DEF Fits!Init, CubeInv, Sources, Fits!Disk
<1>2. CubeInv /\ [Next]_vars => CubeInv'
  <2> SUFFICES ASSUME CubeInv, [Next]_vars PROVE CubeInv'
    OBVIOUS
  <2>1. CASE Fits!Next
    BY <2>1, CubeStep
  <2>2. CASE UNCHANGED fitsVars
    BY <2>2 DEF fitsVars, CubeInv
  <2> QED BY <2>1, <2>2 DEF Next, vars
<1> QED BY <1>1, <1>2, PTL DEF Spec

\* One change of the frame by at most the length of the cube, from a frame that
\* is shown, goes around the cube (deltaImageNo).
THEOREM StepsGoAround == Spec => []DeltaIsModular
<1>1. CubeInv => DeltaIsModular
  BY DeltaGoesAround DEF DeltaIsModular, Fits!DeltaIsModular
<1> QED BY <1>1, CubeInvariant, PTL

-----------------------------------------------------------------------------
(* What the sources know of their producers.                               *)

\* Between reading a file and looking at its time the version that was read is
\* that of the disk, and a source that is lost has no pixels.
SeenInv ==
    /\ f \in Sources /\ fAt \in {"idle", "look"} /\ fKind \in {"file", "directory"}
    /\ ~fDead =>
          /\ fSeeks <=> ~f.found
          /\ ~f.found => f.data = 0 /\ fAt = "idle"
          /\ f.found /\ ~fRaced =>
                \/ f.data = IF fAt = "look" THEN fDisk.stamp ELSE f.seen
                \/ fKind = "directory" /\ f.data = 0

\* The looks of the Qt thread at the disk.
LEMMA LookSees ==
    ASSUME CubeInv, SeenInv, CubeInv',
           Fits!ImConnect \/ Fits!Look \/ Fits!Update
    PROVE  SeenInv'
<1>1. f' \in Sources
  BY DEF CubeInv
<1>2. /\ Fits!ReadFile.data = fDisk.stamp /\ Fits!ReadFile.found = f.found
      /\ Fits!ReadNames.data = f.data
      /\ Fits!Lost.data = 0 /\ ~Fits!Lost.found
      /\ Fits!ReadFrame.data = fDisk.stamp /\ Fits!ReadFrame.found = f.found
      /\ Fits!ReadFrame.seen = f.seen
  BY DEF SeenInv, Sources, Fits!ReadFile, Fits!ReadNames, Fits!Lost, Fits!ReadFrame
<1>3. CASE Fits!ImConnect
  <2>1. CASE fDisk.there
    <3>1. /\ f'.found /\ ~fSeeks' /\ fAt' = "look"
          /\ f'.data = IF fKind = "file" THEN fDisk.stamp ELSE f.data
          /\ UNCHANGED <<fKind, fDisk, fRaced, fDead>>
      BY <1>2, <1>3, <2>1
         DEF Fits!ImConnect, SeenInv, Sources, Fits!ReadFile, Fits!ReadNames
    <3>2. f.data = 0 /\ ~fDead
      BY <1>3 DEF SeenInv, Fits!ImConnect, Fits!Running
    <3> QED BY <1>1, <3>1, <3>2 DEF SeenInv
  <2>2. CASE ~fDisk.there
    <3>1. /\ ~f'.found /\ f'.data = f.data
          /\ UNCHANGED <<fSeeks, fAt, fKind, fDisk, fRaced, fDead>>
      BY <1>3, <2>2 DEF Fits!ImConnect, SeenInv, Sources
    <3>2. f.data = 0 /\ ~fDead /\ fSeeks /\ fAt = "idle"
      BY <1>3 DEF SeenInv, Fits!ImConnect, Fits!Running
    <3> QED BY <1>1, <3>1, <3>2 DEF SeenInv
  <2> QED BY <2>1, <2>2
<1>4. CASE Fits!Look
  <2>1. /\ fAt = "look" /\ fAt' = "idle" /\ ~fDead
        /\ UNCHANGED <<fKind, fDisk, fSeeks, fRaced>>
        /\ \/ fDead'
           \/ /\ ~fDead'
              /\ f'.seen = fDisk.stamp /\ f'.data = f.data /\ f'.found = f.found
    BY <1>4 DEF Fits!Look, SeenInv, Sources
  <2> QED BY <1>1, <2>1 DEF SeenInv
<1>5. CASE Fits!FirstUpdate \/ Fits!UpdateGone
  <2>1. /\ fAt' = "idle" /\ ~fDead /\ fAt = "idle"
        /\ UNCHANGED <<fKind, fDisk, fSeeks, fRaced>>
        /\ f'.seen = f.seen /\ f'.data = f.data /\ f'.found = f.found
    BY <1>5
       DEF Fits!FirstUpdate, Fits!UpdateGone, Fits!Running, Fits!Quietly, SeenInv,
           Sources
  <2> QED BY <1>1, <2>1 DEF SeenInv
<1>6. CASE Fits!UpdateFile
  <2>1. /\ fAt = "idle" /\ ~fDead /\ ~fDead' /\ f.found
        /\ UNCHANGED <<fKind, fDisk, fRaced>>
    BY <1>6 DEF Fits!UpdateFile, Fits!Running, Fits!Quietly
  <2>2. CASE f' = Fits!ReadFile /\ fAt' = "look" /\ UNCHANGED fSeeks
    BY <1>1, <1>2, <2>1, <2>2 DEF SeenInv
  <2>3. CASE Fits!Detach /\ UNCHANGED fAt
    BY <1>1, <1>2, <2>1, <2>3 DEF SeenInv, Fits!Detach
  <2>4. CASE f' = [f EXCEPT !.no = f.next, !.curr = f.next] /\ UNCHANGED <<fSeeks, fAt>>
    <3>1. f'.seen = f.seen /\ f'.data = f.data /\ f'.found = f.found
      BY <2>4 DEF SeenInv, Sources
    <3> QED BY <1>1, <2>1, <2>4, <3>1 DEF SeenInv
  <2> QED BY <1>6, <2>2, <2>3, <2>4 DEF Fits!UpdateFile
<1>7. CASE Fits!UpdateDirectory
  <2>1. /\ fAt = "idle" /\ ~fDead /\ ~fDead' /\ f.found
        /\ UNCHANGED <<fKind, fDisk, fRaced, fAt>>
    BY <1>7 DEF Fits!UpdateDirectory, Fits!Running, Fits!Quietly
  <2>2. CASE Fits!Detach
    BY <1>1, <1>2, <2>1, <2>2 DEF SeenInv, Fits!Detach
  <2>3. CASE ~Fits!Unseen /\ f' = Fits!ReadFrame /\ UNCHANGED fSeeks
    BY <1>1, <1>2, <2>1, <2>3 DEF SeenInv, Fits!Unseen
  <2>4. CASE f' = [Fits!Lost EXCEPT !.no = f.next] /\ fSeeks' = TRUE
    <3>1. f'.data = 0 /\ ~f'.found
      BY <2>4 DEF Fits!Lost, SeenInv, Sources
    <3> QED BY <1>1, <2>1, <2>4, <3>1 DEF SeenInv
  <2> QED BY <1>7, <2>2, <2>3, <2>4 DEF Fits!UpdateDirectory
<1> QED BY <1>3, <1>4, <1>5, <1>6, <1>7 DEF Fits!Update

\* The operator, and whoever writes the file.
LEMMA OthersSee ==
    ASSUME CubeInv, SeenInv, CubeInv',
           \/ Fits!UpdateCube
           \/ \E n \in 0 .. MaxFrames : Fits!CubeFrame(n)
           \/ \E d \in Fits!Offsets : Fits!CubeFrameDelta(d)
           \/ \E frames \in 1 .. MaxFrames, there \in BOOLEAN :
                 Fits!DiskChanges(there, frames)
    PROVE  SeenInv'
<1>1. CASE \/ Fits!UpdateCube
           \/ \E n \in 0 .. MaxFrames : Fits!CubeFrame(n)
           \/ \E d \in Fits!Offsets : Fits!CubeFrameDelta(d)
  <2>1. /\ f.frames > 0 /\ fAt = "idle"
        /\ UNCHANGED <<fKind, fDisk, fSeeks, fAt, fRaced, fDead>>
    BY <1>1
       DEF Fits!UpdateCube, Fits!CubeFrame, Fits!CubeFrameDelta, Fits!Step, Fits!Running
  <2>2. PICK next \in Nat : f' = [f EXCEPT !.next = next]
    BY <1>1, <2>1, StepNext
  <2>3. f'.seen = f.seen /\ f'.data = f.data /\ f'.found = f.found
    BY <2>2 DEF SeenInv, Sources
  <2> QED BY <2>1, <2>3 DEF SeenInv, CubeInv
<1>2. ASSUME NEW frames \in 1 .. MaxFrames, NEW there \in BOOLEAN,
             Fits!DiskChanges(there, frames)
      PROVE  SeenInv'
  <2>1. /\ fRaced' = (fRaced \/ fAt = "look")
        /\ UNCHANGED <<fKind, f, fSeeks, fAt, fDead>>
    BY <1>2 DEF Fits!DiskChanges
  <2> QED BY <2>1 DEF SeenInv
<1> QED BY <1>1, <1>2

\* A time that counts as seen is that of the version that was read: no write is
\* taken for one that is shown, unless it came between the two looks at the disk,
\* and a source that was lost is looked for again (imConnect, update and detach of
\* fitsImage and fitsDirectory).
THEOREM SeenIsShownHolds == Spec => []SeenIsShown
<1>1. Init => SeenInv
  <2> SUFFICES ASSUME Fits!Init PROVE SeenInv
    BY DEF Init
  <2>1. f \in Sources /\ ~f.found /\ f.data = 0
    <3>1. f = [found |-> FALSE, updated |-> FALSE, data |-> 0, frames |-> 0,
               no |-> 0, next |-> 0, curr |-> 0, seen |-> 0]
      BY DEF Fits!Init
    <3>2. 0 \in 0 .. MaxFrames
      BY ConstantsAssumption DEF Fits!FramesAssumption
    <3> QED BY <3>1, <3>2 DEF Sources
  <2>2. fSeeks /\ fAt = "idle" /\ fKind \in {"file", "directory"}
    BY DEF Fits!Init
  <2> QED BY <2>1, <2>2 DEF SeenInv
<1>2. CubeInv /\ CubeInv' /\ SeenInv /\ [Next]_vars => SeenInv'
  <2> SUFFICES ASSUME CubeInv, CubeInv', SeenInv, [Next]_vars PROVE SeenInv'
    OBVIOUS
  <2>1. CASE Fits!Next
    BY <2>1, LookSees, OthersSee DEF Fits!Next
  <2>2. CASE UNCHANGED fitsVars
    BY <2>2 DEF fitsVars, SeenInv
  <2> QED BY <2>1, <2>2 DEF Next, vars
<1>3. SeenInv => SeenIsShown
  BY DEF SeenInv, SeenIsShown, Fits!SeenIsShown
<1> QED BY <1>1, <1>2, <1>3, CubeInvariant, PTL DEF Spec

\* A stream that is mapped is the one at the path until its inode is known, and a
\* source that has none remembers no counter.
StreamInv ==
    /\ sPath \in 0 .. MaxStreams /\ sStreams \in [Shmim!Idents -> Shmim!Stream]
    /\ s \in Shmim!Source /\ sAt \in {"idle", "stat"}
    /\ sSeeks <=> ~s.attached
    /\ sAt = "stat" => ~s.attached /\ s.mapped # 0 /\ (sRaced \/ sPath = s.mapped)
    /\ ~s.attached => s.last = 0
    /\ s.attached =>
          /\ s.mapped # 0
          /\ sRaced \/ s.inode = s.mapped
          /\ s.last # 0 => s.shown = <<s.mapped, s.last>>

\* The producer leaves alone what is mapped.
LEMMA ProducerFollowed ==
    ASSUME StreamInv,
           \/ \E i \in Shmim!Idents : Shmim!Create(i)
           \/ Shmim!Start \/ Shmim!Write \/ Shmim!Remove
    PROVE  StreamInv'
<1> USE DEF Shmim!Client
<1>1. MaxStreams \in Nat
  BY ConstantsAssumption DEF Shmim!StreamsAssumption
<1>2. ASSUME NEW i \in Shmim!Idents, Shmim!Create(i) PROVE StreamInv'
  <2>1. i \in 0 .. MaxStreams
    BY <1>1 DEF Shmim!Idents
  <2>2. [sStreams[i] EXCEPT !.state = "starting"] \in Shmim!Stream
    BY DEF Shmim!Stream, StreamInv
  <2>3. sStreams' \in [Shmim!Idents -> Shmim!Stream]
    BY <1>2, <2>2 DEF Shmim!Create, StreamInv
  <2>4. sPath = 0 /\ sPath' = i /\ UNCHANGED <<s, sSeeks, sAt, sRaced>>
    BY <1>2 DEF Shmim!Create
  <2> QED BY <2>1, <2>3, <2>4 DEF StreamInv, Shmim!Source
<1>3. CASE Shmim!Start \/ Shmim!Write
  <2>1. sPath \in Shmim!Idents /\ UNCHANGED <<s, sSeeks, sAt, sRaced, sPath>>
    BY <1>1, <1>3 DEF Shmim!Start, Shmim!Write, Shmim!Idents, StreamInv
  <2>2. sStreams[sPath] \in Shmim!Stream
    BY <2>1 DEF StreamInv
  <2>3. ASSUME Shmim!Start PROVE sStreams' \in [Shmim!Idents -> Shmim!Stream]
    <3>1. [sStreams[sPath] EXCEPT !.state = "on"] \in Shmim!Stream
      BY <2>2 DEF Shmim!Stream
    <3> QED BY <2>1, <2>3, <3>1 DEF Shmim!Start, StreamInv
  <2>4. ASSUME Shmim!Write PROVE sStreams' \in [Shmim!Idents -> Shmim!Stream]
    <3>1. PICK size \in 1 .. 2 :
             sStreams' = [sStreams EXCEPT ![sPath].cnt = @ + 1, ![sPath].size = size]
      BY <2>4 DEF Shmim!Write
    <3> DEFINE counted == [sStreams[sPath] EXCEPT !.cnt = @ + 1]
               sized   == [counted EXCEPT !.size = size]
    <3>2. counted \in Shmim!Stream
      BY <2>2 DEF Shmim!Stream
    <3>3. sized \in Shmim!Stream
      BY <3>2 DEF Shmim!Stream
    <3>4. sStreams' = [sStreams EXCEPT ![sPath] = sized]
      BY <2>1, <3>1 DEF StreamInv
    <3> QED BY <2>1, <3>3, <3>4 DEF StreamInv
  <2> QED BY <1>3, <2>1, <2>3, <2>4 DEF StreamInv
<1>4. CASE Shmim!Remove
  <2>1. /\ sStreams' \in [Shmim!Idents -> Shmim!Stream]
        /\ sPath # 0 /\ sPath' = 0 /\ sPath' \in 0 .. MaxStreams
        /\ sRaced' = (sRaced \/ sAt = "stat")
        /\ UNCHANGED <<s, sSeeks, sAt>>
    BY <1>1, <1>4 DEF Shmim!Remove, Shmim!Idents, Shmim!Stream, StreamInv
  <2> QED BY <2>1 DEF StreamInv
<1> QED BY <1>2, <1>3, <1>4

\* The source maps, asks for the inode, and lets go.
LEMMA SourceFollows ==
    ASSUME StreamInv,
           Shmim!ImConnect \/ Shmim!AskInode \/ Shmim!Update
    PROVE  StreamInv'
<1> USE DEF Shmim!Producer
<1>1. /\ MaxStreams \in Nat
      /\ sPath # 0 => sPath \in Shmim!Idents
      /\ s.mapped # 0 => s.mapped \in Shmim!Idents
  BY ConstantsAssumption
     DEF Shmim!StreamsAssumption, StreamInv, Shmim!Idents, Shmim!Source
<1>2. CASE Shmim!ImConnect
  <2>1. sPath # 0 /\ sStreams[sPath].size \in 1 .. 2
    BY <1>1, <1>2 DEF Shmim!ImConnect, StreamInv, Shmim!Stream
  <2>2. sPath \in 0 .. MaxStreams /\ sStreams[sPath].size \in 0 .. 2
    BY <2>1 DEF StreamInv
  <2>4. s' = [s EXCEPT !.mapped = sPath, !.size = sStreams[sPath].size]
    BY <1>2 DEF Shmim!ImConnect
  <2>5. s' \in Shmim!Source
    BY <2>2, <2>4 DEF StreamInv, Shmim!Source
  <2>6. s'.mapped = sPath /\ s'.attached = s.attached /\ s'.last = s.last
    BY <2>4 DEF StreamInv, Shmim!Source
  <2>3. sSeeks /\ sAt' = "stat" /\ UNCHANGED <<sPath, sStreams, sRaced, sSeeks>>
    BY <1>2 DEF Shmim!ImConnect
  <2> QED BY <2>1, <2>3, <2>5, <2>6 DEF StreamInv
<1>3. CASE Shmim!AskInode
  <2>1. sAt = "stat" /\ sAt' = "idle" /\ UNCHANGED <<sPath, sStreams, sRaced>>
    BY <1>3 DEF Shmim!AskInode
  <2>2. CASE sPath = 0
    <3>1. /\ s' \in Shmim!Source /\ s'.attached = s.attached /\ s'.last = s.last
          /\ UNCHANGED sSeeks
      BY <1>1, <1>3, <2>2 DEF Shmim!AskInode, StreamInv, Shmim!Source
    <3> QED BY <2>1, <3>1 DEF StreamInv
  <2>3. CASE sPath # 0
    <3>1. /\ s' \in Shmim!Source /\ s'.attached /\ s'.last = s.last
          /\ s'.inode = sPath /\ s'.mapped = s.mapped /\ sSeeks' = FALSE
      BY <1>1, <1>3, <2>3 DEF Shmim!AskInode, StreamInv, Shmim!Source
    <3> QED BY <2>1, <3>1 DEF StreamInv
  <2> QED BY <2>2, <2>3
<1>4. CASE Shmim!UpdateGone \/ Shmim!UpdateOld
  <2>1. /\ sAt = "idle" /\ Shmim!Detach
        /\ UNCHANGED <<sPath, sStreams, sRaced, sAt>>
    BY <1>4 DEF Shmim!UpdateGone, Shmim!UpdateOld
  <2>2. 0 \in 0 .. MaxStreams
    BY <1>1
  <2>3. s' \in Shmim!Source
    BY <2>1, <2>2 DEF Shmim!Detach, StreamInv, Shmim!Source
  <2>4. ~s'.attached /\ s'.last = 0 /\ sSeeks' = TRUE
    BY <2>1 DEF Shmim!Detach, StreamInv, Shmim!Source
  <2> QED BY <2>1, <2>3, <2>4 DEF StreamInv
<1>5. CASE Shmim!UpdateFrame
  <2>1. /\ sAt = "idle" /\ s.attached
        /\ s' = [s EXCEPT !.last = sStreams[s.mapped].cnt,
                          !.shown = <<s.mapped, sStreams[s.mapped].cnt>>]
        /\ UNCHANGED <<sPath, sStreams, sRaced, sAt, sSeeks>>
    BY <1>5 DEF Shmim!UpdateFrame, Shmim!Mapped
  <2>2. sStreams[s.mapped].cnt \in Nat /\ s.mapped \in Nat
    BY <1>1, <2>1 DEF StreamInv, Shmim!Stream, Shmim!Source
  <2>3. /\ s' \in Shmim!Source /\ s'.attached /\ s'.inode = s.inode
        /\ s'.mapped = s.mapped /\ s'.shown = <<s'.mapped, s'.last>>
    BY <2>1, <2>2 DEF StreamInv, Shmim!Source
  <2> QED BY <2>1, <2>3 DEF StreamInv
<1> QED BY <1>2, <1>3, <1>4, <1>5 DEF Shmim!Update

\* Whatever the producer does, the source looks for a stream or has one, compares
\* the inode of the memory that it has mapped, and takes no new stream for the old
\* one because their counters agree (imConnect, update and detach of shmimImage).
THEOREM NeverDeafHolds == Spec => []NeverDeaf
<1>1. Init => StreamInv
  <2> SUFFICES ASSUME Shmim!Init PROVE StreamInv
    BY DEF Init
  <2>1. MaxStreams \in Nat
    BY ConstantsAssumption DEF Shmim!StreamsAssumption
  <2>2. s \in Shmim!Source /\ ~s.attached /\ s.last = 0
    BY <2>1 DEF Shmim!Init, Shmim!Source
  <2> QED BY <2>1, <2>2 DEF Shmim!Init, StreamInv, Shmim!Stream
<1>2. StreamInv /\ [Next]_vars => StreamInv'
  <2> SUFFICES ASSUME StreamInv, [Next]_vars PROVE StreamInv'
    OBVIOUS
  <2>1. CASE Shmim!Next
    BY <2>1, ProducerFollowed, SourceFollows DEF Shmim!Next
  <2>2. CASE UNCHANGED shmimVars
    BY <2>2 DEF shmimVars, StreamInv
  <2> QED BY <2>1, <2>2 DEF Next, vars
<1>3. StreamInv => NeverDeaf
  BY DEF StreamInv, NeverDeaf, Shmim!NeverDeaf
<1> QED BY <1>1, <1>2, <1>3, PTL DEF Spec

-----------------------------------------------------------------------------
(* The text panel.                                                         *)

Lines == [page : Keys, version : Nat]

\* A text is a row of lines: with that, OverlayAgrees is inductive.
PanelInv ==
    /\ tActive \in Keys \cup {Unused}
    /\ tVersion \in Nat /\ tLength \in [Keys -> Nat]
    /\ tVisible \in BOOLEAN /\ tPolling \in BOOLEAN
    /\ \E n \in Nat : tLines \in [1 .. n -> Lines]
    /\ OverlayAgrees

\* Another page, or the page again: every line is of the page.
LEMMA PageShown ==
    ASSUME PanelInv, NEW k \in Keys, tLength[k] > 0,
           tActive' = k, tVisible' = TRUE, tPolling' = (k = "i"),
           tLines' = Text!TextOf(k), tText' = Text!TextOf(k),
           UNCHANGED <<tVersion, tLength>>
    PROVE  PanelInv'
<1>1. tLength[k] \in Nat /\ tVersion \in Nat /\ k # Unused
  BY ConstantsAssumption DEF PanelInv, Text!TextOverlaysAssumption
<1>2. /\ tLines' \in [1 .. tLength[k] -> Lines]
      /\ DOMAIN tText' = 1 .. tLength[k]
      /\ \A n \in 1 .. tLength[k] : tText'[n].page = k
  BY <1>1 DEF Text!TextOf, Lines
<1>3. tText' # <<>>
  <2>1. 1 \in DOMAIN tText'
    BY <1>1, <1>2
  <2> QED BY <2>1
<1>4. OverlayAgrees'
  BY <1>1, <1>2, <1>3 DEF OverlayAgrees, Text!OverlayAgrees
<1> QED BY <1>1, <1>2, <1>4 DEF PanelInv

LEMMA RefreshShown ==
    ASSUME PanelInv, NEW k \in Keys, Text!RefreshTextOverlay(k),
           UNCHANGED <<tVersion, tLength>>
    PROVE  PanelInv'
<1>1. tActive = k /\ tVisible /\ tVisible' = TRUE /\ tPolling' = (k = "i")
  BY DEF Text!RefreshTextOverlay, PanelInv, OverlayAgrees, Text!OverlayAgrees
<1> QED BY <1>1, PageShown DEF Text!RefreshTextOverlay

\* One line of the page that is open is made again.
LEMMA LineShown ==
    ASSUME PanelInv, NEW k \in Keys, NEW n \in 1 .. MaxLines,
           Text!LineRefreshRequested(k, n)
    PROVE  PanelInv'
<1>1. CASE ~(n \in DOMAIN tLines /\ n <= tLength[k])
  BY <1>1, RefreshShown DEF Text!LineRefreshRequested
<1>2. CASE n \in DOMAIN tLines /\ n <= tLength[k]
  <2>1. /\ tLines' = [tLines EXCEPT ![n].version = tVersion] /\ tText' = tLines'
        /\ tActive = k /\ tVisible
        /\ UNCHANGED <<tActive, tVisible, tPolling, tVersion, tLength>>
    BY <1>2 DEF Text!LineRefreshRequested
  <2>2. PICK m \in Nat : tLines \in [1 .. m -> Lines]
    BY DEF PanelInv
  <2>3. /\ tLines' \in [1 .. m -> Lines]
        /\ \A j \in 1 .. m : tLines'[j].page = tLines[j].page
    BY <1>2, <2>1, <2>2 DEF PanelInv, Lines
  <2>4. DOMAIN tLines = 1 .. m /\ DOMAIN tText' = 1 .. m /\ n \in 1 .. m
    BY <1>2, <2>1, <2>2, <2>3
  <2>5. tText' # <<>>
    BY <2>4
  <2>6. \A j \in 1 .. m : tText'[j].page = k
    BY <2>1, <2>2, <2>3, <2>4 DEF PanelInv, OverlayAgrees, Text!OverlayAgrees
  <2> QED
    BY <2>1, <2>3, <2>4, <2>5, <2>6
    DEF PanelInv, OverlayAgrees, Text!OverlayAgrees
<1> QED BY <1>1, <1>2

LEMMA KeyShown ==
    ASSUME PanelInv, NEW k \in Keys, Text!KeyPress(k)
    PROVE  PanelInv'
<1>1. CASE tActive = k
  <2>1. /\ tPolling' = FALSE /\ tVisible' = FALSE /\ tActive' = Unused
        /\ tLines' = <<>> /\ UNCHANGED <<tVersion, tLength>>
    BY <1>1 DEF Text!KeyPress, Text!HideTextOverlay
  <2>2. Unused # "i"
    BY ConstantsAssumption DEF Text!TextOverlaysAssumption
  <2>3. tLines' \in [1 .. 0 -> Lines]
    BY <2>1
  <2> QED
    BY <2>1, <2>2, <2>3 DEF PanelInv, OverlayAgrees, Text!OverlayAgrees
<1>2. CASE tActive # k
  BY <1>2, PageShown DEF Text!KeyPress, Text!ShowTextOverlay
<1> QED BY <1>1, <1>2

\* The panel is open exactly while a page is, shows the text of that page and of
\* no other, and the timer that polls the server runs exactly while the
\* information page is open (hideTextOverlay, showTextOverlay,
\* refreshTextOverlayLine).
THEOREM PanelShowsItsPage == Spec => []OverlayAgrees
<1>1. Init => PanelInv
  <2>1. SUFFICES ASSUME Text!Init PROVE PanelInv
    BY DEF Init
  <2>2. Unused # "i"
    BY ConstantsAssumption DEF Text!TextOverlaysAssumption
  <2>3. tLines \in [1 .. 0 -> Lines]
    BY <2>1 DEF Text!Init
  <2>4. OverlayAgrees
    BY <2>1, <2>2 DEF Text!Init, OverlayAgrees, Text!OverlayAgrees
  <2>5. /\ tActive \in Keys \cup {Unused} /\ tVersion \in Nat
        /\ tVisible \in BOOLEAN /\ tPolling \in BOOLEAN
    BY <2>1 DEF Text!Init
  <2>6. tLength \in [Keys -> Nat]
    BY <2>1 DEF Text!Init
  <2>7. \E n \in Nat : tLines \in [1 .. n -> Lines]
    BY <2>3
  <2> QED BY <2>4, <2>5, <2>6, <2>7 DEF PanelInv
<1>2. PanelInv /\ [Next]_vars => PanelInv'
  <2> SUFFICES ASSUME PanelInv, [Next]_vars PROVE PanelInv'
    OBVIOUS
  <2>1. ASSUME NEW k \in Keys, Text!KeyPress(k) PROVE PanelInv'
    BY <2>1, KeyShown
  <2>2. ASSUME NEW k \in Keys, NEW n \in 1 .. MaxLines,
               Text!LineRefreshRequested(k, n)
        PROVE  PanelInv'
    BY <2>2, LineShown
  <2>3. CASE \/ \E k \in Keys : Text!RefreshRequested(k)
             \/ Text!UpdateAge \/ Text!InfoTick
    <3>1. PICK k \in Keys : Text!RefreshTextOverlay(k) /\ UNCHANGED <<tVersion, tLength>>
      BY <2>3, ConstantsAssumption
      DEF Text!RefreshRequested, Text!UpdateAge, Text!InfoTick, PanelInv,
          Text!TextOverlaysAssumption
    <3> QED BY <3>1, RefreshShown
  <2>4. ASSUME NEW k \in Keys, NEW n \in 0 .. MaxLines, Text!FactsChange(k, n)
        PROVE  PanelInv'
    <3>1. tLength' \in [Keys -> Nat] /\ tVersion' \in Nat
      BY <2>4, ConstantsAssumption
      DEF Text!FactsChange, PanelInv, Text!TextOverlaysAssumption
    <3> QED
      BY <2>4, <3>1 DEF Text!FactsChange, PanelInv, OverlayAgrees, Text!OverlayAgrees
  <2>5. CASE \/ \E k \in Keys, p \in Plugins : Text!RegisterTextOverlay(k, p)
             \/ UNCHANGED textVars
    <3>1. UNCHANGED <<tActive, tVisible, tLines, tText, tPolling, tLength, tVersion>>
      BY <2>5 DEF Text!RegisterTextOverlay, textVars
    <3> QED BY <3>1 DEF PanelInv, OverlayAgrees, Text!OverlayAgrees
  <2> QED
    BY <2>1, <2>2, <2>3, <2>4, <2>5 DEF Next, vars, Text!Next
<1>3. PanelInv => OverlayAgrees
  BY DEF PanelInv
<1> QED BY <1>1, <1>2, <1>3, PTL DEF Spec

-----------------------------------------------------------------------------
(* The readout of the mouse.                                               *)

\* A text whose value is of the pixel it names.
OfPixel(text) == text.value.of \in {Mouse!None, text.at}

\* Before the first frame nothing was written or asked for, so that the fields
\* are empty when the mouse leaves the window then too.
MouseInv ==
    /\ mText = [static |-> mText.static, tip |-> mText.tip, item |-> mText.item]
    /\ OfPixel(mText.static) /\ OfPixel(mText.tip) /\ OfPixel(mText.item)
    /\ mFrame \in Nat
    /\ mFrame = 0 => /\ mText.static = Mouse!Blank /\ mText.tip = Mouse!Blank
                     /\ mDue = Mouse!None
    /\ mAt = "out" => mText.static = Mouse!Blank /\ mText.tip = Mouse!Blank

LEMMA BlankIs == OfPixel(Mouse!Blank)
BY DEF OfPixel, Mouse!Blank, Mouse!NoValue, Mouse!None

\* What is taken from the cache is of the pixel it is taken for.
LEMMA ValueTaken ==
    ASSUME NEW cache, NEW at
    PROVE  OfPixel([at |-> at, value |-> Mouse!HasValue(cache, at)])
BY DEF OfPixel, Mouse!HasValue, Mouse!NoValue

LEMMA ItemTextIs ==
    ASSUME NEW text, OfPixel(text.static), OfPixel(text.tip), OfPixel(text.item),
           text = [static |-> text.static, tip |-> text.tip, item |-> text.item],
           NEW item, NEW cache
    PROVE  LET new == Mouse!ItemText(item, cache, text)
           IN  /\ new = [static |-> new.static, tip |-> new.tip, item |-> new.item]
               /\ OfPixel(new.item) /\ new.static = text.static /\ new.tip = text.tip
<1> DEFINE now == [at |-> item, value |-> Mouse!HasValue(cache, item)]
<1>1. OfPixel(now)
  BY ValueTaken
<1>2. Mouse!ItemText(item, cache, text) =
        IF item = Mouse!None THEN text ELSE [text EXCEPT !.item = now]
  BY DEF Mouse!ItemText
<1> HIDE DEF now
<1> QED BY <1>1, <1>2

\* The fields that mtxL_updateMouseCoords writes name the pixel of their value,
\* and are cleared when the mouse is not over a pixel, unless they were before.
LEMMA WrittenIs ==
    ASSUME MouseInv, NEW null, NEW at, NEW item, NEW cache
    PROVE  LET new == Mouse!Written(null, at, item, cache, mText)
           IN  /\ new = [static |-> new.static, tip |-> new.tip, item |-> new.item]
               /\ OfPixel(new.static) /\ OfPixel(new.tip) /\ OfPixel(new.item)
               /\ at \notin Pixels =>
                     \/ new.static = Mouse!Blank /\ new.tip = Mouse!Blank
                     \/ null /\ new.static = mText.static /\ new.tip = mText.tip
<1> DEFINE now == [at |-> at, value |-> Mouse!HasValue(cache, at)]
           bare == [mText EXCEPT !.static = Mouse!Blank, !.tip = Mouse!Blank]
           kept == IF null THEN mText ELSE bare
           new == Mouse!Written(null, at, item, cache, mText)
<1>1. OfPixel(now) /\ OfPixel(Mouse!Blank)
  BY ValueTaken, BlankIs
<1>2. CASE Mouse!Nulled(null, at, item)
  <2>1. new = Mouse!ItemText(item, cache, kept)
    BY <1>2 DEF Mouse!Written
  <2>2. /\ kept = [static |-> kept.static, tip |-> kept.tip, item |-> kept.item]
        /\ OfPixel(kept.static) /\ OfPixel(kept.tip) /\ OfPixel(kept.item)
        /\ \/ kept.static = Mouse!Blank /\ kept.tip = Mouse!Blank
           \/ null /\ kept.static = mText.static /\ kept.tip = mText.tip
    <3>1. CASE null
      BY <3>1 DEF MouseInv
    <3>2. CASE ~null
      BY <1>1, <3>2 DEF MouseInv
    <3> QED BY <3>1, <3>2
  <2> HIDE DEF kept, new
  <2>3. /\ new = [static |-> new.static, tip |-> new.tip, item |-> new.item]
        /\ OfPixel(new.item) /\ new.static = kept.static /\ new.tip = kept.tip
    BY <2>1, <2>2, ItemTextIs
  <2> QED BY <2>2, <2>3 DEF new
<1>3. CASE ~Mouse!Nulled(null, at, item)
  <2>1. at \in Pixels
    BY <1>3 DEF Mouse!Nulled
  <2>2. new = [mText EXCEPT !.static = IF mShow.static THEN now ELSE @,
                            !.tip    = IF mShow.tip THEN now ELSE @]
    BY <1>3 DEF Mouse!Written
  <2> HIDE DEF now, new
  <2>3. /\ new = [static |-> new.static, tip |-> new.tip, item |-> new.item]
        /\ new.static \in {now, mText.static} /\ new.tip \in {now, mText.tip}
        /\ new.item = mText.item
    BY <2>2 DEF MouseInv
  <2> QED BY <1>1, <2>1, <2>3 DEF MouseInv, new
<1> QED BY <1>2, <1>3

\* A step that leaves what is shown alone, or clears some of it.
LEMMA ClearsText ==
    ASSUME MouseInv,
           mText' = [static |-> mText'.static, tip |-> mText'.tip, item |-> mText'.item],
           mText'.static \in {mText.static, Mouse!Blank},
           mText'.tip \in {mText.tip, Mouse!Blank},
           OfPixel(mText'.item), mFrame' = mFrame,
           mFrame = 0 => mDue' = Mouse!None,
           mAt' = mAt \/ mAt' # "out"
    PROVE  MouseInv'
BY BlankIs DEF MouseInv, OfPixel

\* The shape is kept by a step that writes the fields for the mouse where it is.
LEMMA UpdateIs ==
    ASSUME MouseInv, NEW null, NEW item, NEW cache,
           mText' = Mouse!Written(null, mAt', item, cache, mText),
           mFrame' \in Nat, mFrame' # 0,
           null => mAt' = mAt
    PROVE  MouseInv'
<1>1. mAt' = "out" => mAt' \notin Pixels
  BY ConstantsAssumption DEF Mouse!MouseAssumption
<1>2. /\ mText' = [static |-> mText'.static, tip |-> mText'.tip, item |-> mText'.item]
      /\ OfPixel(mText'.static) /\ OfPixel(mText'.tip) /\ OfPixel(mText'.item)
      /\ mAt' \notin Pixels =>
            \/ mText'.static = Mouse!Blank /\ mText'.tip = Mouse!Blank
            \/ null /\ mText'.static = mText.static /\ mText'.tip = mText.tip
  BY WrittenIs
<1> QED BY <1>1, <1>2 DEF MouseInv, OfPixel

LEMMA MouseStep ==
    ASSUME MouseInv, Mouse!Next
    PROVE  MouseInv'
<1> mFrame \in Nat
  BY DEF MouseInv
<1>1. CASE Mouse!ChangeMouseCoords
  <2>1. CASE mFrame = 0
    <3>1. UNCHANGED <<mText, mDue, mFrame>>
      BY <1>1, <2>1 DEF Mouse!ChangeMouseCoords, Mouse!UpdateMouseCoords
    <3> QED BY <2>1, <3>1 DEF MouseInv, OfPixel
  <2>2. CASE mFrame # 0
    <3>1. mText' = Mouse!Written(FALSE, mAt', mItem, mCache, mText) /\ mFrame' = mFrame
      BY <1>1, <2>2 DEF Mouse!ChangeMouseCoords, Mouse!UpdateMouseCoords
    <3> QED BY <2>2, <3>1, UpdateIs
  <2> QED BY <2>1, <2>2
<1>2. CASE Mouse!ViewMoves
  <2>1. UNCHANGED <<mText, mDue, mFrame>> /\ mAt' # "out"
    BY <1>2, ConstantsAssumption DEF Mouse!ViewMoves, Mouse!MouseAssumption
  <2> QED BY <2>1 DEF MouseInv, OfPixel
<1>3. CASE Mouse!PostRecolor
  <2>1. /\ mText' = Mouse!Written(mNull, mAt', mItem, mCache, mText)
        /\ mFrame' = mFrame + 1 /\ mAt' = mAt
    <3>1. mFrame' = mFrame + 1 /\ mFrame' # 0 /\ mAt' = mAt
      BY <1>3 DEF Mouse!PostRecolor
    <3>2. Mouse!UpdateMouseCoords(mFrame', mNull, mAt, mItem, mCache, TRUE)
      BY <1>3 DEF Mouse!PostRecolor
    <3>3. mText' = Mouse!Written(mNull, mAt, mItem, mCache, mText)
      BY <3>1, <3>2 DEF Mouse!UpdateMouseCoords
    <3> QED BY <3>1, <3>3
  <2> QED BY <2>1, UpdateIs
<1>4. CASE Mouse!UserItemSelected
  <2> DEFINE text == IF mNull THEN mText
                     ELSE [mText EXCEPT !.static = Mouse!Blank, !.tip = Mouse!Blank]
  <2>1. /\ text = [static |-> text.static, tip |-> text.tip, item |-> text.item]
        /\ text.static \in {mText.static, Mouse!Blank}
        /\ text.tip \in {mText.tip, Mouse!Blank}
        /\ OfPixel(text.static) /\ OfPixel(text.tip) /\ OfPixel(text.item)
    BY BlankIs DEF MouseInv
  <2>2. UNCHANGED <<mFrame, mAt>>
    BY <1>4 DEF Mouse!UserItemSelected
  <2>3. CASE mFrame = 0
    <3>1. mText' = [text EXCEPT !.item = Mouse!Blank] /\ mDue' = mDue
      BY <1>4, <2>3 DEF Mouse!UserItemSelected
    <3> HIDE DEF text
    <3>2. /\ mText' = [static |-> mText'.static, tip |-> mText'.tip, item |-> mText'.item]
          /\ mText'.static = text.static /\ mText'.tip = text.tip
          /\ OfPixel(mText'.item)
      BY <2>1, <3>1, BlankIs
    <3> QED BY <2>1, <2>2, <2>3, <3>1, <3>2, ClearsText DEF MouseInv
  <2>4. CASE mFrame # 0
    <3>1. mText' = Mouse!ItemText(mItem', mCache, text)
      BY <1>4, <2>4 DEF Mouse!UserItemSelected
    <3> HIDE DEF text
    <3>2. /\ mText' = [static |-> mText'.static, tip |-> mText'.tip, item |-> mText'.item]
          /\ mText'.static = text.static /\ mText'.tip = text.tip
          /\ OfPixel(mText'.item)
      BY <2>1, <3>1, ItemTextIs
    <3> QED BY <2>1, <2>2, <2>4, <3>2, ClearsText
  <2> QED BY <2>3, <2>4
<1>5. CASE Mouse!UserItemDeSelected
  <2>1. mText' = [mText EXCEPT !.item = Mouse!Blank] /\ UNCHANGED <<mFrame, mAt, mDue>>
    BY <1>5 DEF Mouse!UserItemDeSelected
  <2>2. /\ mText' = [static |-> mText'.static, tip |-> mText'.tip, item |-> mText'.item]
        /\ mText'.static = mText.static /\ mText'.tip = mText.tip
        /\ OfPixel(mText'.item)
    BY <2>1, BlankIs DEF MouseInv
  <2> QED BY <2>1, <2>2, ClearsText DEF MouseInv
<1>6. CASE Mouse!DispatchMousePixelRequest
  <2>1. mFrame # 0 /\ UNCHANGED <<mFrame, mAt>>
    BY <1>6 DEF Mouse!DispatchMousePixelRequest, MouseInv
  <2>2. CASE mRemote
    <3>1. mText' = mText
      BY <1>6, <2>2 DEF Mouse!DispatchMousePixelRequest
    <3> QED BY <2>1, <3>1 DEF MouseInv, OfPixel
  <2>3. CASE ~mRemote
    <3>1. mText' = Mouse!Written(FALSE, mAt', mItem, [of |-> mDue, frame |-> mFrame], mText)
      BY <1>6, <2>1, <2>3 DEF Mouse!DispatchMousePixelRequest
    <3> QED BY <2>1, <3>1, UpdateIs
  <2> QED BY <2>2, <2>3
<1>7. CASE Mouse!ShowCoords \/ Mouse!GetPixel \/ Mouse!GetPixelEnds
  <2>1. UNCHANGED <<mText, mFrame, mAt, mDue>>
    BY <1>7 DEF Mouse!ShowCoords, Mouse!GetPixel, Mouse!GetPixelEnds
  <2> QED BY <2>1 DEF MouseInv, OfPixel
<1>8. CASE Mouse!ValueArrives
  <2>1. PICK value \in mEvent :
           Mouse!UpdateMouseCoords(mFrame, FALSE, mAt, mItem, value, FALSE)
    BY <1>8 DEF Mouse!ValueArrives, Mouse!PixelValueUpdated
  <2>2. UNCHANGED <<mFrame, mAt>>
    BY <1>8 DEF Mouse!ValueArrives
  <2>3. CASE mFrame = 0
    <3>1. UNCHANGED <<mText, mDue>>
      BY <2>1, <2>3 DEF Mouse!UpdateMouseCoords
    <3> QED BY <2>2, <3>1 DEF MouseInv, OfPixel
  <2>4. CASE mFrame # 0
    <3>1. mText' = Mouse!Written(FALSE, mAt', mItem, value, mText)
      BY <2>1, <2>2, <2>4 DEF Mouse!UpdateMouseCoords
    <3> QED BY <2>2, <2>4, <3>1, UpdateIs
  <2> QED BY <2>3, <2>4
<1> QED
  BY <1>1, <1>2, <1>3, <1>4, <1>5, <1>6, <1>7, <1>8 DEF Mouse!Next, Mouse!Answers

LEMMA MouseInvariant == Spec => []MouseInv
<1>1. Init => MouseInv
  <2> SUFFICES ASSUME Mouse!Init PROVE MouseInv
    BY DEF Init
  <2> QED
    BY BlankIs DEF Mouse!Init, MouseInv
<1>2. MouseInv /\ [Next]_vars => MouseInv'
  <2> SUFFICES ASSUME MouseInv, [Next]_vars PROVE MouseInv'
    OBVIOUS
  <2>1. CASE UNCHANGED mouseVars
    BY <2>1 DEF mouseVars, MouseInv, OfPixel
  <2>2. CASE Mouse!Next
    BY <2>2, MouseStep
  <2> QED BY <2>1, <2>2 DEF Next, vars
<1> QED BY <1>1, <1>2, PTL DEF Spec

\* However late the answers come and whatever moved meanwhile, a pixel value
\* stands beside the coordinates of its own pixel, and nothing is shown for a
\* mouse that left the window (mtxL_updateMouseCoords, pixelValueUpdated).
THEOREM ValueStaysWithPixel == Spec => []ValueIsOfPixel
<1>1. MouseInv => ValueIsOfPixel
  BY DEF MouseInv, OfPixel, ValueIsOfPixel, Mouse!ValueIsOfPixel
<1> QED BY <1>1, MouseInvariant, PTL

-----------------------------------------------------------------------------
(* The age of a value.                                                     *)

Stale(value) == value # Mouse!NoValue /\ value.frame # mFrame

\* A frame asks for a value when a region is selected or the mouse is over a pixel.
Wanted == mItem # Mouse!None \/ mAt \in Pixels

AskedAgain == mDue # Mouse!None \/ mQueued # Mouse!None

\* The fields of the mouse are empty while they are nulled or a region is
\* selected, that of the region while none is, and without a server or a frame
\* nothing is asked for.
FieldsInv ==
    /\ mCall = [stage |-> mCall.stage, of |-> mCall.of, value |-> mCall.value]
    /\ mCall.stage \in {"none", "sent", "handled"}
    /\ mNull \/ mItem # Mouse!None =>
          mText.static = Mouse!Blank /\ mText.tip = Mouse!Blank
    /\ mItem = Mouse!None \/ mFrame = 0 => mText.item = Mouse!Blank
    /\ ~mRemote \/ mFrame = 0 =>
          mEvent = {} /\ mCall.stage = "none" /\ mQueued = Mouse!None

\* A value that was read before the frame has another request behind it, wherever
\* it is: with the server, on its way to the window, or shown.
AgeInv ==
    ~mUnseen =>
        /\ mNull /\ mItem = Mouse!None => mAt \notin Pixels
        /\ mCall.stage = "handled" /\ Stale(mCall.value) /\ Wanted => AskedAgain
        /\ \A value \in mEvent : Stale(value) /\ Wanted =>
              \/ AskedAgain \/ mCall.stage = "sent"
              \/ mCall.stage = "handled" /\ mCall.value.frame = mFrame
        /\ ValueIsRenewed

RenewInv == FieldsInv /\ AgeInv

\* What mtxL_updateMouseCoords leaves in the fields.
LEMMA FieldsWritten ==
    ASSUME MouseInv, NEW null, NEW at, NEW item, NEW cache
    PROVE  LET new == Mouse!Written(null, at, item, cache, mText)
           IN  /\ Mouse!Nulled(null, at, item) =>
                     /\ ~null => new.static = Mouse!Blank /\ new.tip = Mouse!Blank
                     /\ null => new.static = mText.static /\ new.tip = mText.tip
                     /\ item # Mouse!None => new.item.value = Mouse!HasValue(cache, item)
               /\ ~Mouse!Nulled(null, at, item) =>
                     /\ mShow.static => new.static.value = Mouse!HasValue(cache, at)
                     /\ mShow.tip => new.tip.value = Mouse!HasValue(cache, at)
               /\ item = Mouse!None => new.item = mText.item
<1> DEFINE now == [at |-> at, value |-> Mouse!HasValue(cache, at)]
           there == [at |-> item, value |-> Mouse!HasValue(cache, item)]
           kept == IF null THEN mText
                   ELSE [mText EXCEPT !.static = Mouse!Blank, !.tip = Mouse!Blank]
           new == Mouse!Written(null, at, item, cache, mText)
<1>1. now.value = Mouse!HasValue(cache, at) /\ there.value = Mouse!HasValue(cache, item)
  OBVIOUS
<1>2. CASE Mouse!Nulled(null, at, item)
  <2>1. new = IF item = Mouse!None THEN kept ELSE [kept EXCEPT !.item = there]
    BY <1>2 DEF Mouse!Written, Mouse!ItemText
  <2>2. /\ kept = [static |-> kept.static, tip |-> kept.tip, item |-> kept.item]
        /\ kept.item = mText.item
        /\ ~null => kept.static = Mouse!Blank /\ kept.tip = Mouse!Blank
        /\ null => kept.static = mText.static /\ kept.tip = mText.tip
    <3>1. CASE null
      BY <3>1 DEF MouseInv
    <3>2. CASE ~null
      BY <3>2 DEF MouseInv
    <3> QED BY <3>1, <3>2
  <2> HIDE DEF kept, new, there
  <2>3. /\ new.static = kept.static /\ new.tip = kept.tip
        /\ item # Mouse!None => new.item = there
        /\ item = Mouse!None => new.item = kept.item
    BY <2>1, <2>2
  <2> QED BY <1>1, <1>2, <2>2, <2>3 DEF new
<1>3. CASE ~Mouse!Nulled(null, at, item)
  <2>1. new = [mText EXCEPT !.static = IF mShow.static THEN now ELSE @,
                            !.tip    = IF mShow.tip THEN now ELSE @]
    BY <1>3 DEF Mouse!Written
  <2> HIDE DEF now, new
  <2>2. /\ mShow.static => new.static = now
        /\ mShow.tip => new.tip = now
        /\ new.item = mText.item
    BY <2>1 DEF MouseInv
  <2> QED BY <1>1, <1>3, <2>2 DEF new
<1> QED BY <1>2, <1>3

\* An empty field shows no value of any frame.
LEMMA BlankIsCurrent ==
    /\ mText'.static = Mouse!Blank => Mouse!IsCurrent("static")'
    /\ mText'.tip = Mouse!Blank => Mouse!IsCurrent("tip")'
    /\ mText'.item = Mouse!Blank => Mouse!IsCurrent("item")'
BY DEF Mouse!IsCurrent, Mouse!Blank, Mouse!NoValue

\* The fields are written, and a value is asked for if one is shown: what a move of
\* the mouse and a frame end with.
LEMMA WritesAndAsks ==
    ASSUME MouseInv, RenewInv, NEW null, mFrame' # 0,
           Mouse!UpdateMouseCoords(mFrame', null, mAt', mItem', mCache, TRUE),
           mItem' = mItem, null => mNull,
           ~mUnseen' /\ null /\ mItem = Mouse!None => mAt' \notin Pixels,
           UNCHANGED <<mCall, mQueued, mEvent, mRemote, mShow>>
    PROVE  RenewInv'
<1>1. /\ mNull' = Mouse!Nulled(null, mAt', mItem)
      /\ mText' = Mouse!Written(null, mAt', mItem, mCache, mText)
      /\ mDue' = Mouse!Asked(null, mAt', mItem, TRUE, mDue)
  BY DEF Mouse!UpdateMouseCoords
<1>2. /\ mNull' => mText'.static = Mouse!Blank /\ mText'.tip = Mouse!Blank
      /\ mItem = Mouse!None => mText'.item = Mouse!Blank
      /\ mItem # Mouse!None => mNull'
  <2> DEFINE new == Mouse!Written(null, mAt', mItem, mCache, mText)
  <2>1. /\ Mouse!Nulled(null, mAt', mItem) =>
              /\ ~null => new.static = Mouse!Blank /\ new.tip = Mouse!Blank
              /\ null => new.static = mText.static /\ new.tip = mText.tip
        /\ mItem = Mouse!None => new.item = mText.item
    BY FieldsWritten
  <2> HIDE DEF new
  <2>2. /\ null => mText.static = Mouse!Blank /\ mText.tip = Mouse!Blank
        /\ mItem = Mouse!None => mText.item = Mouse!Blank
    BY DEF RenewInv, FieldsInv
  <2> QED BY <1>1, <2>1, <2>2 DEF new, Mouse!Nulled
<1>3. FieldsInv'
  BY <1>2 DEF RenewInv, FieldsInv
<1>4. ~mUnseen' /\ mNull' /\ mItem = Mouse!None => mAt' \notin Pixels
  BY <1>1 DEF Mouse!Nulled
<1>5. Mouse!None \notin Pixels
  BY ConstantsAssumption DEF Mouse!MouseAssumption, Mouse!None
<1>6. ~mUnseen' /\ Wanted' => mDue' # Mouse!None
  BY <1>1, <1>5 DEF Wanted, Mouse!Asked, Mouse!Nulled
<1>7. ~mUnseen' => ValueIsRenewed'
  <2>1. CASE Wanted'
    BY <1>6, <2>1 DEF ValueIsRenewed, Mouse!ValueIsRenewed, Mouse!Renewing
  <2>2. CASE ~Wanted'
    <3>1. mItem = Mouse!None /\ mAt' \notin Pixels
      BY <2>2 DEF Wanted
    <3>2. /\ mText'.static = Mouse!Blank /\ mText'.tip = Mouse!Blank
          /\ mText'.item = Mouse!Blank
      BY <1>1, <1>2, <3>1 DEF Mouse!Nulled
    <3> QED BY <3>2, BlankIsCurrent DEF ValueIsRenewed, Mouse!ValueIsRenewed
  <2> QED BY <2>1, <2>2
<1>8. AgeInv'
  BY <1>4, <1>6, <1>7 DEF AgeInv, AskedAgain
<1> QED BY <1>3, <1>8 DEF RenewInv

\* A value comes back, from the server or at once.
LEMMA ValueWritten ==
    ASSUME MouseInv, RenewInv, mFrame # 0, NEW value,
           NEW null, null = FALSE,
           mText' = Mouse!Written(null, mAt, mItem, value, mText),
           mNull' = Mouse!Nulled(null, mAt, mItem),
           UNCHANGED <<mFrame, mAt, mItem, mShow>>
    PROVE  /\ mNull' \/ mItem # Mouse!None =>
                 mText'.static = Mouse!Blank /\ mText'.tip = Mouse!Blank
           /\ mItem = Mouse!None => mText'.item = Mouse!Blank
           /\ mNull' /\ mItem = Mouse!None => mAt \notin Pixels
           /\ ~Stale(value) \/ ~Wanted =>
                 /\ mShow.static => Mouse!IsCurrent("static")'
                 /\ mShow.tip => Mouse!IsCurrent("tip")'
                 /\ Mouse!IsCurrent("item")'
<1> DEFINE new == Mouse!Written(null, mAt, mItem, value, mText)
<1>1. /\ Mouse!Nulled(null, mAt, mItem) =>
            /\ new.static = Mouse!Blank /\ new.tip = Mouse!Blank
            /\ mItem # Mouse!None => new.item.value = Mouse!HasValue(value, mItem)
      /\ ~Mouse!Nulled(null, mAt, mItem) =>
            /\ mShow.static => new.static.value = Mouse!HasValue(value, mAt)
            /\ mShow.tip => new.tip.value = Mouse!HasValue(value, mAt)
      /\ mItem = Mouse!None => new.item = mText.item
  BY FieldsWritten
<1> HIDE DEF new
<1>2. mItem = Mouse!None => mText.item = Mouse!Blank
  BY DEF RenewInv, FieldsInv
<1>3. /\ mItem # Mouse!None => mNull'
      /\ mNull' => mText'.static = Mouse!Blank /\ mText'.tip = Mouse!Blank
      /\ mItem = Mouse!None => mText'.item = Mouse!Blank
      /\ mNull' /\ mItem = Mouse!None => mAt \notin Pixels
  BY <1>1, <1>2 DEF new, Mouse!Nulled
<1>4. ASSUME ~Stale(value) \/ ~Wanted
      PROVE  /\ mShow.static => Mouse!IsCurrent("static")'
             /\ mShow.tip => Mouse!IsCurrent("tip")'
             /\ Mouse!IsCurrent("item")'
  <2>1. CASE ~Wanted
    <3>1. mText'.static = Mouse!Blank /\ mText'.tip = Mouse!Blank /\ mText'.item = Mouse!Blank
      BY <1>1, <1>3, <2>1 DEF Wanted, new, Mouse!Nulled
    <3> QED BY <3>1, BlankIsCurrent
  <2>2. CASE ~Stale(value)
    <3>1. \A at : LET taken == Mouse!HasValue(value, at)
                  IN  taken = Mouse!NoValue \/ taken.frame = mFrame
      BY <2>2 DEF Stale, Mouse!HasValue
    <3>2. mItem # Mouse!None => Mouse!IsCurrent("item")'
      BY <1>1, <3>1 DEF new, Mouse!IsCurrent, Mouse!Nulled
    <3>3. mItem = Mouse!None => Mouse!IsCurrent("item")'
      BY <1>3, BlankIsCurrent
    <3>4. CASE Mouse!Nulled(null, mAt, mItem)
      BY <1>3, <3>2, <3>3, <3>4, BlankIsCurrent
    <3>5. CASE ~Mouse!Nulled(null, mAt, mItem)
      <4>1. mShow.static => Mouse!IsCurrent("static")'
        BY <1>1, <3>1, <3>5 DEF new, Mouse!IsCurrent
      <4>2. mShow.tip => Mouse!IsCurrent("tip")'
        BY <1>1, <3>1, <3>5 DEF new, Mouse!IsCurrent
      <4> QED BY <3>2, <3>3, <4>1, <4>2
    <3> QED BY <3>4, <3>5
  <2> QED BY <1>4, <2>1, <2>2
<1> QED BY <1>3, <1>4

\* The user: the mouse, the view, the regions and the flags.
LEMMA UserRenews ==
    ASSUME MouseInv, RenewInv,
           \/ Mouse!ChangeMouseCoords \/ Mouse!ViewMoves \/ Mouse!ShowCoords
           \/ Mouse!UserItemSelected \/ Mouse!UserItemDeSelected
    PROVE  RenewInv'
<1>1. CASE Mouse!ChangeMouseCoords
  <2>1. /\ Mouse!UpdateMouseCoords(mFrame, FALSE, mAt', mItem, mCache, TRUE)
        /\ UNCHANGED <<mFrame, mItem, mCall, mQueued, mEvent, mRemote, mShow>>
    BY <1>1 DEF Mouse!ChangeMouseCoords, Mouse!askVars
  <2>2. CASE mFrame # 0
    BY <2>1, <2>2, WritesAndAsks
  <2>3. CASE mFrame = 0
    <3>1. mNull' = FALSE /\ UNCHANGED <<mText, mDue>>
      BY <2>1, <2>3 DEF Mouse!UpdateMouseCoords
    <3>2. FieldsInv'
      BY <2>1, <2>3, <3>1 DEF RenewInv, FieldsInv, MouseInv
    <3>3. /\ mText'.static = Mouse!Blank /\ mText'.tip = Mouse!Blank
          /\ mText'.item = Mouse!Blank /\ mEvent' = {} /\ mCall'.stage = "none"
      BY <2>1, <2>3, <3>1 DEF RenewInv, FieldsInv, MouseInv
    <3>4. ValueIsRenewed'
      BY <3>3, BlankIsCurrent DEF ValueIsRenewed, Mouse!ValueIsRenewed
    <3> QED BY <3>1, <3>2, <3>3, <3>4 DEF RenewInv, AgeInv
  <2> QED BY <2>2, <2>3
<1>2. CASE Mouse!ViewMoves \/ Mouse!ShowCoords
  <2>1. mUnseen' /\ UNCHANGED <<mRemote, mFrame, mItem, mNull, mCall, mQueued, mEvent, mText>>
    BY <1>2 DEF Mouse!ViewMoves, Mouse!ShowCoords, Mouse!askVars
  <2> QED BY <2>1 DEF RenewInv, FieldsInv, AgeInv
<1>3. CASE Mouse!UserItemSelected
  <2> DEFINE text == IF mNull THEN mText
                     ELSE [mText EXCEPT !.static = Mouse!Blank, !.tip = Mouse!Blank]
  <2>1. /\ mItem' # Mouse!None /\ mNull' = TRUE
        /\ UNCHANGED <<mRemote, mFrame, mAt, mCall, mQueued, mEvent, mShow, mUnseen>>
    BY <1>3, ConstantsAssumption
    DEF Mouse!UserItemSelected, Mouse!askVars, Mouse!MouseAssumption, Mouse!None
  <2>2. /\ text = [static |-> text.static, tip |-> text.tip, item |-> text.item]
        /\ text.static = Mouse!Blank /\ text.tip = Mouse!Blank
    <3>1. CASE mNull
      BY <3>1 DEF RenewInv, FieldsInv, MouseInv
    <3>2. CASE ~mNull
      BY <3>2 DEF MouseInv
    <3> QED BY <3>1, <3>2
  <2>3. CASE mFrame = 0
    <3>1. mText' = [text EXCEPT !.item = Mouse!Blank]
      BY <1>3, <2>3 DEF Mouse!UserItemSelected
    <3> HIDE DEF text
    <3>2. /\ mText'.static = Mouse!Blank /\ mText'.tip = Mouse!Blank
          /\ mText'.item = Mouse!Blank /\ mEvent' = {} /\ mCall'.stage = "none"
          /\ mQueued' = Mouse!None
      BY <2>1, <2>2, <2>3, <3>1 DEF RenewInv, FieldsInv
    <3>3. FieldsInv'
      BY <2>1, <3>2 DEF RenewInv, FieldsInv
    <3>4. ValueIsRenewed'
      BY <3>2, BlankIsCurrent DEF ValueIsRenewed, Mouse!ValueIsRenewed
    <3> QED BY <2>1, <3>2, <3>3, <3>4 DEF RenewInv, AgeInv
  <2>4. CASE mFrame # 0
    <3>1. mText' = Mouse!ItemText(mItem', mCache, text) /\ mDue' = mItem'
      BY <1>3, <2>4 DEF Mouse!UserItemSelected
    <3> HIDE DEF text
    <3>2. mText'.static = Mouse!Blank /\ mText'.tip = Mouse!Blank
      <4> DEFINE there == [at |-> mItem', value |-> Mouse!HasValue(mCache, mItem')]
      <4>1. mText' = [text EXCEPT !.item = there]
        BY <2>1, <3>1 DEF Mouse!ItemText
      <4> HIDE DEF there
      <4> QED BY <2>2, <4>1
    <3>3. FieldsInv'
      BY <2>1, <2>4, <3>2 DEF RenewInv, FieldsInv
    <3>4. mDue' # Mouse!None
      BY <2>1, <3>1
    <3> QED
      BY <2>1, <3>3, <3>4
      DEF RenewInv, AgeInv, AskedAgain, ValueIsRenewed, Mouse!ValueIsRenewed, Mouse!Renewing
  <2> QED BY <2>3, <2>4
<1>4. CASE Mouse!UserItemDeSelected
  <2>1. /\ mItem # Mouse!None /\ mItem' = Mouse!None /\ mNull' = FALSE
        /\ mText' = [mText EXCEPT !.item = Mouse!Blank]
        /\ UNCHANGED <<mRemote, mFrame, mAt, mDue, mCall, mQueued, mEvent, mShow, mUnseen>>
    BY <1>4 DEF Mouse!UserItemDeSelected, Mouse!askVars
  <2>2. /\ mText'.static = Mouse!Blank /\ mText'.tip = Mouse!Blank
        /\ mText'.item = Mouse!Blank
    BY <2>1 DEF RenewInv, FieldsInv, MouseInv
  <2>3. FieldsInv'
    BY <2>1, <2>2 DEF RenewInv, FieldsInv
  <2>4. ValueIsRenewed'
    BY <2>2, BlankIsCurrent DEF ValueIsRenewed, Mouse!ValueIsRenewed
  <2>5. AgeInv'
    BY <2>1, <2>4 DEF RenewInv, AgeInv, Wanted, AskedAgain, Stale
  <2> QED BY <2>3, <2>5 DEF RenewInv
<1> QED BY <1>1, <1>2, <1>3, <1>4

\* A frame makes every value stale, and asks for another.
LEMMA FrameRenews ==
    ASSUME MouseInv, RenewInv, Mouse!PostRecolor
    PROVE  RenewInv'
<1>1. /\ mFrame' = mFrame + 1 /\ mUnseen' = (mUnseen /\ mNull)
      /\ Mouse!UpdateMouseCoords(mFrame', mNull, mAt, mItem, mCache, TRUE)
      /\ UNCHANGED <<mRemote, mAt, mItem, mCall, mQueued, mEvent, mShow>>
  BY DEF Mouse!PostRecolor, Mouse!askVars
<1>2. mFrame' # 0
  BY <1>1 DEF MouseInv
<1>3. ~mUnseen' /\ mNull /\ mItem = Mouse!None => mAt' \notin Pixels
  BY <1>1 DEF RenewInv, AgeInv
<1>4. Mouse!UpdateMouseCoords(mFrame', mNull, mAt', mItem', mCache, TRUE)
  BY <1>1
<1>5. ASSUME NEW null, null = mNull
      PROVE  RenewInv'
  <2>1. Mouse!UpdateMouseCoords(mFrame', null, mAt', mItem', mCache, TRUE)
    BY <1>4, <1>5
  <2>2. ~mUnseen' /\ null /\ mItem = Mouse!None => mAt' \notin Pixels
    BY <1>3, <1>5
  <2>3. null => mNull
    BY <1>5
  <2>4. mItem' = mItem /\ UNCHANGED <<mCall, mQueued, mEvent, mRemote, mShow>>
    BY <1>1
  <2> QED BY <1>2, <2>1, <2>2, <2>3, <2>4, WritesAndAsks
<1> QED BY <1>5

\* The request that is due is sent, queued behind the one in flight, or answered.
LEMMA DispatchRenews ==
    ASSUME MouseInv, RenewInv, Mouse!DispatchMousePixelRequest
    PROVE  RenewInv'
<1>1. /\ mFrame # 0 /\ mDue # Mouse!None
      /\ UNCHANGED <<mRemote, mFrame, mAt, mItem, mEvent, mShow, mUnseen>>
  BY DEF MouseInv, Mouse!DispatchMousePixelRequest
<1>2. CASE mRemote /\ mCall.stage = "none"
  <2>1. mCall' = [Mouse!NoCall EXCEPT !.stage = "sent", !.of = mDue]
        /\ UNCHANGED <<mQueued, mNull, mText>>
    BY <1>2 DEF Mouse!DispatchMousePixelRequest
  <2>2. /\ mCall' = [stage |-> mCall'.stage, of |-> mCall'.of, value |-> mCall'.value]
        /\ mCall'.stage = "sent"
    BY <2>1 DEF Mouse!NoCall
  <2>3. FieldsInv'
    BY <1>1, <1>2, <2>1, <2>2 DEF RenewInv, FieldsInv
  <2>4. AgeInv'
    BY <1>1, <2>1, <2>2
    DEF RenewInv, AgeInv, ValueIsRenewed, Mouse!ValueIsRenewed, Mouse!Renewing
  <2> QED BY <2>3, <2>4 DEF RenewInv
<1>3. CASE mRemote /\ mCall.stage # "none"
  <2>1. mQueued' = mDue /\ UNCHANGED <<mCall, mNull, mText>>
    BY <1>3 DEF Mouse!DispatchMousePixelRequest
  <2>2. FieldsInv'
    BY <1>1, <1>3, <2>1 DEF RenewInv, FieldsInv
  <2>3. AgeInv'
    BY <1>1, <2>1
    DEF RenewInv, AgeInv, AskedAgain, ValueIsRenewed, Mouse!ValueIsRenewed, Mouse!Renewing
  <2> QED BY <2>2, <2>3 DEF RenewInv
<1>4. CASE ~mRemote
  <2> DEFINE value == [of |-> mDue, frame |-> mFrame]
  <2>1. /\ mNull' = Mouse!Nulled(FALSE, mAt, mItem)
        /\ mText' = Mouse!Written(FALSE, mAt, mItem, value, mText)
        /\ UNCHANGED <<mCall, mQueued>>
    BY <1>1, <1>4 DEF Mouse!DispatchMousePixelRequest, Mouse!Nulled
  <2>2. ~Stale(value)
    BY DEF Stale
  <2> HIDE DEF value
  <2>3. /\ mNull' \/ mItem # Mouse!None =>
              mText'.static = Mouse!Blank /\ mText'.tip = Mouse!Blank
        /\ mItem = Mouse!None => mText'.item = Mouse!Blank
        /\ mNull' /\ mItem = Mouse!None => mAt \notin Pixels
        /\ mShow.static => Mouse!IsCurrent("static")'
        /\ mShow.tip => Mouse!IsCurrent("tip")'
        /\ Mouse!IsCurrent("item")'
    BY <1>1, <2>1, <2>2, ValueWritten
  <2>4. mEvent' = {} /\ mCall'.stage = "none" /\ mQueued' = Mouse!None
    BY <1>1, <1>4, <2>1 DEF RenewInv, FieldsInv
  <2>5. FieldsInv'
    BY <1>1, <2>1, <2>3, <2>4 DEF RenewInv, FieldsInv
  <2>6. ValueIsRenewed'
    BY <1>1, <2>3 DEF ValueIsRenewed, Mouse!ValueIsRenewed
  <2> QED BY <1>1, <2>3, <2>4, <2>5, <2>6 DEF RenewInv, AgeInv
<1> QED BY <1>2, <1>3, <1>4

\* The server and its answers.
LEMMA AnswerRenews ==
    ASSUME MouseInv, RenewInv,
           Mouse!GetPixel \/ Mouse!GetPixelEnds \/ Mouse!ValueArrives
    PROVE  RenewInv'
<1>1. CASE Mouse!GetPixel
  <2>1. /\ mCall.stage = "sent"
        /\ mCall' = [mCall EXCEPT !.stage = "handled",
                                  !.value = [of |-> mCall.of, frame |-> mFrame]]
        /\ UNCHANGED <<mRemote, mFrame, mAt, mItem, mNull, mDue, mQueued, mEvent, mShow,
                       mText, mUnseen>>
    BY <1>1 DEF Mouse!GetPixel
  <2>2. /\ mCall' = [stage |-> mCall'.stage, of |-> mCall'.of, value |-> mCall'.value]
        /\ mCall'.stage = "handled" /\ mCall'.value.frame = mFrame
    <3> DEFINE value == [of |-> mCall.of, frame |-> mFrame]
    <3>1. value.frame = mFrame
      OBVIOUS
    <3>2. mCall' = [mCall EXCEPT !.stage = "handled", !.value = value]
      BY <2>1
    <3> HIDE DEF value
    <3> QED BY <3>1, <3>2 DEF RenewInv, FieldsInv
  <2>3. FieldsInv'
    BY <2>1, <2>2 DEF RenewInv, FieldsInv
  <2>4. AgeInv'
    BY <2>1, <2>2
    DEF RenewInv, AgeInv, Stale, ValueIsRenewed, Mouse!ValueIsRenewed, Mouse!Renewing
  <2> QED BY <2>3, <2>4 DEF RenewInv
<1>2. CASE Mouse!GetPixelEnds
  <2>1. /\ mCall.stage # "none" /\ mQueued' = Mouse!None
        /\ mCall' = IF mQueued = Mouse!None THEN Mouse!NoCall
                    ELSE [Mouse!NoCall EXCEPT !.stage = "sent", !.of = mQueued]
        /\ UNCHANGED <<mRemote, mFrame, mAt, mItem, mNull, mDue, mShow, mText, mUnseen>>
    BY <1>2 DEF Mouse!GetPixelEnds
  <2>2. /\ mCall' = [stage |-> mCall'.stage, of |-> mCall'.of, value |-> mCall'.value]
        /\ mCall'.stage = IF mQueued = Mouse!None THEN "none" ELSE "sent"
    BY <2>1 DEF Mouse!NoCall
  <2>3. FieldsInv'
    BY <2>1, <2>2 DEF RenewInv, FieldsInv
  <2>4. \/ mCall.stage = "handled" /\ mEvent' = {mCall.value}
        \/ mEvent' = {Mouse!NoValue}
    BY <1>2 DEF Mouse!GetPixelEnds
  <2>5. mEvent = {}
    BY <1>2 DEF Mouse!GetPixelEnds
  <2>6. ASSUME ~mUnseen PROVE
             \A value \in mEvent' : Stale(value)' /\ Wanted' =>
                mDue' # Mouse!None \/ mCall'.stage = "sent"
    BY <2>1, <2>2, <2>4, <2>6 DEF RenewInv, AgeInv, AskedAgain, Stale, Wanted
  <2>7. Mouse!Renewing => Mouse!Renewing'
    BY <2>1, <2>2, <2>4, <2>5 DEF Mouse!Renewing
  <2>8. ASSUME ~mUnseen PROVE ValueIsRenewed'
    <3>1. ValueIsRenewed
      BY <2>8 DEF RenewInv, AgeInv
    <3>2. CASE Mouse!Renewing
      BY <2>7, <3>2 DEF ValueIsRenewed, Mouse!ValueIsRenewed
    <3>3. CASE ~Mouse!Renewing
      BY <2>1, <2>8, <3>1, <3>3
      DEF ValueIsRenewed, Mouse!ValueIsRenewed, Mouse!IsCurrent
    <3> QED BY <3>2, <3>3
  <2>9. AgeInv'
    BY <2>1, <2>2, <2>6, <2>8 DEF RenewInv, AgeInv, AskedAgain
  <2> QED BY <2>3, <2>9 DEF RenewInv
<1>3. CASE Mouse!ValueArrives
  <2>1. PICK value \in mEvent :
           Mouse!UpdateMouseCoords(mFrame, FALSE, mAt, mItem, value, FALSE)
    BY <1>3 DEF Mouse!ValueArrives, Mouse!PixelValueUpdated
  <2>2. /\ mEvent' = {} /\ mFrame # 0
        /\ UNCHANGED <<mRemote, mFrame, mAt, mItem, mCall, mQueued, mShow, mUnseen>>
    BY <1>3 DEF Mouse!ValueArrives, RenewInv, FieldsInv
  <2>3. /\ mNull' = Mouse!Nulled(FALSE, mAt, mItem)
        /\ mText' = Mouse!Written(FALSE, mAt, mItem, value, mText)
        /\ mDue' = IF mItem # Mouse!None THEN mItem ELSE mDue
    BY <2>1, <2>2 DEF Mouse!UpdateMouseCoords, Mouse!Asked
  <2>4. /\ mNull' \/ mItem # Mouse!None =>
              mText'.static = Mouse!Blank /\ mText'.tip = Mouse!Blank
        /\ mItem = Mouse!None => mText'.item = Mouse!Blank
        /\ mNull' /\ mItem = Mouse!None => mAt \notin Pixels
        /\ ~Stale(value) \/ ~Wanted =>
              /\ mShow.static => Mouse!IsCurrent("static")'
              /\ mShow.tip => Mouse!IsCurrent("tip")'
              /\ Mouse!IsCurrent("item")'
    BY <2>2, <2>3, ValueWritten
  <2>5. FieldsInv'
    BY <2>2, <2>4 DEF RenewInv, FieldsInv
  <2>6. AskedAgain => AskedAgain'
    BY <2>2, <2>3 DEF AskedAgain
  <2>7. ASSUME ~mUnseen PROVE ValueIsRenewed'
    <3>1. CASE ~Stale(value) \/ ~Wanted
      BY <2>2, <2>4, <3>1 DEF ValueIsRenewed, Mouse!ValueIsRenewed
    <3>2. CASE Stale(value) /\ Wanted
      <4>1. \/ AskedAgain \/ mCall.stage = "sent"
            \/ mCall.stage = "handled" /\ mCall.value.frame = mFrame
        BY <2>7, <3>2 DEF RenewInv, AgeInv
      <4>2. CASE AskedAgain
        BY <2>6, <4>2 DEF AskedAgain, ValueIsRenewed, Mouse!ValueIsRenewed, Mouse!Renewing
      <4>3. CASE mCall.stage = "sent"
        BY <2>2, <4>3 DEF ValueIsRenewed, Mouse!ValueIsRenewed, Mouse!Renewing
      <4>4. CASE mCall.stage = "handled" /\ mCall.value.frame = mFrame
        BY <2>2, <4>4 DEF ValueIsRenewed, Mouse!ValueIsRenewed, Mouse!Renewing
      <4> QED BY <4>1, <4>2, <4>3, <4>4
    <3> QED BY <3>1, <3>2
  <2>8. AgeInv'
    BY <2>2, <2>4, <2>6, <2>7 DEF RenewInv, AgeInv, Wanted, Stale
  <2> QED BY <2>5, <2>8 DEF RenewInv
<1> QED BY <1>1, <1>2, <1>3

\* Whatever frames, moves, regions and answers cross on the way, a value that was read
\* before the frame that is shown has a request behind it that brings another, as
\* long as neither the view nor a flag changed unseen (mtxL_updateMouseCoords,
\* dispatchMousePixelRequest, GetPixel_callback).
THEOREM ValueIsRenewedHolds == Spec => []ValueIsRenewed
<1>1. Init => RenewInv
  <2> SUFFICES ASSUME Mouse!Init PROVE RenewInv
    BY DEF Init
  <2>1. /\ mNull = TRUE /\ mAt = "out" /\ mItem = Mouse!None /\ mCall = Mouse!NoCall
        /\ mQueued = Mouse!None /\ mEvent = {} /\ mText.static = Mouse!Blank
        /\ mText.tip = Mouse!Blank /\ mText.item = Mouse!Blank
    BY DEF Mouse!Init
  <2>2. mAt \notin Pixels
    BY <2>1, ConstantsAssumption DEF Mouse!MouseAssumption
  <2>3. FieldsInv
    BY <2>1 DEF FieldsInv, Mouse!NoCall
  <2>4. ValueIsRenewed
    BY <2>1 DEF ValueIsRenewed, Mouse!ValueIsRenewed, Mouse!IsCurrent, Mouse!Blank
  <2>5. mCall.stage = "none"
    BY <2>1 DEF Mouse!NoCall
  <2> QED BY <2>1, <2>2, <2>3, <2>4, <2>5 DEF RenewInv, AgeInv
<1>2. MouseInv /\ RenewInv /\ [Next]_vars => RenewInv'
  <2> SUFFICES ASSUME MouseInv, RenewInv, [Next]_vars PROVE RenewInv'
    OBVIOUS
  <2>1. CASE UNCHANGED mouseVars
    BY <2>1
    DEF mouseVars, RenewInv, FieldsInv, AgeInv, Wanted, AskedAgain, Stale, ValueIsRenewed,
        Mouse!ValueIsRenewed, Mouse!Renewing, Mouse!IsCurrent
  <2>2. CASE Mouse!Next
    BY <2>2, UserRenews, FrameRenews, DispatchRenews, AnswerRenews
    DEF Mouse!Next, Mouse!Answers
  <2> QED BY <2>1, <2>2 DEF Next, vars
<1>3. MouseInv /\ RenewInv => ValueIsRenewed
  <2>1. CASE mUnseen
    BY <2>1 DEF ValueIsRenewed, Mouse!ValueIsRenewed
  <2>2. CASE ~mUnseen
    BY <2>2 DEF RenewInv, AgeInv
  <2> QED BY <2>1, <2>2
<1> QED BY <1>1, <1>2, <1>3, MouseInvariant, PTL DEF Spec

-----------------------------------------------------------------------------
(* The cube window.                                                        *)

\* The members of rtimvBase, the timers, the source and the window, by their
\* fields; the periods are numbers no step here looks into.
BaseFields == {"mode", "fps", "mult", "dir", "real", "min", "curr",
               "frozen", "connected", "nz", "size"}

PanelFields == {"open", "mode", "fps", "real", "mult", "dir", "frames", "frame",
                "off", "typing", "text"}

BaseShape(b) ==
    /\ b = [k \in BaseFields |-> b[k]]
    /\ b.mode \in BOOLEAN /\ b.connected \in BOOLEAN

PanelShape(p) ==
    \/ p = Cube!NoPanel
    \/ /\ p = [k \in PanelFields |-> p[k]] /\ p.open = TRUE
       /\ p.text = [k \in {"frame", "fps"} |-> p.text[k]]

\* The window p shows the state b of rtimvBase and the length nz.
Shows(p, b, nz) ==
    p.open =>
        /\ p.mode = b.mode /\ p.mult = b.mult /\ p.dir = b.dir
        /\ p.fps = b.fps /\ p.frames = nz
        /\ p.off = Cube!Disabled(p)
        /\ p.typing # "fps" => p.text.fps = b.fps

TimersShape(t) == t = [image |-> t.image, cube |-> t.cube, frame |-> t.frame]

CubeWindowInv ==
    /\ BaseShape(q) /\ TimersShape(qTimers)
    /\ PanelShape(qPanel) /\ Shows(qPanel, q, q.nz)
    /\ q.mode \/ qTimers.cube = 0

\* setCurrImageTimeout changes the periods only, and stops the cube timer of a
\* cube that does not play.
LEMMA TimedIs ==
    ASSUME NEW b, BaseShape(b), NEW nz
    PROVE  LET timed == Cube!Timed(b, nz)
           IN  /\ BaseShape(timed)
               /\ timed.mode = b.mode /\ timed.fps = b.fps /\ timed.mult = b.mult
               /\ timed.dir = b.dir
               /\ timed.nz = b.nz
               /\ timed.mode \/ Cube!RealOf(b, nz) = 0
<1> DEFINE r == Cube!RealOf(b, nz)
           c == Cube!CurrOf(b, nz)
<1>1. Cube!Timed(b, nz) = [b EXCEPT !.real = r, !.curr = c]
  BY DEF Cube!Timed
<1>2. b.mode \/ r = 0
  BY DEF Cube!RealOf
<1> HIDE DEF r, c
<1>3. /\ BaseShape([b EXCEPT !.real = r, !.curr = c])
      /\ [b EXCEPT !.real = r, !.curr = c].mode = b.mode
      /\ [b EXCEPT !.real = r, !.curr = c].fps = b.fps
      /\ [b EXCEPT !.real = r, !.curr = c].mult = b.mult
      /\ [b EXCEPT !.real = r, !.curr = c].dir = b.dir
      /\ [b EXCEPT !.real = r, !.curr = c].nz = b.nz
  BY DEF BaseShape, BaseFields
<1> QED BY <1>1, <1>2, <1>3 DEF r

LEMMA TimersAre ==
    ASSUME NEW b, NEW nz
    PROVE  LET timers == Cube!SetCurrImageTimeout(b, nz)
           IN  TimersShape(timers) /\ timers.cube = Cube!RealOf(b, nz)
<1> DEFINE i == IF Cube!CurrOf(b, nz) = b.curr THEN qTimers.image ELSE Cube!CurrOf(b, nz)
           r == Cube!RealOf(b, nz)
           fr == Cube!FramePeriod(b, nz)
<1>1. Cube!SetCurrImageTimeout(b, nz) = [image |-> i, cube |-> r, frame |-> fr]
  BY DEF Cube!SetCurrImageTimeout
<1> HIDE DEF i, r, fr
<1>2. /\ TimersShape([image |-> i, cube |-> r, frame |-> fr])
      /\ [image |-> i, cube |-> r, frame |-> fr].cube = r
  BY DEF TimersShape
<1> QED BY <1>1, <1>2 DEF r

\* The buttons follow the mode, the direction and the speed of the window.
LEMMA ButtonsAre ==
    ASSUME NEW p, p.open, PanelShape(p)
    PROVE  LET new == Cube!Buttons(p)
           IN  /\ PanelShape(new) /\ new.open /\ new.off = Cube!Disabled(new)
               /\ new.mode = p.mode /\ new.mult = p.mult /\ new.dir = p.dir
               /\ new.fps = p.fps /\ new.frames = p.frames
               /\ new.typing = p.typing /\ new.text = p.text
<1> DEFINE d == Cube!Disabled(p)
           new == [p EXCEPT !.off = d]
<1>1. p # Cube!NoPanel
  BY DEF Cube!NoPanel
<1>2. Cube!Buttons(p) = new
  BY DEF Cube!Buttons
<1>3. d = IF ~p.mode THEN {<<0, 0>>}
          ELSE IF p.mult \in Cube!Mults THEN {<<p.dir, p.mult>>} ELSE {}
  BY DEF Cube!Disabled
<1>4. Cube!Disabled(new) = IF ~new.mode THEN {<<0, 0>>}
          ELSE IF new.mult \in Cube!Mults THEN {<<new.dir, new.mult>>} ELSE {}
  BY DEF Cube!Disabled
<1> HIDE DEF d
<1>5. /\ PanelShape(new) /\ new.open /\ new.off = d
      /\ new.mode = p.mode /\ new.mult = p.mult /\ new.dir = p.dir
      /\ new.fps = p.fps /\ new.frames = p.frames
      /\ new.typing = p.typing /\ new.text = p.text
  BY <1>1 DEF PanelShape, PanelFields
<1>6. Cube!Disabled(new) = d
  BY <1>3, <1>4, <1>5, Zenon
<1> QED BY <1>2, <1>5, <1>6

\* The slots of the window: it shows the state it is told.
LEMMA MirrorShows ==
    ASSUME NEW p, PanelShape(p), NEW b, NEW nz, p.open => p.frames = nz
    PROVE  LET new == Cube!Mirror(p, b)
           IN  PanelShape(new) /\ Shows(new, b, nz) /\ new.open = p.open
<1>1. CASE p = Cube!NoPanel
  BY <1>1 DEF Cube!Mirror, Cube!NoPanel, PanelShape, Shows
<1>2. CASE p # Cube!NoPanel
  <2> DEFINE t == Cube!TextOf(p, "fps", b.fps)
             told == [[p EXCEPT !.fps = b.fps, !.real = b.real, !.text = t]
                        EXCEPT !.mode = b.mode, !.mult = b.mult, !.dir = b.dir]
  <2>1. p.open = TRUE /\ p.frames = nz
    BY <1>2 DEF PanelShape, PanelFields
  <2>2. Cube!Mirror(p, b) = Cube!Buttons(told)
    BY <2>1 DEF Cube!Mirror, Cube!ShowRate
  <2>3. /\ t = [k \in {"frame", "fps"} |-> t[k]]
        /\ p.typing # "fps" => t.fps = b.fps
    BY <1>2 DEF Cube!TextOf, PanelShape
  <2> HIDE DEF t
  <2>4. /\ PanelShape(told) /\ told.open = TRUE
        /\ told.mode = b.mode /\ told.mult = b.mult /\ told.dir = b.dir
        /\ told.fps = b.fps /\ told.frames = nz
        /\ told.typing = p.typing /\ told.text = t
    BY <1>2, <2>1, <2>3 DEF PanelShape, PanelFields
  <2> HIDE DEF told
  <2> DEFINE new == Cube!Buttons(told)
  <2>5. /\ PanelShape(new) /\ new.open /\ new.off = Cube!Disabled(new)
        /\ new.mode = told.mode /\ new.mult = told.mult /\ new.dir = told.dir
        /\ new.fps = told.fps /\ new.frames = told.frames
        /\ new.typing = told.typing /\ new.text = told.text
    BY <2>4, ButtonsAre
  <2> HIDE DEF new
  <2>6. new.open = TRUE
    BY <2>5 DEF PanelShape, Cube!NoPanel
  <2>7. Shows(new, b, nz)
    BY <2>3, <2>4, <2>5 DEF Shows
  <2> QED BY <2>1, <2>2, <2>5, <2>6, <2>7 DEF new
<1> QED BY <1>1, <1>2

\* A change of what is not mirrored: the number of the frame, the entry that is
\* typed in, and the texts of the entries.
LEMMA SameWindow ==
    ASSUME NEW p, NEW new, NEW b, NEW nz, p.open, new.open, Shows(p, b, nz),
           new.mode = p.mode, new.mult = p.mult, new.dir = p.dir, new.fps = p.fps,
           new.frames = p.frames, new.off = p.off,
           new.typing # "fps" => new.text.fps = b.fps
    PROVE  Shows(new, b, nz)
<1>1. Cube!Disabled(new) = Cube!Disabled(p)
  BY DEF Cube!Disabled
<1> QED BY <1>1 DEF Shows

LEMMA FrameShown ==
    ASSUME NEW p, PanelShape(p), NEW b, NEW nz, Shows(p, b, nz), NEW no
    PROVE  LET new == Cube!ShowFrame(p, no)
           IN  PanelShape(new) /\ Shows(new, b, nz) /\ new.open = p.open
<1>1. CASE p = Cube!NoPanel
  BY <1>1 DEF Cube!ShowFrame, Cube!NoPanel, PanelShape, Shows
<1>2. CASE p # Cube!NoPanel
  <2> DEFINE t == Cube!TextOf(p, "frame", no)
             new == [p EXCEPT !.frame = no, !.text = t]
  <2>1. p.open = TRUE
    BY <1>2 DEF PanelShape, PanelFields
  <2>2. Cube!ShowFrame(p, no) = new
    BY <2>1 DEF Cube!ShowFrame
  <2>3. t = [k \in {"frame", "fps"} |-> t[k]] /\ t.fps = p.text.fps
    BY <1>2 DEF Cube!TextOf, PanelShape
  <2> HIDE DEF t
  <2>4. /\ PanelShape(new) /\ new.open = TRUE
        /\ new.mode = p.mode /\ new.mult = p.mult /\ new.dir = p.dir
        /\ new.fps = p.fps /\ new.frames = p.frames
        /\ new.off = p.off /\ new.typing = p.typing /\ new.text = t
    BY <1>2, <2>1, <2>3 DEF PanelShape, PanelFields
  <2> HIDE DEF new
  <2>5. new.typing # "fps" => new.text.fps = b.fps
    BY <2>1, <2>3, <2>4 DEF Shows
  <2>6. Shows(new, b, nz)
    BY <2>1, <2>4, <2>5, SameWindow
  <2> QED BY <2>1, <2>2, <2>4, <2>6
<1> QED BY <1>1, <1>2

\* nzUpdated: the window is told the new size.
LEMMA SizeShown ==
    ASSUME NEW p, PanelShape(p), NEW b, NEW old, Shows(p, b, old), NEW nz
    PROVE  LET new == Cube!ShowFrames(p, nz)
           IN  PanelShape(new) /\ Shows(new, b, nz) /\ new.open = p.open
<1>1. CASE p = Cube!NoPanel
  BY <1>1 DEF Cube!ShowFrames, Cube!NoPanel, PanelShape, Shows
<1>2. CASE p # Cube!NoPanel
  <2> DEFINE new == [p EXCEPT !.frames = nz]
  <2>1. p.open = TRUE
    BY <1>2 DEF PanelShape, PanelFields
  <2>2. Cube!ShowFrames(p, nz) = new
    BY <2>1 DEF Cube!ShowFrames
  <2>3. /\ PanelShape(new) /\ new.open = TRUE
        /\ new.mode = p.mode /\ new.mult = p.mult /\ new.dir = p.dir
        /\ new.fps = p.fps /\ new.frames = nz
        /\ new.off = p.off /\ new.typing = p.typing /\ new.text = p.text
    BY <1>2, <2>1 DEF PanelShape, PanelFields
  <2> HIDE DEF new
  <2>4. Cube!Disabled(new) = Cube!Disabled(p)
    BY <2>3 DEF Cube!Disabled
  <2>5. Shows(new, b, nz)
    BY <2>1, <2>3, <2>4 DEF Shows
  <2> QED BY <2>1, <2>2, <2>3, <2>5
<1> QED BY <1>1, <1>2

\* launchCubeCtrl opens a window that shows the state, once.
LEMMA LaunchShows ==
    ASSUME NEW p, p = Cube!NoPanel, NEW b, NEW nz, NEW no
    PROVE  LET new == Cube!LaunchCubeCtrl(p, b, nz, no)
           IN  PanelShape(new) /\ Shows(new, b, nz)
<1> DEFINE first == [open |-> TRUE, mode |-> b.mode, fps |-> b.fps, real |-> b.real,
                     mult |-> b.mult, dir |-> b.dir, frames |-> nz, frame |-> no,
                     off |-> {}, typing |-> "none",
                     text |-> [frame |-> no, fps |-> b.fps]]
           new == Cube!Buttons(first)
<1>1. Cube!LaunchCubeCtrl(p, b, nz, no) = new
  BY DEF Cube!LaunchCubeCtrl, Cube!NoPanel
<1>2. /\ PanelShape(first) /\ first.open /\ first.mode = b.mode /\ first.mult = b.mult
      /\ first.dir = b.dir /\ first.fps = b.fps
      /\ first.frames = nz /\ first.text.fps = b.fps
  BY DEF PanelShape, PanelFields
<1> HIDE DEF first
<1>3. /\ PanelShape(new) /\ new.open /\ new.off = Cube!Disabled(new)
      /\ new.mode = first.mode /\ new.mult = first.mult /\ new.dir = first.dir
      /\ new.fps = first.fps /\ new.frames = first.frames
      /\ new.typing = first.typing /\ new.text = first.text
  BY <1>2, ButtonsAre
<1> HIDE DEF new
<1>4. Shows(new, b, nz)
  BY <1>2, <1>3 DEF Shows
<1> QED BY <1>1, <1>3, <1>4 DEF new

\* A change of members and timers together with what the window is told of it.
LEMMA SetMatches ==
    ASSUME CubeWindowInv, NEW b, BaseShape(b), b.nz = q.nz,
           NEW p, PanelShape(p), p.open => p.frames = q.nz,
           q' = Cube!Timed(b, q.nz),
           qTimers' = Cube!SetCurrImageTimeout(b, q.nz),
           qPanel' = Cube!Mirror(p, Cube!Timed(b, q.nz))
    PROVE  CubeWindowInv'
<1>1. BaseShape(q') /\ q'.nz = q.nz /\ (q'.mode \/ Cube!RealOf(b, q.nz) = 0)
  BY TimedIs
<1>2. TimersShape(qTimers') /\ qTimers'.cube = Cube!RealOf(b, q.nz)
  BY TimersAre
<1>3. PanelShape(qPanel') /\ Shows(qPanel', q', q.nz)
  BY MirrorShows
<1>4. PanelShape(qPanel)' /\ Shows(qPanel, q, q.nz)' /\ BaseShape(q)' /\ TimersShape(qTimers)'
  BY <1>1, <1>2, <1>3 DEF PanelShape, Shows, BaseShape, TimersShape
<1> QED BY <1>1, <1>2, <1>4 DEF CubeWindowInv

\* A setter of rtimvBase.
LEMMA SetterMatches ==
    ASSUME CubeWindowInv, NEW b, BaseShape(b), b.nz = q.nz, Cube!Set(b)
    PROVE  CubeWindowInv'
<1>1. PanelShape(qPanel) /\ (qPanel.open => qPanel.frames = q.nz)
  BY DEF CubeWindowInv, Shows
<1>2. /\ q' = Cube!Timed(b, q.nz)
      /\ qTimers' = Cube!SetCurrImageTimeout(b, q.nz)
      /\ qPanel' = Cube!Mirror(qPanel, Cube!Timed(b, q.nz))
  BY DEF Cube!Set
<1> QED BY <1>1, <1>2, SetMatches

\* The setters change one member, or the three that a play button sets.
LEMMA MemberSet ==
    ASSUME BaseShape(q), NEW x, NEW y, NEW m \in BOOLEAN
    PROVE  /\ BaseShape([q EXCEPT !.min = x]) /\ [q EXCEPT !.min = x].nz = q.nz
           /\ BaseShape([q EXCEPT !.fps = x]) /\ [q EXCEPT !.fps = x].nz = q.nz
           /\ BaseShape([q EXCEPT !.mode = m]) /\ [q EXCEPT !.mode = m].nz = q.nz
           /\ BaseShape([q EXCEPT !.mult = x, !.dir = y, !.mode = m])
           /\ [q EXCEPT !.mult = x, !.dir = y, !.mode = m].nz = q.nz
BY DEF BaseShape, BaseFields

\* What a step does that is neither mirrored nor starts the cube timer.
LEMMA ElsewhereMatches ==
    ASSUME CubeWindowInv, q' = q, TimersShape(qTimers'), qTimers'.cube = qTimers.cube,
           NEW p, qPanel' = p, PanelShape(p), Shows(p, q, q.nz)
    PROVE  CubeWindowInv'
<1>1. PanelShape(qPanel)' /\ Shows(qPanel, q, q.nz)' /\ BaseShape(q)' /\ TimersShape(qTimers)'
  BY DEF PanelShape, Shows, BaseShape, TimersShape, CubeWindowInv
<1> QED BY <1>1 DEF CubeWindowInv

\* An image that is drawn, or only connects, with what it sets.
LEMMA DrawnMatches ==
    ASSUME NEW source, NEW b, BaseShape(b), NEW timers, TimersShape(timers),
           b.mode \/ timers.cube = 0, NEW panel, PanelShape(panel),
           Shows(panel, b, b.nz), Cube!Drawn(source, b, timers, panel)
    PROVE  CubeWindowInv'
<1> DEFINE told == Cube!ShowFrame(panel, source.no)
<1>1. q' = b /\ qTimers' = timers /\ (qPanel' = told \/ qPanel' = panel)
  BY DEF Cube!Drawn
<1>2. PanelShape(told) /\ Shows(told, b, b.nz)
  BY FrameShown
<1> HIDE DEF told
<1>3. PanelShape(qPanel') /\ Shows(qPanel', b, b.nz)
  BY <1>1, <1>2
<1>4. PanelShape(qPanel)' /\ Shows(qPanel, q, q.nz)' /\ BaseShape(q)' /\ TimersShape(qTimers)'
  BY <1>1, <1>3 DEF PanelShape, Shows, BaseShape, TimersShape
<1> QED BY <1>1, <1>4 DEF CubeWindowInv

\* A cube that starts to play, in a window that is opened when there is none.
LEMMA PlaysShown ==
    ASSUME NEW b, BaseShape(b), NEW nz, NEW no, NEW p, PanelShape(p),
           p.open => p.frames = nz
    PROVE  LET timed == Cube!Timed(b, nz)
               new == Cube!LaunchCubeCtrl(Cube!Mirror(p, timed), timed, nz, no)
           IN  PanelShape(new) /\ Shows(new, timed, nz)
<1> DEFINE timed == Cube!Timed(b, nz)
           m == Cube!Mirror(p, timed)
           new == Cube!LaunchCubeCtrl(m, timed, nz, no)
<1> HIDE DEF timed
<1>1. PanelShape(m) /\ Shows(m, timed, nz)
  BY MirrorShows
<1> HIDE DEF m
<1>2. CASE m = Cube!NoPanel
  <2>1. PanelShape(new) /\ Shows(new, timed, nz)
    BY <1>2, LaunchShows
  <2> QED BY <2>1 DEF m, timed
<1>3. CASE m # Cube!NoPanel
  <2>1. m.open = TRUE
    BY <1>1, <1>3 DEF PanelShape
  <2>2. new = m
    BY <2>1 DEF Cube!LaunchCubeCtrl
  <2> QED BY <1>1, <2>2 DEF m, timed
<1> QED BY <1>2, <1>3

\* updateImages, whatever the source gives, and the window it opens for a cube.
LEMMA ImageMatches ==
    ASSUME CubeWindowInv, NEW source, Cube!UpdateImages(source)
    PROVE  CubeWindowInv'
<1> DEFINE nz == Cube!Length(source)
           sized == [q EXCEPT !.nz = nz, !.size = source.size, !.connected = TRUE]
           p == Cube!ShowFrames(qPanel, nz)
           Plays(mode) ==
              LET b == [sized EXCEPT !.mode = mode]
              IN  Cube!Drawn(source, Cube!Timed(b, nz), Cube!SetCurrImageTimeout(b, nz),
                    Cube!LaunchCubeCtrl(Cube!Mirror(p, Cube!Timed(b, nz)),
                                        Cube!Timed(b, nz), nz, source.no))
<1>1. \/ \E mode \in BOOLEAN : Plays(mode)
      \/ Cube!Drawn(source, sized, qTimers, p)
  BY DEF Cube!UpdateImages
<1> HIDE DEF nz
<1>2. PanelShape(p) /\ Shows(p, q, nz)
  BY SizeShown DEF CubeWindowInv
<1>3. /\ BaseShape(sized) /\ sized.nz = nz /\ sized.mode = q.mode /\ sized.fps = q.fps
      /\ sized.mult = q.mult /\ sized.dir = q.dir
  BY DEF CubeWindowInv, BaseShape, BaseFields
<1> HIDE DEF p, sized
<1>4. ASSUME NEW mode \in BOOLEAN, Plays(mode)
      PROVE  CubeWindowInv'
  <2> DEFINE b == [sized EXCEPT !.mode = mode]
             timed == Cube!Timed(b, nz)
             timers == Cube!SetCurrImageTimeout(b, nz)
             new == Cube!LaunchCubeCtrl(Cube!Mirror(p, timed), timed, nz, source.no)
  <2>1. BaseShape(b) /\ b.nz = nz
    BY <1>3 DEF BaseShape, BaseFields
  <2>2. Cube!Drawn(source, timed, timers, new)
    BY <1>4
  <2> HIDE DEF b
  <2>3. BaseShape(timed) /\ timed.nz = nz /\ (timed.mode \/ Cube!RealOf(b, nz) = 0)
    BY <2>1, TimedIs
  <2>4. TimersShape(timers) /\ timers.cube = Cube!RealOf(b, nz)
    BY TimersAre
  <2>5. p.open => p.frames = nz
    BY <1>2 DEF Shows
  <2>6. PanelShape(new) /\ Shows(new, timed, nz)
    BY <1>2, <2>1, <2>5, PlaysShown
  <2> HIDE DEF timed, timers, new
  <2> QED BY <2>2, <2>3, <2>4, <2>6, DrawnMatches
<1>5. CASE Cube!Drawn(source, sized, qTimers, p)
  <2>1. Shows(p, sized, sized.nz)
    BY <1>2, <1>3 DEF Shows
  <2>2. TimersShape(qTimers) /\ (sized.mode \/ qTimers.cube = 0)
    BY <1>3 DEF CubeWindowInv
  <2> QED BY <1>2, <1>3, <1>5, <2>1, <2>2, DrawnMatches
<1> QED BY <1>1, <1>4, <1>5

\* A directory of which no frame was read connects.
LEMMA UnreadMatches ==
    ASSUME CubeWindowInv, Cube!Unread
    PROVE  CubeWindowInv'
<1>1. CASE Cube!Drawn(qSource, q, qTimers, qPanel)
  BY <1>1, DrawnMatches DEF CubeWindowInv
<1>2. ASSUME NEW default \in BOOLEAN,
             LET b == [q EXCEPT !.connected = TRUE, !.mode = default]
             IN  Cube!Drawn(qSource, Cube!Timed(b, q.nz), Cube!SetCurrImageTimeout(b, q.nz),
                            Cube!Mirror(qPanel, Cube!Timed(b, q.nz)))
      PROVE  CubeWindowInv'
  <2> DEFINE b == [q EXCEPT !.connected = TRUE, !.mode = default]
             timed == Cube!Timed(b, q.nz)
             timers == Cube!SetCurrImageTimeout(b, q.nz)
             new == Cube!Mirror(qPanel, timed)
  <2>1. BaseShape(b) /\ b.nz = q.nz
    BY DEF CubeWindowInv, BaseShape, BaseFields
  <2>2. Cube!Drawn(qSource, timed, timers, new)
    BY <1>2
  <2> HIDE DEF b
  <2>3. BaseShape(timed) /\ timed.nz = q.nz /\ (timed.mode \/ Cube!RealOf(b, q.nz) = 0)
    BY <2>1, TimedIs
  <2>4. TimersShape(timers) /\ timers.cube = Cube!RealOf(b, q.nz)
    BY TimersAre
  <2>5. PanelShape(qPanel) /\ (qPanel.open => qPanel.frames = q.nz)
    BY DEF CubeWindowInv, Shows
  <2> HIDE DEF timed, timers
  <2>6. PanelShape(new) /\ Shows(new, timed, q.nz)
    BY <2>5, MirrorShows
  <2> HIDE DEF new
  <2> QED BY <2>2, <2>3, <2>4, <2>6, DrawnMatches
<1> QED BY <1>1, <1>2 DEF Cube!Unread

\* Typing in an entry, leaving it and confirming it.
LEMMA EntryMatches ==
    ASSUME CubeWindowInv,
           \/ Cube!EditingFinished \/ Cube!ReturnPressed
           \/ \E entry \in {"frame", "fps"} : Cube!Type(entry)
    PROVE  CubeWindowInv'
<1> DEFINE Same(p) ==
      /\ PanelShape(p) /\ p.open = TRUE
      /\ p.mode = qPanel.mode /\ p.mult = qPanel.mult /\ p.dir = qPanel.dir
      /\ p.fps = qPanel.fps /\ p.frames = qPanel.frames
      /\ p.off = qPanel.off /\ (p.typing # "fps" => p.text.fps = q.fps)
<1>1. qPanel.open = TRUE /\ qPanel # Cube!NoPanel
  BY DEF CubeWindowInv, PanelShape, Cube!NoPanel, Cube!EditingFinished, Cube!ReturnPressed,
         Cube!Type, Cube!AtPanel
<1>2. /\ PanelShape(qPanel) /\ Shows(qPanel, q, q.nz)
      /\ qPanel.frames = q.nz
  BY <1>1 DEF CubeWindowInv, Shows
<1>3. \A p : Same(p) => Shows(p, q, q.nz)
  BY <1>1, <1>2, SameWindow
<1>4. Same(Cube!Refreshed(qPanel))
  <2> DEFINE t == [frame |-> qPanel.frame, fps |-> qPanel.fps]
             new == [[qPanel EXCEPT !.typing = "none"] EXCEPT !.text = t]
  <2>1. Cube!Refreshed(qPanel) = new
    BY <1>1, <1>2 DEF Cube!Refreshed, PanelShape
  <2>2. t = [k \in {"frame", "fps"} |-> t[k]] /\ t.fps = q.fps
    BY <1>1, <1>2 DEF Shows
  <2> HIDE DEF t
  <2>3. Same(new)
    BY <1>1, <1>2, <2>2 DEF PanelShape, PanelFields
  <2> QED BY <2>1, <2>3
<1>5. ASSUME NEW entry \in {"frame", "fps"}, Cube!Type(entry)
      PROVE  CubeWindowInv'
  <2> DEFINE new == [qPanel EXCEPT !.typing = entry]
  <2>1. Same(new)
    <3>1. qPanel.typing = "none" /\ qPanel.text.fps = q.fps
      BY <1>1, <1>2, <1>5 DEF Cube!Type, Shows
    <3> QED BY <1>1, <1>2, <3>1 DEF PanelShape, PanelFields
  <2>2. qPanel' = new /\ UNCHANGED <<q, qTimers>>
    BY <1>5 DEF Cube!Type
  <2> HIDE DEF new
  <2> QED BY <1>1, <1>3, <2>1, <2>2, ElsewhereMatches DEF CubeWindowInv
<1>6. CASE Cube!EditingFinished
  BY <1>1, <1>3, <1>4, <1>6, ElsewhereMatches DEF Cube!EditingFinished, CubeWindowInv
<1>7. CASE Cube!ReturnPressed
  <2>1. ASSUME qPanel' = Cube!Refreshed(qPanel), UNCHANGED <<q, qTimers>>
        PROVE  CubeWindowInv'
    BY <1>1, <1>3, <1>4, <2>1, ElsewhereMatches DEF CubeWindowInv
  <2>2. ASSUME NEW fps, q' = Cube!Timed([q EXCEPT !.fps = fps], q.nz),
               qTimers' = Cube!SetCurrImageTimeout([q EXCEPT !.fps = fps], q.nz),
               qPanel' = Cube!Mirror(Cube!Refreshed(qPanel),
                                     Cube!Timed([q EXCEPT !.fps = fps], q.nz))
        PROVE  CubeWindowInv'
    <3> DEFINE b == [q EXCEPT !.fps = fps]
    <3>1. BaseShape(b) /\ b.nz = q.nz
      BY MemberSet DEF CubeWindowInv
    <3> HIDE DEF b
    <3> QED BY <1>1, <1>2, <1>4, <2>2, <3>1, SetMatches DEF CubeWindowInv, b
  <2> QED BY <1>7, <2>1, <2>2 DEF Cube!ReturnPressed
<1> QED BY <1>5, <1>6, <1>7

LEMMA CubeWindowStep ==
    ASSUME CubeWindowInv, Cube!Next
    PROVE  CubeWindowInv'
<1>a. /\ BaseShape(q) /\ TimersShape(qTimers) /\ PanelShape(qPanel)
      /\ Shows(qPanel, q, q.nz)
  BY DEF CubeWindowInv
<1>b. ASSUME UNCHANGED <<q, qTimers, qPanel>>
      PROVE  CubeWindowInv'
  BY <1>a, <1>b, ElsewhereMatches
<1>1. CASE Cube!Update
  <2>1. CASE Cube!UpdateFile
    BY <1>b, <2>1, ImageMatches DEF Cube!UpdateFile, Cube!Lost
  <2>2. CASE Cube!UpdateDirectory
    BY <1>b, <2>2, ImageMatches, UnreadMatches DEF Cube!UpdateDirectory, Cube!Lost
  <2> QED BY <1>1, <2>1, <2>2 DEF Cube!Update
<1>2. CASE Cube!ImConnect \/ Cube!Rewritten
  BY <1>b, <1>2 DEF Cube!ImConnect, Cube!Rewritten
<1>3. CASE Cube!UpdateCube \/ Cube!Scroll \/ Cube!PressStep
  <2>1. \E no : Cube!AskFor(no)
    BY <1>3 DEF Cube!UpdateCube, Cube!Scroll, Cube!PressStep, Cube!CubeFrame,
       Cube!CubeFrameDelta
  <2> QED BY <1>b, <2>1 DEF Cube!AskFor
<1>4. CASE Cube!UpdateCubeFrame
  <2>1. LET new == Cube!ShowFrame(qPanel, qSource.no)
        IN  PanelShape(new) /\ Shows(new, q, q.nz)
    BY <1>a, FrameShown
  <2> QED BY <1>4, <1>a, <2>1, ElsewhereMatches DEF Cube!UpdateCubeFrame
<1>5. CASE \E to \in Timeouts : to # q.min /\ Cube!ImageTimeout(to)
  BY <1>5, <1>a, MemberSet, SetterMatches DEF Cube!ImageTimeout
<1>6. CASE Cube!PressSpeed
  BY <1>6, <1>a, MemberSet, SetterMatches DEF Cube!PressSpeed, Cube!CubeFPS
<1>7. CASE Cube!PressPlay
  BY <1>7, <1>a, MemberSet, SetterMatches DEF Cube!PressPlay, Cube!Play
<1>8. CASE Cube!PressStop
  BY <1>8, <1>a, MemberSet, SetterMatches DEF Cube!PressStop, Cube!CubeMode
<1>9. CASE Cube!FreezeRealTime
  <2>1. /\ BaseShape(q') /\ q'.mode = q.mode /\ q'.nz = q.nz
        /\ q'.fps = q.fps /\ q'.mult = q.mult /\ q'.dir = q.dir
        /\ qPanel' = qPanel
    BY <1>9, <1>a DEF Cube!FreezeRealTime, BaseShape, BaseFields
  <2>2. TimersShape(qTimers') /\ qTimers'.cube = qTimers.cube
    BY <1>9, <1>a DEF Cube!FreezeRealTime, TimersShape
  <2>3. /\ PanelShape(qPanel)' /\ Shows(qPanel, q, q.nz)' /\ BaseShape(q)'
        /\ TimersShape(qTimers)'
    BY <1>a, <2>1, <2>2 DEF PanelShape, Shows, BaseShape, TimersShape
  <2> QED BY <2>1, <2>2, <2>3 DEF CubeWindowInv
<1>10. CASE Cube!ToggleCubeCtrl
  <2> DEFINE no == IF Cube!Valid THEN qSource.no ELSE 0
             new == Cube!LaunchCubeCtrl(qPanel, q, q.nz, no)
  <2>1. qPanel = Cube!NoPanel
    BY <1>10, <1>a DEF Cube!ToggleCubeCtrl, PanelShape
  <2>2. PanelShape(new) /\ Shows(new, q, q.nz)
    BY <2>1, LaunchShows
  <2>3. qPanel' = new /\ UNCHANGED <<q, qTimers>>
    BY <1>10 DEF Cube!ToggleCubeCtrl
  <2> HIDE DEF new
  <2> QED BY <1>a, <2>2, <2>3, ElsewhereMatches
<1>11. CASE \/ Cube!Type("frame") \/ Cube!Type("fps") \/ Cube!EditingFinished
            \/ Cube!ReturnPressed
  BY <1>11, EntryMatches
<1> QED
  BY <1>1, <1>2, <1>3, <1>4, <1>5, <1>6, <1>7, <1>8, <1>9, <1>10, <1>11
  DEF Cube!Next

LEMMA CubeWindowInvariant == Spec => []CubeWindowInv
<1>1. Init => CubeWindowInv
  <2> SUFFICES ASSUME Cube!Init PROVE CubeWindowInv
    BY DEF Init
  <2>1. ~qPanel.open /\ PanelShape(qPanel)
    BY DEF Cube!Init, PanelShape, Cube!NoPanel
  <2>2. BaseShape(q) /\ TimersShape(qTimers) /\ qTimers.cube = 0
    BY DEF Cube!Init, BaseShape, BaseFields, TimersShape
  <2> QED BY <2>1, <2>2 DEF CubeWindowInv, Shows
<1>2. CubeWindowInv /\ [Next]_vars => CubeWindowInv'
  <2> SUFFICES ASSUME CubeWindowInv, [Next]_vars PROVE CubeWindowInv'
    OBVIOUS
  <2>1. CASE UNCHANGED cubeVars
    BY <2>1, ElsewhereMatches DEF cubeVars, CubeWindowInv
  <2>2. CASE Cube!Next
    BY <2>2, CubeWindowStep
  <2> QED BY <2>1, <2>2 DEF Next, vars
<1> QED BY <1>1, <1>2, PTL DEF Spec

\* After any sequence of buttons, entries, changes of the timeout and new
\* images the cube window shows the mode, the speed, the direction and the size
\* that rtimvBase has, only the button of that state is disabled, and a cube
\* that does not play has no timer (the signals of cubeCtrl and rtimvBase).
THEOREM CubeWindowMatches == Spec => []PanelMatches
<1>1. CubeWindowInv => PanelMatches
  BY DEF CubeWindowInv, Shows, PanelMatches, Cube!PanelMatches
<1> QED BY <1>1, CubeWindowInvariant, PTL

-----------------------------------------------------------------------------
(* The number of the frame.                                                *)

\* The window p shows the number of the frame, but for the entry that is typed in.
Told(p, no) ==
    p.open => p.frame = no /\ (p.typing # "frame" => p.text.frame = no)

SourceFields == {"kind", "found", "fresh", "new", "nz", "size", "no", "next", "curr"}

SourceShape(src) == src = [k \in SourceFields |-> src[k]]

\* The frame that is drawn is the one of the number, or the first of a file.
Follows(src) ==
    /\ src.kind = "file" /\ src.found => src.curr = src.no \/ src.curr = 0
    /\ src.kind # "file" /\ src.found /\ ~src.fresh => src.curr = src.no

TellsOf(src, p) == src.found /\ ~src.fresh /\ src.nz > 1 => Told(p, src.no)

\* The shortest period is what the image timer is started with.
TellInv ==
    /\ SourceShape(qSource) /\ Follows(qSource)
    /\ q.min # 0
    /\ q.frozen \/ qTimers.image # 0
    /\ TellsOf(qSource, qPanel)

LEMMA CurrRuns ==
    ASSUME NEW b, b.min # 0, NEW nz
    PROVE  Cube!CurrOf(b, nz) # 0
<1>1. Cube!Wish(b) # 0
  <2> DEFINE n == Cube!Round(Second, b.fps * b.mult)
  <2>1. Cube!Wish(b) = IF n < 1 THEN 1 ELSE n
    BY DEF Cube!Wish, Cube!Least1
  <2> HIDE DEF n
  <2>2. n = 0 => n < 1
    OBVIOUS
  <2> QED BY <2>1, <2>2
<1> QED BY <1>1 DEF Cube!CurrOf

\* setCurrImageTimeout does not stop the image timer.
LEMMA TimerRuns ==
    ASSUME TellInv, NEW b, BaseShape(b), b.min # 0, b.frozen = q.frozen, NEW nz
    PROVE  /\ Cube!Timed(b, nz).min = b.min /\ Cube!Timed(b, nz).frozen = q.frozen
           /\ q.frozen \/ Cube!SetCurrImageTimeout(b, nz).image # 0
<1> DEFINE r == Cube!RealOf(b, nz)
           c == Cube!CurrOf(b, nz)
           fr == Cube!FramePeriod(b, nz)
<1>1. /\ Cube!Timed(b, nz) = [b EXCEPT !.real = r, !.curr = c]
      /\ Cube!SetCurrImageTimeout(b, nz) =
            [image |-> IF c = b.curr THEN qTimers.image ELSE c, cube |-> r, frame |-> fr]
  BY DEF Cube!Timed, Cube!SetCurrImageTimeout
<1>2. c # 0
  BY CurrRuns
<1> HIDE DEF r, c, fr
<1>3. /\ [b EXCEPT !.real = r, !.curr = c].min = b.min
      /\ [b EXCEPT !.real = r, !.curr = c].frozen = b.frozen
  BY DEF BaseShape, BaseFields
<1> QED BY <1>1, <1>2, <1>3 DEF TellInv

\* The other slots of the window leave the number of the frame alone.
LEMMA MirrorTells ==
    ASSUME NEW p, PanelShape(p), NEW b, NEW no, Told(p, no)
    PROVE  Told(Cube!Mirror(p, b), no)
<1>1. CASE p = Cube!NoPanel
  BY <1>1 DEF Cube!Mirror, Cube!NoPanel, Told
<1>2. CASE p # Cube!NoPanel
  <2> DEFINE t == Cube!TextOf(p, "fps", b.fps)
             told == [[p EXCEPT !.fps = b.fps, !.real = b.real, !.text = t]
                        EXCEPT !.mode = b.mode, !.mult = b.mult, !.dir = b.dir]
             d == Cube!Disabled(told)
             new == [told EXCEPT !.off = d]
  <2>1. p.open = TRUE
    BY <1>2 DEF PanelShape, PanelFields
  <2>2. Cube!Mirror(p, b) = new
    BY <2>1 DEF Cube!Mirror, Cube!ShowRate, Cube!Buttons
  <2>3. /\ t = [k \in {"frame", "fps"} |-> t[k]] /\ t.frame = p.text.frame
    BY <1>2 DEF Cube!TextOf, PanelShape
  <2> HIDE DEF t
  <2>4. /\ PanelShape(told) /\ told # Cube!NoPanel /\ told.frame = p.frame
        /\ told.typing = p.typing /\ told.text = t
    BY <1>2, <2>1, <2>3 DEF PanelShape, PanelFields, Cube!NoPanel
  <2> HIDE DEF told, d
  <2>5. new.frame = p.frame /\ new.typing = p.typing /\ new.text = t
    BY <2>4 DEF PanelShape, PanelFields
  <2> HIDE DEF new
  <2> QED BY <2>1, <2>2, <2>3, <2>5 DEF Told
<1> QED BY <1>1, <1>2

LEMMA FrameTold ==
    ASSUME NEW p, PanelShape(p), NEW no
    PROVE  Told(Cube!ShowFrame(p, no), no)
<1>1. CASE p = Cube!NoPanel
  BY <1>1 DEF Cube!ShowFrame, Cube!NoPanel, Told
<1>2. CASE p # Cube!NoPanel
  <2> DEFINE t == Cube!TextOf(p, "frame", no)
             new == [p EXCEPT !.frame = no, !.text = t]
  <2>1. p.open = TRUE
    BY <1>2 DEF PanelShape, PanelFields
  <2>2. Cube!ShowFrame(p, no) = new
    BY <2>1 DEF Cube!ShowFrame
  <2>3. p.typing # "frame" => t.frame = no
    BY <1>2 DEF Cube!TextOf, PanelShape
  <2> HIDE DEF t
  <2>4. new.frame = no /\ new.typing = p.typing /\ new.text = t
    BY <1>2 DEF PanelShape, PanelFields
  <2> HIDE DEF new
  <2> QED BY <2>2, <2>3, <2>4 DEF Told
<1> QED BY <1>1, <1>2

\* Typing in an entry, and leaving it.
LEMMA EntryTells ==
    ASSUME NEW p, PanelShape(p), p.open
    PROVE  /\ PanelShape(Cube!Refreshed(p))
           /\ \A no : Told(p, no) => Told(Cube!Refreshed(p), no)
           /\ \A no, entry :
                 Told(p, no) /\ p.typing = "none" => Told([p EXCEPT !.typing = entry], no)
<1>1. p # Cube!NoPanel /\ p.open = TRUE
  BY DEF Cube!NoPanel, PanelShape
<1>2. p = [k \in PanelFields |-> p[k]]
  BY <1>1 DEF PanelShape
<1>3. ASSUME NEW no, NEW entry, Told(p, no), p.typing = "none"
      PROVE  Told([p EXCEPT !.typing = entry], no)
  <2>1. LET new == [p EXCEPT !.typing = entry]
        IN  new.frame = p.frame /\ new.text = p.text
    BY <1>2 DEF PanelFields
  <2> QED BY <1>1, <1>3, <2>1 DEF Told
<1>4. /\ PanelShape(Cube!Refreshed(p))
      /\ \A no : Told(p, no) => Told(Cube!Refreshed(p), no)
  <2> DEFINE t == [frame |-> p.frame, fps |-> p.fps]
             new == [[p EXCEPT !.typing = "none"] EXCEPT !.text = t]
  <2>1. Cube!Refreshed(p) = new
    BY <1>2 DEF Cube!Refreshed, PanelFields
  <2>2. t = [k \in {"frame", "fps"} |-> t[k]] /\ t.frame = p.frame
    OBVIOUS
  <2> HIDE DEF t
  <2>3. /\ new = [k \in PanelFields |-> new[k]] /\ new.open = TRUE /\ new.frame = p.frame
        /\ new.text = t
    BY <1>1, <1>2 DEF PanelFields
  <2> HIDE DEF new
  <2> QED BY <1>1, <2>1, <2>2, <2>3 DEF PanelShape, Told
<1> QED BY <1>3, <1>4

\* launchCubeCtrl opens a window that shows the number.
LEMMA LaunchTells ==
    ASSUME NEW b, NEW nz, NEW no
    PROVE  Told(Cube!LaunchCubeCtrl(Cube!NoPanel, b, nz, no), no)
<1> DEFINE first == [open |-> TRUE, mode |-> b.mode, fps |-> b.fps, real |-> b.real,
                     mult |-> b.mult, dir |-> b.dir, frames |-> nz, frame |-> no,
                     off |-> {}, typing |-> "none",
                     text |-> [frame |-> no, fps |-> b.fps]]
           d == Cube!Disabled(first)
           new == [first EXCEPT !.off = d]
<1>1. Cube!LaunchCubeCtrl(Cube!NoPanel, b, nz, no) = new
  BY DEF Cube!LaunchCubeCtrl, Cube!NoPanel, Cube!Buttons
<1> HIDE DEF d
<1>2. new.frame = no /\ new.text.frame = no
  OBVIOUS
<1> QED BY <1>1, <1>2 DEF Told

\* What the members and the timers keep, and a source that tells its number.
LEMMA TellsNext ==
    ASSUME q'.min # 0, q'.frozen \/ qTimers'.image # 0,
           NEW source, qSource' = source, SourceShape(source), Follows(source),
           NEW panel, qPanel' = panel, TellsOf(source, panel)
    PROVE  TellInv'
<1>1. SourceShape(qSource)' /\ Follows(qSource)' /\ TellsOf(qSource, qPanel)'
  BY DEF SourceShape, Follows, TellsOf, Told
<1> QED BY <1>1 DEF TellInv

LEMMA DrawnTells ==
    ASSUME NEW source, SourceShape(source), Follows(source),
           NEW b, b.min # 0, NEW timers, b.frozen \/ timers.image # 0,
           NEW panel, PanelShape(panel), Cube!Drawn(source, b, timers, panel)
    PROVE  TellInv'
<1> DEFINE p == IF source.nz > 1 THEN Cube!ShowFrame(panel, source.no) ELSE panel
<1>1. qSource' = source /\ q' = b /\ qTimers' = timers /\ qPanel' = p
  BY DEF Cube!Drawn
<1>2. TellsOf(source, p)
  BY FrameTold DEF TellsOf
<1> HIDE DEF p
<1> QED BY <1>1, <1>2, TellsNext

\* updateImages tells the window the frame of a cube, whatever else it does.
LEMMA ImageTells ==
    ASSUME CubeWindowInv, TellInv, NEW source, SourceShape(source), Follows(source),
           Cube!UpdateImages(source)
    PROVE  TellInv'
<1> DEFINE nz == Cube!Length(source)
           sized == [q EXCEPT !.nz = nz, !.size = source.size, !.connected = TRUE]
           p == Cube!ShowFrames(qPanel, nz)
           Plays(mode) ==
              LET b == [sized EXCEPT !.mode = mode]
              IN  Cube!Drawn(source, Cube!Timed(b, nz), Cube!SetCurrImageTimeout(b, nz),
                    Cube!LaunchCubeCtrl(Cube!Mirror(p, Cube!Timed(b, nz)),
                                        Cube!Timed(b, nz), nz, source.no))
<1>1. \/ \E mode \in BOOLEAN : Plays(mode)
      \/ Cube!Drawn(source, sized, qTimers, p)
  BY DEF Cube!UpdateImages
<1> HIDE DEF nz
<1>2. PanelShape(p) /\ Shows(p, q, nz)
  BY SizeShown DEF CubeWindowInv
<1>3. BaseShape(sized) /\ sized.min = q.min /\ sized.frozen = q.frozen
  BY DEF CubeWindowInv, BaseShape, BaseFields
<1> HIDE DEF p, sized
<1>4. ASSUME NEW mode \in BOOLEAN, Plays(mode)
      PROVE  TellInv'
  <2> DEFINE b == [sized EXCEPT !.mode = mode]
             timed == Cube!Timed(b, nz)
             timers == Cube!SetCurrImageTimeout(b, nz)
             new == Cube!LaunchCubeCtrl(Cube!Mirror(p, timed), timed, nz, source.no)
  <2>1. BaseShape(b) /\ b.min = q.min /\ b.frozen = q.frozen
    BY <1>3 DEF BaseShape, BaseFields
  <2>2. Cube!Drawn(source, timed, timers, new)
    BY <1>4
  <2> HIDE DEF b
  <2>3. timed.min # 0 /\ timed.frozen = q.frozen /\ (q.frozen \/ timers.image # 0)
    BY <2>1, TimerRuns DEF TellInv
  <2>4. p.open => p.frames = nz
    BY <1>2 DEF Shows
  <2>5. PanelShape(new)
    BY <1>2, <2>1, <2>4, PlaysShown
  <2> HIDE DEF timed, timers, new
  <2> QED BY <2>2, <2>3, <2>5, DrawnTells
<1>5. CASE Cube!Drawn(source, sized, qTimers, p)
  BY <1>2, <1>3, <1>5, DrawnTells DEF TellInv
<1> QED BY <1>1, <1>4, <1>5

\* A directory of which no frame was read does not count as shown.
LEMMA UnreadTells ==
    ASSUME CubeWindowInv, TellInv, qSource.fresh, Cube!Unread
    PROVE  TellInv'
<1>1. CASE Cube!Drawn(qSource, q, qTimers, qPanel)
  BY <1>1, DrawnTells DEF CubeWindowInv, TellInv
<1>2. ASSUME NEW default \in BOOLEAN,
             LET b == [q EXCEPT !.connected = TRUE, !.mode = default]
             IN  Cube!Drawn(qSource, Cube!Timed(b, q.nz), Cube!SetCurrImageTimeout(b, q.nz),
                            Cube!Mirror(qPanel, Cube!Timed(b, q.nz)))
      PROVE  TellInv'
  <2> DEFINE b == [q EXCEPT !.connected = TRUE, !.mode = default]
             timed == Cube!Timed(b, q.nz)
             timers == Cube!SetCurrImageTimeout(b, q.nz)
             new == Cube!Mirror(qPanel, timed)
  <2>1. BaseShape(b) /\ b.min = q.min /\ b.frozen = q.frozen
    BY DEF CubeWindowInv, BaseShape, BaseFields
  <2>2. Cube!Drawn(qSource, timed, timers, new)
    BY <1>2
  <2> HIDE DEF b
  <2>3. timed.min # 0 /\ timed.frozen = q.frozen /\ (q.frozen \/ timers.image # 0)
    BY <2>1, TimerRuns DEF TellInv
  <2>4. PanelShape(qPanel) /\ (qPanel.open => qPanel.frames = q.nz)
    BY DEF CubeWindowInv, Shows
  <2>5. PanelShape(new)
    BY <2>4, MirrorShows
  <2> HIDE DEF timed, timers, new
  <2> QED BY <2>2, <2>3, <2>5, DrawnTells DEF TellInv
<1> QED BY <1>1, <1>2 DEF Cube!Unread

\* The next frame, a file that is read anew, and a source that is lost.
LEMMA SourceNext ==
    ASSUME SourceShape(qSource), Follows(qSource), NEW size, NEW nz
    PROVE  /\ SourceShape(Cube!Stepped) /\ Follows(Cube!Stepped)
           /\ LET read == [Cube!Stepped EXCEPT !.fresh = FALSE, !.size = size]
              IN  SourceShape(read) /\ Follows(read)
           /\ LET read == [qSource EXCEPT !.fresh = FALSE]
              IN  qSource.kind = "file" => SourceShape(read) /\ Follows(read)
           /\ qSource.kind = "file" =>
                 SourceShape(Cube!ReadFile(nz, size)) /\ Follows(Cube!ReadFile(nz, size))
<1>1. SourceShape(Cube!Stepped) /\ Follows(Cube!Stepped)
  BY DEF SourceShape, SourceFields, Follows, Cube!Stepped
<1>2. LET read == [Cube!Stepped EXCEPT !.fresh = FALSE, !.size = size]
      IN  SourceShape(read) /\ Follows(read)
  BY DEF SourceShape, SourceFields, Follows, Cube!Stepped
<1>3. LET read == [qSource EXCEPT !.fresh = FALSE]
      IN  qSource.kind = "file" => SourceShape(read) /\ Follows(read)
  BY DEF SourceShape, SourceFields, Follows
<1>4. ASSUME qSource.kind = "file"
      PROVE  SourceShape(Cube!ReadFile(nz, size)) /\ Follows(Cube!ReadFile(nz, size))
  <2> DEFINE same == qSource.found /\ nz = qSource.nz /\ size = qSource.size
             c == IF same THEN qSource.curr ELSE 0
             read == [qSource EXCEPT !.new = FALSE, !.nz = nz, !.size = size, !.curr = c]
  <2>1. Cube!ReadFile(nz, size) = read
    BY DEF Cube!ReadFile, SourceShape, SourceFields
  <2>2. qSource.found => c = qSource.curr \/ c = 0
    OBVIOUS
  <2>3. ~qSource.found => c = 0
    OBVIOUS
  <2> HIDE DEF c
  <2>4. SourceShape(read) /\ Follows(read)
    BY <1>4, <2>2, <2>3 DEF SourceShape, SourceFields, Follows
  <2> QED BY <2>1, <2>4
<1> QED BY <1>1, <1>2, <1>3, <1>4

LEMMA LostTells ==
    ASSUME TellInv, NEW source, SourceShape(source), Cube!Lost(source)
    PROVE  TellInv'
<1> DEFINE lost == [source EXCEPT !.found = FALSE, !.fresh = TRUE]
<1>1. SourceShape(lost) /\ Follows(lost) /\ TellsOf(lost, qPanel)
  BY DEF SourceShape, SourceFields, Follows, TellsOf
<1>2. qSource' = lost /\ UNCHANGED <<q, qTimers, qPanel>>
  BY DEF Cube!Lost
<1> HIDE DEF lost
<1> QED BY <1>1, <1>2, TellsNext DEF TellInv

LEMMA UpdateTells ==
    ASSUME CubeWindowInv, TellInv, Cube!Update
    PROVE  TellInv'
<1>1. SourceShape(qSource) /\ Follows(qSource)
  BY DEF TellInv
<1>2. CASE Cube!UpdateFile
  <2>1. qSource.kind = "file"
    BY <1>2 DEF Cube!UpdateFile
  <2>2. CASE Cube!UpdateImages([qSource EXCEPT !.fresh = FALSE])
    BY <1>1, <2>1, <2>2, SourceNext, ImageTells
  <2>3. CASE \E nz, size : Cube!UpdateImages(Cube!ReadFile(nz, size))
    <3>1. PICK nz, size : Cube!UpdateImages(Cube!ReadFile(nz, size))
      BY <2>3
    <3>2. SourceShape(Cube!ReadFile(nz, size)) /\ Follows(Cube!ReadFile(nz, size))
      BY <1>1, <2>1, SourceNext
    <3> QED BY <3>1, <3>2, ImageTells
  <2>4. CASE Cube!Lost(qSource)
    BY <1>1, <2>4, LostTells
  <2>5. CASE Cube!UpdateImages(Cube!Stepped)
    BY <1>1, <2>5, SourceNext, ImageTells
  <2> QED BY <1>2, <2>2, <2>3, <2>4, <2>5 DEF Cube!UpdateFile
<1>3. CASE Cube!UpdateDirectory
  <2>1. CASE Cube!Lost(qSource) \/ Cube!Lost(Cube!Stepped)
    BY <1>1, <2>1, SourceNext, LostTells
  <2>2. ASSUME NEW size,
               Cube!UpdateImages([Cube!Stepped EXCEPT !.fresh = FALSE, !.size = size])
        PROVE  TellInv'
    BY <1>1, <2>2, SourceNext, ImageTells
  <2>3. CASE qSource.fresh /\ Cube!Unread
    BY <2>3, UnreadTells
  <2> QED BY <1>3, <2>1, <2>2, <2>3 DEF Cube!UpdateDirectory
<1> QED BY <1>2, <1>3 DEF Cube!Update

\* A setter of rtimvBase, also when an entry is left with it.
LEMMA SetTells ==
    ASSUME TellInv, NEW b, BaseShape(b), b.min # 0, b.frozen = q.frozen,
           NEW p, PanelShape(p), TellsOf(qSource, p),
           q' = Cube!Timed(b, q.nz),
           qTimers' = Cube!SetCurrImageTimeout(b, q.nz),
           qPanel' = Cube!Mirror(p, Cube!Timed(b, q.nz)),
           qSource' = qSource
    PROVE  TellInv'
<1>1. q'.min # 0 /\ (q'.frozen \/ qTimers'.image # 0)
  BY TimerRuns DEF TellInv
<1>2. TellsOf(qSource, Cube!Mirror(p, Cube!Timed(b, q.nz)))
  BY MirrorTells DEF TellsOf
<1> QED BY <1>1, <1>2, TellsNext DEF TellInv

LEMMA SetterTells ==
    ASSUME CubeWindowInv, TellInv, NEW b, BaseShape(b), b.min # 0, b.frozen = q.frozen,
           Cube!Set(b)
    PROVE  TellInv'
BY SetTells DEF Cube!Set, CubeWindowInv, TellInv

\* What a step does that changes no member and draws no image.
LEMMA ElsewhereTells ==
    ASSUME TellInv, q' = q, qTimers'.image = qTimers.image,
           NEW next, qSource' \in {qSource, [qSource EXCEPT !.next = next]},
           NEW panel, qPanel' = panel, TellsOf(qSource, panel)
    PROVE  TellInv'
<1>1. /\ SourceShape(qSource') /\ Follows(qSource') /\ TellsOf(qSource', panel)
  BY DEF TellInv, SourceShape, SourceFields, Follows, TellsOf
<1> QED BY <1>1, TellsNext DEF TellInv

LEMMA TellStep ==
    ASSUME CubeWindowInv, TellInv, Cube!Next
    PROVE  TellInv'
<1>1. /\ BaseShape(q) /\ PanelShape(qPanel) /\ q.min # 0
      /\ SourceShape(qSource) /\ Follows(qSource) /\ TellsOf(qSource, qPanel)
  BY DEF CubeWindowInv, TellInv
<1>2. \A x : \A m \in BOOLEAN :
         /\ [q EXCEPT !.fps = x].min # 0 /\ [q EXCEPT !.fps = x].frozen = q.frozen
         /\ [q EXCEPT !.mode = m].min # 0 /\ [q EXCEPT !.mode = m].frozen = q.frozen
         /\ [q EXCEPT !.min = x].min = x /\ [q EXCEPT !.min = x].frozen = q.frozen
  BY <1>1 DEF BaseShape, BaseFields
<1>3. CASE Cube!Update
  BY <1>3, UpdateTells
<1>4. CASE Cube!ImConnect
  <2>1. PICK nz, size :
           qSource' = [(IF qSource.kind = "file" THEN Cube!ReadFile(nz, size)
                        ELSE Cube!ReadNames(nz)) EXCEPT !.found = TRUE, !.fresh = TRUE]
    BY <1>4 DEF Cube!ImConnect
  <2> DEFINE read == IF qSource.kind = "file" THEN Cube!ReadFile(nz, size)
                     ELSE Cube!ReadNames(nz)
             source == [read EXCEPT !.found = TRUE, !.fresh = TRUE]
  <2>2. /\ SourceShape(read)
        /\ read.kind = "file" => read.curr = 0
    <3>1. CASE qSource.kind = "file"
      BY <1>1, <1>4, <3>1 DEF SourceShape, SourceFields, Cube!ReadFile, Cube!ImConnect
    <3>2. CASE qSource.kind # "file"
      BY <1>1, <3>2 DEF SourceShape, SourceFields, Cube!ReadNames
    <3> QED BY <3>1, <3>2
  <2> HIDE DEF read
  <2>3. SourceShape(source) /\ Follows(source) /\ TellsOf(source, qPanel)
    BY <2>2 DEF SourceShape, SourceFields, Follows, TellsOf
  <2>4. qSource' = source /\ UNCHANGED <<q, qTimers, qPanel>>
    BY <1>4, <2>1 DEF Cube!ImConnect, read
  <2> HIDE DEF source
  <2> QED BY <2>3, <2>4, TellsNext DEF TellInv
<1>5. CASE Cube!Rewritten
  <2> DEFINE source == [qSource EXCEPT !.new = TRUE]
  <2>1. SourceShape(source) /\ Follows(source) /\ TellsOf(source, qPanel)
    BY <1>1 DEF SourceShape, SourceFields, Follows, TellsOf
  <2>2. qSource' = source /\ UNCHANGED <<q, qTimers, qPanel>>
    BY <1>5 DEF Cube!Rewritten
  <2> HIDE DEF source
  <2> QED BY <2>1, <2>2, TellsNext DEF TellInv
<1>6. ASSUME NEW no, Cube!AskFor(no)
      PROVE  TellInv'
  BY <1>1, <1>6, ElsewhereTells DEF Cube!AskFor
<1>7. CASE Cube!UpdateCube \/ Cube!Scroll \/ Cube!PressStep
  BY <1>6, <1>7 DEF Cube!UpdateCube, Cube!Scroll, Cube!PressStep, Cube!CubeFrame,
     Cube!CubeFrameDelta
<1>8. CASE Cube!UpdateCubeFrame
  <2>1. TellsOf(qSource, Cube!ShowFrame(qPanel, qSource.no))
    BY <1>1, FrameTold DEF TellsOf
  <2> QED BY <1>8, <2>1, ElsewhereTells DEF Cube!UpdateCubeFrame
<1>9. ASSUME NEW to \in Timeouts, Cube!ImageTimeout(to)
      PROVE  TellInv'
  <2>1. to # 0
    BY ConstantsAssumption DEF Cube!CubeAssumption
  <2> QED BY <1>1, <1>2, <1>9, <2>1, MemberSet, SetterTells DEF Cube!ImageTimeout
<1>10. CASE Cube!PressSpeed
  BY <1>1, <1>2, <1>10, MemberSet, SetterTells DEF Cube!PressSpeed, Cube!CubeFPS
<1>11. CASE Cube!PressPlay
  <2>1. PICK dir, mult : Cube!Set([q EXCEPT !.mult = mult, !.dir = dir, !.mode = TRUE])
    BY <1>11 DEF Cube!PressPlay, Cube!Play
  <2> DEFINE b == [q EXCEPT !.mult = mult, !.dir = dir, !.mode = TRUE]
  <2>2. b.min # 0 /\ b.frozen = q.frozen
    BY <1>1 DEF BaseShape, BaseFields
  <2>3. BaseShape(b)
    BY <1>1, MemberSet
  <2> HIDE DEF b
  <2> QED BY <2>1, <2>2, <2>3, SetterTells DEF b
<1>12. CASE Cube!PressStop
  BY <1>1, <1>2, <1>12, MemberSet, SetterTells DEF Cube!PressStop, Cube!CubeMode
<1>13. CASE Cube!FreezeRealTime
  <2>1. q'.min = q.min /\ q'.frozen = ~q.frozen
    BY <1>1, <1>13 DEF Cube!FreezeRealTime, BaseShape, BaseFields
  <2>2. qTimers'.image = IF q.frozen THEN q.min ELSE 0
    BY <1>13 DEF Cube!FreezeRealTime, CubeWindowInv, TimersShape
  <2>3. q'.min # 0 /\ (q'.frozen \/ qTimers'.image # 0)
    BY <1>1, <2>1, <2>2
  <2> QED BY <1>1, <1>13, <2>3, TellsNext DEF Cube!FreezeRealTime
<1>14. CASE Cube!ToggleCubeCtrl
  <2> DEFINE no == IF Cube!Valid THEN qSource.no ELSE 0
             new == Cube!LaunchCubeCtrl(Cube!NoPanel, q, q.nz, no)
  <2>1. qPanel = Cube!NoPanel
    BY <1>1, <1>14 DEF Cube!ToggleCubeCtrl, PanelShape
  <2>2. qPanel' = new /\ UNCHANGED <<q, qTimers, qSource>>
    BY <1>14, <2>1 DEF Cube!ToggleCubeCtrl
  <2>3. Told(new, no)
    BY LaunchTells
  <2>4. qSource.found /\ ~qSource.fresh => no = qSource.no
    BY DEF Cube!Valid
  <2> HIDE DEF no, new
  <2>5. TellsOf(qSource, new)
    BY <2>3, <2>4 DEF TellsOf
  <2> QED BY <2>2, <2>5, ElsewhereTells
<1>15. CASE Cube!Type("frame") \/ Cube!Type("fps") \/ Cube!EditingFinished
  <2>1. qPanel.open
    BY <1>15 DEF Cube!Type, Cube!EditingFinished, Cube!AtPanel
  <2>2. PICK panel : qPanel' = panel /\ TellsOf(qSource, panel)
    BY <1>1, <1>15, <2>1, EntryTells DEF Cube!Type, Cube!EditingFinished, TellsOf
  <2>3. UNCHANGED <<q, qTimers, qSource>>
    BY <1>15 DEF Cube!Type, Cube!EditingFinished
  <2> QED BY <2>2, <2>3, ElsewhereTells
<1>16. CASE Cube!ReturnPressed
  <2>1. PanelShape(Cube!Refreshed(qPanel)) /\ TellsOf(qSource, Cube!Refreshed(qPanel))
    <3>1. qPanel.open
      BY <1>16 DEF Cube!ReturnPressed, Cube!AtPanel
    <3> QED BY <1>1, <3>1, EntryTells DEF TellsOf
  <2>2. ASSUME NEW n, qSource' = [qSource EXCEPT !.next = n],
               qPanel' = Cube!Refreshed(qPanel), UNCHANGED <<q, qTimers>>
        PROVE  TellInv'
    BY <2>1, <2>2, ElsewhereTells
  <2>3. ASSUME NEW fps, q' = Cube!Timed([q EXCEPT !.fps = fps], q.nz),
               qTimers' = Cube!SetCurrImageTimeout([q EXCEPT !.fps = fps], q.nz),
               qPanel' = Cube!Mirror(Cube!Refreshed(qPanel),
                                     Cube!Timed([q EXCEPT !.fps = fps], q.nz)),
               qSource' = qSource
        PROVE  TellInv'
    <3> DEFINE b == [q EXCEPT !.fps = fps]
    <3>1. BaseShape(b) /\ b.min # 0 /\ b.frozen = q.frozen
      BY <1>1, <1>2, MemberSet
    <3> HIDE DEF b
    <3> QED BY <2>1, <2>3, <3>1, SetTells DEF b
  <2> QED BY <1>16, <2>2, <2>3 DEF Cube!ReturnPressed
<1> QED
  BY <1>3, <1>4, <1>5, <1>7, <1>8, <1>9, <1>10, <1>11, <1>12, <1>13, <1>14,
     <1>15, <1>16
  DEF Cube!Next

\* Whatever is pressed, typed or set and whichever kind of image comes, the image
\* timer runs unless the operator froze it, and the window shows the number of the
\* frame that is drawn, except in the entry the operator types in
\* (setCurrImageTimeout, freezeRealTime, updateImages; cubeCtrl.cpp).
THEOREM FrameIsToldHolds == Spec => []FrameIsTold
<1>1. Init => TellInv
  <2> SUFFICES ASSUME Cube!Init PROVE TellInv
    BY DEF Init
  <2>1. PICK fps \in Rates, min \in Timeouts :
           q.min = min /\ qTimers.image = min
    BY DEF Cube!Init
  <2>2. min # 0
    BY ConstantsAssumption DEF Cube!CubeAssumption
  <2>3. SourceShape(qSource) /\ Follows(qSource) /\ TellsOf(qSource, qPanel)
    BY DEF Cube!Init, SourceShape, SourceFields, Follows, TellsOf
  <2> QED BY <2>1, <2>2, <2>3 DEF TellInv
<1>2. CubeWindowInv /\ TellInv /\ [Next]_vars => TellInv'
  <2> SUFFICES ASSUME CubeWindowInv, TellInv, [Next]_vars PROVE TellInv'
    OBVIOUS
  <2>1. CASE UNCHANGED cubeVars
    BY <2>1, TellsNext DEF cubeVars, TellInv
  <2>2. CASE Cube!Next
    BY <2>2, TellStep
  <2> QED BY <2>1, <2>2 DEF Next, vars
<1>3. TellInv => FrameIsTold
  BY DEF TellInv, TellsOf, Follows, Told, FrameIsTold, Cube!FrameIsTold, Cube!Shown
<1> QED BY <1>1, <1>2, <1>3, CubeWindowInvariant, PTL DEF Spec

=============================================================================
