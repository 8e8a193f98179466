----------------------------- MODULE CubeControl ----------------------------
(***************************************************************************)
(* Playing a cube: the timers rtimvBase runs (src/src/common/rtimvBase.cpp *)
(* from setCurrImageTimeout on) and the cube window of the GUI, which      *)
(* mirrors them (src/src/gui/cubeCtrl.cpp).                                *)
(*                                                                         *)
(* The cube timer asks the source for another frame, the image timer takes *)
(* it, and a third timer tells the window the number.  The window never    *)
(* changes its own state: a button emits a signal, rtimvBase takes the new *)
(* value and emits it back.  All of it is in the Qt thread.  The check box *)
(* of automatic scaling is in PanelTools.                                  *)
(*                                                                         *)
(* Only FITS files and directories are cubes.  A file may be written anew  *)
(* with another shape, be lost and be found again; rtimvBase takes its     *)
(* length only when the size of its frames differs from the one shown, and *)
(* the source keeps its numbers.  Shapes of the same number of pixels are  *)
(* left out, and what m_currData points to beyond the data is not looked   *)
(* into: the frame is then one beyond the cube.                            *)
(***************************************************************************)
EXTENDS CubeFrames

CONSTANTS Frames,    \* bound on the frames of a cube
          Sizes,     \* sizes of a frame; 0 is that of no image
          Rates,     \* the rates an operator asks for, frames per Second
          Timeouts,  \* values of m_imageTimeout
          Second,    \* a second, in ticks of the timers
          MaxInputs, \* bound on what the operator sets or asks for
          MaxWrites  \* bound on changes of the disk

CubeAssumption ==
    /\ MaxInputs \in Nat /\ MaxWrites \in Nat
    /\ Frames \in Nat /\ Frames > 1 /\ Second \in Nat \ {0}
    /\ Sizes \subseteq Nat \ {0} /\ Uint \in Nat /\ Uint > Frames
    /\ Rates \subseteq Nat /\ Timeouts \subseteq Nat \ {0}

VARIABLES
    q,        \* the members of rtimvBase
    qTimers,  \* the period of the timers, 0 when stopped
    qSource,  \* the members of the source of the image
    qPanel,   \* the cube window
    qCount    \* inputs and writes so far

qvars == <<q, qTimers, qSource, qPanel, qCount>>

Mults == {1, 2, 10}

\* fps is m_desiredCubeFPS, min m_imageTimeout and curr m_currImageTimeout;
\* real is the period m_cubeFPS stands for, 0 when m_cubeFPS is 0; nz is m_nz,
\* and size that of m_qim, 0 when there is none.
Base == [mode : BOOLEAN, fps : Nat, mult : Mults, dir : {-1, 1}, real : Nat,
         min : Nat, curr : Nat, frozen : BOOLEAN,
         connected : BOOLEAN, nz : Nat, size : Nat]

\* fresh: nothing of it was drawn since it was found; new: the disk was written
\* since it was read; no and next are m_imageNo and m_nextImageNo, and curr the
\* frame m_currData points to.
Source == [kind : {"file", "directory"}, found : BOOLEAN, fresh : BOOLEAN,
           new : BOOLEAN, nz : Nat, size : Nat, no : Nat, next : Nat, curr : Nat]

NoPanel == [open |-> FALSE]

Init ==
    /\ \E fps \in Rates, min \in Timeouts :
          /\ q = [mode |-> FALSE, fps |-> fps, mult |-> 1, dir |-> 1, real |-> 0,
                  min |-> min, curr |-> min, frozen |-> FALSE,
                  connected |-> FALSE, nz |-> 1, size |-> 0]
          /\ qTimers = [image |-> min, cube |-> 0, frame |-> 0]
    /\ \E kind \in {"file", "directory"} :
          qSource = [kind |-> kind, found |-> FALSE, fresh |-> TRUE, new |-> FALSE,
                     nz |-> 0, size |-> 0, no |-> 0, next |-> 0, curr |-> 0]
    /\ qPanel = NoPanel
    /\ qCount = [inputs |-> 0, writes |-> 0]

-----------------------------------------------------------------------------
(* The slots of the window.                                                *)

\* updateButtons: the buttons that cannot be pressed.
Disabled(p) ==
    IF ~p.mode THEN {<<0, 0>>}
    ELSE IF p.mult \in Mults THEN {<<p.dir, p.mult>>} ELSE {}

\* cubeMode, cubeFPSMult and cubeDir of the window.
Buttons(p) == [p EXCEPT !.off = Disabled(p)]

\* cubeFrame and cubeFPS leave alone what the operator is typing.
TextOf(p, entry, value) ==
    IF p.typing = entry THEN p.text ELSE [p.text EXCEPT ![entry] = value]

ShowFrame(p, no) ==
    IF p.open THEN [p EXCEPT !.frame = no, !.text = TextOf(p, "frame", no)] ELSE p

ShowRate(p, b) ==
    IF p.open THEN [p EXCEPT !.fps = b.fps, !.real = b.real,
                             !.text = TextOf(p, "fps", b.fps)]
    ELSE p

\* Mutant of Mirror: the direction is not connected.
MirrorNoDir(p, b) ==
    IF p.open
    THEN Buttons([ShowRate(p, b) EXCEPT !.mode = b.mode, !.mult = b.mult])
    ELSE p

\* Every slot of the window that rtimvBase reaches with the setters below.
Mirror(p, b) ==
    IF p.open
    THEN Buttons([ShowRate(p, b) EXCEPT !.mode = b.mode, !.mult = b.mult,
                                        !.dir = b.dir])
    ELSE p

LaunchCubeCtrl(p, b, nz, no) ==
    IF p.open THEN p
    ELSE Buttons([open |-> TRUE, mode |-> b.mode, fps |-> b.fps, real |-> b.real,
                  mult |-> b.mult, dir |-> b.dir, frames |-> nz, frame |-> no,
                  off |-> {}, typing |-> "none",
                  text |-> [frame |-> no, fps |-> b.fps]])

-----------------------------------------------------------------------------
(* rtimvBase.                                                              *)

Least1(n) == IF n < 1 THEN 1 ELSE n
Round(a, b) == (2 * a + b) \div (2 * b)

\* The period of the cube timer for the rate, and the one the images can keep:
\* a longer one is a multiple of m_imageTimeout.
Wish(b) == Least1(Round(Second, b.fps * b.mult))
Kept(b) == IF Wish(b) <= b.min THEN Wish(b)
           ELSE Least1(Round(Wish(b), b.min)) * b.min

Still(b, nz) == b.fps = 0 \/ nz <= 1

CurrOf(b, nz) == IF ~Still(b, nz) /\ Wish(b) <= b.min THEN Wish(b) ELSE b.min

RealOf(b, nz) == IF Still(b, nz) \/ ~b.mode THEN 0 ELSE Kept(b)

\* setCurrImageTimeout: the members and the timers it leaves.
Timed(b, nz) == [b EXCEPT !.real = RealOf(b, nz), !.curr = CurrOf(b, nz)]

FramePeriod(b, nz) ==
    IF nz <= 1 THEN 0
    ELSE IF b.fps = 0 \/ b.mode THEN Second \div 4 ELSE qTimers.frame

\* The image timer is not interrupted when its period stays.
SetCurrImageTimeout(b, nz) ==
    [image |-> IF CurrOf(b, nz) = b.curr THEN qTimers.image ELSE CurrOf(b, nz),
     cube  |-> RealOf(b, nz),
     frame |-> FramePeriod(b, nz)]

Input ==
    /\ qCount.inputs < MaxInputs
    /\ qCount' = [qCount EXCEPT !.inputs = @ + 1]

\* imageTimeout, cubeMode, cubeFPS and cubeFPSMult set a member b, time it, and
\* tell the window.
Set(b) ==
    /\ Input
    /\ q' = Timed(b, q.nz)
    /\ qTimers' = SetCurrImageTimeout(b, q.nz)
    /\ qPanel' = Mirror(qPanel, Timed(b, q.nz))
    /\ UNCHANGED qSource

ImageTimeout(to) == Set([q EXCEPT !.min = to])
CubeFPS(fps)     == Set([q EXCEPT !.fps = fps])
CubeMode(mode)   == Set([q EXCEPT !.mode = mode])

\* A play button emits the speed, then the direction, then the mode.
Play(dir, mult) == Set([q EXCEPT !.mult = mult, !.dir = dir, !.mode = TRUE])

\* freezeRealTime: the image timer is started with the shortest period.
FreezeRealTime ==
    /\ Input
    /\ q' = [q EXCEPT !.frozen = ~@]
    /\ qTimers' = [qTimers EXCEPT !.image = IF q.frozen THEN q.min ELSE 0]
    /\ UNCHANGED <<qSource, qPanel>>

\* Numbers that the runs do not go beyond; the one below 0 is the largest.
Asked == 0 .. Frames \cup {Uint - 1}

AskFor(no) ==
    /\ no \in Asked
    /\ qSource' = [qSource EXCEPT !.next = no]
    /\ UNCHANGED <<q, qTimers, qPanel>>

CubeFrame(n) == Input /\ AskFor(ImageNo(n, qSource.nz))

\* A source that was never read has no length to divide by.
CubeFrameDelta(d) ==
    /\ qSource.nz > 0
    /\ Input
    /\ AskFor(DeltaImageNo(d, qSource.no, qSource.next, qSource.nz))

UpdateCube ==
    /\ qTimers.cube # 0
    /\ AskFor(IF q.dir >= 0 THEN IncImageNo(qSource.no, qSource.nz)
              ELSE DecImageNo(qSource.no, qSource.nz))
    /\ UNCHANGED qCount

UpdateCubeFrame ==
    /\ qTimers.frame # 0
    /\ qPanel' = ShowFrame(qPanel, qSource.no)
    /\ UNCHANGED <<q, qTimers, qSource, qCount>>

-----------------------------------------------------------------------------
(* The source: found by its own timer, and written anew at any time.        *)

Lengths == 1 .. Frames

\* A file is read into new memory when its shape is another one, and only then
\* m_currData is the first frame; it keeps its numbers.
ReadFile(nz, size) ==
    LET same == qSource.found /\ nz = qSource.nz /\ size = qSource.size
    IN [qSource EXCEPT !.new = FALSE, !.nz = nz, !.size = size,
                       !.curr = IF same THEN @ ELSE 0]

\* A directory only gives the names.
ReadNames(nz) ==
    [qSource EXCEPT !.new = FALSE, !.nz = nz, !.no = 1, !.next = 0]

ImConnect ==
    /\ ~qSource.found
    /\ \E nz \in Lengths, size \in Sizes :
          qSource' = [(IF qSource.kind = "file" THEN ReadFile(nz, size) ELSE ReadNames(nz))
                         EXCEPT !.found = TRUE, !.fresh = TRUE]
    /\ UNCHANGED <<q, qTimers, qPanel, qCount>>

Rewritten ==
    /\ qSource.found /\ ~qSource.new
    /\ qCount.writes < MaxWrites
    /\ qCount' = [qCount EXCEPT !.writes = @ + 1]
    /\ qSource' = [qSource EXCEPT !.new = TRUE]
    /\ UNCHANGED <<q, qTimers, qPanel>>

-----------------------------------------------------------------------------
(* updateImages: what update of the source returns is drawn.               *)

\* nzUpdated goes to the window, before the image is drawn.
ShowFrames(p, nz) == IF p.open THEN [p EXCEPT !.frames = nz] ELSE p

\* Mutant of Drawn: only the third timer tells the window the frame.
DrawnQuietly(source, b, timers, panel) ==
    /\ qSource' = source
    /\ q' = b /\ qTimers' = timers /\ qPanel' = panel

Drawn(source, b, timers, panel) ==
    /\ qSource' = source
    /\ q' = b
    /\ qTimers' = timers
    /\ qPanel' = IF source.nz > 1 THEN ShowFrame(panel, source.no) ELSE panel

\* mtxUL_changeImdata: a frame of the size that is shown leaves m_nz alone.
Length(source) == IF source.size # q.size THEN source.nz ELSE q.nz

\* A cube that connects starts as its source wants, and mtxL_postChangeImdata
\* plays the first one that comes later.
UpdateImages(source) ==
    LET nz    == Length(source)
        sized == [q EXCEPT !.nz = nz, !.size = source.size, !.connected = TRUE]
        p     == ShowFrames(qPanel, nz)
        Plays(mode) ==
            LET b == [sized EXCEPT !.mode = mode]
            IN  Drawn(source, Timed(b, nz), SetCurrImageTimeout(b, nz),
                      LaunchCubeCtrl(Mirror(p, Timed(b, nz)), Timed(b, nz), nz, source.no))
    IN IF ~q.connected /\ source.nz > 1 THEN \E default \in BOOLEAN : Plays(default)
       ELSE IF q.connected /\ nz > 1 /\ ~p.open THEN Plays(TRUE)
       ELSE Drawn(source, sized, qTimers, p)

\* The frame that was asked for.
Stepped == [qSource EXCEPT !.no = qSource.next, !.curr = qSource.next]

Lost(source) ==
    /\ qSource' = [source EXCEPT !.found = FALSE, !.fresh = TRUE]
    /\ UNCHANGED <<q, qTimers, qPanel>>

UpdateFile ==
    /\ qSource.kind = "file"
    /\ \/ qSource.fresh /\ UpdateImages([qSource EXCEPT !.fresh = FALSE])
       \/ /\ ~qSource.fresh /\ qSource.new
          /\ \/ \E nz \in Lengths, size \in Sizes : UpdateImages(ReadFile(nz, size))
             \/ Lost(qSource)
       \/ /\ ~qSource.fresh /\ ~qSource.new /\ qSource.next # qSource.no
          /\ UpdateImages(Stepped)

\* A directory is an image on every update, even before a frame of it was read
\* when that with number 1 was asked for: nothing is drawn, the rest is done.
Unread ==
    IF q.connected THEN Drawn(qSource, q, qTimers, qPanel)
    ELSE \E default \in BOOLEAN :
            LET plays == [q EXCEPT !.connected = TRUE, !.mode = default]
            IN  Drawn(qSource, Timed(plays, q.nz), SetCurrImageTimeout(plays, q.nz),
                      Mirror(qPanel, Timed(plays, q.nz)))

\* With one file no frame is ever read; a file may have a size of its own.
UpdateDirectory ==
    /\ qSource.kind = "directory"
    /\ \/ qSource.new /\ Lost(qSource)
       \/ /\ ~qSource.new /\ qSource.nz > 1 /\ qSource.next # qSource.no
          /\ \/ /\ qSource.next < qSource.nz
                /\ \E size \in Sizes :
                      UpdateImages([Stepped EXCEPT !.fresh = FALSE, !.size = size])
             \/ Lost(Stepped)
       \/ /\ ~qSource.new /\ qSource.nz > 1 /\ qSource.next = qSource.no /\ qSource.fresh
          /\ Unread

Update ==
    /\ qTimers.image # 0 /\ qSource.found
    /\ UpdateFile \/ UpdateDirectory
    /\ UNCHANGED qCount

-----------------------------------------------------------------------------
(* The operator at the window.                                             *)

AtPanel == qPanel.open

\* The key opens the window at any time; an image that is not valid has number 0.
Valid == qSource.found /\ (qSource.kind = "file" \/ ~qSource.fresh)

ToggleCubeCtrl ==
    /\ ~qPanel.open
    /\ qPanel' = LaunchCubeCtrl(qPanel, q, q.nz, IF Valid THEN qSource.no ELSE 0)
    /\ UNCHANGED <<q, qTimers, qSource, qCount>>

Speeds(fps) == {v \in Rates : fps = 2 * v \/ v = 2 * fps \/ fps = 10 * v \/ v = 10 * fps}

PressSpeed == AtPanel /\ \E fps \in Speeds(q.fps) : CubeFPS(fps)

PressPlay == AtPanel /\ \E dir \in {-1, 1}, mult \in Mults :
                 <<dir, mult>> \notin qPanel.off /\ Play(dir, mult)

PressStop == AtPanel /\ <<0, 0>> \notin qPanel.off /\ CubeMode(FALSE)

Scroll == AtPanel /\ \E n \in 0 .. qPanel.frames : CubeFrame(n)

PressStep == AtPanel /\ \E d \in {-10, -1, 1, 10} : CubeFrameDelta(d)

Type(entry) ==
    /\ AtPanel /\ Input /\ qPanel.typing = "none"
    /\ qPanel' = [qPanel EXCEPT !.typing = entry]
    /\ UNCHANGED <<q, qTimers, qSource>>

\* editingFinished drops what was typed, and shows the latest value.
Refreshed(p) ==
    LET done == [p EXCEPT !.typing = "none"]
    IN [done EXCEPT !.text = [frame |-> p.frame, fps |-> p.fps]]

EditingFinished ==
    /\ AtPanel /\ qPanel.typing # "none"
    /\ qPanel' = Refreshed(qPanel)
    /\ UNCHANGED <<q, qTimers, qSource, qCount>>

\* returnPressed keeps what was typed, and sends it.
ReturnPressed ==
    /\ AtPanel
    /\ \/ /\ qPanel.typing = "frame"
          /\ \E n \in 0 .. Frames :
                qSource' = [qSource EXCEPT !.next = ImageNo(n, qSource.nz)]
          /\ qPanel' = Refreshed(qPanel)
          /\ UNCHANGED <<q, qTimers>>
       \/ /\ qPanel.typing = "fps"
          /\ \E fps \in Rates :
                LET b == [q EXCEPT !.fps = fps]
                IN /\ q' = Timed(b, q.nz)
                   /\ qTimers' = SetCurrImageTimeout(b, q.nz)
                   /\ qPanel' = Mirror(Refreshed(qPanel), Timed(b, q.nz))
          /\ UNCHANGED qSource
    /\ UNCHANGED qCount

Next ==
    \/ ImConnect \/ Rewritten \/ Update \/ UpdateCube \/ UpdateCubeFrame
    \/ \E to \in Timeouts : to # q.min /\ ImageTimeout(to)
    \/ FreezeRealTime \/ ToggleCubeCtrl
    \/ PressSpeed \/ PressPlay \/ PressStop \/ Scroll \/ PressStep
    \/ Type("frame") \/ Type("fps") \/ EditingFinished \/ ReturnPressed

Spec == Init /\ [][Next]_qvars

\* The image timer fires as long as it runs.
Fairness == WF_qvars(Update)

FairSpec == Spec /\ Fairness

-----------------------------------------------------------------------------
(* Properties.                                                             *)

\* The window never drifts: after any sequence of buttons, entries, changes of
\* the timeout and new images it shows the mode, the speed, the direction and
\* the length rtimvBase has, only the button of that state is disabled, and an
\* entry nobody types in shows the value (the signals of cubeCtrl and
\* rtimvBase).
PanelMatches ==
    qPanel.open =>
        /\ qPanel.mode = q.mode /\ qPanel.mult = q.mult /\ qPanel.dir = q.dir
        /\ qPanel.fps = q.fps
        /\ qPanel.frames = q.nz
        /\ qPanel.off = Disabled(qPanel)
        /\ qPanel.typing # "fps" => qPanel.text.fps = q.fps
        /\ q.mode \/ qTimers.cube = 0

\* Something of the source was drawn since it was found.
Shown == qSource.found /\ ~qSource.fresh

\* The image timer runs unless the operator stopped it, and a source that is a cube
\* has told the window its number, whichever length rtimvBase has taken for it:
\* no sequence of modes, speeds, timeouts, entries, frames, and files that are
\* written anew, lost and found leaves an image that nothing updates or a number of
\* a frame before.  The frame drawn is that of the number, but for the first one of
\* a file that was read anew (setCurrImageTimeout, freezeRealTime, updateImages,
\* fitsImage.cpp:258-271, 346-382; cubeCtrl.cpp).
FrameIsTold ==
    /\ q.frozen \/ qTimers.image # 0
    /\ Shown /\ qSource.curr # qSource.no => qSource.kind = "file" /\ qSource.curr = 0
    /\ Shown /\ qPanel.open /\ qSource.nz > 1 =>
          /\ qPanel.frame = qSource.no
          /\ qPanel.typing # "frame" => qPanel.text.frame = qSource.no

\* Whatever frame the operator asks for is taken, and the window shows its number,
\* although nothing but the update of the image tells it when the cube does not
\* play or its length was not taken; while the source is lost or written again and
\* again nothing is promised, nor by a directory that was asked for its frame 1
\* before any was read (updateImages, updateCubeFrame; update of fitsImage and
\* fitsDirectory).
FrameIsShown ==
    []<>(\/ q.frozen \/ ~qPanel.open \/ ~qSource.found \/ qSource.new
         \/ qSource.kind = "directory" /\ qSource.fresh /\ qSource.next = qSource.no
         \/ qSource.nz = 1 \/ qPanel.typing = "frame"
         \/ Shown /\ qSource.next = qSource.no /\ qPanel.text.frame = qSource.no)

=============================================================================
