--------------------------- MODULE MCDisplay ---------------------------
(* From the sources of images to what the window shows of them, in one run of*)
(* TLC: a behaviour is of one source, or of the readout of the mouse, of the*)
(* cube control or of the text panel, and the other parts rest.            *)
EXTENDS Integers, Sequences

CONSTANTS MaxFrames, MaxWrites, MaxSteps, Uint, MaxStreams, MaxDowns, Pixels,
          MaxMoves, MaxShown, MaxFaults, Frames, Sizes, Rates, Timeouts, Second,
          MaxInputs, MaxRewrites, Keys, Plugins, Unused, MaxLines, MaxVersion

VARIABLES
    part,
    fKind, fDisk, f, fSeeks, fAt, fCount, fRaced, fDead,
    sPath, sStreams, s, sSeeks, sAt, sRaced,
    zServer, zWire, zAt, zMsg, zBuffer, zDims, zAttached, zCnt, zReads, zDowns,
    mRemote, mFrame, mAt, mItem, mNull, mDue, mCall, mQueued, mEvent, mCache,
    mShow, mText, mCount, mUnseen,
    q, qTimers, qSource, qPanel, qCount,
    tOwner, tActive, tVisible, tLines, tText, tPolling, tLength, tVersion

Fits  == INSTANCE FitsSource
Shmim == INSTANCE ShmimSource
Mzmq  == INSTANCE MzmqSource
Mouse == INSTANCE MouseReadout WITH MaxFrames <- MaxShown
Cube  == INSTANCE CubeControl WITH MaxWrites <- MaxRewrites
Text  == INSTANCE TextOverlays

ASSUME ConstantsAssumption ==
    /\ Fits!FramesAssumption
    /\ Fits!WritesAssumption
    /\ Fits!UintAssumption
    /\ Shmim!StreamsAssumption
    /\ Mzmq!FramesAssumption
    /\ Mouse!MouseAssumption
    /\ Cube!CubeAssumption
    /\ Text!TextOverlaysAssumption

fitsVars == <<fKind, fDisk, f, fSeeks, fAt, fCount, fRaced, fDead>>
shmimVars == <<sPath, sStreams, s, sSeeks, sAt, sRaced>>
mzmqVars == <<zServer, zWire, zAt, zMsg, zBuffer, zDims, zAttached, zCnt,
              zReads, zDowns>>
mouseVars == <<mRemote, mFrame, mAt, mItem, mNull, mDue, mCall, mQueued,
               mEvent, mCache, mShow, mText, mCount, mUnseen>>
cubeVars == <<q, qTimers, qSource, qPanel, qCount>>
textVars == <<tOwner, tActive, tVisible, tLines, tText, tPolling, tLength,
              tVersion>>

vars == <<part, fitsVars, shmimVars, mzmqVars, mouseVars, cubeVars, textVars>>

Init ==
    /\ part \in {"fits", "shmim", "mzmq", "mouse", "cube", "text"}
    /\ Fits!Init /\ Shmim!Init /\ Mzmq!Init /\ Mouse!Init /\ Cube!Init /\ Text!Init
    /\ part # "fits" => fKind = "directory" /\ ~fDisk.there /\ fDisk.frames = 1
    /\ part # "mouse" => mRemote /\ mShow.static
    /\ q.fps \in Rates \ {0} /\ q.min = 2
    /\ part # "cube" => qSource.kind = "file"

Next ==
    /\ part' = part
    /\ \/ /\ part = "fits" /\ Fits!Next
          /\ UNCHANGED <<shmimVars, mzmqVars, mouseVars, cubeVars,
                         textVars>>
       \/ /\ part = "shmim" /\ Shmim!Next
          /\ UNCHANGED <<fitsVars, mzmqVars, mouseVars, cubeVars, textVars>>
       \/ /\ part = "mzmq" /\ Mzmq!Next
          /\ UNCHANGED <<fitsVars, shmimVars, mouseVars, cubeVars,
                         textVars>>
       \/ /\ part = "mouse" /\ Mouse!Next
          /\ UNCHANGED <<fitsVars, shmimVars, mzmqVars, cubeVars, textVars>>
       \/ /\ part = "cube" /\ Cube!Next
          /\ UNCHANGED <<fitsVars, shmimVars, mzmqVars, mouseVars,
                         textVars>>
       \/ /\ part = "text" /\ Text!Next
          /\ UNCHANGED <<fitsVars, shmimVars, mzmqVars, mouseVars,
                         cubeVars>>

Spec == Init /\ [][Next]_vars

\* A step through a cube of FITS frames goes around it.
DeltaIsModular == Fits!DeltaIsModular

\* No write of a FITS file is taken for one that is shown.
SeenIsShown == Fits!SeenIsShown

\* A shared memory source looks for its stream or follows it.
NeverDeaf == Shmim!NeverDeaf

\* The Qt thread reads pixels of a milkzmq frame within its memory.
ReadsWithinBuffer == Mzmq!ReadsWithinBuffer

\* A pixel value of an earlier frame has a request behind it.
ValueIsRenewed == Mouse!ValueIsRenewed

\* The image timer runs and the cube window is told the frame.
FrameIsTold == Cube!FrameIsTold

\* A pixel value stands beside the coordinates of its own pixel.
ValueIsOfPixel == Mouse!ValueIsOfPixel

\* The cube window shows what rtimvBase plays.
PanelMatches == Cube!PanelMatches

\* The text panel shows the page that is open and no other.
OverlayAgrees == Text!OverlayAgrees

-----------------------------------------------------------------------------
(* Liveness, under the fairness of the part; a part that rests is not fair. *)

\* A file that is not written any more is shown as it was written last.
RewriteIsShown == Fits!Fairness => Fits!RewriteIsShown

\* The newest frame of the stream at the path is shown in the end.
StreamIsFollowed == Shmim!Fairness => Shmim!StreamIsFollowed

\* The frames of a milkzmq server that stays up come through.
FramesComeThrough == Mzmq!Fairness => Mzmq!FramesComeThrough

\* A mouse at rest does not keep the value of an earlier frame.
OldValueGoes == Mouse!Fairness => Mouse!OldValueGoes

\* The frame of a cube that was asked for is drawn and its number shown.
FrameIsShown == Cube!Fairness => Cube!FrameIsShown
=============================================================================
