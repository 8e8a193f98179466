----------------------------- MODULE MouseReadout -----------------------------
(* The coordinates and the pixel value the main window shows for the mouse:    *)
(* the fields at the bottom, the text at the pointer and the text of a          *)
(* selected region.  The value is asked for after a delay, and the answer of a *)
(* server arrives while the mouse, the region and the image go on changing.    *)
EXTENDS Naturals

CONSTANTS Pixels,     \* the pixels the mouse may be over
          MaxMoves,   \* bound on what the user does
          MaxFrames,  \* bound on the frames shown
          MaxFaults   \* bound on the requests that fail

MouseAssumption ==
    /\ {"none", "off", "out"} \cap Pixels = {}
    /\ {MaxMoves, MaxFrames, MaxFaults} \subseteq Nat

VARIABLES
    mRemote,  \* compiled with RTIMV_GRPC
    mFrame,   \* the frame shown, 0 before the first: m_qpmi exists after it
    mAt,      \* the pixel under the mouse, or "off" the picture, or "out" of the window
    mItem,    \* m_userItemSelected, and the pixel at the centre of the region
    mNull,    \* m_nullMouseCoords
    mDue,     \* m_mousePixelRequestPending with m_mousePixelTimer, and the pixel
    mCall,    \* GetPixel in flight: stage, the pixel and the value
    mQueued,  \* m_getPixelQueued with m_getPixelX and m_getPixelY
    mEvent,   \* the pixelValueUpdated signal posted to the window, at most one
    mCache,   \* m_mousePixelCacheX .. Valid
    mShow,    \* m_showStaticCoords and m_showToolTipCoords
    mText,    \* what stands in the fields, at the pointer and at the region
    mCount,   \* moves and faults so far
    mUnseen   \* history, for the properties: the view or a flag changed, and since
              \* then neither the mouse moved nor a frame wrote the fields

vars == <<mRemote, mFrame, mAt, mItem, mNull, mDue, mCall, mQueued, mEvent, mCache,
          mShow, mText, mCount, mUnseen>>
askVars == <<mCall, mQueued, mEvent>>

None == "none"
\* A value is a pixel and the frame it was read in.
Values == [of : Pixels \cup {None}, frame : 0..MaxFrames]
NoValue == [of |-> None, frame |-> 0]
Texts == [at : Pixels \cup {None}, value : Values]
Blank == [at |-> None, value |-> NoValue]
NoCall == [stage |-> "none", of |-> None, value |-> NoValue]

TypeOK ==
    /\ mRemote \in BOOLEAN /\ mFrame \in 0..MaxFrames
    /\ mAt \in Pixels \cup {"off", "out"} /\ mItem \in Pixels \cup {None}
    /\ mNull \in BOOLEAN /\ mDue \in Pixels \cup {None} /\ mQueued \in Pixels \cup {None}
    /\ mCall \in [stage : {"none", "sent", "handled"}, of : Pixels \cup {None}, value : Values]
    /\ mEvent \subseteq Values /\ mCache \in Values
    /\ mShow \in [static : BOOLEAN, tip : BOOLEAN]
    /\ mText \in [static : Texts, tip : Texts, item : Texts]
    /\ mCount \in [moves : 0..MaxMoves, faults : 0..MaxFaults] /\ mUnseen \in BOOLEAN

Init ==
    /\ mRemote \in BOOLEAN /\ mFrame = 0 /\ mAt = "out" /\ mItem = None /\ mNull = TRUE
    /\ mDue = None /\ mCall = NoCall /\ mQueued = None /\ mEvent = {} /\ mCache = NoValue
    /\ mShow \in {[static |-> TRUE, tip |-> TRUE], [static |-> FALSE, tip |-> TRUE]}
    /\ mText = [static |-> Blank, tip |-> Blank, item |-> Blank]
    /\ mCount = [moves |-> 0, faults |-> 0] /\ mUnseen = FALSE

UserMoves ==
    /\ mCount.moves < MaxMoves
    /\ mCount' = [mCount EXCEPT !.moves = @ + 1]

-----------------------------------------------------------------------------
(* The value of the cache, when it is of this pixel. *)
\* Mutant of HasValue: whatever value is there.
HasValueAny(cache, p) == cache
HasValue(cache, p) == IF cache.of = p THEN cache ELSE NoValue

(* mtxTry_userItemMouseCoords, with an image. *)
ItemText(item, cache, text) ==
    IF item = None THEN text
    ELSE [text EXCEPT !.item = [at |-> item, value |-> HasValue(cache, item)]]

(* mtxL_updateMouseCoords: the fields are cleared once when the mouse is not  *)
(* in the picture or a region is selected, and a region's text is written; or *)
(* the fields are written.                                                    *)
Nulled(null, at, item) == null \/ at \notin Pixels \/ item # None

Written(null, at, item, cache, text) ==
    LET now == [at |-> at, value |-> HasValue(cache, at)]
    IN  IF Nulled(null, at, item)
        THEN ItemText(item, cache, IF null THEN text
                                   ELSE [text EXCEPT !.static = Blank, !.tip = Blank])
        ELSE [text EXCEPT !.static = IF mShow.static THEN now ELSE @,
                          !.tip    = IF mShow.tip THEN now ELSE @]

Asked(null, at, item, request, due) ==
    IF item # None THEN item
    ELSE IF ~Nulled(null, at, item) /\ request THEN at ELSE due

UpdateMouseCoords(frame, null, at, item, cache, request) ==
    IF frame = 0
    THEN /\ mNull' = null /\ UNCHANGED <<mText, mDue>>
    ELSE /\ mNull' = Nulled(null, at, item)
         /\ mText' = Written(null, at, item, cache, mText)
         /\ mDue' = Asked(null, at, item, request, mDue)

(* mouseMoveEvent and leaveEvent of the view: changeMouseCoords. *)
ChangeMouseCoords ==
    /\ UserMoves
    /\ mAt' \in Pixels \cup {"off", "out"}
    /\ UpdateMouseCoords(mFrame, FALSE, mAt', mItem, mCache, TRUE)
    /\ mUnseen' = FALSE
    /\ UNCHANGED <<mRemote, mFrame, mItem, askVars, mCache, mShow>>

(* Zoom and centre change what is under a mouse that rests. *)
ViewMoves ==
    /\ UserMoves /\ mAt # "out"
    /\ mAt' \in Pixels \cup {"off"}
    /\ mUnseen' = TRUE
    /\ UNCHANGED <<mRemote, mFrame, mItem, mNull, mDue, askVars, mCache, mShow, mText>>

(* mtxL_postRecolor ends with mtxL_updateMouseCoords. *)
\* Mutant of PostRecolor: a new frame does not ask for the value anew.
PostRecolorSilent ==
    /\ mFrame < MaxFrames /\ mFrame' = mFrame + 1
    /\ UpdateMouseCoords(mFrame', mNull, mAt, mItem, mCache, FALSE)
    /\ mUnseen' = (mUnseen /\ mNull)
    /\ UNCHANGED <<mRemote, mAt, mItem, askVars, mCache, mShow, mCount>>
PostRecolor ==
    /\ mFrame < MaxFrames /\ mFrame' = mFrame + 1
    /\ UpdateMouseCoords(mFrame', mNull, mAt, mItem, mCache, TRUE)
    /\ mUnseen' = (mUnseen /\ mNull)
    /\ UNCHANGED <<mRemote, mAt, mItem, askVars, mCache, mShow, mCount>>

(* userItemSelected, then the slot of the moved region. *)
UserItemSelected ==
    /\ UserMoves
    /\ mItem' \in Pixels
    /\ mNull' = TRUE
    /\ LET text == IF mNull THEN mText ELSE [mText EXCEPT !.static = Blank, !.tip = Blank]
       IN  IF mFrame = 0 THEN mText' = [text EXCEPT !.item = Blank] /\ UNCHANGED mDue
           ELSE mText' = ItemText(mItem', mCache, text) /\ mDue' = mItem'
    /\ UNCHANGED <<mRemote, mFrame, mAt, askVars, mCache, mShow, mUnseen>>

(* userBoxDeSelected and its kin. *)
UserItemDeSelected ==
    /\ UserMoves
    /\ mItem # None /\ mItem' = None /\ mNull' = FALSE
    /\ mText' = [mText EXCEPT !.item = Blank]
    /\ UNCHANGED <<mRemote, mFrame, mAt, mDue, askVars, mCache, mShow, mUnseen>>

(* showStaticCoords and showToolTipCoords only set their flag. *)
ShowCoords ==
    /\ UserMoves
    /\ \E field \in {"static", "tip"} : mShow' = [mShow EXCEPT ![field] = ~@]
    /\ mUnseen' = TRUE
    /\ UNCHANGED <<mRemote, mFrame, mAt, mItem, mNull, mDue, askVars, mCache, mText>>

-----------------------------------------------------------------------------
(* pixelValueUpdated and updateMouseCoordsFromCache. *)
PixelValueUpdated(value) ==
    /\ mCache' = value
    /\ UpdateMouseCoords(mFrame, FALSE, mAt, mItem, value, FALSE)

(* dispatchMousePixelRequest.  The local requestPixelValue answers at once;   *)
(* the remote one sends or queues.                                            *)
DispatchMousePixelRequest ==
    /\ mDue # None
    /\ IF mRemote
       THEN /\ mDue' = None
            /\ IF mCall.stage = "none"
               THEN mCall' = [NoCall EXCEPT !.stage = "sent", !.of = mDue] /\ UNCHANGED mQueued
               ELSE mQueued' = mDue /\ UNCHANGED mCall
            /\ UNCHANGED <<mNull, mText, mCache>>
       ELSE LET value == [of |-> mDue, frame |-> mFrame]
                null == mFrame # 0 /\ Nulled(FALSE, mAt, mItem)
            IN  /\ mCache' = value /\ mNull' = null
                /\ mText' = Written(FALSE, mAt, mItem, value, mText)
                /\ mDue' = mItem
                /\ UNCHANGED <<mCall, mQueued>>
    /\ UNCHANGED <<mRemote, mFrame, mAt, mItem, mEvent, mShow, mCount, mUnseen>>

(* The server's GetPixel. *)
GetPixel ==
    /\ mCall.stage = "sent"
    /\ mCall' = [mCall EXCEPT !.stage = "handled",
                              !.value = [of |-> mCall.of, frame |-> mFrame]]
    /\ UNCHANGED <<mRemote, mFrame, mAt, mItem, mNull, mDue, mQueued, mEvent, mCache,
                   mShow, mText, mCount, mUnseen>>

(* GetPixel_callback: the value, or none, is posted to the window, and a      *)
(* queued pixel is asked for.                                                 *)
GetPixelEnds ==
    /\ mEvent = {}
    /\ \/ mCall.stage = "handled" /\ mEvent' = {mCall.value} /\ UNCHANGED mCount
       \/ /\ mCall.stage # "none" /\ mCount.faults < MaxFaults
          /\ mEvent' = {NoValue}
          /\ mCount' = [mCount EXCEPT !.faults = @ + 1]
    /\ mCall' = IF mQueued = None THEN NoCall ELSE [NoCall EXCEPT !.stage = "sent", !.of = mQueued]
    /\ mQueued' = None
    /\ UNCHANGED <<mRemote, mFrame, mAt, mItem, mNull, mDue, mCache, mShow, mText, mUnseen>>

ValueArrives ==
    /\ mEvent # {} /\ mEvent' = {}
    /\ \E value \in mEvent : PixelValueUpdated(value)
    /\ UNCHANGED <<mRemote, mFrame, mAt, mItem, mCall, mQueued, mShow, mCount, mUnseen>>

Answers == DispatchMousePixelRequest \/ GetPixel \/ GetPixelEnds \/ ValueArrives

Next == ChangeMouseCoords \/ ViewMoves \/ PostRecolor \/ UserItemSelected
        \/ UserItemDeSelected \/ ShowCoords \/ Answers

Spec == Init /\ [][Next]_vars

(* The timer runs out, the server answers or the deadline passes, and the     *)
(* window's thread takes its events.                                          *)
Fairness == /\ WF_vars(DispatchMousePixelRequest) /\ WF_vars(GetPixel)
            /\ WF_vars(GetPixelEnds) /\ WF_vars(ValueArrives)
FairSpec == Spec /\ Fairness

-----------------------------------------------------------------------------
(* A value never stands beside the coordinates of another pixel, and with the *)
(* mouse out of the window nothing does ("If it is not in the pixmap, clears  *)
(* the mouse coord text boxes"), however late the answers come.               *)
ValueIsOfPixel ==
    /\ \A field \in {"static", "tip", "item"} :
          mText[field].value.of \in {None, mText[field].at}
    /\ mAt = "out" => mText.static = Blank /\ mText.tip = Blank

IsCurrent(field) ==
    mText[field].value = NoValue \/ mText[field].value.frame = mFrame

(* A value of an earlier frame has a request behind it that brings a newer     *)
(* one, however many frames, moves and answers cross on the way: a pixel is due *)
(* or queued, its call is before the server's read, or what was read since the  *)
(* frame, or nothing, comes back (rtimvMainWindow.cpp:1320-1520).               *)
Renewing ==
    \/ mDue # None \/ mQueued # None
    \/ mCall.stage = "sent"
    \/ mCall.stage = "handled" /\ mCall.value.frame = mFrame
    \/ \E value \in mEvent : value = NoValue \/ value.frame = mFrame

ValueIsRenewed ==
    \/ mUnseen \/ Renewing
    \/ /\ mShow.static => IsCurrent("static")
       /\ mShow.tip => IsCurrent("tip")
       /\ IsCurrent("item")

(* A mouse at rest is not left with the value of an earlier frame: the value  *)
(* of the last one comes, or none.  (A zoom that brings the picture back under *)
(* it leaves m_nullMouseCoords set, and the frames do not write the fields:    *)
(* nothing is promised then, nor for a field just switched on.)                *)
OldValueGoes ==
    <>[](\/ mUnseen
         \/ /\ mShow.static => IsCurrent("static")
            /\ mShow.tip => IsCurrent("tip")
            /\ IsCurrent("item"))

==============================================================================
