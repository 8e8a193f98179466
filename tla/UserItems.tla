------------------------------ MODULE UserItems ------------------------------
(* The regions drawn over the image (StretchGraphicsItem.hpp and the boxes,    *)
(* circles and lines derived from it) and what the main window makes of their  *)
(* signals: the box of statistics and the box whose pixels set the colour      *)
(* scale.  The events of the mouse, of the keyboard and of the timers run one  *)
(* at a time on the Qt thread.  Qt shows an item the hover events of the       *)
(* mouse, takes selection, focus and grab from an item that is hidden, and     *)
(* hands a hidden item no hover event.                                         *)
(* The readout of the selected region is layout and left out.                  *)
(* In the source m_grabbing says that the cursor is the open hand and          *)
(* m_isMoving that it is the closed one: both are part of `status' here.       *)
(* The window is that of the local program or of a client.  The client takes   *)
(* the colour mode from every reply without a word to the box, does nothing    *)
(* for a mode that is not that of the box while it is not connected, and only  *)
(* asks its server for the pixels of the box (rtimvClientBase.cpp).            *)
EXTENDS Naturals

CONSTANTS Stats, Colour, Extra, NoItem,
          Modes      \* of the colour scale: "box", "global", and "user"

Items == {Stats, Colour} \cup Extra

ItemsDiffer ==
    /\ Stats # Colour /\ {Stats, Colour} \cap Extra = {} /\ NoItem \notin Items
    /\ {"box", "global"} \subseteq Modes

VARIABLES
    uKind,      \* what stands in the scene under a name, "none" when nothing does
    uShown,     \* the items that are visible
    uGrip,      \* cursor and sizing state of each item
    uSel,       \* the items Qt holds selected
    uUnder,     \* the item the mouse is over, as Qt remembers it
    uHeld,      \* the item that grabs the mouse while a button is down
    uFocus,     \* the item with the keyboard focus
    uSelTimer, uCurTimer,   \* items whose m_selectionTimer, m_cursorTimer runs
    uBox,       \* m_colormode, whether m_colorBoxTimer runs with a request pending,
                \* and, for the property, whether the window spoke last of the mode
    uRemote     \* the window of a client

vars == <<uKind, uShown, uGrip, uSel, uUnder, uHeld, uFocus, uSelTimer,
          uCurTimer, uBox, uRemote>>
mouse == <<uUnder, uHeld>>
timers == <<uSelTimer, uCurTimer>>

Grips == [status : {"off", "grabbing", "sizing", "grabbed"},
          sizing : BOOLEAN, isSizing : BOOLEAN]
Fresh == [status |-> "off", sizing |-> FALSE, isSizing |-> FALSE]

TypeOK ==
    /\ uKind \in [Items -> {"none", "stats", "color", "shape", "line"}]
    /\ uShown \subseteq Items /\ uSel \subseteq uShown
    /\ uGrip \in [Items -> Grips]
    /\ {uUnder, uHeld, uFocus} \subseteq Items \cup {NoItem}
    /\ uSelTimer \subseteq Items /\ uCurTimer \subseteq Items
    /\ uBox \in [mode : Modes, due : BOOLEAN, own : BOOLEAN]
    /\ uRemote \in BOOLEAN

Exists(i) == i \in Items /\ uKind[i] # "none"

Init ==
    /\ uKind = [i \in Items |-> "none"]
    /\ uGrip = [i \in Items |-> Fresh]
    /\ uShown = {} /\ uSel = {} /\ uSelTimer = {} /\ uCurTimer = {}
    /\ uUnder = NoItem /\ uHeld = NoItem /\ uFocus = NoItem
    /\ uBox = [mode |-> "global", due |-> FALSE, own |-> TRUE]
    /\ uRemote \in BOOLEAN

-----------------------------------------------------------------------------
(* setCursorStatus( cursorOff ), for an item that lets go of the cursor. *)
Off(g) == [g EXCEPT !.status = "off", !.sizing = FALSE]

(* handleFocusOutEvent of the items that lose the focus. *)
FocusOut(i, g) == IF i \in Items THEN [g EXCEPT ![i] = Off(@)] ELSE g

(* mtxTry_colorBoxMoved: the pixels of the box are asked for when the timer   *)
(* runs out; with another colour mode it only reports "bug: got colorbar      *)
(* moved but not in color box mode".                                          *)
ColorBoxMoved(b) ==
    IF Exists(Colour) /\ b.mode = "box" THEN [b EXCEPT !.due = TRUE] ELSE b

(* The moved slot of each kind of item, which its selected slot calls too. *)
Moves(i) == uBox' = IF i = Colour THEN ColorBoxMoved(uBox) ELSE uBox

-----------------------------------------------------------------------------
(* handleHoverMoveEvent: over the edge the timers of the cursor and of the    *)
(* selection start; anywhere else inside, Qt's selection goes and the window  *)
(* hears only mouseOut, which nothing is connected to.                        *)
HoverEdge(i) ==
    /\ Exists(i) /\ i \in uShown /\ uHeld = NoItem /\ uUnder \in {NoItem, i}
    /\ \E sizing \in IF uKind[i] = "line" THEN BOOLEAN ELSE {TRUE} :
         uGrip' = [uGrip EXCEPT
             ![i].sizing = sizing,
             ![i].status = IF @ = "off" THEN "grabbing" ELSE @]
    /\ uSelTimer' = uSelTimer \cup {i}
    /\ uCurTimer' = IF uGrip[i].status = "off" THEN uCurTimer \cup {i} ELSE uCurTimer
    /\ uUnder' = i
    /\ UNCHANGED <<uKind, uShown, uSel, uHeld, uFocus, uBox>>

HoverInside(i) ==
    /\ Exists(i) /\ i \in uShown /\ uHeld = NoItem /\ uUnder \in {NoItem, i}
    /\ uGrip' = [uGrip EXCEPT ![i] = Off(@)]
    /\ uSelTimer' = uSelTimer \ {i} /\ uCurTimer' = uCurTimer \ {i}
    /\ uSel' = uSel \ {i}
    /\ uFocus' = IF uFocus = i THEN NoItem ELSE uFocus
    /\ uUnder' = i
    /\ UNCHANGED <<uKind, uShown, uHeld, uBox>>

(* handleHoverLeaveEvent, which a hidden item does not get. *)
HoverLeave ==
    /\ uHeld = NoItem /\ uUnder # NoItem
    /\ uUnder' = NoItem
    /\ IF uUnder \in uShown
       THEN /\ uGrip' = [uGrip EXCEPT ![uUnder] = Off(@)]
            /\ uSelTimer' = uSelTimer \ {uUnder} /\ uCurTimer' = uCurTimer \ {uUnder}
            /\ uSel' = uSel \ {uUnder}
            /\ uFocus' = IF uFocus = uUnder THEN NoItem ELSE uFocus
       ELSE UNCHANGED <<uGrip, timers, uSel, uFocus>>
    /\ UNCHANGED <<uKind, uShown, uHeld, uBox>>

(* handleMousePressEvent, after Qt gave the item the focus. *)
Press(i, onEdge) ==
    /\ uHeld = NoItem /\ uUnder = i /\ i \in uShown
    /\ LET grip == FocusOut(IF uFocus = i THEN NoItem ELSE uFocus, uGrip)
       IN uGrip' = IF grip[i].status = "grabbing"
                   THEN [grip EXCEPT ![i] =
                          IF onEdge THEN [status |-> "grabbed", sizing |-> FALSE, isSizing |-> FALSE]
                                    ELSE Off(@)]
                   ELSE grip
    /\ uFocus' = i /\ uHeld' = i
    /\ uSel' = uSel \cup {i}
    /\ uSelTimer' = uSelTimer \ {i}
    /\ uCurTimer' = (IF uGrip[i].status = "grabbing" THEN uCurTimer \ {i} ELSE uCurTimer)
                        \ (IF uFocus = i THEN {} ELSE {uFocus})
    /\ Moves(i)
    /\ UNCHANGED <<uKind, uShown, uUnder>>

(* handleMouseMoveEvent of the item that grabs the mouse. *)
Drag(i) ==
    /\ uHeld = i /\ i \in Items
    /\ \/ /\ uGrip[i].sizing /\ uGrip[i].status # "grabbed"
          /\ uGrip' = [uGrip EXCEPT ![i].isSizing = TRUE]
       \/ /\ uGrip[i].status = "grabbed"
          /\ uGrip' = [uGrip EXCEPT ![i].isSizing = FALSE]
    /\ Moves(i)
    /\ UNCHANGED <<uKind, uShown, uSel, mouse, uFocus, timers>>

(* handleMouseReleaseEvent. *)
Release(i) ==
    LET g == uGrip[i]
        moved == (g.sizing /\ g.isSizing) \/ (~g.sizing /\ g.status = "grabbed")
        hand == IF g.sizing THEN ~g.isSizing ELSE g.status = "grabbed"
    IN  /\ uHeld = i /\ i \in Items
        /\ uHeld' = NoItem
        /\ uGrip' = [uGrip EXCEPT ![i] =
              [status |-> IF hand THEN "grabbing" ELSE IF g.sizing THEN @.status ELSE "off",
               sizing |-> FALSE,
               isSizing |-> @.isSizing /\ ~g.sizing]]
        /\ uSelTimer' = uSelTimer \ {i}
        /\ uCurTimer' = IF hand THEN (IF g.status = "grabbing" THEN uCurTimer ELSE uCurTimer \cup {i})
                        ELSE IF g.sizing THEN uCurTimer ELSE uCurTimer \ {i}
        /\ IF moved THEN Moves(i) ELSE UNCHANGED uBox
        /\ UNCHANGED <<uKind, uShown, uSel, uUnder, uFocus>>

(* slotCursorTimerOut: from the open hand to the double arrow. *)
CursorTimerOut(i) ==
    /\ i \in uCurTimer
    /\ uCurTimer' = uCurTimer \ {i}
    /\ uGrip' = [uGrip EXCEPT ![i].status = "sizing"]
    /\ UNCHANGED <<uKind, uShown, uSel, mouse, uFocus, uSelTimer, uBox>>

(* slotSelectionTimerOut: Qt refuses focus and selection to a hidden item, but *)
(* the window is told that the item is selected.                               *)
SelectionTimerOut(i) ==
    /\ i \in uSelTimer
    /\ uSelTimer' = uSelTimer \ {i}
    /\ IF i \in uShown
       THEN /\ uSel' = uSel \cup {i} /\ uFocus' = i
            /\ uGrip' = FocusOut(IF uFocus = i THEN NoItem ELSE uFocus, uGrip)
            /\ uCurTimer' = uCurTimer \ (IF uFocus = i THEN {} ELSE {uFocus})
       ELSE UNCHANGED <<uSel, uFocus, uGrip, uCurTimer>>
    /\ Moves(i)
    /\ UNCHANGED <<uKind, uShown, mouse>>

(* The window loses the focus, and with it the item that has it. *)
FocusLost ==
    /\ uFocus # NoItem /\ uFocus' = NoItem
    /\ uGrip' = FocusOut(uFocus, uGrip)
    /\ uCurTimer' = uCurTimer \ {uFocus}
    /\ UNCHANGED <<uKind, uShown, uSel, mouse, uSelTimer, uBox>>

(* A press beside every item: Qt drops the selection, and no item is told. *)
PressNothing ==
    /\ uUnder = NoItem /\ uHeld = NoItem /\ uSel # {} /\ uSel' = {}
    /\ UNCHANGED <<uKind, uShown, uGrip, mouse, uFocus, timers, uBox>>

-----------------------------------------------------------------------------
(* What Qt does to the items of S when they are hidden or taken away. *)
LetGo(S) ==
    /\ uShown' = uShown \ S /\ uSel' = uSel \ S
    /\ uHeld' = IF uHeld \in S THEN NoItem ELSE uHeld
    /\ uFocus' = IF uFocus \in S THEN NoItem ELSE uFocus

HideItem(i) ==
    /\ LetGo({i})
    /\ uGrip' = IF uFocus = i THEN FocusOut(i, uGrip) ELSE uGrip
    /\ uCurTimer' = IF uFocus = i THEN uCurTimer \ {i} ELSE uCurTimer
    /\ UNCHANGED <<uKind, uUnder, uSelTimer>>

(* removeItem and deleteLater: the timers go with the item. *)
TakeAway(S) ==
    /\ LetGo(S)
    /\ uKind' = [i \in Items |-> IF i \in S THEN "none" ELSE uKind[i]]
    /\ uGrip' = [i \in Items |-> IF i \in S THEN Fresh ELSE uGrip[i]]
    /\ uUnder' = IF uUnder \in S THEN NoItem ELSE uUnder
    /\ uSelTimer' = uSelTimer \ S /\ uCurTimer' = uCurTimer \ S

ShowItem(i, kind) ==
    /\ uKind' = [uKind EXCEPT ![i] = kind]
    /\ uShown' = uShown \cup {i}
    /\ UNCHANGED <<uGrip, uSel, mouse, uFocus, timers>>

(* addUserBox, addUserCircle and addUserLine. *)
AddUserItem(i) ==
    /\ i \in Extra /\ ~Exists(i)
    /\ \E kind \in {"shape", "line"} : ShowItem(i, kind)
    /\ UNCHANGED uBox

(* The Delete key in the item with the focus emits remove: userBoxRemove,     *)
(* userCircleRemove or userLineRemove.                                         *)
DeleteUserItem ==
    /\ uFocus \in Extra
    /\ TakeAway({uFocus})
    /\ UNCHANGED uBox

(* statsBoxRemove: doHideStatsBox first, then the box goes. *)
StatsBoxRemove ==
    /\ uFocus = Stats
    /\ TakeAway({Stats})
    /\ UNCHANGED uBox

(* mtxUL_colormode with a mode that is not that of the box: a client that is   *)
(* not connected, or shuts down, leaves the mode as it is.                      *)
Carried(m) == [uBox EXCEPT !.mode = m, !.own = TRUE]
Colormode(m) ==
    {Carried(m)} \cup (IF uRemote THEN {[uBox EXCEPT !.own = FALSE]} ELSE {})

(* colorBoxRemove: the colour mode goes back to the whole image. *)
ColorBoxRemove ==
    /\ uFocus = Colour
    /\ TakeAway({Colour})
    /\ \E box \in Colormode("global") : uBox' = [box EXCEPT !.due = FALSE]

DoHideStatsBox ==
    /\ Stats \in uShown
    /\ HideItem(Stats)
    /\ UNCHANGED uBox

(* toggleStatsBox makes the box the first time, doLaunchStatsBox shows it. *)
DoLaunchStatsBox ==
    /\ Stats \notin uShown
    /\ ShowItem(Stats, "stats")
    /\ UNCHANGED uBox

(* toggleColorBoxOn, by the key or the panel, and mtxL_postColormode for the    *)
(* colour mode of the box, which a client takes whether it is connected or not. *)
ToggleColorBoxOn ==
    /\ ShowItem(Colour, "color")
    /\ uBox' = Carried("box")

\* Mutant of ToggleColorBoxOff: the mode is changed only when the box is selected.
ToggleColorBoxOffSelected ==
    /\ uBox.mode = "box" /\ Exists(Colour)
    /\ HideItem(Colour)
    /\ uBox' \in (IF Colour \in uSel THEN Colormode("global") ELSE {uBox})

(* toggleColorBoxOff hides the box before it asks for the mode; m_colorBoxTimer  *)
(* and the pending request are left alone.                                       *)
ToggleColorBoxOff ==
    /\ uBox.mode = "box" /\ Exists(Colour)
    /\ HideItem(Colour)
    /\ uBox' \in Colormode("global")

(* The panel's choice of a colour mode, or a slider of the scale: mtxUL_colormode *)
(* with mtxL_postColormode, which hides the box.                                  *)
ChooseColormode(m) ==
    /\ m # "box"
    /\ HideItem(Colour)
    /\ uBox' = Carried(m)

(* dispatchColorBoxRequest when m_colorBoxTimer runs out: requestColorBoxValues   *)
(* sets the colour mode of the box, and mtxL_postColormode shows the box there    *)
(* is.  A client only sends the call.                                             *)
DispatchColorBoxRequest ==
    /\ uBox.due
    /\ LET sent == [uBox EXCEPT !.due = FALSE]
       IN  uBox' = IF uRemote THEN sent ELSE [sent EXCEPT !.mode = "box"]
    /\ IF ~uRemote /\ Exists(Colour) THEN ShowItem(Colour, "color")
       ELSE UNCHANGED <<uKind, uShown, uGrip, uSel, mouse, uFocus, timers>>

(* mtxL_postSetImsize: an image of another size takes every region away, and   *)
(* the mode of a box with it.                                                  *)
AfterResize(m) ==
    IF Exists(Colour) THEN [uBox EXCEPT !.mode = m, !.due = FALSE]
    ELSE [uBox EXCEPT !.mode = IF uRemote THEN m ELSE @]

PostSetImsize ==
    /\ \E i \in Items : Exists(i)
    /\ TakeAway(Items)
    /\ IF uRemote
       THEN \E m \in Modes : uBox' = [AfterResize(m) EXCEPT !.own = FALSE]
       ELSE uBox' = AfterResize("global")

(* ImageReceived: the mode of the reply, and no mtxL_postColormode. *)
ImageReceived ==
    /\ uRemote
    /\ \E m \in Modes : uBox' = [uBox EXCEPT !.mode = m, !.own = FALSE]
    /\ UNCHANGED <<uKind, uShown, uGrip, uSel, mouse, uFocus, timers>>

Steps ==
    \/ \E i \in Items :
          \/ HoverEdge(i) \/ HoverInside(i)
          \/ \E onEdge \in BOOLEAN : Press(i, onEdge)
          \/ Drag(i) \/ Release(i)
          \/ CursorTimerOut(i) \/ SelectionTimerOut(i) \/ AddUserItem(i)
    \/ HoverLeave \/ FocusLost \/ PressNothing
    \/ DeleteUserItem \/ StatsBoxRemove \/ ColorBoxRemove
    \/ DoHideStatsBox \/ DoLaunchStatsBox
    \/ ToggleColorBoxOn \/ ToggleColorBoxOff \/ DispatchColorBoxRequest
    \/ \E m \in Modes : ChooseColormode(m)
    \/ PostSetImsize \/ ImageReceived

Next == Steps /\ UNCHANGED uRemote

Spec == Init /\ [][Next]_vars

-----------------------------------------------------------------------------
(* In the local program the colour scale follows the box exactly while the box *)
(* is on the screen: keys, panel, timer, the Delete key and a change of the     *)
(* image size agree ("bug: set colormode to box but no color box allocated" is  *)
(* never printed).  A client is only of one mind from a choice it carried out   *)
(* to the next reply of its server or choice it refused.                        *)
ScaleBoxShown ==
    ~uRemote \/ uBox.own => (uBox.mode = "box" <=> Colour \in uShown)

==============================================================================
