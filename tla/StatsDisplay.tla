----------------------------- MODULE StatsDisplay -----------------------------
(* The box of statistics in the main window: the box over the image, the       *)
(* readout beside it or in a dialog of its own, the button of the control       *)
(* panel, and the rectangle and the numbers that rtimvBase (a local program)   *)
(* or rtimvClientBase (a remote one) keeps for it.  The window's slots run one *)
(* at a time on the Qt thread; the answers of the server arrive on others and  *)
(* are posted to it.                                                            *)
EXTENDS Naturals

CONSTANTS MaxRects    \* bound on the places the box has been at

MaxRectsAssumption == MaxRects \in Nat

VARIABLES
    bRemote,   \* compiled with RTIMV_GRPC
    bImage,    \* m_qpmi exists
    bBox,      \* m_statsBox: "none", "hidden" or "shown"
    bRect,     \* where the box is: the number of its places so far
    bDue,      \* m_statsBoxRequestPending, with m_statsBoxTimer running
    bBase,     \* statsBox(), the rectangle, and the rectangle its numbers are of
    bMode,     \* m_statsDisplayMode
    bDialog,   \* imStats; "dangling", for good, when Qt deleted what it points to
    bText,     \* statsBoxText(): visible, and the rectangle whose numbers it has
    bButton,   \* m_statsBoxButtonState of the panel
    bServer,   \* the remote image's box: its state, as bBase
    bCall,     \* the StatsBox call in flight, and m_statsBoxQueued
    bImgReply, \* an ImagePlease answer on its way
    bEvent     \* a statsBoxUpdated signal posted to the window

vars == <<bRemote, bImage, bBox, bRect, bDue, bBase, bMode, bDialog, bText, bButton,
          bServer, bCall, bImgReply, bEvent>>
remoteVars == <<bServer, bCall, bImgReply, bEvent>>

Zero == 0           \* no rectangle: numbers cleared to 0, or an empty text
Places == 0..MaxRects
Boxes == [on : BOOLEAN, at : Places, of : Places]
NoCall == [stage |-> "none", at |-> 0, queued |-> FALSE]

TypeOK ==
    /\ bRemote \in BOOLEAN /\ bImage \in BOOLEAN
    /\ bBox \in {"none", "hidden", "shown"} /\ bRect \in Places /\ bDue \in BOOLEAN
    /\ bBase \in Boxes /\ bServer \in Boxes
    /\ bMode \in {"overlay", "dialog"} /\ bDialog \in {"none", "open", "dangling"}
    /\ bText \in [shown : BOOLEAN, of : Places] /\ bButton \in BOOLEAN
    /\ bCall \in [stage : {"none", "sent", "handled"}, at : Places, queued : BOOLEAN]
    /\ bImgReply \in {"none"} \X {0} \cup {"box"} \X Boxes
    /\ bEvent \in {"none", "valid", "invalid"} \X Places

Init ==
    /\ bRemote \in BOOLEAN /\ bImage = FALSE
    /\ bBox = "none" /\ bRect = 0 /\ bDue = FALSE
    /\ bBase = [on |-> FALSE, at |-> 0, of |-> Zero] /\ bServer = bBase
    /\ bMode = "overlay" /\ bDialog = "none"
    /\ bText = [shown |-> FALSE, of |-> Zero] /\ bButton = FALSE
    /\ bCall = NoCall /\ bImgReply = <<"none", 0>> /\ bEvent = <<"none", 0>>

-----------------------------------------------------------------------------
(* requestStatsBoxValues.  The local program calculates on the spot; of the   *)
(* remote one only the connected case is kept.  An "off" asks for place 0.    *)
CalcStatsBox(base) == IF base.on THEN [base EXCEPT !.of = base.at] ELSE base

Request(base) ==
    IF ~bRemote THEN UNCHANGED remoteVars
    ELSE /\ bCall' = IF bCall.stage = "none"
                     THEN [stage |-> "sent", at |-> IF base.on THEN base.at ELSE 0,
                           queued |-> FALSE]
                     ELSE [bCall EXCEPT !.queued = TRUE]
         /\ UNCHANGED <<bServer, bImgReply, bEvent>>

(* statsBox( false ). *)
Switched(base, on) ==
    IF on THEN [base EXCEPT !.on = TRUE]
    ELSE [base EXCEPT !.on = FALSE, !.of = Zero, !.at = IF bRemote THEN 0 ELSE @]

(* mtxTry_updateStatsBoxOverlay: it shows the text whenever the box is there. *)
UpdateOverlay(box, mode, of) ==
    [shown |-> mode = "overlay" /\ box = "shown",
     of |-> IF mode = "overlay" /\ box # "none" THEN of ELSE bText.of]

(* updateStatsBoxOverlayVisibility *)
Visibility(text, box, mode, on) ==
    IF mode = "overlay" /\ box = "shown" /\ on THEN [text EXCEPT !.shown = TRUE]
    ELSE [shown |-> FALSE, of |-> Zero]

(* mtxTry_statsBoxMoved, up to the request: nothing without an image. *)
Asks(base, rect) == IF bImage THEN [base EXCEPT !.at = rect] ELSE base

-----------------------------------------------------------------------------
(* A use of the dialog that Qt deleted is undefined: the behaviours that are   *)
(* looked at end before it.                                                    *)
DialogUsable == bDialog # "dangling"

(* doLaunchStatsBox: the box, the numbers at once, and the dialog. *)
DoLaunchStatsBox(rect) ==
    LET base == Asks(Switched(bBase, TRUE), rect)
        told == IF bRemote THEN base ELSE CalcStatsBox(base)
        asked == bImage \/ bDue
        text == IF bImage /\ bMode = "overlay" THEN [bText EXCEPT !.shown = FALSE] ELSE bText
        told2 == IF asked /\ ~bRemote THEN UpdateOverlay("shown", bMode, told.of) ELSE text
    IN  /\ bMode = "dialog" => DialogUsable
        /\ bBox' = "shown"
        /\ bBase' = IF asked THEN told ELSE base
        /\ bDue' = FALSE
        /\ bText' = Visibility(told2, "shown", bMode, TRUE)
        /\ bDialog' = IF bMode = "dialog" /\ bDialog = "none" THEN "open" ELSE bDialog
        /\ IF asked THEN Request(base) ELSE UNCHANGED remoteVars

(* doHideStatsBox *)
DoHideStatsBox(box) ==
    /\ DialogUsable
    /\ bBase' = Switched(bBase, FALSE)
    /\ Request(bBase') /\ bDue' = FALSE
    /\ bText' = [shown |-> FALSE, of |-> Zero]
    /\ bDialog' = IF bDialog = "open" THEN "none" ELSE bDialog
    /\ bBox' = IF box = "none" THEN "none" ELSE "hidden"

(* toggleStatsBox makes the box the first time; the button follows. *)
ToggleStatsBox ==
    \/ /\ bBox = "shown" /\ DoHideStatsBox(bBox)
       /\ bButton' = FALSE
       /\ UNCHANGED <<bRemote, bImage, bRect, bMode>>
    \/ /\ bBox # "shown" /\ (bBox = "none" => bRect < MaxRects)
       /\ bRect' = IF bBox = "none" THEN bRect + 1 ELSE bRect
       /\ DoLaunchStatsBox(bRect')
       /\ bButton' = TRUE
       /\ UNCHANGED <<bRemote, bImage, bMode>>

(* on_statsBoxButton_clicked: the panel goes by its own state, and a launch   *)
(* finds no box to show when none was made.                                   *)
ButtonClicked ==
    /\ bButton' = ~bButton
    /\ IF bButton THEN DoHideStatsBox(bBox)
       ELSE IF bBox = "none"
       THEN UNCHANGED <<bBox, bDue, bBase, bDialog, bText, remoteVars>>
       ELSE DoLaunchStatsBox(bRect)
    /\ UNCHANGED <<bRemote, bImage, bRect, bMode>>

(* mtxTry_statsBoxMoved, mtxTry_statsBoxSelected: the debounced request. *)
StatsBoxMoved ==
    /\ bBox = "shown" /\ bRect < MaxRects
    /\ bRect' = bRect + 1
    /\ bBase' = Asks(bBase, bRect')
    /\ bDue' = (bDue \/ bImage)
    /\ bText' = IF bImage /\ bMode = "overlay" THEN [bText EXCEPT !.shown = FALSE] ELSE bText
    /\ UNCHANGED <<bRemote, bImage, bBox, bMode, bDialog, bButton, remoteVars>>

(* dispatchStatsBoxRequest and, in the local program, statsBoxUpdated. *)
DispatchStatsBoxRequest ==
    /\ bDue /\ bDue' = FALSE
    /\ bBase' = IF bRemote THEN bBase ELSE CalcStatsBox(bBase)
    /\ Request(bBase)
    /\ bText' = IF bRemote THEN bText
                ELSE Visibility(UpdateOverlay(bBox, bMode, bBase'.of), bBox, bMode, bBase.on)
    /\ UNCHANGED <<bRemote, bImage, bBox, bRect, bMode, bDialog, bButton>>

(* statsBoxRemove: by the Delete key, or with the image. *)
StatsBoxRemove ==
    /\ bBox = "shown" /\ DoHideStatsBox("none")
    /\ UNCHANGED <<bRemote, bImage, bRect, bMode, bButton>>

(* mtxL_postSetImsize: the picture goes, and the box with it. *)
PostSetImsize ==
    /\ bImage /\ bImage' = FALSE
    /\ IF bBox = "none" THEN UNCHANGED <<bBox, bDue, bBase, bDialog, bText, remoteVars>>
       ELSE DoHideStatsBox("none")
    /\ UNCHANGED <<bRemote, bRect, bMode, bButton>>

(* A frame is shown.  The local program has the numbers calculated anew; with *)
(* the first picture the box is asked for again.  The overlay is refreshed    *)
(* when no request is pending, and update_panel brings the button up to date. *)
PostRecolor ==
    /\ bImage' = TRUE
    /\ LET again == ~bImage /\ bBox # "none"
           base == IF bRemote THEN bBase ELSE CalcStatsBox(bBase)
       IN  /\ bBase' = IF again THEN [base EXCEPT !.at = bRect] ELSE base
           /\ bDue' = (bDue \/ again)
           /\ bText' = IF bMode = "overlay" /\ bBox = "shown" /\ ~bDue'
                       THEN Visibility(UpdateOverlay(bBox, bMode, bBase'.of),
                                       bBox, bMode, bBase'.on)
                       ELSE IF again /\ bMode = "overlay" THEN [bText EXCEPT !.shown = FALSE]
                       ELSE bText
    /\ bButton' = (bBox = "shown")
    /\ UNCHANGED <<bRemote, bBox, bRect, bMode, bDialog, remoteVars>>

(* updateGlobalStatsOverlay ends with the box's text. *)
UpdateGlobalStatsOverlay ==
    /\ bMode = "overlay" /\ bBox = "shown" /\ ~bDue
    /\ bText' = UpdateOverlay(bBox, bMode, bBase.of)
    /\ UNCHANGED <<bRemote, bImage, bBox, bRect, bDue, bBase, bMode, bDialog, bButton,
                   remoteVars>>

(* statsDisplayMode( mode ) *)
\* Mutant of StatsDisplayMode: an open dialog stays when the overlay is chosen.
StatsDisplayModeOn ==
    \E mode \in {"overlay", "dialog"} :
       /\ bMode' = mode
       /\ bDialog' = IF mode = "dialog" /\ bBase.on THEN "open" ELSE bDialog
       /\ bText' = Visibility(bText, bBox, mode, bBase.on)
       /\ UNCHANGED <<bRemote, bImage, bBox, bRect, bDue, bBase, bButton, remoteVars>>
StatsDisplayMode ==
    \E mode \in {"overlay", "dialog"} :
       LET text == Visibility(bText, bBox, mode, bBase.on)
       IN  /\ mode = "overlay" \/ bBase.on => DialogUsable
           /\ bMode' = mode
           /\ bDialog' = IF mode = "overlay" THEN "none"
                         ELSE IF bBase.on THEN "open" ELSE bDialog
           /\ bText' = IF ~bBase.on THEN text
                       ELSE IF mode = "dialog" THEN [text EXCEPT !.shown = FALSE]
                       ELSE IF bBox = "none" THEN text
                       ELSE UpdateOverlay(bBox, mode, bBase.of)
           /\ UNCHANGED <<bRemote, bImage, bBox, bRect, bDue, bBase, bButton, remoteVars>>

(* The user closes the dialog: imStatsClosed, which stops at once when the    *)
(* box is gone; WA_DeleteOnClose deletes the dialog in either case.           *)
ImStatsClosed ==
    /\ bDialog = "open"
    /\ IF bBox = "none"
       THEN bDialog' = "dangling" /\ UNCHANGED <<bBox, bDue, bBase, bText, bButton, remoteVars>>
       ELSE DoHideStatsBox(bBox) /\ bButton' = FALSE
    /\ UNCHANGED <<bRemote, bImage, bRect, bMode>>

-----------------------------------------------------------------------------
(* The server's StatsBox: a rectangle, or the box is switched off; either way *)
(* the answer is valid.                                                       *)
HandleStatsBox ==
    /\ bCall.stage = "sent"
    /\ bCall' = [bCall EXCEPT !.stage = "handled"]
    /\ bServer' = IF bCall.at = 0 THEN [bServer EXCEPT !.on = FALSE, !.of = Zero]
                  ELSE [on |-> TRUE, at |-> bCall.at, of |-> bCall.at]
    /\ UNCHANGED <<bRemote, bImage, bBox, bRect, bDue, bBase, bMode, bDialog, bText,
                   bButton, bImgReply, bEvent>>

(* StatsBox_callback: a valid answer is taken with statsBox() true, also the  *)
(* answer to "off".  A queued request is posted to the window's thread, and   *)
(* sends what the rectangle is then.                                          *)
StatsBoxEnds(ok) ==
    /\ bCall.stage = "handled" \/ (~ok /\ bCall.stage = "sent")
    /\ bEvent[1] = "none"
    /\ bBase' = IF ok THEN [bServer EXCEPT !.on = TRUE] ELSE bBase
    /\ bEvent' = IF ok THEN <<"valid", bServer.of>> ELSE <<"invalid", Zero>>
    /\ bCall' = IF bCall.queued
                THEN [stage |-> "sent", at |-> IF bBase'.at # 0 THEN bBase'.at ELSE 0,
                      queued |-> FALSE]
                ELSE NoCall
    /\ UNCHANGED <<bRemote, bImage, bBox, bRect, bDue, bMode, bDialog, bText, bButton,
                   bServer, bImgReply>>

(* fillImagePleaseReply notes the server's box, ImagePlease_callback takes it. *)
FillReply ==
    /\ bRemote /\ bImgReply[1] = "none"
    /\ bImgReply' = <<"box", bServer>>
    /\ UNCHANGED <<bRemote, bImage, bBox, bRect, bDue, bBase, bMode, bDialog, bText,
                   bButton, bServer, bCall, bEvent>>

ImageReceived ==
    /\ bImgReply[1] = "box" /\ bEvent[1] = "none"
    /\ bImgReply' = <<"none", 0>>
    /\ bBase' = bImgReply[2]
    /\ bEvent' = <<IF bBase'.on THEN "valid" ELSE "invalid", bBase'.of>>
    /\ UNCHANGED <<bRemote, bImage, bBox, bRect, bDue, bMode, bDialog, bText, bButton,
                   bServer, bCall>>

(* statsBoxUpdated, which does not look at the rectangle it is told of. *)
StatsBoxUpdated ==
    /\ bEvent[1] # "none" /\ bEvent' = <<"none", 0>>
    /\ bText' = Visibility(IF bMode = "overlay" /\ bBox # "none"
                           THEN UpdateOverlay(bBox, bMode,
                                              IF bEvent[1] = "valid" THEN bEvent[2] ELSE Zero)
                           ELSE bText,
                           bBox, bMode, bBase.on)
    /\ UNCHANGED <<bRemote, bImage, bBox, bRect, bDue, bBase, bMode, bDialog, bButton,
                   bServer, bCall, bImgReply>>

Window == ToggleStatsBox \/ ButtonClicked \/ StatsBoxMoved \/ DispatchStatsBoxRequest
          \/ StatsBoxRemove \/ PostSetImsize \/ PostRecolor \/ UpdateGlobalStatsOverlay
          \/ StatsDisplayMode \/ ImStatsClosed

Next == Window \/ HandleStatsBox \/ (\E ok \in BOOLEAN : StatsBoxEnds(ok))
        \/ FillReply \/ ImageReceived \/ StatsBoxUpdated

Spec == Init /\ [][Next]_vars

-----------------------------------------------------------------------------
(* Where the numbers are shown: beside a box on the screen in the overlay     *)
(* mode, in the dialog in the other; keys, button, dialog, mode, image and     *)
(* late answers of the server agree on it.                                     *)
ShownInMode ==
    /\ bText.shown => bMode = "overlay" /\ bBox = "shown"
    /\ bDialog = "open" => bMode = "dialog"

(* What is shown, in the local program: with no request pending the numbers   *)
(* beside the box are those of where it is, and a dialog is open only while   *)
(* the statistics are calculated.                                              *)
ShownIsCurrent ==
    ~bRemote => /\ bText.shown /\ ~bDue => bText.of \in {Zero, bRect}
                /\ bDialog = "open" => bBase.on /\ bBox = "shown"

(* The readout and the dialog are where the mode says, and are about the box  *)
(* as it is.                                                                   *)
ReadoutBelongsToBox == ShownInMode /\ ShownIsCurrent

==============================================================================
