------------------------------ MODULE ViewZoom ------------------------------
(***************************************************************************)
(* Zoom and centre of the main window (src/src/gui/rtimvMainWindow.cpp,    *)
(* post_zoomLevel, change_center and around them), the regions drawn over  *)
(* the image, and the zoom and view widgets of the control panel, which    *)
(* set the zoom and mirror it (src/src/gui/rtimvControlPanel.cpp).         *)
(*                                                                         *)
(* Everything runs in the Qt thread, one handler at a time.  What is drawn *)
(* at a scale, the transform and the pens of the regions, is recorded as   *)
(* the zoom and the fit of image and window it was made for.               *)
(***************************************************************************)
EXTENDS Integers

CONSTANTS ZoomMin, ZoomMax,  \* m_zoomLevelMin and m_zoomLevelMax
          Positions,         \* positions of the zoom slider, fewer than zooms
          Widths,            \* widths of the window
          Sizes,             \* sizes of the image
          Regions            \* the regions that may be drawn

\* The zoom starts at 1, which is m_zoomLevelMin.
ZoomAssumption ==
    /\ ZoomMin = 1 /\ ZoomMax \in Nat /\ ZoomMin < ZoomMax
    /\ Positions \in Nat \ {0} /\ Sizes \subseteq Nat \ {0}

VARIABLES
    w,        \* the zoom, the image, the window and the transform
    wPens,    \* the pen of each region, NoPen when it is not there
    wPanel,   \* the widgets of the control panel
    wAsked    \* for the properties: the zoom that was asked for last

wvars == <<w, wPens, wPanel, wAsked>>

Overlay == "overlay"   \* a box of a plugin, which stays with another image
NoPen  == <<0, <<0, 0>>>>
Closed == [open |-> FALSE]
Scale(v) == <<v.zoom, v.fit>>

\* fit is m_screenZoom, drawn says that there is an m_qpmi, cen is where the
\* view is centred, and scene the scale of the transform.
Init ==
    /\ \E width \in Widths :
          w = [zoom |-> 1, nx |-> 0, width |-> width, fit |-> <<width, 0>>,
               drawn |-> FALSE, cen |-> "mid", scene |-> NoPen]
    /\ wPens = [r \in Regions |-> NoPen]
    /\ wPanel = Closed
    /\ wAsked = 1

-----------------------------------------------------------------------------
(* The panel shows the zoom.                                               *)

Round(a, b) == (2 * a + b) \div (2 * b)

\* update_ZoomSlider, and on_ZoomSlider_valueChanged back: coarser than zooms.
SliderOf(zoom) == Round((zoom - ZoomMin) * Positions, ZoomMax - ZoomMin)
ZoomOf(pos)    == ZoomMin + Round(pos * (ZoomMax - ZoomMin), Positions)

Clamp(z) == IF z < ZoomMin THEN ZoomMin ELSE IF z > ZoomMax THEN ZoomMax ELSE z

Kept(p, entry, shown) == IF p.typing = entry THEN p[entry] ELSE shown

\* Mutant of UpdatePanel: the entry of the width is left alone.
UpdatePanelNarrow(p, v) ==
    IF p.open
    THEN [p EXCEPT !.slider = SliderOf(v.zoom), !.zoom = v.zoom,
                   !.cen = Kept(p, "cen", v.cen)]
    ELSE p

\* update_panel, as far as the view goes: what the operator is typing stays,
\* but for the zoom entry.
UpdatePanel(p, v) ==
    IF p.open
    THEN [p EXCEPT !.slider = SliderOf(v.zoom), !.zoom = v.zoom,
                   !.cen = Kept(p, "cen", v.cen),
                   !.wide = Kept(p, "wide", <<v.nx, v.zoom>>)]
    ELSE p

\* change_center of the panel: the lines, and the box of a magnified view.
MoveBox(p, v) ==
    IF p.open THEN [p EXCEPT !.lines = v.cen, !.box = v.zoom > 1] ELSE p

ChangeCenter(v) == UpdatePanel(MoveBox(wPanel, v), v)

-----------------------------------------------------------------------------
(* post_zoomLevel.                                                         *)

PenOf(v, pen) == IF pen = NoPen THEN NoPen ELSE Scale(v)

\* Mutant of SetPens: the boxes of plugins are forgotten.
SetPensOwn(v, pens) ==
    [r \in Regions |-> IF r = Overlay THEN pens[r] ELSE PenOf(v, pens[r])]

\* The pens of every region, for the view v.
SetPens(v, pens) == [r \in Regions |-> PenOf(v, pens[r])]

\* The view becomes v and everything drawn at a scale follows.
PostZoom(v, pens, panel) ==
    /\ w' = [v EXCEPT !.scene = Scale(v)]
    /\ wPens' = SetPens(v, pens)
    /\ wPanel' = UpdatePanel(MoveBox(panel, v), v)

PostZoomLevel(v, pens) == PostZoom(v, pens, wPanel)

\* zoomLevel( z ); the slider is moved with its signals blocked.
ZoomLevel(z) ==
    /\ wAsked' = z
    /\ PostZoomLevel([w EXCEPT !.zoom = Clamp(z)], wPens)

-----------------------------------------------------------------------------
(* Events of the window.                                                   *)

\* resizeEvent.
ResizeEvent(width) ==
    /\ UNCHANGED wAsked
    /\ IF w.nx = 0
       THEN w' = [w EXCEPT !.width = width] /\ UNCHANGED <<wPens, wPanel>>
       ELSE PostZoomLevel([w EXCEPT !.width = width, !.fit = <<width, w.nx>>], wPens)

\* squareDown and squareUp give the window the shape of the image.
SquareDown == \E width \in Widths : width < w.width /\ ResizeEvent(width)
SquareUp   == \E width \in Widths : width > w.width /\ ResizeEvent(width)

\* mtxL_setViewCen: nothing is centred before there is an image.
SetViewCen(cen) ==
    /\ w.drawn
    /\ w' = [w EXCEPT !.cen = cen]
    /\ wPanel' = ChangeCenter(w')
    /\ UNCHANGED <<wPens, wAsked>>

\* mtxUL_center, the key C with control.
Center ==
    /\ UNCHANGED wAsked
    /\ PostZoomLevel(IF w.drawn THEN [w EXCEPT !.cen = "mid"] ELSE w, wPens)

\* changeCenter: a click of the middle button on the view.
ClickCenter ==
    /\ w' = [w EXCEPT !.cen = "off"]
    /\ wPanel' = ChangeCenter(w')
    /\ UNCHANGED <<wPens, wAsked>>

\* onWheelMoved, which multiplies, in steps; and the keys of the digits.
WheelMoved == \E d \in {-1, 1} : ZoomLevel(w.zoom + d)
KeyPress   == \E z \in ZoomMin .. ZoomMax + 1 : ZoomLevel(z)

\* addUserBox and its kin; a plugin's box is added the same way.
AddRegion(r) ==
    /\ wPens[r] = NoPen
    /\ wPens' = [wPens EXCEPT ![r] = Scale(w)]
    /\ UNCHANGED <<w, wPanel, wAsked>>

RemoveRegion(r) ==
    /\ wPens[r] # NoPen
    /\ wPens' = [wPens EXCEPT ![r] = NoPen]
    /\ UNCHANGED <<w, wPanel, wAsked>>

-----------------------------------------------------------------------------
(* An image arrives.                                                       *)

\* mtxL_postSetImsize: the pixmap goes, and the regions with it.
PostSetImsize(n) == [w EXCEPT !.nx = n, !.fit = <<w.width, n>>, !.drawn = FALSE]

PensLeft == [r \in Regions |-> IF r = Overlay THEN wPens[r] ELSE NoPen]

\* mtxL_postRecolor draws the first image of a size in the middle, and
\* mtxL_postChangeImdata brings the panel up to date.
PostRecolor(v, pens) ==
    IF v.drawn
    THEN /\ w' = v /\ wPens' = pens
         /\ wPanel' = UpdatePanel(wPanel, v)
    ELSE PostZoomLevel([v EXCEPT !.drawn = TRUE, !.cen = "mid"], pens)

\* An image of the size there is.
SameSize ==
    /\ w.nx # 0
    /\ PostRecolor(w, wPens)
    /\ UNCHANGED wAsked

\* Another size: the zoom goes back to 1.
Resized(n) ==
    /\ n # w.nx
    /\ wAsked' = 1
    /\ PostZoomLevel([PostSetImsize(n) EXCEPT !.drawn = TRUE, !.cen = "mid",
                                              !.zoom = Clamp(1)], PensLeft)

\* A size without a picture, which a client may get: nothing is drawn yet.
ResizedOnly(n) ==
    /\ n # w.nx
    /\ w' = PostSetImsize(n) /\ wPens' = PensLeft
    /\ UNCHANGED <<wPanel, wAsked>>

-----------------------------------------------------------------------------
(* The panel.                                                              *)

\* The constructor and init_panel; the box is there until the first move.
LaunchControlPanel ==
    /\ ~wPanel.open
    /\ wPanel' = [open |-> TRUE, typing |-> "none", slider |-> SliderOf(w.zoom),
                  zoom |-> w.zoom, cen |-> w.cen, wide |-> <<w.nx, w.zoom>>,
                  lines |-> "mid", box |-> TRUE]
    /\ UNCHANGED <<w, wPens, wAsked>>

\* on_Zoom1_clicked to on_Zoom16_clicked, and the slider.
ZoomButton == wPanel.open /\ \E z \in {1, 2, 4, 8} : ZoomLevel(z)
ZoomSlider == wPanel.open /\ \E pos \in 0 .. Positions : ZoomLevel(ZoomOf(pos))

\* The arrows of the panel, and the button in their middle.
ViewArrow  == wPanel.open /\ SetViewCen("off")
ViewCenter == wPanel.open /\ SetViewCen("mid")

Type(entry) ==
    /\ wPanel.open /\ wPanel.typing = "none"
    /\ wPanel' = [wPanel EXCEPT !.typing = entry]
    /\ UNCHANGED <<w, wPens, wAsked>>

\* editingFinished of the entries: of the zoom and the width the number counts,
\* of the centre only a finite one, and only with an image.
Left == [wPanel EXCEPT !.typing = "none"]

EditingFinished ==
    /\ wPanel.open
    /\ \/ /\ wPanel.typing \in {"zoom", "wide"}
          /\ \E z \in ZoomMin - 1 .. ZoomMax + 1 :
                /\ wAsked' = z
                /\ PostZoom([w EXCEPT !.zoom = Clamp(z)], wPens, Left)
       \/ /\ wPanel.typing = "cen" /\ w.drawn
          /\ \E cen \in {"mid", "off"} : w' = [w EXCEPT !.cen = cen]
          /\ wPanel' = UpdatePanel(MoveBox(Left, w'), w')
          /\ UNCHANGED <<wPens, wAsked>>
       \/ /\ wPanel.typing = "cen"
          /\ wPanel' = [Left EXCEPT !.cen = "bad"]
          /\ UNCHANGED <<w, wPens, wAsked>>

Next ==
    \/ \E width \in Widths : width # w.width /\ ResizeEvent(width)
    \/ SquareDown \/ SquareUp \/ Center \/ ClickCenter \/ WheelMoved \/ KeyPress
    \/ \E r \in Regions : AddRegion(r) \/ RemoveRegion(r)
    \/ SameSize
    \/ \E n \in Sizes : Resized(n) \/ ResizedOnly(n)
    \/ LaunchControlPanel \/ ZoomButton \/ ZoomSlider \/ ViewArrow \/ ViewCenter
    \/ Type("zoom") \/ Type("wide") \/ Type("cen") \/ EditingFinished

Spec == Init /\ [][Next]_wvars

-----------------------------------------------------------------------------
(* Properties.                                                             *)

\* When an image is shown, it and every region over it, a plugin's too, are
\* drawn for the zoom and the window there are: no zoom, no resize of the
\* window and no image of another size leaves a pen behind (post_zoomLevel).
PensFit ==
    w.drawn =>
        /\ w.scene = Scale(w)
        /\ \A r \in Regions : wPens[r] \in {NoPen, Scale(w)}

\* The zoom is what the operator asked for last, within the limits, never what
\* a coarser widget makes of it; and the panel shows that zoom, but for the
\* entry that is being typed in (zoomLevel, update_panel).
ZoomAgrees ==
    /\ w.zoom = Clamp(wAsked)
    /\ wPanel.open /\ w.drawn =>
          /\ wPanel.slider = SliderOf(w.zoom) /\ wPanel.zoom = w.zoom
          /\ wPanel.typing # "wide" => wPanel.wide = <<w.nx, w.zoom>>

=============================================================================
