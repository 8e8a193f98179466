---------------------------- MODULE WindowProofs ----------------------------
(***************************************************************************)
(* What is proved of the main window for every value of the constants: no  *)
(* pen is left behind by a zoom and the widgets of the zoom agree          *)
(* (ViewZoom), a drag never loses the anchor of the region                 *)
(* (StretchGeometry), the tools of the control panel tell what they do     *)
(* (PanelTools), the colour scale follows its box (UserItems), and so do   *)
(* the readout and the dialog of the statistics (StatsDisplay).            *)
(*                                                                         *)
(* Each part has an invariant that its own steps preserve; a step of any   *)
(* other part leaves its variables alone.                                  *)
(***************************************************************************)
EXTENDS MCWindow, TLAPS

Views == [zoom : Int, nx : Nat, width : Widths, fit : Widths \X Nat,
          drawn : BOOLEAN, cen : {"mid", "off"},
          scene : (Int \X (Widths \X Nat)) \cup {Zoom!NoPen}]
Pens == [Regions -> (Int \X (Widths \X Nat)) \cup {Zoom!NoPen}]

\* The view is a record of its parts and every region has a pen.
ViewOK == w \in Views /\ wPens \in Pens

\* ViewOK is what PensFit needs to be inductive.
PenInv == ViewOK /\ PensFit

LEMMA PostZoomFits ==
    ASSUME NEW v \in Views, NEW pens \in Pens, NEW panel,
           Zoom!PostZoom(v, pens, panel)
    PROVE  PenInv'
<1>1. Zoom!Scale(v) \in Int \X (Widths \X Nat)
  BY DEF Zoom!Scale, Views
<1>2. w' \in Views /\ w'.scene = Zoom!Scale(v) /\ Zoom!Scale(w') = Zoom!Scale(v)
  BY <1>1 DEF Zoom!PostZoom, Zoom!Scale, Views
<1>3. wPens' \in Pens /\ \A r \in Regions : wPens'[r] \in {Zoom!NoPen, Zoom!Scale(v)}
  BY <1>1 DEF Zoom!PostZoom, Zoom!SetPens, Zoom!PenOf, Pens
<1> QED
  BY <1>2, <1>3 DEF PenInv, ViewOK, PensFit, Zoom!PensFit, Zoom!Scale

LEMMA SameSceneFits ==
    ASSUME PenInv, w' \in Views, wPens' = wPens, w'.drawn = w.drawn,
           w'.scene = w.scene, w'.zoom = w.zoom, w'.fit = w.fit
    PROVE  PenInv'
BY DEF PenInv, ViewOK, PensFit, Zoom!PensFit, Zoom!Scale

LEMMA ClampInt ==
    ASSUME NEW z \in Int
    PROVE  Zoom!Clamp(z) \in Int
BY ConstantsAssumption DEF Zoom!Clamp, Zoom!ZoomAssumption

LEMMA ZoomLevelFits ==
    ASSUME PenInv, NEW z \in Int, Zoom!ZoomLevel(z)
    PROVE  PenInv'
<1>1. [w EXCEPT !.zoom = Zoom!Clamp(z)] \in Views
  BY ClampInt DEF PenInv, ViewOK, Views
<1> QED
  BY <1>1, PostZoomFits DEF Zoom!ZoomLevel, Zoom!PostZoomLevel, PenInv, ViewOK

LEMMA ResizeFits ==
    ASSUME PenInv, NEW width \in Widths, Zoom!ResizeEvent(width)
    PROVE  PenInv'
<1>1. CASE w.nx = 0
  BY <1>1, SameSceneFits DEF Zoom!ResizeEvent, PenInv, ViewOK, Views
<1>2. CASE w.nx # 0
  <2>1. [w EXCEPT !.width = width, !.fit = <<width, w.nx>>] \in Views
    BY DEF PenInv, ViewOK, Views
  <2> QED
    BY <1>2, <2>1, PostZoomFits
    DEF Zoom!ResizeEvent, Zoom!PostZoomLevel, PenInv, ViewOK
<1> QED BY <1>1, <1>2

LEMMA CentreFits ==
    ASSUME PenInv, NEW cen \in {"mid", "off"}, w' = [w EXCEPT !.cen = cen],
           wPens' = wPens
    PROVE  PenInv'
BY SameSceneFits DEF PenInv, ViewOK, Views

LEMMA RegionFits ==
    ASSUME PenInv, NEW r \in Regions, Zoom!AddRegion(r) \/ Zoom!RemoveRegion(r)
    PROVE  PenInv'
<1>1. Zoom!Scale(w) \in Int \X (Widths \X Nat)
  BY DEF Zoom!Scale, Views, PenInv, ViewOK
<1>2. CASE Zoom!AddRegion(r)
  BY <1>1, <1>2 DEF Zoom!AddRegion, PenInv, ViewOK, Pens, PensFit, Zoom!PensFit
<1>3. CASE Zoom!RemoveRegion(r)
  BY <1>3 DEF Zoom!RemoveRegion, PenInv, ViewOK, Pens, PensFit, Zoom!PensFit
<1> QED BY <1>2, <1>3

\* Another size takes the pens of the user's regions with it.
LEMMA NewSizeFits ==
    ASSUME PenInv, NEW n \in Sizes
    PROVE  Zoom!PostSetImsize(n) \in Views /\ Zoom!PensLeft \in Pens
BY ConstantsAssumption
   DEF Zoom!PostSetImsize, Zoom!PensLeft, Zoom!ZoomAssumption, PenInv, ViewOK,
       Views, Pens

LEMMA ImageFits ==
    ASSUME PenInv, Zoom!SameSize \/ \E n \in Sizes : Zoom!Resized(n) \/ Zoom!ResizedOnly(n)
    PROVE  PenInv'
<1>1. CASE Zoom!SameSize
  <2>1. CASE w.drawn
    BY <1>1, <2>1, SameSceneFits
    DEF Zoom!SameSize, Zoom!PostRecolor, PenInv, ViewOK
  <2>2. CASE ~w.drawn
    <3>1. [w EXCEPT !.drawn = TRUE, !.cen = "mid"] \in Views
      BY DEF PenInv, ViewOK, Views
    <3> QED
      BY <1>1, <2>2, <3>1, PostZoomFits
      DEF Zoom!SameSize, Zoom!PostRecolor, Zoom!PostZoomLevel, PenInv, ViewOK
  <2> QED BY <2>1, <2>2
<1>2. ASSUME NEW n \in Sizes, Zoom!Resized(n)
      PROVE  PenInv'
  <2>1. [Zoom!PostSetImsize(n) EXCEPT !.drawn = TRUE, !.cen = "mid",
                                      !.zoom = Zoom!Clamp(1)] \in Views
    <3>1. \A v \in Views, z \in Int :
            [v EXCEPT !.drawn = TRUE, !.cen = "mid", !.zoom = z] \in Views
      BY DEF Views
    <3>2. Zoom!Clamp(1) \in Int
      BY ClampInt
    <3>3. Zoom!PostSetImsize(n) \in Views
      BY NewSizeFits
    <3> QED BY <3>1, <3>2, <3>3
  <2> QED
    BY <1>2, <2>1, NewSizeFits, PostZoomFits DEF Zoom!Resized, Zoom!PostZoomLevel
<1>3. ASSUME NEW n \in Sizes, Zoom!ResizedOnly(n)
      PROVE  PenInv'
  <2>1. Zoom!PostSetImsize(n).drawn = FALSE
    BY DEF Zoom!PostSetImsize, PenInv, ViewOK, Views
  <2> QED
    BY <1>3, <2>1, NewSizeFits
    DEF Zoom!ResizedOnly, PenInv, ViewOK, PensFit, Zoom!PensFit
<1> QED BY <1>1, <1>2, <1>3

\* The entries of the panel.
LEMMA EntryFits ==
    ASSUME PenInv, Zoom!EditingFinished
    PROVE  PenInv'
<1>1. ASSUME NEW z \in ZoomMin - 1 .. ZoomMax + 1,
             Zoom!PostZoom([w EXCEPT !.zoom = Zoom!Clamp(z)], wPens, Zoom!Left)
      PROVE  PenInv'
  <2>1. z \in Int
    BY ConstantsAssumption DEF Zoom!ZoomAssumption
  <2>2. [w EXCEPT !.zoom = Zoom!Clamp(z)] \in Views
    BY <2>1, ClampInt DEF PenInv, ViewOK, Views
  <2> QED BY <1>1, <2>2, PostZoomFits DEF PenInv, ViewOK
<1>2. ASSUME NEW cen \in {"mid", "off"}, w' = [w EXCEPT !.cen = cen],
             UNCHANGED <<wPens, wAsked>>
      PROVE  PenInv'
  BY <1>2, CentreFits
<1>3. ASSUME UNCHANGED <<w, wPens, wAsked>>
      PROVE  PenInv'
  BY <1>3 DEF PenInv, ViewOK, PensFit, Zoom!PensFit, Zoom!Scale
<1> QED BY <1>1, <1>2, <1>3 DEF Zoom!EditingFinished

\* The zoom of a position of the slider.
LEMMA SliderZoomInt == \A pos \in 0 .. Positions : Zoom!ZoomOf(pos) \in Int
<1> SUFFICES ASSUME NEW pos \in 0 .. Positions PROVE Zoom!ZoomOf(pos) \in Int
  OBVIOUS
<1>1. /\ pos \in Int /\ ZoomMin \in Int /\ ZoomMax \in Int
      /\ Positions \in Int /\ Positions > 0
  BY ConstantsAssumption DEF Zoom!ZoomAssumption
<1> DEFINE a == 2 * (pos * (ZoomMax - ZoomMin)) + Positions
<1>2. a \in Int /\ 2 * Positions \in Int /\ 2 * Positions > 0
  BY <1>1
<1>3. a \div (2 * Positions) \in Int
  <2> HIDE DEF a
  <2> QED BY <1>2
<1> QED BY <1>1, <1>3 DEF Zoom!ZoomOf, Zoom!Round

LEMMA ZoomStepFits ==
    ASSUME PenInv, Zoom!Next
    PROVE  PenInv'
<1>1. ASSUME NEW width \in Widths, Zoom!ResizeEvent(width) PROVE PenInv'
  BY <1>1, ResizeFits
<1>2. CASE Zoom!SquareDown \/ Zoom!SquareUp
  BY <1>2, ResizeFits DEF Zoom!SquareDown, Zoom!SquareUp
<1>3. CASE Zoom!Center
  <2>1. (IF w.drawn THEN [w EXCEPT !.cen = "mid"] ELSE w) \in Views
    BY DEF PenInv, ViewOK, Views
  <2> QED
    BY <1>3, <2>1, PostZoomFits DEF Zoom!Center, Zoom!PostZoomLevel, PenInv, ViewOK
<1>4. CASE Zoom!ClickCenter
  BY <1>4, CentreFits DEF Zoom!ClickCenter
<1>5. CASE Zoom!WheelMoved
  <2>1. PICK d \in {-1, 1} : Zoom!ZoomLevel(w.zoom + d)
    BY <1>5 DEF Zoom!WheelMoved
  <2>2. w.zoom + d \in Int
    BY DEF PenInv, ViewOK, Views
  <2> QED BY <2>1, <2>2, ZoomLevelFits
<1>6. CASE Zoom!KeyPress
  <2>1. PICK z \in ZoomMin .. ZoomMax + 1 : Zoom!ZoomLevel(z)
    BY <1>6 DEF Zoom!KeyPress
  <2>2. z \in Int
    BY ConstantsAssumption DEF Zoom!ZoomAssumption
  <2> QED BY <2>1, <2>2, ZoomLevelFits
<1>7. ASSUME NEW r \in Regions, Zoom!AddRegion(r) \/ Zoom!RemoveRegion(r)
      PROVE  PenInv'
  BY <1>7, RegionFits
<1>8. CASE \/ Zoom!SameSize
           \/ \E n \in Sizes : Zoom!Resized(n) \/ Zoom!ResizedOnly(n)
  BY <1>8, ImageFits
<1>9. CASE \/ Zoom!LaunchControlPanel
           \/ Zoom!Type("zoom") \/ Zoom!Type("wide") \/ Zoom!Type("cen")
  <2>1. UNCHANGED <<w, wPens>>
    BY <1>9 DEF Zoom!LaunchControlPanel, Zoom!Type
  <2> QED BY <2>1 DEF PenInv, ViewOK, PensFit, Zoom!PensFit, Zoom!Scale
<1>10. CASE Zoom!ZoomButton
  BY <1>10, ZoomLevelFits DEF Zoom!ZoomButton
<1>11. CASE Zoom!ZoomSlider
  BY <1>11, SliderZoomInt, ZoomLevelFits DEF Zoom!ZoomSlider
<1>12. CASE Zoom!ViewArrow \/ Zoom!ViewCenter
  BY <1>12, CentreFits DEF Zoom!ViewArrow, Zoom!ViewCenter, Zoom!SetViewCen
<1>13. CASE Zoom!EditingFinished
  BY <1>13, EntryFits
<1> QED
  BY <1>1, <1>2, <1>3, <1>4, <1>5, <1>6, <1>7, <1>8, <1>9, <1>10, <1>11,
     <1>12, <1>13 DEF Zoom!Next

\* The typed pens hold in every reachable state.
LEMMA PenInvariant == Spec => []PenInv
<1>1. Init => PenInv
  <2>1. SUFFICES ASSUME Zoom!Init PROVE PenInv
    BY DEF Init
  <2>2. w \in Views /\ ~w.drawn
    BY <2>1 DEF Zoom!Init, Views
  <2>3. wPens \in Pens
    BY <2>1 DEF Zoom!Init, Pens
  <2> QED BY <2>2, <2>3 DEF PenInv, ViewOK, PensFit, Zoom!PensFit
<1>2. PenInv /\ [Next]_vars => PenInv'
  <2> SUFFICES ASSUME PenInv, [Next]_vars PROVE PenInv'
    OBVIOUS
  <2>1. CASE Zoom!Next
    BY <2>1, ZoomStepFits
  <2>2. CASE UNCHANGED zoomVars
    BY <2>2 DEF zoomVars, PenInv, ViewOK, PensFit, Zoom!PensFit, Zoom!Scale
  <2> QED BY <2>1, <2>2 DEF Next, vars
<1> QED BY <1>1, <1>2, PTL DEF Spec

\* When an image is shown, it and every region over it, a plugin's too, are
\* drawn for the zoom and the window there are (post_zoomLevel and the paths
\* that change what is drawn without it).
THEOREM NoPenLeftBehind == Spec => []PensFit
<1>1. PenInv => PensFit
  BY DEF PenInv
<1> QED BY <1>1, PenInvariant, PTL

-----------------------------------------------------------------------------
(* The zoom that was asked for, and the panel that shows it.               *)

Panels == {Zoom!Closed} \cup
          [open : {TRUE}, typing : {"none", "zoom", "wide", "cen"},
           slider : Int, zoom : Int, cen : {"mid", "off", "bad"},
           wide : Nat \X Int, lines : {"mid", "off"}, box : BOOLEAN]

\* The panel pan shows the zoom of the view v.
Shows(pan, v) ==
    pan.open =>
        /\ pan.slider = Zoom!SliderOf(v.zoom) /\ pan.zoom = v.zoom
        /\ pan.typing # "wide" => pan.wide = <<v.nx, v.zoom>>

\* Before an image is drawn the panel may be behind; the view is typed by
\* ViewOK, which PenInv carries.
AskedInv ==
    /\ wPanel \in Panels /\ wAsked \in Int
    /\ w.zoom = Zoom!Clamp(wAsked)
    /\ w.drawn => Shows(wPanel, w)

LEMMA SliderInt ==
    ASSUME NEW z \in Int
    PROVE  Zoom!SliderOf(z) \in Int
<1>1. ZoomMin \in Int /\ ZoomMax \in Int /\ ZoomMin < ZoomMax /\ Positions \in Int
  BY ConstantsAssumption DEF Zoom!ZoomAssumption
<1> DEFINE b == ZoomMax - ZoomMin
           a == 2 * ((z - ZoomMin) * Positions) + b
<1>2. b \in Int /\ 2 * b \in Int /\ 2 * b > 0
  BY <1>1
<1>3. (z - ZoomMin) * Positions \in Int
  BY <1>1
<1>4. a \in Int
  BY <1>2, <1>3
<1>5. a \div (2 * b) \in Int
  <2> HIDE DEF a, b
  <2> QED BY <1>2, <1>4
<1> QED BY <1>5 DEF Zoom!SliderOf, Zoom!Round

\* update_panel shows the zoom of the view it is given, and moves only widgets.
LEMMA UpdateShows ==
    ASSUME NEW pan \in Panels, NEW v \in Views
    PROVE  /\ Zoom!UpdatePanel(pan, v) \in Panels /\ Shows(Zoom!UpdatePanel(pan, v), v)
           /\ Zoom!MoveBox(pan, v) \in Panels
<1>1. CASE pan = Zoom!Closed
  BY <1>1 DEF Panels, Shows, Zoom!Closed, Zoom!UpdatePanel, Zoom!MoveBox
<1>2. CASE pan # Zoom!Closed
  <2>1. /\ pan \in [open : {TRUE}, typing : {"none", "zoom", "wide", "cen"},
                    slider : Int, zoom : Int, cen : {"mid", "off", "bad"},
                    wide : Nat \X Int, lines : {"mid", "off"}, box : BOOLEAN]
        /\ pan.open
    BY <1>2 DEF Panels
  <2>2. /\ v.zoom \in Int /\ v.nx \in Nat /\ v.cen \in {"mid", "off"}
        /\ <<v.nx, v.zoom>> \in Nat \X Int
    BY DEF Views
  <2>3. Zoom!SliderOf(v.zoom) \in Int
    BY <2>2, SliderInt
  <2> DEFINE c == Zoom!Kept(pan, "cen", v.cen)
             d == Zoom!Kept(pan, "wide", <<v.nx, v.zoom>>)
  <2>4. /\ c \in {"mid", "off", "bad"} /\ d \in Nat \X Int
        /\ pan.typing # "wide" => d = <<v.nx, v.zoom>>
    BY <2>1, <2>2 DEF Zoom!Kept
  <2>5. Zoom!UpdatePanel(pan, v) =
          [pan EXCEPT !.slider = Zoom!SliderOf(v.zoom), !.zoom = v.zoom, !.cen = c,
                      !.wide = d]
    BY <2>1 DEF Zoom!UpdatePanel
  <2>6. Zoom!MoveBox(pan, v) = [pan EXCEPT !.lines = v.cen, !.box = v.zoom > 1]
    BY <2>1 DEF Zoom!MoveBox
  <2> HIDE DEF c, d
  <2>7. /\ Zoom!UpdatePanel(pan, v) \in Panels
        /\ Zoom!UpdatePanel(pan, v).typing = pan.typing
        /\ Zoom!UpdatePanel(pan, v).slider = Zoom!SliderOf(v.zoom)
        /\ Zoom!UpdatePanel(pan, v).zoom = v.zoom
        /\ Zoom!UpdatePanel(pan, v).wide = d
    BY <2>1, <2>2, <2>3, <2>4, <2>5 DEF Panels
  <2>8. (v.zoom > 1) \in BOOLEAN
    OBVIOUS
  <2>9. Zoom!MoveBox(pan, v) \in Panels
    BY <2>1, <2>2, <2>6, <2>8 DEF Panels
  <2> QED BY <2>4, <2>7, <2>9 DEF Shows
<1> QED BY <1>1, <1>2

\* post_zoomLevel for a view of the zoom that was asked for.
LEMMA PostZoomAgrees ==
    ASSUME NEW v \in Views, NEW pens, NEW pan \in Panels,
           Zoom!PostZoom(v, pens, pan),
           wAsked' \in Int, v.zoom = Zoom!Clamp(wAsked')
    PROVE  AskedInv'
<1>1. w'.zoom = v.zoom /\ w'.nx = v.nx
  BY DEF Zoom!PostZoom, Views
<1>2. wPanel' \in Panels /\ Shows(wPanel', v)
  BY UpdateShows DEF Zoom!PostZoom
<1>3. Shows(wPanel', w')
  BY <1>1, <1>2 DEF Shows
<1> QED BY <1>1, <1>2, <1>3 DEF AskedInv

LEMMA ZoomLevelAgrees ==
    ASSUME ViewOK, AskedInv, NEW z \in Int, Zoom!ZoomLevel(z)
    PROVE  AskedInv'
<1> DEFINE v == [w EXCEPT !.zoom = Zoom!Clamp(z)]
<1>1. v \in Views /\ v.zoom = Zoom!Clamp(z)
  BY ClampInt DEF ViewOK, Views
<1>2. Zoom!PostZoom(v, wPens, wPanel) /\ wAsked' = z
  BY DEF Zoom!ZoomLevel, Zoom!PostZoomLevel
<1> HIDE DEF v
<1> QED BY <1>1, <1>2, PostZoomAgrees DEF AskedInv

\* The centre moves, and the panel is brought up to date.
LEMMA CentreAgrees ==
    ASSUME ViewOK, AskedInv, NEW cen \in {"mid", "off"}, w' = [w EXCEPT !.cen = cen],
           NEW pan \in Panels, wPanel' = Zoom!UpdatePanel(Zoom!MoveBox(pan, w'), w'),
           wAsked' = wAsked
    PROVE  AskedInv'
<1>1. w' \in Views /\ w'.zoom = w.zoom
  BY DEF ViewOK, Views
<1>2. wPanel' \in Panels /\ Shows(wPanel', w')
  BY <1>1, UpdateShows
<1> QED BY <1>1, <1>2 DEF AskedInv

\* The zoom stays and so does what is shown, or nothing is drawn.
LEMMA StaysAgrees ==
    ASSUME AskedInv, w'.zoom = w.zoom, wPanel' = wPanel, wAsked' = wAsked,
           w'.drawn => w.drawn /\ w'.nx = w.nx
    PROVE  AskedInv'
BY DEF AskedInv, Shows

LEMMA ResizeAgrees ==
    ASSUME ViewOK, AskedInv, NEW width \in Widths, Zoom!ResizeEvent(width)
    PROVE  AskedInv'
<1>1. CASE w.nx = 0
  BY <1>1, StaysAgrees DEF Zoom!ResizeEvent, ViewOK, Views
<1>2. CASE w.nx # 0
  <2> DEFINE v == [w EXCEPT !.width = width, !.fit = <<width, w.nx>>]
  <2>1. v \in Views /\ v.zoom = w.zoom
    BY DEF ViewOK, Views
  <2>2. Zoom!PostZoom(v, wPens, wPanel) /\ wAsked' = wAsked
    BY <1>2 DEF Zoom!ResizeEvent, Zoom!PostZoomLevel
  <2> HIDE DEF v
  <2> QED BY <2>1, <2>2, PostZoomAgrees DEF AskedInv
<1> QED BY <1>1, <1>2

LEMMA ImageAgrees ==
    ASSUME PenInv, AskedInv,
           Zoom!SameSize \/ \E n \in Sizes : Zoom!Resized(n) \/ Zoom!ResizedOnly(n)
    PROVE  AskedInv'
<1>1. CASE Zoom!SameSize
  <2>1. CASE w.drawn
    <3>1. w' = w /\ wPanel' = Zoom!UpdatePanel(wPanel, w) /\ wAsked' = wAsked
      BY <1>1, <2>1 DEF Zoom!SameSize, Zoom!PostRecolor
    <3> QED
      BY <3>1, UpdateShows DEF AskedInv, PenInv, ViewOK
  <2>2. CASE ~w.drawn
    <3> DEFINE v == [w EXCEPT !.drawn = TRUE, !.cen = "mid"]
    <3>1. v \in Views /\ v.zoom = w.zoom
      BY DEF PenInv, ViewOK, Views
    <3>2. Zoom!PostZoom(v, wPens, wPanel) /\ wAsked' = wAsked
      BY <1>1, <2>2 DEF Zoom!SameSize, Zoom!PostRecolor, Zoom!PostZoomLevel
    <3> HIDE DEF v
    <3> QED BY <3>1, <3>2, PostZoomAgrees DEF AskedInv
  <2> QED BY <2>1, <2>2
<1>2. ASSUME NEW n \in Sizes, Zoom!Resized(n)
      PROVE  AskedInv'
  <2> DEFINE v == [Zoom!PostSetImsize(n) EXCEPT !.drawn = TRUE, !.cen = "mid",
                                                !.zoom = Zoom!Clamp(1)]
  <2>1. v \in Views /\ v.zoom = Zoom!Clamp(1)
    <3>1. \A u \in Views, z \in Int :
            /\ [u EXCEPT !.drawn = TRUE, !.cen = "mid", !.zoom = z] \in Views
            /\ [u EXCEPT !.drawn = TRUE, !.cen = "mid", !.zoom = z].zoom = z
      BY DEF Views
    <3>2. Zoom!Clamp(1) \in Int
      BY ClampInt
    <3>3. Zoom!PostSetImsize(n) \in Views
      BY NewSizeFits
    <3> QED BY <3>1, <3>2, <3>3
  <2>2. Zoom!PostZoom(v, Zoom!PensLeft, wPanel) /\ wAsked' = 1
    BY <1>2 DEF Zoom!Resized, Zoom!PostZoomLevel
  <2> HIDE DEF v
  <2> QED BY <2>1, <2>2, PostZoomAgrees DEF AskedInv
<1>3. ASSUME NEW n \in Sizes, Zoom!ResizedOnly(n)
      PROVE  AskedInv'
  <2>1. w'.zoom = w.zoom /\ ~w'.drawn
    BY <1>3 DEF Zoom!ResizedOnly, Zoom!PostSetImsize, PenInv, ViewOK, Views
  <2> QED
    BY <1>3, <2>1, StaysAgrees DEF Zoom!ResizedOnly
<1> QED BY <1>1, <1>2, <1>3

\* The launch, the typing and the leaving of an entry of the panel.
LEMMA EntryAgrees ==
    ASSUME ViewOK, AskedInv,
           \/ Zoom!LaunchControlPanel \/ Zoom!EditingFinished
           \/ \E entry \in {"zoom", "wide", "cen"} : Zoom!Type(entry)
    PROVE  AskedInv'
<1> DEFINE Open == [open : {TRUE}, typing : {"none", "zoom", "wide", "cen"},
                    slider : Int, zoom : Int, cen : {"mid", "off", "bad"},
                    wide : Nat \X Int, lines : {"mid", "off"}, box : BOOLEAN]
<1>0. wPanel.open => wPanel \in Open
  <2>1. CASE wPanel = Zoom!Closed
    BY <2>1 DEF Zoom!Closed
  <2>2. CASE wPanel # Zoom!Closed
    BY <2>2 DEF AskedInv, Panels
  <2> QED BY <2>1, <2>2
<1>1. CASE Zoom!LaunchControlPanel
  <2>1. Zoom!SliderOf(w.zoom) \in Int /\ w.zoom \in Int /\ w.nx \in Nat /\ w.cen \in {"mid", "off"}
    BY SliderInt DEF ViewOK, Views
  <2> QED
    BY <1>1, <2>1 DEF Zoom!LaunchControlPanel, AskedInv, Panels, Shows
<1>2. ASSUME NEW entry \in {"zoom", "wide", "cen"}, Zoom!Type(entry)
      PROVE  AskedInv'
  BY <1>0, <1>2 DEF Zoom!Type, AskedInv, Panels, Shows
<1>3. CASE Zoom!EditingFinished
  <2>1. wPanel \in Open /\ Zoom!Left \in Panels
    BY <1>0, <1>3 DEF Zoom!EditingFinished, Zoom!Left, Panels
  <2>2. ASSUME NEW z \in ZoomMin - 1 .. ZoomMax + 1, wAsked' = z,
               Zoom!PostZoom([w EXCEPT !.zoom = Zoom!Clamp(z)], wPens, Zoom!Left)
        PROVE  AskedInv'
    <3> DEFINE v == [w EXCEPT !.zoom = Zoom!Clamp(z)]
    <3>1. z \in Int
      BY ConstantsAssumption DEF Zoom!ZoomAssumption
    <3>2. v \in Views /\ v.zoom = Zoom!Clamp(z)
      BY <3>1, ClampInt DEF ViewOK, Views
    <3>3. Zoom!PostZoom(v, wPens, Zoom!Left)
      BY <2>2
    <3> HIDE DEF v
    <3> QED BY <2>1, <2>2, <3>1, <3>2, <3>3, PostZoomAgrees
  <2>3. ASSUME NEW cen \in {"mid", "off"}, w' = [w EXCEPT !.cen = cen],
               wPanel' = Zoom!UpdatePanel(Zoom!MoveBox(Zoom!Left, w'), w'),
               wAsked' = wAsked
        PROVE  AskedInv'
    BY <2>1, <2>3, CentreAgrees
  <2>4. ASSUME wPanel.typing = "cen", wPanel' = [Zoom!Left EXCEPT !.cen = "bad"],
               UNCHANGED <<w, wAsked>>
        PROVE  AskedInv'
    <3>1. /\ wPanel' \in Open /\ wPanel'.slider = wPanel.slider
          /\ wPanel'.zoom = wPanel.zoom /\ wPanel'.wide = wPanel.wide
      BY <2>1, <2>4 DEF Zoom!Left
    <3> QED
      BY <2>1, <2>4, <3>1 DEF AskedInv, Panels, Shows
  <2> QED BY <1>3, <2>2, <2>3, <2>4 DEF Zoom!EditingFinished
<1> QED BY <1>1, <1>2, <1>3

LEMMA ZoomStepAgrees ==
    ASSUME PenInv, AskedInv, Zoom!Next
    PROVE  AskedInv'
<1> ViewOK
  BY DEF PenInv
<1>1. ASSUME NEW width \in Widths, Zoom!ResizeEvent(width) PROVE AskedInv'
  BY <1>1, ResizeAgrees
<1>2. CASE Zoom!SquareDown \/ Zoom!SquareUp
  BY <1>2, ResizeAgrees DEF Zoom!SquareDown, Zoom!SquareUp
<1>3. CASE Zoom!Center
  <2> DEFINE v == IF w.drawn THEN [w EXCEPT !.cen = "mid"] ELSE w
  <2>1. v \in Views /\ v.zoom = w.zoom
    BY DEF ViewOK, Views
  <2>2. Zoom!PostZoom(v, wPens, wPanel) /\ wAsked' = wAsked
    BY <1>3 DEF Zoom!Center, Zoom!PostZoomLevel
  <2> HIDE DEF v
  <2> QED BY <2>1, <2>2, PostZoomAgrees DEF AskedInv
<1>4. CASE Zoom!ClickCenter \/ Zoom!ViewArrow \/ Zoom!ViewCenter
  <2>1. PICK cen \in {"mid", "off"} :
           /\ w' = [w EXCEPT !.cen = cen]
           /\ wPanel' = Zoom!UpdatePanel(Zoom!MoveBox(wPanel, w'), w')
           /\ wAsked' = wAsked
    BY <1>4 DEF Zoom!ClickCenter, Zoom!ViewArrow, Zoom!ViewCenter, Zoom!SetViewCen,
                Zoom!ChangeCenter
  <2> QED BY <2>1, CentreAgrees DEF AskedInv
<1>5. CASE Zoom!WheelMoved
  <2>1. PICK d \in {-1, 1} : Zoom!ZoomLevel(w.zoom + d)
    BY <1>5 DEF Zoom!WheelMoved
  <2>2. w.zoom + d \in Int
    BY DEF ViewOK, Views
  <2> QED BY <2>1, <2>2, ZoomLevelAgrees
<1>6. CASE Zoom!KeyPress
  <2>1. PICK z \in ZoomMin .. ZoomMax + 1 : Zoom!ZoomLevel(z)
    BY <1>6 DEF Zoom!KeyPress
  <2>2. z \in Int
    BY ConstantsAssumption DEF Zoom!ZoomAssumption
  <2> QED BY <2>1, <2>2, ZoomLevelAgrees
<1>7. ASSUME NEW r \in Regions, Zoom!AddRegion(r) \/ Zoom!RemoveRegion(r)
      PROVE  AskedInv'
  BY <1>7, StaysAgrees DEF Zoom!AddRegion, Zoom!RemoveRegion
<1>8. CASE \/ Zoom!SameSize
           \/ \E n \in Sizes : Zoom!Resized(n) \/ Zoom!ResizedOnly(n)
  BY <1>8, ImageAgrees
<1>9. CASE \/ Zoom!LaunchControlPanel \/ Zoom!EditingFinished
           \/ Zoom!Type("zoom") \/ Zoom!Type("wide") \/ Zoom!Type("cen")
  BY <1>9, EntryAgrees
<1>10. CASE Zoom!ZoomButton
  BY <1>10, ZoomLevelAgrees DEF Zoom!ZoomButton
<1>11. CASE Zoom!ZoomSlider
  BY <1>11, SliderZoomInt, ZoomLevelAgrees DEF Zoom!ZoomSlider
<1> QED
  BY <1>1, <1>2, <1>3, <1>4, <1>5, <1>6, <1>7, <1>8, <1>9, <1>10, <1>11
     DEF Zoom!Next

\* The zoom is what was asked for last, within the limits, whichever widget,
\* key, wheel or image asked, and the panel shows it, but for the entry that is
\* being typed in (zoomLevel, update_panel and the slots of the panel).
THEOREM ZoomIsWhatWasAsked == Spec => []ZoomAgrees
<1>1. Init => AskedInv
  <2> SUFFICES ASSUME Zoom!Init PROVE AskedInv
    BY DEF Init
  <2>1. w.zoom = 1 /\ ~w.drawn /\ wAsked = 1 /\ wPanel = Zoom!Closed
    BY DEF Zoom!Init
  <2>2. Zoom!Clamp(1) = 1
    BY ConstantsAssumption DEF Zoom!Clamp, Zoom!ZoomAssumption
  <2> QED BY <2>1, <2>2 DEF AskedInv, Panels
<1>2. PenInv /\ AskedInv /\ [Next]_vars => AskedInv'
  <2> SUFFICES ASSUME PenInv, AskedInv, [Next]_vars PROVE AskedInv'
    OBVIOUS
  <2>1. CASE Zoom!Next
    BY <2>1, ZoomStepAgrees
  <2>2. CASE UNCHANGED zoomVars
    BY <2>2, StaysAgrees DEF zoomVars
  <2> QED BY <2>1, <2>2 DEF Next, vars
<1>3. AskedInv => ZoomAgrees
  BY DEF AskedInv, Shows, ZoomAgrees, Zoom!ZoomAgrees
<1> QED BY <1>1, <1>2, <1>3, PenInvariant, PTL DEF Spec

-----------------------------------------------------------------------------
(* The drag of a region.                                                   *)

\* The types of what the arithmetic of a drag is about, and that a circle is
\* round and a region that is being sized has a handle: what DragKeepsAnchor
\* needs to be inductive.
GeoOK ==
    /\ kKind \in {"box", "circle", "line"} /\ kCentre \in BOOLEAN
    /\ kGeo \in Geometry!Rects /\ kWay \in Geometry!Points
    /\ kMark \in [geo : Geometry!Rects, pos : Geometry!Points]
    /\ kPos \in Geometry!Points
    /\ kSizing \in Geometry!Sizings(kKind) \cup {"off"}
    /\ kHold = "sizing" => kSizing # "off"
    /\ kKind = "circle" => kGeo.w = kGeo.h

AnchorInv == GeoOK /\ DragKeepsAnchor

\* A press notes where the region is, so there it still has its anchor.
LEMMA PressKeepsAnchor ==
    ASSUME AnchorInv, Geometry!PressSizing \/ Geometry!PressGrabbed
    PROVE  AnchorInv'
<1>1. GeoOK'
  BY DEF AnchorInv, GeoOK, Geometry!PressSizing, Geometry!PressGrabbed,
         Geometry!Rects, Geometry!Points, Geometry!Sizings
<1>2. kMark'.geo = kGeo'
  BY DEF Geometry!PressSizing, Geometry!PressGrabbed
<1>3. DragKeepsAnchor'
  BY <1>1, <1>2
  DEF GeoOK, DragKeepsAnchor, Geometry!DragKeepsAnchor, Geometry!BoxAnchored,
      Geometry!CircleAnchored, Geometry!LineAnchored
<1> QED BY <1>1, <1>3 DEF AnchorInv

LEMMA BoxSized ==
    ASSUME NEW g \in Geometry!Rects, NEW dw \in Int, NEW dh \in Int,
           kCentre \in BOOLEAN
    PROVE  /\ Geometry!SizeBox(g, kSizing, dw, dh) \in Geometry!Rects
           /\ Geometry!BoxAnchored(Geometry!SizeBox(g, kSizing, dw, dh), g)
<1>1. /\ Geometry!Across(kSizing) \in {-1, 0, 1}
      /\ Geometry!Down(kSizing) \in {-1, 0, 1}
  BY DEF Geometry!Across, Geometry!Down
<1>2. CASE kCentre
  BY <1>1, <1>2 DEF Geometry!SizeBox, Geometry!BoxAnchored, Geometry!Rects
<1>3. CASE ~kCentre
  BY <1>1, <1>3 DEF Geometry!SizeBox, Geometry!BoxAnchored, Geometry!Rects
<1> QED BY <1>2, <1>3

LEMMA CircleSized ==
    ASSUME NEW g \in Geometry!Rects, NEW dr \in Int
    PROVE  /\ Geometry!SizeCircle(g, dr) \in Geometry!Rects
           /\ Geometry!CircleAnchored(Geometry!SizeCircle(g, dr), g)
BY DEF Geometry!SizeCircle, Geometry!CircleAnchored, Geometry!Rects

LEMMA LineSized ==
    ASSUME NEW g \in Geometry!Rects, NEW dw \in Int, NEW dh \in Int,
           NEW new \in Geometry!SizeLine(g, kSizing, dw, dh)
    PROVE  new \in Geometry!Rects /\ Geometry!LineAnchored(new, g)
<1>1. ASSUME NEW a \in Int, NEW b \in Int, new = [g EXCEPT !.w = a, !.h = b]
      PROVE  /\ new \in Geometry!Rects
             /\ new.x = g.x /\ new.y = g.y /\ new.w = a /\ new.h = b
  BY <1>1 DEF Geometry!Rects
<1>2. CASE kSizing = "all"
  <2>1. new = [g EXCEPT !.w = g.w + dw, !.h = g.h + dh]
    BY <1>2 DEF Geometry!SizeLine
  <2>2. g.w + dw \in Int /\ g.h + dh \in Int
    BY DEF Geometry!Rects
  <2>3. new \in Geometry!Rects /\ new.x = g.x /\ new.y = g.y
    BY <1>1, <2>1, <2>2, Zenon
  <2> QED BY <1>2, <2>3 DEF Geometry!LineAnchored
<1>3. CASE kSizing # "all"
  <2>1. PICK r \in {<<1, 0>>, <<0, 1>>, <<-1, 0>>, <<0, -1>>} :
          new = [g EXCEPT !.w = g.w * r[1] - g.h * r[2],
                          !.h = g.w * r[2] + g.h * r[1]]
    BY <1>3 DEF Geometry!SizeLine
  <2>2. g.w \in Int /\ g.h \in Int
    BY DEF Geometry!Rects
  <2> DEFINE nw == g.w * r[1] - g.h * r[2]
             nh == g.w * r[2] + g.h * r[1]
  <2>3. \/ nw = g.w /\ nh = g.h
        \/ nw = -g.h /\ nh = g.w
        \/ nw = -g.w /\ nh = -g.h
        \/ nw = g.h /\ nh = -g.w
    <3>1. /\ r[1] = 1 /\ r[2] = 0 => nw = g.w /\ nh = g.h
          /\ r[1] = 0 /\ r[2] = 1 => nw = -g.h /\ nh = g.w
          /\ r[1] = -1 /\ r[2] = 0 => nw = -g.w /\ nh = -g.h
          /\ r[1] = 0 /\ r[2] = -1 => nw = g.h /\ nh = -g.w
      BY <2>2
    <3>2. \/ r[1] = 1 /\ r[2] = 0
          \/ r[1] = 0 /\ r[2] = 1
          \/ r[1] = -1 /\ r[2] = 0
          \/ r[1] = 0 /\ r[2] = -1
      BY <2>1
    <3> HIDE DEF nw, nh
    <3> QED BY <3>1, <3>2
  <2>4. new = [g EXCEPT !.w = nw, !.h = nh]
    BY <2>1
  <2> HIDE DEF nw, nh
  <2>5. nw \in Int /\ nh \in Int /\ nw * nw + nh * nh = g.w * g.w + g.h * g.h
    BY <2>2, <2>3
  <2>6. /\ new \in Geometry!Rects
        /\ new.x = g.x /\ new.y = g.y /\ new.w = nw /\ new.h = nh
    BY <1>1, <2>4, <2>5, Zenon
  <2> QED BY <2>5, <2>6 DEF Geometry!LineAnchored
<1> QED BY <1>2, <1>3

LEMMA RectMoved ==
    ASSUME NEW g \in Geometry!Rects, NEW dx \in Int, NEW dy \in Int
    PROVE  /\ Geometry!Moved(g, dx, dy) \in Geometry!Rects
           /\ Geometry!Moved(g, dx, dy).w = g.w
           /\ Geometry!Moved(g, dx, dy).h = g.h
<1>1. ASSUME NEW a \in Int, NEW b \in Int
      PROVE  /\ [g EXCEPT !.x = a, !.y = b] \in Geometry!Rects
             /\ [g EXCEPT !.x = a, !.y = b].w = g.w
             /\ [g EXCEPT !.x = a, !.y = b].h = g.h
  BY DEF Geometry!Rects
<1>2. g.x + dx \in Int /\ g.y + dy \in Int
  BY DEF Geometry!Rects
<1> QED BY <1>1, <1>2, Zenon DEF Geometry!Moved

LEMMA PointMoved ==
    ASSUME NEW at \in Geometry!Points, NEW dx \in Int, NEW dy \in Int
    PROVE  Geometry!Moved(at, dx, dy) \in Geometry!Points
<1>1. ASSUME NEW a \in Int, NEW b \in Int
      PROVE  [at EXCEPT !.x = a, !.y = b] \in Geometry!Points
  BY DEF Geometry!Points
<1>2. at.x + dx \in Int /\ at.y + dy \in Int
  BY DEF Geometry!Points
<1> QED BY <1>1, <1>2, Zenon DEF Geometry!Moved

\* A move of the mouse starts from what the press noted.
LEMMA DragKeepsAnchorStep ==
    ASSUME AnchorInv, Geometry!Drag
    PROVE  AnchorInv'
<1>1. /\ UNCHANGED <<kKind, kCentre, kHold, kSizing, kMark>>
      /\ kHold # "none"
  BY DEF Geometry!Drag
<1>2. PICK dx \in (-Reach)..Reach, dy \in (-Reach)..Reach :
        /\ kWay' = [x |-> kWay.x + dx, y |-> kWay.y + dy]
        /\ IF kHold = "sizing"
           THEN /\ kGeo' \in Geometry!Sized(kMark.geo, kWay.x + dx, kWay.y + dy)
                /\ UNCHANGED kPos
           ELSE IF kKind = "line"
           THEN /\ kGeo' = Geometry!Moved(kMark.geo, kWay.x + dx, kWay.y + dy)
                /\ UNCHANGED kPos
           ELSE /\ kPos' = Geometry!Moved(kMark.pos, kWay.x + dx, kWay.y + dy)
                /\ UNCHANGED kGeo
  BY DEF Geometry!Drag
<1> DEFINE dw == kWay.x + dx
           dh == kWay.y + dy
<1>3. dw \in Int /\ dh \in Int
  BY ConstantsAssumption
  DEF Geometry!TolAssumption, AnchorInv, GeoOK, Geometry!Points
<1>4. kMark.geo \in Geometry!Rects /\ kMark.pos \in Geometry!Points
  BY DEF AnchorInv, GeoOK
<1>5. kWay' \in Geometry!Points
  BY <1>2, <1>3 DEF Geometry!Points
<1> HIDE DEF dw, dh
<1>6. CASE kHold = "sizing"
  <2>1. kGeo' \in Geometry!Sized(kMark.geo, dw, dh) /\ UNCHANGED kPos
    BY <1>2, <1>6 DEF dw, dh
  <2>2. CASE kKind = "box"
    <3>1. kGeo' = Geometry!SizeBox(kMark.geo, kSizing, dw, dh)
      BY <2>1, <2>2 DEF Geometry!Sized
    <3>2. kGeo' \in Geometry!Rects /\ Geometry!BoxAnchored(kGeo', kMark.geo)
      BY <3>1, <1>3, <1>4, BoxSized DEF AnchorInv, GeoOK
    <3> QED
      BY <1>1, <1>5, <1>6, <2>1, <2>2, <3>2
      DEF AnchorInv, GeoOK, DragKeepsAnchor, Geometry!DragKeepsAnchor,
          Geometry!BoxAnchored, Geometry!Sizings
  <2>3. CASE kKind = "circle"
    <3>1. kGeo' = Geometry!SizeCircle(kMark.geo, dw)
      BY <2>1, <2>3 DEF Geometry!Sized
    <3>2. kGeo' \in Geometry!Rects /\ Geometry!CircleAnchored(kGeo', kMark.geo)
      BY <3>1, <1>3, <1>4, CircleSized
    <3> QED
      BY <1>1, <1>5, <1>6, <2>1, <2>3, <3>2
      DEF AnchorInv, GeoOK, DragKeepsAnchor, Geometry!DragKeepsAnchor,
          Geometry!CircleAnchored, Geometry!Sizings
  <2>4. CASE kKind = "line"
    <3>1. kGeo' \in Geometry!SizeLine(kMark.geo, kSizing, dw, dh)
      BY <2>1, <2>4 DEF Geometry!Sized
    <3>2. kGeo' \in Geometry!Rects /\ Geometry!LineAnchored(kGeo', kMark.geo)
      BY <3>1, <1>3, <1>4, LineSized
    <3> QED
      BY <1>1, <1>5, <1>6, <2>1, <2>4, <3>2
      DEF AnchorInv, GeoOK, DragKeepsAnchor, Geometry!DragKeepsAnchor,
          Geometry!LineAnchored, Geometry!Sizings
  <2> QED BY <2>2, <2>3, <2>4 DEF AnchorInv, GeoOK
<1>7. CASE kHold # "sizing"
  <2>1. CASE kKind = "line"
    <3>1. kGeo' = Geometry!Moved(kMark.geo, dw, dh) /\ UNCHANGED kPos
      BY <1>2, <1>7, <2>1 DEF dw, dh
    <3>2. kGeo' \in Geometry!Rects /\ kGeo'.w = kMark.geo.w /\ kGeo'.h = kMark.geo.h
      BY <3>1, <1>3, <1>4, RectMoved
    <3> QED
      BY <1>1, <1>5, <1>7, <2>1, <3>1, <3>2
      DEF AnchorInv, GeoOK, DragKeepsAnchor, Geometry!DragKeepsAnchor,
          Geometry!Sizings
  <2>2. CASE kKind # "line"
    <3>1. kPos' = Geometry!Moved(kMark.pos, dw, dh) /\ UNCHANGED kGeo
      BY <1>2, <1>7, <2>2 DEF dw, dh
    <3>2. kPos' \in Geometry!Points
      BY <3>1, <1>3, <1>4, PointMoved
    <3> QED
      BY <1>1, <1>5, <1>7, <2>2, <3>1, <3>2
      DEF AnchorInv, GeoOK, DragKeepsAnchor, Geometry!DragKeepsAnchor,
          Geometry!Sizings
  <2> QED BY <2>1, <2>2
<1> QED BY <1>6, <1>7

LEMMA HoverKeepsAnchor ==
    ASSUME AnchorInv, Geometry!Hover
    PROVE  AnchorInv'
<1>1. kHold = "none" /\ UNCHANGED <<kKind, kCentre, kGeo, kPos, kHold, kMark, kWay>>
  BY DEF Geometry!Hover
<1>2. kSizing' \in Geometry!Sizings(kKind) \cup {"off"}
  <2>1. PICK rx \in (-Tol)..(kGeo.w + Tol), ry \in (-Tol)..(kGeo.h + Tol) :
          kSizing' \in IF kKind = "box"
                     THEN {IF Geometry!InsideBox(rx, ry, kGeo.w, kGeo.h) THEN "off"
                           ELSE Geometry!HandleAt(rx, ry, kGeo.w, kGeo.h)}
                     ELSE Geometry!Sizings(kKind) \cup {"off"}
    BY DEF Geometry!Hover
  <2>2. Geometry!HandleAt(rx, ry, kGeo.w, kGeo.h)
          \in Geometry!BoxSizings \cup {kSizing}
    BY DEF Geometry!HandleAt, Geometry!BoxSizings
  <2> QED
    BY <2>1, <2>2 DEF AnchorInv, GeoOK, Geometry!Sizings
<1> QED
  BY <1>1, <1>2
  DEF AnchorInv, GeoOK, DragKeepsAnchor, Geometry!DragKeepsAnchor, Geometry!Sizings

\* However the mouse wanders with the button down, a resize keeps the centre or
\* the side, or the start, opposite to the handle, and a move keeps the size
\* (sizingCalcNewPos and movingCalcNewPos of the three classes).
THEOREM DragsKeepTheAnchor == Spec => []DragKeepsAnchor
<1>1. Init => AnchorInv
  <2>1. SUFFICES ASSUME Geometry!Init PROVE AnchorInv
    BY DEF Init
  <2>2. Side \in Int
    BY ConstantsAssumption DEF Geometry!TolAssumption
  <2> QED
    BY <2>1, <2>2
    DEF Geometry!Init, AnchorInv, GeoOK, DragKeepsAnchor,
        Geometry!DragKeepsAnchor, Geometry!Rects, Geometry!Points
<1>2. AnchorInv /\ [Next]_vars => AnchorInv'
  <2> SUFFICES ASSUME AnchorInv, [Next]_vars PROVE AnchorInv'
    OBVIOUS
  <2>1. CASE Geometry!Hover
    BY <2>1, HoverKeepsAnchor
  <2>2. CASE Geometry!PressSizing \/ Geometry!PressGrabbed
    BY <2>2, PressKeepsAnchor
  <2>3. CASE Geometry!Drag
    BY <2>3, DragKeepsAnchorStep
  <2>4. CASE Geometry!Release
    BY <2>4
    DEF Geometry!Release, AnchorInv, GeoOK, DragKeepsAnchor,
        Geometry!DragKeepsAnchor, Geometry!Sizings
  <2>5. CASE UNCHANGED geometryVars
    BY <2>5
    DEF geometryVars, AnchorInv, GeoOK, DragKeepsAnchor, Geometry!DragKeepsAnchor,
        Geometry!BoxAnchored, Geometry!CircleAnchored, Geometry!LineAnchored,
        Geometry!Sizings
  <2> QED BY <2>1, <2>2, <2>3, <2>4, <2>5 DEF Next, vars, Geometry!Next
<1>3. AnchorInv => DragKeepsAnchor
  BY DEF AnchorInv
<1> QED BY <1>1, <1>2, <1>3, PTL DEF Spec

-----------------------------------------------------------------------------
(* The tools of the control panel.                                         *)

\* Each tool is a record of its parts: with that, what it tells is inductive.
PointerInv ==
    /\ p \in [mode : {"enabled", "press", "disabled"}, empty : BOOLEAN,
              fixed : BOOLEAN, waiting : BOOLEAN,
              button : {"set", "waiting", "clear"}]
    /\ Panel!PointerViewTells

Crosses == [x : Int, nx : Int, seen : BOOLEAN, line : Int,
            drawn : BOOLEAN, text : Int, button : {"hide", "show"}]

TargetInv ==
    /\ pTarget \in Crosses
    /\ Panel!TargetAgrees

\* Numbers, modes and widgets are what they are; with that, what the widgets
\* show and the two flags of the scale is inductive.
Scaling == [min : Int, max : Int, range : Ranges, mode : {"global", "user", "box"},
            auto : BOOLEAN]

\* What ScaleAgrees says of a scale, and of the widgets when they are told of it.
ModesAgree(scale) == scale.mode = "user" => ~scale.auto

Told(scale, panel) ==
    /\ panel = [typing |-> panel.typing, text |-> panel.text, slider |-> panel.slider,
                combo |-> panel.combo, check |-> panel.check]
    /\ panel.combo = scale.mode /\ panel.slider = Panel!Sliders(scale)
    /\ panel.text \in [Panel!Entries -> Int]
    /\ \A e \in Panel!Entries : panel.typing # e => panel.text[e] = Panel!ValueOf(scale, e)

ScaleInv ==
    /\ pScale \in Scaling /\ ModesAgree(pScale)
    /\ Told(pScale, pShown)
    /\ pShown.typing \in Panel!Entries \cup {"none"}
    /\ pScale.auto => pShown.check

ToolsInv == PointerInv /\ TargetInv /\ ScaleInv

LEMMA PointerRests ==
    ASSUME PointerInv, UNCHANGED p
    PROVE  PointerInv'
BY DEF PointerInv, Panel!PointerViewTells

LEMMA TargetRests ==
    ASSUME TargetInv, UNCHANGED pTarget
    PROVE  TargetInv'
BY DEF TargetInv, Panel!TargetAgrees

LEMMA ScaleRests ==
    ASSUME ScaleInv, UNCHANGED <<pScale, pShown>>
    PROVE  ScaleInv'
BY DEF ScaleInv, ModesAgree, Told, Panel!ValueOf, Panel!Sliders

LEMMA PointerTells ==
    ASSUME ToolsInv, Panel!PointerNext
    PROVE  ToolsInv'
<1> USE DEF PointerInv, Panel!PointerViewTells, Panel!Pointer
<1>1. PointerInv
  BY DEF ToolsInv
<1>2. CASE \/ Panel!UpdateMouseCoords \/ Panel!NullMouseCoords
           \/ Panel!ViewLeftPressed
  BY <1>1, <1>2, TargetRests, ScaleRests
  DEF Panel!UpdateMouseCoords, Panel!NullMouseCoords, Panel!ViewLeftPressed,
      ToolsInv
<1>3. CASE Panel!ViewLeftClicked
  BY <1>1, <1>3, TargetRests, ScaleRests
  DEF Panel!ViewLeftClicked, Panel!SetPointerViewCen, ToolsInv
<1>4. ASSUME NEW mode \in {"enabled", "press", "disabled"},
             Panel!SetPointerViewMode(mode)
      PROVE  ToolsInv'
  BY <1>1, <1>4, TargetRests, ScaleRests DEF Panel!SetPointerViewMode, ToolsInv
<1>5. CASE Panel!PointerSetLoc
  BY <1>1, <1>5, TargetRests, ScaleRests DEF Panel!PointerSetLoc, ToolsInv
<1> QED BY <1>2, <1>3, <1>4, <1>5 DEF Panel!PointerNext

\* Whatever moves or hides the cross, setTarget comes after it.
LEMMA CrossSet ==
    ASSUME NEW t \in Crosses
    PROVE  LET set == Panel!SetTarget(t)
           IN  /\ set \in Crosses
               /\ set.line = set.x * set.nx /\ set.drawn = set.seen
               /\ set.x = t.x /\ set.seen = t.seen /\ set.text = t.text
               /\ set.button = t.button
<1> DEFINE set == Panel!SetTarget(t)
           line == t.x * t.nx
<1>1. line \in Int /\ t.seen \in BOOLEAN
  BY DEF Crosses
<1>2. set = [t EXCEPT !.line = line, !.drawn = t.seen]
  BY DEF Panel!SetTarget
<1> HIDE DEF set, line
<1>3. /\ set \in Crosses /\ set.line = line /\ set.drawn = t.seen
      /\ set.x = t.x /\ set.nx = t.nx /\ set.seen = t.seen
      /\ set.text = t.text /\ set.button = t.button
  BY <1>1, <1>2 DEF Crosses
<1> QED BY <1>3 DEF set, line

LEMMA TargetTells ==
    ASSUME ToolsInv, Panel!TargetNext
    PROVE  ToolsInv'
<1>1. pTarget \in Crosses /\ Panel!TargetAgrees
  BY DEF ToolsInv, TargetInv
<1>2. ASSUME NEW x \in -1 .. 3, Panel!TargetXc(x)
      PROVE  ToolsInv'
  <2> DEFINE at == Panel!SetTarget([pTarget EXCEPT !.x = Panel!Unit(x)])
  <2>1. Panel!Unit(x) \in Int
    BY DEF Panel!Unit
  <2>2. /\ at \in Crosses /\ at.x = Panel!Unit(x)
        /\ at.line = at.x * at.nx /\ at.drawn = at.seen
        /\ at.seen = pTarget.seen /\ at.button = pTarget.button
    <3>1. ASSUME NEW u \in Int
          PROVE  /\ [pTarget EXCEPT !.x = u] \in Crosses
                 /\ [pTarget EXCEPT !.x = u].x = u
                 /\ [pTarget EXCEPT !.x = u].seen = pTarget.seen
                 /\ [pTarget EXCEPT !.x = u].button = pTarget.button
      BY <1>1 DEF Crosses
    <3> QED BY <2>1, <3>1, CrossSet
  <2>3. pTarget' = [at EXCEPT !.text = Panel!Unit(x)]
    BY <1>2 DEF Panel!TargetXc, Panel!Target
  <2> HIDE DEF at
  <2>4. TargetInv'
    BY <1>1, <2>1, <2>2, <2>3 DEF TargetInv, Panel!TargetAgrees, Crosses
  <2> QED
    BY <1>2, <2>4, PointerRests, ScaleRests
    DEF Panel!TargetXc, Panel!Target, ToolsInv
<1>3. CASE Panel!TargetVisible
  <2> DEFINE at == Panel!SetTarget([pTarget EXCEPT !.seen = ~pTarget.seen])
  <2>1. /\ at \in Crosses /\ at.line = at.x * at.nx /\ at.drawn = at.seen
        /\ at.x = pTarget.x /\ at.text = pTarget.text
    <3>1. /\ [pTarget EXCEPT !.seen = ~pTarget.seen] \in Crosses
          /\ [pTarget EXCEPT !.seen = ~pTarget.seen].x = pTarget.x
          /\ [pTarget EXCEPT !.seen = ~pTarget.seen].text = pTarget.text
      BY <1>1 DEF Crosses
    <3> QED BY <3>1, CrossSet
  <2>2. pTarget' = [at EXCEPT !.button = IF at.seen THEN "hide" ELSE "show"]
    BY <1>3 DEF Panel!TargetVisible, Panel!Target
  <2> HIDE DEF at
  <2>3. TargetInv'
    BY <1>1, <2>1, <2>2 DEF TargetInv, Panel!TargetAgrees, Crosses
  <2> QED
    BY <1>3, <2>3, PointerRests, ScaleRests
    DEF Panel!TargetVisible, Panel!Target, ToolsInv
<1>4. ASSUME NEW n \in Sizes, Panel!PostSetImsize(n)
      PROVE  ToolsInv'
  <2>1. n \in Int
    BY ConstantsAssumption DEF Panel!PanelAssumption
  <2>2. /\ [pTarget EXCEPT !.nx = n] \in Crosses
        /\ [pTarget EXCEPT !.nx = n].x = pTarget.x
        /\ [pTarget EXCEPT !.nx = n].text = pTarget.text
        /\ [pTarget EXCEPT !.nx = n].seen = pTarget.seen
        /\ [pTarget EXCEPT !.nx = n].button = pTarget.button
    BY <1>1, <2>1 DEF Crosses
  <2>3. pTarget' = Panel!SetTarget([pTarget EXCEPT !.nx = n])
    BY <1>4 DEF Panel!PostSetImsize, Panel!Target
  <2>4. TargetInv'
    BY <1>1, <2>2, <2>3, CrossSet DEF TargetInv, Panel!TargetAgrees
  <2> QED
    BY <1>4, <2>4, PointerRests, ScaleRests
    DEF Panel!PostSetImsize, Panel!Target, ToolsInv
<1> QED BY <1>2, <1>3, <1>4 DEF Panel!TargetNext

LEMMA ValueInt ==
    ASSUME NEW scale \in Scaling, NEW e \in Panel!Entries
    PROVE  Panel!ValueOf(scale, e) \in Int
BY DEF Scaling, Panel!Entries, Panel!ValueOf

\* update_panel tells every widget without the focus of the scale.
LEMMA PanelUpdated ==
    ASSUME NEW scale, NEW panel, Told(scale, pShown),
           NEW other \in Scaling, panel = Panel!UpdatePanel(other)
    PROVE  /\ Told(other, panel)
           /\ panel.check = pShown.check /\ panel.typing = pShown.typing
<1> DEFINE text == [e \in Panel!Entries |-> IF pShown.typing = e THEN pShown.text[e]
                                            ELSE Panel!ValueOf(other, e)]
           sliders == Panel!Sliders(other)
<1>1. /\ panel = [typing |-> pShown.typing, text |-> text, slider |-> sliders,
                  combo |-> other.mode, check |-> pShown.check]
  BY DEF Told, Panel!UpdatePanel
<1>2. \A e \in Panel!Entries : Panel!ValueOf(other, e) \in Int
  BY ValueInt
<1>3. /\ text \in [Panel!Entries -> Int]
      /\ \A e \in Panel!Entries : pShown.typing # e => text[e] = Panel!ValueOf(other, e)
  BY <1>2 DEF Told
<1> HIDE DEF text
<1>4. sliders = Panel!Sliders(other)
  OBVIOUS
<1> HIDE DEF sliders
<1> QED BY <1>1, <1>3, <1>4 DEF Told

\* A recolored scale that is in order is shown.
LEMMA ScaledTells ==
    ASSUME ScaleInv, NEW scale \in Scaling, ModesAgree(scale),
           scale.auto => pScale.auto, Panel!Scaled(scale)
    PROVE  ScaleInv' /\ UNCHANGED <<p, pTarget>>
<1>1. pScale' = scale /\ pShown' = Panel!UpdatePanel(scale) /\ UNCHANGED <<p, pTarget>>
  BY DEF Panel!Scaled
<1>2. /\ Told(scale, pShown') /\ pShown'.check = pShown.check
      /\ pShown'.typing = pShown.typing
  BY <1>1, PanelUpdated DEF ScaleInv
<1>3. Told(pScale, pShown)'
  BY <1>1, <1>2 DEF Told, Panel!ValueOf, Panel!Sliders
<1> QED BY <1>1, <1>2, <1>3 DEF ScaleInv, ModesAgree

\* The data of a box are numbers.
LEMMA BoxIsInt ==
    ASSUME NEW range \in Ranges, NEW data \in Panel!BoxData(range) \cup {range}
    PROVE  data[1] \in Int /\ data[2] \in Int
BY DEF Ranges, Panel!BoxData

\* The scale moves to other numbers.
LEMMA ToScales ==
    ASSUME NEW scale \in Scaling, NEW data, data[1] \in Int, data[2] \in Int
    PROVE  /\ Panel!To(scale, data) \in Scaling
           /\ Panel!To(scale, data).mode = scale.mode
           /\ Panel!To(scale, data).auto = scale.auto
BY DEF Panel!To, Scaling

\* mtxL_colormode never leaves the mode of the user with automatic scaling.
LEMMA ColormodeAgrees ==
    ASSUME ScaleInv, NEW m \in {"global", "user", "box"},
           NEW scale \in Panel!Colormode(m)
    PROVE  /\ scale \in Scaling /\ scale.mode = m /\ ModesAgree(scale)
           /\ scale.auto => pScale.auto
<1>1. CASE m = "box"
  <2>1. PICK b \in Panel!BoxData(pScale.range) :
          scale = [Panel!To(pScale, b) EXCEPT !.mode = m]
    BY <1>1 DEF Panel!Colormode
  <2>2. pScale \in Scaling /\ pScale.range \in Ranges
    BY DEF ScaleInv, Scaling
  <2>3. /\ Panel!To(pScale, b) \in Scaling
        /\ Panel!To(pScale, b).auto = pScale.auto
    BY <2>2, BoxIsInt, ToScales
  <2> QED BY <1>1, <2>1, <2>3 DEF Scaling, ModesAgree
<1>2. CASE m # "box"
  <2>1. scale = [pScale EXCEPT !.mode = m, !.auto = pScale.auto /\ m # "user"]
    BY <1>2 DEF Panel!Colormode
  <2> DEFINE auto == pScale.auto /\ m # "user"
  <2>2. pScale \in Scaling /\ auto \in BOOLEAN /\ (m = "user" => ~auto)
        /\ (auto => pScale.auto)
    BY DEF ScaleInv, Scaling
  <2>3. scale = [pScale EXCEPT !.mode = m, !.auto = auto]
    BY <2>1
  <2> HIDE DEF auto
  <2> QED BY <2>2, <2>3 DEF Scaling, ModesAgree
<1> QED BY <1>1, <1>2

\* What the operator sets are numbers, in the mode of the user.
LEMMA UserScales ==
    ASSUME ScaleInv, NEW min \in Int, NEW max \in Int,
           NEW scale \in Panel!UserScale(min, max)
    PROVE  /\ scale \in Scaling /\ ModesAgree(scale)
           /\ scale.auto => pScale.auto
<1>1. PICK c \in Panel!Colormode("user") : scale = Panel!To(c, <<min, max>>)
  BY DEF Panel!UserScale
<1>2. c \in Scaling /\ ModesAgree(c) /\ (c.auto => pScale.auto)
  BY ColormodeAgrees
<1>3. /\ scale \in Scaling /\ scale.mode = c.mode /\ scale.auto = c.auto
  BY <1>1, <1>2, ToScales
<1> QED BY <1>2, <1>3 DEF ModesAgree

LEMMA SpreadInt ==
    ASSUME NEW bias \in Int, NEW contrast \in Int
    PROVE  /\ Panel!Spread(bias, contrast)[1] \in Int
           /\ Panel!Spread(bias, contrast)[2] \in Int
BY DEF Panel!Spread

LEMMA SetInt ==
    ASSUME ScaleInv, NEW e \in Panel!Entries, NEW v \in Int
    PROVE  Panel!Set(e, v)[1] \in Int /\ Panel!Set(e, v)[2] \in Int
<1>1. pScale.min \in Int /\ pScale.max \in Int
  BY DEF ScaleInv, Scaling
<1>2. Panel!Bias \in Int /\ Panel!Contrast \in Int
  BY <1>1 DEF Panel!Bias, Panel!Contrast
<1> QED BY <1>1, <1>2, SpreadInt DEF Panel!Set, Panel!Entries

LEMMA SlideTells ==
    ASSUME ScaleInv, NEW e \in Panel!Entries, NEW pos \in 0 .. Positions,
           Panel!Slide(e, pos)
    PROVE  ScaleInv' /\ UNCHANGED <<p, pTarget>>
<1>1. pScale.range[1] \in Int /\ pScale.range[2] \in Int
  BY DEF ScaleInv, Scaling, Ranges
<1>2. Panel!SlideTo(pos) \in Int
  BY <1>1, ConstantsAssumption DEF Panel!SlideTo, Panel!PanelAssumption
<1> DEFINE v == CASE e \in {"min", "max"} -> Panel!SlideTo(pos)
                  [] e = "bias"     -> 2 * Panel!SlideTo(pos)
                  [] e = "contrast" -> Panel!SlideTo(pos) - pScale.range[1]
<1>3. v \in Int
  BY <1>1, <1>2 DEF Panel!Entries
<1>4. Panel!SetScale(Panel!Set(e, v)[1], Panel!Set(e, v)[2])
  BY DEF Panel!Slide
<1> HIDE DEF v
<1>5. PICK scale \in Panel!UserScale(Panel!Set(e, v)[1], Panel!Set(e, v)[2]) :
         Panel!Scaled(scale)
  BY <1>4 DEF Panel!SetScale
<1> QED BY <1>3, <1>5, SetInt, UserScales, ScaledTells

\* An entry that keeps the focus keeps its text; one that loses it shows the scale.
LEMMA EntryTells ==
    ASSUME ScaleInv, NEW leaves \in BOOLEAN, Panel!EditingFinished(leaves)
    PROVE  ScaleInv' /\ UNCHANGED <<p, pTarget>>
<1> DEFINE at == pShown.typing
<1>1. at \in Panel!Entries /\ pShown.text[at] \in Int
  BY DEF ScaleInv, Told, Panel!EditingFinished, Panel!Entries
<1>a. PICK v \in Values \cup {pShown.text[at]} :
         \E scale \in Panel!UserScale(Panel!Set(at, v)[1], Panel!Set(at, v)[2]) :
            /\ pScale' = scale
            /\ pShown' = IF leaves
                         THEN [Panel!UpdatePanel(scale) EXCEPT !.typing = "none",
                                                             !.text = Panel!Texts(scale)]
                         ELSE [Panel!UpdatePanel(scale) EXCEPT !.text[at] = v]
  BY DEF Panel!EditingFinished
<1>2. PICK scale \in Panel!UserScale(Panel!Set(at, v)[1], Panel!Set(at, v)[2]) :
         /\ pScale' = scale
         /\ pShown' = IF leaves
                      THEN [Panel!UpdatePanel(scale) EXCEPT !.typing = "none",
                                                          !.text = Panel!Texts(scale)]
                      ELSE [Panel!UpdatePanel(scale) EXCEPT !.text[at] = v]
  BY <1>a
<1>3. v \in Int
  BY <1>1, ConstantsAssumption DEF Panel!PanelAssumption
<1> HIDE DEF at
<1>4. scale \in Scaling /\ ModesAgree(scale) /\ (scale.auto => pScale.auto)
  BY <1>1, <1>2, <1>3, SetInt, UserScales
<1> DEFINE panel == Panel!UpdatePanel(scale)
<1>5. Told(scale, panel) /\ panel.check = pShown.check /\ panel.typing = at
  BY <1>4, PanelUpdated DEF ScaleInv, at
<1>6. pShown' = IF leaves
                THEN [panel EXCEPT !.typing = "none", !.text = Panel!Texts(scale)]
                ELSE [panel EXCEPT !.text[at] = v]
  BY <1>2
<1> HIDE DEF panel
<1>7. /\ Told(scale, pShown') /\ pShown'.check = pShown.check
      /\ pShown'.typing \in Panel!Entries \cup {"none"}
  <2>1. CASE leaves
    <3> DEFINE text == Panel!Texts(scale)
    <3>1. text \in [Panel!Entries -> Int]
          /\ \A e \in Panel!Entries : text[e] = Panel!ValueOf(scale, e)
      BY <1>4, ValueInt DEF Panel!Texts
    <3>2. pShown' = [panel EXCEPT !.typing = "none", !.text = text]
      BY <1>6, <2>1
    <3> HIDE DEF text
    <3> QED BY <1>5, <3>1, <3>2 DEF Told
  <2>2. CASE ~leaves
    <3> DEFINE text == [panel.text EXCEPT ![at] = v]
    <3>1. text \in [Panel!Entries -> Int]
          /\ \A e \in Panel!Entries : at # e => text[e] = panel.text[e]
      BY <1>1, <1>3, <1>5 DEF Told
    <3>2. pShown' = [panel EXCEPT !.text = text]
      BY <1>6, <2>2
    <3> HIDE DEF text
    <3> QED BY <1>1, <1>5, <3>1, <3>2 DEF Told
  <2> QED BY <2>1, <2>2
<1>8. Told(pScale, pShown)'
  BY <1>2, <1>7 DEF Told, Panel!ValueOf, Panel!Sliders
<1> QED
  BY <1>2, <1>4, <1>7, <1>8 DEF ScaleInv, ModesAgree, Panel!EditingFinished

\* The check box is set with automatic scaling, and the mode of the user left.
LEMMA AutoTells ==
    ASSUME ScaleInv, NEW as \in BOOLEAN, Panel!AutoScale(as)
    PROVE  ScaleInv' /\ UNCHANGED <<p, pTarget>>
<1> DEFINE on == as /\ ~pScale.auto
           mode == IF on /\ pScale.mode = "user" THEN "global" ELSE pScale.mode
           scale == [pScale EXCEPT !.auto = as, !.mode = mode]
           panel == IF on THEN Panel!UpdatePanel(scale) ELSE pShown
<1>1. /\ pScale' = scale /\ pShown' = [panel EXCEPT !.check = as]
      /\ UNCHANGED <<p, pTarget>>
  BY DEF Panel!AutoScale
<1>2. /\ scale \in Scaling /\ scale.auto = as /\ scale.mode = mode
      /\ scale.min = pScale.min /\ scale.max = pScale.max /\ scale.range = pScale.range
  BY DEF ScaleInv, Scaling
<1>3. ModesAgree(scale)
  <2>1. (mode = "user" => ~as) /\ scale.auto = as /\ scale.mode = mode
    <3>1. ScaleInv /\ (pScale.mode = "user" => ~pScale.auto)
      BY DEF ScaleInv, ModesAgree
    <3> HIDE DEF scale
    <3> QED BY <1>2, <3>1
  <2> HIDE DEF mode, scale
  <2> QED BY <2>1 DEF ModesAgree
<1>4. ~on => mode = pScale.mode
  OBVIOUS
<1> HIDE DEF mode, scale
<1>5. Told(scale, panel) /\ panel.typing = pShown.typing
  <2>1. CASE on
    BY <1>2, <2>1, PanelUpdated DEF ScaleInv
  <2>2. CASE ~on
    BY <1>2, <1>4, <2>2 DEF ScaleInv, Told, Panel!ValueOf, Panel!Sliders
  <2> QED BY <2>1, <2>2
<1> HIDE DEF panel
<1>6. Told(scale, pShown') /\ pShown'.check = as /\ pShown'.typing = pShown.typing
  BY <1>1, <1>5 DEF Told
<1>7. Told(pScale, pShown)'
  BY <1>1, <1>6 DEF Told, Panel!ValueOf, Panel!Sliders
<1> QED BY <1>1, <1>2, <1>3, <1>6, <1>7 DEF ScaleInv, ModesAgree

\* A frame follows or not; the modes and the flag it leaves still agree.
LEMMA FrameTells ==
    ASSUME ScaleInv, NEW range \in Ranges, NEW resized \in BOOLEAN,
           Panel!Frame(range, resized)
    PROVE  ScaleInv' /\ UNCHANGED <<p, pTarget>>
<1>1. PICK mode \in IF resized THEN {"global"} \cup ({pScale.mode} \ {"box"})
                    ELSE {pScale.mode} :
         LET s == [pScale EXCEPT !.range = range, !.mode = mode]
         IN  \/ \E data \in Panel!BoxData(range) \cup {range} : Panel!Scaled(Panel!To(s, data))
             \/ Panel!Scaled(s)
  BY Zenon DEF Panel!Frame
<1> DEFINE s == [pScale EXCEPT !.range = range, !.mode = mode]
<1>2. s \in Scaling /\ ModesAgree(s) /\ s.auto = pScale.auto
  BY <1>1 DEF ScaleInv, Scaling, ModesAgree
<1>3. \/ \E data \in Panel!BoxData(range) \cup {range} : Panel!Scaled(Panel!To(s, data))
      \/ Panel!Scaled(s)
  BY <1>1
<1> HIDE DEF s
<1>4. CASE Panel!Scaled(s)
  BY <1>2, <1>4, ScaledTells
<1>5. ASSUME NEW data \in Panel!BoxData(range) \cup {range}, Panel!Scaled(Panel!To(s, data))
      PROVE  ScaleInv' /\ UNCHANGED <<p, pTarget>>
  <2>1. /\ Panel!To(s, data) \in Scaling
        /\ Panel!To(s, data).mode = s.mode /\ Panel!To(s, data).auto = s.auto
    BY <1>2, BoxIsInt, ToScales
  <2> QED BY <1>2, <1>5, <2>1, ScaledTells DEF ModesAgree
<1> QED BY <1>3, <1>4, <1>5

LEMMA ReStretchTells ==
    ASSUME ScaleInv, Panel!ReStretch
    PROVE  ScaleInv' /\ UNCHANGED <<p, pTarget>>
<1> DEFINE mode == IF pScale.mode = "user" THEN "global" ELSE pScale.mode
<1>1. PICK data \in Panel!BoxData(pScale.range) \cup {pScale.range} :
         Panel!Scaled([Panel!To(pScale, data) EXCEPT !.mode = mode])
  BY DEF Panel!ReStretch
<1>2. pScale \in Scaling /\ pScale.range \in Ranges
      /\ mode \in {"global", "box"}
  BY DEF ScaleInv, Scaling
<1> HIDE DEF mode
<1>3. Panel!To(pScale, data) \in Scaling /\ Panel!To(pScale, data).auto = pScale.auto
  BY <1>2, BoxIsInt, ToScales
<1> DEFINE s == [Panel!To(pScale, data) EXCEPT !.mode = mode]
<1>4. s \in Scaling /\ ModesAgree(s) /\ s.auto = pScale.auto
  BY <1>2, <1>3 DEF Scaling, ModesAgree
<1>5. Panel!Scaled(s)
  BY <1>1
<1> HIDE DEF s
<1> QED BY <1>4, <1>5, ScaledTells

LEMMA ScaleTells ==
    ASSUME ToolsInv, Panel!ScaleNext
    PROVE  ToolsInv'
<1>1. ScaleInv
  BY DEF ToolsInv
<1>2. ASSUME NEW e \in Panel!Entries, Panel!Type(e)
      PROVE  ScaleInv' /\ UNCHANGED <<p, pTarget>>
  <2>1. pShown' = [pShown EXCEPT !.typing = e] /\ UNCHANGED <<p, pTarget, pScale>>
        /\ pShown.typing = "none"
    BY <1>2 DEF Panel!Type
  <2>2. /\ Told(pScale, pShown') /\ pShown'.check = pShown.check
        /\ pShown'.typing = e
    BY <1>1, <2>1 DEF ScaleInv, Told, Panel!Entries
  <2>3. Told(pScale, pShown)'
    BY <2>1, <2>2 DEF Told, Panel!ValueOf, Panel!Sliders
  <2> QED BY <1>1, <2>1, <2>2, <2>3 DEF ScaleInv, ModesAgree
<1>3. ASSUME NEW m \in {"global", "user", "box"}, Panel!ChooseColormode(m)
      PROVE  ScaleInv' /\ UNCHANGED <<p, pTarget>>
  BY <1>1, <1>3, ColormodeAgrees, ScaledTells DEF Panel!ChooseColormode
<1>4. ASSUME NEW bias \in Values, NEW contrast \in Values,
             Panel!RightDrag(bias, contrast)
      PROVE  ScaleInv' /\ UNCHANGED <<p, pTarget>>
  <2> DEFINE data == Panel!Spread(bias, contrast)
  <2>1. data[1] \in Int /\ data[2] \in Int
    BY ConstantsAssumption, SpreadInt DEF Panel!PanelAssumption
  <2>2. Panel!Scaled(Panel!To(pScale, data))
    BY <1>4 DEF Panel!RightDrag
  <2> HIDE DEF data
  <2>3. /\ Panel!To(pScale, data) \in Scaling
        /\ Panel!To(pScale, data).mode = pScale.mode
        /\ Panel!To(pScale, data).auto = pScale.auto
    BY <1>1, <2>1, ToScales DEF ScaleInv
  <2> QED BY <1>1, <2>2, <2>3, ScaledTells DEF ScaleInv, ModesAgree
<1>5. ScaleInv' /\ UNCHANGED <<p, pTarget>>
  BY <1>1, <1>2, <1>3, <1>4, SlideTells, EntryTells, AutoTells, FrameTells, ReStretchTells
  DEF Panel!ScaleNext
<1> QED BY <1>5, PointerRests, TargetRests DEF ToolsInv

\* The tools of the panel say what they do: the button of the pointer view, the
\* target cross, and the widgets of the scale; the mode of the user never goes
\* with automatic scaling (rtimvControlPanel, m_pointerView*, setTarget,
\* update_panel, mtxL_colormode, mtxUL_autoScale).
THEOREM ToolsTell == Spec => []PanelTells
<1>1. Init => ToolsInv
  <2>1. SUFFICES ASSUME Panel!Init PROVE ToolsInv
    BY DEF Init
  <2>2. PointerInv
    BY <2>1 DEF Panel!Init, PointerInv, Panel!PointerViewTells
  <2>3. TargetInv
    BY <2>1 DEF Panel!Init, TargetInv, Panel!TargetAgrees, Crosses
  <2>4. ScaleInv
    <3>1. PICK range \in Ranges, auto \in BOOLEAN :
            /\ pScale = [min |-> range[1], max |-> range[2], range |-> range,
                         mode |-> "global", auto |-> auto]
            /\ pShown = [typing |-> "none", text |-> Panel!Texts(pScale),
                         slider |-> Panel!Sliders(pScale), combo |-> "global",
                         check |-> auto]
      BY <2>1 DEF Panel!Init
    <3>2. pScale \in Scaling
      BY <3>1, BoxIsInt DEF Scaling
    <3>3. \A e \in Panel!Entries : Panel!ValueOf(pScale, e) \in Int
      BY <3>2, ValueInt
    <3>4. pShown.text \in [Panel!Entries -> Int]
          /\ \A e \in Panel!Entries : pShown.text[e] = Panel!ValueOf(pScale, e)
      BY <3>1, <3>3 DEF Panel!Texts
    <3>5. Told(pScale, pShown)
      BY <3>1, <3>4 DEF Told
    <3> QED BY <3>1, <3>2, <3>5 DEF ScaleInv, ModesAgree
  <2> QED BY <2>2, <2>3, <2>4 DEF ToolsInv
<1>2. ToolsInv /\ [Next]_vars => ToolsInv'
  <2> SUFFICES ASSUME ToolsInv, [Next]_vars PROVE ToolsInv'
    OBVIOUS
  <2>1. CASE Panel!PointerNext \/ Panel!TargetNext \/ Panel!ScaleNext
    BY <2>1, PointerTells, TargetTells, ScaleTells
  <2>2. CASE UNCHANGED panelVars
    BY <2>2, PointerRests, TargetRests, ScaleRests DEF panelVars, ToolsInv
  <2> QED BY <2>1, <2>2 DEF Next, vars
<1>3. ToolsInv => PanelTells
  BY DEF ToolsInv, PointerInv, TargetInv, ScaleInv, ModesAgree, Told, PanelTells,
     Panel!PanelTells, Panel!ScaleAgrees
<1> QED BY <1>1, <1>2, <1>3, PTL DEF Spec

-----------------------------------------------------------------------------
(* The colour mode tells whether the box is shown, and only a box that exists *)
(* is shown or asked for: without the one a change of the image size, which   *)
(* resets the mode when there is a box, could leave the mode behind, and      *)
(* without the other the timer could set the mode of a box that is gone.      *)
Boxes == [mode : Modes, due : BOOLEAN, own : BOOLEAN]
Kinds == {"none", "stats", "color", "shape", "line"}
BoxExists == Colour \in uShown \/ uBox.due => uKind[Colour] # "none"
BoxInv ==
    /\ uKind \in [Items!Items -> Kinds]
    /\ uBox \in Boxes
    /\ ~uRemote => uBox.own
    /\ BoxExists
    /\ ScaleBoxShown

LEMMA BoxIsItem == Colour \in Items!Items
BY DEF Items!Items

(* ColorBoxMoved may ask for the pixels of the box there is, and changes no mode. *)
LEMMA MoveKeepsMode ==
    ASSUME NEW i \in Items!Items, BoxInv, Items!Moves(i)
    PROVE  /\ uBox' \in Boxes
           /\ uBox'.mode = uBox.mode /\ uBox'.own = uBox.own
           /\ uBox'.due => uBox.due \/ uKind[Colour] # "none"
  BY DEF BoxInv, Boxes, Items!Moves, Items!ColorBoxMoved, Items!Exists

(* Whatever shows and hides nothing, and at most moves the box, keeps BoxInv. *)
LEMMA RestKeepsBox ==
    ASSUME BoxInv, UNCHANGED <<uKind, uShown, uRemote>>,
           UNCHANGED uBox \/ \E i \in Items!Items : Items!Moves(i)
    PROVE  BoxInv'
  <1>1. CASE UNCHANGED uBox
    BY <1>1 DEF BoxInv, BoxExists, ScaleBoxShown, Items!ScaleBoxShown
  <1>2. CASE \E i \in Items!Items : Items!Moves(i)
    BY <1>2, MoveKeepsMode DEF BoxInv, BoxExists, ScaleBoxShown, Items!ScaleBoxShown
  <1>3. QED
    BY <1>1, <1>2

(* The events of mouse, keyboard and timers neither show nor hide an item. *)
LEMMA InputKeepsBox ==
    ASSUME BoxInv, UNCHANGED uRemote,
           \/ \E i \in Items!Items :
                 \/ Items!HoverEdge(i) \/ Items!HoverInside(i)
                 \/ \E onEdge \in BOOLEAN : Items!Press(i, onEdge)
                 \/ Items!Drag(i) \/ Items!Release(i)
                 \/ Items!CursorTimerOut(i) \/ Items!SelectionTimerOut(i)
           \/ Items!HoverLeave \/ Items!FocusLost \/ Items!PressNothing
    PROVE  BoxInv'
  <1>1. UNCHANGED <<uKind, uShown>>
    BY DEF Items!HoverEdge, Items!HoverInside, Items!Press, Items!Drag, Items!Release, Items!CursorTimerOut,
           Items!SelectionTimerOut, Items!HoverLeave, Items!FocusLost, Items!PressNothing
  <1>2. UNCHANGED uBox \/ \E i \in Items!Items : Items!Moves(i)
    BY DEF Items!HoverEdge, Items!HoverInside, Items!Press, Items!Drag, Items!Release, Items!CursorTimerOut,
           Items!SelectionTimerOut, Items!HoverLeave, Items!FocusLost, Items!PressNothing, Items!Moves
  <1>3. QED
    BY <1>1, <1>2, RestKeepsBox

(* Another region comes and goes without the colour box. *)
LEMMA OthersKeepBox ==
    ASSUME BoxInv, UNCHANGED uRemote,
           \/ \E i \in Items!Items : Items!AddUserItem(i)
           \/ Items!DeleteUserItem \/ Items!StatsBoxRemove
           \/ Items!DoHideStatsBox \/ Items!DoLaunchStatsBox
    PROVE  BoxInv'
  <1>1. Colour # Stats /\ Colour \notin Extra /\ Colour \in Items!Items
    BY ConstantsAssumption DEF Items!ItemsDiffer, Items!Items
  <1>2. /\ UNCHANGED uBox
        /\ Colour \in uShown' <=> Colour \in uShown
        /\ uKind'[Colour] = uKind[Colour]
        /\ uKind' \in [Items!Items -> Kinds]
    BY <1>1 DEF BoxInv, Kinds, Items!AddUserItem, Items!DeleteUserItem, Items!StatsBoxRemove, Items!DoHideStatsBox,
           Items!DoLaunchStatsBox, Items!TakeAway, Items!LetGo, Items!HideItem, Items!ShowItem
  <1>3. QED
    BY <1>2 DEF BoxInv, BoxExists, ScaleBoxShown, Items!ScaleBoxShown

(* What is left to show of a step of the box: it is there when it is shown or  *)
(* asked for, the local window is always its own, and one that is agrees.      *)
LEMMA BoxStepKeepsBox ==
    ASSUME BoxInv, UNCHANGED uRemote, uBox' \in Boxes,
           uKind' \in [Items!Items -> Kinds],
           Colour \in uShown' \/ uBox'.due => uKind'[Colour] # "none",
           ~uRemote => uBox'.own,
           uBox'.own => (uBox'.mode = "box" <=> Colour \in uShown')
    PROVE  BoxInv'
BY DEF BoxInv, BoxExists, ScaleBoxShown, Items!ScaleBoxShown

(* Who shows the box chooses its colour mode; a client whose timer runs out   *)
(* touches neither.                                                            *)
LEMMA BoxShownKeepsBox ==
    ASSUME BoxInv, UNCHANGED uRemote,
           Items!ToggleColorBoxOn \/ Items!DispatchColorBoxRequest
    PROVE  BoxInv'
  <1>1. ASSUME Items!ShowItem(Colour, "color")
        PROVE  /\ Colour \in uShown' /\ uKind'[Colour] = "color"
               /\ uKind' \in [Items!Items -> Kinds]
    BY <1>1, BoxIsItem DEF BoxInv, Kinds, Items!ShowItem
  <1>2. CASE Items!ToggleColorBoxOn
    <2>1. uBox' \in Boxes /\ uBox'.mode = "box" /\ uBox'.own
      BY <1>2, ConstantsAssumption
      DEF BoxInv, Boxes, Items!ToggleColorBoxOn, Items!Carried, Items!ItemsDiffer
    <2> QED
      BY <1>1, <1>2, <2>1, BoxStepKeepsBox DEF Items!ToggleColorBoxOn
  <1>3. CASE Items!DispatchColorBoxRequest /\ uRemote
    <2>1. /\ uBox' \in Boxes /\ ~uBox'.due
          /\ uBox'.mode = uBox.mode /\ uBox'.own = uBox.own
      BY <1>3 DEF BoxInv, Boxes, Items!DispatchColorBoxRequest
    <2>2. UNCHANGED <<uKind, uShown>>
      BY <1>3 DEF Items!DispatchColorBoxRequest
    <2> QED
      BY <2>1, <2>2 DEF BoxInv, BoxExists, ScaleBoxShown, Items!ScaleBoxShown
  <1>4. CASE Items!DispatchColorBoxRequest /\ ~uRemote
    <2>1. Items!Exists(Colour)
      BY <1>4, BoxIsItem
      DEF BoxInv, BoxExists, Items!DispatchColorBoxRequest, Items!Exists
    <2>2. Items!ShowItem(Colour, "color")
      BY <1>4, <2>1 DEF Items!DispatchColorBoxRequest
    <2>3. uBox' \in Boxes /\ uBox'.mode = "box" /\ uBox'.own
      BY <1>4, ConstantsAssumption
      DEF BoxInv, Boxes, Items!DispatchColorBoxRequest, Items!ItemsDiffer
    <2> QED BY <1>1, <2>2, <2>3, BoxStepKeepsBox
  <1> QED
    BY <1>2, <1>3, <1>4

(* A mode that is not that of the box is carried out, or refused by a client. *)
LEMMA ModeChosen ==
    ASSUME BoxInv, NEW box \in Items!Colormode("global")
    PROVE  /\ box \in Boxes /\ box.due = uBox.due /\ (~uRemote => box.own)
           /\ box.own => box.mode # "box"
<1>1. uBox \in Boxes /\ "global" \in Modes
  BY ConstantsAssumption DEF BoxInv, Items!ItemsDiffer
<1>2. CASE box = [uBox EXCEPT !.mode = "global", !.own = TRUE]
  BY <1>1, <1>2 DEF Boxes
<1>3. CASE uRemote /\ box = [uBox EXCEPT !.own = FALSE]
  BY <1>1, <1>3 DEF Boxes
<1> QED BY <1>2, <1>3 DEF Items!Colormode, Items!Carried

(* Hiding or removing the box goes with another colour mode, or with a choice *)
(* that the client refuses.                                                    *)
LEMMA BoxHiddenKeepsBox ==
    ASSUME BoxInv, UNCHANGED uRemote,
           \/ Items!ToggleColorBoxOff \/ Items!ColorBoxRemove
           \/ \E m \in Modes : Items!ChooseColormode(m)
    PROVE  BoxInv'
  <1>1. CASE Items!ToggleColorBoxOff
    <2>1. Colour \notin uShown' /\ uKind' = uKind
      BY <1>1 DEF Items!ToggleColorBoxOff, Items!HideItem, Items!LetGo
    <2>2. uBox' \in Items!Colormode("global") /\ uKind[Colour] # "none"
      BY <1>1 DEF Items!ToggleColorBoxOff, Items!Exists
    <2>3. uKind' \in [Items!Items -> Kinds]
      BY <2>1 DEF BoxInv
    <2> QED BY <2>1, <2>2, <2>3, ModeChosen, BoxStepKeepsBox
  <1>2. CASE Items!ColorBoxRemove
    <2>1. Colour \notin uShown' /\ uKind' \in [Items!Items -> Kinds]
      BY <1>2 DEF BoxInv, Kinds, Items!ColorBoxRemove, Items!TakeAway, Items!LetGo
    <2>2. PICK box \in Items!Colormode("global") : uBox' = [box EXCEPT !.due = FALSE]
      BY <1>2 DEF Items!ColorBoxRemove
    <2>3. /\ uBox' \in Boxes /\ ~uBox'.due
          /\ uBox'.own = box.own /\ uBox'.mode = box.mode
      BY <2>2, ModeChosen DEF Boxes
    <2> QED BY <2>1, <2>2, <2>3, ModeChosen, BoxStepKeepsBox
  <1>3. ASSUME NEW m \in Modes, Items!ChooseColormode(m)
        PROVE  BoxInv'
    <2>1. Colour \notin uShown' /\ uKind' = uKind
      BY <1>3 DEF Items!ChooseColormode, Items!HideItem, Items!LetGo
    <2>2. /\ uBox' \in Boxes /\ uBox'.mode # "box" /\ uBox'.own
          /\ uBox'.due = uBox.due
      BY <1>3 DEF BoxInv, Boxes, Items!ChooseColormode, Items!Carried
    <2>3. /\ uKind' \in [Items!Items -> Kinds]
          /\ Colour \in uShown' \/ uBox'.due => uKind'[Colour] # "none"
      BY <2>1, <2>2 DEF BoxInv, BoxExists
    <2> QED BY <2>1, <2>2, <2>3, BoxStepKeepsBox
  <1> QED
    BY <1>1, <1>2, <1>3

(* A change of the image size takes the box and resets the mode together; the *)
(* client then takes the mode of the reply.                                    *)
LEMMA ResizeKeepsBox ==
    ASSUME BoxInv, UNCHANGED uRemote, Items!PostSetImsize
    PROVE  BoxInv'
  <1>1. Colour \notin uShown' /\ uKind' \in [Items!Items -> Kinds]
    BY BoxIsItem DEF BoxInv, Kinds, Items!PostSetImsize, Items!TakeAway, Items!LetGo
  <1>2. ASSUME NEW m \in Modes
        PROVE  LET box == Items!AfterResize(m)
               IN  /\ box \in Boxes /\ box.own = uBox.own /\ ~box.due
                   /\ box.mode = "box" => \/ m = "box"
                                          \/ uBox.mode = "box" /\ ~Items!Exists(Colour)
    BY BoxIsItem DEF BoxInv, BoxExists, Boxes, Items!AfterResize, Items!Exists
  <1>3. CASE uRemote
    <2>1. PICK m \in Modes : uBox' = [Items!AfterResize(m) EXCEPT !.own = FALSE]
      BY <1>3 DEF Items!PostSetImsize
    <2>2. uBox' \in Boxes /\ ~uBox'.due /\ ~uBox'.own
      BY <1>2, <2>1 DEF Boxes
    <2> QED BY <1>1, <1>3, <2>2, BoxStepKeepsBox
  <1>4. CASE ~uRemote
    <2>1. uBox' = Items!AfterResize("global") /\ "global" \in Modes
      BY <1>4, ConstantsAssumption DEF Items!PostSetImsize, Items!ItemsDiffer
    <2>2. ~Items!Exists(Colour) => uBox.mode # "box"
      BY <1>4, BoxIsItem
      DEF BoxInv, BoxExists, ScaleBoxShown, Items!ScaleBoxShown, Items!Exists
    <2>3. uBox' \in Boxes /\ ~uBox'.due /\ uBox'.own = uBox.own /\ uBox'.mode # "box"
      BY <1>2, <2>1, <2>2
    <2> QED BY <1>1, <1>4, <2>3, BoxStepKeepsBox DEF BoxInv
  <1> QED
    BY <1>3, <1>4

(* After a reply the mode is not the window's own. *)
LEMMA ReplyKeepsBox ==
    ASSUME BoxInv, UNCHANGED uRemote, Items!ImageReceived
    PROVE  BoxInv'
  <1>1. UNCHANGED <<uKind, uShown>> /\ uRemote
    BY DEF Items!ImageReceived
  <1>2. uBox' \in Boxes /\ uBox'.due = uBox.due /\ ~uBox'.own
    BY DEF BoxInv, Boxes, Items!ImageReceived
  <1> QED
    BY <1>1, <1>2 DEF BoxInv, BoxExists, ScaleBoxShown, Items!ScaleBoxShown

-----------------------------------------------------------------------------
(* In the local program the colour mode is that of the box exactly while the  *)
(* box is on the screen, whatever regions there are and however mouse, keys,  *)
(* timers, panel and changes of the image interleave; in the window of a      *)
(* client it is from a choice it carried out to the next reply or choice it   *)
(* refused (mtxL_postColormode, toggleColorBoxOff, dispatchColorBoxRequest,   *)
(* colorBoxRemove, mtxL_postSetImsize and ImageReceived).                     *)
THEOREM ScaleBoxShownAlways == Spec => []ScaleBoxShown
  <1>1. Init => BoxInv
    BY ConstantsAssumption
    DEF Init, Items!Init, Items!Items, Items!ItemsDiffer, BoxInv, Boxes, Kinds, BoxExists,
        ScaleBoxShown, Items!ScaleBoxShown
  <1>2. BoxInv /\ [Next]_vars => BoxInv'
    <2> SUFFICES ASSUME BoxInv, [Next]_vars PROVE BoxInv'
      OBVIOUS
    <2>1. CASE UNCHANGED itemsVars
      BY <2>1, RestKeepsBox DEF itemsVars
    <2>2. CASE Items!Next
      BY <2>2, InputKeepsBox, OthersKeepBox, BoxShownKeepsBox, BoxHiddenKeepsBox,
         ResizeKeepsBox, ReplyKeepsBox DEF Items!Next, Items!Steps
    <2>3. QED
      BY <2>1, <2>2 DEF Next, vars
  <1>3. BoxInv => ScaleBoxShown
    BY DEF BoxInv
  <1>4. QED
    BY <1>1, <1>2, <1>3, PTL DEF Spec

-----------------------------------------------------------------------------
(* The readout of the statistics box.                                      *)

Texts == [shown : BOOLEAN, of : Statistics!Places]
Cleared == [shown |-> FALSE, of |-> 0]

\* A local program has no server that calls or answers.
LocalQuiet ==
    ~bRemote => /\ bCall = Statistics!NoCall
                /\ bImgReply = <<"none", 0>> /\ bEvent = <<"none", 0>>

\* In a local program the statistics are calculated exactly while the box is
\* shown, the rectangle they are asked for follows the box once there is an
\* image, and with no request pending the numbers are of where the box is or
\* none: what a step can find when it shows the text.
LocalBox ==
    ~bRemote =>
        /\ bBox = "shown" <=> bBase.on
        /\ bBox # "shown" => bBase.of = 0 /\ bText = Cleared
        /\ bDialog = "open" => bBox = "shown"
        /\ bDue => bImage /\ bBox # "none"
        /\ bImage /\ bBox = "shown" => bBase.at = bRect
        /\ ~bImage => bBase.of = 0 /\ bText.of = 0
        /\ bMode = "dialog" => bText.of = 0
        /\ ~bDue /\ bBox = "shown" => bBase.of \in {0, bRect} /\ bText.of \in {0, bRect}

\* A box on the screen has the button of the panel pressed.
ButtonKnows == bBox = "shown" => bButton

ReadInv ==
    /\ Statistics!TypeOK /\ Statistics!ShownInMode
    /\ LocalQuiet /\ LocalBox /\ ButtonKnows

LEMMA ClearedIs ==
    0 \in Statistics!Places /\ Cleared \in Texts /\ Cleared.shown = FALSE /\ Cleared.of = 0
<1>1. 0 \in Statistics!Places
  BY ConstantsAssumption DEF Statistics!Places, Statistics!MaxRectsAssumption
<1> QED BY <1>1 DEF Texts, Cleared

\* What the overlay and its visibility make of a text.
LEMMA OverlayIs ==
    ASSUME bText \in Texts, NEW box, NEW mode, NEW of \in Statistics!Places
    PROVE  /\ Statistics!UpdateOverlay(box, mode, of) \in Texts
           /\ Statistics!UpdateOverlay(box, mode, of).shown
                => mode = "overlay" /\ box = "shown"
           /\ Statistics!UpdateOverlay(box, mode, of).of =
                IF mode = "overlay" /\ box # "none" THEN of ELSE bText.of
BY DEF Statistics!UpdateOverlay, Texts

LEMMA VisibilityIs ==
    ASSUME NEW text \in Texts, NEW box, NEW mode, NEW on
    PROVE  LET seen == Statistics!Visibility(text, box, mode, on)
           IN  /\ seen \in Texts
               /\ seen.shown => mode = "overlay" /\ box = "shown"
               /\ ~(mode = "overlay" /\ box = "shown" /\ on) => seen = Cleared
               /\ seen.of \in {0, text.of}
<1>1. Cleared \in Texts /\ Cleared.shown = FALSE /\ Cleared.of = 0
  BY ClearedIs
<1>2. [text EXCEPT !.shown = TRUE] \in Texts /\ [text EXCEPT !.shown = TRUE].of = text.of
  BY DEF Texts
<1>3. CASE mode = "overlay" /\ box = "shown" /\ on
  BY <1>2, <1>3 DEF Statistics!Visibility
<1>4. CASE ~(mode = "overlay" /\ box = "shown" /\ on)
  <2>1. Statistics!Visibility(text, box, mode, on) = Cleared
    BY <1>4 DEF Statistics!Visibility, Cleared, Statistics!Zero
  <2> QED BY <1>1, <1>4, <2>1
<1> QED BY <1>3, <1>4

\* A request to the server, which a local program has not.
LEMMA RequestReads ==
    ASSUME Statistics!TypeOK, LocalQuiet, NEW base \in Statistics!Boxes,
           Statistics!Request(base), bRemote' = bRemote
    PROVE  /\ LocalQuiet'
           /\ bServer' \in Statistics!Boxes
           /\ bCall' \in [stage : {"none", "sent", "handled"}, at : Statistics!Places,
                          queued : BOOLEAN]
           /\ bImgReply' \in {"none"} \X {0} \cup {"box"} \X Statistics!Boxes
           /\ bEvent' \in {"none", "valid", "invalid"} \X Statistics!Places
<1>1. CASE ~bRemote
  BY <1>1 DEF Statistics!Request, Statistics!remoteVars, LocalQuiet, Statistics!TypeOK
<1>2. CASE bRemote
  <2>1. /\ UNCHANGED <<bServer, bImgReply, bEvent>>
        /\ bCall' = IF bCall.stage = "none"
                    THEN [stage |-> "sent", at |-> IF base.on THEN base.at ELSE 0,
                          queued |-> FALSE]
                    ELSE [bCall EXCEPT !.queued = TRUE]
    BY <1>2 DEF Statistics!Request
  <2>2. (IF base.on THEN base.at ELSE 0) \in Statistics!Places
    BY ClearedIs DEF Statistics!Boxes
  <2> QED BY <1>2, <2>1, <2>2 DEF LocalQuiet, Statistics!TypeOK
<1> QED BY <1>1, <1>2

\* The box goes from the screen: the text and the numbers are cleared.
LEMMA HideReads ==
    ASSUME ReadInv, NEW box \in {"none", bBox}, Statistics!DoHideStatsBox(box),
           bRemote' = bRemote, bRect' = bRect, bMode' = bMode,
           bImage' \in BOOLEAN, bButton' \in BOOLEAN
    PROVE  ReadInv'
<1>1. /\ bBase' = Statistics!Switched(bBase, FALSE)
      /\ bBase' \in Statistics!Boxes /\ ~bBase'.on /\ bBase'.of = 0
  BY ClearedIs DEF Statistics!DoHideStatsBox, Statistics!Switched, Statistics!Boxes,
         Statistics!Zero, ReadInv, Statistics!TypeOK
<1>2. /\ bText' = Cleared /\ bText' \in Texts /\ ~bText'.shown /\ bText'.of = 0
  <2>1. bText' = Cleared
    BY DEF Statistics!DoHideStatsBox, Cleared, Statistics!Zero
  <2> QED BY <2>1, ClearedIs
<1>3. /\ bBox' \in {"none", "hidden"} /\ bDue' = FALSE
      /\ bDialog' \in {"none", "dangling"}
      /\ Statistics!Request(bBase')
  BY DEF Statistics!DoHideStatsBox, ReadInv, Statistics!TypeOK
<1>4. /\ LocalQuiet'
      /\ bServer' \in Statistics!Boxes
      /\ bCall' \in [stage : {"none", "sent", "handled"}, at : Statistics!Places,
                     queued : BOOLEAN]
      /\ bImgReply' \in {"none"} \X {0} \cup {"box"} \X Statistics!Boxes
      /\ bEvent' \in {"none", "valid", "invalid"} \X Statistics!Places
  BY <1>1, <1>3, RequestReads DEF ReadInv
<1>5. Statistics!TypeOK'
  BY <1>1, <1>2, <1>3, <1>4 DEF ReadInv, Statistics!TypeOK, Texts
<1>6. Statistics!ShownInMode'
  BY <1>2, <1>3 DEF Statistics!ShownInMode
<1>7. LocalBox'
  BY <1>1, <1>2, <1>3 DEF LocalBox
<1> QED BY <1>3, <1>4, <1>5, <1>6, <1>7 DEF ReadInv, ButtonKnows

\* The box comes to the screen: the numbers are of where it is, when there is
\* an image to calculate them from.
LEMMA LaunchReads ==
    ASSUME ReadInv, NEW rect \in Statistics!Places, rect = bRect \/ bBox = "none",
           bBox # "shown",
           Statistics!DoLaunchStatsBox(rect), bRect' = rect,
           UNCHANGED <<bRemote, bImage, bMode>>, bButton' = TRUE
    PROVE  ReadInv'
<1> USE DEF Statistics!Places
<1> DEFINE base == Statistics!Asks(Statistics!Switched(bBase, TRUE), rect)
           told == IF bRemote THEN base ELSE Statistics!CalcStatsBox(base)
           asked == bImage \/ bDue
           text == IF bImage /\ bMode = "overlay" THEN [bText EXCEPT !.shown = FALSE]
                   ELSE bText
           told2 == IF asked /\ ~bRemote
                    THEN Statistics!UpdateOverlay("shown", bMode, told.of) ELSE text
<1>1. /\ bBox' = "shown" /\ bDue' = FALSE
      /\ bBase' = IF asked THEN told ELSE base
      /\ bText' = Statistics!Visibility(told2, "shown", bMode, TRUE)
      /\ bDialog' = IF bMode = "dialog" /\ bDialog = "none" THEN "open" ELSE bDialog
      /\ IF asked THEN Statistics!Request(base) ELSE UNCHANGED Statistics!remoteVars
  BY DEF Statistics!DoLaunchStatsBox
<1>2. /\ base \in Statistics!Boxes /\ base.on /\ base.of = bBase.of
      /\ bImage => base.at = rect
  BY DEF Statistics!Asks, Statistics!Switched, Statistics!Boxes, ReadInv, Statistics!TypeOK
<1>3. /\ told \in Statistics!Boxes /\ told.on
      /\ bImage => told.at = rect
      /\ ~bRemote => told.of = base.at
  <2> HIDE DEF base
  <2> QED BY <1>2 DEF Statistics!CalcStatsBox, Statistics!Boxes
<1>4. text \in Texts /\ text.of = bText.of
  BY DEF Texts, ReadInv, Statistics!TypeOK
<1>5. /\ told2 \in Texts
      /\ told2.of \in {bText.of, told.of}
      /\ ~asked => told2.of = bText.of
  <2>1. bText \in Texts /\ told.of \in Statistics!Places
    <3> HIDE DEF told
    <3> QED BY <1>3 DEF ReadInv, Statistics!TypeOK, Texts, Statistics!Boxes
  <2> HIDE DEF told, text
  <2>2. /\ Statistics!UpdateOverlay("shown", bMode, told.of) \in Texts
        /\ Statistics!UpdateOverlay("shown", bMode, told.of).of \in {bText.of, told.of}
    BY <2>1, OverlayIs
  <2> QED BY <1>4, <2>2
<1> HIDE DEF base, told, text, told2
<1>6. /\ bText' \in Texts
      /\ bText'.shown => bMode = "overlay"
      /\ bMode # "overlay" => bText'.of = 0
      /\ bText'.of \in {0, told2.of}
  <2>1. /\ bText' \in Texts
        /\ bText'.shown => bMode = "overlay"
        /\ bMode # "overlay" => bText' = Cleared
        /\ bText'.of \in {0, told2.of}
    BY <1>1, <1>5, VisibilityIs
  <2> QED BY <2>1 DEF Cleared
<1>7. bBase' \in Statistics!Boxes /\ bBase'.on /\ (bImage => bBase'.at = rect)
  BY <1>1, <1>2, <1>3
<1>8. /\ LocalQuiet'
      /\ bServer' \in Statistics!Boxes
      /\ bCall' \in [stage : {"none", "sent", "handled"}, at : Statistics!Places,
                     queued : BOOLEAN]
      /\ bImgReply' \in {"none"} \X {0} \cup {"box"} \X Statistics!Boxes
      /\ bEvent' \in {"none", "valid", "invalid"} \X Statistics!Places
  <2>1. CASE asked
    BY <1>1, <1>2, <2>1, RequestReads DEF ReadInv
  <2>2. CASE ~asked
    BY <1>1, <2>2 DEF Statistics!remoteVars, ReadInv, LocalQuiet, Statistics!TypeOK
  <2> QED BY <2>1, <2>2
<1>9. Statistics!TypeOK'
  BY <1>1, <1>6, <1>7, <1>8 DEF ReadInv, Statistics!TypeOK, Texts
<1>10. Statistics!ShownInMode'
  BY <1>1, <1>6 DEF Statistics!ShownInMode, ReadInv
<1>11. LocalBox'
  <2> SUFFICES ASSUME ~bRemote PROVE LocalBox'
    BY DEF LocalBox
  <2>1. bBase.of = 0 /\ bText.of = 0 /\ (bDue => bImage)
    BY DEF ReadInv, LocalBox, Cleared
  <2>2. CASE bImage
    <3>1. bBase'.of = rect /\ told2.of \in {0, rect}
      BY <1>1, <1>2, <1>3, <1>5, <2>1, <2>2
    <3> QED
      BY <1>1, <1>6, <1>7, <2>2, <3>1 DEF LocalBox, ReadInv, Statistics!TypeOK
  <2>3. CASE ~bImage
    <3>1. ~asked /\ bBase'.of = 0 /\ told2.of = 0
      BY <1>1, <1>2, <1>5, <2>1, <2>3
    <3> QED
      BY <1>1, <1>6, <1>7, <2>3, <3>1 DEF LocalBox, ReadInv, Statistics!TypeOK
  <2> QED BY <2>2, <2>3
<1> QED BY <1>8, <1>9, <1>10, <1>11 DEF ReadInv, ButtonKnows

LEMMA ToggleReads ==
    ASSUME ReadInv, Statistics!ToggleStatsBox \/ Statistics!ButtonClicked
    PROVE  ReadInv'
<1> /\ bBox \in {"none", bBox} /\ bImage \in BOOLEAN /\ bButton \in BOOLEAN
    /\ bRect \in Statistics!Places
  BY DEF ReadInv, Statistics!TypeOK
<1>1. CASE Statistics!ToggleStatsBox
  <2>1. CASE bBox = "shown"
    BY <1>1, <2>1, HideReads DEF Statistics!ToggleStatsBox
  <2>2. CASE bBox # "shown"
    <3>1. /\ bRect' \in Statistics!Places /\ (bRect' = bRect \/ bBox = "none")
          /\ Statistics!DoLaunchStatsBox(bRect') /\ bButton' = TRUE
          /\ UNCHANGED <<bRemote, bImage, bMode>>
      BY <1>1, <2>2, ConstantsAssumption
      DEF Statistics!ToggleStatsBox, Statistics!Places, Statistics!MaxRectsAssumption
    <3> QED BY <2>2, <3>1, LaunchReads
  <2> QED BY <2>1, <2>2
<1>2. CASE Statistics!ButtonClicked
  <2>1. CASE bButton
    BY <1>2, <2>1, HideReads DEF Statistics!ButtonClicked
  <2>2. CASE ~bButton /\ bBox = "none"
    <3>1. /\ UNCHANGED <<bRemote, bImage, bBox, bRect, bDue, bBase, bMode, bDialog, bText,
                         bServer, bCall, bImgReply, bEvent>>
          /\ bButton' = ~bButton
      BY <1>2, <2>2 DEF Statistics!ButtonClicked, Statistics!remoteVars
    <3> QED
      BY <2>2, <3>1 DEF ReadInv, Statistics!TypeOK, Statistics!ShownInMode, LocalQuiet,
         LocalBox, ButtonKnows
  <2>3. CASE ~bButton /\ bBox # "none"
    <3>1. bBox # "shown"
      BY <2>3 DEF ReadInv, ButtonKnows
    <3>2. /\ Statistics!DoLaunchStatsBox(bRect) /\ bRect' = bRect /\ bButton' = TRUE
          /\ UNCHANGED <<bRemote, bImage, bMode>>
      BY <1>2, <2>3 DEF Statistics!ButtonClicked
    <3> QED BY <3>1, <3>2, LaunchReads
  <2> QED BY <2>1, <2>2, <2>3
<1> QED BY <1>1, <1>2

\* Only the variables that the readout is about.
LEMMA SameReads ==
    ASSUME ReadInv,
           UNCHANGED <<bRemote, bImage, bBox, bRect, bDue, bBase, bMode, bDialog, bText,
                       bButton, bServer, bCall, bImgReply, bEvent>>
    PROVE  ReadInv'
BY DEF ReadInv, Statistics!TypeOK, Statistics!ShownInMode, LocalQuiet, LocalBox, ButtonKnows

LEMMA RemovedReads ==
    ASSUME ReadInv,
           \/ Statistics!StatsBoxRemove \/ Statistics!PostSetImsize
           \/ Statistics!ImStatsClosed
    PROVE  ReadInv'
<1> bBox \in {"none", bBox} /\ bImage \in BOOLEAN /\ bButton \in BOOLEAN
  BY DEF ReadInv, Statistics!TypeOK
<1>1. CASE Statistics!StatsBoxRemove
  BY <1>1, HideReads DEF Statistics!StatsBoxRemove
<1>2. CASE Statistics!PostSetImsize
  <2>1. CASE bBox = "none"
    <3>1. /\ UNCHANGED <<bRemote, bBox, bRect, bDue, bBase, bMode, bDialog, bText, bButton,
                         bServer, bCall, bImgReply, bEvent>>
          /\ bImage' = FALSE
      BY <1>2, <2>1 DEF Statistics!PostSetImsize, Statistics!remoteVars
    <3>2. LocalBox'
      BY <2>1, <3>1, ClearedIs DEF ReadInv, LocalBox
    <3> QED
      BY <2>1, <3>1, <3>2 DEF ReadInv, Statistics!TypeOK, Statistics!ShownInMode, LocalQuiet,
         ButtonKnows
  <2>2. CASE bBox # "none"
    BY <1>2, <2>2, HideReads DEF Statistics!PostSetImsize
  <2> QED BY <2>1, <2>2
<1>3. CASE Statistics!ImStatsClosed
  <2>1. CASE bBox = "none"
    <3>1. /\ UNCHANGED <<bRemote, bImage, bBox, bRect, bDue, bBase, bMode, bText, bButton,
                         bServer, bCall, bImgReply, bEvent>>
          /\ bDialog' = "dangling"
      BY <1>3, <2>1 DEF Statistics!ImStatsClosed, Statistics!remoteVars
    <3> QED
      BY <2>1, <3>1 DEF ReadInv, Statistics!TypeOK, Statistics!ShownInMode, LocalQuiet,
         LocalBox, ButtonKnows
  <2>2. CASE bBox # "none"
    BY <1>3, <2>2, HideReads DEF Statistics!ImStatsClosed
  <2> QED BY <2>1, <2>2
<1> QED BY <1>1, <1>2, <1>3

LEMMA MovedReads ==
    ASSUME ReadInv, Statistics!StatsBoxMoved
    PROVE  ReadInv'
<1>1. /\ bRect' = bRect + 1 /\ bRect' \in Statistics!Places
      /\ bDue' \in BOOLEAN /\ (bDue' <=> bDue \/ bImage) /\ bBox = "shown"
      /\ UNCHANGED <<bRemote, bImage, bBox, bMode, bDialog, bButton, bServer, bCall,
                     bImgReply, bEvent>>
  BY ConstantsAssumption
  DEF Statistics!StatsBoxMoved, ReadInv, Statistics!TypeOK, Statistics!Places,
      Statistics!MaxRectsAssumption, Statistics!remoteVars
<1>2. /\ bBase' \in Statistics!Boxes /\ bBase'.on = bBase.on /\ bBase'.of = bBase.of
      /\ bImage => bBase'.at = bRect'
  BY <1>1 DEF Statistics!StatsBoxMoved, Statistics!Asks, Statistics!Boxes, ReadInv,
     Statistics!TypeOK
<1>3. bText' \in Texts /\ bText'.of = bText.of /\ (bText'.shown => bText.shown)
  BY DEF Statistics!StatsBoxMoved, Texts, ReadInv, Statistics!TypeOK
<1>4. Statistics!TypeOK'
  BY <1>1, <1>2, <1>3 DEF ReadInv, Statistics!TypeOK, Texts
<1>5. Statistics!ShownInMode'
  BY <1>1, <1>3 DEF ReadInv, Statistics!ShownInMode
<1>6. LocalBox'
  BY <1>1, <1>2, <1>3 DEF ReadInv, LocalBox
<1> QED BY <1>1, <1>4, <1>5, <1>6 DEF ReadInv, LocalQuiet, ButtonKnows

LEMMA CalcIs ==
    ASSUME NEW base \in Statistics!Boxes
    PROVE  /\ Statistics!CalcStatsBox(base) \in Statistics!Boxes
           /\ Statistics!CalcStatsBox(base).on = base.on
           /\ Statistics!CalcStatsBox(base).at = base.at
           /\ Statistics!CalcStatsBox(base).of = IF base.on THEN base.at ELSE base.of
BY DEF Statistics!CalcStatsBox, Statistics!Boxes

LEMMA DispatchReads ==
    ASSUME ReadInv, Statistics!DispatchStatsBoxRequest
    PROVE  ReadInv'
<1>1. /\ bDue /\ bDue' = FALSE
      /\ bBase' = IF bRemote THEN bBase ELSE Statistics!CalcStatsBox(bBase)
      /\ Statistics!Request(bBase)
      /\ bText' = IF bRemote THEN bText
                  ELSE Statistics!Visibility(
                         Statistics!UpdateOverlay(bBox, bMode, bBase'.of), bBox, bMode, bBase.on)
      /\ UNCHANGED <<bRemote, bImage, bBox, bRect, bMode, bDialog, bButton>>
  BY DEF Statistics!DispatchStatsBoxRequest
<1>2. bBase \in Statistics!Boxes /\ bText \in Texts
  BY DEF ReadInv, Statistics!TypeOK, Texts
<1>3. /\ bBase' \in Statistics!Boxes /\ bBase'.on = bBase.on /\ bBase'.at = bBase.at
      /\ ~bRemote => bBase'.of = IF bBase.on THEN bBase.at ELSE bBase.of
      /\ bBase'.of \in Statistics!Places
  <2>1. bBase' \in Statistics!Boxes /\ bBase'.on = bBase.on /\ bBase'.at = bBase.at
        /\ (~bRemote => bBase'.of = IF bBase.on THEN bBase.at ELSE bBase.of)
    BY <1>1, <1>2, CalcIs
  <2> QED BY <2>1 DEF Statistics!Boxes
<1> DEFINE over == Statistics!UpdateOverlay(bBox, bMode, bBase'.of)
<1>4. /\ over \in Texts
      /\ over.of = IF bMode = "overlay" /\ bBox # "none" THEN bBase'.of ELSE bText.of
  BY <1>2, <1>3, OverlayIs
<1> HIDE DEF over
<1>5. ASSUME bRemote
      PROVE  bText' \in Texts /\ Statistics!ShownInMode' /\ LocalBox'
  <2>1. bText' = bText
    BY <1>1, <1>5
  <2>2. bText' \in Texts /\ Statistics!ShownInMode' /\ LocalBox'
    BY <1>1, <1>2, <1>5, <2>1 DEF ReadInv, Statistics!ShownInMode, LocalBox
  <2> QED BY <2>2
<1>6. ASSUME ~bRemote
      PROVE  bText' \in Texts /\ Statistics!ShownInMode' /\ LocalBox'
  <2>1. bText' = Statistics!Visibility(over, bBox, bMode, bBase.on)
    BY <1>1, <1>6 DEF over
  <2>2. /\ bText' \in Texts
        /\ bText'.shown => bMode = "overlay" /\ bBox = "shown"
        /\ ~(bMode = "overlay" /\ bBox = "shown" /\ bBase.on) => bText' = Cleared
        /\ bText'.of \in {0, over.of}
    BY <1>4, <2>1, VisibilityIs
  <2>3. Statistics!ShownInMode'
    BY <1>1, <2>2 DEF ReadInv, Statistics!ShownInMode
  <2>4. LocalBox'
    <3>1. /\ bBox = "shown" <=> bBase'.on
          /\ bBox # "shown" => bBase'.of = 0 /\ bText' = Cleared
          /\ bMode = "dialog" => bText'.of = 0
          /\ bBox = "shown" => bBase'.of = bRect /\ bText'.of \in {0, bRect}
          /\ bImage /\ bBox # "none"
      BY <1>1, <1>3, <1>4, <1>6, <2>2 DEF ReadInv, LocalBox, Cleared
    <3> QED
      BY <1>1, <1>3, <1>6, <3>1 DEF ReadInv, LocalBox
  <2> QED BY <2>2, <2>3, <2>4
<1>7. /\ LocalQuiet'
      /\ bServer' \in Statistics!Boxes
      /\ bCall' \in [stage : {"none", "sent", "handled"}, at : Statistics!Places,
                     queued : BOOLEAN]
      /\ bImgReply' \in {"none"} \X {0} \cup {"box"} \X Statistics!Boxes
      /\ bEvent' \in {"none", "valid", "invalid"} \X Statistics!Places
  BY <1>1, <1>2, RequestReads DEF ReadInv
<1> QED
  BY <1>1, <1>3, <1>5, <1>6, <1>7 DEF ReadInv, Statistics!TypeOK, Texts, ButtonKnows

\* What a step of the window does that leaves the box and the calls alone.
LEMMA ShowReads ==
    ASSUME ReadInv, UNCHANGED <<bRemote, bBox, bRect, bServer, bCall, bImgReply, bEvent>>,
           bButton' \in BOOLEAN, bBox = "shown" => bButton',
           bImage' \in BOOLEAN, bDue' \in BOOLEAN, bMode' \in {"overlay", "dialog"},
           bDialog' \in {"none", "open", "dangling"},
           bBase' \in Statistics!Boxes, bText' \in Texts,
           Statistics!ShownInMode', LocalBox'
    PROVE  ReadInv'
BY DEF ReadInv, Statistics!TypeOK, LocalQuiet, ButtonKnows, Texts

LEMMA SameButtonReads ==
    ASSUME ReadInv, UNCHANGED <<bBox, bButton>>
    PROVE  bButton' \in BOOLEAN /\ (bBox = "shown" => bButton')
BY DEF ReadInv, Statistics!TypeOK, ButtonKnows

LEMMA RecolorReads ==
    ASSUME ReadInv, Statistics!PostRecolor
    PROVE  ReadInv'
<1> DEFINE again == ~bImage /\ bBox # "none"
           base == IF bRemote THEN bBase ELSE Statistics!CalcStatsBox(bBase)
           over == Statistics!UpdateOverlay(bBox, bMode, bBase'.of)
<1>1. /\ bImage' = TRUE
      /\ bBase' = IF again THEN [base EXCEPT !.at = bRect] ELSE base
      /\ bDue' = (bDue \/ again)
      /\ bText' = IF bMode = "overlay" /\ bBox = "shown" /\ ~bDue'
                  THEN Statistics!Visibility(over, bBox, bMode, bBase'.on)
                  ELSE IF again /\ bMode = "overlay" THEN [bText EXCEPT !.shown = FALSE]
                  ELSE bText
      /\ bButton' = (bBox = "shown")
      /\ UNCHANGED <<bRemote, bBox, bRect, bMode, bDialog, bServer, bCall, bImgReply, bEvent>>
  BY DEF Statistics!PostRecolor, Statistics!remoteVars
<1>2. /\ bBase \in Statistics!Boxes /\ bText \in Texts /\ bRect \in Statistics!Places
      /\ bImage \in BOOLEAN /\ bDue \in BOOLEAN
  BY DEF ReadInv, Statistics!TypeOK, Texts
<1>3. /\ base \in Statistics!Boxes /\ base.on = bBase.on /\ base.at = bBase.at
      /\ ~bRemote => base.of = IF bBase.on THEN bBase.at ELSE bBase.of
  BY <1>2, CalcIs
<1> HIDE DEF base
<1>4. /\ bBase' \in Statistics!Boxes /\ bBase'.on = bBase.on /\ bBase'.of = base.of
      /\ bBase'.at = IF again THEN bRect ELSE bBase.at
      /\ bBase'.of \in Statistics!Places
  BY <1>1, <1>2, <1>3 DEF Statistics!Boxes
<1>5. /\ over \in Texts
      /\ over.of = IF bMode = "overlay" /\ bBox # "none" THEN bBase'.of ELSE bText.of
  BY <1>2, <1>4, OverlayIs
<1> HIDE DEF over
<1>6. /\ bText' \in Texts
      /\ bText'.shown => bMode = "overlay" /\ bBox = "shown"
      /\ IF bMode = "overlay" /\ bBox = "shown" /\ ~bDue'
         THEN bText'.of \in {0, bBase'.of}
         ELSE bText'.of = bText.of /\ (bText'.shown => bText.shown)
  <2>1. CASE bMode = "overlay" /\ bBox = "shown" /\ ~bDue'
    <3>1. bText' = Statistics!Visibility(over, bBox, bMode, bBase'.on)
      BY <1>1, <2>1
    <3> QED BY <1>5, <2>1, <3>1, VisibilityIs
  <2>2. CASE ~(bMode = "overlay" /\ bBox = "shown" /\ ~bDue')
    <3>1. bText' \in {bText, [bText EXCEPT !.shown = FALSE]}
      BY <1>1, <2>2
    <3>2. bText' \in Texts /\ bText'.of = bText.of /\ (bText'.shown => bText.shown)
      BY <1>2, <3>1 DEF Texts
    <3> QED BY <2>2, <3>2 DEF ReadInv, Statistics!ShownInMode
  <2> QED BY <2>1, <2>2
<1>7. Statistics!ShownInMode'
  BY <1>1, <1>6 DEF ReadInv, Statistics!ShownInMode
<1>8. LocalBox'
  <2> SUFFICES ASSUME ~bRemote PROVE LocalBox'
    BY <1>1 DEF LocalBox
  <2>1. bBox # "shown" => bText' = Cleared
    <3> SUFFICES ASSUME bBox # "shown" PROVE bText' = Cleared
      OBVIOUS
    <3>1. bText = Cleared
      BY DEF ReadInv, LocalBox
    <3>2. bText' \in {bText, [bText EXCEPT !.shown = FALSE]}
      BY <1>1
    <3> QED BY <3>1, <3>2 DEF Cleared
  <2>2. ~bDue' /\ bBox = "shown" => bBase'.of = bRect /\ bText'.of \in {0, bRect}
    BY <1>1, <1>3, <1>4, <1>6 DEF ReadInv, LocalBox
  <2>3. /\ bBox = "shown" <=> bBase'.on
        /\ bBox # "shown" => bBase'.of = 0
        /\ bDialog = "open" => bBox = "shown"
        /\ bDue' => bBox # "none"
        /\ bBox = "shown" => bBase'.at = bRect
        /\ bMode = "dialog" => bText'.of = 0
    BY <1>1, <1>3, <1>4, <1>6 DEF ReadInv, LocalBox
  <2> QED BY <1>1, <2>1, <2>2, <2>3 DEF LocalBox
<1>9. bDue' \in BOOLEAN /\ bMode \in {"overlay", "dialog"} /\ bDialog \in {"none", "open", "dangling"}
  BY <1>1, <1>2 DEF ReadInv, Statistics!TypeOK
<1>10. bButton' \in BOOLEAN /\ (bBox = "shown" => bButton')
  BY <1>1
<1> QED BY <1>1, <1>4, <1>6, <1>7, <1>8, <1>9, <1>10, ShowReads

LEMMA GlobalReads ==
    ASSUME ReadInv, Statistics!UpdateGlobalStatsOverlay
    PROVE  ReadInv'
<1>1. /\ bMode = "overlay" /\ bBox = "shown" /\ ~bDue
      /\ bText' = Statistics!UpdateOverlay(bBox, bMode, bBase.of)
      /\ UNCHANGED <<bRemote, bImage, bBox, bRect, bDue, bBase, bMode, bDialog, bButton,
                     bServer, bCall, bImgReply, bEvent>>
  BY DEF Statistics!UpdateGlobalStatsOverlay, Statistics!remoteVars
<1>2. bBase.of \in Statistics!Places /\ bText \in Texts
  BY DEF ReadInv, Statistics!TypeOK, Statistics!Boxes, Texts
<1>3. bText' \in Texts /\ bText'.of = bBase.of
  BY <1>1, <1>2, OverlayIs
<1>4. Statistics!ShownInMode'
  BY <1>1 DEF ReadInv, Statistics!ShownInMode
<1>5. LocalBox'
  BY <1>1, <1>3 DEF ReadInv, LocalBox
<1> QED BY <1>1, <1>3, <1>4, <1>5, SameButtonReads, ShowReads DEF ReadInv, Statistics!TypeOK

LEMMA ModeReads ==
    ASSUME ReadInv, Statistics!StatsDisplayMode
    PROVE  ReadInv'
<1>1. PICK mode \in {"overlay", "dialog"} :
         /\ bMode' = mode
         /\ bDialog' = IF mode = "overlay" THEN "none"
                       ELSE IF bBase.on THEN "open" ELSE bDialog
         /\ bText' = IF ~bBase.on
                     THEN Statistics!Visibility(bText, bBox, mode, bBase.on)
                     ELSE IF mode = "dialog"
                     THEN [Statistics!Visibility(bText, bBox, mode, bBase.on) EXCEPT !.shown = FALSE]
                     ELSE IF bBox = "none"
                     THEN Statistics!Visibility(bText, bBox, mode, bBase.on)
                     ELSE Statistics!UpdateOverlay(bBox, mode, bBase.of)
         /\ UNCHANGED <<bRemote, bImage, bBox, bRect, bDue, bBase, bButton, bServer, bCall,
                        bImgReply, bEvent>>
  BY DEF Statistics!StatsDisplayMode, Statistics!remoteVars
<1>2. bBase.of \in Statistics!Places /\ bText \in Texts
  BY DEF ReadInv, Statistics!TypeOK, Statistics!Boxes, Texts
<1> DEFINE seen == Statistics!Visibility(bText, bBox, mode, bBase.on)
           over == Statistics!UpdateOverlay(bBox, mode, bBase.of)
<1>3. /\ seen \in Texts
      /\ seen.shown => mode = "overlay" /\ bBox = "shown"
      /\ ~(mode = "overlay" /\ bBox = "shown" /\ bBase.on) => seen = Cleared
      /\ seen.of \in {0, bText.of}
  BY <1>2, VisibilityIs
<1>4. /\ over \in Texts
      /\ over.shown => mode = "overlay" /\ bBox = "shown"
      /\ over.of = IF mode = "overlay" /\ bBox # "none" THEN bBase.of ELSE bText.of
  BY <1>2, OverlayIs
<1>5. bText' = IF ~bBase.on THEN seen
               ELSE IF mode = "dialog" THEN [seen EXCEPT !.shown = FALSE]
               ELSE IF bBox = "none" THEN seen ELSE over
  BY <1>1
<1> HIDE DEF seen, over
<1>6. [seen EXCEPT !.shown = FALSE] \in Texts /\ [seen EXCEPT !.shown = FALSE].of = seen.of
      /\ [seen EXCEPT !.shown = FALSE].shown = FALSE
  BY <1>3 DEF Texts
<1>7. /\ bText' \in Texts
      /\ bText'.shown => mode = "overlay" /\ bBox = "shown"
      /\ mode = "dialog" => bText'.of = 0
      /\ bText'.of \in {0, bBase.of}
      /\ ~bBase.on => bText' = Cleared
  <2>1. CASE ~bBase.on \/ (bBox = "none" /\ mode = "overlay")
    <3>1. bText' = seen /\ seen = Cleared
      BY <1>3, <1>5, <2>1
    <3> QED BY <3>1, ClearedIs
  <2>2. CASE bBase.on /\ mode = "dialog"
    <3>1. seen = Cleared /\ bText' = [seen EXCEPT !.shown = FALSE]
      BY <1>3, <1>5, <2>2
    <3> QED BY <1>6, <2>2, <3>1, ClearedIs
  <2>3. CASE bBase.on /\ mode = "overlay" /\ bBox # "none"
    BY <1>4, <1>5, <2>3
  <2> QED BY <2>1, <2>2, <2>3
<1>8. Statistics!ShownInMode'
  BY <1>1, <1>7 DEF ReadInv, Statistics!ShownInMode
<1>9. LocalBox'
  BY <1>1, <1>7 DEF ReadInv, LocalBox
<1> QED
  BY <1>1, <1>7, <1>8, <1>9, SameButtonReads, ShowReads DEF ReadInv, Statistics!TypeOK

\* The answers of the server, of which a local program has none.
LEMMA AnswerReads ==
    ASSUME ReadInv,
           \/ Statistics!HandleStatsBox \/ Statistics!FillReply \/ Statistics!ImageReceived
           \/ \E ok \in BOOLEAN : Statistics!StatsBoxEnds(ok)
    PROVE  ReadInv'
<1>1. bRemote
  BY DEF ReadInv, LocalQuiet, Statistics!NoCall, Statistics!HandleStatsBox,
     Statistics!FillReply, Statistics!ImageReceived, Statistics!StatsBoxEnds
<1>2. UNCHANGED <<bRemote, bImage, bBox, bRect, bDue, bMode, bDialog, bText, bButton>>
  BY DEF Statistics!HandleStatsBox, Statistics!FillReply, Statistics!ImageReceived,
     Statistics!StatsBoxEnds
<1>3. /\ bServer' \in Statistics!Boxes /\ bBase' \in Statistics!Boxes
      /\ bCall' \in [stage : {"none", "sent", "handled"}, at : Statistics!Places,
                     queued : BOOLEAN]
      /\ bImgReply' \in {"none"} \X {0} \cup {"box"} \X Statistics!Boxes
      /\ bEvent' \in {"none", "valid", "invalid"} \X Statistics!Places
  <2> 0 \in Statistics!Places
    BY ConstantsAssumption DEF Statistics!Places, Statistics!MaxRectsAssumption
  <2>1. CASE Statistics!HandleStatsBox
    BY <2>1 DEF Statistics!HandleStatsBox, ReadInv, Statistics!TypeOK, Statistics!Boxes,
       Statistics!Zero
  <2>2. CASE Statistics!FillReply
    BY <2>2 DEF Statistics!FillReply, ReadInv, Statistics!TypeOK
  <2>3. CASE Statistics!ImageReceived
    <3>1. bImgReply[2] \in Statistics!Boxes
      BY <2>3 DEF Statistics!ImageReceived, ReadInv, Statistics!TypeOK
    <3>2. bBase' \in Statistics!Boxes /\ bBase'.of \in Statistics!Places
      BY <2>3, <3>1 DEF Statistics!ImageReceived, Statistics!Boxes
    <3> QED
      BY <2>3, <3>2 DEF Statistics!ImageReceived, ReadInv, Statistics!TypeOK
  <2>4. ASSUME NEW ok \in BOOLEAN, Statistics!StatsBoxEnds(ok)
        PROVE  /\ bServer' \in Statistics!Boxes /\ bBase' \in Statistics!Boxes
               /\ bCall' \in [stage : {"none", "sent", "handled"}, at : Statistics!Places,
                              queued : BOOLEAN]
               /\ bImgReply' \in {"none"} \X {0} \cup {"box"} \X Statistics!Boxes
               /\ bEvent' \in {"none", "valid", "invalid"} \X Statistics!Places
    <3>1. /\ UNCHANGED <<bServer, bImgReply>>
          /\ bBase' = IF ok THEN [bServer EXCEPT !.on = TRUE] ELSE bBase
          /\ bEvent' = IF ok THEN <<"valid", bServer.of>> ELSE <<"invalid", 0>>
          /\ bCall' = IF bCall.queued
                      THEN [stage |-> "sent", at |-> IF bBase'.at # 0 THEN bBase'.at ELSE 0,
                            queued |-> FALSE]
                      ELSE Statistics!NoCall
      BY <2>4 DEF Statistics!StatsBoxEnds, Statistics!Zero
    <3>2. bServer \in Statistics!Boxes /\ bBase \in Statistics!Boxes
      BY DEF ReadInv, Statistics!TypeOK
    <3>3. bBase' \in Statistics!Boxes
      BY <3>1, <3>2 DEF Statistics!Boxes
    <3>4. bBase'.at \in Statistics!Places /\ bServer.of \in Statistics!Places
      BY <3>2, <3>3 DEF Statistics!Boxes
    <3>5. bEvent' \in {"none", "valid", "invalid"} \X Statistics!Places
      BY <3>1, <3>4
    <3>6. bCall' \in [stage : {"none", "sent", "handled"}, at : Statistics!Places,
                      queued : BOOLEAN]
      BY <3>1, <3>4 DEF Statistics!NoCall
    <3> QED
      BY <3>1, <3>2, <3>3, <3>5, <3>6 DEF ReadInv, Statistics!TypeOK
  <2> QED BY <2>1, <2>2, <2>3, <2>4
<1> QED
  BY <1>1, <1>2, <1>3 DEF ReadInv, Statistics!TypeOK, Statistics!ShownInMode, LocalQuiet,
     LocalBox, ButtonKnows

LEMMA UpdatedReads ==
    ASSUME ReadInv, Statistics!StatsBoxUpdated
    PROVE  ReadInv'
<1>1. bRemote
  BY DEF ReadInv, LocalQuiet, Statistics!StatsBoxUpdated
<1> DEFINE of == IF bEvent[1] = "valid" THEN bEvent[2] ELSE 0
           text == IF bMode = "overlay" /\ bBox # "none"
                   THEN Statistics!UpdateOverlay(bBox, bMode, of) ELSE bText
<1>2. /\ bText' = Statistics!Visibility(text, bBox, bMode, bBase.on)
      /\ bEvent' = <<"none", 0>>
      /\ UNCHANGED <<bRemote, bImage, bBox, bRect, bDue, bBase, bMode, bDialog, bButton,
                     bServer, bCall, bImgReply>>
  BY DEF Statistics!StatsBoxUpdated, Statistics!Zero
<1>3. /\ of \in Statistics!Places /\ bText \in Texts /\ 0 \in Statistics!Places
  BY ConstantsAssumption
  DEF ReadInv, Statistics!TypeOK, Statistics!Places, Texts, Statistics!MaxRectsAssumption
<1> HIDE DEF of
<1>4. text \in Texts
  BY <1>3, OverlayIs
<1> HIDE DEF text
<1>5. /\ bText' \in Texts
      /\ bText'.shown => bMode = "overlay" /\ bBox = "shown"
  BY <1>2, <1>4, VisibilityIs
<1> QED
  BY <1>1, <1>2, <1>3, <1>5 DEF ReadInv, Statistics!TypeOK, Statistics!ShownInMode, LocalQuiet,
     LocalBox, ButtonKnows, Texts

\* The readout is beside a box on the screen, or in a dialog, as the mode says;
\* in a local program with no request pending its numbers are of where the box
\* is, whatever keys, button, dialog, image and moves of the box came between
\* (mtxTry_updateStatsBoxOverlay, updateStatsBoxOverlayVisibility,
\* doLaunchStatsBox, doHideStatsBox, statsDisplayMode and the slots of the box).
THEOREM ReadoutFollowsBox == Spec => []ReadoutBelongsToBox
<1>1. Init => ReadInv
  <2> SUFFICES ASSUME Statistics!Init PROVE ReadInv
    BY DEF Init
  <2>1. 0 \in Statistics!Places
    BY ConstantsAssumption DEF Statistics!Places, Statistics!MaxRectsAssumption
  <2> QED
    BY <2>1 DEF Statistics!Init, ReadInv, Statistics!TypeOK, Statistics!ShownInMode,
       LocalQuiet, LocalBox, ButtonKnows, Cleared, Statistics!Boxes, Statistics!Zero,
       Statistics!NoCall
<1>2. ReadInv /\ [Next]_vars => ReadInv'
  <2> SUFFICES ASSUME ReadInv, [Next]_vars PROVE ReadInv'
    OBVIOUS
  <2>1. CASE UNCHANGED statisticsVars
    BY <2>1, SameReads DEF statisticsVars
  <2>2. CASE Statistics!Next
    BY <2>2, ToggleReads, RemovedReads, MovedReads, DispatchReads, RecolorReads,
       GlobalReads, ModeReads, AnswerReads, UpdatedReads
    DEF Statistics!Next, Statistics!Window
  <2> QED BY <2>1, <2>2 DEF Next, vars
<1>3. ReadInv => ReadoutBelongsToBox
  BY DEF ReadInv, LocalBox, ReadoutBelongsToBox, Statistics!ReadoutBelongsToBox,
     Statistics!ShownIsCurrent, Statistics!ShownInMode, Statistics!Zero
<1> QED BY <1>1, <1>2, <1>3, PTL DEF Spec
=============================================================================
