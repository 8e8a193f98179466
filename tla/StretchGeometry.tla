--------------------------- MODULE StretchGeometry ---------------------------
(* How a region drawn over the image changes its shape and its place while    *)
(* the mouse drags it: StretchBox.cpp, StretchCircle.cpp and StretchLine.cpp.  *)
(* Which of the two a press starts is decided in StretchGraphicsItem.hpp       *)
(* (module UserItems) and is a choice here.  Coordinates are integers, and a   *)
(* line turns by right angles.                                                 *)
EXTENDS Integers

CONSTANTS Tol,       \* m_edgeTol
          Reach,     \* how far one move of the mouse goes
          Side,      \* sides of the first rectangle
          MaxMoves   \* bound on the moves of the mouse with the button down

TolAssumption == Tol \in Nat /\ Side \in Nat /\ Reach \in Nat

VARIABLES
    kKind,    \* the class of the region
    kCentre,  \* m_maintainCenter
    kGeo,     \* rect(); of a line, its start and the vector to its end
    kPos,     \* pos() of the item in the scene
    kHold,    \* what the button that is down does to it
    kSizing,  \* m_sizing
    kMark,    \* m_ul_x .. m_end_y: what setMovingGeometry, setGrabbedGeometry noted
    kWay,     \* from m_mv_x0, m_mv_y0 to the mouse; on a circle x is along the radius
    kMoves    \* moves so far

vars == <<kKind, kCentre, kGeo, kPos, kHold, kSizing, kMark, kWay, kMoves>>

Points == [x : Int, y : Int]
Rects == [x : Int, y : Int, w : Int, h : Int]
BoxSizings == {"topl", "botl", "topr", "botr", "left", "right", "top", "bot"}
LineSizings == {"all", "turn"}      \* szAll, and the four that rotate a line
Sizings(kind) == CASE kind = "box"  -> BoxSizings
                   [] kind = "line" -> LineSizings
                   [] OTHER -> {"rim"}

\* The side a handle holds: -1 for left and top, 1 for right and bottom.
Across(sz) == IF sz \in {"topl", "left", "botl"} THEN -1
              ELSE IF sz \in {"topr", "right", "botr"} THEN 1 ELSE 0
Down(sz)   == IF sz \in {"topl", "top", "topr"} THEN -1
              ELSE IF sz \in {"botl", "bot", "botr"} THEN 1 ELSE 0

TypeOK ==
    /\ kKind \in {"box", "circle", "line"} /\ kCentre \in BOOLEAN
    /\ kGeo \in Rects /\ kPos \in Points /\ kWay \in Points
    /\ kHold \in {"none", "sizing", "moving"}
    /\ kSizing \in Sizings(kKind) \cup {"off"}
    /\ kMark \in [geo : Rects, pos : Points]
    /\ kMoves \in Nat

Init ==
    /\ kKind \in {"box", "circle", "line"} /\ kCentre \in BOOLEAN
    /\ kGeo = [x |-> 0, y |-> 0, w |-> Side, h |-> Side]
    /\ kPos = [x |-> 0, y |-> 0] /\ kWay = [x |-> 0, y |-> 0]
    /\ kMark = [geo |-> kGeo, pos |-> kPos]
    /\ kHold = "none" /\ kSizing = "off" /\ kMoves = 0

-----------------------------------------------------------------------------
(* onHoverComputeSizing of a box: the corners first, then the sides; exactly  *)
(* at the tolerance none of them, and the former m_sizing stays.              *)
HandleAt(rx, ry, w, h) ==
    LET near(r, at) == -Tol < r - at /\ r - at < Tol
        along(r, len) == -Tol < r /\ r < len + Tol
    IN  CASE near(rx, 0) /\ near(ry, 0) -> "topl"
          [] near(rx, 0) /\ near(ry, h) /\ ~near(ry, 0) -> "botl"
          [] near(rx, w) /\ near(ry, 0) /\ ~near(rx, 0) -> "topr"
          [] near(rx, w) /\ near(ry, h) /\ ~near(rx, 0) /\ ~near(ry, 0) -> "botr"
          [] near(rx, 0) /\ along(ry, h) /\ ~near(ry, 0) /\ ~near(ry, h) -> "left"
          [] near(rx, w) /\ along(ry, h) /\ ~near(rx, 0)
                         /\ ~near(ry, 0) /\ ~near(ry, h) -> "right"
          [] near(ry, 0) /\ along(rx, w) /\ ~near(rx, 0) /\ ~near(rx, w) -> "top"
          [] near(ry, h) /\ along(rx, w) /\ ~near(ry, 0)
                         /\ ~near(rx, 0) /\ ~near(rx, w) -> "bot"
          [] OTHER -> kSizing

InsideBox(rx, ry, w, h) == Tol < rx /\ rx < w - Tol /\ Tol < ry /\ ry < h - Tol

(* The hover over the item.  Of a circle and of a line only the outcome is    *)
(* kept: off the rim or the line, or one of the handles.                      *)
Hover ==
    /\ kHold = "none"
    /\ \E rx \in (-Tol)..(kGeo.w + Tol), ry \in (-Tol)..(kGeo.h + Tol) :
          kSizing' \in IF kKind = "box"
                     THEN {IF InsideBox(rx, ry, kGeo.w, kGeo.h) THEN "off"
                           ELSE HandleAt(rx, ry, kGeo.w, kGeo.h)}
                     ELSE Sizings(kKind) \cup {"off"}
    /\ UNCHANGED <<kKind, kCentre, kGeo, kPos, kHold, kMark, kWay, kMoves>>

(* handleMousePressEvent with m_sizing set: setMovingGeometry. *)
PressSizing ==
    /\ kHold = "none" /\ kSizing # "off" /\ kHold' = "sizing"
    /\ kWay' = [x |-> 0, y |-> 0]
    /\ kMark' = [geo |-> kGeo, pos |-> kPos]
    /\ UNCHANGED <<kKind, kCentre, kGeo, kPos, kSizing, kMoves>>

(* handleMousePressEvent with the open hand on the edge: setGrabbedGeometry. *)
PressGrabbed ==
    /\ kHold = "none" /\ kHold' = "moving" /\ kSizing' = "off"
    /\ kWay' = [x |-> 0, y |-> 0]
    /\ kMark' = [geo |-> kGeo, pos |-> kPos]
    /\ UNCHANGED <<kKind, kCentre, kGeo, kPos, kMoves>>

\* Mutant of SizeBox: the doubled distance moves the held side as well.
SizeBoxTwice(g, sz, dw, dh) ==
    LET twice == IF kCentre THEN 2 ELSE 1
        from(side, d) == CASE side = -1 -> twice * d
                           [] side = 1 /\ kCentre -> -d
                           [] OTHER -> 0
    IN  [x |-> g.x + from(Across(sz), dw), y |-> g.y + from(Down(sz), dh),
         w |-> g.w + Across(sz) * twice * dw, h |-> g.h + Down(sz) * twice * dh]

(* sizingCalcNewPos of a box: the side that is held goes with the mouse, and  *)
(* with m_maintainCenter the opposite one the other way.                      *)
SizeBox(g, sz, dw, dh) ==
    LET twice == IF kCentre THEN 2 ELSE 1
        from(side, d) == CASE side = -1 -> d
                           [] side = 1 /\ kCentre -> -d
                           [] OTHER -> 0
    IN  [x |-> g.x + from(Across(sz), dw), y |-> g.y + from(Down(sz), dh),
         w |-> g.w + Across(sz) * twice * dw, h |-> g.h + Down(sz) * twice * dh]

(* sizingCalcNewPos of a circle: its radius changes as the distance of the    *)
(* mouse from its centre does.                                                *)
SizeCircle(g, dr) ==
    [x |-> g.x - dr, y |-> g.y - dr, w |-> g.w + 2 * dr, h |-> g.w + 2 * dr]

(* sizingCalcNewPos of a line: its end goes with the mouse, or it turns about *)
(* its start.                                                                 *)
SizeLine(g, sz, dw, dh) ==
    IF sz = "all" THEN {[g EXCEPT !.w = @ + dw, !.h = @ + dh]}
    ELSE {[g EXCEPT !.w = g.w * r[1] - g.h * r[2], !.h = g.w * r[2] + g.h * r[1]] :
            r \in {<<1, 0>>, <<0, 1>>, <<-1, 0>>, <<0, -1>>}}

Sized(g, dw, dh) ==
    CASE kKind = "box"    -> {SizeBox(g, kSizing, dw, dh)}
      [] kKind = "circle" -> {SizeCircle(g, dw)}
      [] OTHER            -> SizeLine(g, kSizing, dw, dh)

(* movingCalcNewPos: the item goes with the mouse; a line changes its ends.   *)
Moved(at, dx, dy) == [at EXCEPT !.x = @ + dx, !.y = @ + dy]

(* handleMouseMoveEvent: always from what the press noted, never from the     *)
(* move before.                                                               *)
Drag ==
    /\ kHold # "none" /\ kMoves < MaxMoves
    /\ kMoves' = kMoves + 1
    /\ \E dx \in (-Reach)..Reach, dy \in (-Reach)..Reach :
          LET dw == kWay.x + dx
              dh == kWay.y + dy
          IN  /\ kWay' = [x |-> dw, y |-> dh]
              /\ IF kHold = "sizing"
                 THEN kGeo' \in Sized(kMark.geo, dw, dh) /\ UNCHANGED kPos
                 ELSE IF kKind = "line"
                 THEN kGeo' = Moved(kMark.geo, dw, dh) /\ UNCHANGED kPos
                 ELSE kPos' = Moved(kMark.pos, dw, dh) /\ UNCHANGED kGeo
    /\ UNCHANGED <<kKind, kCentre, kHold, kSizing, kMark>>

(* handleMouseReleaseEvent, or the loss of the focus in the middle of it. *)
Release ==
    /\ kHold # "none" /\ kHold' = "none" /\ kSizing' = "off"
    /\ UNCHANGED <<kKind, kCentre, kGeo, kPos, kMark, kWay, kMoves>>

Next == Hover \/ PressSizing \/ PressGrabbed \/ Drag \/ Release

Spec == Init /\ [][Next]_vars

-----------------------------------------------------------------------------
(* What a resize leaves in place of each kind of region. *)
BoxAnchored(g, at) ==
    IF kCentre THEN 2 * g.x + g.w = 2 * at.x + at.w /\ 2 * g.y + g.h = 2 * at.y + at.h
    ELSE /\ IF Across(kSizing) = -1 THEN g.x + g.w = at.x + at.w ELSE g.x = at.x
         /\ IF Down(kSizing) = -1 THEN g.y + g.h = at.y + at.h ELSE g.y = at.y
CircleAnchored(g, at) == 2 * g.x + g.w = 2 * at.x + at.w /\ g.w = g.h
LineAnchored(g, at) ==
    /\ g.x = at.x /\ g.y = at.y
    /\ kSizing = "turn" => g.w * g.w + g.h * g.h = at.w * at.w + at.h * at.h

(* However the mouse wanders with the button down, a resize keeps the centre  *)
(* of a region that is held by its centre and otherwise the side or the start *)
(* opposite to the handle, and a move keeps the size (sizingCalcNewPos and    *)
(* movingCalcNewPos start from the same marks on every move).                 *)
DragKeepsAnchor ==
    /\ kHold = "sizing" =>
          CASE kKind = "box"    -> BoxAnchored(kGeo, kMark.geo)
            [] kKind = "circle" -> CircleAnchored(kGeo, kMark.geo)
            [] OTHER            -> LineAnchored(kGeo, kMark.geo)
    /\ kHold = "moving" => kGeo.w = kMark.geo.w /\ kGeo.h = kMark.geo.h
==============================================================================
