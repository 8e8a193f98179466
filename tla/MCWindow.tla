--------------------------- MODULE MCWindow ---------------------------
(* The regions, their shapes, the statistics, the zoom and the panel of the *)
(* window, in one run of TLC: a behaviour is of one of them, and the other  *)
(* parts rest.                                                              *)
EXTENDS Integers

CONSTANTS Stats, Colour, Extra, NoItem, Modes, Tol, Reach, Side, MaxMoves, MaxRects,
          ZoomMin, ZoomMax, Positions, Widths, Sizes, Regions, Values,
          Scales, RemoteExtra

VARIABLES
    part,
    uKind, uShown, uGrip, uSel, uUnder, uHeld, uFocus, uSelTimer, uCurTimer,
    uBox, uRemote,
    kKind, kCentre, kGeo, kPos, kHold, kSizing, kMark, kWay, kMoves,
    bRemote, bImage, bBox, bRect, bDue, bBase, bMode, bDialog, bText, bButton,
    bServer, bCall, bImgReply, bEvent,
    w, wPens, wPanel, wAsked,
    p, pTarget, pScale, pShown

Ranges == {<<0, 4>>, <<1, 3>>}

Items      == INSTANCE UserItems
Geometry   == INSTANCE StretchGeometry
Statistics == INSTANCE StatsDisplay
Zoom       == INSTANCE ViewZoom
Panel      == INSTANCE PanelTools

ASSUME ConstantsAssumption ==
    /\ Items!ItemsDiffer
    /\ Geometry!TolAssumption
    /\ Statistics!MaxRectsAssumption
    /\ Zoom!ZoomAssumption
    /\ Panel!PanelAssumption

itemsVars == <<uKind, uShown, uGrip, uSel, uUnder, uHeld, uFocus, uSelTimer,
               uCurTimer, uBox, uRemote>>
geometryVars == <<kKind, kCentre, kGeo, kPos, kHold, kSizing, kMark, kWay,
                  kMoves>>
statisticsVars == <<bRemote, bImage, bBox, bRect, bDue, bBase, bMode, bDialog,
                    bText, bButton, bServer, bCall, bImgReply, bEvent>>
zoomVars == <<w, wPens, wPanel, wAsked>>
panelVars == <<p, pTarget, pScale, pShown>>

vars == <<part, itemsVars, geometryVars, statisticsVars, zoomVars, panelVars>>

Init ==
    /\ part \in {"items", "geometry", "statistics", "zoom", "pointer",
                 "target", "scale"}
    /\ Items!Init /\ Geometry!Init /\ Statistics!Init /\ Zoom!Init /\ Panel!Init
    /\ part # "items" => uRemote
    /\ part # "geometry" => kKind = "box" /\ kCentre
    /\ part # "statistics" => bRemote
    /\ part # "zoom" => w.width = 1
    /\ part # "scale" => pScale.min = 0 /\ ~pScale.auto

\* A bound on the regions beside the two boxes in the window of a client.
FewRegions == uRemote => \A i \in Extra \ RemoteExtra : uKind'[i] = "none"

Next ==
    /\ part' = part
    /\ \/ /\ part = "items" /\ Items!Next /\ FewRegions
          /\ UNCHANGED <<geometryVars, statisticsVars, zoomVars, panelVars>>
       \/ /\ part = "geometry" /\ Geometry!Next
          /\ UNCHANGED <<itemsVars, statisticsVars, zoomVars, panelVars>>
       \/ /\ part = "statistics" /\ Statistics!Next
          /\ UNCHANGED <<itemsVars, geometryVars, zoomVars, panelVars>>
       \/ /\ part = "zoom" /\ Zoom!Next
          /\ UNCHANGED <<itemsVars, geometryVars, statisticsVars, panelVars>>
       \/ /\ part = "pointer" /\ Panel!PointerNext
          /\ UNCHANGED <<itemsVars, geometryVars, statisticsVars, zoomVars>>
       \/ /\ part = "target" /\ Panel!TargetNext
          /\ UNCHANGED <<itemsVars, geometryVars, statisticsVars, zoomVars>>
       \/ /\ part = "scale" /\ Panel!ScaleNext
          /\ UNCHANGED <<itemsVars, geometryVars, statisticsVars, zoomVars>>

Spec == Init /\ [][Next]_vars

\* The colour scale is taken from a box exactly while the box is shown.
ScaleBoxShown == Items!ScaleBoxShown

\* A resize keeps the anchor of the region, a move keeps its size.
DragKeepsAnchor == Geometry!DragKeepsAnchor

\* The statistics shown are those of the box, where the mode says.
ReadoutBelongsToBox == Statistics!ReadoutBelongsToBox

\* A shown image and the regions over it are drawn for the zoom there is.
PensFit == Zoom!PensFit

\* The zoom is the one asked for last, and the panel shows it.
ZoomAgrees == Zoom!ZoomAgrees

\* The tools of the control panel say what they do.
PanelTells == Panel!PanelTells
=============================================================================
