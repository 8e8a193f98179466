SPECIFICATION Spec
CONSTANTS
  Stats = st
  Colour = co
  Extra = {e1}
  RemoteExtra = {}
  NoItem = none
  Modes = {"global", "box"}
  Tol = 1
  Reach = 1
  Side = 3
  MaxMoves = 2
  MaxRects = 3
  ZoomMin = 1
  ZoomMax = 4
  Positions = 2
  Widths = {1, 2}
  Sizes = {1, 2}
  Regions = {"stats", "overlay"}
  Values = {1, 3}
  Scales = {0, 1, 2, 3, 4, 5}
INVARIANTS ScaleBoxShown DragKeepsAnchor ReadoutBelongsToBox PensFit ZoomAgrees 
CHECK_DEADLOCK FALSE
