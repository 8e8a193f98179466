SPECIFICATION Spec
CONSTANTS
  MaxFrames = 3
  MaxWrites = 2
  MaxSteps = 2
  Uint = 65536
  MaxStreams = 2
  MaxDowns = 2
  Pixels = {"p", "q"}
  MaxMoves = 3
  MaxShown = 2
  MaxFaults = 1
  Frames = 2
  Sizes = {1, 2}
  MaxInputs = 3
  MaxRewrites = 1
  Rates = {0, 6}
  Timeouts = {2, 3}
  Second = 12
  Keys = {"h", "i", "w", "z"}
  Plugins = {"a"}
  Unused = "unused"
  MaxLines = 2
  MaxVersion = 3
INVARIANTS DeltaIsModular ReadsWithinBuffer ValueIsOfPixel PanelMatches OverlayAgrees
PROPERTIES RewriteIsShown StreamIsFollowed FramesComeThrough OldValueGoes FrameIsShown
CHECK_DEADLOCK FALSE
