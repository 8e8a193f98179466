SPECIFICATION Spec
CONSTANTS
  Qt = Qt
  Free = Free
  s1 = s1
  Setters <- MCSetters
  MaxFrames = 1
  MaxSettings = 1
  MaxInputs = 0
INVARIANTS
  ConnectedHasImage
