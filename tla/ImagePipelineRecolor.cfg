SPECIFICATION Spec
CONSTANTS
  Qt = Qt
  Free = Free
  s1 = s1
  Setters <- MCSetters
  MaxFrames = 2
  MaxSettings = 2
  MaxInputs = 0
INVARIANTS
  RecolorIsComing
