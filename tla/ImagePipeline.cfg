SPECIFICATION FairSpec
CONSTANTS
  Qt = Qt
  Free = Free
  s1 = s1
  Setters <- MCSetters
  MaxFrames = 2
  MaxSettings = 2
  MaxInputs = 2
INVARIANTS
  SelectionMatches StatsCoherent
PROPERTIES
  StatsSettle CallsReturn
