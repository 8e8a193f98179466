SPECIFICATION Spec
CONSTANTS
  Values = {0, 1, 2}
  MaxPicks = 3
  MaxSent = 2
  MaxTrouble = 1
  Pairs = {"off", "on", "masked"}
  Default = "off"
  MaxWishes = 3
  MaxFaults = 2
  MaxEpochs = 3
  MaxLosses = 3
  Rpcs = {"connection", "image", "info", "unary"}
  MaxEvents = 1
INVARIANTS QueuedHasCarrier LastWishWins LastPairWins NothingOutlives
PROPERTIES WishArrives DetailsArrive DestructorEnds
CHECK_DEADLOCK FALSE
