SPECIFICATION FairSpec
CONSTANTS
  Window = 2
  MaxSerial = 2
  MaxFaults = 3
  MaxEvents = 2
  MaxReports = 2
  LastName = 1
INVARIANTS NeverSilent FilterNotAhead
PROPERTIES AppliedInOrder KeepsAsking
