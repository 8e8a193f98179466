SPECIFICATION FairSpec
CONSTANTS
  h1 = h1
  h2 = h2
  r1 = r1
  r2 = r2
  Qt = Qt
  Cleaner = Cleaner
  NoRequest = NoRequest
  Unlocked = Unlocked
  Requests <- MCRequests
  Handlers <- MCOneHandler
  MaxChanges = 1
PROPERTIES
  CallsAreAnswered
  ImplementsService
