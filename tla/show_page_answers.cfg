SPECIFICATION FairSpec
CONSTANTS
  a = a
  b = b
  Home = Home
  None = None
  Pages = {a, b}
  Requests <- MCPageRequests
  MaxRequests = 2
  Rank <- MCRank
  Attached0 = {b}
  ShowOnNavigationReady = TRUE
  ShowLoadPage = FALSE
  MayLeave = {b}
  MaxUnloads = 1
  MaxHides = 0
CHECK_DEADLOCK FALSE
PROPERTY EveryCallEnds
PROPERTY LastWins
PROPERTY Opens
