SPECIFICATION FairSpec
CONSTANTS
  a = a
  b = b
  Home = Home
  None = None
  Pages = {a, b}
  Requests <- MCOneRequest
  MaxRequests = 2
  Rank <- MCRank
  Attached0 = {}
  ShowOnNavigationReady = TRUE
  ShowLoadPage = FALSE
  MayLeave = {}
  MaxUnloads = 0
  MaxHides = 0
CHECK_DEADLOCK FALSE
PROPERTY OpensAnyway
