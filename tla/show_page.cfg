SPECIFICATION Spec
CONSTANTS
  a = a
  b = b
  Home = Home
  None = None
  Pages = {a, b}
  Requests <- MCRequests
  MaxRequests = 2
  Rank <- MCRank
  Attached0 = {}
  ShowOnNavigationReady = TRUE
  ShowLoadPage = FALSE
  MayLeave = {b}
  MaxUnloads = 1
  MaxHides = 1
CHECK_DEADLOCK FALSE
INVARIANT TypeOK
INVARIANT Accounted
PROPERTY ExitOnlyUnasked
PROPERTY CommandDelivered
