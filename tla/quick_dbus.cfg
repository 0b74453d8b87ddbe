SPECIFICATION FairSpec
CONSTANTS
  a = a
  b = b
  Clients = {a, b}
  Values = {1, 2}
  None = None
  MaxWrites = 2
  MaxChanges = 1
  MaxToggles = 2
  MaxRefusals = 1
CHECK_DEADLOCK FALSE
INVARIANT TypeOK
INVARIANT CacheIsCurrent
INVARIANT PropertyIsCurrent
INVARIANT LastWriteHolds
PROPERTY CallsEnd
