SPECIFICATION FairSpec
CONSTANTS
  a = a
  b = b
  c = c
  Objects = {a, b, c}
  Name <- MCName
  ParentName <- MCParentName
  Urls <- MCUrls
  Paths <- MCPaths
  Chars <- MCChars
  PathsValid = TRUE
  MaxUrls = 1
CHECK_DEADLOCK FALSE
INVARIANT TypeOK
INVARIANT FlagsFollowConfig
INVARIANT SearchFinds
INVARIANT PagesFound
INVARIANT MatchesAreParts
INVARIANT WholePartsMatch
PROPERTY ConfigsTakeEffect
