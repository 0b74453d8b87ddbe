SPECIFICATION Spec
CONSTANTS
  a = a
  m = m
  b = b
  b2 = b2
  g = g
  c = c
  Root = Root
  Hide = Hide
  NoAdd = NoAdd
  NoParent = NoParent
  None = None
  Objects = {a, m, b, b2, g, c}
  Name <- MCName
  ParentName <- MCParentName
  Owner <- MCOwner
  Repeated = {b, b2}
  Searchable = {a, b, b2, c}
  ConfigHidden = {b2}
  Weight0 <- MCWeight
  Weights = {2}
  MaxChanges = 2
CHECK_DEADLOCK FALSE
INVARIANT TypeOK
INVARIANT ListsAgree
INVARIANT KidsSorted
INVARIANT LinkedIsInTree
INVARIANT NothingDangles
INVARIANT NothingLeftBehind
INVARIANT HiddenLeaves
INVARIANT SearchMatchesTree
INVARIANT BatchUnseen
PROPERTY LoopsEnd
