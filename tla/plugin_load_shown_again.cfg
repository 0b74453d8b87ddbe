SPECIFICATION FairSpec
CONSTANTS
  a = a
  b = b
  Gui = Gui
  Loaders = {a, b}
  Hidden0 = {}
  Invisible0 = {}
  BadSo = {}
  NoSo = {}
  ShowOnNavigationReady = FALSE
  MaxThreads = 1
  MaxHideChanges = 2
  MaxToggles = 0
CHECK_DEADLOCK FALSE
PROPERTY VisibleLoadsUnlessOverlap
