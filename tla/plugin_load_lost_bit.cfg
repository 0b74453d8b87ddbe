SPECIFICATION FairSpec
CONSTANTS
  a = a
  b = b
  Gui = Gui
  Loaders = {a, b}
  Hidden0 = {}
  Invisible0 = {}
  BadSo = {}
  NoSo = {}
  ShowOnNavigationReady = FALSE
  MaxThreads = 2
  MaxHideChanges = 0
  MaxToggles = 0
CHECK_DEADLOCK FALSE
PROPERTY VisibleLoads
