SPECIFICATION FairSpec
CONSTANTS
  a = a
  b = b
  Gui = Gui
  Loaders = {a, b}
  Hidden0 = {b}
  Invisible0 = {}
  BadSo = {}
  NoSo = {a}
  ShowOnNavigationReady = TRUE
  MaxThreads = 2
  MaxHideChanges = 1
  MaxToggles = 2
CHECK_DEADLOCK FALSE
PROPERTY LoadFinishes
PROPERTY VisibleLoadsUnlessInterrupted
PROPERTY ImplementsPhases
