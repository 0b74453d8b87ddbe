SPECIFICATION Spec
CONSTANTS
  a = a
  b = b
  Gui = Gui
  Loaders = {a, b}
  Hidden0 = {}
  Invisible0 = {}
  BadSo = {b}
  NoSo = {}
  ShowOnNavigationReady = FALSE
  MaxThreads = 1
  MaxHideChanges = 2
  MaxToggles = 0
CHECK_DEADLOCK FALSE
INVARIANT TypeOK
INVARIANT DataSettled
INVARIANT OneMain
INVARIANT NavigationFirst
INVARIANT NoTaskAfterDelete
PROPERTY ImplementsPhases
PROPERTY OneDataTask
