CONSTANTS
  Config = {c1, c2}
  NoConfig = NoConfig
  NoDaemon = NoDaemon
  Overlaps = {}
  MaxSpawns = 3
  MaxUpsets = 2
SPECIFICATION Spec
CHECK_DEADLOCK FALSE
INVARIANTS
  OneDaemonServes
  CurrentSettingsServed
PROPERTIES
  EventuallyServed
