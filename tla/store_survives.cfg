SPECIFICATION Spec
CONSTANTS
  None = None
  Monitors = {1}
  NavOrder <- OneMonitor
  ManagedBindings = {}
  DefaultMode = "Normal"
  MaxWindows = 1
  Discoveries <- TiledWindow
  Commands = {"activation"}
  Clients = {"keys"}
\* The daemon may stop: an event that fails ends it.
CHECK_DEADLOCK FALSE
PROPERTIES
  SurvivesDestroy
