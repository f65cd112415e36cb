SPECIFICATION Spec
CONSTANTS
  None = None
  Monitors = {1}
  NavOrder <- OneMonitor
  ManagedBindings = {}
  DefaultMode = "Normal"
  MaxWindows = 2
  Discoveries <- AnyWindow
  Commands = {"floating", "fullscreen", "tabs", "navigation"}
  Clients = {"keys", "ipc"}
\* The daemon may stop: an event that fails ends it.
CHECK_DEADLOCK FALSE
INVARIANTS
  TypeOK
  WindowsPlacedOnce
  ModesRoundTrip
  FailedRequestsChangeNothing
PROPERTY
  OnlyFloatedFullscreenMixesFlags
