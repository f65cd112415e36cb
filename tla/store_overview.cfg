SPECIFICATION Spec
CONSTANTS
  None = None
  Monitors = {1}
  NavOrder <- OneMonitor
  ManagedBindings = {}
  DefaultMode = "Normal"
  MaxWindows = 2
  Discoveries <- PlainWindow
  Commands = {"columns", "overview", "resize"}
  Clients = {"keys", "ipc"}
\* The daemon may stop: an event that fails ends it.
CHECK_DEADLOCK FALSE
INVARIANTS
  DragEndsWell
PROPERTIES
  OnlyDirectFocusMisplacesMark
