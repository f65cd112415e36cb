SPECIFICATION Spec
CONSTANTS
  None = None
  Monitors = {1}
  NavOrder <- OneMonitor
  ManagedBindings = {}
  DefaultMode = "Tabbed"
  MaxWindows = 3
  Discoveries <- TabbedWindow
  Commands = {"navigation", "tabs", "floating"}
  Clients = {"keys"}
\* The daemon may stop: an event that fails ends it.
CHECK_DEADLOCK FALSE
INVARIANT
  ColumnSelection
