SPECIFICATION Spec
CONSTANTS
  None = None
  Monitors = {1, 2}
  NavOrder <- LeftToRight
  ManagedBindings = {}
  DefaultMode = "Normal"
  MaxWindows = 2
  Discoveries <- TiledWindow
  Commands = {"navigation", "activation", "monitors", "columns"}
  Clients = {"keys", "ipc"}
\* The daemon may stop: an event that fails ends it.
CHECK_DEADLOCK FALSE
INVARIANTS
  WorkspacesCohere
  FocusCoherent
  ColumnsPartitioned
PROPERTIES
  OthersCloseQuietly
