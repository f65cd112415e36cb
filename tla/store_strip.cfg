SPECIFICATION Spec
CONSTANTS
  None = None
  Monitors = {1, 2}
  NavOrder <- LeftToRight
  ManagedBindings = {2}
  DefaultMode = "Normal"
  MaxWindows = 2
  Discoveries <- WindowBefore
  Commands = {"activation", "order", "monitors"}
  Clients = {"keys"}
\* The daemon may stop: an event that fails ends it.
CHECK_DEADLOCK FALSE
INVARIANT
  NormalForm
PROPERTIES
  OrdinaryMonitorsLeftAlone
  OrderIsKept
  EndsOnlyWithAWorkspace
