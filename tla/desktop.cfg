SPECIFICATION DesktopSpec
CONSTANTS
  Handles = {1, 2}
  Screens = {1, 2}
  MaxChanges = 2
  MaxFaults = 1
  MaxEnvelopes = 1
  MaxInterval = 2
  Owners = {1, 2}
  Ineligible = {2}
  MaxTurns = 3
  MaxMishaps = 1
  Windows = {1, 2, 3}
  Lenient = {3}
  Unruly = {1, 2}
  Narrow = {2}
  Far = {2}
  MaxStirs = 3
  Clients = {"c"}
  Watchers = {"w"}
  Requests = {"query", "dispatch", "reload", "malformed"}
  Orders = {"dispatch", "aside", "reload", "unwind", "quit"}
  MaxVersion = 2
  MaxOrders = 1
  MaxFailures = 1
\* The bounds end the behaviours, and the daemon may exit.
CHECK_DEADLOCK FALSE
INVARIANTS
  UnwindLeavesNothing
  OnlyDefianceUnwinds
PROPERTIES
  ObserverCatchesUp
  PresentationSettles
  DivergenceUnwinds
  ObedienceSettles
  RequestsAreAnswered
  WatchersCatchUp
