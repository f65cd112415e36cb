SPECIFICATION PartsSpec
CONSTANTS
  None = None
  Monitors = {1, 2}
  NavOrder <- LeftToRight
  ManagedBindings = {}
  DefaultMode = "Normal"
  Handles = {1, 2}
  Class <- PlainAndHeld
  UserCommands = {"focus-next", "move-to-monitor", "cycle-column-width"}
  MaxChanges = 3
  MaxCommands = 1
  MaxChannel = 1
  Hwnds = {1, 2}
  Looks <- MixedLooks
  Displays <- TwoDisplays
  MaxShifts = 1
  Views = {2, 3}
  Gap = 1
  ScrollStep = 2
  OpenWidths = {1, 3}
  MinWidths = {3}
  MaxColumns = 3
\* The bounds end the behaviours, and an event that fails ends the daemon.
CHECK_DEADLOCK FALSE
PROPERTIES
  LiveClaimHolds
  OnlyStaleSnapshotsForget
  DesktopIsCaughtUp
  CandidatesAreTracked
  OnlySurfacesAreDropped
  OnlyReturnsStrandTheStrip
  OnlyOthersHideTheFocus
