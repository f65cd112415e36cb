SPECIFICATION DiscoverySpec
CONSTANTS
  Hwnds = {1, 2}
  Looks <- MixedLooks
  Displays <- TwoDisplays
  MaxShifts = 1
\* The bound ends the changes of the desktop.
CHECK_DEADLOCK FALSE
PROPERTY
  StableWindowsAreTracked
