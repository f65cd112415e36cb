SPECIFICATION InputSpec
CONSTANTS
  None = None
  Keys <- Keyboard
  ModifierOf <- KeyModifier
  Bindings <- Chords
  StartKey = "S"
  LockKey = "L"
  MaxDown = 3
  MaxMissed = 1
  BoundChords <- ThreeChords
  Foreign <- NoChords
  MaxGen = 3
  MaxPress = 4
  MaxFails = 1
  Fingers = {0, 1, 2, 3}
  Steps <- SmallSteps
  Step = 180
  Gap = 40
  GestureKeys <- BoundGestures
  MaxScans = 4
  MaxLost = 1
  Scenes = {"a", "b"}
  Nothing = "-"
  MaxAsks = 3
  MaxBreaks = 2
  MaxShots = 2
  Screen = 2
  Grab = 0
  MaxClicks = 2
  MaxOrders = 1
  MaxFaults = 1
\* The bounds end the behaviours, and the daemon may exit.
CHECK_DEADLOCK FALSE
INVARIANTS
  TriggerIsHeld
  
  NoChordIsLost
  RepeatsEnd
  SwipesAreObeyed
  ClicksStayWhole
PROPERTIES
  KeepsPromise
  ThawsInTheEnd
  PreviewEndsWithDrag
