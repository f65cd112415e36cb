SPECIFICATION Spec
CONSTANTS
  None = None
  Keys <- SmallKeyboard
  ModifierOf <- KeyModifier
  Bindings <- Chords
  StartKey = "S"
  LockKey = "L"
  MaxDown = 3
  MaxMissed = 0
INVARIANT
  KeysNeverStick
