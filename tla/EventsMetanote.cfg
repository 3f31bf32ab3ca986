SPECIFICATION Spec
CONSTANTS
  Styles <- OnlyProgression
  Body <- MCBody
  MaxTicks = 4
  MaxDelay = 1
CHECK_DEADLOCK FALSE
INVARIANT OnTime
