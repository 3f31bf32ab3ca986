SPECIFICATION Spec
CONSTANTS
  Styles <- MCStyles
  Body <- MCBody
  MaxTicks = 4
  MaxDelay = 1
CHECK_DEADLOCK FALSE
INVARIANT Inv
INVARIANT Agree
PROPERTY Kept
PROPERTY Happens
