SPECIFICATION Spec
CONSTANTS
  SPORTH_STACK_SIZE = 8
  Strings <- MCStrings
  Sig <- MCSig
  Codes <- MCCodes
  Files <- MCFiles
  Patches <- MCPatches
  MaxOpen = 4
  nchan = 1
CHECK_DEADLOCK FALSE
INVARIANT Inv
INVARIANT InOrder
INVARIANT RunsAsParsed
INVARIANT AllReleased
INVARIANT Transparent
PROPERTY Ends
