SPECIFICATION Spec
CONSTANTS
  MaxSent = 3
  Pieces = 2
  Bad <- Second
  Full <- Third
CHECK_DEADLOCK FALSE
INVARIANT Inv
INVARIANT Undisturbed
INVARIANT LostOnlyInRaces
PROPERTY Promise
PROPERTY Answered
