SPECIFICATION Spec
CONSTANTS
  Width = 4
  SP_BUFSIZE = 3
  Lengths <- SomeLengths
  MaxChanges = 2
  MaxSamples = 18
CHECK_DEADLOCK FALSE
INVARIANT Total
INVARIANT Inv
PROPERTY Ends
