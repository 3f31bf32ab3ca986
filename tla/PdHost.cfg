SPECIFICATION Spec
CONSTANTS
  BUFSIZE = 4
  Size <- MCSize
  Files = {"there"}
  Missing = {"gone"}
  MaxMessages = 4
CHECK_DEADLOCK FALSE
INVARIANT Inv
INVARIANT AsSent
