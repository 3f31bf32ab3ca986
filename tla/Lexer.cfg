SPECIFICATION Spec
CONSTANTS
  Programs <- MCPrograms
  Known <- Words
CHECK_DEADLOCK FALSE
INVARIANT AsWritten
INVARIANT SameFromFile
PROPERTY NothingLost
