SPECIFICATION Spec
CONSTANTS
  SPORTH_STACK_SIZE = 4
  Strings <- MCStrings
  Sig <- MCSig
  Programs <- MCFilePrograms
  Globals <- MCGlobals
  nchan = 1
  CheckStack = FALSE
CHECK_DEADLOCK FALSE
INVARIANT RunsClean
INVARIANT ReadyUntilRefused
