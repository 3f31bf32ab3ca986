SPECIFICATION Spec
CONSTANTS
  SPORTH_STACK_SIZE = 5
  Strings <- MCStrings
  Sig <- MCSig
  Programs <- MCPrograms
  Globals <- MCGlobals
  nchan = 1
  CheckStack = TRUE
CHECK_DEADLOCK FALSE
INVARIANT TypeOK
INVARIANT Paired
INVARIANT NoUseAfterFree
INVARIANT FreedOnce
PROPERTY NothingLeaked
PROPERTY HotSwapSpec
