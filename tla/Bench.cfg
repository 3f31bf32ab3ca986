SPECIFICATION Spec
CONSTANTS
  SPORTH_STACK_SIZE = 32
  Strings <- MCStrings
  Symbols <- MCSymbols
  Grammars <- MCGrammars
  Orders <- MCOrders
  MaxTriggers = 10
CHECK_DEADLOCK FALSE
INVARIANT ArgsChecked
INVARIANT ModesAgree
INVARIANT Derives
