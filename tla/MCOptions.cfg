\* Every option, three per command line, three operands.
CONSTANTS
  OptionSet <- AllOptions
  Operands = {foo, bar}
  MaxOptions = 3
  MaxOperands = 3
SPECIFICATION Spec
CHECK_DEADLOCK FALSE
INVARIANTS TypeOK RanksFollowOrder OpIsFirstGiven NeedsOfChosenOp OperandsKept HandoverWellFormed
PROPERTY OpLatched
