SPECIFICATION FairSpec
CONSTANTS
  Drivers = {"module", "server"}
  Regs = {5, 58}
  Values = {165}
  MaxWrites = 1
  none = none
INVARIANTS TypeOK PinsEndUpSet
PROPERTIES SetUpEnds UndisturbedWriteLands NothingElseLands
CHECK_DEADLOCK FALSE
