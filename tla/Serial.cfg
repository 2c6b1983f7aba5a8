SPECIFICATION Spec
CONSTANTS
  Addrs = {5, 58}
  Datas = {90, 165}
  MaxWrites = 3
  none = none
INVARIANTS TypeOK StrobedIsAsked
PROPERTY NothingElseTaken
CHECK_DEADLOCK FALSE
