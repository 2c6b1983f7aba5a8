SPECIFICATION Spec
CONSTANTS
  Users = {u1, u2}
  MaxLoads = 3
INVARIANTS TypeOK ThreadHasPins MapsInsideRegions UsersAreServed FailedLoadLeaves
PROPERTY CleanCycle
CHECK_DEADLOCK FALSE
