SPECIFICATION FairSpec
CONSTANTS
  Direct = {d1, d2}
  Proxied = {}
  Hasty = {}
  MaxPackets = 1
  none = none
PROPERTY EveryoneIsServed
CHECK_DEADLOCK FALSE
