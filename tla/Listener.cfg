SPECIFICATION FairSpec
CONSTANTS
  Direct = {d1, d2}
  Proxied = {p1}
  Hasty = {d2}
  MaxPackets = 2
  none = none
INVARIANTS TypeOK AnswersInOrder
PROPERTIES IsRequestReply NextIsServed
CHECK_DEADLOCK FALSE
