SPECIFICATION FairSpec
CONSTANTS
  Writers = {w1, w2}
  Delayers = {}
  Resetters = {}
  Size = 4
  Modulus = 8
  Batches = {6}
  MaxCalls = 1
  Preempt = TRUE
  Signals = FALSE
  CanUnload = TRUE
  Junk = junk
  none = none
INVARIANTS QueueHoldsStream ReaderIsWoken NotBothAsleep
PROPERTIES CallsReturn AllIsTaken
CHECK_DEADLOCK FALSE
