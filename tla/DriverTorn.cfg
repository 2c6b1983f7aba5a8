SPECIFICATION Spec
CONSTANTS
  Writers = {w1}
  Delayers = {}
  Resetters = {}
  Size = 8
  Modulus = 16
  Batches = {4}
  MaxCalls = 1
  Preempt = TRUE
  Signals = FALSE
  CanUnload = FALSE
  Junk = junk
  none = none
INVARIANT FramesIntact
CHECK_DEADLOCK FALSE
