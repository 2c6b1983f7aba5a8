SPECIFICATION Spec
CONSTANTS
  Writers = {w1}
  Delayers = {}
  Resetters = {r1}
  Size = 8
  Modulus = 16
  Batches = {12}
  MaxCalls = 1
  Preempt = FALSE
  Signals = FALSE
  CanUnload = FALSE
  Junk = junk
  none = none
INVARIANT NotBothAsleep
CHECK_DEADLOCK FALSE
