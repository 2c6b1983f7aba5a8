SPECIFICATION Spec
CONSTANTS
  Writers = {w1, w2}
  Delayers = {d1}
  Resetters = {r1}
  Size = 8
  Modulus = 16
  Batches = {4, 12}
  MaxCalls = 1
  Preempt = FALSE
  Signals = TRUE
  CanUnload = TRUE
  Junk = junk
  none = none
INVARIANTS TypeOK FramesIntact ReaderIsWoken
CHECK_DEADLOCK FALSE
