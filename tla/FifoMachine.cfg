SPECIFICATION Spec
CONSTANTS
  FIFO_MAX = 8
  Size = 4
  Byte = {0, 1}
  Junk = junk
INVARIANT TypeOK
PROPERTY IsByteQueue
