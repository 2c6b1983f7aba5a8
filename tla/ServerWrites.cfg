SPECIFICATION Spec
CONSTANTS
  FIFO_MAX = 64
  Size = 32
  Packets <- WritePackets
  MaxFrames = 12
  MaxClock = 13
  Byte <- MCByte
  Junk = junk
INVARIANTS TypeOK FramesIntact WholeFrames NoByteRefused NoByteMissing BusyMeansPlaying ClockLead
PROPERTY IsFramePipe
CHECK_DEADLOCK FALSE
