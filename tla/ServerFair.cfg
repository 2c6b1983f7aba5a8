SPECIFICATION FairSpec
CONSTANTS
  FIFO_MAX = 64
  Size = 32
  Packets <- AllPackets
  MaxFrames = 8
  MaxClock = 8
  Byte <- MCByte
  Junk = junk
PROPERTIES IsFramePipe AcceptedIsPlayed BusyIsTemporary
CHECK_DEADLOCK FALSE
