----------------------------- MODULE MCSidServer -----------------------------
(***************************************************************************)
(* Small instances of SidServer: bytes, and the packets of each run.       *)
(***************************************************************************)
EXTENDS SidServer

MCByte == UNION { FrameByte(n) : n \in 0 .. MaxFrames - 1 }

Whole(cmd, n) == [ cmd |-> cmd, dataLength |-> n, got |-> n + 4 ]

WritePackets ==
  { Whole("TRY_WRITE", 4), Whole("TRY_WRITE", 12), Whole("TRY_DELAY", 2),
    Whole("GET_VERSION", 0) }

(* One packet or more of every kind of command, writes below and of half a *)
(* ring of 32, and packets that fail each of the three checks.             *)
AllPackets ==
  { Whole("TRY_WRITE", 4), Whole("TRY_WRITE", 12), Whole("TRY_WRITE", 16),
    Whole("TRY_WRITE", 0), Whole("TRY_WRITE", 6),
    Whole("TRY_DELAY", 2), Whole("TRY_DELAY", 1), Whole("FLUSH", 0),
    Whole("MUTE", 2), Whole("TRY_RESET", 1), Whole("TRY_READ", 7),
    Whole("TRY_READ", 4), Whole("GET_VERSION", 0), Whole("SET_THRESHOLD", 0),
    Whole("GET_CONFIG_COUNT", 0), Whole("GET_CONFIG_INFO", 0),
    [ cmd |-> "FLUSH", dataLength |-> 0, got |-> 3 ],
    [ cmd |-> "TRY_WRITE", dataLength |-> 8, got |-> 8 ] }
=============================================================================
