--------------------------- MODULE SidServerProofs ---------------------------
(***************************************************************************)
(* The safety of the server's two threads, for every size of the ring and  *)
(* every set of packets: frames reach the chip whole and in order, no byte *)
(* is refused or missing, and BUSY is sent only while the ring drains.     *)
(***************************************************************************)
EXTENDS SidServer, FifoLemmas

(* Bytes put in the ring and taken out of it since the start.              *)
TotalIn  == 4 * accepted + field
TotalOut == 4 * played + (IF run \in { "get", "play" } THEN Len(got) ELSE 0)

(* The m-th byte of the client's stream of frames.                         *)
ByteNo(m) == << m \div 4, m % 4 >>

Handling == { "half", "room", "delay", "frame", "lock", "put" }
Writing  == { "frame", "lock", "put" }

(* The ring holds the stretch of the stream between what went in and what  *)
(* came out.                                                               *)
RingInv ==
  /\ FIFOCount(fifo) = TotalIn - TotalOut
  /\ \A k \in 0 .. FIFOCount(fifo) - 1 : At(fifo, k) = ByteNo(TotalOut + k)
  /\ queue # "srv" => field = 0

(* The SID thread holds the first bytes of a frame that was complete when  *)
(* it began to read, and it reads only once playback is on.                *)
RunInv ==
  run \in { "get", "play" } =>
    /\ \A k \in 1 .. Len(got) : got[k] = ByteNo(4 * played + k - 1)
    /\ played < accepted
    /\ isPlaybackReady = 1
    /\ run = "play" => Len(got) = 4

(* The main thread obeys a packet that passed the checks; while it writes, *)
(* the room it found is still there for the rest of the packet.            *)
SrvInv ==
  /\ srv = "setup" => run = "absent"
  /\ srv \in Handling => WellFormed(req) /\ UsesRing(req)
  /\ srv \in Writing => req.cmd = "TRY_WRITE"
  /\ srv \in Handling /\ req.cmd = "TRY_WRITE" =>
       4 * accepted + req.dataLength - (IF srv \in Writing THEN i ELSE 0)
         <= 4 * MaxFrames
  /\ srv \in Writing =>
       /\ i <= req.dataLength /\ i % 4 = 0
       /\ FIFOCount(fifo) + (req.dataLength - i - field) < Size
  /\ srv \in { "lock", "put" } => i < req.dataLength
  /\ srv = "room" /\ isPlaybackReady = 0 => 2 * FIFOCount(fifo) <= Size
  /\ FIFOCount(fifo) < Size

IInv == TypeOK /\ RingInv /\ RunInv /\ SrvInv /\ BusyMeansPlaying

-----------------------------------------------------------------------------
LEMMA SizePositive == Size \in Nat \ {0}
  BY ServerAssumption DEF ValidSize

LEMMA ByteNoLemma ==
  ASSUME NEW n \in Nat, NEW k \in 0 .. 3
  PROVE  ByteNo(4 * n + k) = <<n, k>>
  BY DEF ByteNo

LEMMA CountLemma ==
  ASSUME TypeOK
  PROVE  /\ FIFOCount(fifo) \in 0 .. Size
         /\ FIFOSize(fifo) = Size
         /\ FIFOCount(fifo) = fifo.fifo_count
  BY SizePositive, FIFOShape DEF TypeOK, FIFOCount, FIFOSize

LEMMA InitInv == Init => IInv
  <1> SUFFICES ASSUME Init
               PROVE  IInv
    OBVIOUS
  <1>1. fifo \in FIFO(Size) /\ FIFOCount(fifo) = 0
    BY SizePositive, InitLemma DEF Init, FIFOCount
  <1>2. << >> \in Seq(Byte) /\ Len(<< >>) = 0
    OBVIOUS
  <1>3. TypeOK
    BY <1>1, <1>2 DEF Init, TypeOK, Packet, Command, NoData, Reply
  <1>4. RingInv
    <2>1. TotalIn = 0 /\ TotalOut = 0 /\ field = 0
      BY DEF Init, TotalIn, TotalOut
    <2>2. QED
      BY <1>1, <2>1 DEF RingInv
  <1>5. RunInv
    BY DEF Init, RunInv
  <1>6. SrvInv
    BY <1>1, SizePositive DEF Init, SrvInv, Handling, Writing
  <1>7. BusyMeansPlaying
    BY DEF Init, BusyMeansPlaying, BusyForNow
  <1>8. QED
    BY <1>3, <1>4, <1>5, <1>6, <1>7 DEF IInv

(* Only what the ring, the counts of frames and the SID thread do matters  *)
(* to RingInv, and only playback beyond that to RunInv.                    *)
LEMMA QuietLemma ==
  ASSUME RingInv, RunInv,
         UNCHANGED << fifo, queue, field, accepted, played, got >>,
         run' = run \/ (run = "absent" /\ run' \notin { "get", "play" })
  PROVE  /\ RingInv'
         /\ run' = run /\ (isPlaybackReady = 1 => isPlaybackReady' = 1) => RunInv'
  <1>1. TotalIn' = TotalIn /\ TotalOut' = TotalOut
    BY DEF TotalIn, TotalOut
  <1>2. RingInv'
    BY <1>1 DEF RingInv
  <1>3. QED
    BY <1>2 DEF RunInv

(* The steps of the main thread that leave the ring and the mutex alone.   *)
LEMMA QuietServerStep ==
  ASSUME IInv,
         \/ Setup \/ Interrupt \/ StartPlayback \/ DelayRoom \/ DelayOver
         \/ WriteRoom \/ NextFrame
         \/ \E p \in Packets : Die(p) \/ Simple(p) \/ Queued(p)
  PROVE  IInv'
  <1> USE DEF IInv
  <1>1. CASE Setup
    <2>1. TypeOK'
      BY <1>1 DEF Setup, TypeOK, SrvInv
    <2>2. RingInv'
      BY <1>1, QuietLemma DEF Setup, SrvInv
    <2>3. RunInv' /\ SrvInv' /\ BusyMeansPlaying'
      BY <1>1 DEF Setup, RunInv, SrvInv, BusyMeansPlaying, BusyForNow, Handling, Writing
    <2>4. QED
      BY <2>1, <2>2, <2>3
  <1>2. CASE Interrupt
    <2>1. TypeOK'
      BY <1>2 DEF Interrupt, TypeOK, Reply, runVars
    <2>2. RingInv' /\ RunInv'
      BY <1>2, QuietLemma DEF Interrupt, runVars
    <2>3. SrvInv' /\ BusyMeansPlaying'
      BY <1>2, CountLemma, SizePositive
         DEF Interrupt, TypeOK, SrvInv, RingInv, BusyMeansPlaying, BusyForNow, WellFormed, UsesRing, Packet, Handling, Writing, runVars
    <2>4. QED
      BY <2>1, <2>2, <2>3
  <1>3. CASE StartPlayback
    <2>1. TypeOK'
      BY <1>3 DEF StartPlayback, TypeOK, Reply, runVars
    <2>2. RingInv' /\ RunInv'
      BY <1>3, QuietLemma DEF StartPlayback, runVars
    <2>3. SrvInv' /\ BusyMeansPlaying'
      BY <1>3, CountLemma, SizePositive
         DEF StartPlayback, IsBufferHalfFull, TypeOK, SrvInv, RingInv, BusyMeansPlaying, BusyForNow, WellFormed, UsesRing, Packet, Handling, Writing, runVars
    <2>4. QED
      BY <2>1, <2>2, <2>3
  <1>4. CASE DelayRoom
    <2>1. TypeOK'
      BY <1>4 DEF DelayRoom, TypeOK, Reply, runVars
    <2>2. RingInv' /\ RunInv'
      BY <1>4, QuietLemma DEF DelayRoom, runVars
    <2>3. ~IsFIFOFull(fifo)
      BY CountLemma DEF SrvInv, IsFIFOFull, FIFOCount, FIFOSize
    <2>4. SrvInv' /\ BusyMeansPlaying'
      BY <1>4, <2>3
         DEF DelayRoom, SrvInv, BusyMeansPlaying, BusyForNow, Handling, Writing, runVars
    <2>5. QED
      BY <2>1, <2>2, <2>4
  <1>5. CASE DelayOver
    <2>1. TypeOK'
      BY <1>5 DEF DelayOver, TypeOK, Reply, runVars
    <2>2. RingInv' /\ RunInv'
      BY <1>5, QuietLemma DEF DelayOver, runVars
    <2>3. SrvInv' /\ BusyMeansPlaying'
      BY <1>5, CountLemma, SizePositive
         DEF DelayOver, TypeOK, SrvInv, RingInv, BusyMeansPlaying, BusyForNow, WellFormed, UsesRing, Packet, Handling, Writing, runVars
    <2>4. QED
      BY <2>1, <2>2, <2>3
  <1>6. CASE WriteRoom
    <2>1. TypeOK'
      BY <1>6 DEF WriteRoom, TypeOK, Reply, runVars
    <2>2. RingInv' /\ RunInv'
      BY <1>6, QuietLemma DEF WriteRoom, runVars
    <2>3. CASE CanBufferAccept(req.dataLength)
      <3>1. /\ srv' = "frame" /\ i' = 0 /\ field = 0
            /\ UNCHANGED << req, reply, field, fifo, accepted, run, isPlaybackReady >>
        BY <1>6, <2>3 DEF WriteRoom, runVars, TypeOK, RingInv
      <3>2. /\ req.dataLength \in Nat /\ req.dataLength % 4 = 0
            /\ Size - FIFOCount(fifo) > req.dataLength
        BY <1>6, <2>3, CountLemma
           DEF WriteRoom, CanBufferAccept, SrvInv, WellFormed, TypeOK, Packet,
               Handling, NoData, OneByte, TwoBytes
      <3>3. /\ req.cmd = "TRY_WRITE"
            /\ WellFormed(req) /\ UsesRing(req)
            /\ 4 * accepted + req.dataLength - 0 <= 4 * MaxFrames
            /\ FIFOCount(fifo) \in Nat /\ FIFOCount(fifo) < Size
        BY <1>6, CountLemma DEF WriteRoom, SrvInv, Handling, Writing
      <3>4. 0 % 4 = 0 /\ 0 <= req.dataLength
        BY <3>2
      <3>5. FIFOCount(fifo) + (req.dataLength - 0 - 0) < Size
        BY <3>2, <3>3, SizePositive
      <3>6. SrvInv'
        BY <3>1, <3>3, <3>4, <3>5 DEF SrvInv, Handling, Writing
      <3>7. BusyMeansPlaying'
        BY <3>1 DEF BusyMeansPlaying, BusyForNow
      <3>8. QED
        BY <2>1, <2>2, <3>6, <3>7
    <2>4. CASE ~CanBufferAccept(req.dataLength)
      <3>1. /\ srv' = "read"
            /\ UNCHANGED << req, fifo, run, isPlaybackReady >>
        BY <1>6, <2>4 DEF WriteRoom, runVars
      <3>2. SrvInv'
        BY <3>1 DEF SrvInv, Handling, Writing
      <3>3. req.dataLength \in Nat /\ ~(Size - FIFOCount(fifo) > req.dataLength)
        BY <2>4, CountLemma DEF CanBufferAccept, TypeOK, Packet
      <3>4. isPlaybackReady = 0 => 2 * FIFOCount(fifo) <= Size
        BY <1>6 DEF WriteRoom, SrvInv
      <3>5. 2 * req.dataLength < Size => isPlaybackReady = 1
        BY <3>3, <3>4, CountLemma, SizePositive DEF TypeOK
      <3>6. BusyMeansPlaying'
        BY <3>1, <3>5 DEF BusyMeansPlaying, BusyForNow
      <3>7. QED
        BY <2>1, <2>2, <3>2, <3>6
    <2>5. QED
      BY <2>1, <2>2, <2>3, <2>4
  <1>7. CASE NextFrame
    <2>1. TypeOK'
      BY <1>7 DEF NextFrame, TypeOK, Reply, runVars
    <2>2. RingInv' /\ RunInv'
      BY <1>7, QuietLemma DEF NextFrame, runVars
    <2>3. SrvInv' /\ BusyMeansPlaying'
      BY <1>7, CountLemma, SizePositive
         DEF NextFrame, TypeOK, SrvInv, RingInv, BusyMeansPlaying, BusyForNow, WellFormed, UsesRing, Packet, Handling, Writing, runVars
    <2>4. QED
      BY <2>1, <2>2, <2>3
  <1>8. ASSUME NEW p \in Packets, Die(p)
        PROVE  IInv'
    <2>1. TypeOK'
      BY <1>8, ServerAssumption DEF Die, TypeOK, Reply, Answer, runVars
    <2>2. RingInv' /\ RunInv'
      BY <1>8, QuietLemma DEF Die, runVars
    <2>3. SrvInv' /\ BusyMeansPlaying'
      BY <1>8, ServerAssumption
         DEF Die, TypeOK, SrvInv, BusyMeansPlaying, BusyForNow, WellFormed, Packet, Handling, Writing, Answer, runVars
    <2>4. QED
      BY <2>1, <2>2, <2>3
  <1>9. ASSUME NEW p \in Packets, Simple(p)
        PROVE  IInv'
    <2>1. TypeOK'
      BY <1>9, ServerAssumption DEF Simple, TypeOK, Reply, Answer, runVars
    <2>2. RingInv' /\ RunInv'
      BY <1>9, QuietLemma DEF Simple, runVars
    <2>3. SrvInv' /\ BusyMeansPlaying'
      BY <1>9, ServerAssumption
         DEF Simple, TypeOK, SrvInv, BusyMeansPlaying, BusyForNow, WellFormed, Packet, Handling, Writing, Answer, runVars
    <2>4. QED
      BY <2>1, <2>2, <2>3
  <1>10. ASSUME NEW p \in Packets, Queued(p)
        PROVE  IInv'
    <2>1. TypeOK'
      BY <1>10, ServerAssumption DEF Queued, TypeOK, Reply, Answer, runVars
    <2>2. RingInv' /\ RunInv'
      BY <1>10, QuietLemma DEF Queued, runVars
    <2>3. /\ srv' = "half" /\ req' = p /\ reply' = "none"
          /\ UNCHANGED << fifo, accepted, run, isPlaybackReady >>
          /\ WellFormed(p) /\ UsesRing(p)
      BY <1>10 DEF Queued, runVars
    <2>4. p.cmd = "TRY_WRITE" => 4 * accepted + p.dataLength <= 4 * MaxFrames
      <3>1. p.dataLength \in Nat /\ MaxFrames \in Nat /\ accepted \in Nat
        BY ServerAssumption DEF Packet, TypeOK
      <3>2. p.cmd = "TRY_WRITE" => p.dataLength % 4 = 0
        BY <2>3 DEF WellFormed, NoData, OneByte, TwoBytes
      <3>3. p.cmd = "TRY_WRITE" => accepted + p.dataLength \div 4 <= MaxFrames
        BY <1>10 DEF Queued
      <3>4. QED
        BY <3>1, <3>2, <3>3
    <2>5. SrvInv'
      BY <2>3, <2>4, ServerAssumption DEF SrvInv, Handling, Writing, Packet, TypeOK
    <2>6. BusyMeansPlaying'
      BY <2>3 DEF BusyMeansPlaying, BusyForNow
    <2>7. QED
      BY <2>1, <2>2, <2>5, <2>6
  <1>11. QED
    BY <1>1, <1>2, <1>3, <1>4, <1>5, <1>6, <1>7, <1>8, <1>9, <1>10

-----------------------------------------------------------------------------
(* sidWrite.                                                               *)
LEMMA LockStep == ASSUME IInv, Lock PROVE IInv'
  <1> USE DEF IInv
  <1>1. field = 0 /\ field' = 0
    BY DEF Lock, RingInv
  <1>2. TypeOK'
    BY DEF Lock, TypeOK, runVars
  <1>3. RingInv'
    <2>1. TotalIn' = TotalIn /\ TotalOut' = TotalOut
      BY <1>1 DEF Lock, TotalIn, TotalOut, runVars
    <2>2. QED
      BY <1>1, <2>1 DEF Lock, RingInv
  <1>4. RunInv'
    BY DEF Lock, RunInv, runVars
  <1>5. SrvInv' /\ BusyMeansPlaying'
    BY <1>1 DEF Lock, SrvInv, BusyMeansPlaying, BusyForNow, Handling, Writing, runVars
  <1>6. QED
    BY <1>2, <1>3, <1>4, <1>5

LEMMA PutStep == ASSUME IInv, Put PROVE IInv'
  <1> USE DEF IInv
  <1>1. /\ field \in 0 .. 3 /\ accepted \in Nat /\ MaxFrames \in Nat
        /\ req.dataLength \in Nat /\ i \in Nat
    BY ServerAssumption DEF Put, TypeOK, Packet
  <1>2. /\ i < req.dataLength /\ i % 4 = 0 /\ req.dataLength % 4 = 0
        /\ 4 * accepted + req.dataLength - i <= 4 * MaxFrames
        /\ FIFOCount(fifo) + (req.dataLength - i - field) < Size
    BY DEF Put, SrvInv, Handling, Writing, WellFormed, NoData, OneByte, TwoBytes
  <1>3. req.dataLength - i >= 4
    BY <1>1, <1>2
  <1>4. <<accepted, field>> \in Byte
    <2>1. accepted \in 0 .. MaxFrames - 1
      BY <1>1, <1>2, <1>3
    <2>2. QED
      BY <1>1, <2>1, ServerAssumption DEF FrameByte
  <1>5. FIFOCount(fifo) \in Nat /\ FIFOCount(fifo) + 1 < Size
    BY <1>1, <1>2, <1>3, CountLemma, SizePositive
  <1>6. /\ fifo' \in FIFO(Size)
        /\ FIFOCount(fifo') = FIFOCount(fifo) + 1
        /\ At(fifo', FIFOCount(fifo)) = <<accepted, field>>
        /\ \A k \in 0 .. FIFOCount(fifo) - 1 : At(fifo', k) = At(fifo, k)
    <2>1. fifo.fifo_count < Size /\ fifo \in FIFO(Size)
      BY <1>5, SizePositive DEF FIFOCount, TypeOK
    <2>2. QED
      BY <1>4, <2>1, SizePositive, WriteLemma DEF Put, FIFOCount
  <1>7. TypeOK'
    BY <1>1, <1>6 DEF Put, TypeOK, runVars
  <1>8. TotalIn' = TotalIn + 1 /\ TotalOut' = TotalOut
    BY <1>1 DEF Put, TotalIn, TotalOut, runVars
  <1>9. TotalIn \in Nat /\ TotalOut \in Nat /\ TotalIn = 4 * accepted + field
    <2>1. played \in Nat /\ Len(got) \in Nat
      BY DEF TypeOK
    <2>2. TotalOut = 4 * played + Len(got) \/ TotalOut = 4 * played + 0
      BY DEF TotalOut
    <2>3. TotalOut \in Nat
      BY <2>1, <2>2
    <2>4. QED
      BY <1>1, <2>3 DEF TotalIn
  <1>10. RingInv'
    <2>1. FIFOCount(fifo) = TotalIn - TotalOut
      BY DEF RingInv
    <2>2. ByteNo(TotalOut + FIFOCount(fifo)) = <<accepted, field>>
      <3>1. TotalOut + FIFOCount(fifo) = 4 * accepted + field
        BY <1>9, <2>1
      <3>2. QED
        BY <1>1, <3>1, ByteNoLemma
    <2>3. ASSUME NEW k \in 0 .. FIFOCount(fifo') - 1
          PROVE  At(fifo', k) = ByteNo(TotalOut + k)
      <3>1. k = FIFOCount(fifo) \/ k \in 0 .. FIFOCount(fifo) - 1
        BY <1>5, <1>6
      <3>2. QED
        BY <1>6, <2>2, <3>1 DEF RingInv
    <2>4. queue' = "srv"
      BY DEF Put, TypeOK
    <2>5. FIFOCount(fifo') = TotalIn' - TotalOut'
      BY <1>6, <1>8, <1>9, <2>1
    <2>6. QED
      BY <1>8, <2>3, <2>4, <2>5 DEF RingInv
  <1>11. RunInv'
    BY DEF Put, RunInv, runVars
  <1>12. SrvInv'
    <2>1. /\ srv = "put" /\ field' = field + 1
          /\ UNCHANGED << srv, req, i, accepted, run, isPlaybackReady >>
      BY DEF Put, runVars
    <2>2. FIFOCount(fifo') + (req.dataLength - i - field') < Size
      BY <1>1, <1>2, <1>5, <1>6, <2>1, SizePositive
    <2>3. FIFOCount(fifo') < Size
      BY <1>5, <1>6
    <2>4. QED
      BY <2>1, <2>2, <2>3 DEF SrvInv, Handling, Writing
  <1>13. BusyMeansPlaying'
    BY DEF Put, BusyMeansPlaying, BusyForNow
  <1>14. QED
    BY <1>7, <1>10, <1>11, <1>12, <1>13

LEMMA UnlockStep == ASSUME IInv, Unlock PROVE IInv'
  <1> USE DEF IInv
  <1>1. /\ field = 4 /\ accepted \in Nat /\ MaxFrames \in Nat
        /\ req.dataLength \in Nat /\ i \in Nat
    BY ServerAssumption DEF Unlock, TypeOK, Packet
  <1>2. /\ srv = "put" /\ srv' = "frame" /\ field' = 0
        /\ i' = i + 4 /\ accepted' = accepted + 1
        /\ queue = "srv" /\ queue' = "none"
        /\ UNCHANGED << fifo, req, reply, run, got, played, isPlaybackReady >>
    BY DEF Unlock, TypeOK, runVars
  <1>3. TypeOK'
    BY <1>1, <1>2 DEF Unlock, TypeOK, runVars
  <1>4. RingInv'
    <2>1. TotalIn' = TotalIn /\ TotalOut' = TotalOut
      BY <1>1, <1>2 DEF TotalIn, TotalOut
    <2>2. QED
      BY <1>2, <2>1 DEF RingInv
  <1>5. RunInv'
    <2>1. played \in Nat
      BY DEF TypeOK
    <2>2. played < accepted => played < accepted'
      BY <1>1, <1>2, <2>1
    <2>3. QED
      BY <1>2, <2>2 DEF RunInv
  <1>6. SrvInv'
    <2>1. /\ i < req.dataLength /\ i % 4 = 0 /\ req.dataLength % 4 = 0
          /\ 4 * accepted + req.dataLength - i <= 4 * MaxFrames
          /\ FIFOCount(fifo) + (req.dataLength - i - field) < Size
          /\ WellFormed(req) /\ UsesRing(req) /\ req.cmd = "TRY_WRITE"
          /\ FIFOCount(fifo) < Size
      BY <1>2 DEF SrvInv, Handling, Writing, WellFormed, NoData, OneByte, TwoBytes
    <2>2. i + 4 <= req.dataLength /\ (i + 4) % 4 = 0
      BY <1>1, <2>1
    <2>3. 4 * accepted' + req.dataLength - i' <= 4 * MaxFrames
      BY <1>1, <1>2, <2>1
    <2>4. FIFOCount(fifo) + (req.dataLength - i' - field') < Size
      BY <1>1, <1>2, <2>1, CountLemma, SizePositive
    <2>5. QED
      BY <1>2, <2>1, <2>2, <2>3, <2>4 DEF SrvInv, Handling, Writing
  <1>7. BusyMeansPlaying'
    BY <1>2 DEF BusyMeansPlaying, BusyForNow
  <1>8. QED
    BY <1>3, <1>4, <1>5, <1>6, <1>7

-----------------------------------------------------------------------------
(* The SID thread.                                                         *)

(* Nothing the main thread relies on moves.                                *)
LEMMA QuietRunner ==
  ASSUME SrvInv, BusyMeansPlaying,
         UNCHANGED << srvVars, isPlaybackReady, fifo >>,
         srv # "setup"
  PROVE  SrvInv' /\ BusyMeansPlaying'
  BY DEF SrvInv, BusyMeansPlaying, BusyForNow, srvVars, Handling, Writing

LEMMA SetUp ==
  ASSUME IInv, run # "absent"
  PROVE  srv # "setup"
  BY DEF IInv, SrvInv

LEMMA RunLockStep == ASSUME IInv, RunLock PROVE IInv'
  <1> USE DEF IInv
  <1>1. TypeOK'
    BY DEF RunLock, TypeOK, srvVars
  <1>2. RingInv'
    <2>1. TotalIn' = TotalIn /\ TotalOut' = TotalOut
      BY DEF RunLock, TotalIn, TotalOut, srvVars
    <2>2. QED
      BY <2>1 DEF RunLock, RingInv, srvVars
  <1>3. RunInv'
    BY DEF RunLock, RunInv
  <1>4. SrvInv' /\ BusyMeansPlaying'
    BY SetUp, QuietRunner DEF RunLock
  <1>5. QED
    BY <1>1, <1>2, <1>3, <1>4

LEMMA RunCheckStep == ASSUME IInv, RunCheck PROVE IInv'
  <1> USE DEF IInv
  <1>1. field = 0 /\ queue = "run" /\ queue' \in { "run", "none" } /\ field' = field
    BY DEF RunCheck, RingInv, TypeOK, srvVars
  <1>2. TypeOK'
    <2>1. << >> \in Seq(Byte) /\ Len(<< >>) = 0
      OBVIOUS
    <2>2. got' \in Seq(Byte) /\ Len(got') \in 0 .. 4
      <3>1. got' = << >> \/ got' = got
        BY DEF RunCheck
      <3>2. got \in Seq(Byte) /\ Len(got) \in 0 .. 4
        BY DEF TypeOK
      <3>3. CASE got' = << >>
        BY <2>1, <3>3
      <3>4. CASE got' = got
        BY <3>2, <3>4
      <3>5. QED
        BY <3>1, <3>3, <3>4
    <2>3. QED
      BY <2>2 DEF RunCheck, TypeOK, srvVars
  <1>3. TotalIn' = TotalIn /\ TotalOut' = TotalOut
    <2>1. TotalOut = 4 * played /\ played \in Nat
      BY DEF RunCheck, TotalOut, TypeOK
    <2>2. run' = "get" => got' = << >>
      BY DEF RunCheck
    <2>3. QED
      BY <2>1, <2>2 DEF RunCheck, TotalIn, TotalOut, srvVars
  <1>4. RingInv'
    BY <1>1, <1>3 DEF RunCheck, RingInv
  <1>5. RunInv'
    <2>1. CASE run' = "get"
      <3>1. got' = << >> /\ FIFOCount(fifo) > 3 /\ isPlaybackReady = 1
        BY <2>1 DEF RunCheck
      <3>2. played < accepted
        <4>1. FIFOCount(fifo) = 4 * accepted - 4 * played
          BY <1>1 DEF RunCheck, RingInv, TotalIn, TotalOut, TypeOK
        <4>2. QED
          BY <3>1, <4>1 DEF TypeOK
      <3>3. QED
        BY <2>1, <3>1, <3>2 DEF RunCheck, RunInv, srvVars
    <2>2. CASE run' # "get"
      BY <2>2 DEF RunCheck, RunInv
    <2>3. QED
      BY <2>1, <2>2
  <1>6. SrvInv' /\ BusyMeansPlaying'
    BY SetUp, QuietRunner DEF RunCheck
  <1>7. QED
    BY <1>2, <1>4, <1>5, <1>6

(* A frame that was complete when the SID thread took the mutex still has  *)
(* its next byte at the front of the ring.                                 *)
LEMMA NextByte ==
  ASSUME IInv, run = "get", Len(got) < 4
  PROVE  /\ FIFOCount(fifo) > 0
         /\ At(fifo, 0) = ByteNo(4 * played + Len(got))
         /\ At(fifo, 0) \in Byte
         /\ field = 0
  <1> USE DEF IInv
  <1>1. field = 0
    BY DEF RingInv, TypeOK
  <1>2. Len(got) \in 0 .. 3 /\ played \in Nat /\ accepted \in Nat
    <2>1. Len(got) \in 0 .. 4 /\ played \in Nat /\ accepted \in Nat
      BY Zenon DEF TypeOK
    <2> DEFINE l == Len(got)
    <2>2. l \in 0 .. 4 /\ l < 4
      BY <2>1
    <2> HIDE DEF l
    <2>3. l \in 0 .. 3
      BY <2>2
    <2>4. QED
      BY <2>1, <2>3 DEF l
  <1>3. TotalOut = 4 * played + Len(got) /\ TotalIn = 4 * accepted
    BY <1>1, <1>2 DEF TotalIn, TotalOut
  <1>4. FIFOCount(fifo) > 0
    BY <1>2, <1>3 DEF RingInv, RunInv
  <1>5. 0 \in 0 .. FIFOCount(fifo) - 1 /\ TotalOut + 0 = 4 * played + Len(got)
    BY <1>2, <1>3, <1>4, CountLemma
  <1>6. At(fifo, 0) = ByteNo(4 * played + Len(got))
    BY <1>5 DEF RingInv
  <1>7. At(fifo, 0) \in Byte
    BY <1>5, SizePositive, FIFOBytes DEF TypeOK, FIFOCount
  <1>8. QED
    BY <1>1, <1>4, <1>6, <1>7

LEMMA RunGetStep == ASSUME IInv, RunGet PROVE IInv'
  <1> USE DEF IInv
  <1> DEFINE n == FIFOCount(fifo)
  <1>1. /\ n \in 1 .. Size
        /\ At(fifo, 0) = ByteNo(4 * played + Len(got))
        /\ At(fifo, 0) \in Byte
        /\ field = 0
    BY NextByte, CountLemma DEF RunGet
  <1>2. /\ fifo' \in FIFO(Size)
        /\ FIFOCount(fifo') = n - 1
        /\ \A k \in 0 .. n - 2 : At(fifo', k) = At(fifo, k + 1)
        /\ got' = Append(got, At(fifo, 0))
    <2>1. fifo.fifo_count > 0 /\ fifo \in FIFO(Size)
      BY <1>1, SizePositive DEF FIFOCount, TypeOK
    <2>2. QED
      BY <2>1, SizePositive, ReadLemma DEF RunGet, FIFOCount
  <1>3. /\ Len(got) \in 0 .. 3 /\ got \in Seq(Byte) /\ played \in Nat
        /\ accepted \in Nat /\ run = "get"
        /\ UNCHANGED << queue, isPlaybackReady, srv, req, i, field, reply, inputClock,
                        accepted, run, currentClock, played, chip >>
    BY DEF RunGet, TypeOK, srvVars
  <1> HIDE DEF n
  <1>4. /\ got' \in Seq(Byte) /\ Len(got') = Len(got) + 1
        /\ \A k \in 1 .. Len(got) : got'[k] = got[k]
        /\ got'[Len(got) + 1] = At(fifo, 0)
    BY <1>1, <1>2, <1>3, AppendProperties
  <1>5. TypeOK'
    BY <1>2, <1>3, <1>4 DEF TypeOK
  <1>6. /\ TotalIn' = TotalIn /\ TotalOut' = TotalOut + 1
        /\ TotalIn \in Nat /\ TotalOut \in Nat
    BY <1>1, <1>3, <1>4 DEF TotalIn, TotalOut
  <1>7. RingInv'
    <2>1. FIFOCount(fifo') = TotalIn' - TotalOut'
      BY <1>1, <1>2, <1>6 DEF RingInv, n
    <2>2. ASSUME NEW k \in 0 .. FIFOCount(fifo') - 1
          PROVE  At(fifo', k) = ByteNo(TotalOut' + k)
      <3>1. k \in 0 .. n - 2 /\ k + 1 \in 0 .. n - 1
        BY <1>1, <1>2
      <3>2. At(fifo, k + 1) = ByteNo(TotalOut + (k + 1))
        BY <3>1 DEF RingInv, n
      <3>3. TotalOut' + k = TotalOut + (k + 1)
        BY <1>6, <3>1
      <3>4. QED
        BY <1>2, <3>1, <3>2, <3>3
    <2>3. QED
      BY <1>1, <1>3, <2>1, <2>2 DEF RingInv
  <1>8. RunInv'
    <2>1. ASSUME NEW k \in 1 .. Len(got')
          PROVE  got'[k] = ByteNo(4 * played + k - 1)
      <3>1. CASE k = Len(got) + 1
        <4>1. 4 * played + k - 1 = 4 * played + Len(got)
          BY <1>3, <3>1
        <4>2. QED
          BY <1>1, <1>4, <3>1, <4>1
      <3>2. CASE k # Len(got) + 1
        <4>1. k \in 1 .. Len(got)
          BY <1>3, <1>4, <3>2
        <4>2. QED
          BY <1>3, <1>4, <4>1 DEF RunInv
      <3>3. QED
        BY <3>1, <3>2
    <2>2. played < accepted /\ isPlaybackReady = 1
      BY <1>3 DEF RunInv
    <2>3. QED
      BY <1>3, <2>1, <2>2 DEF RunInv
  <1>9. SrvInv'
    <2>1. FIFOCount(fifo') < FIFOCount(fifo) /\ FIFOCount(fifo) \in Nat
          /\ FIFOCount(fifo') \in Nat
      BY <1>1, <1>2 DEF n
    <2>2. srv # "setup"
      BY <1>3, SetUp
    <2>3. req.dataLength \in Nat /\ i \in Nat /\ field \in Nat
      BY DEF TypeOK, Packet
    <2>4. FIFOCount(fifo) < Size => FIFOCount(fifo') < Size
      BY <2>1, SizePositive
    <2>5. FIFOCount(fifo) + (req.dataLength - i - field) < Size
            => FIFOCount(fifo') + (req.dataLength - i - field) < Size
      BY <2>1, <2>3, SizePositive
    <2>6. isPlaybackReady' = 1
      BY <1>3 DEF RunInv
    <2>7. QED
      BY <1>3, <2>2, <2>4, <2>5, <2>6 DEF SrvInv, Handling, Writing
  <1>10. BusyMeansPlaying'
    BY <1>3 DEF BusyMeansPlaying, BusyForNow
  <1>11. QED
    BY <1>5, <1>7, <1>8, <1>9, <1>10

LEMMA RunUnlockStep == ASSUME IInv, RunUnlock PROVE IInv'
  <1> USE DEF IInv
  <1>1. TypeOK'
    BY DEF RunUnlock, TypeOK, srvVars
  <1>2. RingInv'
    <2>1. TotalIn' = TotalIn /\ TotalOut' = TotalOut
      BY DEF RunUnlock, TotalIn, TotalOut, srvVars
    <2>2. field = 0
      BY DEF RunUnlock, RingInv, TypeOK
    <2>3. QED
      BY <2>1, <2>2 DEF RunUnlock, RingInv, srvVars
  <1>3. RunInv'
    BY DEF RunUnlock, RunInv, srvVars
  <1>4. SrvInv' /\ BusyMeansPlaying'
    BY SetUp, QuietRunner DEF RunUnlock
  <1>5. QED
    BY <1>1, <1>2, <1>3, <1>4

LEMMA RunPlayStep == ASSUME IInv, RunPlay PROVE IInv'
  <1> USE DEF IInv
  <1>1. TypeOK'
    BY DEF RunPlay, TypeOK, srvVars
  <1>2. RingInv'
    <2>1. TotalIn' = TotalIn
      BY DEF RunPlay, TotalIn, srvVars
    <2>2. TotalOut' = TotalOut
      <3>1. played \in Nat /\ Len(got) = 4 /\ run = "play"
        BY DEF RunPlay, RunInv, TypeOK
      <3>2. TotalOut = 4 * played + 4
        BY <3>1 DEF TotalOut
      <3>3. TotalOut' = 4 * (played + 1)
        BY <3>1 DEF RunPlay, TotalOut, TypeOK
      <3>4. QED
        BY <3>1, <3>2, <3>3
    <2>3. QED
      BY <2>1, <2>2 DEF RunPlay, RingInv, srvVars
  <1>3. RunInv'
    BY DEF RunPlay, RunInv
  <1>4. SrvInv' /\ BusyMeansPlaying'
    BY SetUp, QuietRunner DEF RunPlay
  <1>5. QED
    BY <1>1, <1>2, <1>3, <1>4

-----------------------------------------------------------------------------
LEMMA NextInv == IInv /\ [Next]_vars => IInv'
  <1> SUFFICES ASSUME IInv, [Next]_vars
               PROVE  IInv'
    OBVIOUS
  <1>1. CASE Server
    BY <1>1, QuietServerStep, LockStep, PutStep, UnlockStep DEF Server
  <1>2. CASE Runner
    BY <1>2, RunLockStep, RunCheckStep, RunGetStep, RunUnlockStep, RunPlayStep
       DEF Runner
  <1>3. CASE UNCHANGED vars
    <2>1. TotalIn' = TotalIn /\ TotalOut' = TotalOut
      BY <1>3 DEF vars, srvVars, runVars, TotalIn, TotalOut
    <2>2. TypeOK'
      BY <1>3 DEF IInv, TypeOK, vars, srvVars, runVars
    <2>3. RingInv'
      BY <1>3, <2>1 DEF IInv, RingInv, vars, srvVars, runVars
    <2>4. RunInv'
      BY <1>3 DEF IInv, RunInv, vars, srvVars, runVars
    <2>5. SrvInv' /\ BusyMeansPlaying'
      BY <1>3 DEF IInv, SrvInv, BusyMeansPlaying, BusyForNow, vars, srvVars, runVars,
                  Handling, Writing
    <2>6. QED
      BY <2>2, <2>3, <2>4, <2>5 DEF IInv
  <1>4. QED
    BY <1>1, <1>2, <1>3 DEF Next

LEMMA Invariance == Spec => []IInv
  BY InitInv, NextInv, PTL DEF Spec

(* The two threads and the ring keep to their types, and the mutex is held *)
(* exactly by the thread between its lock and its unlock.                  *)
THEOREM TypeCorrect == Spec => []TypeOK
  <1>1. IInv => TypeOK
    BY DEF IInv
  <1>2. QED
    BY <1>1, Invariance, PTL

(* What reaches the chip is whole frames of the client, in order.          *)
THEOREM FramesSafe == Spec => []FramesIntact
  <1>1. IInv => FramesIntact
    <2> SUFFICES ASSUME IInv, run = "play"
                 PROVE  got = << <<played, 0>>, <<played, 1>>,
                                 <<played, 2>>, <<played, 3>> >>
      BY DEF FramesIntact
    <2>1. /\ got \in Seq(Byte) /\ Len(got) = 4 /\ played \in Nat
          /\ \A k \in 1 .. 4 : got[k] = ByteNo(4 * played + k - 1)
      BY DEF IInv, TypeOK, RunInv
    <2>2. ASSUME NEW k \in 1 .. 4
          PROVE  got[k] = <<played, k - 1>>
      <3>1. k - 1 \in 0 .. 3 /\ 4 * played + k - 1 = 4 * played + (k - 1)
        BY <2>1
      <3>2. QED
        BY <2>1, <3>1, ByteNoLemma
    <2> DEFINE frame == << <<played, 0>>, <<played, 1>>,
                           <<played, 2>>, <<played, 3>> >>
    <2>3. got[1] = <<played, 0>> /\ got[2] = <<played, 1>>
          /\ got[3] = <<played, 2>> /\ got[4] = <<played, 3>>
      BY <2>2
    <2>4. got = << got[1], got[2], got[3], got[4] >>
      BY <2>1
    <2>5. QED
      BY <2>3, <2>4
  <1>2. QED
    BY <1>1, Invariance, PTL

(* sidThread decides on whole frames only.                                 *)
THEOREM WholeFramesOnly == Spec => []WholeFrames
  <1>1. IInv => WholeFrames
    <2> SUFFICES ASSUME IInv, run = "check"
                 PROVE  FIFOCount(fifo) % 4 = 0
      BY DEF WholeFrames
    <2>1. field = 0 /\ accepted \in Nat /\ played \in Nat
      BY DEF IInv, TypeOK, RingInv
    <2>2. FIFOCount(fifo) = 4 * accepted - 4 * played
      BY <2>1 DEF IInv, RingInv, TotalIn, TotalOut
    <2>3. QED
      BY <2>1, <2>2
  <1>2. QED
    BY <1>1, Invariance, PTL

(* No byte of a frame is lost to a full ring, none is read from an empty   *)
(* one: the results sidWrite and sidThread ignore are never -1.            *)
THEOREM NothingIgnored == Spec => [](NoByteRefused /\ NoByteMissing)
  <1>1. IInv => NoByteRefused
    <2> SUFFICES ASSUME IInv, srv = "put"
                 PROVE  ~IsFIFOFull(fifo)
      BY DEF NoByteRefused
    <2>1. FIFOCount(fifo) < Size
      BY DEF IInv, SrvInv
    <2>2. QED
      BY <2>1, CountLemma, SizePositive DEF IInv, IsFIFOFull, FIFOCount, FIFOSize
  <1>2. IInv => NoByteMissing
    BY NextByte DEF NoByteMissing, IsFIFOEmpty, FIFOCount
  <1>3. QED
    BY <1>1, <1>2, Invariance, PTL

(* BUSY is never sent for a packet below half the ring while nothing plays.*)
THEOREM BusySafe == Spec => []BusyMeansPlaying
  <1>1. IInv => BusyMeansPlaying
    BY DEF IInv
  <1>2. QED
    BY <1>1, Invariance, PTL

(* The client's clock counts every frame that was accepted and the one     *)
(* being written, the player's every frame whose turn has come.            *)
ClockInv ==
  /\ accepted + (IF srv \in { "lock", "put" } THEN 1 ELSE 0) <= inputClock
  /\ currentClock = played + (IF run = "play" THEN 1 ELSE 0)
  /\ played <= accepted

LEMMA ClockInit == Init => ClockInv
  BY DEF Init, ClockInv

LEMMA ClockNext ==
  ASSUME \A p \in Packets : p.cmd # "FLUSH", IInv, ClockInv, [Next]_vars
  PROVE  ClockInv'
  <1>1. accepted \in Nat /\ played \in Nat /\ inputClock \in Nat
        /\ currentClock \in Nat
    BY DEF IInv, TypeOK
  <1>2. CASE Setup \/ Interrupt
    BY <1>1, <1>2 DEF Setup, Interrupt, ClockInv, runVars, IInv, SrvInv
  <1>3. ASSUME NEW p \in Packets, Die(p) \/ Simple(p) \/ Queued(p)
        PROVE  ClockInv'
    <2>1. inputClock' = inputClock
      BY <1>3 DEF Die, Simple, Queued
    <2>2. QED
      BY <1>1, <1>3, <2>1 DEF Die, Simple, Queued, ClockInv, runVars
  <1>4. CASE StartPlayback \/ DelayRoom \/ DelayOver \/ WriteRoom
    BY <1>1, <1>4
       DEF StartPlayback, DelayRoom, DelayOver, WriteRoom, ClockInv, runVars
  <1>5. CASE NextFrame \/ Lock \/ Put \/ Unlock
    BY <1>1, <1>5 DEF NextFrame, Lock, Put, Unlock, ClockInv, runVars
  <1>6. CASE RunLock \/ RunCheck \/ RunGet \/ RunUnlock
    BY <1>1, <1>6 DEF RunLock, RunCheck, RunGet, RunUnlock, ClockInv, srvVars
  <1>7. CASE RunPlay
    <2>1. played < accepted
      BY <1>7 DEF RunPlay, IInv, RunInv
    <2>2. QED
      BY <1>1, <1>7, <2>1 DEF RunPlay, ClockInv, srvVars
  <1>8. CASE UNCHANGED vars
    BY <1>8 DEF ClockInv, vars, srvVars, runVars
  <1>9. QED
    BY <1>2, <1>3, <1>4, <1>5, <1>6, <1>7, <1>8 DEF Next, Server, Runner

(* As long as no client sends FLUSH, the clock of what is played never     *)
(* overtakes the clock of what was asked for.                              *)
THEOREM ClocksApart == Spec => []ClockLead
  <1>1. CASE \A p \in Packets : p.cmd # "FLUSH"
    <2>1. IInv /\ ClockInv /\ [Next]_vars => ClockInv'
      BY <1>1, ClockNext
    <2>2. IInv /\ ClockInv => ClockLead
      BY DEF IInv, TypeOK, RunInv, ClockInv, ClockLead
    <2>3. QED
      BY Invariance, ClockInit, <2>1, <2>2, PTL DEF Spec
  <1>2. CASE ~(\A p \in Packets : p.cmd # "FLUSH")
    <2>1. ClockLead
      BY <1>2 DEF ClockLead
    <2>2. QED
      BY <2>1, PTL
  <1>3. QED
    BY <1>1, <1>2

(* The server is a pipe of frames: sidWrite's unlock is its Accept,        *)
(* writeSid its Play, and every other step leaves the pipe alone.          *)
THEOREM Refinement == Spec => IsFramePipe
  <1>1. Init => Pipe!Init
    BY DEF Init, Pipe!Init
  <1>2. IInv /\ FramesIntact /\ [Next]_vars => [Pipe!Next]_(Pipe!vars)
    <2> SUFFICES ASSUME IInv, FramesIntact, [Next]_vars
                 PROVE  Pipe!Next \/ UNCHANGED << accepted, played, chip >>
      BY DEF Pipe!vars
    <2>1. CASE Unlock
      <3>1. /\ accepted \in Nat /\ played \in Nat /\ field = 4
            /\ Len(got) \in 0 .. 4 /\ Size \in Nat
        BY <2>1, SizePositive DEF IInv, TypeOK, Unlock
      <3>2. TotalIn - TotalOut < Size /\ TotalIn = 4 * accepted + 4
        BY <2>1, <3>1 DEF IInv, SrvInv, RingInv, TotalIn, Unlock
      <3>3. TotalOut = 4 * played + Len(got) \/ TotalOut = 4 * played + 0
        BY DEF TotalOut
      <3>4. accepted - played < (Size - 1) \div 4 + 1
        <4>1. 4 * accepted - 4 * played < Size
          <5> DEFINE g == Len(got)
                     out == TotalOut
          <5>1. g \in 0 .. 4
            BY <3>1
          <5>2. out = 4 * played + g \/ out = 4 * played + 0
            BY <3>3
          <5>3. (4 * accepted + 4) - out < Size
            BY <3>2
          <5> HIDE DEF g, out
          <5>4. out \in Int /\ out <= 4 * played + 4
            BY <3>1, <5>1, <5>2
          <5>5. QED
            BY <3>1, <5>3, <5>4
        <4>2. \A d \in Int : 4 * d < Size => d < (Size - 1) \div 4 + 1
          BY <3>1
        <4>3. accepted - played \in Int /\ 4 * (accepted - played) < Size
          BY <3>1, <4>1
        <4>4. QED
          BY <4>2, <4>3
      <3>5. Pipe!Accept
        BY <2>1, <3>4 DEF Unlock, runVars, Pipe!Accept
      <3>6. QED
        BY <3>5 DEF Pipe!Next
    <2>2. CASE RunPlay
      <3>1. played < accepted /\ Len(got) = 4
        BY <2>2 DEF RunPlay, IInv, RunInv
      <3>2. got[1] = <<played, 0>> /\ got[2] = <<played, 1>>
        BY <2>2 DEF RunPlay, FramesIntact
      <3>3. Pipe!Play
        BY <2>2, <3>1, <3>2 DEF RunPlay, srvVars, Pipe!Play, Pipe!OnBus
      <3>4. QED
        BY <3>3 DEF Pipe!Next
    <2>3. CASE Server /\ ~Unlock
      BY <2>3 DEF Server, Setup, Interrupt, Die, Simple, Queued, StartPlayback,
                  DelayRoom, DelayOver, WriteRoom, NextFrame, Lock, Put, runVars
    <2>4. CASE Runner /\ ~RunPlay
      BY <2>4 DEF Runner, RunLock, RunCheck, RunGet, RunUnlock, srvVars
    <2>5. CASE UNCHANGED vars
      BY <2>5 DEF vars, srvVars, runVars
    <2>6. QED
      BY <2>1, <2>2, <2>3, <2>4, <2>5 DEF Next
  <1>3. QED
    BY <1>1, <1>2, Invariance, FramesSafe, PTL DEF Spec, IsFramePipe, Pipe!Spec
=============================================================================
