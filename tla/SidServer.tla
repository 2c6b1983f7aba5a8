------------------------------ MODULE SidServer ------------------------------
(***************************************************************************)
(* The two threads of the network server while a client is connected:      *)
(* the main thread of sidpiserver.c, which obeys one packet at a time, and *)
(* the SID thread of sidrunnerthread.c, which plays what the packets left  *)
(* in the ring.  They share the ring under the mutex "queue", and the flag *)
(* isPlaybackReady and the ring's count without it.                        *)
(*                                                                         *)
(* A frame is the four bytes of one register write.  The bytes of the n-th *)
(* frame the client sends are <<n, 0>> (register), <<n, 1>> (value) and    *)
(* <<n, 2>>, <<n, 3>> (delay), so that a byte says where it came from; the *)
(* delay itself is one tick of the two clocks.                             *)
(***************************************************************************)
EXTENDS Fifo

CONSTANTS
  Size,        (* BUFFER_SIZE                                              *)
  Packets,     (* what one read() of the main thread can return            *)
  MaxFrames,   (* bound: frames a client hands over in all                 *)
  MaxClock     (* bound: ticks of inputClock                               *)

NoData   == { "FLUSH", "TRY_SET_SID_COUNT", "GET_VERSION",
              "GET_CONFIG_COUNT", "GET_CONFIG_INFO" }
OneByte  == { "TRY_RESET", "TRY_SET_SAMPLING", "TRY_SET_CLOCKING",
              "SET_SID_POSITION", "SET_SID_LEVEL", "TRY_SET_SID_MODEL" }
TwoBytes == { "MUTE", "TRY_DELAY" }

(* SET_THRESHOLD and the two after it have a number but no case.           *)
Command == NoData \cup OneByte \cup TwoBytes
             \cup { "TRY_WRITE", "TRY_READ", "SET_THRESHOLD" }

Reply == { "none", "OK", "BUSY", "READ", "VERSION", "COUNT", "INFO" }

Packet == [ cmd : Command, dataLength : Nat, got : Nat ]

FrameByte(n) == { <<n, k>> : k \in 0 .. 3 }

ASSUME ServerAssumption ==
  /\ Size \in Nat /\ ValidSize(Size)
  /\ MaxFrames \in Nat /\ MaxClock \in Nat
  /\ Packets \subseteq Packet
  /\ \A n \in 0 .. MaxFrames - 1 : FrameByte(n) \subseteq Byte

VARIABLES
  fifo,             (* the ring between the two threads                    *)
  queue,            (* who holds the mutex                                 *)
  isPlaybackReady,
  srv,              (* where the main thread is                            *)
  req,              (* the packet in dataRead                              *)
  i,                (* byte offset of handleWritePacket in that packet     *)
  field,            (* bytes of the frame sidWrite has put in the ring     *)
  reply,            (* the code sent back last                             *)
  inputClock,
  run,              (* where the SID thread is, or why there is none       *)
  got,              (* the bytes of a frame it has read                    *)
  currentClock,
  accepted,         (* history: frames sidWrite has returned from          *)
  played,           (* history: frames written to the chip                 *)
  chip              (* the register and value last put on the bus          *)

srvVars == << srv, req, i, field, reply, inputClock, accepted >>
runVars == << run, got, currentClock, played, chip >>
vars == << fifo, queue, isPlaybackReady, srvVars, runVars >>

Init ==
  /\ fifo = InitFIFO(Size)
  /\ queue = "none"
  /\ isPlaybackReady = 0
  /\ srv = "setup"
  /\ req = [ cmd |-> "FLUSH", dataLength |-> 0, got |-> 4 ]
  /\ i = 0
  /\ field = 0
  /\ reply = "none"
  /\ inputClock = 0
  /\ run = "absent"
  /\ got = << >>
  /\ currentClock = 0
  /\ accepted = 0
  /\ played = 0
  /\ chip = << >>

-----------------------------------------------------------------------------
(* The main thread.                                                        *)

(* setupSid.  Its failures are printed and main goes on without a SID      *)
(* thread: with a ring when the devices could not be mapped or the thread  *)
(* not created, without one when malloc failed.                            *)
Setup ==
  /\ srv = "setup"
  /\ srv' = "read"
  /\ run' \in { "lock", "absent", "nofifo" }
  /\ UNCHANGED << fifo, queue, isPlaybackReady, req, i, field, reply,
                  inputClock, accepted, got, currentClock, played, chip >>

(* The checks of processReadBuffer: the header is there, the data is there *)
(* and the command has as much data as it needs.                           *)
WellFormed(p) ==
  /\ p.got >= 4
  /\ p.dataLength + 4 <= p.got
  /\ \/ p.cmd \in NoData /\ p.dataLength = 0
     \/ p.cmd \in OneByte /\ p.dataLength = 1
     \/ p.cmd \in TwoBytes /\ p.dataLength = 2
     \/ p.cmd = "TRY_WRITE" /\ p.dataLength >= 4 /\ p.dataLength % 4 = 0
     \/ p.cmd = "TRY_READ" /\ (p.dataLength - 3) % 4 = 0

Answer(cmd) ==
  CASE cmd = "TRY_READ"         -> "READ"
    [] cmd = "GET_VERSION"      -> "VERSION"
    [] cmd = "GET_CONFIG_COUNT" -> "COUNT"
    [] cmd = "GET_CONFIG_INFO"  -> "INFO"
    [] OTHER                    -> "OK"

(* TRY_DELAY and TRY_WRITE look at the ring; the others answer at once.    *)
UsesRing(p) == p.cmd \in { "TRY_DELAY", "TRY_WRITE" }

(* invalidCommandException: the process, both threads of it, exits.  A     *)
(* command that uses the ring dies of the NULL FIFO when there is none.    *)
Die(p) ==
  /\ srv = "read"
  /\ ~WellFormed(p) \/ (UsesRing(p) /\ run = "nofifo")
  /\ req' = p
  /\ srv' = "exited"
  /\ reply' = "none"
  /\ UNCHANGED << fifo, queue, isPlaybackReady, i, field, inputClock, accepted,
                  runVars >>

(* FLUSH forgets the client's clock, and only that: flush() has no caller. *)
Simple(p) ==
  /\ srv = "read"
  /\ WellFormed(p) /\ ~UsesRing(p)
  /\ req' = p
  /\ reply' = Answer(p.cmd)
  /\ inputClock' = IF p.cmd = "FLUSH" THEN 0 ELSE inputClock
  /\ UNCHANGED << fifo, queue, isPlaybackReady, srv, i, field, accepted,
                  runVars >>

Queued(p) ==
  /\ srv = "read"
  /\ WellFormed(p) /\ UsesRing(p) /\ run # "nofifo"
  /\ inputClock < MaxClock
  /\ p.cmd = "TRY_WRITE" => /\ accepted + p.dataLength \div 4 <= MaxFrames
                            /\ inputClock + p.dataLength \div 4 <= MaxClock
  /\ req' = p
  /\ reply' = "none"
  /\ srv' = "half"
  /\ UNCHANGED << fifo, queue, isPlaybackReady, i, field, inputClock,
                  accepted, runVars >>

(* Fault: playback waits for a ring that is full.                          *)
IsBufferQuiteFull == FIFOSize(fifo) = FIFOCount(fifo)

IsBufferHalfFull == FIFOSize(fifo) \div 2 < FIFOCount(fifo)

(* Reads the count without the mutex.                                      *)
StartPlayback ==
  /\ srv = "half"
  /\ isPlaybackReady' = IF IsBufferHalfFull THEN 1 ELSE isPlaybackReady
  /\ srv' = "room"
  /\ UNCHANGED << fifo, queue, req, i, field, reply, inputClock, accepted,
                  runVars >>

(* Fault: the packet's length is not held against the room.                *)
CanBufferAcceptAnything(bytes) == FIFOSize(fifo) > FIFOCount(fifo)

CanBufferAccept(bytes) == FIFOSize(fifo) - FIFOCount(fifo) > bytes

(* Reads the count without the mutex, again.                               *)
DelayRoom ==
  /\ srv = "room" /\ req.cmd = "TRY_DELAY"
  /\ srv' = IF IsFIFOFull(fifo) THEN "read" ELSE "delay"
  /\ reply' = IF IsFIFOFull(fifo) THEN "BUSY" ELSE reply
  /\ inputClock' = IF IsFIFOFull(fifo) THEN inputClock ELSE inputClock + 1
  /\ UNCHANGED << fifo, queue, isPlaybackReady, req, i, field, accepted,
                  runVars >>

(* handleDelayPacket sleeps in this thread, then the OK goes out.          *)
DelayOver ==
  /\ srv = "delay"
  /\ srv' = "read"
  /\ reply' = "OK"
  /\ UNCHANGED << fifo, queue, isPlaybackReady, req, i, field, inputClock,
                  accepted, runVars >>

WriteRoom ==
  /\ srv = "room" /\ req.cmd = "TRY_WRITE"
  /\ \/ /\ CanBufferAccept(req.dataLength)
        /\ srv' = "frame"
        /\ i' = 0
        /\ UNCHANGED reply
     \/ /\ ~CanBufferAccept(req.dataLength)
        /\ srv' = "read"
        /\ reply' = "BUSY"
        /\ UNCHANGED i
  /\ UNCHANGED << fifo, queue, isPlaybackReady, req, field, inputClock,
                  accepted, runVars >>

(* Fault: the cycles of a frame are not added to inputClock.               *)
NextFrameUntimed ==
  /\ srv = "frame"
  /\ srv' = IF i < req.dataLength THEN "lock" ELSE "read"
  /\ reply' = IF i < req.dataLength THEN reply ELSE "OK"
  /\ UNCHANGED << fifo, queue, isPlaybackReady, req, i, field, inputClock,
                  accepted, runVars >>

(* The loop of handleWritePacket: the next frame, or the answer.           *)
NextFrame ==
  /\ srv = "frame"
  /\ \/ /\ i < req.dataLength
        /\ inputClock' = inputClock + 1
        /\ srv' = "lock"
        /\ UNCHANGED reply
     \/ /\ i >= req.dataLength
        /\ srv' = "read"
        /\ reply' = "OK"
        /\ UNCHANGED inputClock
  /\ UNCHANGED << fifo, queue, isPlaybackReady, req, i, field, accepted,
                  runVars >>

(* Fault: sidWrite does not wait for the mutex.                            *)
LockAnyway ==
  /\ srv = "lock"
  /\ field' = 0
  /\ srv' = "put"
  /\ UNCHANGED << fifo, queue, isPlaybackReady, req, i, reply, inputClock,
                  accepted, runVars >>

Lock ==
  /\ srv = "lock" /\ queue = "none"
  /\ queue' = "srv"
  /\ field' = 0
  /\ srv' = "put"
  /\ UNCHANGED << fifo, isPlaybackReady, req, i, reply, inputClock, accepted,
                  runVars >>

(* One writeFIFO of sidWrite; nobody looks at what it returns.             *)
Put ==
  /\ srv = "put" /\ field < 4
  /\ fifo' = WriteFIFO(fifo, <<accepted, field>>)
  /\ field' = field + 1
  /\ UNCHANGED << queue, isPlaybackReady, srv, req, i, reply, inputClock,
                  accepted, runVars >>

(* Fault: the mutex is never given back.                                   *)
UnlockForgotten ==
  /\ srv = "put" /\ field = 4
  /\ field' = 0
  /\ i' = i + 4
  /\ accepted' = accepted + 1
  /\ srv' = "frame"
  /\ UNCHANGED << fifo, queue, isPlaybackReady, req, reply, inputClock,
                  runVars >>

Unlock ==
  /\ srv = "put" /\ field = 4
  /\ queue' = "none"
  /\ field' = 0
  /\ i' = i + 4
  /\ accepted' = accepted + 1
  /\ srv' = "frame"
  /\ UNCHANGED << fifo, isPlaybackReady, req, reply, inputClock, runVars >>

(* SIGINT, wherever the threads are.                                       *)
Interrupt ==
  /\ srv # "exited"
  /\ srv' = "exited"
  /\ UNCHANGED << fifo, queue, isPlaybackReady, req, i, field, reply,
                  inputClock, accepted, runVars >>

Server ==
  \/ Setup \/ Interrupt
  \/ \E p \in Packets : Die(p) \/ Simple(p) \/ Queued(p)
  \/ StartPlayback \/ DelayRoom \/ DelayOver \/ WriteRoom
  \/ NextFrame \/ Lock \/ Put \/ Unlock

-----------------------------------------------------------------------------
(* The SID thread.                                                         *)

RunLock ==
  /\ srv # "exited" /\ run = "lock" /\ queue = "none"
  /\ queue' = "run"
  /\ run' = "check"
  /\ UNCHANGED << fifo, isPlaybackReady, srvVars, got, currentClock, played,
                  chip >>

(* Fault: a frame is read whenever playback is on.                         *)
RunCheckReadyOnly ==
  /\ srv # "exited" /\ run = "check"
  /\ run' = IF isPlaybackReady = 1 THEN "get" ELSE "lock"
  /\ got' = << >>
  /\ queue' = IF isPlaybackReady = 1 THEN queue ELSE "none"
  /\ UNCHANGED << fifo, isPlaybackReady, srvVars, currentClock, played,
                  chip >>

(* Fault: the last frame of the ring is not enough to go on.               *)
RunCheckMoreThanAFrame ==
  /\ srv # "exited" /\ run = "check"
  /\ LET go == FIFOCount(fifo) > 4 /\ isPlaybackReady = 1
     IN  /\ run' = IF go THEN "get" ELSE "lock"
         /\ queue' = IF go THEN queue ELSE "none"
  /\ got' = << >>
  /\ UNCHANGED << fifo, isPlaybackReady, srvVars, currentClock, played,
                  chip >>

(* Nothing to play: the mutex is given back and the thread sleeps 100 us.  *)
RunCheck ==
  /\ srv # "exited" /\ run = "check"
  /\ \/ /\ FIFOCount(fifo) > 3 /\ isPlaybackReady = 1
        /\ run' = "get"
        /\ got' = << >>
        /\ UNCHANGED queue
     \/ /\ ~(FIFOCount(fifo) > 3 /\ isPlaybackReady = 1)
        /\ run' = "lock"
        /\ queue' = "none"
        /\ UNCHANGED got
  /\ UNCHANGED << fifo, isPlaybackReady, srvVars, currentClock, played,
                  chip >>

RunGet ==
  /\ srv # "exited" /\ run = "get" /\ Len(got) < 4
  /\ got' = Append(got, ReadResult(fifo))
  /\ fifo' = ReadFIFO(fifo)
  /\ UNCHANGED << queue, isPlaybackReady, srvVars, run, currentClock, played,
                  chip >>

(* The clock moves as soon as the mutex is free, before the delay is slept.*)
RunUnlock ==
  /\ srv # "exited" /\ run = "get" /\ Len(got) = 4
  /\ queue' = "none"
  /\ currentClock' = currentClock + 1
  /\ run' = "play"
  /\ UNCHANGED << fifo, isPlaybackReady, srvVars, got, played, chip >>

(* Fault: the value goes where the register should.                        *)
RunPlaySwapped ==
  /\ srv # "exited" /\ run = "play"
  /\ chip' = << got[2], got[1] >>
  /\ played' = played + 1
  /\ run' = "lock"
  /\ UNCHANGED << fifo, queue, isPlaybackReady, srvVars, got, currentClock >>

(* writeSid, after the sleep.                                              *)
RunPlay ==
  /\ srv # "exited" /\ run = "play"
  /\ chip' = << got[1], got[2] >>
  /\ played' = played + 1
  /\ run' = "lock"
  /\ UNCHANGED << fifo, queue, isPlaybackReady, srvVars, got, currentClock >>

Runner == RunLock \/ RunCheck \/ RunGet \/ RunUnlock \/ RunPlay

-----------------------------------------------------------------------------
Next == Server \/ Runner

Spec == Init /\ [][Next]_vars

(* A client that answers BUSY by sending the packet again, and goes on     *)
(* sending it for as long as the answer is BUSY.                           *)
PatientNext == Next /\ (reply = "BUSY" => req' = req)

Resend == Queued(req)

(* The kernel runs both threads.  A thread that keeps finding the mutex    *)
(* free now and then gets it: the SID thread sleeps with the mutex free    *)
(* on every round, and the main thread leaves it for the network.          *)
Fairness ==
  /\ WF_vars(Setup) /\ WF_vars(Resend)
  /\ WF_vars(StartPlayback) /\ WF_vars(DelayRoom) /\ WF_vars(DelayOver)
  /\ WF_vars(WriteRoom) /\ WF_vars(NextFrame)
  /\ SF_vars(Lock) /\ WF_vars(Put) /\ WF_vars(Unlock)
  /\ SF_vars(RunLock) /\ WF_vars(RunCheck) /\ WF_vars(RunGet)
  /\ WF_vars(RunUnlock) /\ WF_vars(RunPlay)

FairSpec == Init /\ [][PatientNext]_vars /\ Fairness

-----------------------------------------------------------------------------
(* The states of the two threads and the ring stay what they are declared  *)
(* to be, and the mutex is held by the thread that is between its lock and *)
(* its unlock.                                                             *)
TypeOK ==
  /\ fifo \in FIFO(Size)
  /\ queue \in { "none", "srv", "run" }
  /\ isPlaybackReady \in {0, 1}
  /\ srv \in { "setup", "read", "half", "room", "delay", "frame", "lock",
               "put", "exited" }
  /\ req \in Packet
  /\ i \in Nat /\ field \in 0 .. 4
  /\ reply \in Reply
  /\ run \in { "absent", "nofifo", "lock", "check", "get", "play" }
  /\ got \in Seq(Byte) /\ Len(got) \in 0 .. 4
  /\ inputClock \in Nat /\ currentClock \in Nat
  /\ accepted \in Nat /\ played \in Nat
  /\ srv # "exited" => (queue = "srv" <=> srv = "put")
  /\ queue = "run" <=> run \in { "check", "get" }

(* What the SID thread is about to write is one frame of the client, all   *)
(* four bytes of it, and the one whose turn it is: the room that           *)
(* processReadBuffer measured without the mutex is still there when        *)
(* sidWrite fills it, whatever the SID thread did in between.              *)
FramesIntact ==
  run = "play" =>
    got = << <<played, 0>>, <<played, 1>>, <<played, 2>>, <<played, 3>> >>

(* sidWrite's four bytes go in together: the SID thread never finds part   *)
(* of a frame in the ring when it decides whether there is one to play.    *)
WholeFrames == run = "check" => FIFOCount(fifo) % 4 = 0

(* writeFIFO never refuses a byte, so ignoring its -1 loses nothing.       *)
NoByteRefused == srv = "put" /\ field < 4 => ~IsFIFOFull(fifo)

(* readFIFO never has nothing to give when sidThread calls it.             *)
NoByteMissing == run = "get" /\ Len(got) < 4 => ~IsFIFOEmpty(fifo)

(* The answer to a packet that is smaller than half the ring.              *)
BusyForNow == reply = "BUSY" /\ 2 * req.dataLength < Size

(* A client told to come back later can count on the ring draining: BUSY   *)
(* is sent only once playback is on, provided the packet is smaller than   *)
(* half the ring.                                                          *)
BusyMeansPlaying == BusyForNow => isPlaybackReady = 1

(* inputClock counts what the client asked for and currentClock what was   *)
(* played: without FLUSH the second never overtakes the first, so that     *)
(* their difference is the time still in the ring.  (processReadBuffer     *)
(* computes it as clientTimeDifference and does not use it.)               *)
ClockLead ==
  (\A p \in Packets : p.cmd # "FLUSH") => currentClock <= inputClock

(* The two threads and the ring between them are a pipe of frames.  The    *)
(* canBufferAccept test is strict, so a frame's worth of ring stays free;  *)
(* the frame in the SID thread's hands makes up for it.                    *)
Pipe == INSTANCE FramePipe WITH Depth <- (Size - 1) \div 4 + 1

IsFramePipe == Pipe!Spec

HasRunner == run \notin { "absent", "nofifo" }

(* Once playback is on, every frame the ring took reaches the chip, unless *)
(* the process exits.                                                      *)
AcceptedIsPlayed ==
  \A n \in 1 .. MaxFrames :
    isPlaybackReady = 1 /\ HasRunner /\ accepted >= n
      ~> played >= n \/ srv = "exited"

(* A client that repeats a packet for as long as it is told BUSY gets it   *)
(* accepted, provided the packet is smaller than half the ring.  A larger  *)
(* one may find too little room in a ring that is not yet half full, and   *)
(* be told BUSY for ever.                                                  *)
BusyIsTemporary ==
  HasRunner /\ BusyForNow ~> reply = "OK" \/ srv = "exited"
=============================================================================
