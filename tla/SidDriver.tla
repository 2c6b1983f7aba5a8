------------------------------ MODULE SidDriver ------------------------------
(***************************************************************************)
(* The kernel module's queue of bytes, module/src/sidpi.c: processes that  *)
(* call write() and ioctl() on /dev/sid, the kernel thread that takes four *)
(* bytes at a time and plays them, and the kfifo sid_msg_fifo between      *)
(* them, with its two wait queues.  The driver never takes the lock that   *)
(* its comments name; what keeps the sides apart is the writers' semaphore *)
(* lockWriter, which the DELAY and RESET ioctls do not take, and, on a     *)
(* kernel that cannot be preempted, the single processor.                  *)
(*                                                                         *)
(* The k-th byte process p hands to the driver is <<p, k>>; a caller's     *)
(* frame is four bytes of its stream from a multiple of four on.           *)
(***************************************************************************)
EXTENDS Integers, Sequences, FiniteSets

CONSTANTS
  Writers,     (* processes that call device_write                         *)
  Delayers,    (* processes that call the DELAY ioctl                      *)
  Resetters,   (* processes that call the RESET ioctl                      *)
  Size,        (* SID_FIFO_SIZE                                            *)
  Modulus,     (* one more than the largest value of a kfifo index, 2^32   *)
  Batches,     (* the sizes of a write()                                   *)
  MaxCalls,    (* bound: calls a process makes in all                      *)
  Preempt,     (* several processors, or a preemptible kernel              *)
  Signals,     (* a process that sleeps in the driver may get a signal     *)
  CanUnload,   (* rmmod may be run                                         *)
  Junk,        (* what is in memory nothing was written to                 *)
  none

Producers == Writers \cup Delayers
Process   == Producers \cup Resetters

ASSUME DriverAssumption ==
  /\ Size \in Nat \ {0} /\ Size % 4 = 0
  /\ Modulus \in Nat /\ Modulus % Size = 0 /\ Modulus > Size
  /\ Batches \subseteq Nat \ {0}
  /\ MaxCalls \in Nat
  /\ {Preempt, Signals, CanUnload} \subseteq BOOLEAN
  /\ Writers \cap Delayers = {}
  /\ Resetters \cap Producers = {}
  /\ none \notin Process \cup {"reader"} /\ "reader" \notin Process
  /\ Junk \notin Producers \X Nat

VARIABLES
  in, out,       (* the indices of sid_msg_fifo                            *)
  data,          (* its buffer                                             *)
  lockWriter,    (* who holds the semaphore                                *)
  unprocessed,   (* g_atomUnprocessedData                                  *)
  opened,        (* the processes that have the device open                *)
  pc,            (* where each process is                                  *)
  size, i,       (* iSize and i of its writeData                           *)
  sawIn,         (* "in" as read by its kfifo_in, which then adds one      *)
  calls, sent,   (* history: calls it made, bytes of its stream it is past *)
  reader,        (* where the kernel thread is                             *)
  acBuffer,      (* its four bytes                                         *)
  got,           (* how many of them kfifo_out filled                      *)
  sawOut,        (* "out" as read by its kfifo_out                         *)
  taken,         (* history: bytes of each process it has taken            *)
  stopping,      (* kthread_stop was called                                *)
  cpu            (* who runs, when nothing can preempt it                  *)

kfifo == << in, out, data >>
procVars == << pc, size, i, sawIn, calls, sent >>
readerVars == << reader, acBuffer, got, sawOut, taken >>
vars == << kfifo, lockWriter, unprocessed, opened, procVars, readerVars,
           stopping, cpu >>

Init ==
  /\ in = 0 /\ out = 0
  /\ data = [ s \in 0 .. Size - 1 |-> Junk ]
  /\ lockWriter = none
  /\ unprocessed = 0
  /\ opened = {}
  /\ pc = [ p \in Process |-> "idle" ]
  /\ size = [ p \in Producers |-> 0 ]
  /\ i = [ p \in Producers |-> 0 ]
  /\ sawIn = [ p \in Producers |-> 0 ]
  /\ calls = [ p \in Process |-> 0 ]
  /\ sent = [ p \in Producers |-> 0 ]
  /\ reader = "check"
  /\ acBuffer = [ k \in 1 .. 4 |-> Junk ]
  /\ got = 0
  /\ sawOut = 0
  /\ taken = [ p \in Producers |-> 0 ]
  /\ stopping = FALSE
  /\ cpu = none

-----------------------------------------------------------------------------
(* The kfifo macros: the indices run freely and only their difference and  *)
(* their remainder are used.                                               *)
KfifoLen     == (in - out) % Modulus
KfifoIsEmpty == in = out
KfifoIsFull  == KfifoLen >= Size
Slot(index)  == index % Size

(* The thread t runs, and goes on running until it sleeps or leaves the    *)
(* kernel: the only way another one gets in when nothing is preempted.     *)
Runs(t)    == Preempt \/ cpu \in { none, t }
Goes(t)    == /\ Runs(t) /\ cpu' = IF Preempt THEN none ELSE t
Pauses(t)  == Runs(t) /\ cpu' = none

-----------------------------------------------------------------------------
(* Processes.                                                              *)

(* device_open lets everyone in.                                           *)
Open(p) ==
  /\ Pauses(p) /\ ~stopping
  /\ pc[p] = "idle" /\ p \notin opened /\ calls[p] < MaxCalls
  /\ opened' = opened \cup {p}
  /\ UNCHANGED << kfifo, lockWriter, unprocessed, procVars, readerVars,
                  stopping >>

Close(p) ==
  /\ Pauses(p)
  /\ pc[p] = "idle" /\ p \in opened
  /\ opened' = opened \ {p}
  /\ UNCHANGED << kfifo, lockWriter, unprocessed, procVars, readerVars,
                  stopping >>

(* device_write up to its semaphore.  The paths that fail before it (an    *)
(* empty write, no memory, a bad user pointer) change nothing.             *)
Write(p) ==
  /\ Runs(p)
  /\ pc[p] = "idle" /\ p \in opened /\ calls[p] < MaxCalls
  /\ \E n \in Batches : /\ size' = [ size EXCEPT ![p] = n ]
                        /\ unprocessed' = unprocessed + n
  /\ calls' = [ calls EXCEPT ![p] = @ + 1 ]
  /\ pc' = [ pc EXCEPT ![p] = "down" ]
  /\ cpu' = IF Preempt \/ lockWriter # none THEN none ELSE p
  /\ UNCHANGED << kfifo, lockWriter, opened, i, sawIn, sent, readerVars,
                  stopping >>

(* Fault: the semaphore is not waited for.                                 *)
DownAnyway(p) ==
  /\ Goes(p)
  /\ pc[p] = "down"
  /\ lockWriter' = p
  /\ i' = [ i EXCEPT ![p] = 0 ]
  /\ pc' = [ pc EXCEPT ![p] = "wait" ]
  /\ UNCHANGED << kfifo, unprocessed, opened, size, sawIn, calls, sent,
                  readerVars, stopping >>

Down(p) ==
  /\ Goes(p)
  /\ pc[p] = "down" /\ lockWriter = none
  /\ lockWriter' = p
  /\ i' = [ i EXCEPT ![p] = 0 ]
  /\ pc' = [ pc EXCEPT ![p] = "wait" ]
  /\ UNCHANGED << kfifo, unprocessed, opened, size, sawIn, calls, sent,
                  readerVars, stopping >>

(* down_interruptible gives up: nothing of the write is queued.            *)
DownInterrupted(p) ==
  /\ Signals /\ Pauses(p)
  /\ pc[p] = "down" /\ lockWriter # none
  /\ unprocessed' = unprocessed - size[p]
  /\ sent' = [ sent EXCEPT ![p] = @ + size[p] ]
  /\ pc' = [ pc EXCEPT ![p] = "idle" ]
  /\ UNCHANGED << kfifo, lockWriter, opened, size, i, sawIn, calls,
                  readerVars, stopping >>

(* Fault: only three bytes of the frame are queued.                        *)
DelayShort(p) ==
  /\ Goes(p)
  /\ pc[p] = "idle" /\ p \in opened /\ calls[p] < MaxCalls
  /\ size' = [ size EXCEPT ![p] = 3 ]
  /\ i' = [ i EXCEPT ![p] = 0 ]
  /\ calls' = [ calls EXCEPT ![p] = @ + 1 ]
  /\ pc' = [ pc EXCEPT ![p] = "wait" ]
  /\ UNCHANGED << kfifo, lockWriter, unprocessed, opened, sawIn, sent,
                  readerVars, stopping >>

(* ioctl DELAY: a frame of its own for register 255, without the semaphore *)
(* and without counting its bytes as unprocessed.                          *)
Delay(p) ==
  /\ Goes(p)
  /\ pc[p] = "idle" /\ p \in opened /\ calls[p] < MaxCalls
  /\ size' = [ size EXCEPT ![p] = 4 ]
  /\ i' = [ i EXCEPT ![p] = 0 ]
  /\ calls' = [ calls EXCEPT ![p] = @ + 1 ]
  /\ pc' = [ pc EXCEPT ![p] = "wait" ]
  /\ UNCHANGED << kfifo, lockWriter, unprocessed, opened, sawIn, sent,
                  readerVars, stopping >>

(* The head of writeData's loop: wait_event_interruptible on queueWriter.  *)
WaitForSpace(p) ==
  /\ pc[p] = "wait"
  /\ \/ KfifoIsFull /\ Pauses(p) /\ pc' = [ pc EXCEPT ![p] = "asleep" ]
     \/ ~KfifoIsFull /\ Goes(p) /\ pc' = [ pc EXCEPT ![p] = "fill" ]
  /\ UNCHANGED << kfifo, lockWriter, unprocessed, opened, size, i, sawIn,
                  calls, sent, readerVars, stopping >>

(* A signal ends the wait.  Room found on waking counts for more; without  *)
(* it the rest of the write is dropped, and device_write still returns     *)
(* iSize.                                                                  *)
SpaceInterrupted(p) ==
  /\ Signals /\ Goes(p)
  /\ pc[p] = "asleep"
  /\ \/ /\ ~KfifoIsFull
        /\ pc' = [ pc EXCEPT ![p] = "fill" ]
        /\ UNCHANGED << unprocessed, sent, i >>
     \/ /\ KfifoIsFull
        /\ unprocessed' = unprocessed - (size[p] - i[p])
        /\ sent' = [ sent EXCEPT ![p] = @ + (size[p] - i[p]) ]
        /\ i' = [ i EXCEPT ![p] = size[p] ]
        /\ pc' = [ pc EXCEPT ![p] = "up" ]
  /\ UNCHANGED << kfifo, lockWriter, opened, size, sawIn, calls, readerVars,
                  stopping >>

(* The head of the inner loop: another byte, or wake the reader.           *)
Fill(p) ==
  /\ Goes(p)
  /\ pc[p] = "fill"
  /\ pc' = [ pc EXCEPT ![p] =
               IF i[p] < size[p] /\ ~KfifoIsFull THEN "copy" ELSE "wake" ]
  /\ UNCHANGED << kfifo, lockWriter, unprocessed, opened, size, i, sawIn,
                  calls, sent, readerVars, stopping >>

(* kfifo_in of one byte, whose result is ignored: it looks for room again, *)
(* copies to the slot of "in", then reads "in" and stores it plus one.     *)
CopyIn(p) ==
  /\ Goes(p)
  /\ pc[p] = "copy"
  /\ \/ /\ ~KfifoIsFull
        /\ data' = [ data EXCEPT ![Slot(in)] = << p, sent[p] >> ]
        /\ pc' = [ pc EXCEPT ![p] = "load" ]
        /\ UNCHANGED << i, sent >>
     \/ /\ KfifoIsFull
        /\ i' = [ i EXCEPT ![p] = @ + 1 ]
        /\ sent' = [ sent EXCEPT ![p] = @ + 1 ]
        /\ pc' = [ pc EXCEPT ![p] = "fill" ]
        /\ UNCHANGED data
  /\ UNCHANGED << in, out, lockWriter, unprocessed, opened, size, sawIn,
                  calls, readerVars, stopping >>

LoadIn(p) ==
  /\ Goes(p)
  /\ pc[p] = "load"
  /\ sawIn' = [ sawIn EXCEPT ![p] = in ]
  /\ pc' = [ pc EXCEPT ![p] = "store" ]
  /\ UNCHANGED << kfifo, lockWriter, unprocessed, opened, size, i, calls,
                  sent, readerVars, stopping >>

StoreIn(p) ==
  /\ Goes(p)
  /\ pc[p] = "store"
  /\ in' = (sawIn[p] + 1) % Modulus
  /\ i' = [ i EXCEPT ![p] = @ + 1 ]
  /\ sent' = [ sent EXCEPT ![p] = @ + 1 ]
  /\ pc' = [ pc EXCEPT ![p] = "fill" ]
  /\ UNCHANGED << out, data, lockWriter, unprocessed, opened, size, sawIn,
                  calls, readerVars, stopping >>

(* Fault: the reader is left asleep.                                       *)
WakeReaderForgotten(p) ==
  /\ Goes(p)
  /\ pc[p] = "wake"
  /\ pc' = [ pc EXCEPT ![p] = IF i[p] < size[p] THEN "wait" ELSE "up" ]
  /\ UNCHANGED << kfifo, lockWriter, unprocessed, opened, size, i, sawIn,
                  calls, sent, readerVars, stopping >>

WakeReader(p) ==
  /\ Goes(p)
  /\ pc[p] = "wake"
  /\ reader' = IF reader = "asleep" THEN "wait" ELSE reader
  /\ pc' = [ pc EXCEPT ![p] = IF i[p] < size[p] THEN "wait" ELSE "up" ]
  /\ UNCHANGED << kfifo, lockWriter, unprocessed, opened, size, i, sawIn,
                  calls, sent, acBuffer, got, sawOut, taken, stopping >>

(* Fault: the semaphore is not given back.                                 *)
ReturnHolding(p) ==
  /\ Pauses(p)
  /\ pc[p] = "up"
  /\ pc' = [ pc EXCEPT ![p] = "idle" ]
  /\ UNCHANGED << kfifo, lockWriter, unprocessed, opened, size, i, sawIn,
                  calls, sent, readerVars, stopping >>

(* writeData returns; device_write gives the semaphore back.               *)
Return(p) ==
  /\ Pauses(p)
  /\ pc[p] = "up"
  /\ lockWriter' = IF p \in Writers THEN none ELSE lockWriter
  /\ pc' = [ pc EXCEPT ![p] = "idle" ]
  /\ UNCHANGED << kfifo, unprocessed, opened, size, i, sawIn, calls, sent,
                  readerVars, stopping >>

(* ioctl RESET: kfifo_reset stores 0 in the two indices, in the order the  *)
(* compiler likes, and wakes nobody.                                       *)
Reset(p) ==
  /\ Goes(p)
  /\ pc[p] = "idle" /\ p \in opened /\ calls[p] < MaxCalls
  /\ calls' = [ calls EXCEPT ![p] = @ + 1 ]
  /\ \/ /\ in' = 0
        /\ pc' = [ pc EXCEPT ![p] = "resetOut" ]
        /\ UNCHANGED out
     \/ /\ out' = 0
        /\ pc' = [ pc EXCEPT ![p] = "resetIn" ]
        /\ UNCHANGED in
  /\ UNCHANGED << data, lockWriter, unprocessed, opened, size, i, sawIn,
                  sent, readerVars, stopping >>

ResetRest(p) ==
  /\ Pauses(p)
  /\ pc[p] \in { "resetIn", "resetOut" }
  /\ in' = IF pc[p] = "resetIn" THEN 0 ELSE in
  /\ out' = IF pc[p] = "resetOut" THEN 0 ELSE out
  /\ pc' = [ pc EXCEPT ![p] = "idle" ]
  /\ UNCHANGED << data, lockWriter, unprocessed, opened, size, i, sawIn,
                  calls, sent, readerVars, stopping >>

WriteData(p) ==
  \/ WaitForSpace(p) \/ SpaceInterrupted(p) \/ Fill(p)
  \/ CopyIn(p) \/ LoadIn(p) \/ StoreIn(p) \/ WakeReader(p) \/ Return(p)

(* rmmod, which the kernel refuses while the device is open.               *)
Unload ==
  /\ CanUnload /\ Pauses(none)
  /\ ~stopping /\ opened = {}
  /\ stopping' = TRUE
  /\ reader' = IF reader = "asleep" THEN "wait" ELSE reader
  /\ UNCHANGED << kfifo, lockWriter, unprocessed, opened, procVars, acBuffer,
                  got, sawOut, taken >>

-----------------------------------------------------------------------------
(* The kernel thread, sidThread2.                                          *)

ShouldStop ==
  /\ reader = "check"
  /\ \/ ~stopping /\ Goes("reader") /\ reader' = "wait"
     \/ stopping /\ Pauses("reader") /\ reader' = "ended"
  /\ UNCHANGED << kfifo, lockWriter, unprocessed, opened, procVars, acBuffer,
                  got, sawOut, taken, stopping >>

(* Fault: less than a frame is as good as nothing.                         *)
WaitForFrame ==
  /\ reader = "wait"
  /\ \/ /\ KfifoLen < 4 /\ ~stopping
        /\ Pauses("reader")
        /\ reader' = "asleep"
     \/ /\ KfifoLen >= 4 \/ stopping
        /\ Goes("reader")
        /\ reader' = "out"
  /\ UNCHANGED << kfifo, lockWriter, unprocessed, opened, procVars, acBuffer,
                  got, sawOut, taken, stopping >>

WaitForData ==
  /\ reader = "wait"
  /\ \/ /\ KfifoIsEmpty /\ ~stopping
        /\ Pauses("reader")
        /\ reader' = "asleep"
     \/ /\ ~KfifoIsEmpty \/ stopping
        /\ Goes("reader")
        /\ reader' = "out"
  /\ UNCHANGED << kfifo, lockWriter, unprocessed, opened, procVars, acBuffer,
                  got, sawOut, taken, stopping >>

(* kfifo_out of up to four bytes, whose result is ignored: bytes it did    *)
(* not fill are whatever the stack holds.                                  *)
CopyOut ==
  /\ Goes("reader")
  /\ reader = "out"
  /\ LET n == IF KfifoLen < 4 THEN KfifoLen ELSE 4
     IN  /\ got' = n
         /\ acBuffer' = [ k \in 1 .. 4 |->
                            IF k <= n THEN data[Slot(out + k - 1)] ELSE Junk ]
  /\ reader' = "load"
  /\ UNCHANGED << kfifo, lockWriter, unprocessed, opened, procVars, sawOut,
                  taken, stopping >>

LoadOut ==
  /\ Goes("reader")
  /\ reader = "load"
  /\ sawOut' = out
  /\ reader' = "store"
  /\ UNCHANGED << kfifo, lockWriter, unprocessed, opened, procVars, acBuffer,
                  got, taken, stopping >>

(* "out" moves on, and the thread sleeps the delay in acBuffer[2..3].      *)
StoreOut ==
  /\ Pauses("reader")
  /\ reader = "store"
  /\ out' = (sawOut + got) % Modulus
  /\ taken' = [ p \in Producers |->
                  taken[p] + Cardinality({ k \in 1 .. got :
                    acBuffer[k] # Junk /\ acBuffer[k][1] = p }) ]
  /\ reader' = "play"
  /\ UNCHANGED << in, data, lockWriter, unprocessed, opened, procVars,
                  acBuffer, got, sawOut, stopping >>

(* Fault: the writers are left asleep.                                     *)
PlayQuietly ==
  /\ Goes("reader")
  /\ reader = "play"
  /\ unprocessed' = unprocessed - 1
  /\ reader' = "check"
  /\ UNCHANGED << kfifo, lockWriter, opened, procVars, acBuffer, got, sawOut,
                  taken, stopping >>

(* writeSidPar if the register is one of the chip's, then the writers are  *)
(* woken and one unit of unprocessed data is counted off.                  *)
Play ==
  /\ Goes("reader")
  /\ reader = "play"
  /\ pc' = [ p \in Process |-> IF pc[p] = "asleep" THEN "wait" ELSE pc[p] ]
  /\ unprocessed' = unprocessed - 1
  /\ reader' = "check"
  /\ UNCHANGED << kfifo, lockWriter, opened, size, i, sawIn, calls, sent,
                  acBuffer, got, sawOut, taken, stopping >>

Reader ==
  ShouldStop \/ WaitForData \/ CopyOut \/ LoadOut \/ StoreOut \/ Play

-----------------------------------------------------------------------------
Next ==
  \/ \E p \in Process : Open(p) \/ Close(p)
  \/ \E p \in Writers : Write(p) \/ Down(p) \/ DownInterrupted(p)
  \/ \E p \in Delayers : Delay(p)
  \/ \E p \in Producers : WriteData(p)
  \/ \E p \in Resetters : Reset(p) \/ ResetRest(p)
  \/ Unload
  \/ Reader

Spec == Init /\ [][Next]_vars

(* The kernel runs whoever can run, and its semaphores and wait queues are *)
(* first come, first served.  Nobody has to call the driver.               *)
Fairness ==
  /\ \A p \in Writers : SF_vars(Down(p))
  /\ \A p \in Producers : WF_vars(WriteData(p))
  /\ \A p \in Resetters : WF_vars(ResetRest(p))
  /\ WF_vars(Reader)

FairSpec == Spec /\ Fairness

-----------------------------------------------------------------------------
InWriteData == { "wait", "asleep", "fill", "copy", "load", "store", "wake",
                 "up" }

Byte == Producers \X Nat

KfifoTypes ==
  /\ in \in 0 .. Modulus - 1 /\ out \in 0 .. Modulus - 1
  /\ data \in [ 0 .. Size - 1 -> Byte \cup {Junk} ]

CallTypes ==
  /\ lockWriter \in Writers \cup {none}
  /\ unprocessed \in Int
  /\ opened \subseteq Process
  /\ pc \in [ Process -> { "idle", "down", "resetIn", "resetOut" }
                           \cup InWriteData ]
  /\ size \in [ Producers -> Nat ] /\ i \in [ Producers -> Nat ]
  /\ sawIn \in [ Producers -> 0 .. Modulus - 1 ]
  /\ calls \in [ Process -> 0 .. MaxCalls ] /\ sent \in [ Producers -> Nat ]

ReaderTypes ==
  /\ reader \in { "check", "wait", "asleep", "out", "load", "store", "play",
                  "ended" }
  /\ acBuffer \in [ 1 .. 4 -> Byte \cup {Junk} ]
  /\ got \in 0 .. 4
  /\ sawOut \in 0 .. Modulus - 1
  /\ taken \in [ Producers -> Nat ]
  /\ stopping \in BOOLEAN
  /\ cpu \in Process \cup { "reader", none }

LockIsHeld ==
  \A p \in Writers : lockWriter = p <=> pc[p] \in InWriteData

(* The variables stay in range, and the semaphore is held by exactly the   *)
(* writer that is inside writeData.                                        *)
TypeOK == KfifoTypes /\ CallTypes /\ ReaderTypes /\ LockIsHeld

(* The bytes in the kfifo, oldest first.                                   *)
Queued == [ k \in 1 .. KfifoLen |-> data[Slot(out + k - 1)] ]

(* Between writers that hold lockWriter and the one reader, the kfifo      *)
(* loses, repeats and reorders nothing, although neither side locks it:    *)
(* what is queued of a process is what it sent and the reader has not      *)
(* taken yet, in the order it was sent.                                    *)
QueueHoldsStream ==
  /\ KfifoLen <= Size
  /\ \A p \in Producers :
       LET mine == { k \in DOMAIN Queued : Queued[k] # Junk /\ Queued[k][1] = p }
       IN  /\ { Queued[k][2] : k \in mine } = taken[p] .. sent[p] - 1
           /\ \A j, k \in mine : j < k => Queued[j][2] < Queued[k][2]

AFrame ==
  /\ Junk \notin { acBuffer[k] : k \in 1 .. 4 }
  /\ acBuffer[1][2] % 4 = 0
  /\ \A k \in 2 .. 4 :
       acBuffer[k] = << acBuffer[1][1], acBuffer[1][2] + k - 1 >>

(* What the thread is about to play is one frame of one caller.  Only on   *)
(* its last round, woken by kthread_stop to an empty queue, may it play    *)
(* what its stack holds, and then it has taken nothing: it never takes     *)
(* part of a frame, whatever is cut short by signals, RESET or unload.     *)
FramesIntact ==
  reader = "play" =>
    \/ got = 4 /\ AFrame
    \/ got = 0 /\ stopping

(* The reader sleeps only on an empty queue, or with a wake-up coming.     *)
ReaderIsWoken ==
  reader = "asleep" =>
    \/ KfifoIsEmpty
    \/ \E p \in Process :
         pc[p] \in { "fill", "copy", "load", "store", "wake", "resetIn", "resetOut" }

(* A writer waits for space only while the reader is up and will make it:  *)
(* the two sides never wait for each other.                                *)
NotBothAsleep ==
  \A p \in Producers : ~(pc[p] = "asleep" /\ reader = "asleep")

(* Every write() and ioctl() returns.                                      *)
CallsReturn ==
  \A p \in Process : pc[p] # "idle" ~> pc[p] = "idle"

LargestBatch == CHOOSE n \in Batches : \A m \in Batches : m <= n

(* Every byte that was sent is taken by the thread, or the module goes.    *)
AllIsTaken ==
  \A p \in Producers, n \in 1 .. MaxCalls * LargestBatch :
    sent[p] >= n ~> taken[p] >= n \/ stopping
=============================================================================
