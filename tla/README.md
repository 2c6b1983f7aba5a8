# SidPi in TLA+

SidPi puts a MOS 6581 sound chip on the GPIO pins of a Raspberry Pi. A program
that plays music sends *frames* of four bytes: a register, a value, and a delay
in cycles to wait before the write. Two separate implementations take frames
and play them: a network server (`sidpiserver/`, C with two threads) and a
Linux kernel module (`module/`, the device `/dev/sid`). Both are a queue of
bytes between a producer that must not lose the frame boundary and a thread
that plays at the music's pace. Neither puts a frame in its queue in one step,
and that is where the difficulty of the code lies.

Paths below are relative to the repository. The project is checked with TLC
(`tlc -config X.cfg M`) and proved with TLAPS (`tlapm M.tla`).

## 1. Inventory

| part | code | state it keeps | operations |
|---|---|---|---|
| byte ring | `sidpiserver/src/fifo.c` | buffer, size, count, first, last | initFIFO, writeFIFO, readFIFO, resetFIFO, counts |
| packet handling | `sidpiserver/src/sidpiserver.c:157-392` | dataRead, dataWrite, inputClock | one case per command of the network SID protocol, SIGINT |
| SID thread | `sidpiserver/src/sidrunnerthread.c` | fifo, mutex `queue`, isPlaybackReady, currentClock | setupSid, sidThread, sidWrite, sidDelay, room tests |
| listener | `sidpiserver/src/sidpiserver.c:33-155` | the listening socket, one client socket | bind, accept, read until an error, send |
| driver queue | `module/src/sidpi.c:143-185, 295-346, 510-692` | kfifo, two wait queues, semaphore lockWriter, g_atomUnprocessedData | open, release, write, ioctl, kernel thread |
| module load and unload | `module/src/sidpi.c:351-509` | the resources acquired | init with its unwinding, cleanup |
| GPIO bus | `writeSidPar` and `writeSid`, `generatePinTables`, `setPinsToOutput(2)` | 8 data, 5 address and 4 control pins | one write to the chip |
| clock divider | `startSidClk`, twice, and `start_sid_clock` | divisor registers | integer arithmetic |
| serial SID | `sidpiserver/src/serialsid.c` | shift register, `reset`, bit counter | setup_sid, write_sid, reset_sid |
| proxy | `proxy/.../Repeater.java` | two sockets, a command byte | forwards both ways, polls a console |
| player | `player/app2.js` | none | writes one frame to `/dev/sid` and closes |
| memory mapping | `sidpiserver/src/rpi.c` | none | open and mmap of `/dev/mem` |
| boards | `schematic/`, `manufacturing/`, `ROUTING.md` | none | hardware |

How they interact. A client talks TCP to the listener, directly or through the
proxy. The listener calls the packet handler with what one `read` returned. The
packet handler and the SID thread share the ring under a mutex, and the
playback flag and the ring's count without it. The server opens `/dev/sid` as
well, but only for the ioctls FLUSH (which the module answers without doing
anything) and RESET; its frames never pass through the module. Processes that
write to `/dev/sid` share the kfifo with the kernel thread without any lock.
The server's thread and the module's thread drive the same pins.

What is hard, and what makes each part correct:

- **Ring.** Indices wrap by masking and a count tells full from empty. Correct
  if it is a bounded queue under every sequence of calls.
- **Packet handling and SID thread.** Room is measured without the mutex and
  used later; every return value of the ring is ignored; playback starts only
  when a packet happens to find the ring more than half full; a BUSY packet is
  sent again. Correct if frames reach the chip whole, once and in order, BUSY
  ends, and accepted frames are played.
- **Driver queue.** The comments describe a FIFO lock that is commented out. The
  DELAY and RESET ioctls take no lock at all. Signals, unload and a queue
  smaller than a write happen at any point. Correct if the kfifo holds what was
  written, the thread plays whole frames, and the two wait queues never both
  wait.
- **Listener and proxy.** A `read` is taken for a packet; end of stream is not
  an event. Correct if an answer belongs to its packet, however TCP cuts the
  stream, and a client that leaves makes room for the next.
- **Module load.** A ladder of acquisitions, seven unwindings written out by
  hand, and a device that exists before the rest does. Correct if nothing
  outlives what it rests on and a load that fails gives back what it took.
- **GPIO bus.** A write is six stores; set and clear bits go to different
  registers, ten pins share a function register, and two programs drive the
  same pins. Correct if the chip takes the address and the value it was asked to
  take and nothing else.
- **Clock divider.** The wait for the generator to stop has no limit, and the
  period of the clock decides whether a strobe is long enough.
- **Serial SID.** A bit finds its line by its place among sixteen. Correct if the
  lines hold the whole word when the chip is strobed.

The hazards, each at its line, are in `PROJECT.json`; those without a property
say why.

## 2. Modules

| module | models | kind |
|---|---|---|
| `Fifo` | `fifo.c` as operators on a record | operators |
| `FifoMachine` | one ring under every sequence of calls | state machine |
| `ByteQueue` | a bounded queue of bytes | abstract specification of `FifoMachine` |
| `FifoLemmas`, `FifoProofs` | facts about the ring; it implements `ByteQueue` | proofs |
| `SidServer` | packet handler and SID thread over a `Fifo` | state machine, two threads |
| `MCSidServer` | bytes and sets of packets for TLC | model checking |
| `FramePipe` | accepted frames are played once, whole, in order | abstract specification of `SidServer` |
| `SidServerProofs` | the server's safety and its refinement of `FramePipe` | proofs |
| `SidDriver` | the module's queue, its callers and its thread | state machine, any number of processes |
| `SidDriverProofs` | the driver's semaphore, its byte streams, whole frames and wake-ups | proofs |
| `Listener` | the server's connections, TCP, the `Repeater` and clients | state machine, any number of clients |
| `RequestReply` | a packet, then its answer, or none | abstract specification of `Listener` for patient clients |
| `ListenerProofs` | order of the answers; `Listener` implements `RequestReply` | proofs |
| `ModuleInit` | insmod, its failures, rmmod, and processes at the device | state machine, any number of processes |
| `ModuleInitProofs` | all safety properties of `ModuleInit` | proofs |
| `SidBus` | both drivers of the pins, clock generator, chip | state machine, two programs |
| `SidBusProofs` | the pins' functions, that a write lands, and that nothing else does | proofs |
| `SerialSid` | the shift register driver, its board, chip | state machine |
| `SerialSidProofs` | all properties of `SerialSid` | proofs |

How they fit together: `Listener` hands a packet to what `SidServer` models;
`SidServer` and `SidDriver` each hand register and value to a write, which
`SidBus` models store by store (its `Write` takes any register and value);
`ModuleInit` acquires the queue and the pins the thread of `SidDriver` uses. The
modules are not one composed specification: the composition would multiply state
spaces that share nothing but a call.

`Fifo` is without state so that both `FifoMachine` and `SidServer` use the same
operators: what is proved of the ring (`FifoLemmas`) is cited in the server's
proofs.

Operators whose comment begins with "Fault:" are plausible bugs of the code next
to the definition they would replace. No specification refers to them; they are
there to confirm that each property can fail.

### Correspondence with the code

**Fifo.** A ring is the record of `struct FIFO`. Functions that both change the
ring and return a value are two operators (`WriteFIFO`, `WriteResult`), since
callers ignore the value. The mask `& (size - 1)` is `%`, which is the same for
the powers of two `initFIFO` accepts. A slot nothing was written to holds
`Junk`, as after `malloc`.

**SidServer.** `srv` is the main thread's place: `setup`, `read` (waiting for a
packet), `half` (about to test for half full), `room` (about to test for room),
`delay` (asleep in `sidDelay`), `frame` (head of the loop of
`handleWritePacket`), `lock`, `put` (inside `sidWrite`), `exited`. `run` is the
SID thread's: `lock`, `check`, `get`, `play`; or `absent` when `setupSid` failed
after making the ring and `nofifo` when it failed before. A step is what no
other thread can cut: one test, one call of the ring, one lock operation. A
packet is its command, the length in its header and the number of bytes read; a
byte of a frame is the pair of the frame's number and its place, so that a byte
taken out of turn shows. The delay in a frame is one tick of both clocks, as
both sides add the same cycles. Of a reply only its code is kept. `accepted`,
`played` and `chip` are history. `FLUSH` calls an ioctl that does nothing and
zeroes `inputClock`; `flush()`, which would empty the ring, has no caller.

**SidDriver.** The kfifo macros are modelled by their definitions: free-running
indices, `in - out` modulo the width of an unsigned int, copy before the index
moves, and the index's `+=` as a load and a store, since nothing makes it
atomic. A byte refused for lack of room leaves the index alone. `Preempt` says
whether other threads can run between any two steps; without it a thread runs
until it sleeps or returns to its caller (`Goes`, `Pauses`), which is the
single-core, non-preemptible kernel of the first Pi that the module supports.
`kfifo_reset` is two stores in either order. Failures of `device_write` before
the semaphore (no memory, bad pointer, empty write) change nothing and are left
out, as are the ioctls that change nothing.

**Listener.** `srv` is main's place: `start`, `accept`, `read` (in `read()`),
`send` (about to answer), `exited`. A packet is two *pieces*, the least at which
a `read()` can end inside one; pieces keep their order on the way, so a place in
a stream is a count: `sent`, `relayed`, `taken` on the way up, `answers`,
`returned`, `received` on the way down. `ProcessReadBuffer` says what main makes
of the pieces a `read()` returned: half a packet ends the program, what follows
a whole packet is dropped without an answer, a second half is taken for a
header. A connection is `open`, `ended` (closed in good order), `reset`, or
`dead`. `read()` returns 0 on an ended one for ever, which leaves the state as
it is and is therefore not an action; only an error (`HangUp`) leads to the next
`accept`. An answer sent to an ended connection succeeds, and the reset that
comes back is no error of a later `read()`; one sent to a reset connection
fails, which main prints, and uses up its error. Either leaves it `dead`:
`read()` has nothing but 0 to return, and one more send ends the program
(SIGPIPE is not handled). The `Repeater` serves one client: it copies up, then
down, as much as there is, and exits altogether on any exception, since its
handler closes a closed socket. `Connect`, `SendPiece`, `Receive` and `Leave`
are the clients; one in `Hasty` sends on without waiting for answers.

**ModuleInit.** `Ladder` is what `_sid_init_module` acquires, in its order;
`Unwind` what its failures release, in theirs, each entering the list at the
place `UndoFrom` gives; `Cleanup` what `_sid_cleanup_module` releases. `held` is
what the current load has, `left` what earlier ones left behind: `Undone` and
`Released` move what was not given back from one to the other. Failing to create
the thread skips the list altogether. A class, a device or a region in `left`
cannot be had again (`OnlyOnce`): that rung fails. `Open` is possible as soon as
the device is registered; `early` are those who came before the load was over,
`stranded` those whose module went away under them.

**SidBus.** Every access to a register of the GPIO block or the clock generator
is a step. `pc` goes through `pins`, `select` (between the read and the write of
a function register), `stop`, `wait`, `divide`, `start`, `ready` and the stores
of a write (`setAddr` to `strobe`). A word is the set of pins whose bits are
set, so `PinsOf` is what `generatePinTables` computes. `Outputs` is the order of
`setPinsToOutput`, with pin 0 in it twice, since RW and RES are the same pin.
`Init` is the Pi after power-on, or as an earlier program left it: the pins set
and the clock busy. `StartClock` notes in `restarted` who was waiting for the
clock to stop. `End` is the unload, the end of the server, or its death between
any two steps. `Phi2` is the chip: while it is selected and its clock runs it
takes what is on its lines, or something unknown (`none`) if a line is not
driven. `RaiseCS` is a microsecond after `LowerCS`, which is a full period of
the clock if the divisor is small enough (`StrobeIsAPeriod`).

**SerialSid.** Every store of `write_bit` and `write_sid` is a step; `Rclk` and
`Sclk` are what the 16-bit shift register does with an edge. `Bits` is the order
in which `write_sid` sends. `delay()` is empty in the code and no step here.
`SetupSid` has the three outcomes of `setup_sid`, which tells its caller of none:
all is mapped and set up; gpio is not mapped, and the first write crashes; or
the clock or the timer is not, and writes go to pins nobody has set up. `driven`
says whether the pins are outputs and the clock runs, from this program or an
earlier one; without it the board sees nothing.

## 3. What is checked

| run | instance | shows |
|---|---|---|
| `fifo` | ring of 4, two byte values | after any calls the ring is well formed and behaves as `ByteQueue`; indices wrap many times |
| `server_writes` | ring of 32; packets of one and three frames, delays and a version request, twelve frames | whole frames, in order, nothing refused or missing; BUSY only while playing; the clocks; the pipe of frames |
| `server_fair` | ring of 32; every command and every malformed packet, writes of 4, 12 and 16 bytes, eight frames, setup failing or not; patient client | the pipe of frames survives FLUSH, exits and SIGINT; accepted frames are played; BUSY ends for packets below half the ring |
| `driver_one_cpu` | no preemption; two writers, DELAY, RESET, signals, unload; writes of one and three frames | what is played is always a whole frame of one caller, or nothing when the thread is stopped; the thread is woken |
| `driver_locked` | preemption; two writers, a queue of 4, writes of 6 bytes, unload | the kfifo keeps every writer's stream; no side is left asleep; writes return, bytes are taken |
| `listener` | two clients at the server, one of them hasty, one behind the `Repeater`; two packets | answers in order; request and reply for the patient; who waits is accepted, unless the one before closed in good order, had its error used up, or is still polled |
| `module_load` | three loads, two processes | mappings, thread and users never outlive what they rest on; failed loads leave the /proc entry and the device at most; unloading leaves nothing new |
| `bus` | both drivers, with and without overlap, one write each of a register below 32 or of any, the server killed anywhere, pins and clock as after power-on or set, levels all low or all high | pins get their functions, set-up ends unless the clock is restarted in the wait, an undisturbed write lands and nothing else does |
| `serial` | three calls, two registers, two values, any levels at the start, set-up complete or not | the strobed word is the one asked for, and no other is taken |
| `driver_torn` | preemption; one writer | **violated**: finding 1 |
| `driver_reset` | no preemption; a writer and RESET | **violated**: finding 2 |
| `listener_next_client` | two clients at the server | **violated**: finding 3 |

The properties, by module:

- `TypeOK` (everywhere): besides ranges, it ties the mutex or semaphore to the
  place of the thread that holds it (`SidServer`, `SidDriver`), keeps the places
  of a stream in their order (`Listener`), empties a module that is out
  (`ModuleInit`), and counts sixteen bits before they are shown (`SerialSid`).
- `SidServer.FramesIntact`: what the thread is about to play is frame number
  `played`, all four bytes. It depends on the room measured without the mutex
  still being there, on the mutex, and on the count test of the thread.
- `WholeFrames`: the thread, when it looks, finds a multiple of four bytes.
- `NoByteRefused`, `NoByteMissing`: the ignored results are never -1.
- `BusyMeansPlaying`: BUSY for a packet below half the ring is sent only with
  playback on. A client that just retries depends on it.
- `ClockLead`: without FLUSH, `currentClock` never overtakes `inputClock`: what
  has been played was asked for. With FLUSH nothing of the kind holds, since only
  one of the clocks is reset; `clientTimeDifference` (`sidpiserver.c:180`), the
  difference of the two, is computed and never used.
- `IsFramePipe`: the server implements `FramePipe`, with a depth of the frames
  the ring takes (one less than fits, the test is strict) and one in the SID
  thread's hands.
- `AcceptedIsPlayed`: once playback is on, every accepted frame is played.
  `BusyIsTemporary`: a BUSY packet below half the ring (`BusyForNow`) is accepted
  if the client repeats it, or the server exits. Without the proviso it is false,
  see below.
- `QueueHoldsStream`: for every writer, what the kfifo holds of it is exactly
  the stretch between what it sent and what the thread took.
- `SidDriver.FramesIntact`: the four bytes played are one aligned frame of one
  caller, none of them uninitialised; or none was taken, and only as the thread
  is told to stop.
- `ReaderIsWoken`, `NotBothAsleep`: no lost wake-up, on either wait queue.
- `CallsReturn`, `AllIsTaken`: liveness of the driver.
- `AnswersInOrder`: the answers a client gets are to its packets in their order,
  each at most once; answers to a misread second half (number 0) aside.
- `IsRequestReply`: a client that waits for its answers sees `RequestReply`,
  directly or through the `Repeater`: a read that joins or cuts packets cannot
  give it an answer that is not its own.
- `NextIsServed`: a waiting connection is accepted, or the server has exited, or
  it spins on an ended or a dead connection, or the `Repeater` polls a client
  that is gone. These four are all the ways in which it ends.
- `ThreadHasPins`: the thread is there only while the queue and the mapped pins
  are; `MapsInsideRegions`: a mapping is there only while its region is ours.
- `UsersAreServed`: who opened the device of a loaded module has all of it until
  he closes it.
- `FailedLoadLeaves`: a failed load leaves at most its /proc entry and its device
  node, unless it was the thread that failed; `CleanCycle`: an unload leaves
  nothing new.
- `PinsEndUpSet`: a driver set up by itself leaves every pin with its function,
  although it reads and writes registers that ten pins share.
- `SetUpEnds`: a driver that has begun to set up comes through or is killed,
  whatever the clock did before and whatever the other driver does meanwhile.
  The one exception is named: the wait for the clock is endless for a driver in
  it when the other starts the clock.
- `UndisturbedWriteLands`: a write that no other driver came between is in the
  chip when `writeSid` returns. `NothingElseLands`: with one driver at a time the
  chip takes nothing else once a write has been made since the pins were last
  left in disorder (`Settled`): by what was there before, or by a server killed
  in the middle of a write.
- `StrobedIsAsked`: at the strobe every bit of register, value and reset is on
  its line, if the pins are set up; `NothingElseTaken`: nothing else is ever
  taken, although every bit passes through the register.

### Bounds, and why they are enough

- Rings. The server's has `BUFFER_SIZE` 8192 bytes and the runs use 32: eight
  frames, enough to be empty, below half, at half, above half and full, with
  room for one packet and not for another. The packets of `server_fair` are
  below half the ring and of just half, so the one that can be BUSY for ever is
  among them. The proofs cover every size. The kfifo has 8 bytes on one
  processor, two frames, with writes larger than it, and 4 in `driver_locked`,
  with writes of one frame and a half.
- `Modulus` twice the kfifo: the free-running indices wrap after two queues,
  several times in a run.
- `MaxFrames`, `MaxClock`: twelve frames in `server_writes`, more than the ring
  holds, so BUSY, retries and wrap-around all happen; eight in `server_fair`.
- `MaxCalls` 1 per process in the driver's runs: two writers, of up to three
  frames, and two ioctls already compete; what a second call could add, more
  bytes in the queue, a larger write does as well.
- Two processes of a kind suffice for the semaphore: a third would wait beside
  the second. Nothing in the module counts processes.
- `MaxPackets` 2 in `listener`, among all clients: two packets of one client can
  be joined, cut or dropped, and one each of two clients compete. The safety
  properties are proved without the bound.
- `MaxLoads` 3: one that fails, one that finds what it left, one that follows.
  Proved without the bound.
- `MaxWrites` 1 per driver in `bus`: two writes that overlap, and one that finds
  the levels of another; levels start all low or all high, so every bit that is
  not written would show. A killed server is followed by the module in all its
  steps. `Regs` has one register that the module takes and one
  that only the server takes, modulo 32.
- `MaxWrites` 3 in `serial`: the second and third call find what the first left
  in register and latch. Proved without the bound.
- Deadlock is not checked where the system may stop: a process exits, the bounds
  run out, or everyone sleeps on an empty queue.

### Fairness

- Server (`SidServer.FairSpec`): weak fairness for every step of each thread, as
  the kernel runs both; strong fairness for the two lock operations, because each
  thread leaves the mutex free for a long time again and again (the SID thread
  sleeps 100 us or a frame's delay, the main thread waits for the network). The
  client's `Resend` of a BUSY packet is weakly fair: `BusyIsTemporary` is about
  a client that repeats the packet, and `PatientNext` makes it do nothing else.
  No fairness for other packets or SIGINT.
- Driver (`SidDriver.FairSpec`): weak fairness for a process inside the driver
  and for the thread; strong fairness for `Down`, as kernel semaphores hand over
  first come, first served. No process has to make a call. `AllIsTaken` ends with
  the unload, after which nobody takes anything.
- Listener (`Listener.FairSpec`): weak fairness for every step of main and for
  the `Repeater`, which both run whenever they can, and for `Leave`: a client
  does not stay for ever. Without the last a client could simply keep the server.
  Clients need not send, connect or read.
- Bus (`SidBus.FairSpec`): weak fairness for the set-up of each driver, which is
  a sequence of instructions without a wait but for the clock, and for the clock
  generator, which stops once it is asked to. Nobody has to begin, to write or
  to end.

### Findings

1. *Torn frames on several processors* (`sidpi.c:318`). `kfifo_out` takes what
   there is, the result is ignored, and the writer adds single bytes. The thread
   plays what its stack holds for the rest and is out of step from then on.
2. *RESET leaves a writer asleep* (`sidpi.c:621`). It empties the queue without
   waking `queueWriter`; if the thread was woken but has not run yet, it finds
   nothing and sleeps as well.
3. *A client that closes is the last* (`sidpiserver.c:139`). `read` returns 0 at
   the end of a connection, `while (rv > -1)` goes on, and the accept loop is
   never reached again. The next client gets in only when the connection breaks
   with an error. Through the `Repeater` it is the same: it never notices that its
   client has closed (`Repeater.java:103`).

Met while modelling, shown by TLC on variants of these instances, and not kept as
runs:

- A packet of half the ring or more can be BUSY for ever (`sidpiserver.c:260`): a
  ring filled to half exactly has no room for it, and playback starts only above
  half. `BusyMeansPlaying` and `BusyIsTemporary` therefore speak of smaller
  packets (`BusyForNow`), and the latter fails in `server_fair` without that.
- DELAY beside a write on several processors (`sidpi.c:670`): two producers on a
  queue that is safe for one lose or repeat bytes.
- Unload plays a buffer to which nothing was copied (`sidpi.c:318`):
  `kthread_stop` ends the wait with an empty queue. `FramesIntact` allows it then,
  and only then.
- When both drivers set up their pins at once, a pin can lose its function, as
  each writes back the neighbours it read; `PinsEndUpSet` therefore speaks of one
  driver at a time. A wait for the clock is endless when the other starts it
  again, which `SetUpEnds` excepts. When both write at once the chip takes words
  nobody asked for; `UndisturbedWriteLands` and `NothingElseLands` leave that out.
- The divider's fraction is the remainder over the oscillator's frequency instead
  of the chip's, so that the module's clock runs at 1.009 MHz instead of 0.985. A
  strobe of one microsecond covers a period of the clock only because of that:
  with the right divisor (79820 parts, more than 78643) `UndisturbedWriteLands`
  fails.
- A failed load leaves the /proc entry, and the device node when it got that far.
  A device that is left clashes with the `device_create` of every later load, so
  the module does not load again before a reboot. When the thread cannot be
  created everything is left, with the same result.

Noticed, without a property: a tune of less than half the ring is accepted and
never played; TRY_DELAY sleeps in the main thread on arrival rather than behind
queued writes; TRY_READ drops the writes it carries; TRY_RESET ignores its
volume; `write()` returns its full size after a signal dropped the rest;
`g_atomUnprocessedData` counts bytes up and frames down, and nothing reads it;
`device_open` does not take the mutex its comment (`sidpi.c:117`) announces;
`reset_sid` leaves the reset line low until the next write; a failed `setup_sid`
is only printed, and writes go on, to an address that was never mapped if it was
gpio that failed.

## 4. What is proved

For every value of the constants that satisfies the modules' assumptions
(`JunkAssumption`, `SizeAssumption`, `ServerAssumption`: the ring's size is one
`initFIFO` accepts, packets are packets, frames' bytes are bytes;
`DriverAssumption`: the kfifo's size is a multiple of four that divides the range
of its indices, the roles of the processes are disjoint, and memory nothing was
written to holds no byte of a process;
`ListenerAssumption`: a client is at the server or behind the `Repeater`;
`LoadAssumption`, `BusAssumption`, `SerialAssumption`: bounds are numbers,
registers and values are bytes).

**The ring** (`FifoProofs`). `TypeCorrect`: the ring stays well formed.
`Refinement`: it implements `ByteQueue` under `q <- Contents(fifo)`. The
argument is in `FifoLemmas`: `SlotLemma` says that different offsets from the
front fall in different slots, `WriteLemma` and `ReadLemma` what a call does to
every offset, `AppendLemma` and `TailLemma` the same of the sequence. The type
is inductive because it says that `fifo_last` is `fifo_first + fifo_count`
around the ring.

**The server** (`SidServerProofs`). The invariants are not inductive; `IInv` is:

- `RingInv`: the ring holds the stretch of the client's stream of bytes between
  `TotalIn` (put in so far) and `TotalOut` (taken out so far), byte by byte;
- `RunInv`: the bytes in the SID thread's hands are the first of frame `played`,
  which was complete when the thread began, and playback is on;
- `SrvInv`: while the main thread writes a packet, the room for what is left of
  it is still there, although it was measured without the mutex: only the main
  thread fills the ring. It also keeps the ring from ever being quite full;
- `BusyMeansPlaying` is inductive together with them.

There is a lemma per action (`LockStep`, `PutStep`, ...); the actions that leave
ring and histories alone share `QuietServerStep`. From `IInv` follow
`TypeCorrect`, `FramesSafe`, `WholeFramesOnly`, `NothingIgnored`, `BusySafe`,
and `Refinement`: the server implements `FramePipe`. The last needs arithmetic
on the number of whole frames in a ring that keeps one byte free.

`ClocksApart` adds `ClockInv` (each clock against the history it counts) and
proves `ClockLead`.

**The driver** (`SidDriverProofs`), for any number of processes, with signals and
unload unless a theorem excludes them, and for any size of the queue, of its
indices and of the writes.

- `TypeCorrect`, with the semaphore: `lockWriter` is held by exactly the writer
  inside `writeData`, whether it got there, slept, was interrupted or left.
  `CallInv` strengthens it: a call never runs past its bytes, without which the
  history `sent` would not be a number.
- `Turn` is what a kernel without preemption gives: a thread that does not have
  the processor is at one of the places where it gave it up, all of them between
  two frames. `OneAdds`, at most one producer is in the loop that adds bytes,
  follows from the semaphore or from `Turn`.
- `StreamKept` (`QueueHoldsStream`), without RESET and signals, which drop bytes
  on purpose: for writers on any number of processors, and with DELAY on one. The
  invariant is `StreamInv`. Its first part, `PlaceInv`, is about the steps of
  `kfifo_in` and `kfifo_out` that are not atomic: the room a producer saw is
  still there, the byte it copied still stands in the slot of `in`, the index it
  loaded is still `in`; and what the thread has copied is still first in the
  queue. Its second, `HoldInv`, says that the queue is the producers' streams,
  nothing missing, nothing twice, in order. Both rest on lemmas about indices that
  run freely and wrap (`SlotWraps`, `SlotsDiffer`, `LenIs`) and on what a copy and
  a move of either index do to every offset (`CopyLemma`, `PushLemma`,
  `PopLemma`). `TakenFirst` counts: the bytes of a process among those the thread
  takes are the first it has queued.
- `WholeFrames` (`FramesIntact`), on one processor without preemption, with
  DELAY, RESET, signals and unload, for writes of whole frames, which is needed
  (a write of three bytes shifts the frames). `FrameInv` says that calls
  (`CallsWhole`), the queue (`QueueWhole`) and the thread (`ReaderWhole`) are
  between frames except for one producer inside its loop. It is inductive
  because the size of the queue is a multiple of four: a producer that finds it
  full, and lets others run, is between two frames. Between the two stores of a
  RESET (`HalfReset`) nothing is claimed of the queue, and nobody else runs.
- `ReaderWoken` (`ReaderIsWoken`): the thread is asleep only on an empty queue or
  with a wake-up on its way. Without RESET it needs neither the semaphore nor a
  single processor. With RESET it is proved for one processor; on several it is
  false, since a writer can add bytes, and wake the reader for nothing, between
  the two stores of `kfifo_reset`.
- `NeverBothAsleep` (`NotBothAsleep`), without RESET: for writers on any number of
  processors, and with DELAY on one. The strengthening is `WriterIsWoken`: a
  sleeping writer has a full queue and a reader that is up, or a reader about to
  wake it. It is the semaphore, or the one processor, that makes it inductive: no
  second producer can move `in` under one that sleeps. Finding 2 is what happens
  with RESET.

**The listener** (`ListenerProofs`), for any number of clients and packets.
`TypeCorrect` is inductive as it stands. `InOrder` (`AnswersInOrder`) needs
`ReadBefore`, an answer is to a packet that was read whole, and `SendsNext`, the
one about to be sent is to a later packet than those before. `Refinement` needs
`AtMostOneAhead`: a patient client is at most one packet ahead of its answers,
and main has read that packet whole or not at all, unless it has exited on half
of it; so a `read()` cannot join two packets of such a client. It follows from
`Bounds`: what was taken is no more than what was sent. Only `Read`, `Send` and
`SendPiece` disturb these; the other actions share `KeptInOrder`.

**Module load** (`ModuleInitProofs`), for any number of loads and processes.
`IInv` says for each phase what is held: on the way up the rungs below, except
perhaps the /proc entry (`Climbing`); on the way down what is still to be
unwound (`Unwinding`), unless the thread failed; while live everything
(`Living`); during an unload what is still to be released (`Cleaning`).
`ThreadSafe`, `MapsSafe`, `UsersSafe`, `LittleIsLeft` and the action property
`CleanUnload` follow.

**The bus** (`SidBusProofs`), for any registers, values and number of writes.
`TypeCorrect` holds with overlap as well. `PinsSet` is about one driver at a
time (`Alone`): the pins it has gone through have their functions (`PinsInv`),
because what it read of a shared register is still true when it writes it back
(`StillTrue`). `WriteLands` and `NothingElse` follow from `WriteInv`: after each
store of a write that nobody disturbed, the pins stored so far have their levels
(`LinesInv`), chip select is, in a settled bus, down only between its two stores
(`SelectInv`; a server killed there unsettles it, and it was alone), and a
strobe covers a period of the clock (`StrobeIsAPeriod`), which is arithmetic on
the divisor with the constants of the code. That the number on the lines is the
one written is a fact about binary digits: no pin is in both tables, and a
number is the sum of its bits.

**Serial SID** (`SerialSidProofs`), for every register, value and number of calls.
`ShiftInv` says that the newest bits of the register are the bits sent, newest
first; `StrobeIsRight` and the action property `NothingElse` follow from the
sixteenth.

**Only model-checked.** All liveness (`AcceptedIsPlayed`, `BusyIsTemporary`,
`CallsReturn`, `AllIsTaken`, `NextIsServed`, `SetUpEnds`), since the prover does
not reason about fairness. Every invariant, action property and refinement that
a run checks is also proved; where a theorem has hypotheses beyond the module's
assumptions they are named above.

## 5. What is not modelled, and the plan

What is left, in order:

1. A theorem for signals: with them the kfifo drops bytes, but only from the end
   of a call. `HoldInv` would speak of the bytes that were queued instead of
   those that were sent.
2. An abstract specification for `SidDriver`, as `FramePipe` is for the server: a
   queue of whole frames that writers append to, which the module implements on
   one processor. `FrameInv` is the invariant it needs.
3. The state predicates behind the liveness properties: that who waits in
   `CallsReturn` or `AcceptedIsPlayed` always has a step on its way, as
   `WriterIsWoken` and `ReaderIsWoken` say for the driver.

Left out for good: the boards (hardware); the success path of mapping memory
(pure I/O, its failure is an outcome of `Setup`, `Begin` and `SetupSid`); the
serial test program, which only calls `write_sid`; the player (one frame and an
exit); the console of the proxy, which sets values nothing sends; the text of
/proc; `device_read`, which returns without a byte; the functions without a
caller (`Buffer` and its queue, `setThreshold`, `setMultiplier`, `flush`,
`unmap_peripheral`). Time itself is not modelled: a sleep is a step that ends,
and the one place where a duration matters, the strobe of the bus, compares it
with the period of the clock.

The third copy of the divider, `start_sid_clock` of `serialsid.c`, computes as
the server's does. In the module's the product `divr * 4096` is in 32 bits; with
the only frequency it is called with it is 1,967,259,648 and fits.
