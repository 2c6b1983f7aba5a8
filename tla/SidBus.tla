------------------------------- MODULE SidBus -------------------------------
(***************************************************************************)
(* The pins of the Pi, as the kernel module (setPinsToOutput2, startSidClk *)
(* and writeSidPar of module/src/sidpi.c) and the server (setPinsToOutput, *)
(* startSidClk and writeSid of sidrunnerthread.c) drive them, and the SID  *)
(* chip on the other side of them.  A word written to the GPIO block is a  *)
(* set of pins.  Every access to a register is a step; the two drivers     *)
(* share the registers and know nothing of each other.                     *)
(***************************************************************************)
EXTENDS Integers, Sequences, FiniteSets, Functions

CONSTANTS
  Drivers,     (* which of "module" and "server" are there                 *)
  Regs,        (* registers and values that are written                    *)
  Values,
  MaxWrites,   (* bound: writes of a driver                                *)
  none

ASSUME BusAssumption ==
  /\ Drivers \subseteq { "module", "server" } /\ none \notin Drivers
  /\ Regs \subseteq 0 .. 255 /\ Values \subseteq 0 .. 255
  /\ MaxWrites \in Nat

DATA == << 11, 9, 10, 22, 27, 17, 3, 2 >>
ADDR == << 23, 24, 25, 8, 7 >>
CS   == 18
RW   == 0
RES  == 0
CLK  == 4

(* In the order in which they are set up.                                  *)
Outputs == DATA \o ADDR \o << CS, RW, RES, CLK >>
Pin == Range(Outputs)

Function(pin) == IF pin = CLK THEN "alt0" ELSE "output"

(* The register that selects a pin's function holds those of ten pins.     *)
GPFSEL(pin) == pin \div 10

(* The pins of "lines" that carry the bits of n.                           *)
PinsOf(n, lines) ==
  { lines[k] : k \in { b \in DOMAIN lines : (n \div 2^(b - 1)) % 2 = 1 } }

dataPins(value) == PinsOf(value, DATA)
addrPins(reg)   == PinsOf(reg, ADDR)

(* The numbers that the levels "high" put on the lines.                    *)
AddrOn(high) ==
  LET bit(k) == IF ADDR[k] \in high THEN 1 ELSE 0
  IN  bit(1) + 2 * bit(2) + 4 * bit(3) + 8 * bit(4) + 16 * bit(5)

DataOn(high) ==
  LET bit(k) == IF DATA[k] \in high THEN 1 ELSE 0
  IN  bit(1) + 2 * bit(2) + 4 * bit(3) + 8 * bit(4)
        + 16 * bit(5) + 32 * bit(6) + 64 * bit(7) + 128 * bit(8)

-----------------------------------------------------------------------------
(* The clock generator divides 19.2 MHz by a number of 4096ths.            *)
Oscillator == 19200000

DEFAULT_SID_SPEED_HZ(d) == IF d = "module" THEN 985248 ELSE 1000000

(* divi and divf.  The remainder is taken for a part of the oscillator's   *)
(* frequency instead of freq.                                              *)
Divisor(freq) ==
  LET divi == Oscillator \div freq
      divf == ((Oscillator % freq) * 4096) \div Oscillator
  IN  (IF divi > 4095 THEN 4095 ELSE divi) * 4096 + divf

(* A strobe lasts a microsecond: a whole period of the chip's clock, if    *)
(* that is no slower than 1 MHz.                                           *)
StrobeIsAPeriod(parts) == parts <= 78643

VARIABLES
  pc,          (* where each driver is                                     *)
  at,          (* the place in Outputs it has come to                      *)
  saw,         (* what it read from a function select register             *)
  reg, val,    (* what it is writing                                       *)
  writes,
  function,    (* of each pin                                              *)
  high,        (* the pins whose output is high                            *)
  clock,       (* "idle", "busy" or "off": asked to stop, still busy       *)
  divisor,     (* that of the clock                                        *)
  restarted,   (* the drivers whose wait another one's start cut off       *)
  chip,        (* the register and value the SID took last                 *)
  edge,        (* the chip's clock fell since chip select did              *)
  overlap,     (* the drivers may be there together                        *)
  disturbed    (* the drivers another one came between                     *)

progVars == << pc, at, saw, reg, val, writes >>
clockVars == << clock, divisor, restarted >>
chipVars == << chip, edge >>
vars == << progVars, function, high, clockVars, chipVars, overlap, disturbed >>

(* The pins and the clock are as the Pi starts, or as an earlier program   *)
(* left them.  Nothing is known of the levels: all are low or all high.    *)
Init ==
  /\ pc = [ d \in Drivers |-> "off" ]
  /\ at = [ d \in Drivers |-> 1 ]
  /\ saw = [ d \in Drivers |-> << >> ]
  /\ reg = [ d \in Drivers |-> 0 ] /\ val = [ d \in Drivers |-> 0 ]
  /\ writes = [ d \in Drivers |-> 0 ]
  /\ \/ function = [ p \in Pin |-> "input" ] /\ clock = "idle"
     \/ function = [ p \in Pin |-> Function(p) ] /\ clock = "busy"
  /\ divisor = 0
  /\ high \in { {}, Pin \ { RW, CLK } }
  /\ restarted = {}
  /\ chip = none /\ edge = FALSE
  /\ overlap \in BOOLEAN
  /\ disturbed = {}

SettingUp == { "pins", "select", "stop", "wait", "divide", "start" }
Writing   == { "setAddr", "clearAddr", "setData", "clearData", "select0",
               "strobe" }

Goes(d, from, to) == pc[d] = from /\ pc' = [ pc EXCEPT ![d] = to ]

Gone(d)  == pc[d] \in { "ended", "killed" }
Quiet(d) == pc[d] \in { "off", "ready" } \/ Gone(d)
Others(d) == Drivers \ {d}

(* d starts to use the pins.                                               *)
Disturbs(d) ==
  disturbed' = { e \in Drivers : e # d \/ \E f \in Others(d) : ~Quiet(f) }

-----------------------------------------------------------------------------
(* Setting up.                                                             *)

(* The server maps gpio, clock and timer, one after another, and gives up  *)
(* when it cannot.                                                         *)
Begin(d) ==
  /\ overlap \/ \A e \in Others(d) : pc[e] = "off" \/ Gone(e)
  /\ \/ Goes(d, "off", "pins")
     \/ d = "server" /\ Goes(d, "off", "ended")
  /\ Disturbs(d)
  /\ UNCHANGED << at, saw, reg, val, writes, function, high, clockVars,
                  chipVars, overlap >>

FunctionRead(d) ==
  /\ Goes(d, "pins", "select")
  /\ saw' = [ saw EXCEPT ![d] =
      [ p \in { q \in Pin : GPFSEL(q) = GPFSEL(Outputs[at[d]]) } |-> function[p] ] ]
  /\ UNCHANGED << at, reg, val, writes, function, high, clockVars, chipVars,
                  overlap, disturbed >>

(* Fault: the other pins of the register are not kept.                     *)
FunctionWriteAlone(d) ==
  /\ Goes(d, "select", IF at[d] = Len(Outputs) THEN "stop" ELSE "pins")
  /\ function' = [ p \in Pin |->
       IF p = Outputs[at[d]] THEN Function(p)
       ELSE IF p \in DOMAIN saw[d] THEN "input" ELSE function[p] ]
  /\ at' = [ at EXCEPT ![d] = IF @ = Len(Outputs) THEN 1 ELSE @ + 1 ]
  /\ saw' = [ saw EXCEPT ![d] = << >> ]
  /\ UNCHANGED << reg, val, writes, high, clockVars, chipVars, overlap,
                  disturbed >>

(* Fault: one pin too many.                                                *)
FunctionWriteMore(d) ==
  /\ Goes(d, "select", IF at[d] > Len(Outputs) THEN "stop" ELSE "pins")
  /\ at' = [ at EXCEPT ![d] = IF @ > Len(Outputs) THEN 1 ELSE @ + 1 ]
  /\ saw' = [ saw EXCEPT ![d] = << >> ]
  /\ UNCHANGED << reg, val, writes, function, high, clockVars, chipVars, overlap,
                  disturbed >>

FunctionWrite(d) ==
  /\ Goes(d, "select", IF at[d] = Len(Outputs) THEN "stop" ELSE "pins")
  /\ function' = [ p \in Pin |->
       IF p = Outputs[at[d]] THEN Function(p)
       ELSE IF p \in DOMAIN saw[d] THEN saw[d][p] ELSE function[p] ]
  /\ at' = [ at EXCEPT ![d] = IF @ = Len(Outputs) THEN 1 ELSE @ + 1 ]
  /\ saw' = [ saw EXCEPT ![d] = << >> ]
  /\ UNCHANGED << reg, val, writes, high, clockVars, chipVars, overlap,
                  disturbed >>

(* Fault: the clock is not asked to stop.                                  *)
StopClockNot(d) ==
  /\ Goes(d, "stop", "wait")
  /\ UNCHANGED << at, saw, reg, val, writes, function, high, clockVars,
                  chipVars, overlap, disturbed >>

(* The clock is asked to stop, and stops in its own time.                  *)
StopClock(d) ==
  /\ Goes(d, "stop", "wait")
  /\ clock' = IF clock = "idle" THEN "idle" ELSE "off"
  /\ UNCHANGED << at, saw, reg, val, writes, function, high, divisor,
                  restarted, chipVars, overlap, disturbed >>

ClockStops ==
  /\ clock = "off"
  /\ clock' = "idle"
  /\ UNCHANGED << progVars, function, high, divisor, restarted, chipVars,
                  overlap, disturbed >>

(* Polled without a limit.                                                 *)
WaitForClock(d) ==
  /\ clock = "idle" /\ Goes(d, "wait", "divide")
  /\ UNCHANGED << at, saw, reg, val, writes, function, high, clockVars,
                  chipVars, overlap, disturbed >>

SetDivisor(d) ==
  /\ Goes(d, "divide", "start")
  /\ divisor' = Divisor(DEFAULT_SID_SPEED_HZ(d))
  /\ UNCHANGED << at, saw, reg, val, writes, function, high, clock, restarted,
                  chipVars, overlap, disturbed >>

(* Whoever still waits for the clock to stop will not see it stopped.      *)
StartClock(d) ==
  /\ Goes(d, "start", "ready")
  /\ clock' = "busy"
  /\ restarted' = restarted \cup { e \in Others(d) : pc[e] = "wait" }
  /\ UNCHANGED << at, saw, reg, val, writes, function, high, divisor,
                  chipVars, overlap, disturbed >>

SetUp(d) ==
  \/ FunctionRead(d) \/ FunctionWrite(d)
  \/ StopClock(d) \/ WaitForClock(d) \/ SetDivisor(d) \/ StartClock(d)

-----------------------------------------------------------------------------
(* Writing a register: five stores and a wait.  The module leaves numbers  *)
(* that are not a register's alone; the server takes them modulo 32.       *)

Write(d) ==
  /\ writes[d] < MaxWrites /\ Goes(d, "ready", "setAddr")
  /\ \E r \in Regs, v \in Values :
       /\ d = "module" => r < 32
       /\ reg' = [ reg EXCEPT ![d] = r ] /\ val' = [ val EXCEPT ![d] = v ]
  /\ writes' = [ writes EXCEPT ![d] = @ + 1 ]
  /\ Disturbs(d)
  /\ UNCHANGED << at, saw, function, high, clockVars, chipVars, overlap >>

Store(d, from, to, set, clear) ==
  /\ Goes(d, from, to)
  /\ high' = (high \cup set) \ clear
  /\ UNCHANGED << at, saw, reg, val, writes, function, clockVars, chip,
                  overlap, disturbed >>

SetAddr(d) ==
  Store(d, "setAddr", "clearAddr", addrPins(reg[d] % 32), {}) /\ UNCHANGED edge

(* Fault: bits of the last address stay.                                   *)
ClearAddrNot(d) ==
  Store(d, "clearAddr", "setData", {}, {}) /\ UNCHANGED edge

ClearAddr(d) ==
  /\ Store(d, "clearAddr", "setData", {}, addrPins(31) \ addrPins(reg[d] % 32))
  /\ UNCHANGED edge

SetData(d) ==
  Store(d, "setData", "clearData", dataPins(val[d] % 256), {}) /\ UNCHANGED edge

(* Fault: chip select falls before the data is there.                      *)
ClearDataLate(d) ==
  /\ Store(d, "clearData", "select0", {},
           (dataPins(255) \ dataPins(val[d] % 256)) \cup {CS})
  /\ UNCHANGED edge

ClearData(d) ==
  /\ Store(d, "clearData", "select0", {}, dataPins(255) \ dataPins(val[d] % 256))
  /\ UNCHANGED edge

LowerCS(d) == Store(d, "select0", "strobe", {}, {CS}) /\ edge' = FALSE

(* After a microsecond.                                                    *)
RaiseCS(d) ==
  /\ clock = "busy" /\ StrobeIsAPeriod(divisor) => edge
  /\ Store(d, "strobe", "ready", {CS}, {})
  /\ UNCHANGED edge

(* rmmod, which waits for the thread; or the end of the server, which may  *)
(* come at any time and takes its SID thread along.  What the driver was   *)
(* about to write goes with it.                                            *)
End(d) ==
  /\ \/ Goes(d, "ready", "ended")
     \/ /\ d = "server" /\ pc[d] \in SettingUp \cup Writing
        /\ pc' = [ pc EXCEPT ![d] = "killed" ]
  /\ saw' = [ saw EXCEPT ![d] = << >> ] /\ at' = [ at EXCEPT ![d] = 1 ]
  /\ reg' = [ reg EXCEPT ![d] = 0 ] /\ val' = [ val EXCEPT ![d] = 0 ]
  /\ UNCHANGED << writes, function, high, clockVars, chipVars, overlap,
                  disturbed >>

WriteSid(d) ==
  \/ Write(d) \/ SetAddr(d) \/ ClearAddr(d) \/ SetData(d) \/ ClearData(d)
  \/ LowerCS(d) \/ RaiseCS(d) \/ End(d)

-----------------------------------------------------------------------------
(* The chip takes what is on its lines whenever its clock falls while it   *)
(* is selected.                                                            *)
Selected == function[CS] = "output" /\ CS \notin high

(* A line that nobody drives may have any level.                           *)
OnLines ==
  IF \A p \in Range(DATA \o ADDR) : function[p] = "output"
    THEN << AddrOn(high), DataOn(high) >> ELSE none

Phi2 ==
  /\ clock = "busy" /\ function[CLK] = "alt0" /\ Selected
  /\ chip' = OnLines
  /\ edge' = TRUE
  /\ UNCHANGED << progVars, function, high, clockVars, overlap, disturbed >>

Next ==
  \/ \E d \in Drivers : Begin(d) \/ SetUp(d) \/ WriteSid(d)
  \/ ClockStops \/ Phi2

Spec == Init /\ [][Next]_vars

(* A driver that has begun runs on, and a clock that has been asked to     *)
(* stop does.                                                              *)
Fairness == WF_vars(ClockStops) /\ \A d \in Drivers : WF_vars(SetUp(d))

FairSpec == Spec /\ Fairness

-----------------------------------------------------------------------------
(* Only pins of the bus are ever high, and a driver keeps what it read of  *)
(* a register only between its read and its write.                         *)
TypeOK ==
  /\ pc \in [ Drivers -> { "off", "ready", "ended", "killed" }
                      \cup SettingUp \cup Writing ]
  /\ at \in [ Drivers -> 1 .. Len(Outputs) ]
  /\ \A d \in Drivers : pc[d] # "select" => saw[d] = << >>
  /\ reg \in [ Drivers -> 0 .. 255 ] /\ val \in [ Drivers -> 0 .. 255 ]
  /\ function \in [ Pin -> { "input", "output", "alt0" } ]
  /\ high \subseteq Pin \ { RW, CLK }
  /\ clock \in { "idle", "busy", "off" }
  /\ disturbed \subseteq Drivers /\ restarted \subseteq Drivers

PinsAreSet == \A p \in Pin : function[p] = Function(p)

(* Through with the pins, and no other driver at them.                     *)
PinsAreDone ==
  /\ \E d \in Drivers : pc[d] \in Writing \cup { "stop", "ready" }
  /\ \A d \in Drivers : pc[d] \notin { "pins", "select" }

(* A driver that sets up the pins by itself leaves each with its function, *)
(* though ten pins share a register and two names a pin.                   *)
PinsEndUpSet == ~overlap /\ PinsAreDone => PinsAreSet

(* A driver gets through its set-up or is killed, whatever the clock did   *)
(* before and whatever the other driver does meanwhile, but for one thing: *)
(* the wait for the clock, which has no limit, is endless when the other   *)
(* driver, which comes through, starts the clock before the stop is seen.  *)
SetUpEnds ==
  []<>(\A d \in Drivers : pc[d] \notin SettingUp \/ d \in restarted)

Asked(d) == << reg[d] % 32, val[d] >>

(* A write that no other driver came between is in the chip when writeSid  *)
(* returns, as long as the pins have their functions and the clock runs.   *)
UndisturbedWriteLands ==
  [][ \A d \in Drivers \ disturbed :
        pc[d] = "strobe" /\ pc'[d] = "ready" /\ PinsAreSet /\ clock = "busy"
          => chip = Asked(d) ]_vars

Written(d) == writes[d] > 1 \/ (writes[d] = 1 /\ Quiet(d))

(* A driver has been through a write since the pins were left in disorder: *)
(* by whatever was there before, or by a server that was killed.           *)
Settled ==
  \E d \in Drivers :
    Written(d) /\ (~Gone(d) \/ \A e \in Drivers : pc[e] # "killed")

(* With one driver at a time, from the end of its first write on the chip  *)
(* takes nothing but what it is asked to, even if the pins were left by a  *)
(* server that was killed in the middle of a write.                        *)
NothingElseLands ==
  [][ chip' # chip =>
        \/ overlap \/ ~Settled
        \/ \E d \in Drivers : pc[d] = "strobe" /\ chip' = Asked(d) ]_vars
=============================================================================
