------------------------------- MODULE SerialSid -------------------------------
(***************************************************************************)
(* The serial board, as serialsid.c drives it: sixteen bits are shifted    *)
(* out on SER with a pulse on RCLK each, a pulse on SCLK puts them on the  *)
(* lines of the SID, and a pulse on CS makes the SID take them.  Every     *)
(* store to the GPIO block is a step.                                      *)
(***************************************************************************)
EXTENDS Integers, Sequences

CONSTANTS
  Addrs, Datas,   (* what write_sid is called with                         *)
  MaxWrites,      (* bound: calls of write_sid and reset_sid               *)
  none

ASSUME SerialAssumption ==
  Addrs \subseteq 0 .. 255 /\ Datas \subseteq 0 .. 255 /\ MaxWrites \in Nat

Weight == << 1, 2, 4, 8, 16, 32, 64, 128 >>

Bit(n, i) == (n \div Weight[i + 1]) % 2

Width == 16

(* Fault: the two bits that are not connected come last.                   *)
BitsPadded(addr, data, reset) ==
  [ k \in 1 .. Width |->
      IF k <= 8 THEN Bit(data, 8 - k)
      ELSE IF k = 9 THEN reset
      ELSE IF k <= 14 THEN Bit(addr, 14 - k) ELSE 0 ]

(* The bits in the order in which write_sid sends them.                    *)
Bits(addr, data, reset) ==
  [ k \in 1 .. Width |->
      IF k <= 8 THEN Bit(data, 8 - k)
      ELSE IF k <= 10 THEN 0
      ELSE IF k = 11 THEN reset
      ELSE Bit(addr, 16 - k) ]

VARIABLES
  pc,                   (* where the program is                            *)
  addr, data,           (* what it is writing                              *)
  reset,                (* the variable of that name, while it writes      *)
  sent,                 (* the bits write_sid has sent                     *)
  writes,
  driven,               (* the pins are outputs, and the clock runs        *)
  ser, rclk, sclk, cs,  (* the levels the pins have when they are outputs  *)
  shift,                (* the shift register, the newest bit first        *)
  latch,                (* its outputs, which are the SID's lines          *)
  chip                  (* the lines when the SID took them last           *)

call == << addr, data, reset, writes >>
pins == << ser, rclk, sclk, cs >>
board == << shift, latch, chip >>
vars == << pc, call, sent, driven, pins, board >>

(* Nothing is known of the levels and bits that are there at the start; an *)
(* earlier program may have set up the pins.                               *)
Init ==
  /\ pc = "off" /\ addr = 0 /\ data = 0 /\ reset = 1 /\ sent = 0 /\ writes = 0
  /\ ser \in 0 .. 1 /\ rclk \in 0 .. 1 /\ sclk \in 0 .. 1 /\ cs \in 0 .. 1
  /\ driven \in BOOLEAN
  /\ shift = [ k \in 1 .. Width |-> none ] /\ latch = shift /\ chip = none

-----------------------------------------------------------------------------
(* The board, if it is driven: a rising edge of RCLK shifts, one of SCLK   *)
(* shows what has been shifted, and the SID looks at its lines at any time *)
(* while CS is low.                                                        *)

Rclk(level) ==
  /\ rclk' = level
  /\ shift' = IF driven /\ rclk = 0 /\ level = 1
              THEN [ k \in 1 .. Width |-> IF k = 1 THEN ser ELSE shift[k - 1] ]
              ELSE shift
  /\ UNCHANGED latch

Sclk(level) ==
  /\ sclk' = level
  /\ latch' = IF driven /\ sclk = 0 /\ level = 1 THEN shift ELSE latch
  /\ UNCHANGED shift

Phi2 ==
  /\ driven /\ cs = 0
  /\ chip' = latch
  /\ UNCHANGED << pc, call, driven, sent, pins, shift, latch >>

-----------------------------------------------------------------------------
(* setup_sid makes the pins outputs and starts the clock, which leaves the *)
(* levels alone; or it returns all the same when it cannot map gpio, so    *)
(* that the first write crashes, or the clock or the timer, so that writes *)
(* go to pins nobody has set up.                                           *)
SetupSid ==
  /\ pc = "off"
  /\ \/ pc' = "ready" /\ driven' = TRUE
     \/ pc' \in { "ready", "unmapped" } /\ UNCHANGED driven
  /\ UNCHANGED << call, sent, pins, board >>

Call(a, d, r) ==
  /\ writes < MaxWrites /\ pc \in { "ready", "unmapped" }
  /\ writes' = writes + 1
  /\ addr' = a /\ data' = d /\ reset' = r /\ sent' = 0
  /\ pc' = IF pc = "unmapped" THEN "crashed" ELSE "clearSclk"
  /\ UNCHANGED << driven, pins, board >>

WriteSid == \E a \in Addrs, d \in Datas : Call(a, d, 1)

(* The reset line stays low until the next write.                          *)
ResetSid == Call(0, 0, 0)

(* write_bit, sixteen times.                                               *)
ClearSclk ==
  /\ pc = "clearSclk" /\ pc' = "clearRclk"
  /\ Sclk(0)
  /\ UNCHANGED << call, driven, sent, ser, rclk, cs, chip >>

ClearRclk ==
  /\ pc = "clearRclk" /\ pc' = "setSer"
  /\ Rclk(0)
  /\ UNCHANGED << call, driven, sent, ser, sclk, cs, chip >>

SetSer ==
  /\ pc = "setSer" /\ pc' = "raiseRclk"
  /\ ser' = Bits(addr, data, reset)[sent + 1]
  /\ UNCHANGED << call, driven, sent, rclk, sclk, cs, board >>

RaiseRclk ==
  /\ pc = "raiseRclk" /\ pc' = "lowerRclk"
  /\ Rclk(1)
  /\ UNCHANGED << call, driven, sent, ser, sclk, cs, chip >>

(* Fault: seven bits of data.                                              *)
LowerRclkEarly ==
  /\ pc = "lowerRclk"
  /\ pc' = IF sent + 2 = Width THEN "raiseSclk" ELSE "clearSclk"
  /\ sent' = sent + 1
  /\ Rclk(0)
  /\ UNCHANGED << call, driven, ser, sclk, cs, chip >>

LowerRclk ==
  /\ pc = "lowerRclk"
  /\ pc' = IF sent + 1 = Width THEN "raiseSclk" ELSE "clearSclk"
  /\ sent' = sent + 1
  /\ Rclk(0)
  /\ UNCHANGED << call, driven, ser, sclk, cs, chip >>

(* The rest of write_sid.                                                  *)
RaiseSclk ==
  /\ pc = "raiseSclk" /\ pc' = "lowerSclk"
  /\ Sclk(1)
  /\ UNCHANGED << call, driven, sent, ser, rclk, cs, chip >>

LowerSclk ==
  /\ pc = "lowerSclk" /\ pc' = "lowerCs"
  /\ Sclk(0)
  /\ UNCHANGED << call, driven, sent, ser, rclk, cs, chip >>

LowerCs ==
  /\ pc = "lowerCs" /\ pc' = "raiseCs"
  /\ cs' = 0
  /\ UNCHANGED << call, driven, sent, ser, rclk, sclk, board >>

(* Fault: the SID stays selected.                                          *)
RaiseCsNot ==
  /\ pc = "raiseCs" /\ pc' = "ready"
  /\ UNCHANGED << call, driven, sent, pins, board >>

(* reset_sid sets the variable again when write_sid is through.            *)
RaiseCs ==
  /\ pc = "raiseCs" /\ pc' = "ready"
  /\ cs' = 1
  /\ UNCHANGED << call, driven, sent, ser, rclk, sclk, board >>

Next ==
  \/ SetupSid \/ WriteSid \/ ResetSid
  \/ ClearSclk \/ ClearRclk \/ SetSer \/ RaiseRclk \/ LowerRclk
  \/ RaiseSclk \/ LowerSclk \/ LowerCs \/ RaiseCs
  \/ Phi2

Spec == Init /\ [][Next]_vars

-----------------------------------------------------------------------------
Sending == { "clearSclk", "clearRclk", "setSer", "raiseRclk", "lowerRclk" }
Showing == { "raiseSclk", "lowerSclk", "lowerCs", "raiseCs" }

Word == [ 1 .. Width -> { 0, 1, none } ]

(* Types, and: exactly sixteen bits go out before they are shown.          *)
TypeOK ==
  /\ pc \in { "off", "unmapped", "crashed", "ready" } \cup Sending \cup Showing
  /\ addr \in 0 .. 255 /\ data \in 0 .. 255 /\ reset \in 0 .. 1
  /\ sent \in 0 .. Width
  /\ pc \in Sending => sent < Width
  /\ pc \in Showing => sent = Width
  /\ { ser, rclk, sclk, cs } \subseteq 0 .. 1 /\ driven \in BOOLEAN
  /\ shift \in Word /\ latch \in Word /\ chip \in Word \cup {none}

(* The lines of the SID: A0 to A4, reset, and D0 to D7.                    *)
Shows(lines, a, d, r) ==
  /\ \A i \in 0 .. 4 : lines[1 + i] = Bit(a, i)
  /\ lines[6] = r
  /\ \A i \in 0 .. 7 : lines[9 + i] = Bit(d, i)

(* When the SID is strobed each bit has reached its line: the address      *)
(* modulo 32, the data, and reset as it is meant to be.                    *)
StrobedIsAsked == driven /\ pc = "raiseCs" => Shows(latch, addr, data, reset)

Written == writes > 1 \/ (writes = 1 /\ pc = "ready")

(* From the end of the first write on the SID takes nothing but what it is *)
(* being strobed with, whatever passes through the shift register.         *)
NothingElseTaken ==
  [][ Written /\ chip' # chip =>
        pc = "raiseCs" /\ Shows(chip', addr, data, reset) ]_vars
=============================================================================
