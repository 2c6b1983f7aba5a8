---------------------------- MODULE SerialSidProofs ----------------------------
(***************************************************************************)
(* What SerialSid promises, for every set of addresses and data and any    *)
(* number of writes.                                                       *)
(***************************************************************************)
EXTENDS SerialSid, TLAPS

Word16 == Bits(addr, data, reset)

(* The first n bits of the word are in, the newest in front.               *)
Holds(word, n) == \A k \in 1 .. n : word[k] = Word16[n + 1 - k]

ShiftInv == driven =>
  /\ pc \in { "clearSclk", "clearRclk", "setSer", "raiseRclk" }
       => Holds(shift, sent)
  /\ pc = "raiseRclk" => ser = Word16[sent + 1]
  /\ pc = "lowerRclk" => Holds(shift, sent + 1)
  /\ pc = "raiseSclk" => Holds(shift, Width)
  /\ pc \in Showing \ {"raiseSclk"} => Holds(latch, Width)

(* The clocks are low when they are to rise.                               *)
ClockInv ==
  /\ pc \in { "setSer", "raiseRclk" } => rclk = 0
  /\ pc \in { "clearRclk", "setSer", "raiseRclk", "lowerRclk", "raiseSclk" }
       => sclk = 0

(* From the end of the first write on the SID is selected for its strobes. *)
SelectInv ==
  /\ writes \in Nat
  /\ pc \in { "off", "unmapped" } => writes = 0
  /\ pc = "crashed" => writes <= 1
  /\ writes = 0 => pc \in { "off", "ready", "unmapped" }
  /\ Written => cs = 1 \/ pc = "raiseCs"

IInv == TypeOK /\ ShiftInv /\ ClockInv /\ SelectInv

-----------------------------------------------------------------------------
LEMMA BitType == ASSUME NEW n \in Nat, NEW i \in 0 .. 7 PROVE Bit(n, i) \in 0 .. 1
<1>1. Weight[i + 1] \in Nat \ {0}
  BY DEF Weight
<1>2. n \div Weight[i + 1] \in Int
  BY <1>1
<1> QED BY <1>2 DEF Bit

LEMMA WordType ==
  ASSUME TypeOK, NEW k \in 1 .. Width
  PROVE  Word16[k] \in 0 .. 1
<1>1. \A i \in 0 .. 7 : Bit(addr, i) \in 0 .. 1 /\ Bit(data, i) \in 0 .. 1
  BY BitType DEF TypeOK
<1>2. k <= 8 => 8 - k \in 0 .. 7
  BY DEF Width
<1>3. k > 11 => 16 - k \in 0 .. 7
  BY DEF Width
<1> QED BY <1>1, <1>2, <1>3 DEF Word16, Bits, Width, TypeOK

(* A word that is all in has every bit on its line.                        *)
LEMMA EveryLine ==
  ASSUME TypeOK, NEW word, Holds(word, Width)
  PROVE  Shows(word, addr, data, reset)
<1>1. ASSUME NEW i \in 0 .. 4 PROVE word[1 + i] = Bit(addr, i)
  <2>1. word[1 + i] = Word16[16 - i]
    BY DEF Holds, Width
  <2>2. Word16[16 - i] = Bit(addr, 16 - (16 - i))
    BY DEF Word16, Bits, Width
  <2>3. 16 - (16 - i) = i
    OBVIOUS
  <2> QED BY <2>1, <2>2, <2>3
<1>2. word[6] = reset
  BY DEF Holds, Width, Word16, Bits
<1>3. ASSUME NEW i \in 0 .. 7 PROVE word[9 + i] = Bit(data, i)
  <2>1. word[9 + i] = Word16[8 - i]
    BY DEF Holds, Width
  <2>2. Word16[8 - i] = Bit(data, 8 - (8 - i))
    BY DEF Word16, Bits, Width
  <2>3. 8 - (8 - i) = i
    OBVIOUS
  <2> QED BY <2>1, <2>2, <2>3
<1> QED BY <1>1, <1>2, <1>3 DEF Shows

LEMMA Start == Init => IInv
BY SerialAssumption
   DEF Init, IInv, TypeOK, ShiftInv, ClockInv, SelectInv, Word, Width, Written,
       Sending, Showing

LEMMA CallStep ==
  ASSUME IInv, NEW a \in 0 .. 255, NEW d \in 0 .. 255, NEW r \in 0 .. 1,
         Call(a, d, r)
  PROVE  IInv'
<1> USE DEF IInv
<1>1. TypeOK'
  BY DEF Call, TypeOK, pins, board, Sending, Showing, Width
<1>2. ShiftInv' /\ ClockInv'
  BY DEF Call, ShiftInv, ClockInv, Holds, Showing, pins, board
<1>3. SelectInv'
  BY DEF Call, SelectInv, Written, pins
<1> QED BY <1>1, <1>2, <1>3

(* The steps that leave the shift register and its outputs alone.          *)
LEMMA QuietStep ==
  ASSUME IInv, SetupSid \/ LowerCs \/ RaiseCs \/ Phi2 \/ UNCHANGED vars
  PROVE  IInv'
<1> USE DEF IInv
<1>1. UNCHANGED << call, sent, shift, latch, rclk, sclk, ser >> /\ Word16' = Word16
  BY DEF SetupSid, LowerCs, RaiseCs, Phi2, vars, call, pins, board, Word16
<1>2. TypeOK'
  <2>1. driven' = driven \/ driven' = TRUE
    BY DEF SetupSid, LowerCs, RaiseCs, Phi2, vars
  <2>2. driven' \in BOOLEAN
    BY <2>1 DEF TypeOK
  <2> QED
    BY <1>1, <2>2 DEF SetupSid, LowerCs, RaiseCs, Phi2, TypeOK, call, pins,
       board, vars, Sending, Showing
<1>3. ShiftInv' /\ ClockInv'
  BY <1>1 DEF SetupSid, LowerCs, RaiseCs, Phi2, ShiftInv, ClockInv, Holds,
         Showing, pins, board, vars
<1>4. SelectInv'
  BY <1>1 DEF SetupSid, LowerCs, RaiseCs, Phi2, SelectInv, Written, TypeOK, call,
         pins, board, vars
<1> QED BY <1>2, <1>3, <1>4

(* The steps of a bit, up to the edge that shifts.                         *)
LEMMA BitStep ==
  ASSUME IInv, ClearSclk \/ ClearRclk \/ SetSer
  PROVE  IInv'
<1> USE DEF IInv
<1>1. UNCHANGED << call, driven, sent, cs, chip, shift, latch >> /\ Word16' = Word16
  BY DEF ClearSclk, ClearRclk, SetSer, Sclk, Rclk, call, pins, board, Word16
<1>2. ser' \in 0 .. 1
  <2>1. sent + 1 \in 1 .. Width /\ SetSer => ser' = Word16[sent + 1]
    BY DEF SetSer, Word16
  <2>2. SetSer => sent + 1 \in 1 .. Width
    BY DEF SetSer, TypeOK, Sending, Width
  <2> QED BY <2>1, <2>2, WordType DEF ClearSclk, ClearRclk, TypeOK
<1>3. TypeOK'
  BY <1>1, <1>2 DEF ClearSclk, ClearRclk, SetSer, Sclk, Rclk, TypeOK, call,
         Sending, Showing
<1>4. ShiftInv' /\ ClockInv'
  BY <1>1 DEF ClearSclk, ClearRclk, SetSer, Sclk, Rclk, ShiftInv, ClockInv,
         Holds, Showing, Word16, call
<1>5. SelectInv'
  BY <1>1 DEF ClearSclk, ClearRclk, SetSer, SelectInv, Written, call
<1> QED BY <1>3, <1>4, <1>5

LEMMA ShiftStep == ASSUME IInv, RaiseRclk PROVE IInv'
<1> USE DEF IInv
<1>1. /\ shift' = IF driven
                  THEN [ k \in 1 .. Width |-> IF k = 1 THEN ser ELSE shift[k - 1] ]
                  ELSE shift
      /\ UNCHANGED << call, driven, sent, cs, chip, latch, ser, sclk >>
      /\ Word16' = Word16 /\ rclk' = 1
      /\ pc = "raiseRclk" /\ pc' = "lowerRclk"
  BY DEF RaiseRclk, Rclk, ClockInv, call, Word16
<1>2. sent \in 0 .. Width - 1
  BY <1>1 DEF TypeOK, Sending, Width
<1>3. TypeOK'
  <2>1. shift' \in Word
    BY <1>1 DEF TypeOK, Word, Width
  <2> QED BY <1>1, <2>1 DEF TypeOK, call, Sending, Showing
<1>4. ASSUME driven PROVE Holds(shift, sent + 1)'
  <2>1. ASSUME NEW k \in 1 .. sent + 1 PROVE shift'[k] = Word16[sent + 2 - k]
    <3>1. k \in 1 .. Width
      BY <1>2 DEF Width
    <3>2. CASE k = 1
      BY <1>1, <1>2, <1>4, <3>1, <3>2 DEF ShiftInv
    <3>3. CASE k > 1
      <4>1. shift'[k] = shift[k - 1] /\ k - 1 \in 1 .. sent
        BY <1>1, <1>2, <1>4, <3>1, <3>3
      <4>2. shift[k - 1] = Word16[sent + 1 - (k - 1)]
        BY <1>1, <1>4, <4>1 DEF ShiftInv, Holds
      <4>3. sent + 1 - (k - 1) = sent + 2 - k
        BY <1>2
      <4> QED BY <4>1, <4>2, <4>3
    <3> QED BY <3>1, <3>2, <3>3 DEF Width
  <2>2. sent' = sent
    BY <1>1 DEF call
  <2>3. ASSUME NEW k \in 1 .. sent + 1
        PROVE  shift'[k] = Word16[(sent + 1) + 1 - k]
    <3>1. (sent + 1) + 1 - k = sent + 2 - k
      BY <1>2
    <3> QED BY <2>1, <3>1
  <2> QED BY <1>1, <2>2, <2>3 DEF Holds
<1>5. ShiftInv' /\ ClockInv'
  BY <1>1, <1>4 DEF ShiftInv, ClockInv, Showing
<1>6. SelectInv'
  BY <1>1 DEF SelectInv, Written, call
<1> QED BY <1>3, <1>5, <1>6

LEMMA NextBitStep == ASSUME IInv, LowerRclk PROVE IInv'
<1> USE DEF IInv
<1>1. /\ UNCHANGED << call, driven, cs, chip, latch, ser, sclk, shift >>
      /\ Word16' = Word16 /\ rclk' = 0 /\ sent' = sent + 1
      /\ pc = "lowerRclk"
      /\ pc' = IF sent + 1 = Width THEN "raiseSclk" ELSE "clearSclk"
  BY DEF LowerRclk, Rclk, call, Word16
<1>2. sent \in 0 .. Width - 1
  BY <1>1 DEF TypeOK, Sending, Width
<1>3. TypeOK'
  BY <1>1, <1>2 DEF TypeOK, call, Sending, Showing, Width
<1>4. driven => Holds(shift, sent)'
  BY <1>1 DEF ShiftInv, Holds
<1>5. ShiftInv' /\ ClockInv'
  BY <1>1, <1>4 DEF ShiftInv, ClockInv, Showing, Holds
<1>6. SelectInv'
  BY <1>1 DEF SelectInv, Written, call
<1> QED BY <1>3, <1>5, <1>6

LEMMA LatchStep == ASSUME IInv, RaiseSclk \/ LowerSclk PROVE IInv'
<1> USE DEF IInv
<1>1. /\ UNCHANGED << call, driven, sent, cs, chip, ser, rclk, shift >>
      /\ Word16' = Word16
      /\ \/ /\ pc = "raiseSclk" /\ pc' = "lowerSclk"
            /\ latch' = (IF driven THEN shift ELSE latch) /\ sclk' = 1
         \/ /\ pc = "lowerSclk" /\ pc' = "lowerCs"
            /\ latch' = latch /\ sclk' = 0
  <2>1. CASE RaiseSclk
    BY <2>1 DEF RaiseSclk, Sclk, ClockInv, call, Word16
  <2>2. CASE LowerSclk
    BY <2>2 DEF LowerSclk, Sclk, call, Word16
  <2> QED BY <2>1, <2>2
<1>2. TypeOK'
  BY <1>1 DEF TypeOK, call, Sending, Showing
<1>3. driven => Holds(latch, Width)'
  BY <1>1 DEF ShiftInv, Holds, Showing
<1>4. ShiftInv' /\ ClockInv'
  BY <1>1, <1>3 DEF ShiftInv, ClockInv
<1>5. SelectInv'
  BY <1>1 DEF SelectInv, Written, call
<1> QED BY <1>2, <1>4, <1>5

LEMMA Inductive == IInv /\ [Next]_vars => IInv'
<1>1. ASSUME IInv, WriteSid PROVE IInv'
  <2>1. PICK a \in 0 .. 255, d \in 0 .. 255 : Call(a, d, 1)
    BY <1>1, SerialAssumption DEF WriteSid
  <2>2. 1 \in 0 .. 1
    OBVIOUS
  <2> QED BY <1>1, <2>1, <2>2, CallStep
<1>2. ASSUME IInv, ResetSid PROVE IInv'
  <2>1. Call(0, 0, 0) /\ 0 \in 0 .. 255 /\ 0 \in 0 .. 1
    BY <1>2 DEF ResetSid
  <2> QED BY <1>2, <2>1, CallStep
<1> QED
  BY <1>1, <1>2, QuietStep, BitStep, ShiftStep, NextBitStep, LatchStep DEF Next

LEMMA Always == Spec => []IInv
BY Start, Inductive, PTL DEF Spec

-----------------------------------------------------------------------------
(* The variables keep to their types, and sixteen bits are sent, no less.  *)
THEOREM TypeCorrect == Spec => []TypeOK
<1>1. IInv => TypeOK
  BY DEF IInv
<1> QED BY <1>1, Always, PTL

(* The SID is strobed with every bit of the write on its own line.         *)
THEOREM StrobeIsRight == Spec => []StrobedIsAsked
<1>1. IInv => StrobedIsAsked
  BY EveryLine DEF IInv, ShiftInv, StrobedIsAsked, Showing
<1> QED BY <1>1, Always, PTL

(* After the first write the SID takes nothing else.                       *)
THEOREM NothingElse == Spec => NothingElseTaken
<1>1. IInv /\ [Next]_vars =>
        [ Written /\ chip' # chip =>
            pc = "raiseCs" /\ Shows(chip', addr, data, reset) ]_vars
  <2> SUFFICES ASSUME IInv, Next, Written, chip' # chip
               PROVE  pc = "raiseCs" /\ Shows(chip', addr, data, reset)
    OBVIOUS
  <2>1. Phi2
    BY DEF Next, SetupSid, WriteSid, ResetSid, Call, ClearSclk, ClearRclk, SetSer,
           RaiseRclk, LowerRclk, RaiseSclk, LowerSclk, LowerCs, RaiseCs, board
  <2>2. driven /\ cs = 0 /\ chip' = latch
    BY <2>1 DEF Phi2
  <2>3. pc = "raiseCs"
    BY <2>2 DEF IInv, SelectInv
  <2> QED BY <2>2, <2>3, EveryLine DEF IInv, ShiftInv, Showing
<1> QED BY <1>1, Always, PTL DEF Spec, NothingElseTaken
=============================================================================
