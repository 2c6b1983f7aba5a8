------------------------------ MODULE SidBusProofs ------------------------------
(***************************************************************************)
(* What SidBus promises of the pins, of the clock and of a write, for any  *)
(* registers, values and number of writes, with one driver, two one after  *)
(* another, or two at once.                                                *)
(***************************************************************************)
EXTENDS SidBus, SequenceTheorems, TLAPS

Ways == { "input", "output", "alt0" }

(* The pins that share a register with the one d has come to.              *)
Beside(d) == { q \in Pin : GPFSEL(q) = GPFSEL(Outputs[at[d]]) }

SawInv ==
  /\ saw = [ d \in Drivers |-> saw[d] ]
  /\ \A d \in Drivers :
       pc[d] = "select" => /\ DOMAIN saw[d] = Beside(d)
                           /\ \A p \in Beside(d) : saw[d][p] \in Ways

Started == \A d \in Drivers : pc[d] = "off" => at[d] = 1

There(d) == pc[d] # "off" /\ ~Gone(d)

(* Without overlap one driver at most is there, ...                        *)
Alone ==
  ~overlap => \A d, e \in Drivers : There(d) /\ There(e) => d = e

(* ... the pins it has gone through have their functions, ...              *)
Through(d) ==
  IF pc[d] \in { "pins", "select" }
  THEN \A k \in 1 .. at[d] - 1 : function[Outputs[k]] = Function(Outputs[k])
  ELSE PinsAreSet

PinsInv == ~overlap => \A d \in Drivers : There(d) => Through(d)

(* ... and what it read of a register still holds.                         *)
StillTrue ==
  ~overlap => \A d \in Drivers :
    pc[d] = "select" => \A p \in Beside(d) : saw[d][p] = function[p]

IInv ==
  /\ TypeOK /\ SawInv /\ Started
  /\ Alone /\ PinsInv /\ StillTrue

-----------------------------------------------------------------------------
Control == << CS, RW, RES, CLK >>

LEMMA Lists ==
  /\ DATA \in Seq(Nat) /\ ADDR \in Seq(Nat) /\ Control \in Seq(Nat)
  /\ Len(DATA) = 8 /\ Len(ADDR) = 5 /\ Len(Control) = 4
  /\ DOMAIN DATA = 1 .. 8 /\ DOMAIN ADDR = 1 .. 5
BY DEF DATA, ADDR, Control, CS, RW, RES, CLK

LEMMA Concatenated ==
  ASSUME NEW s \in Seq(Nat), NEW t \in Seq(Nat)
  PROVE  /\ s \o t \in Seq(Nat)
         /\ Len(s \o t) = Len(s) + Len(t)
         /\ \A k \in 1 .. Len(s) + Len(t) :
              (s \o t)[k] = IF k <= Len(s) THEN s[k] ELSE t[k - Len(s)]
BY ConcatProperties, Zenon

LEMMA OutputsIs ==
  /\ Len(Outputs) = 17 /\ DOMAIN Outputs = 1 .. 17
  /\ \A k \in 1 .. 8 : Outputs[k] = DATA[k]
  /\ \A k \in 9 .. 13 : Outputs[k] = ADDR[k - 8]
  /\ \A k \in 14 .. 17 : Outputs[k] = Control[k - 13]
<1> DEFINE Bus == DATA \o ADDR
<1>1. /\ Bus \in Seq(Nat) /\ Len(Bus) = Len(DATA) + Len(ADDR)
      /\ \A k \in 1 .. Len(DATA) + Len(ADDR) :
           Bus[k] = IF k <= Len(DATA) THEN DATA[k] ELSE ADDR[k - Len(DATA)]
  BY Lists, Concatenated, Zenon
<1> HIDE DEF Bus
<1>2. Outputs = Bus \o Control
  BY DEF Outputs, Bus, Control
<1>3. /\ Outputs \in Seq(Nat) /\ Len(Outputs) = Len(Bus) + Len(Control)
      /\ \A k \in 1 .. Len(Bus) + Len(Control) :
           Outputs[k] = IF k <= Len(Bus) THEN Bus[k] ELSE Control[k - Len(Bus)]
  BY <1>1, <1>2, Lists, Concatenated, Zenon
<1> QED BY <1>1, <1>3, Lists

LEMMA PinIs ==
  /\ \A k \in 1 .. 17 : Outputs[k] \in Pin
  /\ \A p \in Pin : \E k \in 1 .. 17 : p = Outputs[k]
BY OutputsIs DEF Pin, Range

(* The lines are among the outputs, and none of them is RW or CLK.         *)
LEMMA LinesAreHigh ==
  /\ Range(DATA) \subseteq Pin \ { RW, CLK }
  /\ Range(ADDR) \subseteq Pin \ { RW, CLK }
  /\ CS \in Pin \ { RW, CLK }
<1>1. \A k \in 1 .. 8 : DATA[k] \in Pin \ { RW, CLK }
  <2>1. \A k \in 1 .. 8 : DATA[k] \notin { RW, CLK }
    BY DEF DATA, RW, CLK
  <2> QED BY <2>1, OutputsIs, PinIs
<1>2. \A k \in 1 .. 5 : ADDR[k] \in Pin \ { RW, CLK }
  <2>1. \A k \in 1 .. 5 : ADDR[k] \notin { RW, CLK }
    BY DEF ADDR, RW, CLK
  <2>2. \A k \in 1 .. 5 : ADDR[k] = Outputs[k + 8]
    <3>1. \A k \in 1 .. 5 : k + 8 \in 9 .. 13 /\ (k + 8) - 8 = k
      OBVIOUS
    <3> QED BY <3>1, OutputsIs
  <2>3. \A k \in 1 .. 5 : k + 8 \in 1 .. 17
    OBVIOUS
  <2> QED BY <2>1, <2>2, <2>3, PinIs
<1>3. CS \in Pin \ { RW, CLK }
  <2>1. CS = Outputs[14]
    BY OutputsIs DEF Control
  <2> QED BY <2>1, PinIs DEF CS, RW, CLK
<1> QED BY <1>1, <1>2, <1>3, Lists DEF Range

LEMMA LinesAreNumbered ==
  ASSUME NEW n, NEW lines
  PROVE  PinsOf(n, lines) \subseteq Range(lines)
BY DEF PinsOf, Range

-----------------------------------------------------------------------------
Controls == { "off", "ready", "ended", "killed" } \cup SettingUp \cup Writing

(* What an action leaves alone that is about the pins.                     *)
PinsKept == UNCHANGED << at, saw, function, overlap >>

LEMMA Start == Init => IInv
<1> SUFFICES ASSUME Init PROVE IInv
  OBVIOUS
<1>1. TypeOK
  <2>1. function \in [ Pin -> { "input", "output", "alt0" } ]
    BY DEF Init, Function
  <2>2. at \in [ Drivers -> 1 .. Len(Outputs) ]
    BY OutputsIs DEF Init
  <2>3. reg \in [ Drivers -> 0 .. 255 ] /\ val \in [ Drivers -> 0 .. 255 ]
    BY DEF Init
  <2>4. /\ pc \in [ Drivers -> Controls ]
        /\ \A d \in Drivers : saw[d] = << >>
    BY DEF Init, Controls
  <2>5. /\ high \subseteq Pin \ { RW, CLK } /\ clock \in { "idle", "busy", "off" }
        /\ disturbed \subseteq Drivers /\ restarted \subseteq Drivers
    BY DEF Init
  <2> QED BY <2>1, <2>2, <2>3, <2>4, <2>5, Zenon DEF TypeOK, Controls
<1>2. \A d \in Drivers : pc[d] = "off" /\ ~There(d) /\ at[d] = 1
  BY DEF Init, There
<1>3. saw = [ d \in Drivers |-> saw[d] ]
  BY DEF Init
<1> QED
  BY <1>1, <1>2, <1>3
     DEF IInv, SawInv, Started, Alone, PinsInv, StillTrue

(* A driver that moves on without touching the functions of pins.          *)
LEMMA MoveStep ==
  ASSUME IInv, NEW d \in Drivers, There(d), pc[d] \notin { "pins", "select" },
         NEW to \in (SettingUp \cup Writing \cup {"ready"}) \ { "pins", "select" },
         pc' = [ pc EXCEPT ![d] = to ], PinsKept
  PROVE  SawInv' /\ Started' /\ Alone' /\ PinsInv' /\ StillTrue'
<1> USE DEF IInv
<1>1. \A e \in Drivers : pc'[e] = IF e = d THEN to ELSE pc[e]
  BY DEF TypeOK
<1>2. at' = at /\ saw' = saw /\ function' = function /\ overlap' = overlap
  BY DEF PinsKept
<1>3. \A e \in Drivers : There(e)' <=> There(e)
  BY <1>1 DEF There, Gone, SettingUp, Writing
<1>4. \A e \in Drivers : pc'[e] = "select" => pc[e] = "select"
  BY <1>1
<1>5. SawInv' /\ StillTrue'
  BY <1>2, <1>4 DEF SawInv, StillTrue, Beside
<1>6. Started' /\ Alone'
  BY <1>1, <1>2, <1>3 DEF Started, Alone, SettingUp, Writing
<1>7. PinsInv'
  BY <1>1, <1>2, <1>3 DEF PinsInv, Through, PinsAreSet
<1> QED BY <1>5, <1>6, <1>7

LEMMA BeginStep == ASSUME IInv, NEW d \in Drivers, Begin(d) PROVE IInv'
<1> USE DEF IInv
<1>1. PICK to \in { "pins", "ended" } :
        pc[d] = "off" /\ pc' = [ pc EXCEPT ![d] = to ]
  BY DEF Begin, Goes
<1>2. \A e \in Drivers : pc'[e] = IF e = d THEN to ELSE pc[e]
  BY <1>1 DEF TypeOK
<1>3. /\ UNCHANGED << at, saw, function, overlap, reg, val, high, clock, restarted >>
      /\ disturbed' \subseteq Drivers
  BY DEF Begin, Disturbs, clockVars
<1>4. TypeOK'
  <2>1. pc' \in [ Drivers -> Controls ]
    BY <1>1 DEF TypeOK, Controls, SettingUp
  <2>2. \A e \in Drivers : pc'[e] # "select" => saw'[e] = << >>
    BY <1>1, <1>2, <1>3 DEF TypeOK
  <2> QED BY <1>3, <2>1, <2>2 DEF TypeOK, Controls
<1>5. SawInv' /\ StillTrue'
  BY <1>2, <1>3 DEF SawInv, StillTrue, Beside
<1>6. Started'
  BY <1>2, <1>3 DEF Started
<1>7. overlap \/ \A e \in Drivers : There(e)' => e = d
  BY <1>2, <1>3 DEF Begin, Others, There, Gone
<1>8. Alone'
  BY <1>3, <1>7 DEF Alone
<1>9. PinsInv'
  <2>1. at'[d] = 1
    BY <1>1, <1>3 DEF Started
  <2> QED BY <1>2, <1>3, <1>7, <2>1 DEF PinsInv, Through, There, Gone
<1> QED BY <1>4, <1>5, <1>6, <1>8, <1>9

LEMMA ReadStep == ASSUME IInv, NEW d \in Drivers, FunctionRead(d) PROVE IInv'
<1> USE DEF IInv
<1> DEFINE Read == [ p \in Beside(d) |-> function[p] ]
<1>1. /\ pc[d] = "pins" /\ pc' = [ pc EXCEPT ![d] = "select" ]
      /\ saw' = [ saw EXCEPT ![d] = Read ]
      /\ UNCHANGED << at, function, overlap, reg, val, high, clock, restarted,
                      disturbed >>
  BY DEF FunctionRead, Goes, Beside, clockVars
<1>2. \A e \in Drivers : pc'[e] = IF e = d THEN "select" ELSE pc[e]
  BY <1>1 DEF TypeOK
<1> HIDE DEF Read
<1>3. \A e \in Drivers : saw'[e] = IF e = d THEN Read ELSE saw[e]
  BY <1>1 DEF SawInv
<1>4. TypeOK'
  <2>1. pc' \in [ Drivers -> Controls ]
    BY <1>1 DEF TypeOK, Controls, SettingUp
  <2>2. \A e \in Drivers : pc'[e] # "select" => saw'[e] = << >>
    BY <1>2, <1>3 DEF TypeOK
  <2> QED BY <1>1, <2>1, <2>2 DEF TypeOK, Controls
<1>5. \A e \in Drivers : Beside(e)' = Beside(e)
  BY <1>1 DEF Beside
<1>6. DOMAIN Read = Beside(d) /\ \A p \in Beside(d) : Read[p] = function[p]
  BY DEF Read
<1>7. \A p \in Beside(d) : function[p] \in Ways
  BY DEF Beside, TypeOK, Ways
<1>8. SawInv'
  <2>1. saw' = [ e \in Drivers |-> saw'[e] ]
    BY <1>1 DEF SawInv
  <2> QED BY <1>2, <1>3, <1>5, <1>6, <1>7, <2>1 DEF SawInv
<1>9. StillTrue'
  BY <1>1, <1>2, <1>3, <1>5, <1>6 DEF StillTrue
<1>10. There(d)' /\ There(d) /\ \A e \in Drivers : There(e)' <=> There(e)
  BY <1>1, <1>2 DEF There, Gone
<1>11. Started' /\ Alone'
  BY <1>1, <1>2, <1>10 DEF Started, Alone
<1>12. PinsInv'
  BY <1>1, <1>2, <1>10 DEF PinsInv, Through, PinsAreSet
<1> QED BY <1>4, <1>8, <1>9, <1>11, <1>12

(* What is written back is what is there, but for the pin itself, unless   *)
(* another driver came between.                                            *)
LEMMA WriteStep == ASSUME IInv, NEW d \in Drivers, FunctionWrite(d) PROVE IInv'
<1> USE DEF IInv
<1> DEFINE to == IF at[d] = Len(Outputs) THEN "stop" ELSE "pins"
           next == IF at[d] = Len(Outputs) THEN 1 ELSE at[d] + 1
           pin == Outputs[at[d]]
<1>1. /\ pc[d] = "select" /\ pc' = [ pc EXCEPT ![d] = to ]
      /\ at' = [ at EXCEPT ![d] = next ]
      /\ saw' = [ saw EXCEPT ![d] = << >> ]
      /\ function' = [ p \in Pin |->
           IF p = pin THEN Function(p)
           ELSE IF p \in DOMAIN saw[d] THEN saw[d][p] ELSE function[p] ]
      /\ UNCHANGED << overlap, reg, val, high, clock, restarted, disturbed >>
  BY DEF FunctionWrite, Goes, clockVars
<1>2. at[d] \in 1 .. 17 /\ next \in 1 .. 17 /\ to \in { "stop", "pins" }
  BY OutputsIs DEF TypeOK
<1>3. /\ \A e \in Drivers : pc'[e] = IF e = d THEN to ELSE pc[e]
      /\ \A e \in Drivers : at'[e] = IF e = d THEN next ELSE at[e]
      /\ \A e \in Drivers : saw'[e] = IF e = d THEN << >> ELSE saw[e]
  BY <1>1 DEF TypeOK, SawInv
<1>4. function' \in [ Pin -> Ways ]
  <2>1. \A p \in Pin : Function(p) \in Ways /\ function[p] \in Ways
    BY DEF Function, Ways, TypeOK
  <2>2. \A p \in DOMAIN saw[d] : saw[d][p] \in Ways
    BY <1>1 DEF SawInv
  <2> HIDE DEF pin
  <2> QED BY <1>1, <2>1, <2>2
<1>5. TypeOK'
  <2> HIDE DEF to, next, pin
  <2>1. pc' \in [ Drivers -> Controls ]
    BY <1>1, <1>2 DEF TypeOK, Controls, SettingUp
  <2>2. at' \in [ Drivers -> 1 .. Len(Outputs) ]
    BY <1>1, <1>2, OutputsIs DEF TypeOK
  <2>3. \A e \in Drivers : pc'[e] # "select" => saw'[e] = << >>
    BY <1>2, <1>3 DEF TypeOK
  <2> QED BY <1>1, <1>4, <2>1, <2>2, <2>3 DEF TypeOK, Controls, Ways
<1>6. \A e \in Drivers : pc'[e] = "select" =>
        e # d /\ pc[e] = "select" /\ saw'[e] = saw[e] /\ Beside(e)' = Beside(e)
  <2> HIDE DEF to, next
  <2> QED BY <1>2, <1>3 DEF Beside
<1>7. SawInv'
  <2>1. saw' = [ e \in Drivers |-> saw'[e] ]
    BY <1>1 DEF SawInv
  <2> QED BY <1>6, <2>1 DEF SawInv
<1>8. There(d) /\ There(d)' /\ \A e \in Drivers : There(e)' <=> There(e)
  <2> HIDE DEF to
  <2> QED BY <1>1, <1>2, <1>3 DEF There, Gone
<1>9. Started' /\ Alone'
  <2> HIDE DEF to, next
  <2> QED BY <1>1, <1>2, <1>3, <1>8 DEF Started, Alone
<1>10. overlap \/ \A e \in Drivers : There(e) => e = d
  BY <1>8 DEF Alone
<1>11. StillTrue'
  <2>1. \A e \in Drivers : pc'[e] = "select" => There(e) /\ e # d
    BY <1>6 DEF There, Gone
  <2> QED BY <1>1, <1>10, <2>1 DEF StillTrue
<1>12. ASSUME ~overlap
       PROVE  \A p \in Pin : function'[p] = IF p = pin THEN Function(p) ELSE function[p]
  <2>1. \A p \in DOMAIN saw[d] : saw[d][p] = function[p]
    BY <1>1, <1>12 DEF StillTrue, SawInv
  <2> HIDE DEF pin
  <2> QED BY <1>1, <2>1
<1>13. ASSUME ~overlap PROVE Through(d)'
  <2>1. \A k \in 1 .. at[d] - 1 : function[Outputs[k]] = Function(Outputs[k])
    BY <1>1, <1>8, <1>13 DEF PinsInv, Through
  <2>2. \A k \in 1 .. at[d] : function'[Outputs[k]] = Function(Outputs[k])
    <3>1. \A k \in 1 .. at[d] : Outputs[k] \in Pin
      <4>1. \A k \in 1 .. at[d] : k \in 1 .. 17
        <5> HIDE DEF to, next
        <5> QED BY <1>2
      <4> QED BY <4>1, PinIs
    <3>2. \A k \in 1 .. at[d] : k = at[d] \/ k \in 1 .. at[d] - 1
      <4> HIDE DEF to, next, pin
      <4> QED BY <1>2
    <3> QED BY <1>12, <1>13, <2>1, <3>1, <3>2
  <2>3. CASE at[d] = 17
    <3>1. to = "stop"
      BY <2>3, OutputsIs
    <3>2. PinsAreSet'
      BY <2>2, <2>3, PinIs DEF PinsAreSet
    <3> HIDE DEF to
    <3> QED BY <1>3, <3>1, <3>2 DEF Through
  <2>4. CASE at[d] # 17
    <3>1. to = "pins" /\ next = at[d] + 1 /\ next - 1 = at[d]
      BY <1>2, <2>4, OutputsIs
    <3> HIDE DEF to, next
    <3> QED BY <1>3, <2>2, <3>1 DEF Through
  <2> QED BY <2>3, <2>4
<1>14. PinsInv'
  BY <1>1, <1>8, <1>10, <1>13 DEF PinsInv
<1> QED BY <1>5, <1>7, <1>9, <1>11, <1>14

(* The clock.                                                              *)
LEMMA ClockStep ==
  ASSUME IInv, NEW d \in Drivers,
         StopClock(d) \/ WaitForClock(d) \/ SetDivisor(d) \/ StartClock(d)
  PROVE  IInv'
<1> USE DEF IInv
<1>1. PICK to \in { "wait", "divide", "start", "ready" } :
        /\ pc' = [ pc EXCEPT ![d] = to ]
        /\ pc[d] \in { "stop", "wait", "divide", "start" }
  BY DEF StopClock, WaitForClock, SetDivisor, StartClock, Goes
<1>2. /\ PinsKept /\ UNCHANGED << reg, val, high, disturbed >>
      /\ clock' \in { "idle", "busy", "off" } /\ restarted' \subseteq Drivers
  BY DEF StopClock, WaitForClock, SetDivisor, StartClock, PinsKept, clockVars,
         Others, TypeOK
<1>3. There(d)
  BY <1>1 DEF There, Gone
<1>4. \A e \in Drivers : pc'[e] # "select" => saw'[e] = << >>
  BY <1>1, <1>2 DEF TypeOK, PinsKept
<1>5. TypeOK'
  <2>1. pc' \in [ Drivers -> Controls ]
    BY <1>1 DEF TypeOK, Controls, SettingUp
  <2> QED BY <1>2, <1>4, <2>1 DEF TypeOK, Controls, PinsKept
<1>6. SawInv' /\ Started' /\ Alone' /\ PinsInv' /\ StillTrue'
  BY <1>1, <1>2, <1>3, MoveStep DEF SettingUp
<1> QED BY <1>5, <1>6

LEMMA BusStep ==
  ASSUME IInv, NEW d \in Drivers, WriteSid(d), ~End(d)
  PROVE  IInv'
<1> USE DEF IInv
<1>1. PICK to \in Writing \cup {"ready"} :
        /\ pc' = [ pc EXCEPT ![d] = to ]
        /\ pc[d] \in Writing \cup {"ready"}
  BY DEF WriteSid, Write, SetAddr, ClearAddr, SetData, ClearData, LowerCS, RaiseCS,
         Store, Goes, Writing
<1>2. /\ PinsKept /\ UNCHANGED << clock, restarted >>
      /\ disturbed' \subseteq Drivers
  BY DEF WriteSid, Write, SetAddr, ClearAddr, SetData, ClearData, LowerCS, RaiseCS,
         Store, PinsKept, clockVars, Disturbs, TypeOK
<1>3. There(d) /\ pc[d] \notin { "pins", "select" }
  BY <1>1 DEF There, Gone, Writing
<1>4. high' \subseteq Pin \ { RW, CLK }
  <2>1. /\ addrPins(reg[d] % 32) \subseteq Pin \ { RW, CLK }
        /\ dataPins(val[d] % 256) \subseteq Pin \ { RW, CLK }
    BY LinesAreNumbered, LinesAreHigh DEF addrPins, dataPins
  <2>2. CASE Write(d)
    BY <2>2 DEF Write, TypeOK
  <2>3. CASE SetAddr(d) \/ SetData(d)
    BY <2>1, <2>3 DEF SetAddr, SetData, Store, TypeOK
  <2>4. CASE ClearAddr(d) \/ ClearData(d) \/ LowerCS(d)
    BY <2>4 DEF ClearAddr, ClearData, LowerCS, Store, TypeOK
  <2>5. CASE RaiseCS(d)
    BY <2>5, LinesAreHigh DEF RaiseCS, Store, TypeOK
  <2> QED BY <2>2, <2>3, <2>4, <2>5 DEF WriteSid
<1>5. reg' \in [ Drivers -> 0 .. 255 ] /\ val' \in [ Drivers -> 0 .. 255 ]
  <2>1. CASE Write(d)
    BY <2>1, BusAssumption DEF Write, TypeOK
  <2>2. CASE ~Write(d)
    <3>1. reg' = reg /\ val' = val
      BY <2>2 DEF WriteSid, SetAddr, ClearAddr, SetData, ClearData, LowerCS, RaiseCS,
             Store
    <3> QED BY <3>1 DEF TypeOK
  <2> QED BY <2>1, <2>2
<1>6. TypeOK'
  <2>1. pc' \in [ Drivers -> Controls ]
    BY <1>1 DEF TypeOK, Controls, Writing
  <2>2. \A e \in Drivers : pc'[e] # "select" => saw'[e] = << >>
    BY <1>1, <1>2, <1>3 DEF TypeOK, PinsKept
  <2> QED BY <1>2, <1>4, <1>5, <2>1, <2>2 DEF TypeOK, Controls, PinsKept
<1>7. to \in (SettingUp \cup Writing \cup {"ready"}) \ { "pins", "select" }
  BY DEF Writing
<1>8. SawInv' /\ Started' /\ Alone' /\ PinsInv' /\ StillTrue'
  BY <1>1, <1>2, <1>3, <1>7, MoveStep
<1> QED BY <1>6, <1>8

LEMMA EndStep == ASSUME IInv, NEW d \in Drivers, End(d) PROVE IInv'
<1> USE DEF IInv
<1>1. PICK to \in { "ended", "killed" } :
        pc' = [ pc EXCEPT ![d] = to ] /\ pc[d] \in SettingUp \cup Writing \cup {"ready"}
  BY DEF End, Goes
<1>2. /\ \A e \in Drivers : pc'[e] = IF e = d THEN to ELSE pc[e]
      /\ saw' = [ saw EXCEPT ![d] = << >> ] /\ at' = [ at EXCEPT ![d] = 1 ]
      /\ reg' = [ reg EXCEPT ![d] = 0 ] /\ val' = [ val EXCEPT ![d] = 0 ]
      /\ UNCHANGED << function, high, clock, restarted, overlap, disturbed >>
  BY <1>1 DEF End, TypeOK, clockVars
<1>3. /\ \A e \in Drivers : saw'[e] = IF e = d THEN << >> ELSE saw[e]
      /\ \A e \in Drivers : at'[e] = IF e = d THEN 1 ELSE at[e]
  BY <1>2 DEF SawInv, TypeOK
<1>4. TypeOK'
  <2>1. pc' \in [ Drivers -> Controls ]
    BY <1>1 DEF TypeOK, Controls
  <2>2. \A e \in Drivers : pc'[e] # "select" => saw'[e] = << >>
    BY <1>2, <1>3 DEF TypeOK
  <2>3. at' \in [ Drivers -> 1 .. Len(Outputs) ]
    BY <1>2, OutputsIs DEF TypeOK
  <2>4. reg' \in [ Drivers -> 0 .. 255 ] /\ val' \in [ Drivers -> 0 .. 255 ]
    <3>1. 0 \in 0 .. 255
      OBVIOUS
    <3> QED BY <1>2, <3>1, Zenon DEF TypeOK
  <2> QED BY <1>2, <2>1, <2>2, <2>3, <2>4 DEF TypeOK, Controls
<1>5. SawInv'
  <2>1. saw' = [ e \in Drivers |-> saw'[e] ]
    BY <1>2 DEF SawInv
  <2> QED BY <1>2, <1>3, <2>1 DEF SawInv, Beside
<1>6. StillTrue'
  BY <1>2, <1>3 DEF StillTrue, Beside
<1>7. \A e \in Drivers : There(e)' => There(e) /\ e # d
  BY <1>2 DEF There, Gone
<1>8. Alone' /\ PinsInv'
  BY <1>2, <1>3, <1>7 DEF Alone, PinsInv, Through, PinsAreSet
<1>9. Started'
  BY <1>2, <1>3 DEF Started
<1> QED BY <1>4, <1>5, <1>6, <1>8, <1>9

LEMMA ChipStep ==
  ASSUME IInv, ClockStops \/ Phi2 \/ UNCHANGED vars PROVE IInv'
<1> USE DEF IInv
<1>1. /\ UNCHANGED << pc, at, saw, reg, val, function, high, restarted, overlap,
                      disturbed >>
      /\ clock' = clock \/ clock' = "idle"
  BY DEF ClockStops, Phi2, vars, progVars, clockVars
<1> QED
  BY <1>1
     DEF TypeOK, SawInv, Beside, Started, Alone, PinsInv, StillTrue,
         There, Gone, Through, PinsAreSet

LEMMA Inductive == IInv /\ [Next]_vars => IInv'
<1> SUFFICES ASSUME IInv, Next PROVE IInv'
  BY ChipStep
<1>1. ASSUME NEW d \in Drivers, SetUp(d) PROVE IInv'
  BY <1>1, ReadStep, WriteStep, ClockStep DEF SetUp
<1>2. ASSUME NEW d \in Drivers, WriteSid(d) PROVE IInv'
  BY <1>2, BusStep, EndStep
<1> QED BY <1>1, <1>2, BeginStep, ChipStep DEF Next

LEMMA Always == Spec => []IInv
BY Start, Inductive, PTL DEF Spec

-----------------------------------------------------------------------------
(* The variables keep to their types, and no store raises RW or the clock. *)
THEOREM TypeCorrect == Spec => []TypeOK
<1>1. IInv => TypeOK
  BY DEF IInv
<1> QED BY <1>1, Always, PTL

(* A driver that sets up the pins alone ends with each in its function.    *)
THEOREM PinsSet == Spec => []PinsEndUpSet
<1>1. IInv => PinsEndUpSet
  <2> SUFFICES ASSUME IInv, ~overlap, PinsAreDone PROVE PinsAreSet
    BY DEF PinsEndUpSet
  <2> USE DEF IInv
  <2>1. PICK d \in Drivers : pc[d] \in Writing \cup { "stop", "ready" }
    BY DEF PinsAreDone
  <2>2. There(d) /\ pc[d] \notin { "pins", "select" }
    BY <2>1 DEF There, Gone, Writing
  <2> QED BY <2>2 DEF PinsInv, Through
<1> QED BY <1>1, Always, PTL

-----------------------------------------------------------------------------
(* A write on the bus.                                                     *)

(* Only a driver that has been through the set-up writes.                  *)
History ==
  /\ writes \in [ Drivers -> Nat ]
  /\ \A d \in Drivers : pc[d] \in {"off"} \cup SettingUp => writes[d] = 0

(* A driver that no other came between is at the pins alone, and one that  *)
(* is alone writes undisturbed.                                            *)
Undisturbed ==
  /\ \A d \in Drivers \ disturbed :
       ~Quiet(d) => \A e \in Others(d) : Quiet(e)
  /\ ~overlap => \A d \in Drivers : pc[d] \in Writing => d \notin disturbed

(* What the stores of a write have done so far.                            *)
LinesOf(d) ==
  LET addr == addrPins(reg[d] % 32)
      data == dataPins(val[d] % 256)
  IN  /\ pc[d] = "clearAddr" => addr \subseteq high
      /\ pc[d] \in { "setData", "clearData", "select0", "strobe" }
           => high \cap Range(ADDR) = addr
      /\ pc[d] = "clearData" => data \subseteq high
      /\ pc[d] \in { "select0", "strobe" } => high \cap Range(DATA) = data

(* A chip whose clock fell in a strobe has what is on the lines.           *)
ChipOf(d) == pc[d] = "strobe" /\ PinsAreSet /\ edge => chip = Asked(d)

LinesInv == \A d \in Drivers \ disturbed : LinesOf(d) /\ ChipOf(d)

(* With one driver at a time, the chip is selected in a strobe only, once  *)
(* a write has left select where it belongs.                               *)
SelectInv ==
  ~overlap /\ Settled => CS \in high \/ \E d \in Drivers : pc[d] = "strobe"

WriteInv ==
  /\ History /\ Undisturbed /\ LinesInv /\ SelectInv
  /\ StrobeIsAPeriod(divisor)

-----------------------------------------------------------------------------
LEMMA LinesDiffer ==
  /\ \A j, k \in 1 .. 5 : ADDR[j] = ADDR[k] => j = k
  /\ \A j, k \in 1 .. 8 : DATA[j] = DATA[k] => j = k
  /\ \A j \in 1 .. 5, k \in 1 .. 8 : ADDR[j] # DATA[k]
  /\ \A j \in 1 .. 5 : ADDR[j] # CS
  /\ \A k \in 1 .. 8 : DATA[k] # CS
BY DEF ADDR, DATA, CS

LEMMA LinesApart ==
  /\ Range(ADDR) \cap Range(DATA) = {}
  /\ CS \notin Range(ADDR) /\ CS \notin Range(DATA)
BY LinesDiffer, Lists DEF Range

(* A number has the pins of its bits, and the pins give back the number.   *)
LEMMA AddrPinsAre ==
  ASSUME NEW n \in Nat
  PROVE  /\ ADDR[1] \in addrPins(n) <=> n % 2 = 1
         /\ ADDR[2] \in addrPins(n) <=> (n \div 2) % 2 = 1
         /\ ADDR[3] \in addrPins(n) <=> (n \div 4) % 2 = 1
         /\ ADDR[4] \in addrPins(n) <=> (n \div 8) % 2 = 1
         /\ ADDR[5] \in addrPins(n) <=> (n \div 16) % 2 = 1
<1>1. \A k \in 1 .. 5 : ADDR[k] \in addrPins(n) <=> (n \div 2^(k - 1)) % 2 = 1
  BY LinesDiffer, Lists, Zenon DEF addrPins, PinsOf
<1>2. 1 \in 1 .. 5 /\ 2 \in 1 .. 5 /\ 3 \in 1 .. 5 /\ 4 \in 1 .. 5 /\ 5 \in 1 .. 5
  OBVIOUS
<1> QED BY <1>1, <1>2, SMT

LEMMA DataPinsAre ==
  ASSUME NEW n \in Nat
  PROVE  /\ DATA[1] \in dataPins(n) <=> n % 2 = 1
         /\ DATA[2] \in dataPins(n) <=> (n \div 2) % 2 = 1
         /\ DATA[3] \in dataPins(n) <=> (n \div 4) % 2 = 1
         /\ DATA[4] \in dataPins(n) <=> (n \div 8) % 2 = 1
         /\ DATA[5] \in dataPins(n) <=> (n \div 16) % 2 = 1
         /\ DATA[6] \in dataPins(n) <=> (n \div 32) % 2 = 1
         /\ DATA[7] \in dataPins(n) <=> (n \div 64) % 2 = 1
         /\ DATA[8] \in dataPins(n) <=> (n \div 128) % 2 = 1
<1>1. \A k \in 1 .. 8 : DATA[k] \in dataPins(n) <=> (n \div 2^(k - 1)) % 2 = 1
  BY LinesDiffer, Lists, Zenon DEF dataPins, PinsOf
<1>2. 1 \in 1 .. 8 /\ 2 \in 1 .. 8 /\ 3 \in 1 .. 8 /\ 4 \in 1 .. 8 /\ 5 \in 1 .. 8 /\ 6 \in 1 .. 8 /\ 7 \in 1 .. 8 /\ 8 \in 1 .. 8
  OBVIOUS
<1> QED BY <1>1, <1>2, SMT

LEMMA BitsAdd ==
  /\ \A n \in 0 .. 31 :
       n = (n % 2) + 2 * ((n \div 2) % 2) + 4 * ((n \div 4) % 2)
             + 8 * ((n \div 8) % 2) + 16 * ((n \div 16) % 2)
  /\ \A n \in 0 .. 255 :
       n = (n % 2) + 2 * ((n \div 2) % 2) + 4 * ((n \div 4) % 2)
             + 8 * ((n \div 8) % 2) + 16 * ((n \div 16) % 2)
             + 32 * ((n \div 32) % 2) + 64 * ((n \div 64) % 2)
             + 128 * ((n \div 128) % 2)
OBVIOUS

LEMMA BitIs ==
  ASSUME NEW b \in Int, NEW P, P <=> b % 2 = 1
  PROVE  (IF P THEN 1 ELSE 0) = b % 2
<1>1. b % 2 = 0 \/ b % 2 = 1
  OBVIOUS
<1> QED BY <1>1

LEMMA AddrReads ==
  ASSUME NEW n \in 0 .. 31, NEW S, S \cap Range(ADDR) = addrPins(n)
  PROVE  AddrOn(S) = n
<1> DEFINE bit(k) == IF ADDR[k] \in S THEN 1 ELSE 0
<1>1. \A k \in 1 .. 5 : ADDR[k] \in Range(ADDR)
  BY Lists DEF Range
<1>2. \A k \in 1 .. 5 : ADDR[k] \in S <=> ADDR[k] \in addrPins(n)
  BY <1>1
<1>3. /\ bit(1) = n % 2 /\ bit(2) = (n \div 2) % 2 /\ bit(3) = (n \div 4) % 2
      /\ bit(4) = (n \div 8) % 2 /\ bit(5) = (n \div 16) % 2
  <2>1. /\ ADDR[1] \in S <=> n % 2 = 1
        /\ ADDR[2] \in S <=> (n \div 2) % 2 = 1
        /\ ADDR[3] \in S <=> (n \div 4) % 2 = 1
        /\ ADDR[4] \in S <=> (n \div 8) % 2 = 1
        /\ ADDR[5] \in S <=> (n \div 16) % 2 = 1
    BY <1>2, AddrPinsAre
  <2> QED BY <2>1, BitIs
<1>4. AddrOn(S) = bit(1) + 2 * bit(2) + 4 * bit(3) + 8 * bit(4) + 16 * bit(5)
  BY DEF AddrOn
<1> HIDE DEF bit
<1> QED BY <1>3, <1>4, BitsAdd

LEMMA DataReads ==
  ASSUME NEW n \in 0 .. 255, NEW S, S \cap Range(DATA) = dataPins(n)
  PROVE  DataOn(S) = n
<1> DEFINE bit(k) == IF DATA[k] \in S THEN 1 ELSE 0
<1>1. \A k \in 1 .. 8 : DATA[k] \in Range(DATA)
  BY Lists DEF Range
<1>2. \A k \in 1 .. 8 : DATA[k] \in S <=> DATA[k] \in dataPins(n)
  BY <1>1
<1>3. /\ bit(1) = n % 2 /\ bit(2) = (n \div 2) % 2 /\ bit(3) = (n \div 4) % 2
      /\ bit(4) = (n \div 8) % 2 /\ bit(5) = (n \div 16) % 2
      /\ bit(6) = (n \div 32) % 2 /\ bit(7) = (n \div 64) % 2
      /\ bit(8) = (n \div 128) % 2
  <2>1. /\ DATA[1] \in S <=> n % 2 = 1
        /\ DATA[2] \in S <=> (n \div 2) % 2 = 1
        /\ DATA[3] \in S <=> (n \div 4) % 2 = 1
        /\ DATA[4] \in S <=> (n \div 8) % 2 = 1
        /\ DATA[5] \in S <=> (n \div 16) % 2 = 1
        /\ DATA[6] \in S <=> (n \div 32) % 2 = 1
        /\ DATA[7] \in S <=> (n \div 64) % 2 = 1
        /\ DATA[8] \in S <=> (n \div 128) % 2 = 1
    BY <1>2, DataPinsAre
  <2> QED BY <2>1, BitIs
<1>4. DataOn(S) = bit(1) + 2 * bit(2) + 4 * bit(3) + 8 * bit(4)
                    + 16 * bit(5) + 32 * bit(6) + 64 * bit(7) + 128 * bit(8)
  BY DEF DataOn
<1> HIDE DEF bit
<1> QED BY <1>3, <1>4, BitsAdd

(* All bits set are all lines.                                             *)
LEMMA AllLines ==
  /\ addrPins(31) = Range(ADDR) /\ dataPins(255) = Range(DATA)
  /\ \A n : addrPins(n) \subseteq Range(ADDR) /\ dataPins(n) \subseteq Range(DATA)
<1>1. \A n : addrPins(n) \subseteq Range(ADDR) /\ dataPins(n) \subseteq Range(DATA)
  BY LinesAreNumbered DEF addrPins, dataPins
<1>2. \A k \in 1 .. 5 : ADDR[k] \in addrPins(31)
  <2>1. /\ 31 % 2 = 1 /\ (31 \div 2) % 2 = 1 /\ (31 \div 4) % 2 = 1
        /\ (31 \div 8) % 2 = 1 /\ (31 \div 16) % 2 = 1
    OBVIOUS
  <2> QED BY <2>1, AddrPinsAre
<1>3. \A k \in 1 .. 8 : DATA[k] \in dataPins(255)
  <2>1. /\ 255 % 2 = 1 /\ (255 \div 2) % 2 = 1 /\ (255 \div 4) % 2 = 1
        /\ (255 \div 8) % 2 = 1 /\ (255 \div 16) % 2 = 1 /\ (255 \div 32) % 2 = 1
        /\ (255 \div 64) % 2 = 1 /\ (255 \div 128) % 2 = 1
    OBVIOUS
  <2> QED BY <2>1, DataPinsAre
<1>4. Range(ADDR) \subseteq addrPins(31) /\ Range(DATA) \subseteq dataPins(255)
  BY <1>2, <1>3, Lists DEF Range
<1> QED BY <1>1, <1>4

LEMMA BusLines == Range(DATA \o ADDR) \subseteq Range(DATA) \cup Range(ADDR)
<1> DEFINE Bus == DATA \o ADDR
<1>1. /\ Bus \in Seq(Nat) /\ Len(Bus) = 13
      /\ \A k \in 1 .. 13 : Bus[k] = IF k <= 8 THEN DATA[k] ELSE ADDR[k - 8]
  <2>1. /\ Bus \in Seq(Nat) /\ Len(Bus) = Len(DATA) + Len(ADDR)
        /\ \A k \in 1 .. Len(DATA) + Len(ADDR) :
             Bus[k] = IF k <= Len(DATA) THEN DATA[k] ELSE ADDR[k - Len(DATA)]
    BY Lists, Concatenated, Zenon
  <2> HIDE DEF Bus
  <2> QED BY <2>1, Lists
<1> HIDE DEF Bus
<1>2. DOMAIN Bus = 1 .. 13
  BY <1>1
<1>3. \A k \in 1 .. 13 : Bus[k] \in Range(DATA) \cup Range(ADDR)
  <2>1. \A k \in 1 .. 13 : k \in 1 .. 8 \/ (~(k <= 8) /\ k - 8 \in 1 .. 5)
    OBVIOUS
  <2> QED BY <1>1, <2>1, Lists DEF Range
<1>4. Range(Bus) \subseteq Range(DATA) \cup Range(ADDR)
  BY <1>2, <1>3 DEF Range
<1> QED BY <1>4 DEF Bus

(* With the pins set, what a write has put on the lines is what is read    *)
(* from them.                                                              *)
LEMMA ShownIsRead ==
  ASSUME PinsAreSet, NEW r \in 0 .. 31, NEW v \in 0 .. 255,
         high \cap Range(ADDR) = addrPins(r), high \cap Range(DATA) = dataPins(v)
  PROVE  OnLines = << r, v >>
<1>1. \A p \in Range(DATA \o ADDR) : function[p] = "output"
  <2>1. \A p \in Range(ADDR) \cup Range(DATA) : function[p] = "output"
    BY LinesAreHigh DEF PinsAreSet, Function
  <2> QED BY <2>1, BusLines
<1>2. AddrOn(high) = r /\ DataOn(high) = v
  BY AddrReads, DataReads
<1> QED BY <1>1, <1>2, Zenon DEF OnLines

LEMMA DivisorsAreSmall ==
  \A d \in Drivers : StrobeIsAPeriod(Divisor(DEFAULT_SID_SPEED_HZ(d)))
<1>1. Divisor(985248) <= 78643 /\ Divisor(1000000) <= 78643
  BY SMT DEF Divisor, Oscillator
<1> QED BY <1>1, SMT DEF StrobeIsAPeriod, DEFAULT_SID_SPEED_HZ

-----------------------------------------------------------------------------
(* What the invariants of a write share: who else is at the pins.          *)
LEMMA OthersAreQuiet ==
  ASSUME Undisturbed, NEW e \in Drivers, ~Quiet(e),
         NEW d \in Drivers \ disturbed, d # e
  PROVE  Quiet(d)
BY DEF Undisturbed, Others

LEMMA QuietIsNotWriting ==
  ASSUME NEW d \in Drivers, Quiet(d)
  PROVE  pc[d] \notin Writing
BY DEF Quiet, Gone, Writing

(* A step of e that stores nothing on the bus and leaves the chip alone.   *)
LEMMA LinesKept ==
  ASSUME LinesInv, Undisturbed, NEW e \in Drivers,
         \A d \in Drivers \ {e} : /\ pc'[d] = pc[d] /\ reg'[d] = reg[d] /\ val'[d] = val[d]
                                  /\ d \notin disturbed' => d \notin disturbed,
         pc'[e] \notin Writing \ {"setAddr"}, high' = high, UNCHANGED chipVars,
         function' = function \/ ~Quiet(e)
  PROVE  LinesInv'
<1> SUFFICES ASSUME NEW d \in Drivers, d \notin disturbed'
             PROVE  LinesOf(d)' /\ ChipOf(d)'
  BY DEF LinesInv
<1>1. CASE d = e
  BY <1>1 DEF LinesOf, ChipOf, Writing
<1>2. CASE d # e
  <2>1. /\ pc'[d] = pc[d] /\ reg'[d] = reg[d] /\ val'[d] = val[d]
        /\ d \in Drivers \ disturbed
    BY <1>2
  <2>2. LinesOf(d) /\ ChipOf(d)
    BY <2>1 DEF LinesInv
  <2>3. LinesOf(d)'
    BY <2>1, <2>2 DEF LinesOf
  <2>4. function' = function \/ pc[d] # "strobe"
    BY <1>2, <2>1, OthersAreQuiet, QuietIsNotWriting DEF Writing
  <2>5. ChipOf(d)'
    BY <2>1, <2>2, <2>4 DEF ChipOf, PinsAreSet, Asked, chipVars
  <2> QED BY <2>3, <2>5
<1> QED BY <1>1, <1>2

(* A store on the bus by e: nobody undisturbed is in a write but e.        *)
LEMMA LinesStored ==
  ASSUME LinesInv, Undisturbed, NEW e \in Drivers, pc[e] \in Writing,
         \A d \in Drivers \ {e} : pc'[d] = pc[d],
         disturbed' = disturbed,
         e \notin disturbed => LinesOf(e)' /\ ChipOf(e)'
  PROVE  LinesInv'
<1> SUFFICES ASSUME NEW d \in Drivers \ disturbed, d # e
             PROVE  LinesOf(d)' /\ ChipOf(d)'
  BY DEF LinesInv
<1>1. ~Quiet(e)
  BY QuietIsNotWriting
<1>2. pc[d] \notin Writing /\ pc'[d] = pc[d]
  BY <1>1, OthersAreQuiet, QuietIsNotWriting
<1> QED BY <1>2 DEF LinesOf, ChipOf, Writing

(* Chip select, as long as it does not fall.                               *)
LEMMA SelectKept ==
  ASSUME SelectInv, overlap' = overlap,
         \A d \in Drivers : pc[d] = "killed" => pc'[d] = "killed",
         \A d \in Drivers : Gone(d) => Gone(d)',
         \A d \in Drivers : Written(d)' => Written(d),
         CS \in high => CS \in high',
         \A d \in Drivers : pc[d] = "strobe" => pc'[d] = "strobe"
  PROVE  SelectInv'
<1>1. Settled' => Settled
  BY DEF Settled
<1> QED BY <1>1 DEF SelectInv

LEMMA WriteStart == Init => WriteInv
<1> SUFFICES ASSUME Init PROVE WriteInv
  OBVIOUS
<1>1. \A d \in Drivers : pc[d] = "off" /\ writes[d] = 0 /\ Quiet(d)
  BY DEF Init, Quiet
<1>2. History
  BY <1>1 DEF Init, History
<1>3. Undisturbed
  BY <1>1 DEF Undisturbed, Others, Writing
<1>4. LinesInv
  BY <1>1 DEF LinesInv, LinesOf, ChipOf
<1>5. SelectInv
  BY <1>1 DEF SelectInv, Settled, Written
<1>6. StrobeIsAPeriod(divisor)
  BY SMT DEF Init, StrobeIsAPeriod
<1> QED BY <1>2, <1>3, <1>4, <1>5, <1>6 DEF WriteInv

(* Where a driver d that is at the pins moves on, those who were alone     *)
(* still are.                                                              *)
LEMMA UndisturbedKept ==
  ASSUME Undisturbed, NEW d \in Drivers, ~Quiet(d),
         \A e \in Drivers \ {d} : pc'[e] = pc[e],
         pc'[d] \in Writing => pc[d] \in Writing,
         disturbed' = disturbed, overlap' = overlap
  PROVE  Undisturbed'
<1>1. \A e \in Drivers \ {d} : Quiet(e)' <=> Quiet(e)
  BY DEF Quiet, Gone
<1>2. \A e \in Drivers \ disturbed : ~Quiet(e)' => \A f \in Others(e) : Quiet(f)'
  <2> SUFFICES ASSUME NEW e \in Drivers \ disturbed, ~Quiet(e)', NEW f \in Others(e)
               PROVE  Quiet(f)'
    OBVIOUS
  <2>1. ~Quiet(e)
    BY <1>1
  <2>2. Quiet(f) /\ f \in Drivers
    BY <2>1 DEF Undisturbed, Others
  <2>3. f # d
    BY <2>2
  <2> QED BY <1>1, <2>2, <2>3
<1>3. ~overlap => \A e \in Drivers : pc'[e] \in Writing => e \notin disturbed
  BY DEF Undisturbed
<1> QED BY <1>2, <1>3 DEF Undisturbed, Others

(* Where d starts to use the pins, no other is undisturbed.                *)
LEMMA UndisturbedStarts ==
  ASSUME Undisturbed, NEW d \in Drivers, Disturbs(d),
         \A e \in Drivers \ {d} : pc'[e] = pc[e],
         overlap' = overlap,
         overlap \/ \A e \in Others(d) : Quiet(e)
  PROVE  /\ Undisturbed'
         /\ \A e \in Drivers \ {d} : e \in disturbed'
<1>1. \A e \in Drivers : e \in disturbed' <=> e # d \/ \E f \in Others(d) : ~Quiet(f)
  BY DEF Disturbs
<1>2. \A e \in Others(d) : Quiet(e)' <=> Quiet(e)
  BY DEF Quiet, Gone, Others
<1>3. \A e \in Drivers : e \notin disturbed' => \A f \in Others(e) : Quiet(f)'
  BY <1>1, <1>2
<1>4. ~overlap => \A e \in Drivers : pc'[e] \in Writing => e \notin disturbed'
  <2> SUFFICES ASSUME ~overlap, NEW e \in Drivers, pc'[e] \in Writing
               PROVE  e \notin disturbed'
    OBVIOUS
  <2>1. \A f \in Others(d) : pc'[f] \notin Writing
    BY QuietIsNotWriting DEF Others
  <2>2. e = d
    BY <2>1 DEF Others
  <2> QED BY <1>1, <2>2
<1> QED BY <1>1, <1>3, <1>4 DEF Undisturbed, Others

LEMMA BeginWrites == ASSUME IInv, WriteInv, NEW d \in Drivers, Begin(d) PROVE WriteInv'
<1> USE DEF IInv, WriteInv
<1>1. PICK to \in { "pins", "ended" } :
        pc[d] = "off" /\ pc' = [ pc EXCEPT ![d] = to ]
  BY DEF Begin, Goes
<1>2. \A e \in Drivers : pc'[e] = IF e = d THEN to ELSE pc[e]
  BY <1>1 DEF TypeOK
<1>3. /\ UNCHANGED << reg, val, writes, function, high, divisor, overlap >>
      /\ UNCHANGED chipVars /\ Disturbs(d)
  BY DEF Begin, clockVars
<1>4. overlap \/ \A e \in Others(d) : Quiet(e)
  BY DEF Begin, Quiet
<1>5. Undisturbed' /\ \A e \in Drivers \ {d} : e \in disturbed'
  BY <1>2, <1>3, <1>4, UndisturbedStarts
<1>6. History' /\ writes[d] = 0
  BY <1>1, <1>2, <1>3 DEF History
<1>7. LinesInv'
  <2>1. to \notin Writing \ {"setAddr"}
    BY DEF Writing
  <2> QED BY <1>2, <1>3, <1>5, <2>1, LinesKept
<1>8. SelectInv'
  <2>1. \A e \in Drivers : Written(e)' => Written(e)
    BY <1>2, <1>3, <1>6 DEF Written, Quiet, Gone, History
  <2>2. \A e \in Drivers : Gone(e) => Gone(e)'
    BY <1>1, <1>2 DEF Gone
  <2> QED BY <1>1, <1>2, <1>3, <2>1, <2>2, SelectKept
<1> QED BY <1>3, <1>5, <1>6, <1>7, <1>8 DEF StrobeIsAPeriod

LEMMA SetUpWrites ==
  ASSUME IInv, WriteInv, NEW d \in Drivers, SetUp(d) PROVE WriteInv'
<1> USE DEF IInv, WriteInv
<1>1. PICK to \in SettingUp \cup {"ready"} :
        pc[d] \in SettingUp /\ pc' = [ pc EXCEPT ![d] = to ]
  BY DEF SetUp, FunctionRead, FunctionWrite, StopClock, WaitForClock, SetDivisor,
         StartClock, Goes, SettingUp
<1>2. \A e \in Drivers : pc'[e] = IF e = d THEN to ELSE pc[e]
  BY <1>1 DEF TypeOK
<1>3. /\ UNCHANGED << reg, val, writes, high, overlap, disturbed >>
      /\ UNCHANGED chipVars
  BY DEF SetUp, FunctionRead, FunctionWrite, StopClock, WaitForClock, SetDivisor,
         StartClock
<1>4. ~Quiet(d) /\ pc[d] # "strobe" /\ pc[d] # "killed"
  BY <1>1 DEF Quiet, Gone, SettingUp
<1>5. to \notin Writing /\ to # "killed" /\ to # "off"
  BY DEF SettingUp, Writing
<1>6. Undisturbed'
  BY <1>2, <1>3, <1>4, <1>5, UndisturbedKept
<1>7. History' /\ writes[d] = 0
  <2>1. writes[d] = 0
    BY <1>1 DEF History
  <2> QED BY <1>2, <1>3, <2>1 DEF History
<1>8. LinesInv'
  BY <1>2, <1>3, <1>4, <1>5, LinesKept
<1>9. SelectInv'
  <2>1. \A e \in Drivers : Written(e)' => Written(e)
    BY <1>2, <1>3, <1>7 DEF Written, Quiet, Gone, History
  <2>2. \A e \in Drivers : Gone(e) => Gone(e)'
    BY <1>2, <1>4 DEF Gone, Quiet
  <2> QED BY <1>2, <1>3, <1>4, <2>1, <2>2, SelectKept
<1>10. StrobeIsAPeriod(divisor)'
  <2>1. divisor' \in { divisor, Divisor(DEFAULT_SID_SPEED_HZ(d)) }
    BY DEF SetUp, FunctionRead, FunctionWrite, StopClock, WaitForClock, SetDivisor,
           StartClock, clockVars
  <2> QED BY <2>1, DivisorsAreSmall
<1> QED BY <1>6, <1>7, <1>8, <1>9, <1>10

LEMMA WriteWrites == ASSUME IInv, WriteInv, NEW d \in Drivers, Write(d) PROVE WriteInv'
<1> USE DEF IInv, WriteInv
<1>1. pc[d] = "ready" /\ pc' = [ pc EXCEPT ![d] = "setAddr" ]
  BY DEF Write, Goes
<1>2. \A e \in Drivers : pc'[e] = IF e = d THEN "setAddr" ELSE pc[e]
  BY <1>1 DEF TypeOK
<1>3. /\ UNCHANGED << function, high, divisor, overlap >>
      /\ UNCHANGED chipVars /\ Disturbs(d)
      /\ writes' = [ writes EXCEPT ![d] = @ + 1 ]
      /\ \A e \in Drivers \ {d} : reg'[e] = reg[e] /\ val'[e] = val[e]
  BY DEF Write, clockVars, TypeOK
<1>4. \A e \in Drivers : writes'[e] = IF e = d THEN writes[d] + 1 ELSE writes[e]
  BY <1>3 DEF History
<1>5. overlap \/ \A e \in Others(d) : Quiet(e)
  BY <1>1 DEF Alone, There, Quiet, Gone, Others
<1>6. Undisturbed' /\ \A e \in Drivers \ {d} : e \in disturbed'
  BY <1>2, <1>3, <1>5, UndisturbedStarts
<1>7. History'
  <2>1. writes' \in [ Drivers -> Nat ]
    BY <1>3 DEF History
  <2> QED BY <1>2, <1>4, <2>1 DEF History, SettingUp
<1>8. LinesInv'
  BY <1>2, <1>3, <1>6, LinesKept
<1>9. SelectInv'
  <2>1. Written(d)' => Written(d)
    BY <1>1, <1>2, <1>4 DEF Written, Quiet, Gone, History
  <2>2. \A e \in Drivers \ {d} : Written(e)' => Written(e)
    BY <1>2, <1>4 DEF Written, Quiet, Gone
  <2>3. \A e \in Drivers : Gone(e) => Gone(e)'
    BY <1>1, <1>2 DEF Gone
  <2> QED BY <1>1, <1>2, <1>3, <2>1, <2>2, <2>3, SelectKept
<1> QED BY <1>3, <1>6, <1>7, <1>8, <1>9 DEF StrobeIsAPeriod

(* The stores of a write: each leaves the lines as the next expects them.  *)
LEMMA StoresLine ==
  ASSUME IInv, WriteInv, NEW d \in Drivers \ disturbed,
         SetAddr(d) \/ ClearAddr(d) \/ SetData(d) \/ ClearData(d) \/ LowerCS(d)
           \/ RaiseCS(d)
  PROVE  LinesOf(d)' /\ ChipOf(d)'
<1> USE DEF IInv, WriteInv
<1> DEFINE addr == addrPins(reg[d] % 32)
           data == dataPins(val[d] % 256)
<1>1. LinesOf(d)
  BY DEF LinesInv
<1>2. addr' = addr /\ data' = data
  BY DEF SetAddr, ClearAddr, SetData, ClearData, LowerCS, RaiseCS, Store
<1>3. /\ addr \subseteq Range(ADDR) /\ data \subseteq Range(DATA)
      /\ addrPins(31) = Range(ADDR) /\ dataPins(255) = Range(DATA)
  BY AllLines
<1>4. LinesOf(d)' <=>
        /\ pc'[d] = "clearAddr" => addr \subseteq high'
        /\ pc'[d] \in { "setData", "clearData", "select0", "strobe" }
             => high' \cap Range(ADDR) = addr
        /\ pc'[d] = "clearData" => data \subseteq high'
        /\ pc'[d] \in { "select0", "strobe" } => high' \cap Range(DATA) = data
  BY <1>2, Zenon DEF LinesOf
<1>5. /\ pc[d] = "clearAddr" => addr \subseteq high
      /\ pc[d] \in { "setData", "clearData", "select0", "strobe" }
           => high \cap Range(ADDR) = addr
      /\ pc[d] = "clearData" => data \subseteq high
      /\ pc[d] \in { "select0", "strobe" } => high \cap Range(DATA) = data
  BY <1>1 DEF LinesOf
<1>6. CASE SetAddr(d)
  <2>1. pc'[d] = "clearAddr" /\ high' = (high \cup addr) \ {}
    BY <1>6 DEF SetAddr, Store, Goes, TypeOK
  <2> HIDE DEF addr, data
  <2> QED BY <1>4, <2>1 DEF ChipOf
<1>7. CASE ClearAddr(d)
  <2>1. /\ pc[d] = "clearAddr" /\ pc'[d] = "setData"
        /\ high' = (high \cup {}) \ (Range(ADDR) \ addr)
    BY <1>3, <1>7 DEF ClearAddr, Store, Goes, TypeOK
  <2> HIDE DEF addr, data
  <2>2. high' \cap Range(ADDR) = addr
    BY <1>3, <1>5, <2>1
  <2> QED BY <1>4, <2>1, <2>2 DEF ChipOf
<1>8. CASE SetData(d)
  <2>1. /\ pc[d] = "setData" /\ pc'[d] = "clearData" /\ high' = (high \cup data) \ {}
    BY <1>8 DEF SetData, Store, Goes, TypeOK
  <2> HIDE DEF addr, data
  <2>2. high' \cap Range(ADDR) = addr /\ data \subseteq high'
    BY <1>3, <1>5, <2>1, LinesApart
  <2> QED BY <1>4, <2>1, <2>2 DEF ChipOf
<1>9. CASE ClearData(d)
  <2>1. /\ pc[d] = "clearData" /\ pc'[d] = "select0"
        /\ high' = (high \cup {}) \ (Range(DATA) \ data)
    BY <1>3, <1>9 DEF ClearData, Store, Goes, TypeOK
  <2> HIDE DEF addr, data
  <2>2. high' \cap Range(ADDR) = addr /\ high' \cap Range(DATA) = data
    BY <1>3, <1>5, <2>1, LinesApart
  <2> QED BY <1>4, <2>1, <2>2 DEF ChipOf
<1>10. CASE LowerCS(d)
  <2>1. /\ pc[d] = "select0" /\ pc'[d] = "strobe" /\ edge' = FALSE
        /\ high' = (high \cup {}) \ {CS}
    BY <1>10 DEF LowerCS, Store, Goes, TypeOK
  <2> HIDE DEF addr, data
  <2>2. high' \cap Range(ADDR) = addr /\ high' \cap Range(DATA) = data
    BY <1>5, <2>1, LinesApart
  <2> QED BY <1>4, <2>1, <2>2 DEF ChipOf
<1>11. CASE RaiseCS(d)
  <2>1. pc'[d] = "ready"
    BY <1>11 DEF RaiseCS, Store, Goes, TypeOK
  <2> QED BY <2>1 DEF LinesOf, ChipOf
<1> QED BY <1>6, <1>7, <1>8, <1>9, <1>10, <1>11

LEMMA StoreWrites ==
  ASSUME IInv, WriteInv, NEW d \in Drivers,
         SetAddr(d) \/ ClearAddr(d) \/ SetData(d) \/ ClearData(d) \/ LowerCS(d)
           \/ RaiseCS(d)
  PROVE  WriteInv'
<1> USE DEF IInv, WriteInv
<1>1. PICK to \in (Writing \ {"setAddr"}) \cup {"ready"} :
        /\ pc[d] \in Writing /\ pc' = [ pc EXCEPT ![d] = to ]
        /\ to = "ready" <=> RaiseCS(d)
        /\ to = "strobe" <=> LowerCS(d)
        /\ pc[d] = "strobe" => to = "ready"
  BY DEF SetAddr, ClearAddr, SetData, ClearData, LowerCS, RaiseCS, Store, Goes,
         Writing, TypeOK
<1>2. \A e \in Drivers : pc'[e] = IF e = d THEN to ELSE pc[e]
  BY <1>1 DEF TypeOK
<1>3. UNCHANGED << reg, val, writes, function, divisor, chip, overlap, disturbed >>
  BY DEF SetAddr, ClearAddr, SetData, ClearData, LowerCS, RaiseCS, Store, clockVars
<1>4. ~Quiet(d)
  BY <1>1, QuietIsNotWriting
<1>5. Undisturbed'
  BY <1>1, <1>2, <1>3, <1>4, UndisturbedKept
<1>6. History'
  BY <1>2, <1>3 DEF History, SettingUp, Writing
<1>7. LinesInv'
  BY <1>1, <1>2, <1>3, StoresLine, LinesStored
<1>8. SelectInv'
  <2>1. CASE RaiseCS(d)
    BY <2>1 DEF RaiseCS, Store, SelectInv
  <2>2. CASE LowerCS(d)
    BY <1>1, <1>2, <2>2 DEF SelectInv
  <2>3. CASE ~RaiseCS(d) /\ ~LowerCS(d)
    <3>1. CS \in high => CS \in high'
      <4>1. /\ CS \notin addrPins(31) /\ CS \notin dataPins(255)
        BY AllLines, LinesApart
      <4> QED BY <2>3, <4>1 DEF SetAddr, ClearAddr, SetData, ClearData, Store
    <3>2. \A e \in Drivers : Written(e)' => Written(e)
      BY <1>1, <1>2, <1>3, <2>3 DEF Written, Quiet, Gone, Writing
    <3>3. \A e \in Drivers : pc[e] = "strobe" => pc'[e] = "strobe"
      BY <1>1, <1>2, <2>3
    <3>4. \A e \in Drivers : pc[e] = "killed" => pc'[e] = "killed"
      BY <1>1, <1>2 DEF Writing
    <3>5. \A e \in Drivers : Gone(e) => Gone(e)'
      BY <1>2, <1>4 DEF Gone, Quiet
    <3> QED BY <1>3, <3>1, <3>2, <3>3, <3>4, <3>5, SelectKept
  <2> QED BY <2>1, <2>2, <2>3
<1> QED BY <1>3, <1>5, <1>6, <1>7, <1>8 DEF StrobeIsAPeriod

LEMMA EndWrites == ASSUME IInv, WriteInv, NEW d \in Drivers, End(d) PROVE WriteInv'
<1> USE DEF IInv, WriteInv
<1>1. PICK to \in { "ended", "killed" } :
        /\ pc' = [ pc EXCEPT ![d] = to ]
        /\ pc[d] \in SettingUp \cup Writing \cup {"ready"}
        /\ to = "ended" => pc[d] = "ready"
  BY DEF End, Goes
<1>2. \A e \in Drivers : pc'[e] = IF e = d THEN to ELSE pc[e]
  BY <1>1 DEF TypeOK
<1>3. /\ UNCHANGED << writes, function, high, divisor, overlap, disturbed >>
      /\ UNCHANGED chipVars
      /\ \A e \in Drivers \ {d} : reg'[e] = reg[e] /\ val'[e] = val[e]
  BY DEF End, clockVars, TypeOK
<1>4. \A e \in Drivers : Quiet(e) => Quiet(e)'
  BY <1>2 DEF Quiet, Gone
<1>5. Undisturbed'
  <2>1. \A e \in Drivers : ~Quiet(e)' => ~Quiet(e)
    BY <1>4
  <2>2. \A e \in Drivers \ disturbed : ~Quiet(e)' => \A f \in Others(e) : Quiet(f)'
    BY <1>4, <2>1 DEF Undisturbed, Others
  <2>3. \A e \in Drivers : pc'[e] \in Writing => pc[e] \in Writing
    BY <1>2 DEF Writing
  <2> QED BY <1>3, <2>2, <2>3 DEF Undisturbed, Others
<1>6. History'
  BY <1>2, <1>3 DEF History, SettingUp
<1>7. LinesInv'
  <2>1. to \notin Writing \ {"setAddr"}
    BY DEF Writing
  <2> QED BY <1>2, <1>3, <2>1, LinesKept
<1>8. SelectInv'
  <2>1. CASE to = "ended"
    <3>1. \A e \in Drivers : Written(e)' => Written(e)
      BY <1>1, <1>2, <1>3, <2>1 DEF Written, Quiet, Gone
    <3>2. /\ \A e \in Drivers : pc[e] = "strobe" => pc'[e] = "strobe"
          /\ \A e \in Drivers : pc[e] = "killed" => pc'[e] = "killed"
          /\ \A e \in Drivers : Gone(e) => Gone(e)'
      BY <1>1, <1>2, <2>1 DEF Gone
    <3> QED BY <1>3, <3>1, <3>2, SelectKept
  <2>2. CASE to = "killed"
    <3>1. There(d)
      BY <1>1 DEF There, Gone, SettingUp, Writing
    <3>2. \A e \in Drivers : Written(e)' => pc[e] # "off"
      BY <1>3 DEF Written, History
    <3>3. ASSUME ~overlap, NEW e \in Drivers, Written(e)', ~Gone(e)'
          PROVE  FALSE
      <4>1. e # d
        BY <1>2, <2>2, <3>3 DEF Gone
      <4>2. There(e)
        BY <1>2, <3>2, <3>3, <4>1 DEF There, Gone
      <4> QED BY <3>1, <3>3, <4>1, <4>2 DEF Alone
    <3>4. pc'[d] = "killed"
      BY <1>2, <2>2
    <3> QED BY <1>3, <3>3, <3>4 DEF SelectInv, Settled
  <2> QED BY <2>1, <2>2
<1> QED BY <1>3, <1>5, <1>6, <1>7, <1>8 DEF StrobeIsAPeriod

(* What is on the lines of an undisturbed strobe is what was asked for.    *)
LEMMA StrobeShows ==
  ASSUME IInv, WriteInv, PinsAreSet, NEW d \in Drivers \ disturbed, pc[d] = "strobe"
  PROVE  OnLines = Asked(d)
<1> USE DEF IInv, WriteInv
<1>1. reg[d] % 32 \in 0 .. 31 /\ val[d] \in 0 .. 255 /\ val[d] % 256 = val[d]
  <2>1. reg[d] \in 0 .. 255 /\ val[d] \in 0 .. 255
    BY DEF TypeOK
  <2>2. \A n \in 0 .. 255 : n % 32 \in 0 .. 31 /\ n % 256 = n
    OBVIOUS
  <2> QED BY <2>1, <2>2
<1>2. /\ high \cap Range(ADDR) = addrPins(reg[d] % 32)
      /\ high \cap Range(DATA) = dataPins(val[d])
  BY <1>1 DEF LinesInv, LinesOf
<1> QED BY <1>1, <1>2, ShownIsRead DEF Asked

LEMMA ChipWrites ==
  ASSUME IInv, WriteInv, ClockStops \/ Phi2 \/ UNCHANGED vars PROVE WriteInv'
<1> USE DEF IInv, WriteInv
<1>1. UNCHANGED << pc, reg, val, writes, function, high, divisor, overlap, disturbed >>
  BY DEF ClockStops, Phi2, vars, progVars, clockVars
<1>2. History' /\ Undisturbed' /\ SelectInv' /\ StrobeIsAPeriod(divisor)'
  BY <1>1 DEF History, Undisturbed, SelectInv, Settled, StrobeIsAPeriod, Quiet, Gone,
              Others, Written
<1>3. \A d \in Drivers \ disturbed : LinesOf(d)'
  BY <1>1 DEF LinesInv, LinesOf
<1>4. \A d \in Drivers \ disturbed : ChipOf(d)'
  <2>1. CASE Phi2
    <3>1. chip' = OnLines
      BY <2>1 DEF Phi2
    <3> QED BY <1>1, <3>1, StrobeShows DEF ChipOf, PinsAreSet, Asked
  <2>2. CASE ClockStops \/ UNCHANGED vars
    BY <1>1, <2>2 DEF LinesInv, ChipOf, PinsAreSet, Asked, ClockStops, vars, chipVars
  <2> QED BY <2>1, <2>2
<1> QED BY <1>1, <1>2, <1>3, <1>4 DEF LinesInv

LEMMA WriteInductive == IInv /\ WriteInv /\ [Next]_vars => WriteInv'
<1> SUFFICES ASSUME IInv, WriteInv, Next PROVE WriteInv'
  BY ChipWrites
<1>1. ASSUME NEW d \in Drivers, SetUp(d) PROVE WriteInv'
  BY <1>1, SetUpWrites
<1>2. ASSUME NEW d \in Drivers, WriteSid(d) PROVE WriteInv'
  BY <1>2, WriteWrites, StoreWrites, EndWrites DEF WriteSid
<1> QED BY <1>1, <1>2, BeginWrites, ChipWrites DEF Next

LEMMA WriteAlways == Spec => []WriteInv
BY Always, WriteStart, WriteInductive, PTL DEF Spec

(* A strobe ends with RaiseCS, and the chip takes something with Phi2.     *)
LEMMA StrobeEnds ==
  ASSUME IInv, Next, NEW d \in Drivers, pc[d] = "strobe", pc'[d] = "ready"
  PROVE  RaiseCS(d)
<1> USE DEF IInv
<1>1. ASSUME NEW e \in Drivers, Begin(e) \/ SetUp(e) PROVE FALSE
  <2>1. \E to : pc' = [ pc EXCEPT ![e] = to ] /\ pc[e] \in {"off"} \cup SettingUp
    BY <1>1 DEF SetUp, Begin, FunctionRead, FunctionWrite, StopClock, WaitForClock,
                SetDivisor, StartClock, Goes, SettingUp
  <2>2. e # d
    BY <2>1 DEF SettingUp
  <2> QED BY <2>1, <2>2 DEF TypeOK
<1>2. ASSUME NEW e \in Drivers, WriteSid(e) PROVE e = d /\ RaiseCS(d)
  <2>1. \E to : pc' = [ pc EXCEPT ![e] = to ]
    BY <1>2 DEF WriteSid, Write, SetAddr, ClearAddr, SetData, ClearData, LowerCS,
                RaiseCS, End, Store, Goes
  <2>2. e = d
    BY <2>1 DEF TypeOK
  <2>3. pc' = [ pc EXCEPT ![d] = pc'[d] ]
    BY <2>1, <2>2 DEF TypeOK
  <2>4. ~(Write(d) \/ SetAddr(d) \/ ClearAddr(d) \/ SetData(d) \/ ClearData(d)
            \/ LowerCS(d) \/ End(d))
    BY DEF Write, SetAddr, ClearAddr, SetData, ClearData, LowerCS, End, Store, Goes,
           TypeOK
  <2> QED BY <1>2, <2>2, <2>4 DEF WriteSid
<1>3. ~(ClockStops \/ Phi2)
  BY DEF ClockStops, Phi2, progVars
<1> QED BY <1>1, <1>2, <1>3 DEF Next

LEMMA OnlyPhi2 == ASSUME Next, chip' # chip PROVE Phi2
<1>1. ASSUME NEW e \in Drivers, Begin(e) \/ SetUp(e) \/ WriteSid(e) PROVE FALSE
  BY <1>1 DEF SetUp, Begin, FunctionRead, FunctionWrite, StopClock, WaitForClock,
       SetDivisor, StartClock, WriteSid, Write, SetAddr, ClearAddr, SetData,
       ClearData, LowerCS, RaiseCS, End, Store, chipVars
<1>2. ~ClockStops
  BY DEF ClockStops, chipVars
<1> QED BY <1>1, <1>2 DEF Next

(* A write that no other driver came between is in the chip when writeSid  *)
(* returns: the stores of a write leave exactly its bits on the lines,     *)
(* whatever was there before, and the strobe lasts for a period of the     *)
(* clock with either of the two divisors.                                  *)
THEOREM WriteLands == Spec => UndisturbedWriteLands
<1> DEFINE Lands ==
      \A d \in Drivers \ disturbed :
        pc[d] = "strobe" /\ pc'[d] = "ready" /\ PinsAreSet /\ clock = "busy"
          => chip = Asked(d)
<1>1. IInv /\ WriteInv /\ [Next]_vars => [Lands]_vars
  <2> SUFFICES ASSUME IInv, WriteInv, Next, NEW d \in Drivers \ disturbed,
                      pc[d] = "strobe", pc'[d] = "ready", PinsAreSet, clock = "busy"
               PROVE  chip = Asked(d)
    OBVIOUS
  <2>1. edge
    BY StrobeEnds DEF RaiseCS, WriteInv
  <2> QED BY <2>1 DEF WriteInv, LinesInv, ChipOf
<1>2. Spec => [][Lands]_vars
  BY <1>1, Always, WriteAlways, PTL DEF Spec
<1> QED BY <1>2 DEF UndisturbedWriteLands

(* With one driver at a time the chip takes nothing but what it is asked   *)
(* to from the end of a first write on, although every store of a write    *)
(* passes over its lines; and a driver that comes after a server that was  *)
(* killed in the middle of a write needs one write to come back to that.   *)
THEOREM NothingElse == Spec => NothingElseLands
<1> DEFINE Asks ==
      chip' # chip =>
        \/ overlap \/ ~Settled
        \/ \E d \in Drivers : pc[d] = "strobe" /\ chip' = Asked(d)
<1>1. IInv /\ WriteInv /\ [Next]_vars => [Asks]_vars
  <2> SUFFICES ASSUME IInv, WriteInv, Next, chip' # chip, ~overlap, Settled
               PROVE  \E d \in Drivers : pc[d] = "strobe" /\ chip' = Asked(d)
    OBVIOUS
  <2>1. CS \notin high /\ chip' = OnLines
    BY OnlyPhi2 DEF Phi2, Selected
  <2>2. PICK d \in Drivers : pc[d] = "strobe"
    BY <2>1 DEF WriteInv, SelectInv
  <2>3. PinsAreSet
    BY <2>2 DEF IInv, PinsInv, Through, There, Gone
  <2>4. d \notin disturbed
    BY <2>2 DEF WriteInv, Undisturbed, Writing
  <2> QED BY <2>1, <2>2, <2>3, <2>4, StrobeShows
<1>2. Spec => [][Asks]_vars
  BY <1>1, Always, WriteAlways, PTL DEF Spec
<1> QED BY <1>2 DEF NothingElseLands
=============================================================================
