--------------------------- MODULE SidDriverProofs ---------------------------
(***************************************************************************)
(* The kernel module's queue, for any number of processes and any size of  *)
(* the queue, of its indices and of the writes: its types and semaphore,   *)
(* that it keeps every caller's bytes in order, that on one processor the  *)
(* thread plays whole frames, and that no wake-up is lost.                 *)
(***************************************************************************)
EXTENDS SidDriver, FiniteSetTheorems, TLAPS

(* A call does not run past the bytes it was given, and only RESET is in   *)
(* the middle of a reset.                                                  *)
CallInv ==
  \A p \in Producers :
    /\ pc[p] \notin { "resetIn", "resetOut" }
    /\ pc[p] \in InWriteData => i[p] <= size[p]
    /\ pc[p] \in { "copy", "load", "store" } => i[p] < size[p]

IInv == TypeOK /\ CallInv

-----------------------------------------------------------------------------
LEMMA Sizes ==
  /\ Size \in Nat \ {0} /\ Modulus \in Nat \ {0}
  /\ \A x \in Int : Slot(x) \in 0 .. Size - 1 /\ x % Modulus \in 0 .. Modulus - 1
  BY DriverAssumption DEF Slot

LEMMA Roles ==
  /\ Writers \subseteq Producers /\ Delayers \subseteq Producers
  /\ Producers \subseteq Process /\ Resetters \subseteq Process
  /\ none \notin Writers /\ none \notin Producers
  /\ Writers \cap Delayers = {} /\ Resetters \cap Producers = {}
  BY DriverAssumption DEF Producers, Process

LEMMA CallFacts ==
  ASSUME CallTypes
  PROVE  /\ unprocessed \in Int
         /\ \A p \in Producers :
              /\ i[p] \in Nat /\ i[p] + 1 \in Nat
              /\ size[p] \in Nat
              /\ sent[p] \in Nat /\ sent[p] + 1 \in Nat
              /\ sent[p] + size[p] \in Nat
              /\ unprocessed - size[p] \in Int
         /\ \A p \in Process : calls[p] < MaxCalls => calls[p] + 1 \in 0 .. MaxCalls
  <1>1. \A p \in Producers : i[p] \in Nat /\ size[p] \in Nat /\ sent[p] \in Nat
    BY DEF CallTypes
  <1>2. \A p \in Process : calls[p] \in 0 .. MaxCalls
    BY DEF CallTypes
  <1>3. unprocessed \in Int /\ MaxCalls \in Nat
    BY DriverAssumption DEF CallTypes
  <1>4. QED
    BY <1>1, <1>2, <1>3

LEMMA InitInv == Init => IInv
  <1> SUFFICES ASSUME Init
               PROVE  IInv
    OBVIOUS
  <1> USE Sizes, Roles DEF Init
  <1>1. KfifoTypes
    BY DEF KfifoTypes
  <1>2. CallTypes
    BY DriverAssumption DEF CallTypes
  <1>3. ReaderTypes
    <2>1. /\ acBuffer \in [ 1 .. 4 -> Byte \cup {Junk} ]
          /\ got \in 0 .. 4 /\ sawOut \in 0 .. Modulus - 1
          /\ taken \in [ Producers -> Nat ]
      OBVIOUS
    <2>2. reader = "check" /\ stopping \in BOOLEAN /\ cpu = none
      OBVIOUS
    <2>3. QED
      BY <2>1, <2>2 DEF ReaderTypes
  <1>4. LockIsHeld
    BY DEF LockIsHeld, InWriteData
  <1>5. CallInv
    BY DEF CallInv, InWriteData
  <1>6. QED
    BY <1>1, <1>2, <1>3, <1>4, <1>5 DEF IInv, TypeOK

LEMMA OpenStep == ASSUME IInv, NEW p \in Process, Open(p) \/ Close(p) PROVE IInv'
  <1> USE Sizes, Roles DEF IInv, TypeOK, Runs, Goes, Pauses, Open, Close
  <1>1. KfifoTypes'
    BY DEF KfifoTypes, kfifo
  <1>2. CallTypes'
    BY DEF CallTypes, procVars, InWriteData
  <1>3. ReaderTypes'
    BY DEF ReaderTypes, readerVars
  <1>4. LockIsHeld'
    BY DEF LockIsHeld, CallTypes, procVars, InWriteData
  <1>5. CallInv'
    BY DEF CallInv, CallTypes, procVars, InWriteData
  <1>6. QED
    BY <1>1, <1>2, <1>3, <1>4, <1>5

LEMMA WriteStep == ASSUME IInv, NEW p \in Writers, Write(p) PROVE IInv'
  <1> USE Sizes, Roles DEF IInv, TypeOK, Runs, Goes, Pauses, Write
  <1>1. KfifoTypes'
    BY DEF KfifoTypes, kfifo
  <1>2. CallTypes'
    <2>1. calls[p] + 1 \in 0 .. MaxCalls
      BY CallFacts
    <2>2. PICK n \in Batches : /\ size' = [ size EXCEPT ![p] = n ]
                               /\ unprocessed' = unprocessed + n
      OBVIOUS
    <2>3. n \in Nat /\ unprocessed + n \in Int
      BY DriverAssumption, CallFacts
    <2>4. QED
      BY <2>1, <2>2, <2>3 DEF CallTypes, procVars
  <1>3. ReaderTypes'
    BY DEF ReaderTypes, readerVars
  <1>4. LockIsHeld'
    BY DEF LockIsHeld, CallTypes, procVars, InWriteData
  <1>5. CallInv'
    BY DEF CallInv, CallTypes, procVars, InWriteData
  <1>6. QED
    BY <1>1, <1>2, <1>3, <1>4, <1>5

LEMMA DownStep == ASSUME IInv, NEW p \in Writers, Down(p) PROVE IInv'
  <1> USE Sizes, Roles DEF IInv, TypeOK, Runs, Goes, Pauses, Down
  <1>1. KfifoTypes'
    BY DEF KfifoTypes, kfifo
  <1>2. CallTypes'
    BY DEF CallTypes, procVars, InWriteData
  <1>3. ReaderTypes'
    BY DEF ReaderTypes, readerVars
  <1>4. LockIsHeld'
    BY DEF LockIsHeld, CallTypes, procVars, InWriteData
  <1>5. CallInv'
    BY DEF CallInv, CallTypes, procVars, InWriteData
  <1>6. QED
    BY <1>1, <1>2, <1>3, <1>4, <1>5

LEMMA DownInterruptedStep == ASSUME IInv, NEW p \in Writers, DownInterrupted(p) PROVE IInv'
  <1> USE Sizes, Roles DEF IInv, TypeOK, Runs, Goes, Pauses, DownInterrupted
  <1>1. KfifoTypes'
    BY DEF KfifoTypes, kfifo
  <1>2. CallTypes'
    <2>1. size[p] \in Nat /\ sent[p] + size[p] \in Nat
          /\ unprocessed - size[p] \in Int
      BY CallFacts
    <2>2. QED
      BY <2>1 DEF CallTypes, procVars
  <1>3. ReaderTypes'
    BY DEF ReaderTypes, readerVars
  <1>4. LockIsHeld'
    BY DEF LockIsHeld, CallTypes, procVars, InWriteData
  <1>5. CallInv'
    BY DEF CallInv, CallTypes, procVars, InWriteData
  <1>6. QED
    BY <1>1, <1>2, <1>3, <1>4, <1>5

LEMMA DelayStep == ASSUME IInv, NEW p \in Delayers, Delay(p) PROVE IInv'
  <1> USE Sizes, Roles DEF IInv, TypeOK, Runs, Goes, Pauses, Delay
  <1>1. KfifoTypes'
    BY DEF KfifoTypes, kfifo
  <1>2. CallTypes'
    <2>1. calls[p] + 1 \in 0 .. MaxCalls
      BY CallFacts
    <2>2. QED
      BY <2>1 DEF CallTypes, procVars, InWriteData
  <1>3. ReaderTypes'
    BY DEF ReaderTypes, readerVars
  <1>4. LockIsHeld'
    BY DEF LockIsHeld, CallTypes, procVars, InWriteData
  <1>5. CallInv'
    BY DEF CallInv, CallTypes, procVars, InWriteData
  <1>6. QED
    BY <1>1, <1>2, <1>3, <1>4, <1>5

LEMMA WaitForSpaceStep == ASSUME IInv, NEW p \in Producers, WaitForSpace(p) PROVE IInv'
  <1> USE Sizes, Roles DEF IInv, TypeOK, Runs, Goes, Pauses, WaitForSpace
  <1>1. KfifoTypes'
    BY DEF KfifoTypes, kfifo
  <1>2. CallTypes'
    BY DEF CallTypes, procVars, InWriteData
  <1>3. ReaderTypes'
    BY DEF ReaderTypes, readerVars
  <1>4. LockIsHeld'
    BY DEF LockIsHeld, CallTypes, procVars, InWriteData
  <1>5. CallInv'
    BY DEF CallInv, CallTypes, procVars, InWriteData
  <1>6. QED
    BY <1>1, <1>2, <1>3, <1>4, <1>5

LEMMA SpaceInterruptedStep == ASSUME IInv, NEW p \in Producers, SpaceInterrupted(p) PROVE IInv'
  <1> USE Sizes, Roles DEF IInv, TypeOK, Runs, Goes, Pauses, SpaceInterrupted
  <1>1. KfifoTypes'
    BY DEF KfifoTypes, kfifo
  <1>2. CallTypes'
    <2>1. /\ i[p] \in Nat /\ size[p] \in Nat /\ sent[p] \in Nat
          /\ unprocessed \in Int
      BY CallFacts
    <2>2. i[p] <= size[p]
      BY DEF CallInv, InWriteData
    <2>3. /\ sent[p] + (size[p] - i[p]) \in Nat
          /\ unprocessed - (size[p] - i[p]) \in Int
      BY <2>1, <2>2
    <2>4. CASE KfifoIsFull
      <3>1. /\ unprocessed' = unprocessed - (size[p] - i[p])
            /\ sent' = [ sent EXCEPT ![p] = sent[p] + (size[p] - i[p]) ]
            /\ i' = [ i EXCEPT ![p] = size[p] ]
            /\ pc' = [ pc EXCEPT ![p] = "up" ]
            /\ UNCHANGED << lockWriter, opened, size, sawIn, calls >>
        BY <2>1, <2>4 DEF CallTypes
      <3> HIDE DEF SpaceInterrupted
      <3>2. QED
        BY <2>1, <2>3, <3>1 DEF CallTypes, InWriteData
    <2>5. CASE ~KfifoIsFull
      BY <2>5 DEF CallTypes, InWriteData
    <2>6. QED
      BY <2>4, <2>5
  <1>3. ReaderTypes'
    BY DEF ReaderTypes, readerVars
  <1>4. LockIsHeld'
    BY DEF LockIsHeld, CallTypes, procVars, InWriteData
  <1>5. CallInv'
    BY DEF CallInv, CallTypes, procVars, InWriteData
  <1>6. QED
    BY <1>1, <1>2, <1>3, <1>4, <1>5

LEMMA FillStep == ASSUME IInv, NEW p \in Producers, Fill(p) PROVE IInv'
  <1> USE Sizes, Roles DEF IInv, TypeOK, Runs, Goes, Pauses, Fill
  <1>1. KfifoTypes'
    BY DEF KfifoTypes, kfifo
  <1>2. CallTypes'
    BY DEF CallTypes, procVars, InWriteData
  <1>3. ReaderTypes'
    BY DEF ReaderTypes, readerVars
  <1>4. LockIsHeld'
    BY DEF LockIsHeld, CallTypes, procVars, InWriteData
  <1>5. CallInv'
    BY DEF CallInv, CallTypes, procVars, InWriteData
  <1>6. QED
    BY <1>1, <1>2, <1>3, <1>4, <1>5

LEMMA CopyInStep == ASSUME IInv, NEW p \in Producers, CopyIn(p) PROVE IInv'
  <1> USE Sizes, Roles DEF IInv, TypeOK, Runs, Goes, Pauses, CopyIn
  <1>1. KfifoTypes'
    <2>1. /\ sent[p] \in Nat /\ <<p, sent[p]>> \in Byte
          /\ in \in Int /\ Slot(in) \in 0 .. Size - 1
      <3>1. sent[p] \in Nat
        BY CallFacts
      <3>2. in \in Int
        BY DEF KfifoTypes
      <3>3. <<p, sent[p]>> \in Byte
        BY <3>1 DEF Byte
      <3>4. QED
        BY <3>1, <3>2, <3>3
    <2>2. QED
      BY <2>1 DEF KfifoTypes
  <1>2. CallTypes'
    <2>1. i[p] + 1 \in Nat /\ sent[p] + 1 \in Nat
      BY CallFacts
    <2>2. CASE KfifoIsFull
      <3>1. /\ i' = [ i EXCEPT ![p] = i[p] + 1 ]
            /\ sent' = [ sent EXCEPT ![p] = sent[p] + 1 ]
            /\ pc' = [ pc EXCEPT ![p] = "fill" ]
            /\ UNCHANGED << lockWriter, unprocessed, opened, size, sawIn, calls >>
        BY <2>2 DEF CallTypes
      <3> HIDE DEF CopyIn
      <3>2. QED
        BY <2>1, <3>1 DEF CallTypes, InWriteData
    <2>3. CASE ~KfifoIsFull
      BY <2>3 DEF CallTypes, InWriteData
    <2>4. QED
      BY <2>2, <2>3
  <1>3. ReaderTypes'
    BY DEF ReaderTypes, readerVars
  <1>4. LockIsHeld'
    BY DEF LockIsHeld, CallTypes, procVars, InWriteData
  <1>5. CallInv'
    BY DEF CallInv, CallTypes, procVars, InWriteData
  <1>6. QED
    BY <1>1, <1>2, <1>3, <1>4, <1>5

LEMMA LoadInStep == ASSUME IInv, NEW p \in Producers, LoadIn(p) PROVE IInv'
  <1> USE Sizes, Roles DEF IInv, TypeOK, Runs, Goes, Pauses, LoadIn
  <1>1. KfifoTypes'
    BY DEF KfifoTypes, kfifo
  <1>2. CallTypes'
    <2>1. in \in 0 .. Modulus - 1
      BY DEF KfifoTypes
    <2>2. QED
      BY <2>1 DEF CallTypes, InWriteData
  <1>3. ReaderTypes'
    BY DEF ReaderTypes, readerVars
  <1>4. LockIsHeld'
    BY DEF LockIsHeld, CallTypes, procVars, InWriteData
  <1>5. CallInv'
    BY DEF CallInv, CallTypes, procVars, InWriteData
  <1>6. QED
    BY <1>1, <1>2, <1>3, <1>4, <1>5

LEMMA StoreInStep == ASSUME IInv, NEW p \in Producers, StoreIn(p) PROVE IInv'
  <1> USE Sizes, Roles DEF IInv, TypeOK, Runs, Goes, Pauses, StoreIn
  <1>1. KfifoTypes'
    <2>1. sawIn[p] + 1 \in Int
      BY DEF CallTypes
    <2>2. QED
      BY <2>1 DEF KfifoTypes
  <1>2. CallTypes'
    <2>1. i[p] + 1 \in Nat /\ sent[p] + 1 \in Nat
      BY CallFacts
    <2>2. QED
      BY <2>1 DEF CallTypes, InWriteData
  <1>3. ReaderTypes'
    BY DEF ReaderTypes, readerVars
  <1>4. LockIsHeld'
    BY DEF LockIsHeld, CallTypes, procVars, InWriteData
  <1>5. CallInv'
    <2>1. i[p] + 1 <= size[p] /\ i' = [ i EXCEPT ![p] = i[p] + 1 ]
          /\ i[p] \in Nat /\ size[p] \in Nat
      BY DEF CallInv, CallTypes
    <2>2. QED
      BY <2>1 DEF CallInv, CallTypes, InWriteData
  <1>6. QED
    BY <1>1, <1>2, <1>3, <1>4, <1>5

LEMMA WakeReaderStep == ASSUME IInv, NEW p \in Producers, WakeReader(p) PROVE IInv'
  <1> USE Sizes, Roles DEF IInv, TypeOK, Runs, Goes, Pauses, WakeReader
  <1>1. KfifoTypes'
    BY DEF KfifoTypes, kfifo
  <1>2. CallTypes'
    BY DEF CallTypes, procVars, InWriteData
  <1>3. ReaderTypes'
    BY DEF ReaderTypes, readerVars
  <1>4. LockIsHeld'
    BY DEF LockIsHeld, CallTypes, procVars, InWriteData
  <1>5. CallInv'
    BY DEF CallInv, CallTypes, procVars, InWriteData
  <1>6. QED
    BY <1>1, <1>2, <1>3, <1>4, <1>5

LEMMA ReturnStep == ASSUME IInv, NEW p \in Producers, Return(p) PROVE IInv'
  <1> USE Sizes, Roles DEF IInv, TypeOK, Runs, Goes, Pauses, Return
  <1>1. KfifoTypes'
    BY DEF KfifoTypes, kfifo
  <1>2. CallTypes'
    BY DEF CallTypes, procVars, InWriteData
  <1>3. ReaderTypes'
    BY DEF ReaderTypes, readerVars
  <1>4. LockIsHeld'
    BY DEF LockIsHeld, CallTypes, procVars, InWriteData
  <1>5. CallInv'
    BY DEF CallInv, CallTypes, procVars, InWriteData
  <1>6. QED
    BY <1>1, <1>2, <1>3, <1>4, <1>5

LEMMA ResetStep == ASSUME IInv, NEW p \in Resetters, Reset(p) \/ ResetRest(p) PROVE IInv'
  <1> USE Sizes, Roles DEF IInv, TypeOK, Runs, Goes, Pauses, Reset, ResetRest
  <1>1. KfifoTypes'
    <2>1. 0 \in 0 .. Modulus - 1
      OBVIOUS
    <2>2. QED
      BY <2>1 DEF KfifoTypes
  <1>2. CallTypes'
    <2>1. CASE Reset(p)
      <3>1. calls[p] + 1 \in 0 .. MaxCalls
        BY <2>1, CallFacts
      <3>2. QED
        BY <2>1, <3>1 DEF CallTypes
    <2>2. CASE ResetRest(p)
      BY <2>2 DEF CallTypes
    <2>3. QED
      BY <2>1, <2>2
  <1>3. ReaderTypes'
    BY DEF ReaderTypes, readerVars
  <1>4. LockIsHeld'
    <2>1. p \notin Writers /\ lockWriter' = lockWriter
      OBVIOUS
    <2>2. \A q \in Writers : pc'[q] = pc[q]
      BY <2>1 DEF CallTypes
    <2>3. QED
      BY <2>1, <2>2 DEF LockIsHeld
  <1>5. CallInv'
    BY DEF CallInv, CallTypes, procVars, InWriteData
  <1>6. QED
    BY <1>1, <1>2, <1>3, <1>4, <1>5

LEMMA UnloadStep == ASSUME IInv, Unload PROVE IInv'
  <1> USE Sizes, Roles DEF IInv, TypeOK, Runs, Goes, Pauses, Unload
  <1>1. KfifoTypes'
    BY DEF KfifoTypes, kfifo
  <1>2. CallTypes'
    BY DEF CallTypes, procVars, InWriteData
  <1>3. ReaderTypes'
    BY DEF ReaderTypes, readerVars
  <1>4. LockIsHeld'
    BY DEF LockIsHeld, CallTypes, procVars, InWriteData
  <1>5. CallInv'
    BY DEF CallInv, CallTypes, procVars, InWriteData
  <1>6. QED
    BY <1>1, <1>2, <1>3, <1>4, <1>5

LEMMA ShouldStopStep == ASSUME IInv, ShouldStop PROVE IInv'
  <1> USE Sizes, Roles DEF IInv, TypeOK, Runs, Goes, Pauses, ShouldStop
  <1>1. KfifoTypes'
    BY DEF KfifoTypes, kfifo
  <1>2. CallTypes'
    BY DEF CallTypes, procVars, InWriteData
  <1>3. ReaderTypes'
    BY DEF ReaderTypes, readerVars
  <1>4. LockIsHeld'
    BY DEF LockIsHeld, CallTypes, procVars, InWriteData
  <1>5. CallInv'
    BY DEF CallInv, CallTypes, procVars, InWriteData
  <1>6. QED
    BY <1>1, <1>2, <1>3, <1>4, <1>5

LEMMA WaitForDataStep == ASSUME IInv, WaitForData PROVE IInv'
  <1> USE Sizes, Roles DEF IInv, TypeOK, Runs, Goes, Pauses, WaitForData
  <1>1. KfifoTypes'
    BY DEF KfifoTypes, kfifo
  <1>2. CallTypes'
    BY DEF CallTypes, procVars, InWriteData
  <1>3. ReaderTypes'
    BY DEF ReaderTypes, readerVars
  <1>4. LockIsHeld'
    BY DEF LockIsHeld, CallTypes, procVars, InWriteData
  <1>5. CallInv'
    BY DEF CallInv, CallTypes, procVars, InWriteData
  <1>6. QED
    BY <1>1, <1>2, <1>3, <1>4, <1>5

LEMMA CopyOutStep == ASSUME IInv, CopyOut PROVE IInv'
  <1> USE Sizes, Roles DEF IInv, TypeOK, Runs, Goes, Pauses, CopyOut
  <1>1. KfifoTypes'
    BY DEF KfifoTypes, kfifo
  <1>2. CallTypes'
    BY DEF CallTypes, procVars, InWriteData
  <1>3. ReaderTypes'
    <2> DEFINE n == IF KfifoLen < 4 THEN KfifoLen ELSE 4
    <2>1. KfifoLen \in Nat
      BY DEF KfifoLen, KfifoTypes
    <2>2. n \in 0 .. 4 /\ got' = n
      BY <2>1
    <2>3. \A k \in 1 .. 4 : data[Slot(out + k - 1)] \in Byte \cup {Junk}
      <3>1. ASSUME NEW k \in 1 .. 4
            PROVE  Slot(out + k - 1) \in 0 .. Size - 1
        <4>1. out + k - 1 \in Int
          BY DEF KfifoTypes
        <4>2. QED
          BY <4>1
      <3>2. QED
        BY <3>1 DEF KfifoTypes
    <2>4. acBuffer' \in [ 1 .. 4 -> Byte \cup {Junk} ]
      BY <2>3
    <2>5. QED
      BY <2>2, <2>4 DEF ReaderTypes
  <1>4. LockIsHeld'
    BY DEF LockIsHeld, CallTypes, procVars, InWriteData
  <1>5. CallInv'
    BY DEF CallInv, CallTypes, procVars, InWriteData
  <1>6. QED
    BY <1>1, <1>2, <1>3, <1>4, <1>5

LEMMA LoadOutStep == ASSUME IInv, LoadOut PROVE IInv'
  <1> USE Sizes, Roles DEF IInv, TypeOK, Runs, Goes, Pauses, LoadOut
  <1>1. KfifoTypes'
    BY DEF KfifoTypes, kfifo
  <1>2. CallTypes'
    BY DEF CallTypes, procVars, InWriteData
  <1>3. ReaderTypes'
    <2>1. out \in 0 .. Modulus - 1
      BY DEF KfifoTypes
    <2>2. QED
      BY <2>1 DEF ReaderTypes
  <1>4. LockIsHeld'
    BY DEF LockIsHeld, CallTypes, procVars, InWriteData
  <1>5. CallInv'
    BY DEF CallInv, CallTypes, procVars, InWriteData
  <1>6. QED
    BY <1>1, <1>2, <1>3, <1>4, <1>5

LEMMA StoreOutStep == ASSUME IInv, StoreOut PROVE IInv'
  <1> USE Sizes, Roles DEF IInv, TypeOK, Runs, Goes, Pauses, StoreOut
  <1>1. KfifoTypes'
    <2>1. sawOut + got \in Int
      BY DEF ReaderTypes
    <2>2. QED
      BY <2>1 DEF KfifoTypes
  <1>2. CallTypes'
    BY DEF CallTypes, procVars, InWriteData
  <1>3. ReaderTypes'
    <2> DEFINE mine(p) == { k \in 1 .. got :
                              acBuffer[k] # Junk /\ acBuffer[k][1] = p }
    <2>1. ASSUME NEW p \in Producers
          PROVE  taken[p] + Cardinality(mine(p)) \in Nat
      <3>1. IsFiniteSet(1 .. got)
        BY FS_Interval DEF ReaderTypes
      <3>2. Cardinality(mine(p)) \in Nat
        BY <3>1, FS_Subset, FS_CardinalityType
      <3>3. QED
        BY <3>2 DEF ReaderTypes
    <2>2. taken' = [ p \in Producers |-> taken[p] + Cardinality(mine(p)) ]
      OBVIOUS
    <2> HIDE DEF mine
    <2>3. taken' \in [ Producers -> Nat ]
      BY <2>1, <2>2
    <2>4. QED
      BY <2>3 DEF ReaderTypes
  <1>4. LockIsHeld'
    BY DEF LockIsHeld, CallTypes, procVars, InWriteData
  <1>5. CallInv'
    BY DEF CallInv, CallTypes, procVars, InWriteData
  <1>6. QED
    BY <1>1, <1>2, <1>3, <1>4, <1>5

LEMMA PlayStep == ASSUME IInv, Play PROVE IInv'
  <1> USE Sizes, Roles DEF IInv, TypeOK, Runs, Goes, Pauses, Play
  <1>1. KfifoTypes'
    BY DEF KfifoTypes, kfifo
  <1>2. CallTypes'
    BY DEF CallTypes, procVars, InWriteData
  <1>3. ReaderTypes'
    BY DEF ReaderTypes, readerVars
  <1>4. LockIsHeld'
    BY DEF LockIsHeld, CallTypes, procVars, InWriteData
  <1>5. CallInv'
    BY DEF CallInv, CallTypes, procVars, InWriteData
  <1>6. QED
    BY <1>1, <1>2, <1>3, <1>4, <1>5

-----------------------------------------------------------------------------
LEMMA NextInv == IInv /\ [Next]_vars => IInv'
  <1> SUFFICES ASSUME IInv, [Next]_vars
               PROVE  IInv'
    OBVIOUS
  <1>1. ASSUME NEW p \in Process, Open(p) \/ Close(p)
        PROVE  IInv'
    BY <1>1, OpenStep
  <1>2. ASSUME NEW p \in Writers, Write(p) \/ Down(p) \/ DownInterrupted(p)
        PROVE  IInv'
    BY <1>2, WriteStep, DownStep, DownInterruptedStep
  <1>3. ASSUME NEW p \in Delayers, Delay(p)
        PROVE  IInv'
    BY <1>3, DelayStep
  <1>4. ASSUME NEW p \in Producers, WriteData(p)
        PROVE  IInv'
    BY <1>4, WaitForSpaceStep, SpaceInterruptedStep, FillStep, CopyInStep,
       LoadInStep, StoreInStep, WakeReaderStep, ReturnStep DEF WriteData
  <1>5. ASSUME NEW p \in Resetters, Reset(p) \/ ResetRest(p)
        PROVE  IInv'
    BY <1>5, ResetStep
  <1>6. CASE Unload
    BY <1>6, UnloadStep
  <1>7. CASE Reader
    BY <1>7, ShouldStopStep, WaitForDataStep, CopyOutStep, LoadOutStep,
       StoreOutStep, PlayStep DEF Reader
  <1>8. CASE UNCHANGED vars
    BY <1>8 DEF IInv, TypeOK, KfifoTypes, CallTypes, ReaderTypes, LockIsHeld,
       CallInv, vars, kfifo, procVars, readerVars
  <1>9. QED
    BY <1>1, <1>2, <1>3, <1>4, <1>5, <1>6, <1>7, <1>8 DEF Next

LEMMA Invariance == Spec => []IInv
  BY InitInv, NextInv, PTL DEF Spec

(* The driver keeps to its types, and lockWriter is held by exactly the    *)
(* writer that is inside writeData: a signal neither loses the semaphore   *)
(* nor gives it back twice.                                                *)
THEOREM TypeCorrect == Spec => []TypeOK
  <1>1. IInv => TypeOK
    BY DEF IInv
  <1>2. QED
    BY Invariance, <1>1, PTL

-----------------------------------------------------------------------------
(* Who may add to the queue.                                               *)

(* Where a process is that may add a byte before it looks for space again. *)
Adding == { "fill", "copy", "load", "store" }

(* Without preemption a thread that is not running is at one of the places *)
(* where it gave up the processor.                                         *)
Turn ==
  ~Preempt =>
    /\ \A p \in Process :
         cpu # p => pc[p] \in { "idle", "down", "wait", "asleep" }
    /\ cpu # "reader" => reader \in { "check", "wait", "asleep", "play", "ended" }

(* Either the semaphore or the one processor keeps producers apart.        *)
OneAdds ==
  \A p, q \in Producers : pc[p] \in Adding /\ pc[q] \in Adding => p = q

(* A step of process p.                                                    *)
LEMMA TurnOfProcess ==
  ASSUME Turn, NEW p \in Process,
         cpu \in { none, p }, cpu' \in { none, p },
         reader' = reader \/ reader' = "wait",
         \A q \in Process \ {p} : pc'[q] = pc[q],
         cpu' = none => pc'[p] \in { "idle", "down", "wait", "asleep" }
  PROVE  Turn'
  <1> SUFFICES ASSUME ~Preempt PROVE Turn'
    BY DEF Turn
  <1> USE DriverAssumption
  <1>1. \A q \in Process \ {p} : pc[q] \in { "idle", "down", "wait", "asleep" }
    BY DEF Turn
  <1>2. reader \in { "check", "wait", "asleep", "play", "ended" }
    BY DEF Turn
  <1>3. QED
    BY <1>1, <1>2 DEF Turn

(* A step of the thread.                                                   *)
LEMMA TurnOfReader ==
  ASSUME Turn, cpu \in { none, "reader" }, cpu' \in { none, "reader" },
         \A p \in Process : pc'[p] = pc[p] \/ pc'[p] = "wait",
         cpu' = none => reader' \in { "check", "wait", "asleep", "play", "ended" }
  PROVE  Turn'
  <1> SUFFICES ASSUME ~Preempt PROVE Turn'
    BY DEF Turn
  <1>1. \A p \in Process : pc[p] \in { "idle", "down", "wait", "asleep" }
    BY DriverAssumption DEF Turn
  <1>2. QED
    BY <1>1 DEF Turn

LEMMA TurnInit == Init => Turn
  BY DEF Init, Turn

LEMMA TurnNext == ASSUME IInv, Turn, [Next]_vars PROVE Turn'
  <1> SUFFICES ASSUME ~Preempt PROVE Turn'
    BY DEF Turn
  <1> USE Roles DEF Runs, Goes, Pauses
  <1>1. pc \in [ Process -> { "idle", "down", "resetIn", "resetOut" }
                             \cup InWriteData ]
    BY DEF IInv, TypeOK, CallTypes
  <1>2. ASSUME NEW p \in Process, Open(p) \/ Close(p)
        PROVE  Turn'
    BY <1>2, <1>1, TurnOfProcess DEF Open, Close, procVars, readerVars
  <1>3. ASSUME NEW p \in Writers, Write(p) \/ Down(p) \/ DownInterrupted(p)
        PROVE  Turn'
    BY <1>3, <1>1, TurnOfProcess DEF Write, Down, DownInterrupted, readerVars
  <1>4. ASSUME NEW p \in Delayers, Delay(p)
        PROVE  Turn'
    BY <1>4, <1>1, TurnOfProcess, DriverAssumption DEF Delay, readerVars
  <1>5. ASSUME NEW p \in Producers, WriteData(p)
        PROVE  Turn'
    BY <1>5, <1>1, TurnOfProcess, DriverAssumption
       DEF WriteData, WaitForSpace, SpaceInterrupted, Fill, CopyIn, LoadIn,
           StoreIn, WakeReader, Return, readerVars
  <1>6. ASSUME NEW p \in Resetters, Reset(p) \/ ResetRest(p)
        PROVE  Turn'
    BY <1>6, <1>1, TurnOfProcess, DriverAssumption DEF Reset, ResetRest, readerVars
  <1>7. CASE Unload
    BY <1>7 DEF Unload, Turn, procVars
  <1>8. CASE Reader
    <2>1. CASE ShouldStop \/ WaitForData \/ CopyOut \/ LoadOut \/ StoreOut
      BY <2>1, TurnOfReader, DriverAssumption
         DEF ShouldStop, WaitForData, CopyOut, LoadOut, StoreOut, procVars
    <2>2. CASE Play
      BY <2>2, TurnOfReader, DriverAssumption DEF Play
    <2>3. QED
      BY <1>8, <2>1, <2>2 DEF Reader
  <1>9. CASE UNCHANGED vars
    BY <1>9 DEF Turn, vars, procVars, readerVars
  <1>10. QED
    BY <1>2, <1>3, <1>4, <1>5, <1>6, <1>7, <1>8, <1>9 DEF Next

LEMMA Turns == Spec => []Turn
  BY Invariance, TurnInit, TurnNext, PTL DEF Spec

LEMMA OneAddsLemma ==
  ASSUME IInv, Turn, Delayers = {} \/ ~Preempt
  PROVE  OneAdds
  <1>1. CASE Delayers = {}
    BY <1>1, Roles DEF OneAdds, IInv, TypeOK, LockIsHeld, Adding, InWriteData, Producers
  <1>2. CASE ~Preempt
    BY <1>2, Roles DEF OneAdds, Turn, Adding
  <1>3. QED
    BY <1>1, <1>2

(* Nobody runs but the one whose turn it is.                               *)
LEMMA ProcessAlone ==
  ASSUME Turn, ~Preempt, NEW p \in Process, cpu \in { none, p }
  PROVE  /\ \A q \in Process \ {p} : pc[q] \in { "idle", "down", "wait", "asleep" }
         /\ reader \in { "check", "wait", "asleep", "play", "ended" }
  BY DriverAssumption DEF Turn

LEMMA ReaderAlone ==
  ASSUME Turn, ~Preempt, cpu \in { none, "reader" }
  PROVE  \A q \in Process : pc[q] \in { "idle", "down", "wait", "asleep" }
  BY DriverAssumption DEF Turn

(* The first store of a RESET.                                             *)
HalfReset ==
  ~Preempt =>
    \A p \in Process : /\ pc[p] = "resetOut" => in = 0
                       /\ pc[p] = "resetIn" => out = 0

LEMMA HalfResetNext ==
  ASSUME IInv, Turn, HalfReset, [Next]_vars
  PROVE  HalfReset'
  <1> SUFFICES ASSUME ~Preempt PROVE HalfReset'
    BY DEF HalfReset
  <1> USE Roles DEF Runs, Goes, Pauses
  <1>1. pc \in [ Process -> { "idle", "down", "resetIn", "resetOut" }
                             \cup InWriteData ]
    BY DEF IInv, TypeOK, CallTypes
  <1>2. ASSUME in' = in, out' = out,
               \A q \in Process : pc'[q] \in { "resetIn", "resetOut" } => pc'[q] = pc[q]
        PROVE  HalfReset'
    BY <1>2 DEF HalfReset
  <1>3. ASSUME NEW p \in Process, Open(p) \/ Close(p)
        PROVE  HalfReset'
    BY <1>3, <1>2 DEF Open, Close, procVars, kfifo
  <1>4. ASSUME NEW p \in Writers, Write(p) \/ Down(p) \/ DownInterrupted(p)
        PROVE  HalfReset'
    BY <1>4, <1>1, <1>2 DEF Write, Down, DownInterrupted, kfifo
  <1>5. ASSUME NEW p \in Delayers, Delay(p)
        PROVE  HalfReset'
    BY <1>5, <1>1, <1>2 DEF Delay, kfifo
  <1>6. ASSUME NEW p \in Producers, WriteData(p)
        PROVE  HalfReset'
    <2>1. CASE StoreIn(p)
      <3>1. \A q \in Process \ {p} : pc[q] \in { "idle", "down", "wait", "asleep" }
        BY <2>1, ProcessAlone DEF StoreIn
      <3>2. \A q \in Process : pc'[q] \notin { "resetIn", "resetOut" }
        BY <1>1, <2>1, <3>1 DEF StoreIn
      <3>3. QED
        BY <3>2 DEF HalfReset
    <2>2. CASE ~StoreIn(p)
      <3>1. in' = in /\ out' = out
        BY <1>6, <2>2 DEF WriteData, WaitForSpace, SpaceInterrupted, Fill, CopyIn,
           LoadIn, WakeReader, Return, kfifo
      <3>2. \A q \in Process : pc'[q] \in { "resetIn", "resetOut" } => pc'[q] = pc[q]
        BY <1>1, <1>6, <2>2 DEF WriteData, WaitForSpace, SpaceInterrupted, Fill, CopyIn,
           LoadIn, WakeReader, Return
      <3>3. QED
        BY <1>2, <3>1, <3>2
    <2>3. QED
      BY <2>1, <2>2
  <1>7. ASSUME NEW p \in Resetters, Reset(p) \/ ResetRest(p)
        PROVE  HalfReset'
    <2>1. \A q \in Process \ {p} : pc[q] \in { "idle", "down", "wait", "asleep" }
      BY <1>7, ProcessAlone DEF Reset, ResetRest
    <2>2. \A q \in Process \ {p} : pc'[q] = pc[q]
      BY <1>1, <1>7 DEF Reset, ResetRest
    <2>3. /\ pc'[p] = "resetOut" => in' = 0
          /\ pc'[p] = "resetIn" => out' = 0
      BY <1>1, <1>7 DEF Reset, ResetRest
    <2>4. QED
      BY <2>1, <2>2, <2>3 DEF HalfReset
  <1>8. CASE Unload
    BY <1>8, <1>2 DEF Unload, procVars, kfifo
  <1>9. CASE StoreOut
    <2>1. \A q \in Process : pc[q] \in { "idle", "down", "wait", "asleep" }
      BY <1>9, ReaderAlone DEF StoreOut
    <2>2. QED
      BY <1>9, <2>1 DEF StoreOut, HalfReset, procVars
  <1>10. CASE ShouldStop \/ WaitForData \/ CopyOut \/ LoadOut
    BY <1>10, <1>2 DEF ShouldStop, WaitForData, CopyOut, LoadOut, procVars, kfifo
  <1>11. CASE Play
    <2>1. \A q \in Process : pc'[q] \in { "resetIn", "resetOut" } => pc'[q] = pc[q]
      BY <1>11 DEF Play
    <2>2. QED
      BY <1>2, <1>11, <2>1 DEF Play, kfifo
  <1>12. CASE UNCHANGED vars
    BY <1>12, <1>2 DEF vars, procVars, kfifo
  <1>13. QED
    BY <1>3, <1>4, <1>5, <1>6, <1>7, <1>8, <1>9, <1>10, <1>11, <1>12 DEF Next, Reader

LEMMA HalfResets == Spec => []HalfReset
  <1>1. Init => HalfReset
    BY DEF Init, HalfReset
  <1>2. QED
    BY Invariance, Turns, <1>1, HalfResetNext, PTL DEF Spec

-----------------------------------------------------------------------------
(* The queue, byte by byte.  Its indices run freely and wrap at Modulus.   *)

(* The j-th byte from the front.                                           *)
At(j) == data[Slot(out + j)]

LEMMA Division ==
  ASSUME NEW n \in Nat \ {0}, NEW x \in Int
  PROVE  /\ x = n * (x \div n) + (x % n)
         /\ x \div n \in Int /\ x % n \in 0 .. n - 1
  OBVIOUS

LEMMA Remainder ==
  ASSUME NEW n \in Nat \ {0}, NEW q \in Int, NEW r \in 0 .. n - 1
  PROVE  (n * q + r) % n = r
  OBVIOUS

(* Within one turn either way, the remainder is one addition.              *)
LEMMA OneTurn ==
  ASSUME NEW n \in Nat \ {0}, NEW x \in Int, -n <= x, x < 2 * n
  PROVE  x % n = IF x < 0 THEN x + n ELSE IF x < n THEN x ELSE x - n
  <1>1. CASE x < 0
    <2>1. x + n \in 0 .. n - 1 /\ n * (-1) + (x + n) = x
      BY <1>1
    <2>2. QED
      BY <1>1, <2>1, Remainder
  <1>2. CASE x >= 0 /\ x < n
    <2>1. x \in 0 .. n - 1 /\ n * 0 + x = x
      BY <1>2
    <2>2. QED
      BY <1>2, <2>1, Remainder
  <1>3. CASE x >= n
    <2>1. x - n \in 0 .. n - 1 /\ n * 1 + (x - n) = x
      BY <1>3
    <2>2. QED
      BY <1>3, <2>1, Remainder
  <1>4. QED
    BY <1>1, <1>2, <1>3

(* Wrapping an index at the modulus does not change its slot.              *)
LEMMA SlotWraps ==
  ASSUME NEW x \in Int, NEW y \in Int
  PROVE  Slot((x % Modulus) + y) = Slot(x + y)
  <1> DEFINE k == Modulus \div Size
             q == x \div Modulus
             d == (x + y) \div Size
             r == (x + y) % Size
  <1>1. Modulus = Size * k /\ k \in Int
    BY Sizes, DriverAssumption, Division
  <1>2. x = Modulus * q + (x % Modulus) /\ q \in Int
    BY Sizes, Division
  <1>3. x + y = Size * d + r /\ d \in Int /\ r \in 0 .. Size - 1
    <2>1. x + y \in Int
      OBVIOUS
    <2>2. QED
      BY <2>1, Sizes, Division
  <1> HIDE DEF k, q, d, r
  <1>4. x % Modulus \in Int /\ Size \in Int /\ r \in Int
    BY Sizes, <1>3
  <1>5. Modulus * q = Size * (k * q) /\ k * q \in Int
    <2>1. Size * k * q = Size * (k * q)
      BY <1>1, <1>2, <1>4
    <2>2. QED
      BY <1>1, <1>2, <2>1
  <1>6. Size * (d - k * q) = Size * d - Size * (k * q)
    BY <1>3, <1>4, <1>5
  <1>7. (x % Modulus) + y = Size * (d - k * q) + r
    <2> DEFINE u == k * q
               v == Size * u
               w == Size * d
               z == Size * (d - u)
    <2>1. x = v + (x % Modulus) /\ x + y = w + r /\ z = w - v
      BY <1>2, <1>3, <1>5, <1>6
    <2>2. v \in Int /\ w \in Int /\ z \in Int
      BY <1>3, <1>4, <1>5
    <2> HIDE DEF u, v, w, z
    <2>3. (x % Modulus) + y = z + r
      BY <1>4, <2>1, <2>2
    <2>4. QED
      BY <2>3 DEF z, u
  <1>8. Slot((x % Modulus) + y) = r
    <2> DEFINE e == d - k * q
    <2>1. e \in Int /\ (x % Modulus) + y = Size * e + r
      BY <1>3, <1>5, <1>7
    <2> HIDE DEF e
    <2>2. (Size * e + r) % Size = r
      BY <1>3, <2>1, Sizes, Remainder
    <2>3. QED
      BY <2>1, <2>2 DEF Slot
  <1>9. QED
    BY <1>8 DEF Slot, r

(* Two bytes of a queue that is not too long have different slots.         *)
LEMMA SlotsDiffer ==
  ASSUME NEW a \in Int, NEW j \in 0 .. Size - 1, NEW k \in 0 .. Size - 1,
         Slot(a + j) = Slot(a + k)
  PROVE  j = k
  <1> DEFINE p == (a + j) \div Size
             q == (a + k) \div Size
             r == (a + k) % Size
  <1>1. a + j = Size * p + r /\ a + k = Size * q + r
        /\ p \in Int /\ q \in Int /\ r \in Int
    <2>1. a + j \in Int /\ a + k \in Int
      OBVIOUS
    <2>2. /\ a + j = Size * p + ((a + j) % Size) /\ p \in Int
          /\ a + k = Size * q + r /\ q \in Int /\ r \in Int
      BY <2>1, Sizes, Division
    <2>3. (a + j) % Size = r
      BY DEF Slot
    <2>4. QED
      BY <2>2, <2>3
  <1> HIDE DEF p, q, r
  <1>2. j - k = Size * (p - q)
    <2>1. Size * (p - q) = Size * p - Size * q
      BY <1>1, Sizes
    <2>2. Size * p \in Int /\ Size * q \in Int
      BY <1>1, Sizes
    <2>3. QED
      BY <1>1, <2>1, <2>2
  <1>3. -Size < j - k /\ j - k < Size
    BY Sizes
  <1>4. p - q = 0
    <2>1. ASSUME NEW t \in Int, t >= 1 PROVE Size * t >= Size /\ Size * (-t) <= -Size
      <3>1. t - 1 \in Nat /\ Size \in Nat
        BY <2>1, Sizes
      <3>2. \A m, n \in Nat : m * n \in Nat
        OBVIOUS
      <3>3. Size * (t - 1) \in Nat
        BY <3>1, <3>2
      <3>4. Size * t = Size * (t - 1) + Size /\ Size * (-t) = -(Size * t)
        BY <3>1
      <3>5. QED
        BY <3>1, <3>3, <3>4
    <2>2. CASE p - q >= 1
      BY <1>1, <1>2, <1>3, <2>1, <2>2, Sizes
    <2>3. CASE q - p >= 1
      <3>1. p - q = -(q - p)
        BY <1>1
      <3>2. QED
        BY <1>1, <1>2, <1>3, <2>1, <2>3, <3>1, Sizes
    <2>4. QED
      BY <1>1, <2>2, <2>3
  <1>5. QED
    BY <1>2, <1>4, Sizes

(* The length of the queue and its two ends.                               *)
LEMMA LenIs ==
  ASSUME KfifoTypes
  PROVE  /\ KfifoLen \in 0 .. Modulus - 1
         /\ KfifoLen = IF in < out THEN in - out + Modulus ELSE in - out
         /\ in = (out + KfifoLen) % Modulus
         /\ Slot(in) = Slot(out + KfifoLen)
  <1>1. in \in 0 .. Modulus - 1 /\ out \in 0 .. Modulus - 1 /\ Modulus \in Nat \ {0}
    BY Sizes DEF KfifoTypes
  <1>2. KfifoLen = IF in < out THEN in - out + Modulus ELSE in - out
    <2>1. in - out \in Int /\ -Modulus <= in - out /\ in - out < Modulus
          /\ in - out < 2 * Modulus
      BY <1>1
    <2>2. (in - out) % Modulus = IF in - out < 0 THEN in - out + Modulus ELSE in - out
      BY <1>1, <2>1, OneTurn
    <2>3. in - out < 0 <=> in < out
      BY <1>1
    <2>4. QED
      BY <2>2, <2>3 DEF KfifoLen
  <1>3. in = (out + KfifoLen) % Modulus
    <2>1. out + KfifoLen = IF in < out THEN in + Modulus ELSE in
      BY <1>1, <1>2
    <2>2. QED
      BY <1>1, <2>1, OneTurn
  <1>4. Slot(in) = Slot(out + KfifoLen)
    <2>1. out + KfifoLen \in Int /\ in + 0 = in
      BY <1>1, <1>2
    <2>2. Slot(in + 0) = Slot((out + KfifoLen) + 0)
      BY <1>3, <2>1, SlotWraps
    <2>3. QED
      BY <2>1, <2>2
  <1>5. QED
    BY <1>1, <1>2, <1>3, <1>4

(* A byte copied to the slot of "in" disturbs none that is queued.         *)
LEMMA CopyLemma ==
  ASSUME KfifoTypes, KfifoLen < Size, NEW b,
         data' = [ data EXCEPT ![Slot(in)] = b ], in' = in, out' = out
  PROVE  /\ KfifoLen' = KfifoLen /\ data'[Slot(in)] = b
         /\ \A j \in 0 .. KfifoLen - 1 : At(j)' = At(j)
  <1>1. KfifoLen' = KfifoLen
    BY DEF KfifoLen
  <1>2. in \in Int /\ out \in Int
    BY Sizes DEF KfifoTypes
  <1>3. DOMAIN data = 0 .. Size - 1 /\ Slot(in) \in 0 .. Size - 1
    BY <1>2, Sizes DEF KfifoTypes
  <1>4. data'[Slot(in)] = b
    BY <1>3
  <1>5. ASSUME NEW j \in 0 .. KfifoLen - 1 PROVE At(j)' = At(j)
    <2>1. j \in 0 .. Size - 1 /\ KfifoLen \in 0 .. Size - 1 /\ j # KfifoLen
      <3>1. KfifoLen \in Nat /\ Size \in Nat
        BY LenIs, Sizes
      <3>2. QED
        BY <3>1
    <2>2. Slot(out + j) # Slot(in)
      BY <1>2, <2>1, LenIs, SlotsDiffer
    <2>3. At(j)' = data'[Slot(out + j)]
      BY DEF At, Slot
    <2>4. QED
      BY <2>2, <2>3 DEF At, KfifoTypes
  <1>6. QED
    BY <1>1, <1>4, <1>5

(* Moving "in" on appends what is in its slot.                             *)
LEMMA PushLemma ==
  ASSUME KfifoTypes, KfifoLen < Size,
         in' = (in + 1) % Modulus, out' = out, data' = data
  PROVE  /\ KfifoLen' = KfifoLen + 1
         /\ \A j \in 0 .. KfifoLen : At(j)' = At(j)
         /\ At(KfifoLen) = data[Slot(in)]
  <1>1. in \in 0 .. Modulus - 1 /\ out \in 0 .. Modulus - 1 /\ Modulus \in Nat \ {0}
        /\ Size < Modulus /\ Size \in Nat
    BY Sizes, DriverAssumption DEF KfifoTypes
  <1>2. KfifoLen = IF in < out THEN in - out + Modulus ELSE in - out
    BY LenIs
  <1>3. in' = IF in + 1 < Modulus THEN in + 1 ELSE in + 1 - Modulus
    <2> DEFINE x == in + 1
    <2>1. x \in Int /\ -Modulus <= x /\ x < 2 * Modulus /\ ~(x < 0)
      BY <1>1
    <2>2. in' = x % Modulus
      OBVIOUS
    <2> HIDE DEF x
    <2>3. in' = IF x < Modulus THEN x ELSE x - Modulus
      BY <1>1, <2>1, <2>2, OneTurn
    <2>4. QED
      BY <1>1, <2>1, <2>3 DEF x
  <1>4. KfifoLen' = IF in' < out THEN in' - out + Modulus ELSE in' - out
    <2>1. in' - out \in Int /\ -Modulus <= in' - out /\ in' - out < 2 * Modulus
          /\ in' - out < Modulus
      BY <1>1, <1>3
    <2>2. (in' - out) % Modulus = IF in' - out < 0 THEN in' - out + Modulus ELSE in' - out
      BY <1>1, <2>1, OneTurn
    <2>3. in' - out < 0 <=> in' < out
      BY <1>1, <1>3
    <2>4. QED
      BY <2>2, <2>3 DEF KfifoLen
  <1>5. KfifoLen' = KfifoLen + 1
    BY <1>1, <1>2, <1>3, <1>4
  <1>6. \A j : At(j)' = At(j)
    BY DEF At, Slot
  <1>7. QED
    BY <1>5, <1>6, LenIs DEF At

(* Moving "out" on drops the first n.                                      *)
LEMMA PopLemma ==
  ASSUME KfifoTypes, NEW n \in 0 .. 4, n <= KfifoLen,
         out' = (out + n) % Modulus, in' = in, data' = data
  PROVE  /\ KfifoLen' = KfifoLen - n
         /\ \A j \in Int : At(j)' = At(n + j)
  <1>1. in \in 0 .. Modulus - 1 /\ out \in 0 .. Modulus - 1 /\ Modulus \in Nat \ {0}
    BY Sizes DEF KfifoTypes
  <1>2. KfifoLen = IF in < out THEN in - out + Modulus ELSE in - out
    BY LenIs
  <1>3. n < Modulus
    BY <1>1, <1>2
  <1>4. out' = IF out + n < Modulus THEN out + n ELSE out + n - Modulus
    <2> DEFINE x == out + n
    <2>1. x \in Int /\ -Modulus <= x /\ x < 2 * Modulus /\ ~(x < 0)
      BY <1>1, <1>3
    <2>2. out' = x % Modulus
      OBVIOUS
    <2> HIDE DEF x
    <2>3. out' = IF x < Modulus THEN x ELSE x - Modulus
      BY <1>1, <2>1, <2>2, OneTurn
    <2>4. QED
      BY <1>1, <2>1, <2>3 DEF x
  <1>5. KfifoLen' = IF in < out' THEN in - out' + Modulus ELSE in - out'
    <2>1. in - out' \in Int /\ -Modulus <= in - out' /\ in - out' < 2 * Modulus
          /\ in - out' < Modulus
      BY <1>1, <1>3, <1>4
    <2>2. (in - out') % Modulus = IF in - out' < 0 THEN in - out' + Modulus ELSE in - out'
      BY <1>1, <2>1, OneTurn
    <2>3. in - out' < 0 <=> in < out'
      BY <1>1, <1>3, <1>4
    <2>4. QED
      BY <2>2, <2>3 DEF KfifoLen
  <1>6. KfifoLen' = KfifoLen - n
    BY <1>1, <1>2, <1>3, <1>4, <1>5
  <1>7. ASSUME NEW j \in Int PROVE At(j)' = At(n + j)
    <2>1. Slot(((out + n) % Modulus) + j) = Slot((out + n) + j)
      <3>1. out + n \in Int
        BY <1>1
      <3>2. QED
        BY <3>1, SlotWraps
    <2>2. (out + n) + j = out + (n + j)
      BY <1>1
    <2>3. At(j)' = data'[Slot(out' + j)]
      BY DEF At, Slot
    <2>4. QED
      BY <2>1, <2>2, <2>3 DEF At
  <1>8. QED
    BY <1>6, <1>7

(* The byte a producer is adding has its place, ...                        *)
AddInv ==
  /\ KfifoLen <= Size
  /\ \A p \in Producers :
       /\ pc[p] \in { "copy", "load", "store" } => KfifoLen < Size
       /\ pc[p] \in { "load", "store" } => data[Slot(in)] = << p, sent[p] >>
       /\ pc[p] = "store" => sawIn[p] = in

(* ... and those the reader has copied are still the first in the queue.   *)
TakeInv ==
  /\ reader \in { "load", "store" } =>
       got <= KfifoLen /\ \A k \in 1 .. got : acBuffer[k] = At(k - 1)
  /\ reader = "store" => sawOut = out

(* The bytes in the queue are the producers' streams, in their order.      *)
HoldInv ==
  /\ \A j \in 0 .. KfifoLen - 1 :
       /\ At(j) \in Byte
       /\ At(j)[2] \in taken[At(j)[1]] .. sent[At(j)[1]] - 1
  /\ \A p \in Producers :
       /\ taken[p] <= sent[p]
       /\ \A n \in taken[p] .. sent[p] - 1 :
            \E j \in 0 .. KfifoLen - 1 : At(j) = << p, n >>
  /\ \A j, k \in 0 .. KfifoLen - 1 :
       j < k /\ At(j)[1] = At(k)[1] => At(j)[2] < At(k)[2]

PlaceInv  == AddInv /\ TakeInv
StreamInv == PlaceInv /\ HoldInv

LEMMA KfifoSame ==
  ASSUME UNCHANGED kfifo
  PROVE  KfifoLen' = KfifoLen /\ \A j : At(j)' = At(j)
  BY DEF kfifo, KfifoLen, At, Slot

LEMMA HoldSame ==
  ASSUME HoldInv, KfifoLen' = KfifoLen, sent' = sent, taken' = taken,
         \A j \in 0 .. KfifoLen - 1 : At(j)' = At(j)
  PROVE  HoldInv'
  BY DEF HoldInv

LEMMA TakeSame ==
  ASSUME TakeInv, KfifoTypes, ReaderTypes, out' = out, KfifoLen' \in Nat, KfifoLen' >= KfifoLen,
         \A j \in 0 .. KfifoLen - 1 : At(j)' = At(j),
         got' = got, acBuffer' = acBuffer, sawOut' = sawOut,
         reader' \in { "load", "store" } => reader' = reader
  PROVE  TakeInv'
  <1>1. KfifoLen \in Nat /\ got \in Nat
    BY LenIs DEF ReaderTypes
  <1>2. CASE reader \in { "load", "store" }
    <2>1. got <= KfifoLen /\ \A k \in 1 .. got : acBuffer[k] = At(k - 1)
      BY <1>2 DEF TakeInv
    <2>2. got <= KfifoLen'
      BY <1>1, <2>1
    <2>3. \A k \in 1 .. got : acBuffer[k] = At(k - 1)'
      BY <1>1, <2>1
    <2>4. QED
      BY <2>2, <2>3 DEF TakeInv
  <1>3. CASE reader \notin { "load", "store" }
    BY <1>3 DEF TakeInv
  <1>4. QED
    BY <1>2, <1>3

(* Most steps leave the bytes and the reader's copy alone.                 *)
LEMMA PlaceQuiet ==
  ASSUME PlaceInv, IInv, UNCHANGED << kfifo, acBuffer, got, sawOut >>,
         \A p \in Producers :
           pc'[p] \in { "copy", "load", "store" } =>
             pc'[p] = pc[p] /\ sent'[p] = sent[p] /\ sawIn'[p] = sawIn[p],
         reader' \in { "load", "store" } => reader' = reader
  PROVE  PlaceInv'
  <1>1. KfifoLen' = KfifoLen /\ \A j : At(j)' = At(j)
    BY KfifoSame
  <1>2. AddInv'
    BY <1>1 DEF PlaceInv, AddInv, kfifo, Slot
  <1>3. TakeInv'
    BY <1>1, TakeSame, LenIs DEF PlaceInv, IInv, TypeOK, kfifo
  <1>4. QED
    BY <1>2, <1>3 DEF PlaceInv

LEMMA StreamInit == Init => StreamInv
  <1> SUFFICES ASSUME Init PROVE StreamInv
    OBVIOUS
  <1>1. KfifoLen = 0
    BY Sizes, LenIs, InitInv DEF Init, IInv, TypeOK
  <1>2. AddInv
    BY <1>1, Sizes, Roles DEF Init, AddInv
  <1>3. TakeInv
    BY DEF Init, TakeInv
  <1>4. HoldInv
    BY <1>1 DEF Init, HoldInv
  <1>5. QED
    BY <1>2, <1>3, <1>4 DEF StreamInv, PlaceInv

(* A producer that adds is alone in it.                                    *)
LEMMA AddAlone ==
  ASSUME OneAdds, CallTypes, NEW p \in Producers, pc[p] \in Adding, NEW l,
         pc' = [ pc EXCEPT ![p] = l ]
  PROVE  \A q \in Producers \ {p} : pc'[q] \notin { "copy", "load", "store" }
  BY Roles DEF OneAdds, Adding, CallTypes

LEMMA PlaceFill ==
  ASSUME IInv, OneAdds, PlaceInv, NEW p \in Producers, Fill(p) \/ LoadIn(p)
  PROVE  PlaceInv'
  <1>1. KfifoLen' = KfifoLen /\ \A j : At(j)' = At(j)
    BY KfifoSame DEF Fill, LoadIn
  <1>2. AddInv'
    <2>1. ASSUME NEW q \in Producers \ {p}
          PROVE  pc'[q] \notin { "copy", "load", "store" }
      BY AddAlone DEF IInv, TypeOK, Fill, LoadIn, Adding
    <2>2. KfifoLen' <= Size
      BY <1>1 DEF PlaceInv, AddInv
    <2>3. CASE Fill(p)
      <3>1. pc'[p] = "copy" => KfifoLen < Size
        BY <2>3, LenIs, Sizes, Roles DEF Fill, KfifoIsFull, IInv, TypeOK, CallTypes
      <3>2. pc'[p] \notin { "load", "store" }
        BY <2>3, Roles DEF Fill, IInv, TypeOK, CallTypes
      <3>3. QED
        BY <1>1, <2>1, <2>2, <3>1, <3>2 DEF AddInv
    <2>4. CASE LoadIn(p)
      <3>1. pc'[p] = "store" /\ sawIn'[p] = in /\ pc[p] = "load"
            /\ in' = in /\ data' = data /\ sent' = sent
        BY <2>4, Roles DEF LoadIn, IInv, TypeOK, CallTypes, kfifo
      <3>2. KfifoLen < Size /\ data[Slot(in)] = << p, sent[p] >>
        BY <3>1 DEF PlaceInv, AddInv
      <3>3. QED
        BY <1>1, <2>1, <2>2, <3>1, <3>2 DEF AddInv, Slot
    <2>5. QED
      BY <2>3, <2>4
  <1>3. TakeInv'
    BY <1>1, TakeSame, LenIs DEF PlaceInv, IInv, TypeOK, kfifo, Fill, LoadIn, readerVars
  <1>4. QED
    BY <1>2, <1>3 DEF PlaceInv

LEMMA PlaceCopyIn ==
  ASSUME IInv, OneAdds, PlaceInv, NEW p \in Producers, CopyIn(p)
  PROVE  /\ PlaceInv' /\ KfifoLen' = KfifoLen
         /\ \A j \in 0 .. KfifoLen - 1 : At(j)' = At(j)
         /\ UNCHANGED << i, sent, readerVars >>
  <1>1. KfifoTypes /\ CallTypes /\ ReaderTypes
    BY DEF IInv, TypeOK
  <1>2. pc[p] = "copy" /\ KfifoLen < Size /\ ~KfifoIsFull
    BY <1>1, LenIs, Sizes DEF CopyIn, PlaceInv, AddInv, KfifoIsFull
  <1>3. /\ data' = [ data EXCEPT ![Slot(in)] = << p, sent[p] >>]
        /\ pc' = [ pc EXCEPT ![p] = "load" ]
        /\ in' = in /\ out' = out /\ sent' = sent /\ sawIn' = sawIn /\ i' = i
        /\ UNCHANGED readerVars
    BY <1>2 DEF CopyIn
  <1>4. /\ KfifoLen' = KfifoLen /\ data'[Slot(in)] = << p, sent[p] >>
        /\ \A j \in 0 .. KfifoLen - 1 : At(j)' = At(j)
    BY <1>1, <1>2, <1>3, CopyLemma
  <1>5. AddInv'
    <2>1. ASSUME NEW q \in Producers \ {p}
          PROVE  pc'[q] \notin { "copy", "load", "store" }
      BY <1>1, <1>2, <1>3, AddAlone DEF Adding
    <2>2. pc'[p] = "load"
      BY <1>1, <1>3, Roles DEF CallTypes
    <2>3. KfifoLen' < Size /\ KfifoLen' <= Size
      BY <1>1, <1>2, <1>4, LenIs, Sizes
    <2>4. data'[Slot(in)'] = << p, sent'[p] >>
      BY <1>3, <1>4 DEF Slot
    <2>5. QED
      BY <2>1, <2>2, <2>3, <2>4 DEF AddInv
  <1>6. TakeInv'
    BY <1>1, <1>3, <1>4, TakeSame, LenIs DEF PlaceInv, readerVars
  <1>7. QED
    BY <1>3, <1>4, <1>5, <1>6 DEF PlaceInv

LEMMA PlaceStoreIn ==
  ASSUME IInv, OneAdds, PlaceInv, NEW p \in Producers, StoreIn(p)
  PROVE  /\ PlaceInv' /\ KfifoLen' = KfifoLen + 1
         /\ At(KfifoLen) = << p, sent[p] >>
         /\ \A j \in 0 .. KfifoLen : At(j)' = At(j)
         /\ sent' = [ sent EXCEPT ![p] = sent[p] + 1 ]
         /\ UNCHANGED readerVars
  <1>1. KfifoTypes /\ CallTypes /\ ReaderTypes
    BY DEF IInv, TypeOK
  <1>2. /\ pc[p] = "store" /\ KfifoLen < Size /\ sawIn[p] = in
        /\ data[Slot(in)] = << p, sent[p] >>
    BY DEF StoreIn, PlaceInv, AddInv
  <1>3. /\ in' = (in + 1) % Modulus /\ out' = out /\ data' = data
        /\ sent' = [ sent EXCEPT ![p] = sent[p] + 1 ]
        /\ pc' = [ pc EXCEPT ![p] = "fill" ]
        /\ UNCHANGED readerVars
    BY <1>2 DEF StoreIn
  <1>4. /\ KfifoLen' = KfifoLen + 1 /\ At(KfifoLen) = << p, sent[p] >>
        /\ \A j \in 0 .. KfifoLen : At(j)' = At(j)
    BY <1>1, <1>2, <1>3, PushLemma
  <1>5. KfifoLen \in Nat /\ sent[p] \in Nat /\ Size \in Nat
    BY <1>1, LenIs, Sizes DEF CallTypes
  <1>6. AddInv'
    <2>1. ASSUME NEW q \in Producers \ {p}
          PROVE  pc'[q] \notin { "copy", "load", "store" }
      BY <1>1, <1>2, <1>3, AddAlone DEF Adding
    <2>2. pc'[p] = "fill"
      BY <1>1, <1>3, Roles DEF CallTypes
    <2>3. KfifoLen' <= Size
      BY <1>2, <1>4, <1>5
    <2>4. QED
      BY <2>1, <2>2, <2>3 DEF AddInv
  <1>7. TakeInv'
    <2>1. KfifoLen' \in Nat /\ KfifoLen' >= KfifoLen
      BY <1>4, <1>5
    <2>2. \A j \in 0 .. KfifoLen - 1 : At(j)' = At(j)
      BY <1>4, <1>5
    <2>3. QED
      BY <1>1, <1>3, <2>1, <2>2, TakeSame DEF PlaceInv, readerVars
  <1>8. QED
    BY <1>3, <1>4, <1>6, <1>7 DEF PlaceInv

LEMMA PlaceCopyOut ==
  ASSUME IInv, PlaceInv, CopyOut \/ LoadOut
  PROVE  PlaceInv'
  <1>1. KfifoTypes /\ CallTypes /\ ReaderTypes
    BY DEF IInv, TypeOK
  <1>2. UNCHANGED << kfifo, procVars, taken >>
    BY DEF CopyOut, LoadOut
  <1>3. KfifoLen' = KfifoLen /\ \A j : At(j)' = At(j)
    BY <1>2, KfifoSame
  <1>4. AddInv'
    BY <1>2, <1>3 DEF PlaceInv, AddInv, kfifo, procVars, Slot
  <1>5. TakeInv'
    <2>1. CASE CopyOut
      <3> DEFINE n == IF KfifoLen < 4 THEN KfifoLen ELSE 4
      <3>1. /\ got' = n /\ reader' = "load"
            /\ acBuffer' = [ k \in 1 .. 4 |->
                               IF k <= n THEN data[Slot(out + k - 1)] ELSE Junk ]
        BY <2>1 DEF CopyOut
      <3>2. n \in 0 .. 4 /\ n <= KfifoLen
        BY <1>1, LenIs
      <3> HIDE DEF n
      <3>3. ASSUME NEW k \in 1 .. n PROVE acBuffer'[k] = At(k - 1)
        <4>1. k \in 1 .. 4 /\ k <= n /\ out + k - 1 = out + (k - 1)
          BY <1>1, <3>2 DEF KfifoTypes
        <4>2. QED
          BY <3>1, <4>1 DEF At
      <3>4. QED
        BY <1>3, <3>1, <3>2, <3>3 DEF TakeInv
    <2>2. CASE LoadOut
      BY <1>3, <2>2 DEF LoadOut, PlaceInv, TakeInv, kfifo
    <2>3. QED
      BY <2>1, <2>2
  <1>6. QED
    BY <1>4, <1>5 DEF PlaceInv

LEMMA PlaceStoreOut ==
  ASSUME IInv, PlaceInv, StoreOut
  PROVE  /\ PlaceInv' /\ KfifoLen' = KfifoLen - got
         /\ got \in 0 .. 4 /\ got <= KfifoLen
         /\ \A j \in Int : At(j)' = At(got + j)
  <1> DEFINE L == KfifoLen
             A(j) == At(j)
  <1>1. KfifoTypes /\ CallTypes /\ ReaderTypes
    BY DEF IInv, TypeOK
  <1>2. /\ reader = "store" /\ reader' = "play" /\ sawOut = out
        /\ out' = (out + got) % Modulus /\ in' = in /\ data' = data
        /\ UNCHANGED procVars
    BY DEF StoreOut, PlaceInv, TakeInv
  <1>3. got \in 0 .. 4 /\ got <= L /\ L \in Nat /\ Size \in Nat
    BY <1>1, <1>2, LenIs, Sizes DEF PlaceInv, TakeInv, ReaderTypes
  <1>4. KfifoLen' = L - got /\ \A j \in Int : At(j)' = A(got + j)
    BY <1>1, <1>2, <1>3, PopLemma
  <1>5. AddInv'
    <2>1. KfifoLen <= Size
          /\ \A p \in Producers :
               /\ pc[p] \in { "copy", "load", "store" } => KfifoLen < Size
               /\ pc[p] \in { "load", "store" } => data[Slot(in)] = << p, sent[p] >>
               /\ pc[p] = "store" => sawIn[p] = in
      BY DEF PlaceInv, AddInv
    <2>2. KfifoLen' <= Size /\ (KfifoLen < Size => KfifoLen' < Size)
      BY <1>3, <1>4, <2>1
    <2>3. QED
      BY <1>2, <2>1, <2>2 DEF AddInv, procVars, Slot
  <1>6. TakeInv'
    BY <1>2 DEF TakeInv
  <1>7. QED
    BY <1>3, <1>4, <1>5, <1>6 DEF PlaceInv

LEMMA HoldStoreIn ==
  ASSUME IInv, OneAdds, StreamInv, NEW p \in Producers, StoreIn(p)
  PROVE  HoldInv'
  <1> DEFINE L == KfifoLen
             b == sent[p]
             s(q) == IF q = p THEN b + 1 ELSE sent[q]
             A(j) == At(j)
  <1>1. /\ \A j \in 0 .. L - 1 :
             /\ A(j) \in Byte
             /\ A(j)[2] \in taken[A(j)[1]] .. sent[A(j)[1]] - 1
        /\ \A q \in Producers :
             /\ taken[q] <= sent[q]
             /\ \A n \in taken[q] .. sent[q] - 1 : \E j \in 0 .. L - 1 : A(j) = << q, n >>
        /\ \A j, k \in 0 .. L - 1 :
             j < k /\ A(j)[1] = A(k)[1] => A(j)[2] < A(k)[2]
    BY DEF StreamInv, HoldInv
  <1>2. /\ L \in Nat /\ b \in Nat /\ b = sent[p] /\ A(L) = << p, b >>
        /\ \A q \in Producers : taken[q] \in Nat /\ sent[q] \in Nat
    BY PlaceStoreIn, LenIs DEF StreamInv, IInv, TypeOK, CallTypes, ReaderTypes
  <1>3. /\ KfifoLen' = L + 1 /\ taken' = taken
        /\ \A q \in Producers : sent'[q] = s(q)
        /\ \A j \in 0 .. L : At(j)' = A(j)
    BY PlaceStoreIn DEF StreamInv, IInv, TypeOK, CallTypes, readerVars
  <1>4. \A j \in 0 .. L - 1 : A(j)[1] \in Producers /\ A(j)[2] \in Nat
    BY <1>1 DEF Byte
  <1>5. A(L)[1] = p /\ A(L)[2] = b /\ A(L) \in Byte
    BY <1>2 DEF Byte
  <1> HIDE DEF L, A, b
  <1>6. \A j \in 0 .. L : A(j) \in Byte /\ A(j)[2] \in taken[A(j)[1]] .. s(A(j)[1]) - 1
    <2>1. ASSUME NEW j \in 0 .. L - 1
          PROVE  A(j) \in Byte /\ A(j)[2] \in taken[A(j)[1]] .. s(A(j)[1]) - 1
      BY <1>1, <1>2, <1>4
    <2>2. A(L) \in Byte /\ A(L)[2] \in taken[A(L)[1]] .. s(A(L)[1]) - 1
      BY <1>1, <1>2, <1>5
    <2>3. QED
      BY <1>2, <2>1, <2>2
  <1>7. ASSUME NEW q \in Producers
        PROVE  /\ taken[q] <= s(q)
               /\ \A n \in taken[q] .. s(q) - 1 : \E j \in 0 .. L : A(j) = << q, n >>
    <2>1. taken[q] <= s(q)
      BY <1>1, <1>2
    <2>2. ASSUME NEW n \in taken[q] .. s(q) - 1
          PROVE  \E j \in 0 .. L : A(j) = << q, n >>
      <3>1. CASE n < sent[q]
        BY <1>1, <1>2, <3>1
      <3>2. CASE n >= sent[q]
        <4>1. q = p /\ n = b
          BY <1>2, <3>2
        <4>2. QED
          BY <1>2, <4>1
      <3>3. QED
        BY <1>2, <3>1, <3>2
    <2>3. QED
      BY <2>1, <2>2
  <1>8. ASSUME NEW j \in 0 .. L, NEW k \in 0 .. L, j < k, A(j)[1] = A(k)[1]
        PROVE  A(j)[2] < A(k)[2]
    <2>1. CASE k = L
      BY <1>1, <1>2, <1>4, <1>5, <1>8, <2>1
    <2>2. CASE k # L
      BY <1>1, <1>2, <1>8, <2>2
    <2>3. QED
      BY <2>1, <2>2
  <1> HIDE DEF s
  <1>9. 0 .. KfifoLen' - 1 = 0 .. L
    BY <1>2, <1>3
  <1>10. \A j \in 0 .. L : A(j)[1] \in Producers
    BY <1>6 DEF Byte
  <1>11. \A j \in 0 .. L :
           /\ At(j)' \in Byte
           /\ At(j)'[2] \in taken'[At(j)'[1]] .. sent'[At(j)'[1]] - 1
    BY <1>3, <1>6, <1>10
  <1>12. \A q \in Producers :
           /\ taken'[q] <= sent'[q]
           /\ \A n \in taken'[q] .. sent'[q] - 1 :
                \E j \in 0 .. L : At(j)' = << q, n >>
    BY <1>3, <1>7
  <1>13. \A j, k \in 0 .. L :
           j < k /\ At(j)'[1] = At(k)'[1] => At(j)'[2] < At(k)'[2]
    BY <1>3, <1>8
  <1>14. QED
    BY <1>9, <1>11, <1>12, <1>13 DEF HoldInv

LEMMA LargestOfFour ==
  ASSUME NEW S \in SUBSET (1 .. 4), S # {}
  PROVE  \E m \in S : \A k \in S : k <= m
  <1>1. CASE 4 \in S
    BY <1>1
  <1>2. CASE 4 \notin S /\ 3 \in S
    BY <1>2
  <1>3. CASE 4 \notin S /\ 3 \notin S /\ 2 \in S
    BY <1>3
  <1>4. CASE 4 \notin S /\ 3 \notin S /\ 2 \notin S
    <2>1. PICK m \in S : TRUE
      OBVIOUS
    <2>2. \A k \in S : k = 1
      BY <1>4
    <2>3. QED
      BY <2>1, <2>2
  <1>5. QED
    BY <1>1, <1>2, <1>3, <1>4

(* An increasing numbering by a whole interval counts it.                  *)
LEMMA Numbered ==
  ASSUME NEW S \in SUBSET (1 .. 4), NEW a \in Int, NEW b \in Int, a <= b + 1,
         NEW f \in [ S -> a .. b ],
         \A j, k \in S : j < k => f[j] < f[k],
         \A n \in a .. b : \E k \in S : f[k] = n
  PROVE  Cardinality(S) = b - a + 1
  <1>1. IsFiniteSet(S)
    <2>1. S \in SUBSET Nat /\ 4 \in Nat /\ \A k \in S : k <= 4
      OBVIOUS
    <2>2. QED
      BY <2>1, FS_BoundedSetOfNaturals
  <1>2. f \in Injection(S, a .. b)
    <2>1. \A j, k \in S : j # k => f[j] # f[k]
      <3>1. ASSUME NEW j \in S, NEW k \in S, j # k
            PROVE  f[j] # f[k]
        <4>1. j < k \/ k < j
          BY <3>1
        <4>2. f[j] < f[k] \/ f[k] < f[j]
          BY <4>1
        <4>3. f[j] \in Int /\ f[k] \in Int
          OBVIOUS
        <4>4. QED
          BY <4>2, <4>3
      <3>2. QED
        BY <3>1
    <2>2. QED
      BY <2>1 DEF Injection, IsInjective
  <1>3. f \in Surjection(S, a .. b)
    BY DEF Surjection
  <1>4. ExistsBijection(S, a .. b)
    BY <1>2, <1>3 DEF ExistsBijection, Bijection
  <1>5. Cardinality(a .. b) = Cardinality(S)
    BY <1>1, <1>4, FS_Bijection
  <1>6. Cardinality(a .. b) = IF a > b THEN 0 ELSE b - a + 1
    BY FS_Interval
  <1>7. QED
    BY <1>5, <1>6

(* What StoreOut counts as taken of p.                                     *)
Counted(p) == Cardinality({ k \in 1 .. got :
                acBuffer[k] # Junk /\ acBuffer[k][1] = p })

(* The bytes of p that the reader takes are the first it has queued.       *)
LEMMA TakenFirst ==
  ASSUME IInv, StreamInv, reader = "store", NEW p \in Producers
  PROVE  /\ taken[p] + Counted(p) \in taken[p] .. sent[p]
         /\ \A j \in 0 .. KfifoLen - 1 :
              At(j)[1] = p => (j >= got <=> At(j)[2] >= taken[p] + Counted(p))
  <1> DEFINE L == KfifoLen
             A(j) == At(j)
             S == { k \in 1 .. got : A(k - 1)[1] = p }
             t == taken[p]
             f == [ k \in S |-> A(k - 1)[2] ]
  <1>1. /\ L \in Nat /\ got \in 0 .. 4 /\ got <= L
        /\ t \in Nat /\ sent[p] \in Nat /\ t <= sent[p]
    BY LenIs DEF IInv, TypeOK, ReaderTypes, CallTypes, StreamInv, PlaceInv, TakeInv, HoldInv
  <1>2. \A k \in 1 .. got : acBuffer[k] = A(k - 1)
    BY DEF StreamInv, PlaceInv, TakeInv
  <1>3. /\ \A j \in 0 .. L - 1 :
             /\ A(j) \in Byte
             /\ A(j)[2] \in taken[A(j)[1]] .. sent[A(j)[1]] - 1
        /\ \A n \in t .. sent[p] - 1 : \E j \in 0 .. L - 1 : A(j) = << p, n >>
        /\ \A j, k \in 0 .. L - 1 :
             j < k /\ A(j)[1] = A(k)[1] => A(j)[2] < A(k)[2]
    BY DEF StreamInv, HoldInv
  <1>4. Counted(p) = Cardinality(S)
    <2>1. \A k \in 1 .. got : k - 1 \in 0 .. L - 1
      BY <1>1
    <2>2. \A k \in 1 .. got : A(k - 1) # Junk
      BY <1>3, <2>1, DriverAssumption DEF Byte
    <2>3. S = { k \in 1 .. got : acBuffer[k] # Junk /\ acBuffer[k][1] = p }
      BY <1>2, <2>2
    <2>4. QED
      BY <2>3 DEF Counted
  <1> HIDE DEF L, A
  <1>5. S \subseteq 1 .. 4 /\ \A k \in S : k - 1 \in 0 .. L - 1 /\ k <= got
    BY <1>1
  <1>6. \A k \in S : A(k - 1)[1] = p /\ A(k - 1)[2] \in t .. sent[p] - 1
    BY <1>3, <1>5
  <1>7. \A j, k \in S : j < k => A(j - 1)[2] < A(k - 1)[2]
    <2>1. ASSUME NEW j \in S, NEW k \in S, j < k
          PROVE  A(j - 1)[2] < A(k - 1)[2]
      <3>1. j - 1 < k - 1 /\ j - 1 \in 0 .. L - 1 /\ k - 1 \in 0 .. L - 1
        BY <1>1, <2>1
      <3>2. QED
        BY <1>3, <1>6, <3>1
    <2>2. QED
      BY <2>1
  <1>8. CASE S = {}
    <2>1. Counted(p) = 0
      BY <1>4, <1>8, FS_EmptySet
    <2>2. \A j \in 0 .. L - 1 : A(j)[1] = p => j >= got /\ A(j)[2] >= t
      <3>1. ASSUME NEW j \in 0 .. L - 1, A(j)[1] = p
            PROVE  j >= got /\ A(j)[2] >= t
        <4>1. A(j)[2] >= t
          BY <1>3, <3>1
        <4>2. j + 1 \notin 1 .. got
          <5>1. (j + 1) - 1 = j
            BY <1>1
          <5>2. QED
            BY <1>8, <3>1, <5>1
        <4>3. QED
          BY <1>1, <4>1, <4>2
      <3>2. QED
        BY <3>1
    <2>3. QED
      BY <1>1, <2>1, <2>2 DEF L, A
  <1>9. CASE S # {}
    <2>1. PICK m \in S : \A k \in S : k <= m
      BY <1>5, <1>9, LargestOfFour
    <2> DEFINE b == A(m - 1)[2]
    <2>2. b \in t .. sent[p] - 1 /\ A(m - 1)[1] = p /\ m - 1 \in 0 .. L - 1 /\ m <= got
      BY <1>5, <1>6
    <2>3. ASSUME NEW j \in 0 .. L - 1, A(j)[1] = p
          PROVE  j >= got <=> A(j)[2] > b
      <3>1. A(j)[2] \in Nat
        BY <1>3, <2>3 DEF Byte
      <3>2. CASE j >= got
        <4>1. m - 1 < j
          BY <1>1, <2>2, <3>2
        <4>2. A(m - 1)[2] < A(j)[2]
          BY <1>3, <2>2, <2>3, <4>1
        <4>3. QED
          BY <1>1, <2>2, <3>1, <3>2, <4>2
      <3>3. CASE j < got
        <4>1. (j + 1) - 1 = j /\ j + 1 \in 1 .. got
          BY <1>1, <3>3
        <4>2. j + 1 \in S
          BY <2>3, <4>1
        <4>3. j + 1 <= m /\ j <= m - 1
          BY <1>5, <2>1, <4>2
        <4>4. j = m - 1 \/ A(j)[2] < b
          BY <1>3, <2>2, <2>3, <4>3
        <4>5. QED
          BY <1>1, <2>2, <3>1, <3>3, <4>4
      <3>4. QED
        BY <1>1, <3>2, <3>3
    <2>4. f \in [ S -> t .. b ]
      <3>1. ASSUME NEW k \in S PROVE A(k - 1)[2] \in t .. b
        <4>1. ~(k - 1 >= got)
          BY <1>1, <1>5
        <4>2. A(k - 1)[2] \in t .. sent[p] - 1 /\ ~(A(k - 1)[2] > b)
          BY <1>5, <1>6, <2>3, <4>1
        <4>3. QED
          BY <1>1, <2>2, <4>2
      <3>2. QED
        BY <3>1
    <2>5. ASSUME NEW n \in t .. b
          PROVE  \E k \in S : f[k] = n
      <3>1. PICK j \in 0 .. L - 1 : A(j) = << p, n >>
        BY <1>1, <1>3, <2>2
      <3>2. A(j)[1] = p /\ A(j)[2] = n
        BY <3>1
      <3>3. j < got
        BY <1>1, <2>2, <2>3, <3>2
      <3>4. (j + 1) - 1 = j /\ j + 1 \in 1 .. got
        BY <1>1, <3>3
      <3>5. j + 1 \in S
        BY <3>2, <3>4
      <3>6. QED
        BY <3>2, <3>4, <3>5
    <2>6. \A j, k \in S : j < k => f[j] < f[k]
      BY <1>7
    <2> HIDE DEF b, f, S
    <2>7. Cardinality(S) = b - t + 1
      <3>1. t \in Int /\ b \in Int /\ t <= b + 1
        BY <1>1, <2>2
      <3>2. QED
        BY <1>5, <2>4, <2>5, <2>6, <3>1, Numbered
    <2>8. t + Counted(p) = b + 1
      BY <1>1, <1>4, <2>2, <2>7
    <2>9. \A j \in 0 .. L - 1 : A(j)[1] = p => A(j)[2] \in Nat
      BY <1>3 DEF Byte
    <2>10. QED
      BY <1>1, <2>2, <2>3, <2>8, <2>9 DEF L, A
  <1>10. QED
    BY <1>8, <1>9

LEMMA HoldStoreOut ==
  ASSUME IInv, StreamInv, StoreOut
  PROVE  HoldInv'
  <1> DEFINE L == KfifoLen
             A(j) == At(j)
             t(p) == taken[p] + Counted(p)
  <1>1. KfifoTypes /\ CallTypes /\ ReaderTypes
    BY DEF IInv, TypeOK
  <1>2. reader = "store" /\ UNCHANGED procVars
    BY DEF StoreOut
  <1>3. /\ got \in 0 .. 4 /\ got <= L /\ L \in Nat
        /\ \A p \in Producers : taken[p] \in Nat /\ sent[p] \in Nat
    BY <1>1, LenIs, PlaceStoreOut DEF StreamInv, ReaderTypes, CallTypes
  <1>4. KfifoLen' = L - got /\ \A j \in Int : At(j)' = A(got + j)
    BY PlaceStoreOut DEF StreamInv
  <1>5. \A p \in Producers : taken'[p] = t(p)
    BY DEF StoreOut, Counted
  <1>6. \A p \in Producers :
          /\ t(p) \in taken[p] .. sent[p]
          /\ \A j \in 0 .. L - 1 : A(j)[1] = p => (j >= got <=> A(j)[2] >= t(p))
    BY <1>2, TakenFirst
  <1>7. /\ \A j \in 0 .. L - 1 :
             /\ A(j) \in Byte
             /\ A(j)[2] \in taken[A(j)[1]] .. sent[A(j)[1]] - 1
        /\ \A p \in Producers :
             \A n \in taken[p] .. sent[p] - 1 : \E j \in 0 .. L - 1 : A(j) = << p, n >>
        /\ \A j, k \in 0 .. L - 1 :
             j < k /\ A(j)[1] = A(k)[1] => A(j)[2] < A(k)[2]
    BY DEF StreamInv, HoldInv
  <1>8. sent' = sent /\ \A j \in 0 .. KfifoLen' - 1 : got + j \in 0 .. L - 1 /\ got + j >= got
    BY <1>2, <1>3, <1>4 DEF procVars
  <1> HIDE DEF L, A, t
  <1>9. HoldInv'
    <2>1. ASSUME NEW j \in 0 .. KfifoLen' - 1
          PROVE  /\ At(j)' \in Byte
                 /\ At(j)'[2] \in taken'[At(j)'[1]] .. sent'[At(j)'[1]] - 1
      <3> DEFINE a == A(got + j)
      <3>1. At(j)' = a
        BY <1>4
      <3>2. a \in Byte /\ a[2] \in taken[a[1]] .. sent[a[1]] - 1
        BY <1>7, <1>8
      <3>3. a[1] \in Producers
        BY <3>2 DEF Byte
      <3>4. a[2] >= t(a[1])
        BY <1>6, <1>8, <3>3
      <3> HIDE DEF a
      <3>5. a[2] \in t(a[1]) .. sent[a[1]] - 1
        BY <1>3, <1>6, <3>2, <3>3, <3>4
      <3>6. QED
        BY <1>5, <1>8, <3>1, <3>2, <3>3, <3>5
    <2>2. ASSUME NEW p \in Producers
          PROVE  /\ taken'[p] <= sent'[p]
                 /\ \A n \in taken'[p] .. sent'[p] - 1 :
                      \E j \in 0 .. KfifoLen' - 1 : At(j)' = << p, n >>
      <3>1. taken'[p] = t(p) /\ sent'[p] = sent[p] /\ t(p) \in taken[p] .. sent[p]
        BY <1>5, <1>6, <1>8
      <3>2. ASSUME NEW n \in t(p) .. sent[p] - 1
            PROVE  \E j \in 0 .. KfifoLen' - 1 : At(j)' = << p, n >>
        <4>1. n \in taken[p] .. sent[p] - 1 /\ n >= t(p)
          BY <1>3, <3>1
        <4>2. PICK k \in 0 .. L - 1 : A(k) = << p, n >>
          BY <1>7, <4>1
        <4>3. k >= got
          BY <1>6, <4>1, <4>2
        <4>4. PICK j \in 0 .. KfifoLen' - 1 : got + j = k
          <5>1. k - got \in 0 .. KfifoLen' - 1 /\ got + (k - got) = k
            BY <1>3, <1>4, <4>3
          <5>2. QED
            BY <5>1
        <4>5. At(j)' = << p, n >>
          BY <1>4, <4>2, <4>4
        <4>6. QED
          BY <4>5
      <3>3. QED
        BY <1>3, <3>1, <3>2
    <2>3. ASSUME NEW j \in 0 .. KfifoLen' - 1, NEW k \in 0 .. KfifoLen' - 1,
                 j < k, At(j)'[1] = At(k)'[1]
          PROVE  At(j)'[2] < At(k)'[2]
      <3>1. At(j)' = A(got + j) /\ At(k)' = A(got + k)
        BY <1>4
      <3>2. got + j < got + k /\ got + j \in 0 .. L - 1 /\ got + k \in 0 .. L - 1
        BY <1>3, <1>8, <2>3
      <3>3. QED
        BY <1>7, <2>3, <3>1, <3>2
    <2>4. QED
      BY <2>1, <2>2, <2>3 DEF HoldInv
  <1>10. QED
    BY <1>9

LEMMA PlaceNext ==
  ASSUME Resetters = {}, IInv, OneAdds, PlaceInv, [Next]_vars
  PROVE  PlaceInv'
  <1> USE Roles
  <1>1. pc \in [ Process -> { "idle", "down", "resetIn", "resetOut" }
                             \cup InWriteData ]
        /\ sent \in [ Producers -> Nat ]
    BY DEF IInv, TypeOK, CallTypes
  <1>2. ASSUME NEW p \in Process, Open(p) \/ Close(p)
        PROVE  PlaceInv'
    BY <1>2, PlaceQuiet DEF Open, Close, procVars, readerVars
  <1>3. ASSUME NEW p \in Producers,
               \/ p \in Writers /\ (Write(p) \/ Down(p) \/ DownInterrupted(p))
               \/ p \in Delayers /\ Delay(p)
               \/ WaitForSpace(p) \/ SpaceInterrupted(p) \/ WakeReader(p)
               \/ Return(p)
        PROVE  PlaceInv'
    <2>1. /\ pc'[p] \notin { "copy", "load", "store" }
          /\ \A q \in Producers \ {p} : pc'[q] = pc[q] /\ sent'[q] = sent[q]
      BY <1>1, <1>3 DEF Write, Down, DownInterrupted, Delay, WaitForSpace,
         SpaceInterrupted, WakeReader, Return
    <2>2. UNCHANGED << kfifo, sawIn, acBuffer, got, sawOut >>
          /\ (reader' \in { "load", "store" } => reader' = reader)
      BY <1>3 DEF Write, Down, DownInterrupted, Delay, WaitForSpace,
         SpaceInterrupted, WakeReader, Return, readerVars
    <2>3. \A q \in Producers :
            pc'[q] \in { "copy", "load", "store" } =>
              pc'[q] = pc[q] /\ sent'[q] = sent[q] /\ sawIn'[q] = sawIn[q]
      BY <2>1, <2>2
    <2>4. QED
      BY <2>2, <2>3, PlaceQuiet
  <1>4. ASSUME NEW p \in Producers, Fill(p) \/ LoadIn(p) \/ CopyIn(p) \/ StoreIn(p)
        PROVE  PlaceInv'
    BY <1>4, PlaceFill, PlaceCopyIn, PlaceStoreIn
  <1>5. CASE Unload \/ ShouldStop \/ WaitForData
    BY <1>5, PlaceQuiet DEF Unload, ShouldStop, WaitForData, procVars
  <1>6. CASE CopyOut \/ LoadOut \/ StoreOut
    BY <1>6, PlaceCopyOut, PlaceStoreOut
  <1>7. CASE Play
    <2>1. /\ UNCHANGED << kfifo, sent, sawIn, acBuffer, got, sawOut >>
          /\ reader' = "check"
          /\ \A q \in Producers :
               pc'[q] \in { "copy", "load", "store" } => pc'[q] = pc[q]
      BY <1>7 DEF Play
    <2>2. QED
      BY <2>1, PlaceQuiet
  <1>8. CASE UNCHANGED vars
    BY <1>8, PlaceQuiet DEF vars, procVars, readerVars
  <1>9. QED
    BY <1>2, <1>3, <1>4, <1>5, <1>6, <1>7, <1>8 DEF Next, WriteData, Reader

LEMMA HoldNext ==
  ASSUME Resetters = {}, Signals = FALSE,
         IInv, OneAdds, StreamInv, [Next]_vars
  PROVE  HoldInv'
  <1> USE Roles
  <1>1. ASSUME UNCHANGED << kfifo, sent, taken >>
        PROVE  HoldInv'
    BY <1>1, KfifoSame, HoldSame DEF StreamInv
  <1>2. ASSUME NEW p \in Process, Open(p) \/ Close(p)
        PROVE  HoldInv'
    BY <1>1, <1>2 DEF Open, Close, procVars, readerVars
  <1>3. ASSUME NEW p \in Writers, Write(p) \/ Down(p) \/ DownInterrupted(p)
        PROVE  HoldInv'
    BY <1>1, <1>3 DEF Write, Down, DownInterrupted, readerVars
  <1>4. ASSUME NEW p \in Delayers, Delay(p)
        PROVE  HoldInv'
    BY <1>1, <1>4 DEF Delay, readerVars
  <1>5. ASSUME NEW p \in Producers, WriteData(p)
        PROVE  HoldInv'
    <2>1. CASE CopyIn(p)
      BY <2>1, PlaceCopyIn, HoldSame DEF StreamInv, readerVars
    <2>2. CASE StoreIn(p)
      BY <2>2, HoldStoreIn
    <2>3. CASE ~CopyIn(p) /\ ~StoreIn(p)
      BY <1>1, <1>5, <2>3 DEF WriteData, WaitForSpace, SpaceInterrupted, Fill,
         LoadIn, WakeReader, Return, readerVars
    <2>4. QED
      BY <2>1, <2>2, <2>3
  <1>6. CASE Unload
    BY <1>1, <1>6 DEF Unload, procVars
  <1>7. CASE StoreOut
    BY <1>7, HoldStoreOut
  <1>8. CASE ShouldStop \/ WaitForData \/ CopyOut \/ LoadOut \/ Play
    BY <1>1, <1>8 DEF ShouldStop, WaitForData, CopyOut, LoadOut, Play, procVars
  <1>9. CASE UNCHANGED vars
    BY <1>1, <1>9 DEF vars, procVars, readerVars
  <1>10. QED
    BY <1>2, <1>3, <1>4, <1>5, <1>6, <1>7, <1>8, <1>9 DEF Next, Reader

LEMMA StreamIsQueued == ASSUME IInv, StreamInv PROVE QueueHoldsStream
  <1>1. KfifoLen \in Nat /\ out \in Int
    BY LenIs DEF IInv, TypeOK, KfifoTypes
  <1>2. DOMAIN Queued = 1 .. KfifoLen
    BY DEF Queued
  <1>3. ASSUME NEW k \in 1 .. KfifoLen
        PROVE  k - 1 \in 0 .. KfifoLen - 1 /\ Queued[k] = At(k - 1)
    <2>1. out + k - 1 = out + (k - 1) /\ k - 1 \in 0 .. KfifoLen - 1
      BY <1>1
    <2>2. QED
      BY <2>1 DEF Queued, At
  <1>4. ASSUME NEW j \in 0 .. KfifoLen - 1
        PROVE  j + 1 \in 1 .. KfifoLen /\ Queued[j + 1] = At(j)
    <2>1. j + 1 \in 1 .. KfifoLen /\ (j + 1) - 1 = j
      BY <1>1
    <2>2. QED
      BY <1>3, <2>1
  <1>5. KfifoLen <= Size
    BY DEF StreamInv, PlaceInv, AddInv
  <1>6. ASSUME NEW p \in Producers
        PROVE  LET mine == { k \in DOMAIN Queued :
                               Queued[k] # Junk /\ Queued[k][1] = p }
               IN  /\ { Queued[k][2] : k \in mine } = taken[p] .. sent[p] - 1
                   /\ \A j, k \in mine : j < k => Queued[j][2] < Queued[k][2]
    <2> DEFINE mine == { k \in DOMAIN Queued :
                           Queued[k] # Junk /\ Queued[k][1] = p }
    <2>1. ASSUME NEW k \in mine
          PROVE  /\ k \in 1 .. KfifoLen /\ k - 1 \in 0 .. KfifoLen - 1
                 /\ Queued[k] = At(k - 1)
                 /\ Queued[k][1] = p
      BY <1>2, <1>3
    <2>2. ASSUME NEW k \in mine PROVE Queued[k][2] \in taken[p] .. sent[p] - 1
      BY <2>1 DEF StreamInv, HoldInv
    <2>3. ASSUME NEW n \in taken[p] .. sent[p] - 1
          PROVE  \E k \in mine : Queued[k][2] = n
      <3>1. PICK j \in 0 .. KfifoLen - 1 : At(j) = << p, n >>
        BY DEF StreamInv, HoldInv
      <3>2. j + 1 \in DOMAIN Queued /\ Queued[j + 1] = << p, n >>
        BY <1>2, <1>4, <3>1
      <3>3. << p, n >> # Junk
        <4>1. At(j) \in Byte
          BY DEF StreamInv, HoldInv
        <4>2. QED
          BY <3>1, <4>1, DriverAssumption DEF Byte
      <3>4. j + 1 \in mine
        BY <3>2, <3>3
      <3>5. QED
        BY <3>2, <3>4
    <2>4. ASSUME NEW j \in mine, NEW k \in mine, j < k
          PROVE  Queued[j][2] < Queued[k][2]
      <3>1. j - 1 < k - 1
        BY <2>1, <2>4
      <3>2. QED
        BY <2>1, <3>1 DEF StreamInv, HoldInv
    <2> HIDE DEF mine
    <2>5. { Queued[k][2] : k \in mine } = taken[p] .. sent[p] - 1
      BY <2>2, <2>3
    <2>6. QED
      BY <2>4, <2>5 DEF mine
  <1>7. QED
    BY <1>5, <1>6 DEF QueueHoldsStream

(* Whatever the number of processes and the sizes of the queue and of the  *)
(* writes, and with the indices wrapping, the kfifo holds of each process  *)
(* exactly the bytes it has sent and the thread not yet taken, in order:   *)
(* for writers alone on any number of processors, where lockWriter keeps   *)
(* them apart, and with DELAY, which does not take it, on one processor.   *)
(* RESET and a signal drop bytes on purpose.                               *)
THEOREM StreamKept ==
  ASSUME Resetters = {}, Signals = FALSE, Delayers = {} \/ Preempt = FALSE
  PROVE  Spec => []QueueHoldsStream
  <1>1. IInv /\ Turn /\ StreamInv /\ [Next]_vars => StreamInv'
    BY OneAddsLemma, PlaceNext, HoldNext DEF StreamInv
  <1>2. IInv /\ StreamInv => QueueHoldsStream
    BY StreamIsQueued
  <1>3. QED
    BY Invariance, Turns, StreamInit, <1>1, <1>2, PTL DEF Spec

-----------------------------------------------------------------------------
(* Frames.                                                                 *)

Resetting == \E p \in Process : pc[p] \in { "resetIn", "resetOut" }

(* A process outside its loop is between two of its frames.                *)
CallsWhole ==
  \A p \in Producers :
    /\ size[p] % 4 = 0
    /\ pc[p] \notin Adding => sent[p] % 4 = 0
    /\ pc[p] \in InWriteData \ Adding => i[p] % 4 = 0
    /\ pc[p] \in Adding => i[p] % 4 = sent[p] % 4

(* The queue holds whole frames, but for one that is being added to it.    *)
QueueWhole ==
  /\ \A j \in 0 .. KfifoLen - 1 :
       /\ At(j) \in Byte
       /\ IF j % 4 = 0 THEN At(j)[2] % 4 = 0
                       ELSE At(j) = << At(j - 1)[1], At(j - 1)[2] + 1 >>
  /\ (\A p \in Producers : pc[p] \notin Adding) => KfifoLen % 4 = 0
  /\ \A p \in Producers :
       pc[p] \in Adding =>
         /\ KfifoLen % 4 = sent[p] % 4
         /\ sent[p] % 4 # 0 => KfifoLen > 0 /\ At(KfifoLen - 1) = << p, sent[p] - 1 >>

FrameTaken ==
  /\ got = 4
  /\ acBuffer[1] \in Byte /\ acBuffer[1][2] % 4 = 0
  /\ \A k \in 2 .. 4 :
       acBuffer[k] = << acBuffer[1][1], acBuffer[1][2] + k - 1 >>

(* The reader takes whole frames only, or nothing when it has to end.      *)
ReaderWhole ==
  /\ reader = "out" => KfifoLen > 0 \/ stopping
  /\ reader \in { "load", "store", "play" } =>
       FrameTaken \/ (got = 0 /\ stopping)

FrameInv ==
  /\ CallsWhole /\ ReaderWhole
  /\ ~Resetting => PlaceInv /\ QueueWhole

LEMMA QueueQuiet ==
  ASSUME QueueWhole, KfifoLen' = KfifoLen,
         \A j \in 0 .. KfifoLen - 1 : At(j)' = At(j),
         KfifoLen \in Nat,
         \A q \in Producers :
           /\ pc'[q] \in Adding <=> pc[q] \in Adding
           /\ pc'[q] \in Adding => sent'[q] = sent[q]
  PROVE  QueueWhole'
  <1>1. \A j \in 0 .. KfifoLen - 1 : j # 0 => j - 1 \in 0 .. KfifoLen - 1
    OBVIOUS
  <1>2. \A j \in 0 .. KfifoLen - 1 : j % 4 # 0 => j # 0
    OBVIOUS
  <1>3. KfifoLen > 0 => KfifoLen - 1 \in 0 .. KfifoLen - 1
    OBVIOUS
  <1>4. \A j \in 0 .. KfifoLen' - 1 :
          /\ At(j)' \in Byte
          /\ IF j % 4 = 0 THEN At(j)'[2] % 4 = 0
                          ELSE At(j)' = << At(j - 1)'[1], At(j - 1)'[2] + 1 >>
    BY <1>1, <1>2 DEF QueueWhole
  <1>5. (\A q \in Producers : pc'[q] \notin Adding) => KfifoLen' % 4 = 0
    BY DEF QueueWhole
  <1>6. ASSUME NEW q \in Producers, pc'[q] \in Adding
        PROVE  /\ KfifoLen' % 4 = sent'[q] % 4
               /\ sent'[q] % 4 # 0 =>
                    KfifoLen' > 0 /\ At(KfifoLen - 1)' = << q, sent'[q] - 1 >>
    BY <1>3, <1>6 DEF QueueWhole
  <1>7. QED
    BY <1>4, <1>5, <1>6 DEF QueueWhole

(* What a step of a process has to keep.                                   *)
LEMMA FrameOfProcess ==
  ASSUME ReaderWhole, Turn, ~Preempt, NEW p \in Process, cpu \in { none, p },
         CallsWhole', PlaceInv', QueueWhole',
         stopping' = stopping, acBuffer' = acBuffer, got' = got,
         reader' = reader \/ reader' = "wait"
  PROVE  FrameInv'
  <1>1. reader \notin { "out", "load", "store" }
    BY ProcessAlone
  <1>2. ReaderWhole'
    BY <1>1 DEF ReaderWhole, FrameTaken
  <1>3. QED
    BY <1>2 DEF FrameInv

LEMMA FrameSteady ==
  ASSUME FrameInv, Turn, ~Preempt, NEW p \in Process, cpu \in { none, p },
         pc[p] \notin { "resetIn", "resetOut" }
  PROVE  CallsWhole /\ ReaderWhole /\ PlaceInv /\ QueueWhole
  BY ProcessAlone DEF FrameInv, Resetting

(* The steps of a call outside the loop that adds bytes.                   *)
LEMMA FrameCall ==
  ASSUME IInv, Turn, ~Preempt, FrameInv, \A n \in Batches : n % 4 = 0,
         \/ \E p \in Process : Open(p) \/ Close(p)
         \/ \E p \in Writers : Write(p) \/ Down(p) \/ DownInterrupted(p)
         \/ \E p \in Delayers : Delay(p)
         \/ \E p \in Producers : WakeReader(p) \/ Return(p)
  PROVE  FrameInv'
  <1> USE Roles DEF Runs, Goes, Pauses
  <1>1. CallTypes /\ KfifoTypes /\ KfifoLen \in Nat
    BY LenIs DEF IInv, TypeOK
  <1>2. PICK p \in Process :
          \/ Open(p) \/ Close(p)
          \/ p \in Writers /\ (Write(p) \/ Down(p) \/ DownInterrupted(p))
          \/ p \in Delayers /\ Delay(p)
          \/ p \in Producers /\ (WakeReader(p) \/ Return(p))
    OBVIOUS
  <1>3. /\ cpu \in { none, p } /\ pc[p] \in { "idle", "down", "wake", "up" }
        /\ UNCHANGED << kfifo, sawIn, acBuffer, got, sawOut, taken, stopping >>
        /\ reader' = reader \/ reader' = "wait"
    BY <1>2 DEF Open, Close, Write, Down, DownInterrupted, Delay, WakeReader,
       Return, readerVars, procVars
  <1>4. CallsWhole /\ ReaderWhole /\ PlaceInv /\ QueueWhole
    BY <1>3, FrameSteady
  <1>5. /\ \A q \in Process \ {p} : pc'[q] = pc[q]
        /\ pc'[p] \in { "idle", "down", "wake", "up", "wait" }
    BY <1>1, <1>2 DEF Open, Close, Write, Down, DownInterrupted, Delay, WakeReader,
       Return, CallTypes, procVars
  <1>6. \A q \in Producers \ {p} : sent'[q] = sent[q] /\ size'[q] = size[q] /\ i'[q] = i[q]
    BY <1>1, <1>2 DEF Open, Close, Write, Down, DownInterrupted, Delay, WakeReader,
       Return, CallTypes, procVars
  <1>7. CallsWhole'
    <2>1. ASSUME NEW q \in Producers \ {p}
          PROVE  /\ size'[q] % 4 = 0
                 /\ pc'[q] \notin Adding => sent'[q] % 4 = 0
                 /\ pc'[q] \in InWriteData \ Adding => i'[q] % 4 = 0
                 /\ pc'[q] \in Adding => i'[q] % 4 = sent'[q] % 4
      BY <1>4, <1>5, <1>6 DEF CallsWhole
    <2>2. ASSUME p \in Producers
          PROVE  /\ size'[p] % 4 = 0 /\ sent'[p] % 4 = 0
                 /\ pc'[p] \in InWriteData => i'[p] % 4 = 0
      <3>1. size[p] \in Nat /\ i[p] \in Nat /\ sent[p] \in Nat
        BY <1>1, <2>2 DEF CallTypes
      <3>2. /\ size[p] % 4 = 0 /\ sent[p] % 4 = 0
            /\ pc[p] \in InWriteData => i[p] % 4 = 0
        BY <1>3, <1>4, <2>2 DEF CallsWhole, Adding
      <3>3. CASE Open(p) \/ Close(p)
        BY <3>2, <3>3 DEF Open, Close, procVars
      <3>4. CASE p \in Writers /\ Write(p)
        <4>1. PICK n \in Batches : size' = [ size EXCEPT ![p] = n ]
          BY <3>4 DEF Write
        <4>2. size'[p] = n /\ n % 4 = 0 /\ sent' = sent /\ pc'[p] = "down"
          BY <1>1, <2>2, <3>4, <4>1 DEF Write, CallTypes
        <4>3. QED
          BY <3>2, <4>2 DEF InWriteData
      <3>5. CASE p \in Writers /\ Down(p)
        BY <1>1, <2>2, <3>2, <3>5 DEF Down, CallTypes
      <3>6. CASE p \in Writers /\ DownInterrupted(p)
        <4>1. sent'[p] = sent[p] + size[p] /\ size' = size /\ pc'[p] = "idle"
          BY <1>1, <2>2, <3>6 DEF DownInterrupted, CallTypes
        <4>2. QED
          BY <3>1, <3>2, <4>1 DEF InWriteData
      <3>7. CASE p \in Delayers /\ Delay(p)
        BY <1>1, <2>2, <3>2, <3>7 DEF Delay, CallTypes
      <3>8. CASE p \in Producers /\ (WakeReader(p) \/ Return(p))
        BY <1>1, <2>2, <3>2, <3>8 DEF WakeReader, Return, CallTypes, InWriteData
      <3>9. QED
        BY <1>2, <3>3, <3>4, <3>5, <3>6, <3>7, <3>8
    <2>3. pc'[p] \notin Adding
      BY <1>5 DEF Adding
    <2>4. QED
      BY <2>1, <2>2, <2>3 DEF CallsWhole
  <1>8. PlaceInv'
    <2>1. \A q \in Producers :
            pc'[q] \in { "copy", "load", "store" } =>
              pc'[q] = pc[q] /\ sent'[q] = sent[q] /\ sawIn'[q] = sawIn[q]
      BY <1>3, <1>5, <1>6
    <2>2. reader' \in { "load", "store" } => reader' = reader
      BY <1>3
    <2>3. QED
      BY <1>3, <1>4, <2>1, <2>2, PlaceQuiet
  <1>9. QueueWhole'
    <2>1. \A q \in Producers :
            /\ pc'[q] \in Adding <=> pc[q] \in Adding
            /\ pc'[q] \in Adding => sent'[q] = sent[q]
      BY <1>3, <1>5, <1>6 DEF Adding
    <2>2. QED
      BY <1>1, <1>3, <1>4, <2>1, KfifoSame, QueueQuiet
  <1>10. QED
    BY <1>3, <1>4, <1>7, <1>8, <1>9, FrameOfProcess

(* Waiting for space ends with the process in its loop, still waiting, or  *)
(* giving up.                                                              *)
LEMMA FrameSpace ==
  ASSUME IInv, Turn, ~Preempt, FrameInv, NEW p \in Producers,
         WaitForSpace(p) \/ SpaceInterrupted(p)
  PROVE  FrameInv'
  <1> USE Roles DEF Runs, Goes, Pauses
  <1>1. CallTypes /\ KfifoTypes /\ KfifoLen \in Nat
    BY LenIs DEF IInv, TypeOK
  <1>2. /\ cpu \in { none, p } /\ pc[p] \in { "wait", "asleep" }
        /\ UNCHANGED << kfifo, size, sawIn, readerVars, stopping >>
    BY DEF WaitForSpace, SpaceInterrupted
  <1>3. CallsWhole /\ ReaderWhole /\ PlaceInv /\ QueueWhole
    BY <1>2, FrameSteady
  <1>4. \A q \in Producers \ {p} :
          /\ pc'[q] = pc[q] /\ pc[q] \notin Adding
          /\ sent'[q] = sent[q] /\ i'[q] = i[q]
    BY <1>1, <1>2, ProcessAlone
       DEF WaitForSpace, SpaceInterrupted, CallTypes, Adding
  <1>5. /\ size[p] \in Nat /\ i[p] \in Nat /\ sent[p] \in Nat
        /\ size[p] % 4 = 0 /\ i[p] % 4 = 0 /\ sent[p] % 4 = 0
    BY <1>1, <1>2, <1>3 DEF CallsWhole, CallTypes, Adding, InWriteData
  <1>6. /\ i[p] <= size[p]
        /\ pc'[p] \in { "asleep", "fill", "up" }
        /\ \/ sent'[p] = sent[p] /\ i'[p] = i[p]
           \/ sent'[p] = sent[p] + (size[p] - i[p]) /\ i'[p] = size[p]
    BY <1>1, <1>2 DEF WaitForSpace, SpaceInterrupted, CallTypes, IInv, CallInv, InWriteData
  <1>7. sent'[p] % 4 = 0 /\ i'[p] % 4 = 0
    <2>1. ASSUME NEW a \in Nat, NEW b \in Nat, NEW c \in Nat, a <= b,
                 a % 4 = 0, b % 4 = 0, c % 4 = 0
          PROVE  (c + (b - a)) % 4 = 0
      BY <2>1
    <2>2. (sent[p] + (size[p] - i[p])) % 4 = 0
      BY <1>5, <1>6, <2>1
    <2>3. QED
      BY <1>5, <1>6, <2>2
  <1>8. CallsWhole'
    BY <1>2, <1>3, <1>4, <1>5, <1>7 DEF CallsWhole
  <1>9. PlaceInv'
    <2>1. \A q \in Producers : pc'[q] \notin { "copy", "load", "store" }
      BY <1>4, <1>6 DEF Adding
    <2>2. QED
      BY <1>2, <1>3, <2>1, PlaceQuiet DEF readerVars
  <1>10. QueueWhole'
    <2>1. KfifoLen' = KfifoLen /\ \A j : At(j)' = At(j)
      BY <1>2, KfifoSame
    <2>2. KfifoLen % 4 = 0
      BY <1>2, <1>3, <1>4 DEF QueueWhole, Adding
    <2>3. \A q \in Producers : pc'[q] \in Adding => sent'[q] % 4 = 0
      BY <1>4, <1>7
    <2>4. QED
      BY <1>3, <2>1, <2>2, <2>3 DEF QueueWhole
  <1>11. QED
    BY <1>2, <1>3, <1>8, <1>9, <1>10, FrameOfProcess DEF readerVars

(* The loop leaves off only at the end of a frame: at the end of the call, *)
(* or when the queue is full, whose size is a whole number of frames.      *)
LEMMA FrameFill ==
  ASSUME IInv, Turn, ~Preempt, FrameInv, NEW p \in Producers, Fill(p)
  PROVE  FrameInv'
  <1> USE Roles DEF Runs, Goes, Pauses
  <1>1. CallTypes /\ KfifoTypes /\ KfifoLen \in Nat
    BY LenIs DEF IInv, TypeOK
  <1>2. /\ cpu \in { none, p } /\ pc[p] = "fill"
        /\ UNCHANGED << kfifo, size, i, sent, sawIn, readerVars, stopping >>
    BY DEF Fill
  <1>3. CallsWhole /\ ReaderWhole /\ PlaceInv /\ QueueWhole
    BY <1>2, FrameSteady
  <1>4. \A q \in Producers \ {p} : pc'[q] = pc[q] /\ pc[q] \notin Adding
    BY <1>1, <1>2, ProcessAlone DEF Fill, CallTypes, Adding
  <1>5. /\ size[p] \in Nat /\ i[p] \in Nat /\ sent[p] \in Nat
        /\ size[p] % 4 = 0 /\ i[p] % 4 = sent[p] % 4 /\ KfifoLen % 4 = sent[p] % 4
    BY <1>1, <1>2, <1>3 DEF CallsWhole, QueueWhole, CallTypes, Adding
  <1>6. pc'[p] = IF i[p] < size[p] /\ ~KfifoIsFull THEN "copy" ELSE "wake"
    BY <1>1 DEF Fill, CallTypes
  <1>7. pc'[p] # "copy" => pc'[p] = "wake" /\ sent[p] % 4 = 0
    <2>1. CASE KfifoIsFull
      <3>1. KfifoLen = Size
        BY <1>1, <1>3, <2>1, Sizes DEF KfifoIsFull, PlaceInv, AddInv
      <3>2. QED
        BY <1>5, <1>6, <3>1, DriverAssumption
    <2>2. CASE ~(i[p] < size[p])
      <3>1. i[p] = size[p]
        BY <1>2, <1>5, <2>2 DEF IInv, CallInv, InWriteData
      <3>2. QED
        BY <1>5, <1>6, <3>1
    <2>3. QED
      BY <1>6, <2>1, <2>2
  <1>8. CallsWhole'
    BY <1>2, <1>3, <1>4, <1>5, <1>7 DEF CallsWhole, Adding
  <1>9. PlaceInv'
    <2>1. OneAdds
      BY OneAddsLemma
    <2>2. QED
      BY <1>3, <2>1, PlaceFill
  <1>10. QueueWhole'
    <2>1. KfifoLen' = KfifoLen /\ \A j : At(j)' = At(j)
      BY <1>2, KfifoSame
    <2>2. CASE pc'[p] = "copy"
      <3>1. \A q \in Producers : pc'[q] \in Adding <=> pc[q] \in Adding
        BY <1>2, <1>4, <2>2 DEF Adding
      <3>2. QED
        BY <1>1, <1>2, <1>3, <2>1, <3>1, QueueQuiet
    <2>3. CASE pc'[p] # "copy"
      <3>1. KfifoLen % 4 = 0 /\ \A q \in Producers : pc'[q] \notin Adding
        BY <1>4, <1>5, <1>7, <2>3 DEF Adding
      <3>2. QED
        BY <1>3, <2>1, <3>1 DEF QueueWhole
    <2>4. QED
      BY <2>2, <2>3
  <1>11. QED
    BY <1>2, <1>3, <1>8, <1>9, <1>10, FrameOfProcess DEF readerVars

LEMMA FrameCopyIn ==
  ASSUME IInv, Turn, ~Preempt, FrameInv, NEW p \in Producers, CopyIn(p) \/ LoadIn(p)
  PROVE  FrameInv'
  <1> USE Roles DEF Runs, Goes, Pauses
  <1>1. CallTypes /\ KfifoTypes /\ KfifoLen \in Nat /\ OneAdds
    BY LenIs, OneAddsLemma DEF IInv, TypeOK
  <1>2. cpu \in { none, p } /\ pc[p] \in { "copy", "load" } /\ UNCHANGED << size, stopping >>
    BY DEF CopyIn, LoadIn
  <1>3. CallsWhole /\ ReaderWhole /\ PlaceInv /\ QueueWhole
    BY <1>2, FrameSteady
  <1>4. /\ PlaceInv' /\ KfifoLen' = KfifoLen
        /\ \A j \in 0 .. KfifoLen - 1 : At(j)' = At(j)
        /\ UNCHANGED << i, sent, readerVars >>
    <2>1. CASE CopyIn(p)
      BY <1>1, <1>3, <2>1, PlaceCopyIn
    <2>2. CASE LoadIn(p)
      BY <1>1, <1>3, <2>2, PlaceFill, KfifoSame DEF LoadIn
    <2>3. QED
      BY <2>1, <2>2
  <1>5. (\A q \in Producers \ {p} : pc'[q] = pc[q]) /\ pc'[p] \in Adding /\ pc[p] \in Adding
    <2>1. pc'[p] \in { "fill", "load", "store" }
          /\ \A q \in Producers \ {p} : pc'[q] = pc[q]
      BY <1>1 DEF CopyIn, LoadIn, CallTypes
    <2>2. QED
      BY <1>2, <2>1 DEF Adding
  <1>6. CallsWhole'
    BY <1>2, <1>3, <1>4, <1>5 DEF CallsWhole
  <1>7. QueueWhole'
    BY <1>1, <1>3, <1>4, <1>5, QueueQuiet
  <1>8. QED
    BY <1>2, <1>3, <1>4, <1>6, <1>7, FrameOfProcess DEF readerVars

LEMMA FrameStoreIn ==
  ASSUME IInv, Turn, ~Preempt, FrameInv, NEW p \in Producers, StoreIn(p)
  PROVE  FrameInv'
  <1> USE Roles DEF Runs, Goes, Pauses
  <1> DEFINE L == KfifoLen
             b == sent[p]
             A(j) == At(j)
  <1>1. CallTypes /\ KfifoTypes /\ L \in Nat /\ b \in Nat /\ i[p] \in Nat /\ OneAdds
    BY LenIs, OneAddsLemma DEF IInv, TypeOK, CallTypes
  <1>2. cpu \in { none, p } /\ pc[p] = "store" /\ UNCHANGED << size, stopping >>
    BY DEF StoreIn
  <1>3. CallsWhole /\ ReaderWhole /\ PlaceInv /\ QueueWhole
    BY <1>2, FrameSteady
  <1>4. /\ PlaceInv' /\ KfifoLen' = L + 1 /\ A(L) = << p, b >>
        /\ \A j \in 0 .. L : At(j)' = A(j)
        /\ sent' = [ sent EXCEPT ![p] = b + 1 ]
        /\ UNCHANGED readerVars
    BY <1>1, <1>3, PlaceStoreIn
  <1>5. /\ pc'[p] = "fill" /\ sent'[p] = b + 1 /\ i'[p] = i[p] + 1
        /\ \A q \in Producers \ {p} :
             /\ pc'[q] = pc[q] /\ pc[q] \notin Adding
             /\ sent'[q] = sent[q] /\ i'[q] = i[q]
    BY <1>1, <1>2, <1>4, ProcessAlone DEF StoreIn, CallTypes, Adding
  <1>6. CallsWhole'
    <2>1. i[p] % 4 = b % 4
      BY <1>2, <1>3 DEF CallsWhole, Adding
    <2>2. (i[p] + 1) % 4 = (b + 1) % 4
      BY <1>1, <2>1
    <2>3. QED
      BY <1>2, <1>3, <1>5, <2>2 DEF CallsWhole, Adding
  <1>7. /\ \A j \in 0 .. L - 1 :
             /\ A(j) \in Byte
             /\ IF j % 4 = 0 THEN A(j)[2] % 4 = 0
                             ELSE A(j) = << A(j - 1)[1], A(j - 1)[2] + 1 >>
        /\ L % 4 = b % 4
        /\ b % 4 # 0 => L > 0 /\ A(L - 1) = << p, b - 1 >>
    BY <1>2, <1>3 DEF QueueWhole, Adding
  <1> HIDE DEF L, A, b
  <1>8. ASSUME NEW j \in 0 .. L
        PROVE  /\ A(j) \in Byte
               /\ IF j % 4 = 0 THEN A(j)[2] % 4 = 0
                               ELSE A(j) = << A(j - 1)[1], A(j - 1)[2] + 1 >>
    <2>1. CASE j = L
      <3>1. A(L) \in Byte /\ A(L)[2] = b
        BY <1>1, <1>4 DEF Byte
      <3>2. L % 4 # 0 => A(L) = << A(L - 1)[1], A(L - 1)[2] + 1 >>
        BY <1>1, <1>4, <1>7
      <3>3. QED
        BY <1>7, <2>1, <3>1, <3>2
    <2>2. CASE j # L
      BY <1>1, <1>7, <2>2
    <2>3. QED
      BY <2>1, <2>2
  <1>9. (L + 1) % 4 = (b + 1) % 4
    BY <1>1, <1>7
  <1>10. QueueWhole'
    <2>1. 0 .. KfifoLen' - 1 = 0 .. L /\ KfifoLen' > 0
      BY <1>1, <1>4
    <2>2. ASSUME NEW j \in 0 .. L
          PROVE  /\ At(j)' \in Byte
                 /\ IF j % 4 = 0 THEN At(j)'[2] % 4 = 0
                                 ELSE At(j)' = << At(j - 1)'[1], At(j - 1)'[2] + 1 >>
      <3>1. At(j)' = A(j)
        BY <1>4
      <3>2. ASSUME j % 4 # 0 PROVE At(j - 1)' = A(j - 1)
        <4>1. j - 1 \in 0 .. L
          BY <1>1, <3>2
        <4>2. QED
          BY <1>4, <4>1
      <3>3. QED
        BY <1>8, <3>1, <3>2
    <2>3. At(KfifoLen - 1)' = << p, sent'[p] - 1 >>
      <3>1. KfifoLen' - 1 = L /\ L \in 0 .. L /\ sent'[p] - 1 = b
        BY <1>1, <1>4, <1>5
      <3>2. QED
        BY <1>4, <3>1
    <2>4. \A q \in Producers : pc'[q] \in Adding => q = p
      BY <1>5
    <2>5. pc'[p] \in Adding
      BY <1>5 DEF Adding
    <2>6. KfifoLen' % 4 = sent'[p] % 4
      BY <1>4, <1>5, <1>9
    <2>7. QED
      BY <2>1, <2>2, <2>3, <2>4, <2>5, <2>6 DEF QueueWhole
  <1>11. QED
    BY <1>2, <1>3, <1>4, <1>6, <1>10, FrameOfProcess DEF readerVars

(* The thread finds whole frames, since nobody is in the middle of one     *)
(* while it runs.                                                          *)
LEMMA FrameReader ==
  ASSUME IInv, Turn, ~Preempt, FrameInv, Reader
  PROVE  FrameInv'
  <1> USE Roles DEF Runs, Goes, Pauses
  <1>1. KfifoTypes /\ ReaderTypes /\ KfifoLen \in Nat
    BY LenIs DEF IInv, TypeOK
  <1>2. /\ cpu \in { none, "reader" }
        /\ UNCHANGED << in, data, size, i, sawIn, sent, stopping >>
        /\ \A p \in Process : pc'[p] = pc[p] \/ (pc[p] = "asleep" /\ pc'[p] = "wait")
    <2>1. cpu \in { none, "reader" }
      BY DEF Reader, ShouldStop, WaitForData, CopyOut, LoadOut, StoreOut, Play
    <2>2. UNCHANGED << in, data, size, i, sawIn, sent, stopping >>
      BY DEF Reader, ShouldStop, WaitForData, CopyOut, LoadOut, StoreOut, Play,
         kfifo, procVars
    <2>3. \A p \in Process : pc'[p] = pc[p] \/ (pc[p] = "asleep" /\ pc'[p] = "wait")
      <3>1. CASE Play
        BY <3>1 DEF Play
      <3>2. CASE ~Play
        BY <3>2 DEF Reader, ShouldStop, WaitForData, CopyOut, LoadOut, StoreOut, procVars
      <3>3. QED
        BY <3>1, <3>2
    <2>4. QED
      BY <2>1, <2>2, <2>3
  <1>3. \A p \in Process : pc[p] \in { "idle", "down", "wait", "asleep" }
    BY <1>2, ReaderAlone
  <1>4. /\ CallsWhole /\ ReaderWhole /\ PlaceInv /\ QueueWhole
        /\ \A p \in Producers : pc[p] \notin Adding /\ pc'[p] \notin Adding
    BY <1>2, <1>3 DEF FrameInv, Resetting, Adding
  <1>5. KfifoLen % 4 = 0
    BY <1>4 DEF QueueWhole
  <1>6. CallsWhole'
    BY <1>2, <1>4 DEF CallsWhole, InWriteData, Adding
  <1>7. CASE ShouldStop \/ WaitForData \/ Play
    <2>1. UNCHANGED << kfifo, acBuffer, got, sawOut, taken >>
          /\ reader' \notin { "load", "store", "play" }
      BY <1>7 DEF ShouldStop, WaitForData, Play
    <2>2. PlaceInv'
      <3>1. \A q \in Producers : pc'[q] \notin { "copy", "load", "store" }
        BY <1>4 DEF Adding
      <3>2. QED
        BY <1>4, <2>1, <3>1, PlaceQuiet
    <2>3. QueueWhole'
      BY <1>1, <1>4, <2>1, KfifoSame, QueueQuiet
    <2>4. ReaderWhole'
      <3>2. reader' = "out" => KfifoLen > 0 \/ stopping
        <4>1. reader' = "out" => in # out \/ stopping
          BY <1>7 DEF ShouldStop, WaitForData, Play, KfifoIsEmpty
        <4>2. in # out => KfifoLen > 0
          <5>1. KfifoLen = IF in < out THEN in - out + Modulus ELSE in - out
            BY <1>1, LenIs
          <5>2. in \in 0 .. Modulus - 1 /\ out \in 0 .. Modulus - 1 /\ Modulus \in Nat
            BY <1>1, Sizes DEF KfifoTypes
          <5>3. QED
            BY <5>1, <5>2
        <4>3. QED
          BY <4>1, <4>2
      <3>3. KfifoLen' = KfifoLen
        BY <2>1, KfifoSame
      <3>4. QED
        BY <1>2, <2>1, <3>2, <3>3 DEF ReaderWhole
    <2>5. QED
      BY <1>6, <2>2, <2>3, <2>4 DEF FrameInv
  <1>8. CASE CopyOut /\ KfifoLen = 0
    <2>1. got' = 0 /\ stopping /\ reader' = "load"
      BY <1>4, <1>8 DEF ReaderWhole, CopyOut
    <2>2. ReaderWhole'
      BY <1>2, <2>1 DEF ReaderWhole
    <2>3. QueueWhole'
      BY <1>1, <1>4, <1>8, KfifoSame, QueueQuiet DEF CopyOut, procVars
    <2>4. QED
      BY <1>4, <1>6, <1>8, <2>2, <2>3, PlaceCopyOut DEF FrameInv
  <1>9. CASE CopyOut /\ KfifoLen # 0
    <2>1. KfifoLen >= 4
      BY <1>1, <1>5, <1>9
    <2>2. /\ got' = 4 /\ reader' = "load"
          /\ acBuffer' = [ k \in 1 .. 4 |-> data[Slot(out + k - 1)] ]
      BY <1>1, <1>9, <2>1 DEF CopyOut
    <2>3. \A k \in 1 .. 4 : acBuffer'[k] = At(k - 1)
      <3>1. \A k \in 1 .. 4 : out + k - 1 = out + (k - 1)
        BY <1>1 DEF KfifoTypes
      <3>2. QED
        BY <2>2, <3>1 DEF At
    <2>4. /\ At(0) \in Byte /\ At(0)[2] % 4 = 0
          /\ At(1) = << At(0)[1], At(0)[2] + 1 >>
          /\ At(2) = << At(1)[1], At(1)[2] + 1 >>
          /\ At(3) = << At(2)[1], At(2)[2] + 1 >>
      <3>1. 0 \in 0 .. KfifoLen - 1 /\ 1 \in 0 .. KfifoLen - 1
            /\ 2 \in 0 .. KfifoLen - 1 /\ 3 \in 0 .. KfifoLen - 1
        BY <1>1, <2>1
      <3>2. 0 % 4 = 0 /\ 1 % 4 # 0 /\ 2 % 4 # 0 /\ 3 % 4 # 0
            /\ 1 - 1 = 0 /\ 2 - 1 = 1 /\ 3 - 1 = 2
        OBVIOUS
      <3>3. \A j \in 0 .. KfifoLen - 1 :
              /\ At(j) \in Byte
              /\ IF j % 4 = 0 THEN At(j)[2] % 4 = 0
                              ELSE At(j) = << At(j - 1)[1], At(j - 1)[2] + 1 >>
        BY <1>4 DEF QueueWhole
      <3>4. QED
        BY <3>1, <3>2, <3>3
    <2>5. /\ acBuffer'[1] \in Byte /\ acBuffer'[1][2] % 4 = 0
          /\ \A k \in 2 .. 4 :
               acBuffer'[k] = << acBuffer'[1][1], acBuffer'[1][2] + k - 1 >>
      <3> DEFINE o == At(0)[1]
                 n == At(0)[2]
      <3>1. n \in Nat
        BY <2>4 DEF Byte
      <3>2. At(1) = << o, n + 1 >> /\ At(2) = << o, n + 2 >> /\ At(3) = << o, n + 3 >>
        BY <2>4, <3>1
      <3>3. /\ acBuffer'[1] = At(0) /\ acBuffer'[2] = At(1)
            /\ acBuffer'[3] = At(2) /\ acBuffer'[4] = At(3)
        BY <2>3
      <3>4. QED
        BY <2>4, <3>1, <3>2, <3>3
    <2>6. ReaderWhole'
      BY <2>2, <2>5 DEF ReaderWhole, FrameTaken
    <2>7. QueueWhole'
      BY <1>1, <1>4, <1>9, KfifoSame, QueueQuiet DEF CopyOut, procVars
    <2>8. QED
      BY <1>4, <1>6, <1>9, <2>6, <2>7, PlaceCopyOut DEF FrameInv
  <1>10. CASE LoadOut
    <2>1. ReaderWhole'
      BY <1>4, <1>10 DEF ReaderWhole, FrameTaken, LoadOut
    <2>2. QueueWhole'
      BY <1>1, <1>4, <1>10, KfifoSame, QueueQuiet DEF LoadOut, procVars
    <2>3. QED
      BY <1>4, <1>6, <1>10, <2>1, <2>2, PlaceCopyOut DEF FrameInv
  <1>11. CASE StoreOut
    <2>1. /\ reader = "store" /\ reader' = "play" /\ UNCHANGED << acBuffer, got >>
          /\ got = 4 \/ (got = 0 /\ stopping)
      BY <1>4, <1>11 DEF ReaderWhole, FrameTaken, StoreOut
    <2>2. PlaceInv' /\ KfifoLen' = KfifoLen - got /\ KfifoLen >= got
          /\ \A j \in Int : At(j)' = At(got + j)
      BY <1>1, <1>4, <1>11, <2>1, PlaceStoreOut
    <2>3. ReaderWhole'
      BY <1>2, <1>4, <2>1 DEF ReaderWhole, FrameTaken
    <2>4. QueueWhole'
      <3>1. ASSUME NEW j \in 0 .. KfifoLen' - 1
            PROVE  /\ At(j)' \in Byte
                   /\ IF j % 4 = 0 THEN At(j)'[2] % 4 = 0
                                   ELSE At(j)' = << At(j - 1)'[1], At(j - 1)'[2] + 1 >>
        <4>1. got + j \in 0 .. KfifoLen - 1 /\ j \in Int /\ j - 1 \in Int
          BY <1>1, <2>1, <2>2
        <4>2. At(j)' = At(got + j) /\ At(j - 1)' = At(got + (j - 1))
          BY <2>2, <4>1
        <4>3. (got + j) % 4 = j % 4 /\ got + (j - 1) = (got + j) - 1
          BY <2>1, <4>1
        <4>4. /\ At(got + j) \in Byte
              /\ IF (got + j) % 4 = 0
                   THEN At(got + j)[2] % 4 = 0
                   ELSE At(got + j) = << At((got + j) - 1)[1], At((got + j) - 1)[2] + 1 >>
          BY <1>4, <4>1 DEF QueueWhole
        <4>5. QED
          BY <4>2, <4>3, <4>4
      <3>2. KfifoLen' % 4 = 0
        BY <1>1, <1>5, <2>1, <2>2
      <3>3. QED
        BY <1>4, <3>1, <3>2 DEF QueueWhole
    <2>5. QED
      BY <1>6, <2>2, <2>3, <2>4 DEF FrameInv
  <1>12. QED
    BY <1>7, <1>8, <1>9, <1>10, <1>11 DEF Reader

(* RESET empties the queue between two frames: whoever adds or takes bytes *)
(* does not let go of the processor inside one.                            *)
LEMMA FrameReset ==
  ASSUME IInv, Turn, HalfReset, ~Preempt, FrameInv,
         NEW p \in Resetters, Reset(p) \/ ResetRest(p)
  PROVE  FrameInv'
  <1> USE Roles DEF Runs, Goes, Pauses
  <1>1. CallTypes
    BY DEF IInv, TypeOK
  <1>2. /\ \A q \in Process \ {p} : pc[q] \in { "idle", "down", "wait", "asleep" }
        /\ reader \in { "check", "wait", "asleep", "play", "ended" }
    BY ProcessAlone DEF Reset, ResetRest
  <1>3. /\ \A q \in Process \ {p} : pc'[q] = pc[q]
        /\ UNCHANGED << data, size, i, sent, readerVars, stopping >>
    BY <1>1 DEF Reset, ResetRest, CallTypes
  <1>4. p \notin Producers
    OBVIOUS
  <1>5. CallsWhole'
    BY <1>3, <1>4 DEF FrameInv, CallsWhole
  <1>6. ReaderWhole'
    BY <1>2, <1>3 DEF FrameInv, ReaderWhole, FrameTaken, readerVars
  <1>7. CASE Reset(p)
    <2>1. pc'[p] \in { "resetIn", "resetOut" }
      BY <1>1, <1>7 DEF Reset, CallTypes
    <2>2. QED
      BY <1>5, <1>6, <2>1 DEF FrameInv, Resetting
  <1>8. CASE ResetRest(p)
    <2>1. in' = 0 /\ out' = 0
      BY <1>8 DEF ResetRest, HalfReset
    <2>2. KfifoLen' = 0
      <3>1. (0 - 0) % Modulus = 0
        BY Sizes
      <3>2. QED
        BY <2>1, <3>1 DEF KfifoLen
    <2>3. \A q \in Producers : pc'[q] \notin Adding
      BY <1>2, <1>3, <1>4 DEF Adding
    <2>4. PlaceInv'
      <3>1. \A q \in Producers : pc'[q] \notin { "copy", "load", "store" }
        BY <2>3 DEF Adding
      <3>2. reader' \notin { "load", "store" }
        BY <1>2, <1>3 DEF readerVars
      <3>3. KfifoLen' <= Size
        BY <2>2, Sizes
      <3>4. QED
        BY <3>1, <3>2, <3>3 DEF PlaceInv, AddInv, TakeInv
    <2>5. QueueWhole'
      BY <2>2, <2>3 DEF QueueWhole
    <2>6. QED
      BY <1>5, <1>6, <2>4, <2>5 DEF FrameInv
  <1>9. QED
    BY <1>7, <1>8

(* rmmod wakes the reader, wherever the queue is.                          *)
LEMMA FrameUnload ==
  ASSUME IInv, Turn, ~Preempt, FrameInv, Unload
  PROVE  FrameInv'
  <1> USE DEF Runs, Pauses
  <1>1. /\ UNCHANGED << kfifo, procVars, acBuffer, got, sawOut, taken >>
        /\ stopping' /\ (reader' = reader \/ (reader = "asleep" /\ reader' = "wait"))
        /\ cpu = none
    BY DEF Unload
  <1>2. /\ \A q \in Process : pc[q] \in { "idle", "down", "wait", "asleep" }
        /\ reader \in { "check", "wait", "asleep", "play", "ended" }
    BY <1>1, ReaderAlone, DriverAssumption DEF Turn
  <1>3. CallsWhole /\ ReaderWhole /\ PlaceInv /\ QueueWhole
    BY <1>2 DEF FrameInv, Resetting
  <1>4. ReaderWhole'
    BY <1>1, <1>2, <1>3 DEF ReaderWhole, FrameTaken
  <1>5. CallsWhole'
    BY <1>1, <1>3 DEF CallsWhole, procVars
  <1>6. PlaceInv'
    <2>1. \A q \in Producers : pc'[q] \notin { "copy", "load", "store" }
      BY <1>1, <1>2, Roles DEF procVars
    <2>2. QED
      BY <1>1, <1>2, <1>3, <2>1, PlaceQuiet DEF procVars
  <1>7. QueueWhole'
    <2>1. KfifoLen \in Nat
      BY LenIs DEF IInv, TypeOK
    <2>2. QED
      BY <1>1, <1>3, <2>1, KfifoSame, QueueQuiet DEF procVars
  <1>8. QED
    BY <1>4, <1>5, <1>6, <1>7 DEF FrameInv

LEMMA FrameInit == Init => FrameInv
  <1> SUFFICES ASSUME Init PROVE FrameInv
    OBVIOUS
  <1>1. PlaceInv /\ IInv
    BY StreamInit, InitInv DEF StreamInv
  <1>2. KfifoLen = 0
    <2>1. (0 - 0) % Modulus = 0
      BY Sizes
    <2>2. QED
      BY <2>1 DEF Init, KfifoLen
  <1>3. CallsWhole
    BY Roles DEF Init, CallsWhole, Adding, InWriteData
  <1>4. ReaderWhole
    BY DEF Init, ReaderWhole
  <1>5. QueueWhole
    BY <1>2, Roles DEF Init, QueueWhole, Adding
  <1>6. QED
    BY <1>1, <1>3, <1>4, <1>5 DEF FrameInv

LEMMA FrameNext ==
  ASSUME Preempt = FALSE, \A n \in Batches : n % 4 = 0,
         IInv, Turn, HalfReset, FrameInv, [Next]_vars
  PROVE  FrameInv'
  <1>1. ~Preempt
    OBVIOUS
  <1>2. CASE \/ \E p \in Process : Open(p) \/ Close(p)
             \/ \E p \in Writers : Write(p) \/ Down(p) \/ DownInterrupted(p)
             \/ \E p \in Delayers : Delay(p)
    BY <1>1, <1>2, FrameCall
  <1>3. ASSUME NEW p \in Producers, WriteData(p)
        PROVE  FrameInv'
    BY <1>1, <1>3, FrameCall, FrameSpace, FrameFill, FrameCopyIn, FrameStoreIn
       DEF WriteData
  <1>4. ASSUME NEW p \in Resetters, Reset(p) \/ ResetRest(p)
        PROVE  FrameInv'
    BY <1>1, <1>4, FrameReset
  <1>5. CASE Unload
    BY <1>1, <1>5, FrameUnload
  <1>6. CASE Reader
    BY <1>1, <1>6, FrameReader
  <1>7. CASE UNCHANGED vars
    BY <1>7 DEF vars, kfifo, procVars, readerVars, FrameInv, CallsWhole, ReaderWhole, FrameTaken,
       Resetting, PlaceInv, AddInv, TakeInv, QueueWhole, At, KfifoLen, Slot
  <1>8. QED
    BY <1>2, <1>3, <1>4, <1>5, <1>6, <1>7 DEF Next

(* On one processor that is not preempted, whoever calls the driver and    *)
(* however its calls are mixed, interrupted and reset, what the thread     *)
(* plays is always one whole frame of one caller, or nothing of the queue  *)
(* when it is stopped: as long as every write() is a whole number of       *)
(* frames.  No thread gives up the processor inside a frame, because the   *)
(* queue's size is a whole number of frames too: full is between two.      *)
THEOREM WholeFrames ==
  ASSUME Preempt = FALSE, \A n \in Batches : n % 4 = 0
  PROVE  Spec => []FramesIntact
  <1>1. IInv /\ Turn /\ HalfReset /\ FrameInv /\ [Next]_vars => FrameInv'
    BY FrameNext
  <1>2. FrameInv => FramesIntact
    <2>1. ASSUME FrameInv, reader = "play", FrameTaken
          PROVE  FramesIntact
      <3>1. /\ acBuffer[1] \in Byte /\ acBuffer[1][2] % 4 = 0
            /\ \A k \in 2 .. 4 :
                 acBuffer[k] = << acBuffer[1][1], acBuffer[1][2] + k - 1 >>
        BY <2>1 DEF FrameTaken
      <3>2. acBuffer[1][1] \in Producers /\ acBuffer[1][2] \in Nat
        BY <3>1 DEF Byte
      <3>3. \A k \in 2 .. 4 : acBuffer[k] \in Byte
        BY <3>1, <3>2 DEF Byte
      <3>4. \A k \in 1 .. 4 : acBuffer[k] # Junk
        BY <3>1, <3>3, DriverAssumption DEF Byte
      <3>5. QED
        BY <2>1, <3>1, <3>4 DEF FramesIntact, FrameTaken, AFrame
    <2>2. QED
      BY <2>1 DEF FrameInv, ReaderWhole, FramesIntact
  <1>3. QED
    BY Invariance, Turns, HalfResets, FrameInit, <1>1, <1>2, PTL DEF Spec

-----------------------------------------------------------------------------
(* Wake-ups.                                                               *)

(* Where a process is that will wake the reader before it sleeps.          *)
Waking == { "fill", "copy", "load", "store", "wake", "resetIn", "resetOut" }

LEMMA WokenQuiet ==
  ASSUME ReaderIsWoken, reader' = reader, in' = in, out' = out,
         \A p \in Process : pc[p] \in Waking => pc'[p] \in Waking
  PROVE  ReaderIsWoken'
  BY DEF ReaderIsWoken, KfifoIsEmpty, Waking

LEMMA WokenAwake == ASSUME reader' # "asleep" PROVE ReaderIsWoken'
  BY DEF ReaderIsWoken

LEMMA WokenInit == Init => ReaderIsWoken
  BY DEF Init, ReaderIsWoken

LEMMA WokenNext ==
  ASSUME Resetters = {} \/ ~Preempt, IInv, Turn, HalfReset, ReaderIsWoken,
         [Next]_vars
  PROVE  ReaderIsWoken'
  <1> USE Roles
  <1>1. pc \in [ Process -> { "idle", "down", "resetIn", "resetOut" }
                             \cup InWriteData ]
    BY DEF IInv, TypeOK, CallTypes
  <1>2. ASSUME NEW p \in Process, Open(p) \/ Close(p)
        PROVE  ReaderIsWoken'
    BY <1>2, WokenQuiet DEF Open, Close, kfifo, procVars, readerVars
  <1>3. ASSUME NEW p \in Writers, Write(p) \/ Down(p) \/ DownInterrupted(p)
        PROVE  ReaderIsWoken'
    <2>1. pc[p] \notin Waking /\ reader' = reader /\ in' = in /\ out' = out
      BY <1>3 DEF Write, Down, DownInterrupted, Waking, kfifo, readerVars
    <2>2. \A q \in Process \ {p} : pc'[q] = pc[q]
      BY <1>1, <1>3 DEF Write, Down, DownInterrupted
    <2>3. QED
      BY <2>1, <2>2, WokenQuiet
  <1>4. ASSUME NEW p \in Delayers, Delay(p)
        PROVE  ReaderIsWoken'
    <2>1. pc[p] \notin Waking /\ reader' = reader /\ in' = in /\ out' = out
      BY <1>4 DEF Delay, Waking, kfifo, readerVars
    <2>2. \A q \in Process \ {p} : pc'[q] = pc[q]
      BY <1>1, <1>4 DEF Delay
    <2>3. QED
      BY <2>1, <2>2, WokenQuiet
  <1>5. ASSUME NEW p \in Producers, WriteData(p)
        PROVE  ReaderIsWoken'
    <2>1. CASE WaitForSpace(p) \/ SpaceInterrupted(p) \/ Return(p)
      <3>1. pc[p] \notin Waking /\ reader' = reader /\ in' = in /\ out' = out
        BY <2>1 DEF WaitForSpace, SpaceInterrupted, Return, Waking, kfifo,
           readerVars
      <3>2. \A q \in Process \ {p} : pc'[q] = pc[q]
        BY <1>1, <2>1 DEF WaitForSpace, SpaceInterrupted, Return
      <3>3. QED
        BY <3>1, <3>2, WokenQuiet
    <2>2. CASE Fill(p) \/ CopyIn(p) \/ LoadIn(p)
      <3>1. reader' = reader /\ in' = in /\ out' = out
        BY <2>2 DEF Fill, CopyIn, LoadIn, kfifo, readerVars
      <3>2. \A q \in Process : pc[q] \in Waking => pc'[q] \in Waking
        BY <1>1, <2>2 DEF Fill, CopyIn, LoadIn, Waking
      <3>3. QED
        BY <3>1, <3>2, WokenQuiet
    <2>3. CASE StoreIn(p)
      <3>1. pc'[p] = "fill"
        BY <1>1, <2>3 DEF StoreIn
      <3>2. QED
        BY <3>1 DEF ReaderIsWoken
    <2>4. CASE WakeReader(p)
      BY <2>4, WokenAwake DEF WakeReader
    <2>5. QED
      BY <1>5, <2>1, <2>2, <2>3, <2>4 DEF WriteData
  <1>6. ASSUME NEW p \in Resetters, Reset(p) \/ ResetRest(p)
        PROVE  ReaderIsWoken'
    <2>1. CASE Reset(p)
      <3>1. pc'[p] \in { "resetIn", "resetOut" }
        BY <1>1, <2>1 DEF Reset
      <3>2. QED
        BY <3>1 DEF ReaderIsWoken
    <2>2. CASE ResetRest(p)
      <3>1. in' = 0 /\ out' = 0
        BY <1>6, <2>2 DEF ResetRest, HalfReset
      <3>2. QED
        BY <3>1 DEF ReaderIsWoken, KfifoIsEmpty
    <2>3. QED
      BY <1>6, <2>1, <2>2
  <1>7. CASE Unload
    BY <1>7, WokenAwake DEF Unload
  <1>8. CASE WaitForData
    BY <1>8 DEF WaitForData, ReaderIsWoken, KfifoIsEmpty, kfifo
  <1>9. CASE ShouldStop \/ CopyOut \/ LoadOut \/ StoreOut \/ Play
    BY <1>9, WokenAwake DEF ShouldStop, CopyOut, LoadOut, StoreOut, Play
  <1>10. CASE UNCHANGED vars
    BY <1>10, WokenQuiet DEF vars, kfifo, procVars, readerVars
  <1>11. QED
    BY <1>2, <1>3, <1>4, <1>5, <1>6, <1>7, <1>8, <1>9, <1>10 DEF Next, Reader

(* The reader does not sleep through what is queued: its test and its      *)
(* sleep are one step for the wake-up, and every process that adds a byte  *)
(* wakes it afterwards.  Neither the semaphore nor the single processor is *)
(* needed for it, but where the queue is reset: between the two stores of  *)
(* a RESET on another processor a writer can add bytes and wake the thread *)
(* for nothing.                                                            *)
THEOREM ReaderWoken ==
  ASSUME Resetters = {} \/ Preempt = FALSE
  PROVE  Spec => []ReaderIsWoken
  <1>1. IInv /\ Turn /\ HalfReset /\ ReaderIsWoken /\ [Next]_vars => ReaderIsWoken'
    BY WokenNext
  <1>2. QED
    BY Invariance, Turns, HalfResets, WokenInit, <1>1, PTL DEF Spec

(* A writer that waits for space will be woken: the queue is full, and the *)
(* reader up, or the reader is about to wake it.                           *)
WriterIsWoken ==
  \A p \in Producers :
    pc[p] = "asleep" => /\ reader # "asleep"
                        /\ KfifoIsFull \/ reader = "play"

LEMMA FullNotEmpty == ASSUME KfifoTypes, KfifoIsFull PROVE in # out
  <1>1. in - in = 0 /\ 0 % Modulus = 0
    BY Sizes DEF KfifoTypes
  <1>2. QED
    BY <1>1, Sizes DEF KfifoIsFull, KfifoLen, KfifoTypes

(* Who goes to sleep for want of space does so while no other producer is  *)
(* on its way to wake the reader: with the semaphore because it is alone   *)
(* in writeData, on one processor because the others do not stop there.    *)
LEMMA AloneLemma ==
  ASSUME Resetters = {}, Delayers = {} \/ ~Preempt, IInv, Turn,
         NEW p \in Producers, pc[p] = "wait", Runs(p)
  PROVE  \A q \in Process : pc[q] \notin Waking
  <1>1. Process = Producers
    BY DEF Process
  <1>2. CASE Delayers = {}
    <2>1. \A q \in Producers \ {p} : pc[q] \notin InWriteData
      BY <1>2, Roles DEF IInv, TypeOK, LockIsHeld, Producers, InWriteData
    <2>2. QED
      BY <1>1, <2>1 DEF InWriteData, Waking, IInv, CallInv
  <1>3. CASE ~Preempt
    <2>1. \A q \in Process \ {p} : pc[q] \in { "idle", "down", "wait", "asleep" }
      BY <1>3, Roles, ProcessAlone DEF Runs
    <2>2. QED
      BY <2>1 DEF Waking
  <1>4. QED
    BY <1>2, <1>3

LEMMA SleepQuiet ==
  ASSUME WriterIsWoken, reader' = reader, in' = in, out' = out,
         \A p \in Producers : pc'[p] = "asleep" => pc[p] = "asleep"
  PROVE  WriterIsWoken'
  BY DEF WriterIsWoken, KfifoIsFull, KfifoLen

LEMMA SleepNext ==
  ASSUME Resetters = {}, Delayers = {} \/ ~Preempt, IInv, Turn, PlaceInv,
         ReaderIsWoken, WriterIsWoken, [Next]_vars
  PROVE  WriterIsWoken'
  <1> USE Roles
  <1>1. pc \in [ Process -> { "idle", "down", "resetIn", "resetOut" }
                             \cup InWriteData ]
    BY DEF IInv, TypeOK, CallTypes
  <1>2. ASSUME NEW p \in Process, Open(p) \/ Close(p)
        PROVE  WriterIsWoken'
    BY <1>2, SleepQuiet DEF Open, Close, kfifo, procVars, readerVars
  <1>3. ASSUME NEW p \in Writers, Write(p) \/ Down(p) \/ DownInterrupted(p)
        PROVE  WriterIsWoken'
    <2>1. reader' = reader /\ in' = in /\ out' = out
      BY <1>3 DEF Write, Down, DownInterrupted, kfifo, readerVars
    <2>2. \A q \in Producers : pc'[q] = "asleep" => pc[q] = "asleep"
      BY <1>1, <1>3 DEF Write, Down, DownInterrupted
    <2>3. QED
      BY <2>1, <2>2, SleepQuiet
  <1>4. ASSUME NEW p \in Delayers, Delay(p)
        PROVE  WriterIsWoken'
    <2>1. reader' = reader /\ in' = in /\ out' = out
      BY <1>4 DEF Delay, kfifo, readerVars
    <2>2. \A q \in Producers : pc'[q] = "asleep" => pc[q] = "asleep"
      BY <1>1, <1>4 DEF Delay
    <2>3. QED
      BY <2>1, <2>2, SleepQuiet
  <1>5. ASSUME NEW p \in Producers, WriteData(p)
        PROVE  WriterIsWoken'
    <2>1. CASE WaitForSpace(p)
      <3>1. /\ pc[p] = "wait" /\ reader' = reader /\ in' = in /\ out' = out
            /\ \A q \in Producers \ {p} : pc'[q] = pc[q]
            /\ pc'[p] = "asleep" => KfifoIsFull
        BY <1>1, <2>1 DEF WaitForSpace, kfifo, readerVars
      <3>2. \A q \in Process : pc[q] \notin Waking
        BY <2>1, <3>1, AloneLemma DEF WaitForSpace, Goes, Pauses
      <3>3. KfifoIsFull => reader # "asleep"
        BY <3>2, FullNotEmpty DEF ReaderIsWoken, KfifoIsEmpty, IInv, TypeOK, Waking
      <3>4. QED
        BY <3>1, <3>3 DEF WriterIsWoken, KfifoIsFull, KfifoLen
    <2>2. CASE SpaceInterrupted(p) \/ Fill(p) \/ CopyIn(p) \/ LoadIn(p)
                 \/ Return(p)
      <3>1. reader' = reader /\ in' = in /\ out' = out
        BY <2>2 DEF SpaceInterrupted, Fill, CopyIn, LoadIn, Return, kfifo,
           readerVars
      <3>2. \A q \in Producers : pc'[q] = "asleep" => pc[q] = "asleep"
        BY <1>1, <2>2 DEF SpaceInterrupted, Fill, CopyIn, LoadIn, Return
      <3>3. QED
        BY <3>1, <3>2, SleepQuiet
    <2>3. CASE StoreIn(p)
      <3>1. ~KfifoIsFull
        BY <2>3, LenIs, Sizes DEF StoreIn, PlaceInv, AddInv, KfifoIsFull, IInv, TypeOK
      <3>2. reader' = reader /\ \A q \in Producers : pc'[q] = "asleep" => pc[q] = "asleep"
        BY <1>1, <2>3 DEF StoreIn, readerVars
      <3>3. QED
        BY <3>1, <3>2 DEF WriterIsWoken
    <2>4. CASE WakeReader(p)
      <3>1. /\ reader' = IF reader = "asleep" THEN "wait" ELSE reader
            /\ in' = in /\ out' = out
            /\ \A q \in Producers : pc'[q] = "asleep" => pc[q] = "asleep"
        BY <1>1, <2>4 DEF WakeReader, kfifo
      <3>2. QED
        BY <3>1 DEF WriterIsWoken, KfifoIsFull, KfifoLen
    <2>5. QED
      BY <1>5, <2>1, <2>2, <2>3, <2>4 DEF WriteData
  <1>6. CASE Unload
    BY <1>6 DEF Unload, WriterIsWoken, KfifoIsFull, KfifoLen, kfifo, procVars
  <1>7. CASE WaitForData
    <2>1. /\ reader = "wait" /\ pc' = pc /\ in' = in /\ out' = out
          /\ in = out \/ reader' = "out"
      BY <1>7 DEF WaitForData, KfifoIsEmpty, kfifo, procVars
    <2>2. ASSUME NEW p \in Producers, pc[p] = "asleep"
          PROVE  KfifoIsFull /\ in # out
      BY <2>1, <2>2, FullNotEmpty DEF WriterIsWoken, IInv, TypeOK
    <2>3. QED
      BY <2>1, <2>2 DEF WriterIsWoken, KfifoIsFull, KfifoLen
  <1>8. CASE ShouldStop \/ CopyOut \/ LoadOut
    <2>1. /\ reader # "play" /\ reader' # "asleep"
          /\ pc' = pc /\ in' = in /\ out' = out
      BY <1>8 DEF ShouldStop, CopyOut, LoadOut, kfifo, procVars
    <2>2. QED
      BY <2>1 DEF WriterIsWoken, KfifoIsFull, KfifoLen
  <1>9. CASE StoreOut
    BY <1>9 DEF StoreOut, WriterIsWoken
  <1>10. CASE Play
    <2>1. \A p \in Producers : pc'[p] # "asleep"
      BY <1>10 DEF Play
    <2>2. QED
      BY <2>1 DEF WriterIsWoken
  <1>11. CASE UNCHANGED vars
    BY <1>11, SleepQuiet DEF vars, kfifo, procVars, readerVars
  <1>12. QED
    BY <1>2, <1>3, <1>4, <1>5, <1>6, <1>7, <1>8, <1>9, <1>10, <1>11
       DEF Next, Reader

(* A writer waiting for space and the reader waiting for data never wait   *)
(* for each other, as long as nobody resets the queue: for any number of   *)
(* writers, with signals and unload, on any number of processors.  The     *)
(* semaphore is what it takes: it keeps a second writer from moving "in"   *)
(* under one that sleeps.  DELAY, which does not take it, needs the single *)
(* processor.                                                              *)
THEOREM NeverBothAsleep ==
  ASSUME Resetters = {}, Delayers = {} \/ Preempt = FALSE
  PROVE  Spec => []NotBothAsleep
  <1>1. Init => PlaceInv /\ WriterIsWoken
    BY StreamInit, Roles DEF Init, WriterIsWoken, StreamInv
  <1>2. IInv /\ Turn /\ PlaceInv /\ [Next]_vars => PlaceInv'
    BY OneAddsLemma, PlaceNext
  <1>3. IInv /\ Turn /\ PlaceInv /\ ReaderIsWoken /\ WriterIsWoken /\ [Next]_vars
          => WriterIsWoken'
    BY SleepNext
  <1>4. WriterIsWoken => NotBothAsleep
    BY DEF WriterIsWoken, NotBothAsleep
  <1>5. Spec => []ReaderIsWoken
    BY ReaderWoken
  <1>6. QED
    BY Invariance, Turns, <1>1, <1>2, <1>3, <1>4, <1>5, PTL DEF Spec
=============================================================================
