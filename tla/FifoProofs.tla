----------------------------- MODULE FifoProofs -----------------------------
(***************************************************************************)
(* The ring driven by any sequence of calls is a bounded queue, for every  *)
(* size and every set of bytes.                                            *)
(***************************************************************************)
EXTENDS FifoMachine, FifoLemmas

LEMMA SizePositive == Size \in Nat \ {0}
  BY SizeAssumption DEF ValidSize

(* The ring stays one that fifo.c can work on, whatever the calls.         *)
THEOREM TypeCorrect == Spec => []TypeOK
  <1>1. Init => TypeOK
    BY SizePositive, InitLemma DEF Init, TypeOK
  <1>2. TypeOK /\ [Next]_vars => TypeOK'
    <2> SUFFICES ASSUME TypeOK, [Next]_vars
                 PROVE  TypeOK'
      OBVIOUS
    <2> USE SizePositive DEF TypeOK
    <2>1. ASSUME NEW byte \in Byte, Write(byte)
          PROVE  TypeOK'
      <3>1. CASE IsFIFOFull(fifo)
        BY <2>1, <3>1 DEF Write, WriteFIFO
      <3>2. CASE ~IsFIFOFull(fifo)
        <4>1. fifo.fifo_count < Size
          BY <3>2, FIFOShape DEF IsFIFOFull
        <4>2. QED
          BY <2>1, <4>1, WriteLemma DEF Write
      <3>3. QED
        BY <3>1, <3>2
    <2>2. CASE Read
      <3>1. CASE IsFIFOEmpty(fifo)
        BY <2>2, <3>1 DEF Read, ReadFIFO
      <3>2. CASE ~IsFIFOEmpty(fifo)
        <4>1. fifo.fifo_count > 0
          BY <3>2, FIFOShape DEF IsFIFOEmpty
        <4>2. QED
          BY <2>2, <4>1, ReadLemma DEF Read
      <3>3. QED
        BY <3>1, <3>2
    <2>3. CASE Reset
      BY <2>3, ResetLemma DEF Reset
    <2>4. CASE UNCHANGED vars
      BY <2>4 DEF vars
    <2>5. QED
      BY <2>1, <2>2, <2>3, <2>4 DEF Next
  <1>3. QED
    BY <1>1, <1>2, PTL DEF Spec

(* Every run of the ring is a run of the bounded queue: initFIFO gives an  *)
(* empty queue, and each writeFIFO, readFIFO and resetFIFO, refused or     *)
(* not, is a step the queue allows.                                        *)
THEOREM Refinement == Spec => IsByteQueue
  <1> USE SizePositive
  <1>1. Init => Queue!Init
    <2> SUFFICES ASSUME Init
                 PROVE  Queue!Init
      OBVIOUS
    <2>1. fifo \in FIFO(Size) /\ fifo.fifo_count = 0
      BY InitLemma DEF Init
    <2>2. Contents(fifo) = << >>
      BY <2>1, ContentsLemma, EmptySeq
    <2>3. QED
      BY <2>2 DEF Init, Queue!Init
  <1>2. TypeOK /\ [Next]_vars => [Queue!Next]_<<Contents(fifo), ret>>
    <2> SUFFICES ASSUME TypeOK, [Next]_vars
                 PROVE  Queue!Next \/ UNCHANGED <<Contents(fifo), ret>>
      OBVIOUS
    <2> DEFINE q == Contents(fifo)
    <2>1. fifo \in FIFO(Size)
      BY DEF TypeOK
    <2>2. q \in Seq(Byte) /\ Len(q) = fifo.fifo_count
      BY <2>1, ContentsLemma
    <2>3. fifo.fifo_count \in 0 .. Size /\ fifo.fifo_size = Size
      BY <2>1, FIFOShape
    <2>4. ASSUME NEW byte \in Byte, Write(byte)
          PROVE  Queue!Next
      <3>1. CASE IsFIFOFull(fifo)
        <4>1. Len(q) = Size /\ ret' = -1 /\ fifo' = fifo
          BY <2>2, <2>3, <2>4, <3>1
             DEF Write, WriteFIFO, WriteResult, IsFIFOFull
        <4>2. Queue!Put(byte)
          BY <4>1 DEF Queue!Put
        <4>3. QED
          BY <4>2 DEF Queue!Next
      <3>2. CASE ~IsFIFOFull(fifo)
        <4>1. fifo.fifo_count < Size
          BY <2>3, <3>2 DEF IsFIFOFull
        <4>2. q' = Append(q, byte)
          BY <2>1, <2>4, <4>1, AppendLemma DEF Write
        <4>3. ret' = Len(q) + 1
          BY <2>2, <2>4, <3>2 DEF Write, WriteResult
        <4>4. Queue!Put(byte)
          BY <2>2, <4>1, <4>2, <4>3 DEF Queue!Put
        <4>5. QED
          BY <4>4 DEF Queue!Next
      <3>3. QED
        BY <3>1, <3>2
    <2>5. CASE Read
      <3>1. CASE IsFIFOEmpty(fifo)
        <4>1. Len(q) = 0
          BY <2>2, <3>1 DEF IsFIFOEmpty
        <4>2. q = << >>
          BY <2>2, <4>1, EmptySeq
        <4>3. ret' = -1 /\ fifo' = fifo
          BY <2>5, <3>1 DEF Read, ReadFIFO, ReadResult
        <4>4. QED
          BY <4>2, <4>3 DEF Queue!Next, Queue!Get
      <3>2. CASE ~IsFIFOEmpty(fifo)
        <4>1. fifo.fifo_count > 0
          BY <2>3, <3>2 DEF IsFIFOEmpty
        <4>2. q # << >> /\ ret' = Head(q) /\ q' = Tail(q)
          BY <2>1, <2>5, <4>1, TailLemma DEF Read
        <4>3. QED
          BY <4>2 DEF Queue!Next, Queue!Get
      <3>3. QED
        BY <3>1, <3>2
    <2>6. CASE Reset
      <3>1. fifo' \in FIFO(Size) /\ fifo'.fifo_count = 0
        BY <2>1, <2>6, ResetLemma DEF Reset
      <3>2. Contents(fifo') = << >>
        BY <3>1, ContentsLemma, EmptySeq
      <3>3. QED
        BY <2>6, <3>2 DEF Reset, Queue!Next, Queue!Reset
    <2>7. CASE UNCHANGED vars
      BY <2>7 DEF vars
    <2>8. QED
      BY <2>4, <2>5, <2>6, <2>7 DEF Next
  <1>3. QED
    BY <1>1, <1>2, TypeCorrect, PTL DEF Spec, IsByteQueue, Queue!Spec
=============================================================================
