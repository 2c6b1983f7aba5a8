----------------------------- MODULE FifoMachine -----------------------------
(***************************************************************************)
(* One FIFO of fifo.c under every sequence of calls: the state is the ring *)
(* and the value the last call returned.                                   *)
(***************************************************************************)
EXTENDS Fifo

CONSTANT Size   (* the argument of initFIFO                                *)

ASSUME SizeAssumption == Size \in Nat /\ ValidSize(Size)

VARIABLES fifo, ret

vars == << fifo, ret >>

Init ==
  /\ fifo = InitFIFO(Size)
  /\ ret = 0

Write(byte) ==
  /\ fifo' = WriteFIFO(fifo, byte)
  /\ ret' = WriteResult(fifo)

Read ==
  /\ fifo' = ReadFIFO(fifo)
  /\ ret' = ReadResult(fifo)

Reset ==
  /\ fifo' = ResetFIFO(fifo)
  /\ UNCHANGED ret

Next == (\E byte \in Byte : Write(byte)) \/ Read \/ Reset

Spec == Init /\ [][Next]_vars

-----------------------------------------------------------------------------
(* The ring is always one its functions can be called on: count, first and *)
(* last agree, and every slot between them holds a byte someone wrote.     *)
TypeOK == fifo \in FIFO(Size)

(* fifo.c is a bounded queue: whatever the order of writeFIFO, readFIFO    *)
(* and resetFIFO calls, including across the wrap of both indices, bytes   *)
(* come back in order, and -1 is returned exactly when the ring is full or *)
(* empty.                                                                  *)
Queue == INSTANCE ByteQueue WITH
           Capacity <- Size, q <- Contents(fifo), ret <- ret

IsByteQueue == Queue!Spec
=============================================================================
