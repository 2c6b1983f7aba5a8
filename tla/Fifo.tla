-------------------------------- MODULE Fifo --------------------------------
(***************************************************************************)
(* The byte ring of the network server, sidpiserver/src/fifo.c.            *)
(*                                                                         *)
(* A FIFO is a record with the fields of struct FIFO.  The functions of    *)
(* fifo.c that change it are operators from a FIFO to a FIFO; what they    *)
(* return is an operator of its own, because the callers ignore it.  The   *)
(* module has no state: FifoMachine drives these operators one call at a   *)
(* time and SidServer uses them from two threads.                          *)
(***************************************************************************)
EXTENDS Integers, Sequences

CONSTANTS
  FIFO_MAX,  (* the largest ring initFIFO agrees to allocate               *)
  Byte,      (* the values a caller puts in the ring                       *)
  Junk       (* what malloc left in a slot nothing was written to          *)

ASSUME JunkAssumption == Junk \notin Byte

(* The sizes initFIFO accepts: positive, at most FIFO_MAX, and a power of  *)
(* two, because the indices are wrapped with "& (size - 1)".               *)
ValidSize(size) ==
  /\ size \in 1 .. FIFO_MAX
  /\ \E k \in 0 .. size : 2 ^ k = size

InitFIFO(size) ==
  [ fifo_buf   |-> [ i \in 0 .. size - 1 |-> Junk ],
    fifo_size  |-> size,
    fifo_count |-> 0,
    fifo_first |-> 0,
    fifo_last  |-> 0 ]

(* Fault: the index is not masked.                                         *)
AdvanceUnmasked(f, i) == i + 1

(* (i + 1) & (size - 1): for a power of two, the remainder.                *)
Advance(f, i) == (i + 1) % f.fifo_size

FIFOCount(f)   == f.fifo_count
FIFOSize(f)    == f.fifo_size
IsFIFOEmpty(f) == f.fifo_count = 0
IsFIFOFull(f)  == f.fifo_count = f.fifo_size

(* writeFIFO: a full ring is left as it is and the caller gets -1.         *)
WriteFIFO(f, byte) ==
  IF IsFIFOFull(f)
  THEN f
  ELSE [ f EXCEPT !.fifo_buf[f.fifo_last] = byte,
                  !.fifo_last  = Advance(f, @),
                  !.fifo_count = @ + 1 ]

WriteResult(f) == IF IsFIFOFull(f) THEN -1 ELSE f.fifo_count + 1

(* readFIFO: an empty ring is left as it is and the caller gets -1.        *)
ReadFIFO(f) ==
  IF IsFIFOEmpty(f)
  THEN f
  ELSE [ f EXCEPT !.fifo_first = Advance(f, @),
                  !.fifo_count = @ - 1 ]

(* Fault: the byte is taken from the end that is written.                  *)
ReadResultLast(f) == IF IsFIFOEmpty(f) THEN -1 ELSE f.fifo_buf[f.fifo_last]

ReadResult(f) == IF IsFIFOEmpty(f) THEN -1 ELSE f.fifo_buf[f.fifo_first]

ResetFIFO(f) ==
  [ f EXCEPT !.fifo_count = 0, !.fifo_first = 0, !.fifo_last = 0 ]

-----------------------------------------------------------------------------
(* What a FIFO holds, read the way its user thinks of it.                  *)

(* The i-th byte from the front, counting from 0.                          *)
At(f, i) == f.fifo_buf[(f.fifo_first + i) % f.fifo_size]

Contents(f) == [ i \in 1 .. f.fifo_count |-> At(f, i - 1) ]

(* The rings that the functions above can be called on.                    *)
FIFO(size) ==
  { f \in [ fifo_buf   : [ 0 .. size - 1 -> Byte \cup {Junk} ],
            fifo_size  : {size},
            fifo_count : 0 .. size,
            fifo_first : 0 .. size - 1,
            fifo_last  : 0 .. size - 1 ] :
      /\ f.fifo_last = (f.fifo_first + f.fifo_count) % size
      /\ \A i \in 0 .. f.fifo_count - 1 : At(f, i) \in Byte }
=============================================================================
