------------------------------ MODULE ByteQueue ------------------------------
(***************************************************************************)
(* What the server expects of fifo.c: a queue of at most Capacity bytes    *)
(* that refuses a byte when it is full and has none to give when it is     *)
(* empty, saying so with -1, and that gives the bytes back in the order    *)
(* they were put in.                                                       *)
(***************************************************************************)
EXTENDS Integers, Sequences

CONSTANTS Capacity, Byte

VARIABLES
  q,    (* the bytes in the queue, oldest first                            *)
  ret   (* what the last call returned                                     *)

Init == q = << >> /\ ret = 0

Put(b) ==
  \/ /\ Len(q) < Capacity
     /\ q' = Append(q, b)
     /\ ret' = Len(q) + 1
  \/ /\ Len(q) = Capacity
     /\ ret' = -1
     /\ UNCHANGED q

Get ==
  \/ /\ q # << >>
     /\ ret' = Head(q)
     /\ q' = Tail(q)
  \/ /\ q = << >>
     /\ ret' = -1
     /\ UNCHANGED q

Reset == q' = << >> /\ UNCHANGED ret

Next == (\E b \in Byte : Put(b)) \/ Get \/ Reset

Spec == Init /\ [][Next]_<<q, ret>>
=============================================================================
