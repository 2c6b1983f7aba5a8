------------------------------ MODULE FramePipe ------------------------------
(***************************************************************************)
(* What a SidPi player promises the program that feeds it: every frame     *)
(* that was accepted reaches the chip exactly once, in the order in which  *)
(* it was accepted, its register and its value taken from the same frame,  *)
(* and no more than Depth frames wait between the two ends.                *)
(***************************************************************************)
EXTENDS Integers

CONSTANT Depth   (* the frames that fit between the two ends              *)

VARIABLES
  accepted,   (* frames taken from the client so far                      *)
  played,     (* frames written to the chip so far                        *)
  chip        (* the register and the value last put on its bus           *)

vars == << accepted, played, chip >>

(* The bytes of the n-th frame that go on the bus.                         *)
OnBus(n) == << <<n, 0>>, <<n, 1>> >>

Init == accepted = 0 /\ played = 0 /\ chip = << >>

Accept ==
  /\ accepted - played < Depth
  /\ accepted' = accepted + 1
  /\ UNCHANGED << played, chip >>

Play ==
  /\ played < accepted
  /\ played' = played + 1
  /\ chip' = OnBus(played)
  /\ UNCHANGED accepted

Next == Accept \/ Play

Spec == Init /\ [][Next]_vars
=============================================================================
