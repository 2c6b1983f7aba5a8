---------------------------- MODULE RequestReply ----------------------------
(***************************************************************************)
(* What a client that waits for its answers may count on: it has at most   *)
(* one packet unanswered, every packet is answered at most once, and the   *)
(* answer it gets is the answer to the packet it sent last.                *)
(***************************************************************************)
EXTENDS Integers, Sequences

CONSTANT Patient   (* the clients that wait                                *)

VARIABLES
  requests,   (* packets each client has sent                              *)
  answers     (* the numbers of the packets it got answers to              *)

vars == << requests, answers >>

Init ==
  /\ requests = [ c \in Patient |-> 0 ]
  /\ answers = [ c \in Patient |-> << >> ]

Request(c) ==
  /\ requests[c] = Len(answers[c])
  /\ requests' = [ requests EXCEPT ![c] = @ + 1 ]
  /\ UNCHANGED answers

Answer(c) ==
  /\ Len(answers[c]) < requests[c]
  /\ answers' = [ answers EXCEPT ![c] = Append(@, requests[c]) ]
  /\ UNCHANGED requests

Next == \E c \in Patient : Request(c) \/ Answer(c)

Spec == Init /\ [][Next]_vars
=============================================================================
