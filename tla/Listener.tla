------------------------------ MODULE Listener ------------------------------
(***************************************************************************)
(* The connections of the network server: main of sidpiserver.c, which     *)
(* serves one connection at a time and takes what one read() returns for   *)
(* one packet; clients that reach it over TCP; and clients that reach it   *)
(* through Repeater.java, which copies both ways as much as is there.      *)
(*                                                                         *)
(* A packet is two pieces, since a read() may end inside it: pieces 2n - 1 *)
(* and 2n are the n-th packet of a client.  Streams lose and reorder       *)
(* nothing, so a place in a stream is a count of pieces or of answers.     *)
(***************************************************************************)
EXTENDS Integers, Sequences, Functions

CONSTANTS
  Direct,      (* clients that connect to the server                       *)
  Proxied,     (* clients that connect to the Repeater                     *)
  Hasty,       (* those that send on without waiting for answers           *)
  MaxPackets,  (* bound: packets of all clients together                   *)
  none

Client == Direct \cup Proxied

ASSUME ListenerAssumption ==
  /\ Direct \cap Proxied = {} /\ Hasty \subseteq Client
  /\ none \notin Client
  /\ MaxPackets \in Nat

VARIABLES
  srv,        (* where main is                                             *)
  new_fd,     (* whose connection it serves                                *)
  dataWrite,  (* the packet it is about to answer, 0 if it read no packet  *)
  backlog,    (* connections to the server that wait for accept            *)
  link,       (* each client's connection to the server, of its own or     *)
              (* made by the Repeater                                      *)
  repeater,   (* where the Repeater is                                     *)
  relay,      (* the client it serves                                      *)
  queue,      (* connections to it that wait for accept                    *)
  sock,       (* each client's own connection                              *)
  sent,       (* pieces the client has sent                                *)
  relayed,    (* pieces the Repeater has passed on                         *)
  taken,      (* pieces main has read                                      *)
  answers,    (* the packets main has answered, in its order               *)
  returned,   (* answers the Repeater has passed back                      *)
  received    (* answers the client has read                               *)

srvVars    == << srv, new_fd, dataWrite >>
proxyVars  == << repeater, relay, queue >>
upStream   == << sent, relayed, taken >>
downStream == << answers, returned, received >>
vars == << srvVars, backlog, link, proxyVars, sock, upStream, downStream >>

All(x) == [ c \in Client |-> x ]

Init ==
  /\ srv = "start" /\ new_fd = none /\ dataWrite = 0
  /\ backlog = << >>
  /\ link = All("none") /\ sock = All("none")
  /\ repeater = "accept" /\ relay = none /\ queue = << >>
  /\ sent = All(0) /\ relayed = All(0) /\ taken = All(0)
  /\ answers = All(<< >>) /\ returned = All(0) /\ received = All(0)

Arrived(c)  == IF c \in Direct THEN sent[c] ELSE relayed[c]
CameBack(c) == IF c \in Direct THEN Len(answers[c]) ELSE returned[c]

-----------------------------------------------------------------------------
(* The server.                                                             *)

(* Up to the accept loop: no memory, no address, no port ends the program. *)
Startup ==
  /\ srv = "start"
  /\ srv' \in { "accept", "exited" }
  /\ UNCHANGED << new_fd, dataWrite, backlog, link, proxyVars, sock, upStream,
                  downStream >>

Accept ==
  /\ srv = "accept" /\ backlog # << >>
  /\ new_fd' = Head(backlog)
  /\ backlog' = Tail(backlog)
  /\ srv' = "read"
  /\ UNCHANGED << dataWrite, link, proxyVars, sock, upStream, downStream >>

(* Fault: the packet is answered although part of it is missing.           *)
ProcessReadBufferAnyway(from, count) ==
  /\ srv' = "send" /\ dataWrite' = (from + 1) \div 2

(* processReadBuffer of "count" pieces, the first of which is piece        *)
(* "from".  Half a packet is too short and ends the program.  What follows *)
(* a packet in the same read() is not looked at.  The second half of a     *)
(* packet is taken for a header, whatever it holds.                        *)
ProcessReadBuffer(from, count) ==
  \/ /\ from % 2 = 1 /\ count = 1
     /\ srv' = "exited" /\ dataWrite' = dataWrite
  \/ /\ from % 2 = 1 /\ count > 1
     /\ srv' = "send" /\ dataWrite' = (from + 1) \div 2
  \/ /\ from % 2 = 0
     /\ srv' \in { "send", "exited" } /\ dataWrite' = 0

(* read() may return any part of what has arrived.  It returns 0 once the  *)
(* peer has closed, for ever, and that changes nothing here.               *)
Read ==
  /\ srv = "read"
  /\ \E count \in 1 .. Arrived(new_fd) - taken[new_fd] :
       /\ taken' = [ taken EXCEPT ![new_fd] = @ + count ]
       /\ ProcessReadBuffer(taken[new_fd] + 1, count)
  /\ UNCHANGED << new_fd, backlog, link, proxyVars, sock, sent, relayed,
                  downStream >>

(* To a peer that has closed the send succeeds, and the peer's reset comes *)
(* too late to be an error of read().  To one that has reset the           *)
(* connection it fails, is printed, and uses up the error.  Either way     *)
(* the connection is "dead": read() has no error to report any more, and   *)
(* one more send kills the program with SIGPIPE.                           *)
Send ==
  /\ srv = "send"
  /\ \/ /\ link[new_fd] = "open"
        /\ answers' = [ answers EXCEPT ![new_fd] = Append(@, dataWrite) ]
        /\ srv' = "read"
        /\ UNCHANGED link
     \/ /\ link[new_fd] = "ended"
        /\ \E now \in { "ended", "dead" } :
             link' = [ link EXCEPT ![new_fd] = now ]
        /\ srv' = "read"
        /\ UNCHANGED answers
     \/ /\ link[new_fd] = "reset"
        /\ link' = [ link EXCEPT ![new_fd] = "dead" ]
        /\ srv' = "read"
        /\ UNCHANGED answers
     \/ /\ link[new_fd] = "dead"
        /\ srv' = "exited"
        /\ UNCHANGED << link, answers >>
  /\ UNCHANGED << new_fd, dataWrite, backlog, proxyVars, sock, upStream,
                  returned, received >>

(* Fault: an error is waited out like the end of the stream.               *)
HangUpNever ==
  /\ srv = "read" /\ link[new_fd] = "reset"
  /\ UNCHANGED vars

(* read() fails, once: the only way out of the inner loop.                 *)
HangUp ==
  /\ srv = "read" /\ link[new_fd] = "reset"
  /\ srv' = "accept" /\ new_fd' = none
  /\ UNCHANGED << dataWrite, backlog, link, proxyVars, sock, upStream,
                  downStream >>

Interrupt ==
  /\ srv # "exited"
  /\ srv' = "exited"
  /\ UNCHANGED << new_fd, dataWrite, backlog, link, proxyVars, sock, upStream,
                  downStream >>

Server == Startup \/ Accept \/ Read \/ Send \/ HangUp

-----------------------------------------------------------------------------
(* The Repeater.                                                           *)

ProxyAccept ==
  /\ repeater = "accept" /\ queue # << >>
  /\ relay' = Head(queue) /\ queue' = Tail(queue)
  /\ repeater' = "connect"
  /\ UNCHANGED << srvVars, backlog, link, sock, upStream, downStream >>

(* System.exit(1), for any exception: the handler in the loop closes a     *)
(* closed socket, which throws again.  Answers not read make the server's  *)
(* connection end with a reset.                                            *)
ProxyExit ==
  /\ repeater' = "exited"
  /\ link' = [ link EXCEPT ![relay] =
                 IF @ # "open" THEN @
                 ELSE IF returned[relay] < Len(answers[relay])
                      THEN "reset" ELSE "ended" ]
  /\ UNCHANGED << srvVars, backlog, relay, queue, sock, upStream, downStream >>

ProxyConnect ==
  /\ repeater = "connect"
  /\ \/ /\ srv \notin { "start", "exited" }
        /\ link' = [ link EXCEPT ![relay] = "open" ]
        /\ backlog' = Append(backlog, relay)
        /\ repeater' = "up"
        /\ UNCHANGED << srvVars, relay, queue, sock, upStream, downStream >>
     \/ srv \in { "start", "exited" } /\ ProxyExit

(* in.available() and the copy to the server.  A write to a server that is *)
(* gone is noticed at once or later.                                       *)
RelayUp ==
  /\ repeater = "up"
  /\ \/ /\ \/ sock[relay] = "reset" /\ UNCHANGED relayed
           \/ sent[relay] = relayed[relay] /\ UNCHANGED relayed
           \/ \E count \in 1 .. sent[relay] - relayed[relay] :
                relayed' = [ relayed EXCEPT ![relay] = @ + count ]
        /\ repeater' = "down"
        /\ UNCHANGED << srvVars, backlog, link, relay, queue, sock, sent,
                        taken, downStream >>
     \/ srv = "exited" /\ sent[relay] > relayed[relay] /\ ProxyExit

(* Fault: the whole buffer is written, not what was read into it.          *)
RelayDownBuffer ==
  /\ repeater = "down"
  /\ returned' = [ returned EXCEPT ![relay] = Len(answers[relay]) + 1 ]
  /\ repeater' = "up"
  /\ UNCHANGED << srvVars, backlog, link, relay, queue, sock, upStream,
                  answers, received >>

(* sidIn.available() and the copy to the client.                           *)
RelayDown ==
  /\ repeater = "down"
  /\ \/ /\ \/ returned[relay] = Len(answers[relay]) /\ UNCHANGED returned
           \/ \E count \in 1 .. Len(answers[relay]) - returned[relay] :
                returned' = [ returned EXCEPT ![relay] = @ + count ]
        /\ repeater' = "up"
        /\ UNCHANGED << srvVars, backlog, link, relay, queue, sock, upStream,
                        answers, received >>
     \/ /\ sock[relay] # "open" /\ returned[relay] < Len(answers[relay])
        /\ ProxyExit

Proxy == ProxyAccept \/ ProxyConnect \/ RelayUp \/ RelayDown

-----------------------------------------------------------------------------
(* The clients.                                                            *)

Connect(c) ==
  /\ sock[c] = "none"
  /\ sock' = [ sock EXCEPT ![c] = "open" ]
  /\ \/ /\ c \in Direct /\ srv \notin { "start", "exited" }
        /\ backlog' = Append(backlog, c)
        /\ link' = [ link EXCEPT ![c] = "open" ]
        /\ UNCHANGED queue
     \/ /\ c \in Proxied /\ repeater # "exited"
        /\ queue' = Append(queue, c)
        /\ UNCHANGED << backlog, link >>
  /\ UNCHANGED << srvVars, repeater, relay, upStream, downStream >>

Served(c) == IF c \in Direct THEN srv # "exited" ELSE repeater # "exited"

(* A packet counts against the bound when its first piece is sent.         *)
Packets == FoldFunction(LAMBDA n, k : k + (n + 1) \div 2, 0, sent)

SendPiece(c) ==
  /\ sock[c] = "open" /\ Served(c)
  /\ sent[c] % 2 = 1 \/ Packets < MaxPackets
  /\ c \in Hasty \/ sent[c] % 2 = 1 \/ 2 * received[c] = sent[c]
  /\ sent' = [ sent EXCEPT ![c] = @ + 1 ]
  /\ UNCHANGED << srvVars, backlog, link, proxyVars, sock, relayed, taken,
                  downStream >>

Receive(c) ==
  /\ sock[c] = "open" /\ received[c] < CameBack(c)
  /\ received' = [ received EXCEPT ![c] = @ + 1 ]
  /\ UNCHANGED << srvVars, backlog, link, proxyVars, sock, upStream, answers,
                  returned >>

(* A client goes away: in good order, or with a reset, which it is also    *)
(* when there are answers it has not read.                                 *)
Leave(c) ==
  /\ sock[c] = "open"
  /\ \E how \in { "ended", "reset" } :
       /\ how = "ended" => received[c] = CameBack(c)
       /\ sock' = [ sock EXCEPT ![c] = how ]
       /\ link' = IF c \in Direct THEN [ link EXCEPT ![c] = how ] ELSE link
  /\ UNCHANGED << srvVars, backlog, proxyVars, upStream, downStream >>

Next ==
  \/ Server \/ Interrupt \/ Proxy
  \/ \E c \in Client : Connect(c) \/ SendPiece(c) \/ Receive(c) \/ Leave(c)

Spec == Init /\ [][Next]_vars

(* Both programs run, and clients do not stay for ever.                    *)
Fairness ==
  /\ WF_vars(Startup) /\ WF_vars(Accept) /\ WF_vars(Read) /\ WF_vars(Send)
  /\ WF_vars(HangUp) /\ WF_vars(Proxy)
  /\ \A c \in Client : WF_vars(Leave(c))

FairSpec == Spec /\ Fairness

-----------------------------------------------------------------------------
Ends == { "none", "open", "ended", "reset", "dead" }

(* Places in the streams are in their order: nothing is read, passed on or *)
(* answered before it is there.                                            *)
TypeOK ==
  /\ srv \in { "start", "accept", "read", "send", "exited" }
  /\ new_fd \in Client \cup {none} /\ dataWrite \in Nat
  /\ srv \in { "read", "send" } => new_fd # none
  /\ backlog \in Seq(Client) /\ queue \in Seq(Proxied)
  /\ repeater \in { "accept", "connect", "up", "down", "exited" }
  /\ relay \in Proxied \cup {none}
  /\ repeater \in { "connect", "up", "down" } => relay # none
  /\ link \in [ Client -> Ends ] /\ sock \in [ Client -> Ends ]
  /\ sent \in [ Client -> Nat ] /\ relayed \in [ Client -> Nat ]
  /\ taken \in [ Client -> Nat ] /\ answers \in [ Client -> Seq(Nat) ]
  /\ returned \in [ Client -> Nat ] /\ received \in [ Client -> Nat ]
  /\ \A c \in Client :
       /\ relayed[c] <= sent[c] /\ taken[c] <= Arrived(c)
       /\ returned[c] <= Len(answers[c]) /\ received[c] <= CameBack(c)

Patient == Client \ Hasty

(* To a client that waits for its answers, the server with or without the  *)
(* Repeater before it is request and reply: however TCP and the Repeater   *)
(* cut the stream, a packet gets its own answer, once, or none.            *)
RR == INSTANCE RequestReply WITH
        requests <- [ c \in Patient |-> sent[c] \div 2 ],
        answers  <- [ c \in Patient |-> answers[c] ]

IsRequestReply == RR!Spec

(* A client that does not wait may lose packets and get answers to things  *)
(* it never asked, but the answers it does get come in the order of its    *)
(* packets, each at most once.                                             *)
AnswersInOrder ==
  \A c \in Client : \A j, k \in 1 .. Len(answers[c]) :
    j < k /\ answers[c][j] # 0 /\ answers[c][k] # 0
      => answers[c][j] < answers[c][k]

(* read() returns 0 over and over.                                         *)
Spinning ==
  /\ srv = "read"
  /\ link[new_fd] \in { "ended", "dead" } /\ taken[new_fd] = Arrived(new_fd)

(* The client is gone and nothing is left to copy, which available() does  *)
(* not tell from a client that is silent.                                  *)
Polling ==
  /\ repeater \in { "up", "down" } /\ new_fd = relay
  /\ \/ sock[relay] = "reset"
     \/ sock[relay] = "ended" /\ sent[relay] = relayed[relay]
  /\ returned[relay] = Len(answers[relay])

Waits(c) == \E k \in 1 .. Len(backlog) : backlog[k] = c

(* A connection that waits is accepted once those before it are over: only *)
(* one that was closed in good order, one whose error went to a send       *)
(* instead of a read, or one that the Repeater still polls, keeps it       *)
(* waiting.                                                                *)
NextIsServed ==
  \A c \in Client :
    Waits(c) ~> new_fd = c \/ srv = "exited" \/ Spinning \/ Polling

(* A connection that waits is accepted once those before it are over.      *)
EveryoneIsServed ==
  \A c \in Client : Waits(c) ~> new_fd = c \/ srv = "exited"
=============================================================================
