---------------------------- MODULE ListenerProofs ----------------------------
(***************************************************************************)
(* What Listener promises, for any number of clients and packets: answers  *)
(* in order for everyone, and request and reply for those who wait.        *)
(***************************************************************************)
EXTENDS Listener, SequenceTheorems, TLAPS

Count(c) == Len(answers[c])

(* An answer is to a packet of which both pieces were read, ...            *)
ReadBefore ==
  \A c \in Client : \A k \in 1 .. Count(c) : 2 * answers[c][k] <= taken[c]

(* ... and so is the one about to be sent, which is a later packet.        *)
SendsNext ==
  srv = "send" /\ dataWrite # 0 =>
    /\ 2 * dataWrite <= taken[new_fd]
    /\ \A k \in 1 .. Count(new_fd) : answers[new_fd][k] < dataWrite

(* A client that waits is at most one packet ahead, which main has read    *)
(* whole or not at all, unless it has exited on half of it.                *)
Waiting(c) ==
  /\ 2 * Count(c) <= sent[c] /\ sent[c] <= 2 * Count(c) + 2
  /\ srv # "exited" => taken[c] \in { 2 * Count(c), 2 * Count(c) + 2 }
  /\ srv = "send" /\ new_fd = c =>
       dataWrite = Count(c) + 1 /\ taken[c] = 2 * Count(c) + 2

AtMostOneAhead == \A c \in Patient : Waiting(c)

IInv == TypeOK /\ AnswersInOrder /\ ReadBefore /\ SendsNext /\ AtMostOneAhead

-----------------------------------------------------------------------------
LEMMA Start == Init => IInv
<1> SUFFICES ASSUME Init PROVE IInv
  OBVIOUS
<1>1. \A c \in Client :
        /\ link[c] = "none" /\ sock[c] = "none" /\ answers[c] = << >>
        /\ sent[c] = 0 /\ relayed[c] = 0 /\ taken[c] = 0
        /\ returned[c] = 0 /\ received[c] = 0
  BY DEF Init, All
<1>2. TypeOK
  <2>1. \A c \in Client : CameBack(c) = 0 /\ Arrived(c) = 0 /\ Count(c) = 0
    BY <1>1 DEF CameBack, Arrived, Count
  <2> QED BY <1>1, <2>1 DEF Init, All, TypeOK, Ends, Count
<1>3. AnswersInOrder /\ ReadBefore /\ SendsNext
  BY <1>1 DEF Init, AnswersInOrder, ReadBefore, SendsNext, Count
<1>4. AtMostOneAhead
  BY <1>1 DEF Init, AtMostOneAhead, Waiting, Patient, Count
<1> QED BY <1>2, <1>3, <1>4 DEF IInv

-----------------------------------------------------------------------------
(* Types.                                                                  *)

(* Connections come and go without touching the streams.                   *)
StreamsKept == UNCHANGED << sent, relayed, taken, answers, returned, received >>

LEMMA KeptTypes ==
  ASSUME TypeOK, StreamsKept
  PROVE  /\ sent' \in [ Client -> Nat ] /\ relayed' \in [ Client -> Nat ]
         /\ taken' \in [ Client -> Nat ] /\ answers' \in [ Client -> Seq(Nat) ]
         /\ returned' \in [ Client -> Nat ] /\ received' \in [ Client -> Nat ]
         /\ \A c \in Client :
              /\ relayed'[c] <= sent'[c] /\ taken'[c] <= Arrived(c)'
              /\ returned'[c] <= Len(answers'[c])
              /\ received'[c] <= CameBack(c)'
BY DEF TypeOK, StreamsKept, Arrived, CameBack

LEMMA TakesHead ==
  ASSUME NEW S, NEW q \in Seq(S), q # << >>
  PROVE  Head(q) \in S /\ Tail(q) \in Seq(S)
BY HeadTailProperties

LEMMA ConnectionTypes ==
  ASSUME TypeOK,
         Startup \/ Accept \/ HangUp \/ Interrupt \/ ProxyAccept
  PROVE  TypeOK'
<1>1. StreamsKept
  BY DEF Startup, Accept, HangUp, Interrupt, ProxyAccept, StreamsKept, upStream,
         downStream
<1>2. CASE Startup \/ HangUp \/ Interrupt
  BY <1>1, <1>2, KeptTypes DEF Startup, HangUp, Interrupt, TypeOK, proxyVars
<1>3. CASE Accept
  <2>1. Head(backlog) \in Client /\ Tail(backlog) \in Seq(Client)
    BY <1>3, TakesHead DEF Accept, TypeOK
  <2> QED
    BY <1>1, <1>3, <2>1, KeptTypes, ListenerAssumption DEF Accept, TypeOK, proxyVars
<1>4. CASE ProxyAccept
  <2>1. Head(queue) \in Proxied /\ Tail(queue) \in Seq(Proxied)
    BY <1>4, TakesHead DEF ProxyAccept, TypeOK
  <2> QED
    BY <1>1, <1>4, <2>1, KeptTypes, ListenerAssumption
       DEF ProxyAccept, TypeOK, srvVars, Client
<1> QED BY <1>2, <1>3, <1>4

LEMMA ReadTypes == ASSUME TypeOK, Read PROVE TypeOK'
<1>1. new_fd \in Client
  BY DEF Read, TypeOK
<1>2. PICK count \in 1 .. Arrived(new_fd) - taken[new_fd] :
        /\ taken' = [ taken EXCEPT ![new_fd] = @ + count ]
        /\ ProcessReadBuffer(taken[new_fd] + 1, count)
  BY DEF Read
<1>3. Arrived(new_fd) \in Nat /\ taken[new_fd] \in Nat
  BY <1>1 DEF Arrived, TypeOK
<1>4. count \in Nat /\ taken[new_fd] + count \in Nat
        /\ taken[new_fd] + count <= Arrived(new_fd)
  BY <1>3
<1>5. srv' \in { "send", "exited" } /\ dataWrite' \in Nat
  <2>1. (taken[new_fd] + 1 + 1) \div 2 \in Nat
    BY <1>3
  <2> QED BY <1>2, <2>1 DEF ProcessReadBuffer, TypeOK
<1>6. UNCHANGED << new_fd, backlog, link, proxyVars, sock, sent, relayed, answers,
                   returned, received >>
  BY DEF Read, downStream
<1>7. \A c \in Client : Arrived(c)' = Arrived(c) /\ CameBack(c)' = CameBack(c)
  BY <1>6 DEF Arrived, CameBack
<1>8. taken' \in [ Client -> Nat ] /\ \A c \in Client : taken'[c] <= Arrived(c)
  BY <1>1, <1>2, <1>4 DEF TypeOK
<1>9. /\ srv' \in { "start", "accept", "read", "send", "exited" }
      /\ new_fd' = new_fd /\ new_fd # none /\ backlog' = backlog
      /\ repeater' = repeater /\ relay' = relay /\ queue' = queue
      /\ link' = link /\ sock' = sock
  BY <1>1, <1>5, <1>6, ListenerAssumption DEF Read, proxyVars
<1>10. \A c \in Client :
         /\ relayed'[c] <= sent'[c] /\ taken'[c] <= Arrived(c)'
         /\ returned'[c] <= Len(answers'[c]) /\ received'[c] <= CameBack(c)'
  BY <1>6, <1>7, <1>8 DEF TypeOK
<1> QED BY <1>5, <1>6, <1>8, <1>9, <1>10 DEF TypeOK

LEMMA SendTypes == ASSUME TypeOK, Send PROVE TypeOK'
<1>1. new_fd \in Client
  BY DEF Send, TypeOK
<1>2. /\ answers' \in [ Client -> Seq(Nat) ]
      /\ \A c \in Client : Len(answers[c]) <= Len(answers'[c])
  <2>1. CASE answers' = [ answers EXCEPT ![new_fd] = Append(@, dataWrite) ]
    <3>1. /\ Append(answers[new_fd], dataWrite) \in Seq(Nat)
          /\ Len(answers[new_fd]) <= Len(Append(answers[new_fd], dataWrite))
      <4>1. answers[new_fd] \in Seq(Nat) /\ dataWrite \in Nat
        BY <1>1 DEF TypeOK
      <4> QED BY <4>1, AppendProperties, LenProperties
    <3> QED BY <1>1, <2>1, <3>1 DEF TypeOK
  <2>2. CASE answers' = answers
    BY <2>2 DEF TypeOK
  <2> QED BY <2>1, <2>2 DEF Send
<1>3. link' \in [ Client -> Ends ] /\ srv' \in { "read", "exited" }
  BY DEF Send, TypeOK, Ends
<1>4. UNCHANGED << new_fd, dataWrite, backlog, proxyVars, sock, sent, relayed,
                   taken, returned, received >>
  BY DEF Send, upStream
<1>5. ASSUME NEW c \in Client
      PROVE  /\ relayed'[c] <= sent'[c] /\ taken'[c] <= Arrived(c)'
             /\ returned'[c] <= Len(answers'[c])
             /\ received'[c] <= CameBack(c)'
  <2>1. /\ Len(answers[c]) \in Nat /\ Len(answers'[c]) \in Nat
        /\ Len(answers[c]) <= Len(answers'[c])
        /\ returned[c] \in Nat /\ received[c] \in Nat
        /\ returned[c] <= Len(answers[c]) /\ received[c] <= CameBack(c)
        /\ relayed[c] <= sent[c] /\ taken[c] <= Arrived(c)
    BY <1>2, LenProperties DEF TypeOK
  <2>2. /\ Arrived(c)' = Arrived(c)
        /\ returned'[c] = returned[c] /\ received'[c] = received[c]
        /\ relayed'[c] = relayed[c] /\ sent'[c] = sent[c] /\ taken'[c] = taken[c]
    BY <1>4 DEF Arrived
  <2>3. received[c] <= CameBack(c)'
    <3>1. CASE c \in Direct
      BY <2>1, <3>1 DEF CameBack
    <3>2. CASE c \notin Direct
      BY <2>1, <2>2, <3>2 DEF CameBack
    <3> QED BY <3>1, <3>2
  <2> QED BY <2>1, <2>2, <2>3
<1>6. /\ new_fd' = new_fd /\ new_fd # none /\ backlog' = backlog
      /\ repeater' = repeater /\ relay' = relay /\ queue' = queue
      /\ sock' = sock /\ dataWrite' = dataWrite
  BY <1>1, <1>4, ListenerAssumption DEF proxyVars
<1> QED BY <1>2, <1>3, <1>4, <1>5, <1>6 DEF TypeOK

LEMMA LinkTypes == ASSUME TypeOK, repeater \in { "connect", "up", "down" },
                          ProxyExit \/ ProxyConnect
                   PROVE  TypeOK'
<1>1. relay \in Proxied /\ relay \in Client
  BY DEF TypeOK, Client
<1>2. CASE ProxyExit
  <2>1. StreamsKept
    BY <1>2 DEF ProxyExit, StreamsKept, upStream, downStream
  <2>2. link' \in [ Client -> Ends ]
    <3>1. link[relay] \in Ends
      BY <1>1 DEF TypeOK
    <3> QED BY <1>1, <1>2, <3>1 DEF ProxyExit, TypeOK, Ends
  <2> QED
    BY <1>1, <1>2, <2>1, <2>2, KeptTypes DEF ProxyExit, TypeOK, srvVars
<1>3. CASE ProxyConnect /\ ~ ProxyExit
  <2>1. StreamsKept
    BY <1>3 DEF ProxyConnect, StreamsKept, upStream, downStream
  <2>2. backlog' \in Seq(Client)
    <3>1. Append(backlog, relay) \in Seq(Client)
      BY <1>1, AppendProperties DEF TypeOK
    <3> QED BY <1>3, <3>1 DEF ProxyConnect
  <2>3. link' \in [ Client -> Ends ]
    BY <1>1, <1>3 DEF ProxyConnect, TypeOK, Ends
  <2> QED
    BY <1>1, <1>3, <2>1, <2>2, <2>3, KeptTypes DEF ProxyConnect, TypeOK, srvVars
<1> QED BY <1>2, <1>3

LEMMA RelayUpTypes == ASSUME TypeOK, RelayUp PROVE TypeOK'
<1>1. relay \in Proxied /\ relay \in Client /\ relay \notin Direct
  BY ListenerAssumption DEF RelayUp, TypeOK, Client
<1>2. CASE ProxyExit
  BY <1>2, LinkTypes DEF RelayUp
<1>3. CASE ~ ProxyExit
  <2>1. /\ repeater' = "down"
        /\ UNCHANGED << srvVars, backlog, link, relay, queue, sock, sent, taken,
                        answers, returned, received >>
    BY <1>3 DEF RelayUp, downStream
  <2>2. /\ relayed' \in [ Client -> Nat ]
        /\ \A c \in Client : relayed[c] <= relayed'[c] /\ relayed'[c] <= sent[c]
    <3>1. CASE relayed' = relayed
      BY <3>1 DEF TypeOK
    <3>2. CASE \E count \in 1 .. sent[relay] - relayed[relay] :
                 relayed' = [ relayed EXCEPT ![relay] = @ + count ]
      <4>1. PICK count \in 1 .. sent[relay] - relayed[relay] :
              relayed' = [ relayed EXCEPT ![relay] = @ + count ]
        BY <3>2
      <4>2. /\ count \in Nat /\ relayed[relay] \in Nat
            /\ relayed[relay] + count <= sent[relay]
        BY <1>1 DEF TypeOK
      <4>3. /\ relayed \in [ Client -> Nat ]
            /\ \A c \in Client : relayed[c] <= sent[c]
        BY DEF TypeOK
      <4> QED BY <1>1, <4>1, <4>2, <4>3
    <3> QED BY <1>3, <3>1, <3>2 DEF RelayUp
  <2>3. ASSUME NEW c \in Client
        PROVE  /\ relayed'[c] <= sent'[c] /\ taken'[c] <= Arrived(c)'
               /\ returned'[c] <= Len(answers'[c]) /\ received'[c] <= CameBack(c)'
    <3>1. /\ CameBack(c)' = CameBack(c) /\ Arrived(c) <= Arrived(c)'
          /\ Arrived(c) \in Nat /\ Arrived(c)' \in Nat
      BY <2>1, <2>2 DEF CameBack, Arrived, TypeOK
    <3>2. /\ taken'[c] = taken[c] /\ taken[c] \in Nat /\ taken[c] <= Arrived(c)
          /\ sent' = sent /\ returned' = returned /\ received' = received
          /\ answers' = answers
      BY <2>1 DEF TypeOK
    <3>3. taken'[c] <= Arrived(c)'
      BY <3>1, <3>2
    <3> QED BY <2>2, <3>1, <3>2, <3>3 DEF TypeOK
  <2>4. /\ srv' = srv /\ new_fd' = new_fd /\ dataWrite' = dataWrite
        /\ backlog' = backlog /\ link' = link /\ sock' = sock
        /\ relay' = relay /\ relay # none /\ queue' = queue
        /\ repeater' \in { "accept", "connect", "up", "down", "exited" }
    BY <1>1, <2>1, ListenerAssumption DEF srvVars, Client
  <2>5. UNCHANGED << sent, taken, answers, returned, received >>
    BY <2>1
  <2> QED BY <2>2, <2>3, <2>4, <2>5 DEF TypeOK
<1> QED BY <1>2, <1>3

LEMMA RelayDownTypes == ASSUME TypeOK, RelayDown PROVE TypeOK'
<1>1. relay \in Proxied /\ relay \in Client /\ relay \notin Direct
  BY ListenerAssumption DEF RelayDown, TypeOK, Client
<1>2. CASE ProxyExit
  BY <1>2, LinkTypes DEF RelayDown
<1>3. CASE ~ ProxyExit
  <2>1. /\ repeater' = "up"
        /\ UNCHANGED << srvVars, backlog, link, relay, queue, sock, sent, relayed,
                        taken, answers, received >>
    BY <1>3 DEF RelayDown, upStream
  <2>2. /\ returned' \in [ Client -> Nat ]
        /\ \A c \in Client : /\ returned[c] <= returned'[c]
                              /\ returned'[c] <= Len(answers[c])
    <3>1. \A c \in Client : Len(answers[c]) \in Nat
      BY LenProperties DEF TypeOK
    <3>2. CASE returned' = returned
      BY <3>2 DEF TypeOK
    <3>3. CASE \E count \in 1 .. Len(answers[relay]) - returned[relay] :
                 returned' = [ returned EXCEPT ![relay] = @ + count ]
      <4>1. PICK count \in 1 .. Len(answers[relay]) - returned[relay] :
              returned' = [ returned EXCEPT ![relay] = @ + count ]
        BY <3>3
      <4>2. /\ count \in Nat /\ returned[relay] \in Nat
            /\ returned[relay] + count <= Len(answers[relay])
        BY <1>1, <3>1 DEF TypeOK
      <4>3. returned \in [ Client -> Nat ]
              /\ \A c \in Client : returned[c] <= Len(answers[c])
        BY DEF TypeOK
      <4> QED BY <1>1, <3>1, <4>1, <4>2, <4>3
    <3> QED BY <1>3, <3>2, <3>3 DEF RelayDown
  <2>3. ASSUME NEW c \in Client
        PROVE  /\ relayed'[c] <= sent'[c] /\ taken'[c] <= Arrived(c)'
               /\ returned'[c] <= Len(answers'[c]) /\ received'[c] <= CameBack(c)'
    <3>1. Arrived(c)' = Arrived(c)
      BY <2>1 DEF Arrived
    <3>2. /\ received'[c] = received[c] /\ received[c] \in Nat
          /\ received[c] <= CameBack(c)
          /\ taken[c] <= Arrived(c) /\ relayed[c] <= sent[c]
          /\ sent' = sent /\ relayed' = relayed /\ taken' = taken
          /\ answers' = answers
      BY <2>1 DEF TypeOK
    <3>3. received[c] <= CameBack(c)'
      <4>1. CASE c \in Direct
        BY <3>2, <4>1 DEF CameBack
      <4>2. CASE c \notin Direct
        <5>1. /\ CameBack(c) = returned[c] /\ CameBack(c)' = returned'[c]
          BY <4>2 DEF CameBack
        <5>2. /\ returned[c] \in Nat /\ returned'[c] \in Nat
              /\ returned[c] <= returned'[c]
          BY <2>2 DEF TypeOK
        <5> QED BY <3>2, <5>1, <5>2
      <4> QED BY <4>1, <4>2
    <3> QED BY <2>2, <3>1, <3>2, <3>3
  <2>4. /\ srv' = srv /\ new_fd' = new_fd /\ dataWrite' = dataWrite
        /\ backlog' = backlog /\ link' = link /\ sock' = sock
        /\ relay' = relay /\ relay # none /\ queue' = queue
        /\ repeater' \in { "accept", "connect", "up", "down", "exited" }
    BY <1>1, <2>1, ListenerAssumption DEF srvVars, Client
  <2>5. UNCHANGED << sent, relayed, taken, answers, received >>
    BY <2>1
  <2> QED BY <2>2, <2>3, <2>4, <2>5 DEF TypeOK
<1> QED BY <1>2, <1>3

LEMMA ClientConnectTypes ==
  ASSUME TypeOK, NEW c \in Client, Connect(c) \/ Leave(c)
  PROVE  TypeOK'
<1>1. StreamsKept
  BY DEF Connect, Leave, StreamsKept, upStream, downStream
<1>2. CASE Connect(c)
  <2>1. /\ sock' \in [ Client -> Ends ] /\ link' \in [ Client -> Ends ]
    BY <1>2 DEF Connect, TypeOK, Ends
  <2>2. backlog' \in Seq(Client) /\ queue' \in Seq(Proxied)
    <3>1. CASE backlog' = Append(backlog, c) /\ queue' = queue
      BY <3>1, AppendProperties DEF TypeOK
    <3>2. CASE c \in Proxied /\ queue' = Append(queue, c) /\ backlog' = backlog
      BY <3>2, AppendProperties DEF TypeOK
    <3> QED BY <1>2, <3>1, <3>2 DEF Connect
  <2> QED BY <1>1, <1>2, <2>1, <2>2, KeptTypes DEF Connect, TypeOK, srvVars
<1>3. CASE Leave(c)
  <2>1. /\ sock' \in [ Client -> Ends ] /\ link' \in [ Client -> Ends ]
    BY <1>3 DEF Leave, TypeOK, Ends
  <2> QED BY <1>1, <1>3, <2>1, KeptTypes DEF Leave, TypeOK, srvVars, proxyVars
<1> QED BY <1>2, <1>3

LEMMA SendPieceTypes ==
  ASSUME TypeOK, NEW c \in Client, SendPiece(c) PROVE TypeOK'
<1>1. /\ sent' = [ sent EXCEPT ![c] = @ + 1 ]
      /\ UNCHANGED << srvVars, backlog, link, proxyVars, sock, relayed, taken,
                      answers, returned, received >>
  BY DEF SendPiece, downStream
<1>2. /\ sent' \in [ Client -> Nat ]
      /\ \A k \in Client : sent[k] <= sent'[k]
  BY <1>1 DEF TypeOK
<1>3. ASSUME NEW k \in Client
      PROVE  /\ relayed'[k] <= sent'[k] /\ taken'[k] <= Arrived(k)'
             /\ returned'[k] <= Len(answers'[k]) /\ received'[k] <= CameBack(k)'
  <2>1. CameBack(k)' = CameBack(k)
    BY <1>1 DEF CameBack
  <2>2. /\ relayed[k] \in Nat /\ taken[k] \in Nat
        /\ sent[k] \in Nat /\ sent'[k] \in Nat /\ sent[k] <= sent'[k]
        /\ relayed[k] <= sent[k] /\ taken[k] <= Arrived(k)
        /\ returned[k] <= Len(answers[k]) /\ received[k] <= CameBack(k)
    BY <1>2 DEF TypeOK
  <2>3. relayed[k] <= sent'[k]
    BY <2>2
  <2>4. taken[k] <= Arrived(k)'
    <3>1. CASE k \in Direct
      BY <2>2, <3>1 DEF Arrived
    <3>2. CASE k \notin Direct
      BY <1>1, <2>2, <3>2 DEF Arrived
    <3> QED BY <3>1, <3>2
  <2> QED BY <1>1, <2>1, <2>2, <2>3, <2>4
<1> QED BY <1>1, <1>2, <1>3 DEF TypeOK, srvVars, proxyVars

LEMMA ReceiveTypes ==
  ASSUME TypeOK, NEW c \in Client, Receive(c) PROVE TypeOK'
<1>1. /\ received' = [ received EXCEPT ![c] = @ + 1 ] /\ received[c] < CameBack(c)
      /\ UNCHANGED << srvVars, backlog, link, proxyVars, sock, sent, relayed,
                      taken, answers, returned >>
  BY DEF Receive, upStream
<1>2. \A k \in Client : CameBack(k)' = CameBack(k) /\ Arrived(k)' = Arrived(k)
  BY <1>1 DEF CameBack, Arrived
<1>3. CameBack(c) \in Nat
  <2>1. Len(answers[c]) \in Nat
    BY LenProperties DEF TypeOK
  <2> QED BY <2>1 DEF CameBack, TypeOK
<1>4. /\ received' \in [ Client -> Nat ]
      /\ \A k \in Client : received'[k] <= CameBack(k)
  BY <1>1, <1>3 DEF TypeOK
<1>5. \A k \in Client :
        /\ relayed'[k] <= sent'[k] /\ taken'[k] <= Arrived(k)'
        /\ returned'[k] <= Len(answers'[k]) /\ received'[k] <= CameBack(k)'
  BY <1>1, <1>2, <1>4 DEF TypeOK
<1> QED BY <1>1, <1>4, <1>5 DEF TypeOK, srvVars, proxyVars

LEMMA KeepsTypes == TypeOK /\ [Next]_vars => TypeOK'
<1> SUFFICES ASSUME TypeOK, [Next]_vars PROVE TypeOK'
  OBVIOUS
<1>1. CASE Server \/ Interrupt
  BY <1>1, ConnectionTypes, ReadTypes, SendTypes DEF Server
<1>2. CASE Proxy
  <2>1. CASE ProxyConnect
    BY <2>1, LinkTypes DEF ProxyConnect
  <2> QED BY <1>2, <2>1, ConnectionTypes, RelayUpTypes, RelayDownTypes DEF Proxy
<1>3. CASE \E c \in Client : Connect(c) \/ SendPiece(c) \/ Receive(c) \/ Leave(c)
  BY <1>3, ClientConnectTypes, SendPieceTypes, ReceiveTypes
<1>4. CASE UNCHANGED vars
  <2>1. StreamsKept
    BY <1>4 DEF vars, StreamsKept, upStream, downStream
  <2> QED BY <1>4, <2>1, KeptTypes DEF vars, TypeOK, srvVars, proxyVars
<1> QED BY <1>1, <1>2, <1>3, <1>4 DEF Next

-----------------------------------------------------------------------------
(* Order.                                                                  *)

(* What no action but Read, Send and SendPiece disturbs.                   *)
OrderKept ==
  /\ UNCHANGED << sent, taken, answers >>
  /\ srv' # "exited" => srv # "exited"
  /\ srv' = "send" => srv = "send" /\ UNCHANGED << new_fd, dataWrite >>

LEMMA KeptInOrder == ASSUME IInv, OrderKept
                     PROVE  /\ AnswersInOrder' /\ ReadBefore'
                            /\ SendsNext' /\ AtMostOneAhead'
<1>1. AnswersInOrder' /\ ReadBefore'
  BY DEF IInv, OrderKept, AnswersInOrder, ReadBefore, Count
<1>2. SendsNext'
  BY DEF IInv, OrderKept, SendsNext, Count
<1>3. AtMostOneAhead'
  BY DEF IInv, OrderKept, AtMostOneAhead, Waiting, Count
<1> QED BY <1>1, <1>2, <1>3

LEMMA OthersKeep ==
  ASSUME \/ Startup \/ Accept \/ HangUp \/ Interrupt \/ Proxy \/ UNCHANGED vars
         \/ \E c \in Client : Connect(c) \/ Receive(c) \/ Leave(c)
  PROVE  OrderKept
<1>1. CASE Startup \/ Accept \/ HangUp \/ Interrupt
  BY <1>1 DEF Startup, Accept, HangUp, Interrupt, OrderKept, upStream, downStream
<1>2. CASE Proxy
  <2>1. CASE ProxyExit
    BY <2>1 DEF ProxyExit, OrderKept, srvVars, upStream, downStream
  <2>2. CASE ~ ProxyExit
    BY <1>2, <2>2 DEF Proxy, ProxyAccept, ProxyConnect, RelayUp, RelayDown, OrderKept,
                     srvVars, upStream, downStream
  <2> QED BY <2>1, <2>2
<1>3. CASE UNCHANGED vars
  BY <1>3 DEF vars, OrderKept, srvVars, upStream, downStream
<1>4. CASE \E c \in Client : Connect(c) \/ Receive(c) \/ Leave(c)
  BY <1>4 DEF Connect, Receive, Leave, OrderKept, srvVars, upStream, downStream
<1> QED BY <1>1, <1>2, <1>3, <1>4

(* Streams shorten along the way.                                          *)
LEMMA Bounds ==
  ASSUME TypeOK, NEW c \in Client
  PROVE  /\ Count(c) \in Nat /\ sent[c] \in Nat /\ taken[c] \in Nat
         /\ Arrived(c) \in Nat /\ taken[c] <= Arrived(c) /\ Arrived(c) <= sent[c]
         /\ received[c] \in Nat /\ received[c] <= Count(c)
<1>1. /\ Count(c) \in Nat /\ sent[c] \in Nat /\ taken[c] \in Nat /\ relayed[c] \in Nat
      /\ returned[c] \in Nat /\ received[c] \in Nat
      /\ relayed[c] <= sent[c] /\ taken[c] <= Arrived(c)
      /\ returned[c] <= Count(c) /\ received[c] <= CameBack(c)
  BY LenProperties DEF TypeOK, Count
<1>2. Arrived(c) \in { sent[c], relayed[c] } /\ CameBack(c) \in { Count(c), returned[c] }
  BY DEF Arrived, CameBack, Count
<1> QED BY <1>1, <1>2

LEMMA ReadInOrder == ASSUME IInv, Read
                     PROVE  /\ AnswersInOrder' /\ ReadBefore'
                            /\ SendsNext' /\ AtMostOneAhead'
<1>1. TypeOK /\ new_fd \in Client /\ srv = "read"
  BY DEF IInv, Read, TypeOK
<1>2. PICK count \in 1 .. Arrived(new_fd) - taken[new_fd] :
        /\ taken' = [ taken EXCEPT ![new_fd] = @ + count ]
        /\ ProcessReadBuffer(taken[new_fd] + 1, count)
  BY DEF Read
<1>3. /\ count \in Nat /\ count > 0
      /\ taken[new_fd] + count <= sent[new_fd]
  BY <1>1, Bounds
<1>4. UNCHANGED << new_fd, sent, answers >>
  BY DEF Read, downStream
<1>5. \A c \in Client : /\ taken'[c] \in Nat /\ taken[c] <= taken'[c]
                        /\ c # new_fd => taken'[c] = taken[c]
  <2>1. taken \in [ Client -> Nat ]
    BY <1>1 DEF TypeOK
  <2> SUFFICES ASSUME NEW c \in Client
               PROVE  /\ taken'[c] \in Nat /\ taken[c] <= taken'[c]
                      /\ c # new_fd => taken'[c] = taken[c]
    OBVIOUS
  <2>2. CASE c = new_fd
    BY <1>2, <1>3, <2>1, <2>2
  <2>3. CASE c # new_fd
    BY <1>2, <2>1, <2>3
  <2> QED BY <2>2, <2>3
<1>6. taken'[new_fd] = taken[new_fd] + count
  BY <1>1, <1>2 DEF TypeOK
<1>7. \A c \in Client : \A k \in 1 .. Count(c) : answers[c][k] \in Nat
  <2> SUFFICES ASSUME NEW c \in Client, NEW k \in 1 .. Count(c)
               PROVE  answers[c][k] \in Nat
    OBVIOUS
  <2>1. answers[c] \in Seq(Nat)
    BY <1>1 DEF TypeOK
  <2> QED BY <2>1, ElementOfSeq DEF Count
<1>8. AnswersInOrder'
  BY <1>4 DEF IInv, AnswersInOrder
<1>9. ReadBefore'
  <2> SUFFICES ASSUME NEW c \in Client, NEW k \in 1 .. Count(c)
               PROVE  2 * answers[c][k] <= taken'[c]
    BY <1>4 DEF ReadBefore, Count
  <2>1. 2 * answers[c][k] <= taken[c]
    BY DEF IInv, ReadBefore
  <2> QED BY <1>1, <1>5, <1>7, <2>1, Bounds
<1>10. srv' = "send" /\ dataWrite' # 0 =>
         \E n \in Nat : taken[new_fd] = 2 * n /\ dataWrite' = n + 1 /\ count > 1
  <2>1. CASE taken[new_fd] % 2 = 0 /\ count > 1 /\ dataWrite' = (taken[new_fd] + 2) \div 2
    <3>1. taken[new_fd] \in Nat
      BY <1>1, Bounds
    <3>2. /\ taken[new_fd] \div 2 \in Nat
          /\ taken[new_fd] = 2 * (taken[new_fd] \div 2)
          /\ (taken[new_fd] + 2) \div 2 = taken[new_fd] \div 2 + 1
      BY <2>1, <3>1
    <3> QED BY <2>1, <3>2
  <2>2. (taken[new_fd] + 1) % 2 = 1 => taken[new_fd] % 2 = 0
    BY <1>1, Bounds
  <2>3. taken[new_fd] + 1 + 1 = taken[new_fd] + 2
    BY <1>1, Bounds
  <2> QED BY <1>2, <2>1, <2>2, <2>3 DEF ProcessReadBuffer
<1>11. SendsNext'
  <2> SUFFICES ASSUME srv' = "send", dataWrite' # 0
               PROVE  /\ 2 * dataWrite' <= taken'[new_fd]
                      /\ \A k \in 1 .. Count(new_fd) : answers[new_fd][k] < dataWrite'
    BY <1>4 DEF SendsNext, Count
  <2>1. PICK n \in Nat : taken[new_fd] = 2 * n /\ dataWrite' = n + 1 /\ count > 1
    BY <1>10
  <2>2. 2 * dataWrite' <= taken'[new_fd]
    BY <1>3, <1>6, <2>1
  <2>3. ASSUME NEW k \in 1 .. Count(new_fd) PROVE answers[new_fd][k] < dataWrite'
    <3>1. 2 * answers[new_fd][k] <= taken[new_fd] /\ answers[new_fd][k] \in Nat
      BY <1>1, <1>7 DEF IInv, ReadBefore
    <3> QED BY <2>1, <3>1
  <2> QED BY <2>2, <2>3
<1>12. AtMostOneAhead'
  <2> SUFFICES ASSUME NEW c \in Patient PROVE Waiting(c)'
    BY <1>4 DEF AtMostOneAhead
  <2>1. c \in Client /\ Waiting(c) /\ Count(c)' = Count(c) /\ sent'[c] = sent[c]
    BY <1>4 DEF Patient, IInv, AtMostOneAhead, Count
  <2>2. CASE c # new_fd
    BY <1>1, <1>4, <1>5, <2>1, <2>2 DEF Waiting
  <2>3. CASE c = new_fd
    <3>1. /\ sent[c] <= 2 * Count(c) + 2
          /\ taken[c] \in { 2 * Count(c), 2 * Count(c) + 2 }
          /\ Count(c) \in Nat /\ sent[c] \in Nat /\ taken[c] + count <= sent[c]
      BY <1>1, <1>3, <2>1, <2>3, Bounds DEF Waiting
    <3>2. taken[c] = 2 * Count(c) /\ count <= 2
      BY <1>3, <3>1
    <3>3. (taken[c] + 1) % 2 = 1 /\ (taken[c] + 1 + 1) \div 2 = Count(c) + 1
      BY <3>1, <3>2
    <3>4. \/ srv' = "exited"
          \/ /\ srv' = "send" /\ dataWrite' = Count(c) + 1
             /\ taken'[c] = 2 * Count(c) + 2
      <4>1. CASE count = 1
        BY <1>2, <2>3, <3>3, <4>1 DEF ProcessReadBuffer
      <4>2. CASE count = 2
        BY <1>2, <1>6, <2>3, <3>2, <3>3, <4>2 DEF ProcessReadBuffer
      <4> QED BY <1>3, <3>2, <4>1, <4>2
    <3> QED BY <2>1, <3>4 DEF Waiting
  <2> QED BY <2>2, <2>3
<1> QED BY <1>8, <1>9, <1>11, <1>12

(* The answer that is appended is later than those before it.              *)
LEMMA SendInOrder == ASSUME IInv, Send
                     PROVE  /\ AnswersInOrder' /\ ReadBefore'
                            /\ SendsNext' /\ AtMostOneAhead'
<1>1. TypeOK /\ new_fd \in Client /\ srv = "send" /\ dataWrite \in Nat
  BY DEF IInv, Send, TypeOK
<1>2. srv' # "send" /\ UNCHANGED << new_fd, sent, taken >>
  BY DEF Send, upStream
<1>3. SendsNext'
  BY <1>2 DEF SendsNext
<1>4. CASE answers' = answers
  <2>1. AnswersInOrder' /\ ReadBefore'
    BY <1>2, <1>4 DEF IInv, AnswersInOrder, ReadBefore, Count
  <2>2. AtMostOneAhead'
    BY <1>1, <1>2, <1>4 DEF IInv, AtMostOneAhead, Waiting, Count
  <2> QED BY <1>3, <2>1, <2>2
<1>5. CASE answers' = [ answers EXCEPT ![new_fd] = Append(@, dataWrite) ]
  <2> DEFINE was == answers[new_fd]
  <2>1. /\ was \in Seq(Nat) /\ Len(was) = Count(new_fd) /\ Count(new_fd) \in Nat
        /\ answers'[new_fd] = Append(was, dataWrite)
        /\ \A c \in Client : c # new_fd => answers'[c] = answers[c]
    BY <1>1, <1>5, Bounds DEF TypeOK, Count
  <2>2. /\ Len(answers'[new_fd]) = Count(new_fd) + 1
        /\ answers'[new_fd][Count(new_fd) + 1] = dataWrite
        /\ \A k \in 1 .. Count(new_fd) : answers'[new_fd][k] = was[k]
    BY <1>1, <2>1, AppendProperties
  <2>3. \A k \in 1 .. Count(new_fd) : dataWrite # 0 => was[k] < dataWrite
    BY <1>1 DEF IInv, SendsNext
  <2>4. AnswersInOrder'
    <3> SUFFICES ASSUME NEW c \in Client, NEW j \in 1 .. Len(answers'[c]),
                        NEW k \in 1 .. Len(answers'[c]), j < k,
                        answers'[c][j] # 0, answers'[c][k] # 0
                 PROVE  answers'[c][j] < answers'[c][k]
      BY DEF AnswersInOrder
    <3>1. CASE c # new_fd
      BY <2>1, <3>1 DEF IInv, AnswersInOrder
    <3>2. CASE c = new_fd
      <4>1. j \in 1 .. Count(new_fd)
        BY <2>1, <2>2, <3>2
      <4>2. CASE k = Count(new_fd) + 1
        BY <2>2, <2>3, <3>2, <4>1, <4>2
      <4>3. CASE k # Count(new_fd) + 1
        <5>1. k \in 1 .. Count(new_fd)
          BY <2>1, <2>2, <3>2, <4>3
        <5> QED BY <1>1, <2>1, <2>2, <3>2, <4>1, <5>1 DEF IInv, AnswersInOrder
      <4> QED BY <4>2, <4>3
    <3> QED BY <3>1, <3>2
  <2>5. ReadBefore'
    <3> SUFFICES ASSUME NEW c \in Client, NEW k \in 1 .. Len(answers'[c])
                 PROVE  2 * answers'[c][k] <= taken[c]
      BY <1>2 DEF ReadBefore, Count
    <3>1. CASE c # new_fd
      BY <2>1, <3>1 DEF IInv, ReadBefore, Count
    <3>2. CASE c = new_fd /\ k = Count(new_fd) + 1
      <4>1. 2 * dataWrite <= taken[new_fd]
        <5>1. CASE dataWrite = 0
          <6>1. taken[new_fd] \in Nat
            BY <1>1, Bounds
          <6> QED BY <5>1, <6>1
        <5>2. CASE dataWrite # 0
          BY <1>1, <5>2 DEF IInv, SendsNext
        <5> QED BY <5>1, <5>2
      <4> QED BY <2>2, <3>2, <4>1
    <3>3. CASE c = new_fd /\ k # Count(new_fd) + 1
      <4>1. k \in 1 .. Count(new_fd)
        BY <2>1, <2>2, <3>3
      <4> QED BY <1>1, <2>2, <3>3, <4>1 DEF IInv, ReadBefore
    <3> QED BY <3>1, <3>2, <3>3
  <2>6. AtMostOneAhead'
    <3> SUFFICES ASSUME NEW c \in Patient PROVE Waiting(c)'
      BY DEF AtMostOneAhead
    <3>1. c \in Client /\ Waiting(c)
      BY DEF Patient, IInv, AtMostOneAhead
    <3>2. CASE c # new_fd
      BY <1>1, <1>2, <2>1, <3>1, <3>2 DEF Waiting, Count
    <3>3. CASE c = new_fd
      <4>1. Count(c)' = Count(c) + 1
        BY <2>2, <3>3 DEF Count
      <4>2. /\ taken[c] = 2 * Count(c) + 2 /\ sent[c] <= 2 * Count(c) + 2
            /\ taken[c] <= sent[c] /\ Count(c) \in Nat /\ sent[c] \in Nat
        <5>1. taken[c] <= sent[c]
          BY <1>1, <3>1, Bounds
        <5> QED BY <1>1, <3>1, <3>3, <5>1, Bounds DEF Waiting
      <4>3. /\ 2 * (Count(c) + 1) <= sent[c] /\ sent[c] <= 2 * (Count(c) + 1) + 2
            /\ taken[c] = 2 * (Count(c) + 1)
        BY <4>2
      <4> QED BY <1>2, <4>1, <4>3 DEF Waiting
    <3> QED BY <3>2, <3>3
  <2> QED BY <1>3, <2>4, <2>5, <2>6
<1> QED BY <1>4, <1>5 DEF Send

LEMMA OddBetween ==
  ASSUME NEW n \in Nat, NEW k \in Nat, 2 * n <= k, k <= 2 * n + 2, k % 2 = 1
  PROVE  k = 2 * n + 1
<1>1. k \in { 2 * n, 2 * n + 1, 2 * (n + 1) }
  OBVIOUS
<1>2. \A m \in Nat : (2 * m) % 2 = 0
  OBVIOUS
<1> QED BY <1>1, <1>2

(* Who waits sends the next packet only after the answer to the last.      *)
LEMMA SendPieceInOrder ==
  ASSUME IInv, NEW c \in Client, SendPiece(c)
  PROVE  /\ AnswersInOrder' /\ ReadBefore' /\ SendsNext' /\ AtMostOneAhead'
<1>1. /\ sent' = [ sent EXCEPT ![c] = @ + 1 ]
      /\ UNCHANGED << srv, new_fd, dataWrite, taken, answers >>
  BY DEF SendPiece, srvVars, downStream
<1>2. AnswersInOrder' /\ ReadBefore'
  BY <1>1 DEF IInv, AnswersInOrder, ReadBefore, Count
<1>3. SendsNext'
  BY <1>1 DEF IInv, SendsNext, Count
<1>4. ASSUME NEW k \in Patient PROVE Waiting(k)'
  <2>1. k \in Client /\ Waiting(k) /\ Count(k)' = Count(k) /\ TypeOK
    BY <1>1 DEF Patient, IInv, AtMostOneAhead, Count
  <2>2. 2 * Count(k) <= sent'[k] /\ sent'[k] <= 2 * Count(k) + 2
    <3>1. CASE k # c
      BY <1>1, <2>1, <3>1 DEF Waiting, TypeOK
    <3>2. CASE k = c
      <4>1. /\ sent[c] % 2 = 1 \/ 2 * received[c] = sent[c]
            /\ sent'[c] = sent[c] + 1
        BY <1>1, <2>1, <3>2 DEF SendPiece, Patient, TypeOK
      <4>2. /\ 2 * Count(c) <= sent[c] /\ sent[c] <= 2 * Count(c) + 2
            /\ Count(c) \in Nat /\ sent[c] \in Nat
            /\ received[c] \in Nat /\ received[c] <= Count(c)
        BY <2>1, <3>2, Bounds DEF Waiting
      <4>3. sent[c] % 2 = 1 => sent[c] = 2 * Count(c) + 1
        BY <4>2, OddBetween
      <4>4. 2 * received[c] = sent[c] => sent[c] = 2 * Count(c)
        BY <4>2
      <4> QED BY <3>2, <4>1, <4>2, <4>3, <4>4
    <3> QED BY <3>1, <3>2
  <2> QED BY <1>1, <2>1, <2>2 DEF Waiting
<1> QED BY <1>2, <1>3, <1>4 DEF AtMostOneAhead

LEMMA Preserved == IInv /\ [Next]_vars => IInv'
<1> SUFFICES ASSUME IInv, [Next]_vars PROVE IInv'
  OBVIOUS
<1>1. TypeOK'
  BY KeepsTypes DEF IInv
<1>2. AnswersInOrder' /\ ReadBefore' /\ SendsNext' /\ AtMostOneAhead'
  <2>1. CASE Read
    BY <2>1, ReadInOrder
  <2>2. CASE Send
    BY <2>2, SendInOrder
  <2>3. CASE \E c \in Client : SendPiece(c)
    BY <2>3, SendPieceInOrder
  <2>4. CASE OrderKept
    BY <2>4, KeptInOrder
  <2> QED BY <2>1, <2>2, <2>3, <2>4, OthersKeep DEF Next, Server
<1> QED BY <1>1, <1>2 DEF IInv

(* The invariant, from which the theorems follow.                          *)
LEMMA Invariant == Spec => []IInv
BY Start, Preserved, PTL DEF Spec

-----------------------------------------------------------------------------
(* Places in the streams keep their order: no answer is passed on before   *)
(* the server sent it, nothing is read before it was sent.                 *)
THEOREM TypeCorrect == Spec => []TypeOK
<1>1. IInv => TypeOK
  BY DEF IInv
<1> QED BY <1>1, Invariant, PTL

(* However TCP and the Repeater cut the streams, the answers a client gets *)
(* are to its packets in their order, each at most once.                   *)
THEOREM InOrder == Spec => []AnswersInOrder
<1>1. IInv => AnswersInOrder
  BY DEF IInv
<1> QED BY <1>1, Invariant, PTL

-----------------------------------------------------------------------------
(* Request and reply.                                                      *)

LEMMA StartsRR == Init => RR!Init
<1> SUFFICES ASSUME Init PROVE RR!Init
  OBVIOUS
<1>1. \A c \in Patient : sent[c] \div 2 = 0 /\ answers[c] = << >>
  BY DEF Init, All, Patient
<1> QED BY <1>1 DEF RR!Init

LEMMA StepsRR == IInv /\ [Next]_vars => [RR!Next]_RR!vars
<1> SUFFICES ASSUME IInv, [Next]_vars PROVE [RR!Next]_RR!vars
  OBVIOUS
<1> TypeOK
  BY DEF IInv
<1>1. CASE UNCHANGED << sent, answers >>
  BY <1>1 DEF RR!vars
<1>2. ASSUME NEW c \in Client, SendPiece(c)
      PROVE  [RR!Next]_RR!vars
  <2>1. sent' = [ sent EXCEPT ![c] = @ + 1 ] /\ answers' = answers
    BY <1>2 DEF SendPiece, downStream
  <2>2. \A k \in Patient : sent[k] \in Nat /\ (k # c => sent'[k] = sent[k])
    BY <2>1 DEF TypeOK, Patient
  <2>3. CASE c \in Patient /\ sent[c] % 2 = 1
    <3>1. /\ sent[c] = 2 * Count(c) + 1 /\ Count(c) \in Nat /\ sent'[c] = sent[c] + 1
      <4>1. /\ 2 * Count(c) <= sent[c] /\ sent[c] <= 2 * Count(c) + 2
            /\ Count(c) \in Nat /\ sent[c] \in Nat
        BY <1>2, <2>3, Bounds DEF IInv, AtMostOneAhead, Waiting
      <4> QED BY <2>1, <2>3, <4>1, OddBetween DEF TypeOK
    <3>2. sent[c] \div 2 = Count(c) /\ sent'[c] \div 2 = sent[c] \div 2 + 1
      BY <3>1
    <3>3. [ k \in Patient |-> sent'[k] \div 2 ]
            = [ [ k \in Patient |-> sent[k] \div 2 ] EXCEPT ![c] = @ + 1 ]
      BY <2>2, <2>3, <3>2
    <3>4. RR!Request(c)
      BY <2>1, <2>3, <3>2, <3>3 DEF RR!Request, Count
    <3> QED BY <2>3, <3>4 DEF RR!Next
  <2>4. CASE c \notin Patient \/ sent[c] % 2 # 1
    <3>1. \A k \in Patient : sent'[k] \div 2 = sent[k] \div 2
      <4> SUFFICES ASSUME NEW k \in Patient PROVE sent'[k] \div 2 = sent[k] \div 2
        OBVIOUS
      <4>1. CASE k # c
        BY <2>2, <4>1
      <4>2. CASE k = c
        <5>1. sent[k] % 2 = 0 /\ sent[k] \in Nat /\ sent'[k] = sent[k] + 1
          BY <2>1, <2>2, <2>4, <4>2 DEF TypeOK, Patient
        <5> QED BY <5>1
      <4> QED BY <4>1, <4>2
    <3> QED BY <2>1, <3>1 DEF RR!vars
  <2> QED BY <2>3, <2>4
<1>3. ASSUME Send PROVE [RR!Next]_RR!vars
  <2>1. new_fd \in Client /\ srv = "send" /\ sent' = sent
    BY <1>3 DEF Send, TypeOK, upStream
  <2>2. CASE answers' = answers
    BY <2>1, <2>2 DEF RR!vars
  <2>3. CASE answers' = [ answers EXCEPT ![new_fd] = Append(@, dataWrite) ]
    <3>1. CASE new_fd \in Patient
      <4>1. /\ dataWrite = Count(new_fd) + 1 /\ sent[new_fd] = 2 * Count(new_fd) + 2
            /\ Count(new_fd) \in Nat
        <5>1. /\ dataWrite = Count(new_fd) + 1 /\ taken[new_fd] = 2 * Count(new_fd) + 2
              /\ sent[new_fd] <= 2 * Count(new_fd) + 2
          BY <2>1, <3>1 DEF IInv, AtMostOneAhead, Waiting
        <5> QED BY <2>1, <5>1, Bounds
      <4>2. sent[new_fd] \div 2 = dataWrite /\ Count(new_fd) < dataWrite
        BY <4>1
      <4>3. [ k \in Patient |-> answers'[k] ]
              = [ [ k \in Patient |-> answers[k] ] EXCEPT
                    ![new_fd] = Append(@, sent[new_fd] \div 2) ]
        BY <2>3, <3>1, <4>2 DEF TypeOK, Patient
      <4>4. /\ [ k \in Patient |-> sent[k] \div 2 ][new_fd] = sent[new_fd] \div 2
            /\ [ k \in Patient |-> answers[k] ][new_fd] = answers[new_fd]
        BY <3>1
      <4>5. [ k \in Patient |-> sent'[k] \div 2 ] = [ k \in Patient |-> sent[k] \div 2 ]
        BY <2>1
      <4>6. Len(answers[new_fd]) < sent[new_fd] \div 2
        BY <4>2 DEF Count
      <4>7. PICK c \in Patient : c = new_fd
        BY <3>1
      <4>8. RR!Answer(c)
        BY <4>3, <4>4, <4>5, <4>6, <4>7 DEF RR!Answer
      <4> QED BY <4>8 DEF RR!Next
    <3>2. CASE new_fd \notin Patient
      <4>1. \A k \in Patient : answers'[k] = answers[k]
        BY <2>3, <3>2 DEF TypeOK, Patient
      <4> QED BY <2>1, <4>1 DEF RR!vars
    <3> QED BY <3>1, <3>2
  <2> QED BY <1>3, <2>2, <2>3 DEF Send
<1>4. CASE Read
  BY <1>1, <1>4 DEF Read, downStream
<1> QED BY <1>1, <1>2, <1>3, <1>4, OthersKeep DEF Next, Server, OrderKept

(* A client that waits for its answers sees request and reply, whatever    *)
(* the number of clients and of packets.                                   *)
THEOREM Refinement == Spec => IsRequestReply
<1>1. IInv /\ [Next]_vars => [RR!Next]_RR!vars
  BY StepsRR
<1> QED BY <1>1, StartsRR, Invariant, PTL DEF Spec, IsRequestReply, RR!Spec
=============================================================================
