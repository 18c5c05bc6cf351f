--------------------------- MODULE Channel_proofs ---------------------------
(***************************************************************************)
(* Proofs about Channel, for any number of ports, losses and messages on   *)
(* TCP: while an error of the socket does not pass for a verify, the two   *)
(* sides are never in UDP on different links (SameLink), and a request in  *)
(* progress has a timer or an answer to come (InProgress).                 *)
(*                                                                         *)
(* The argument follows the request UdpReq(n) through the TCP connection:  *)
(* nothing that names the port n is ahead of it (InFlight), so the reply   *)
(* that connects the client to n is the last message there is (Connected). *)
(***************************************************************************)
EXTENDS Channel, SequenceTheorems, TLAPS

Requests == {UdpReq(p) : p \in Ports} \cup {TcpReq}
Replies == {Reply("UDP_OK", p) : p \in Ports} \cup {Reply("TCP_OK", None), Reply("DENIED", None)}

(* TCP carries requests and replies only. *)
Messages == up \in Seq(Requests) /\ down \in Seq(Replies)

Unnamed(q, n, k) == \A i \in 1..k : q[i].port # n

(* The request for port n is the last on its way to the server. *)
Asked(n) ==
  /\ up # <<>> /\ up[Len(up)] = UdpReq(n)
  /\ Unnamed(up, n, Len(up) - 1) /\ Unnamed(down, n, Len(down))

(* Its reply is the last on its way to the client. *)
Replied(n) ==
  /\ up = <<>> /\ down # <<>>
  /\ \/ down[Len(down)] = Reply("UDP_OK", n) /\ ssock \in {n, None}
     \/ down[Len(down)] = Reply("DENIED", None)
  /\ Unnamed(down, n, Len(down) - 1)

InFlight(n) == Asked(n) \/ Replied(n)

Quiet == up = <<>> /\ down = <<>>

(* The client has its reply: TCP is quiet, but for a wish to go back. *)
Connected(n) ==
  /\ ssock \in {n, None}
  /\ IF cmode = "UDP" /\ creq = "TCP"
     THEN \/ up = <<TcpReq>> /\ down = <<>>
          \/ up = <<>> /\ down = <<Reply("TCP_OK", None)>>
     ELSE Quiet
  /\ cmode = "TCP" => timer

(* Without a socket the client is in TCP and wants nothing else. *)
Closed == csock = None => cmode = "TCP" /\ creq = "TCP" /\ cpeer = None

(* A client in TCP opens a socket for a request of UDP only. *)
Opened == csock # None /\ cmode = "TCP" => creq = "UDP"

Peer == cmode = "UDP" => cpeer = csock

(* The client waits for a verify on a connected socket only. *)
Waiting == csock # None /\ cpeer = None => cstatus # "VERIFY_UDP"

Pipeline == csock # None => IF cpeer = csock THEN Connected(csock) ELSE InFlight(csock)

ServerSocket == smode = "UDP" => ssock # None

IInv ==
  /\ TypeOK /\ Messages
  /\ Closed /\ Opened /\ Peer /\ Waiting
  /\ Pipeline
  /\ ServerSocket

-----------------------------------------------------------------------------

USE DEF Requests, Replies, UdpReq, TcpReq, Reply

(* What the two ends do to a queue of TCP. *)
LEMMA Appending ==
  ASSUME NEW S, NEW q \in Seq(S), NEW r \in S
  PROVE  /\ Append(q, r) \in Seq(S)
         /\ Len(Append(q, r)) = Len(q) + 1
         /\ Append(q, r)[Len(q) + 1] = r
         /\ \A i \in 1..Len(q) : Append(q, r)[i] = q[i]
OBVIOUS

LEMMA Taking ==
  ASSUME NEW S, NEW q \in Seq(S), q # <<>>
  PROVE  /\ Tail(q) \in Seq(S)
         /\ Len(q) \in Nat \ {0} /\ Len(Tail(q)) = Len(q) - 1
         /\ \A i \in 1..Len(q) - 1 : Tail(q)[i] = q[i + 1]
         /\ Head(q) = q[1] /\ Head(q) \in S
OBVIOUS

(* The state before the first step. *)
LEMMA InitIInv == Init => IInv
<1> SUFFICES ASSUME Init PROVE IInv
  OBVIOUS
<1>1. TypeOK
  BY Zenon DEF Init, TypeOK
<1>2. Messages
  BY DEF Init, Messages
<1>3. Closed /\ Opened /\ Peer /\ Waiting /\ Pipeline /\ ServerSocket
  BY DEF Init, Closed, Opened, Peer, Waiting, Pipeline, ServerSocket
<1> QED BY <1>1, <1>2, <1>3 DEF IInv

(* The client without a socket: all that is asked of it. *)
LEMMA NoLink ==
  ASSUME csock' = None, cmode' = "TCP", creq' = "TCP", cpeer' = None
  PROVE  Closed' /\ Opened' /\ Peer' /\ Waiting' /\ Pipeline'
BY DEF Closed, Opened, Peer, Waiting, Pipeline

(* A step that the client's request and TCP do not notice. *)
LEMMA Unnoticed ==
  ASSUME IInv, UNCHANGED <<cmode, creq, cstatus, timer, csock, cpeer, tcp>>,
         ssock' \in {ssock, None}
  PROVE  Messages' /\ Closed' /\ Opened' /\ Peer' /\ Waiting' /\ Pipeline'
BY DEF IInv, Messages, Closed, Opened, Peer, Waiting, Pipeline, tcp,
       Connected, InFlight, Asked, Replied, Unnamed, Quiet

LEMMA StepRequestUdp == IInv /\ RequestUdp => IInv'
<1> SUFFICES ASSUME IInv, RequestUdp PROVE IInv'
  OBVIOUS
<1>1. csock = None
  BY DEF IInv, Opened, RequestUdp
<1>2. PICK p \in Ports : Fresh(p) /\ cpeer' = None /\ csock' = p /\ Request(UdpReq(p))
  BY <1>1 DEF RequestUdp
<1>3. p # None
  BY ChannelAssumption
<1>4. UdpReq(p) \in Requests /\ up \in Seq(Requests) /\ down \in Seq(Replies)
  BY DEF IInv, Messages
<1>5. up' = Append(up, UdpReq(p)) /\ UNCHANGED <<cmode, cerr, server, down, udp, trouble>>
  BY <1>2 DEF RequestUdp, Request
<1>6. TypeOK' /\ Messages'
  <2>1. Messages'
    BY <1>4, <1>5, Appending DEF Messages
  <2>2. TypeOK'
    BY <1>2, <1>5 DEF IInv, TypeOK, RequestUdp, server, udp
  <2> QED BY <2>1, <2>2
<1>7. Closed' /\ Opened' /\ Peer' /\ Waiting' /\ ServerSocket'
  BY <1>2, <1>3, <1>5 DEF IInv, Closed, Opened, Peer, Waiting, ServerSocket, RequestUdp, server
<1>8. Asked(p)'
  <2>1. Unnamed(up, p, Len(up)) /\ Unnamed(down, p, Len(down))
    BY <1>2, <1>4 DEF Fresh, Unnamed
  <2>2. Len(up') = Len(up) + 1 /\ up'[Len(up')] = UdpReq(p) /\ Unnamed(up', p, Len(up))
    BY <1>4, <1>5, <2>1, Appending DEF Unnamed
  <2>3. up' # <<>> /\ Len(up) \in Nat
    BY <1>4, <2>2
  <2> QED BY <1>5, <2>1, <2>2, <2>3 DEF Asked, Unnamed
<1>9. Pipeline'
  BY <1>2, <1>3, <1>8 DEF Pipeline, InFlight, Asked, Replied
<1> QED BY <1>6, <1>7, <1>9 DEF IInv

LEMMA StepRequestTcp == IInv /\ RequestTcp => IInv'
<1> SUFFICES ASSUME IInv, RequestTcp PROVE IInv'
  OBVIOUS
<1>1. cmode = "UDP" /\ creq = "UDP" /\ csock # None /\ cpeer = csock
  BY DEF IInv, TypeOK, Closed, Peer, RequestTcp
<1>2. Quiet /\ ssock \in {csock, None}
  BY <1>1 DEF IInv, Pipeline, Connected
<1>3. up' = <<TcpReq>> /\ down' = <<>>
  BY <1>2 DEF Quiet, RequestTcp, Request
<1>4. Messages'
  BY <1>3 DEF Messages
<1>5. TypeOK' /\ Closed' /\ Opened' /\ Peer' /\ Waiting' /\ ServerSocket'
  BY <1>1 DEF IInv, TypeOK, Closed, Opened, Peer, Waiting, ServerSocket, RequestTcp, Trouble, server, udp
<1>6. Pipeline'
  BY <1>1, <1>2, <1>3 DEF Pipeline, Connected, RequestTcp, server
<1> QED BY <1>4, <1>5, <1>6 DEF IInv

(* The client gives UDP up by itself. *)
LEMMA StepGivingUp ==
  ASSUME IInv, BackToTcp, up' = up \/ Request(TcpReq), down' = down, UNCHANGED <<server, udp>>
  PROVE  IInv'
<1>1. Messages'
  BY Appending DEF IInv, Messages, Request
<1>2. TypeOK'
  BY DEF IInv, TypeOK, BackToTcp, CloseUdp, server, udp
<1>3. Closed' /\ Opened' /\ Peer' /\ Waiting' /\ Pipeline'
  BY NoLink DEF BackToTcp, CloseUdp
<1> QED BY <1>1, <1>2, <1>3 DEF IInv, ServerSocket, server

LEMMA StepForceReset == IInv /\ ForceReset => IInv'
<1> SUFFICES ASSUME IInv, ForceReset PROVE IInv'
  OBVIOUS
<1>1. BackToTcp /\ UNCHANGED <<server, udp>> /\ down' = down
  BY DEF ForceReset
<1>2. up' = up \/ Request(TcpReq)
  BY DEF ForceReset
<1> QED BY <1>1, <1>2, StepGivingUp

LEMMA StepTimeout == IInv /\ Timeout => IInv'
<1> SUFFICES ASSUME IInv, Timeout PROVE IInv'
  OBVIOUS
<1>1. BackToTcp /\ UNCHANGED <<server, udp>> /\ up' = up /\ down' = down
  BY DEF Timeout, tcp
<1> QED BY <1>1, StepGivingUp

LEMMA StepSendCommand == IInv /\ SendCommand => IInv'
<1> SUFFICES ASSUME IInv, SendCommand PROVE IInv'
  OBVIOUS
<1>0. cmode = "UDP" /\ UNCHANGED <<server, tcp, verifies, updates, trouble>>
  BY DEF SendCommand
<1>1. CASE cerr
  <2>1. BackToTcp /\ UNCHANGED <<server, udp>> /\ up' = up /\ down' = down
    BY <1>0, <1>1 DEF SendCommand, tcp, udp
  <2> QED BY <2>1, StepGivingUp
<1>2. CASE ~cerr
  <2>1. commands' = commands \cup {Datagram(cpeer)} /\ UNCHANGED client
    BY <1>2 DEF SendCommand
  <2>2. csock \in Ports /\ cpeer \in Ports
    BY <1>0 DEF IInv, TypeOK, Closed, Peer
  <2>3. TypeOK'
    BY <1>0, <2>1, <2>2 DEF IInv, TypeOK, Datagram, client, server
  <2>4. Messages' /\ Closed' /\ Opened' /\ Peer' /\ Waiting' /\ Pipeline'
    BY <1>0, <2>1, Unnoticed DEF client, server
  <2> QED BY <1>0, <2>3, <2>4 DEF IInv, ServerSocket, server
<1> QED BY <1>1, <1>2

-----------------------------------------------------------------------------
(* Replies *)

(* A reply that names another port, or none, leaves the request in flight. *)
LEMMA NotYet ==
  ASSUME IInv, NEW n \in Ports, InFlight(n), down # <<>>, Head(down) # Reply("UDP_OK", n),
         down' = Tail(down), up' = up, ssock' = ssock
  PROVE  InFlight(n)' \/ Head(down) = Reply("DENIED", None)
<1>1. /\ Tail(down) \in Seq(Replies)
      /\ Len(down) \in Nat \ {0} /\ Len(Tail(down)) = Len(down) - 1
      /\ \A i \in 1..Len(down) - 1 : Tail(down)[i] = down[i + 1]
      /\ Head(down) = down[1]
  BY Taking DEF IInv, Messages
<1>2. CASE Asked(n)
  <2>1. Unnamed(down', n, Len(down'))
    BY <1>1, <1>2 DEF Asked, Unnamed
  <2> QED BY <1>2, <2>1 DEF InFlight, Asked, Unnamed
<1>3. CASE Replied(n)
  <2>1. CASE Len(down) = 1
    BY <1>1, <1>3, <2>1 DEF Replied
  <2>2. CASE Len(down) > 1
    <3>1. down'[Len(down')] = down[Len(down)] /\ down' # <<>>
      BY <1>1, <2>2
    <3>2. Unnamed(down', n, Len(down') - 1)
      BY <1>1, <1>3, <2>2 DEF Replied, Unnamed
    <3> QED BY <1>3, <3>1, <3>2 DEF InFlight, Replied
  <2> QED BY <1>1, <2>1, <2>2
<1> QED BY <1>2, <1>3 DEF InFlight

(* The reply that names the port is the last message of all. *)
LEMMA AtLast ==
  ASSUME IInv, NEW n \in Ports, InFlight(n), down # <<>>, Head(down) = Reply("UDP_OK", n)
  PROVE  up = <<>> /\ Tail(down) = <<>> /\ ssock \in {n, None}
<1>1. /\ Tail(down) \in Seq(Replies)
      /\ Len(down) \in Nat \ {0} /\ Len(Tail(down)) = Len(down) - 1
      /\ Head(down) = down[1]
  BY Taking DEF IInv, Messages
<1>2. ~ Asked(n)
  BY <1>1 DEF Asked, Unnamed
<1>3. Replied(n) /\ Len(down) = 1
  BY <1>1, <1>2 DEF InFlight, Replied, Unnamed
<1>4. Tail(down) = <<>>
  <2>1. Tail(down) \in Seq(Replies) /\ Len(Tail(down)) = 0
    BY <1>1, <1>3
  <2> HIDE DEF Replies
  <2> QED BY <2>1, EmptySeq
<1>5. down[Len(down)] # Reply("DENIED", None)
  BY <1>1, <1>3
<1> QED BY <1>3, <1>4, <1>5 DEF Replied

(* A connected client that gets a reply is told to go back to TCP. *)
LEMMA ConnectedReply ==
  ASSUME IInv, csock # None, cpeer = csock, down # <<>>
  PROVE  cmode = "UDP" /\ creq = "TCP" /\ Head(down) = Reply("TCP_OK", None)
<1>1. Connected(csock)
  BY DEF IInv, Pipeline
<1>2. cmode = "UDP" /\ creq = "TCP"
  BY <1>1 DEF Connected, Quiet
<1>3. down = <<Reply("TCP_OK", None)>>
  BY <1>1, <1>2 DEF Connected
<1> QED BY <1>2, <1>3

(* One handler for each reply. *)
LEMMA Handlers ==
  ASSUME ReadReply
  PROVE  /\ Head(down).reply = "TCP_OK" => ReplyTcpOk
         /\ Head(down).reply = "UDP_OK" => ReplyUdpOk(Head(down).port)
         /\ Head(down).reply = "DENIED" => ReplyDenied
BY DEF ReadReply

LEMMA StepReadReply == IInv /\ ReadReply => IInv'
<1> SUFFICES ASSUME IInv, ReadReply PROVE IInv'
  OBVIOUS
<1> DEFINE r == Head(down)
<1>1. /\ down # <<>> /\ down' = Tail(down)
      /\ UNCHANGED <<smode, ssock, serr, commands, updates, trouble>>
  BY DEF ReadReply, server
<1>2. r \in Replies /\ down' \in Seq(Replies) /\ up \in Seq(Requests)
  BY <1>1, Taking DEF IInv, Messages
<1>3. ServerSocket'
  BY <1>1 DEF IInv, ServerSocket
<1>4. CASE r = Reply("TCP_OK", None)
  <2>1. ReplyTcpOk
    BY <1>4, Handlers
  <2>2. up' = up /\ verifies' = verifies
    BY <2>1, Zenon DEF ReplyTcpOk
  <2>3. Messages'
    BY <1>2, <2>2 DEF Messages
  <2>4. CASE cmode = "TCP"
    <3>1. timer' = FALSE /\ UNCHANGED <<cmode, creq, cstatus, csock, cpeer, cerr>>
      BY <2>1, <2>4 DEF ReplyTcpOk
    <3>2. TypeOK'
      BY <1>1, <2>2, <3>1 DEF IInv, TypeOK
    <3>3. Closed' /\ Opened' /\ Peer' /\ Waiting'
      BY <3>1 DEF IInv, Closed, Opened, Peer, Waiting
    <3>4. ASSUME csock # None PROVE cpeer # csock /\ InFlight(csock)'
      <4>1. cpeer # csock
        BY <1>1, <2>4, <3>4, ConnectedReply
      <4>2. csock \in Ports /\ InFlight(csock)
        BY <3>4, <4>1 DEF IInv, TypeOK, Pipeline
      <4>3. InFlight(csock)' \/ r = Reply("DENIED", None)
        <5>1. ASSUME NEW n \in Ports, n = csock
              PROVE  InFlight(n)' \/ r = Reply("DENIED", None)
          <6>1. InFlight(n) /\ r # Reply("UDP_OK", n) /\ ssock' = ssock
            BY <1>1, <1>4, <4>2, <5>1
          <6> QED BY <1>1, <2>2, <6>1, NotYet
        <5> QED BY <3>1, <4>2, <5>1 DEF InFlight, Asked, Replied, Unnamed
      <4> QED BY <1>4, <4>1, <4>3
    <3>5. Pipeline'
      BY <3>1, <3>4 DEF Pipeline
    <3> QED BY <1>3, <2>3, <3>2, <3>3, <3>5 DEF IInv
  <2>5. CASE cmode # "TCP"
    <3>1. cmode' = "TCP" /\ cstatus' = "CONNECTED" /\ timer' = FALSE /\ CloseUdp /\ creq' = creq
      BY <2>1, <2>5 DEF ReplyTcpOk
    <3>2. creq = "TCP"
      BY <1>1, <2>5, ConnectedReply DEF IInv, TypeOK, Closed, Peer
    <3>3. TypeOK'
      BY <1>1, <2>2, <3>1 DEF IInv, TypeOK, CloseUdp
    <3> QED BY <1>3, <2>3, <3>1, <3>2, <3>3, NoLink DEF IInv, CloseUdp
  <2> QED BY <2>4, <2>5
<1>5. CASE \E p \in Ports : r = Reply("UDP_OK", p)
  <2>1. PICK p \in Ports : r = Reply("UDP_OK", p)
    BY <1>5
  <2>2. ReplyUdpOk(p)
    <3>1. r.reply = "UDP_OK" /\ r.port = p
      BY <2>1
    <3> QED BY <3>1, Handlers
  <2>3. p # None
    BY ChannelAssumption
  <2>4. cmode = "TCP" /\ (csock # None => cpeer # csock)
    BY <1>1, <2>1, ConnectedReply DEF IInv, TypeOK, Closed, Peer
  <2>5. CASE creq # "UDP"
    <3>1. timer' = FALSE /\ UNCHANGED <<cmode, creq, cstatus, csock, cpeer, cerr, up, verifies>>
      BY <2>2, <2>5 DEF ReplyUdpOk
    <3>2. csock = None
      BY <2>4, <2>5 DEF IInv, Opened
    <3>3. Messages' /\ TypeOK'
      BY <1>1, <1>2, <3>1 DEF IInv, TypeOK, Messages
    <3>4. Closed' /\ Opened' /\ Peer' /\ Waiting' /\ Pipeline'
      BY <3>1, <3>2 DEF IInv, Closed, Opened, Peer, Waiting, Pipeline
    <3> QED BY <1>3, <3>3, <3>4 DEF IInv
  <2>6. CASE creq = "UDP"
    <3>1. csock # None
      BY <2>6 DEF IInv, Closed
    <3>2. csock \in Ports /\ InFlight(csock)
      BY <2>4, <3>1 DEF IInv, TypeOK, Pipeline
    <3>3. CASE cerr /\ BackToTcp /\ UNCHANGED <<up, verifies>>
      <4>1. Messages' /\ TypeOK'
        BY <1>1, <1>2, <3>3 DEF IInv, TypeOK, Messages, BackToTcp, CloseUdp
      <4> QED BY <1>3, <3>3, <4>1, NoLink DEF IInv, BackToTcp, CloseUdp
    <3>4. CASE /\ cstatus' = "VERIFY_UDP" /\ timer' = TRUE
               /\ cpeer' = p /\ cerr' = FALSE
               /\ verifies' = verifies \cup {Datagram(p)}
               /\ UNCHANGED <<cmode, creq, csock, up>>
      <4>1. Messages'
        BY <1>1, <1>2, <3>4 DEF Messages
      <4>2. TypeOK'
        <5>1. Datagram(p) \in [from : Ports, to : Ports]
          BY <3>2 DEF Datagram
        <5>2. verifies' \subseteq [from : Ports, to : Ports]
          BY <3>4, <5>1 DEF IInv, TypeOK
        <5> QED BY <1>1, <3>4, <5>2 DEF IInv, TypeOK
      <4>3. Closed' /\ Opened' /\ Peer' /\ Waiting'
        BY <2>3, <2>4, <2>6, <3>1, <3>4 DEF Closed, Opened, Peer, Waiting
      <4>4. CASE p = csock
        <5>1. up' = <<>> /\ down' = <<>> /\ ssock \in {csock, None}
          BY <1>1, <2>1, <3>2, <3>4, <4>4, AtLast
        <5>2. Connected(csock)'
          BY <1>1, <2>4, <3>4, <5>1 DEF Connected, Quiet
        <5>3. Pipeline'
          BY <3>4, <4>4, <5>2 DEF Pipeline
        <5> QED BY <1>3, <4>1, <4>2, <4>3, <5>3 DEF IInv
      <4>5. CASE p # csock
        <5>1. ASSUME NEW n \in Ports, n = csock
              PROVE  InFlight(n)' \/ r = Reply("DENIED", None)
          <6>1. InFlight(n) /\ r # Reply("UDP_OK", n) /\ ssock' = ssock /\ up' = up
            BY <1>1, <2>1, <3>2, <3>4, <4>5, <5>1
          <6> QED BY <1>1, <6>1, NotYet
        <5>2. InFlight(csock)'
          BY <2>1, <3>2, <3>4, <5>1 DEF InFlight, Asked, Replied, Unnamed
        <5>3. Pipeline'
          BY <3>4, <4>5, <5>2 DEF Pipeline
        <5> QED BY <1>3, <4>1, <4>2, <4>3, <5>3 DEF IInv
      <4> QED BY <4>4, <4>5
    <3> QED BY <2>2, <2>4, <2>6, <3>1, <3>3, <3>4 DEF ReplyUdpOk
  <2> QED BY <2>5, <2>6
<1>6. CASE r = Reply("DENIED", None)
  <2>1. ReplyDenied
    BY <1>6, Handlers
  <2>2. cmode = "TCP"
    BY <1>1, <1>6, ConnectedReply DEF IInv, TypeOK, Closed, Peer
  <2>3. Messages' /\ TypeOK'
    BY <1>1, <1>2, <2>1, <2>2 DEF IInv, TypeOK, Messages, ReplyDenied, CloseUdp
  <2> QED BY <1>3, <2>1, <2>2, <2>3, NoLink DEF IInv, ReplyDenied, CloseUdp
<1> QED BY <1>2, <1>4, <1>5, <1>6

-----------------------------------------------------------------------------
(* Datagrams, errors and timers *)

(* Only a verify on the link it asked for turns the client to UDP. *)
LEMMA StepReadUpdate == \A n \in updates : IInv /\ ReadUpdate(n) => IInv'
<1> SUFFICES ASSUME NEW n \in updates, IInv, ReadUpdate(n) PROVE IInv'
  OBVIOUS
<1>1. /\ csock = n /\ cpeer \in {None, n} /\ updates' = updates \ {n} /\ Activity
      /\ UNCHANGED <<creq, csock, cpeer, cerr, smode, ssock, serr, up, down, verifies, commands, trouble>>
  BY DEF ReadUpdate, Heard, server, tcp
<1>2. n \in Ports /\ n # None
  BY ChannelAssumption DEF IInv, TypeOK
<1>3. Messages' /\ ServerSocket'
  BY <1>1 DEF IInv, Messages, ServerSocket
<1>4. CASE cstatus = "VERIFY_UDP"
  <2>1. cmode' = "UDP" /\ cstatus' = "CONNECTED" /\ timer' = FALSE
    BY <1>1, <1>4 DEF Activity
  <2>2. cpeer = csock
    BY <1>1, <1>2, <1>4 DEF IInv, Waiting
  <2>3. TypeOK'
    BY <1>1, <2>1 DEF IInv, TypeOK
  <2>4. Closed' /\ Opened' /\ Peer' /\ Waiting'
    BY <1>1, <1>2, <2>1, <2>2 DEF Closed, Opened, Peer, Waiting
  <2>5. Connected(csock)
    BY <1>1, <1>2, <2>2 DEF IInv, Pipeline
  <2>6. cmode = "TCP" => creq = "UDP"
    BY <1>1, <1>2 DEF IInv, Opened
  <2>7. cmode \in {"TCP", "UDP"} /\ creq \in {"TCP", "UDP"}
    BY DEF IInv, TypeOK
  <2>8. Connected(csock)'
    BY <1>1, <2>1, <2>5, <2>6, <2>7 DEF Connected, Quiet
  <2>9. Pipeline'
    BY <1>1, <2>2, <2>8 DEF Pipeline
  <2> QED BY <1>3, <2>3, <2>4, <2>9 DEF IInv
<1>5. CASE cstatus # "VERIFY_UDP"
  <2>1. UNCHANGED <<cmode, cstatus, timer>>
    BY <1>1, <1>5 DEF Activity
  <2>2. TypeOK'
    BY <1>1, <2>1 DEF IInv, TypeOK
  <2>3. Closed' /\ Opened' /\ Peer' /\ Waiting' /\ Pipeline'
    BY <1>1, <2>1, Unnoticed DEF tcp
  <2> QED BY <1>3, <2>2, <2>3 DEF IInv
<1> QED BY <1>4, <1>5

LEMMA StepReadError == ~ Verified /\ IInv /\ ReadError => IInv'
<1> SUFFICES ASSUME ~ Verified, IInv, ReadError PROVE IInv'
  OBVIOUS
<1>1. /\ cstatus # "VERIFY_UDP" /\ cerr' = FALSE
      /\ UNCHANGED <<creq, csock, cpeer, smode, ssock, serr, up, down, verifies, commands, updates, trouble>>
  BY DEF ReadError, server, tcp, udp
<1>2. UNCHANGED <<cmode, cstatus, timer>>
  BY <1>1 DEF ReadError, Activity
<1>3. TypeOK'
  BY <1>1, <1>2 DEF IInv, TypeOK
<1>4. Messages' /\ Closed' /\ Opened' /\ Peer' /\ Waiting' /\ Pipeline'
  BY <1>1, <1>2, Unnoticed DEF tcp
<1> QED BY <1>1, <1>3, <1>4 DEF IInv, ServerSocket

-----------------------------------------------------------------------------
(* The server *)

(* Of the request that is in flight, the server leaves a reply. *)
LEMMA StepAnswer ==
  ASSUME IInv, NEW r \in Replies, CanAnswer, Answer(r),
         UNCHANGED <<cmode, creq, cstatus, timer, csock, cpeer>>,
         ServerSocket',
         \/ Head(up) = TcpReq /\ r = Reply("TCP_OK", None) /\ ssock' = None
         \/ r = Reply("DENIED", None) /\ Head(up) # TcpReq /\ ssock' = None
         \/ r = Reply("UDP_OK", Head(up).port) /\ Head(up) # TcpReq /\ ssock' = Head(up).port
  PROVE  Messages' /\ Closed' /\ Opened' /\ Peer' /\ Waiting' /\ Pipeline'
<1> DEFINE n == csock
<1>1. /\ up # <<>> /\ up \in Seq(Requests) /\ down \in Seq(Replies)
      /\ up' = Tail(up) /\ down' = Append(down, r)
  BY DEF IInv, Messages, CanAnswer, Answer
<1>2. /\ Tail(up) \in Seq(Requests)
      /\ Len(up) \in Nat \ {0} /\ Len(Tail(up)) = Len(up) - 1
      /\ \A i \in 1..Len(up) - 1 : Tail(up)[i] = up[i + 1]
      /\ Head(up) = up[1] /\ Head(up) \in Requests
  BY <1>1, Taking
<1>3. /\ down' \in Seq(Replies) /\ Len(down') = Len(down) + 1 /\ Len(down) \in Nat
      /\ down'[Len(down) + 1] = r
      /\ \A i \in 1..Len(down) : down'[i] = down[i]
  BY <1>1, Appending
<1>4. Messages'
  BY <1>1, <1>2, <1>3 DEF Messages
<1>5. Closed' /\ Opened' /\ Peer' /\ Waiting'
  BY DEF IInv, Closed, Opened, Peer, Waiting
<1>6. ASSUME csock # None, cpeer = csock PROVE Connected(csock)'
  <2>1. Connected(csock)
    BY <1>6 DEF IInv, Pipeline
  <2>2. cmode = "UDP" /\ creq = "TCP" /\ up = <<TcpReq>> /\ down = <<>>
    BY <1>1, <2>1 DEF Connected, Quiet
  <2>3. Head(up) = TcpReq /\ Tail(up) = <<>>
    BY <2>2
  <2>4. r = Reply("TCP_OK", None) /\ ssock' = None
    BY <2>3
  <2>5. down' = <<Reply("TCP_OK", None)>>
    BY <1>1, <2>2, <2>4
  <2> QED BY <1>1, <2>2, <2>3, <2>4, <2>5 DEF Connected
<1>7. ASSUME csock # None, cpeer # csock PROVE InFlight(csock)'
  <2>1. InFlight(csock) /\ csock \in Ports
    BY <1>7 DEF IInv, Pipeline, TypeOK
  <2>2. Asked(csock)
    BY <1>1, <2>1 DEF InFlight, Replied
  <2>3. CASE Len(up) = 1
    <3>1. up' = <<>>
      <4>1. Tail(up) \in Seq(Requests) /\ Len(Tail(up)) = 0
        BY <1>2, <2>3
      <4> HIDE DEF Requests
      <4> QED BY <1>1, <4>1, EmptySeq
    <3>2. Head(up) = UdpReq(csock)
      BY <1>2, <2>2, <2>3 DEF Asked
    <3>3. Head(up).port = csock /\ Head(up) # TcpReq
      BY <3>2
    <3>4. \/ r = Reply("DENIED", None)
          \/ r = Reply("UDP_OK", csock) /\ ssock' = csock
      BY <3>3
    <3>5. Unnamed(down', csock, Len(down))
      BY <1>3, <2>2 DEF Asked, Unnamed
    <3>6. down'[Len(down')] = r /\ down' # <<>> /\ Len(down') - 1 = Len(down)
      BY <1>3
    <3>7. Unnamed(down', csock, Len(down') - 1)
      BY <3>5, <3>6
    <3> QED BY <3>1, <3>4, <3>6, <3>7 DEF InFlight, Replied, Unnamed
  <2>4. CASE Len(up) > 1
    <3>1. up' # <<>> /\ up'[Len(up')] = UdpReq(csock)
      <4>1. Len(up') = Len(up) - 1 /\ Len(up) - 1 \in 1..Len(up) - 1
        BY <1>1, <1>2, <2>4
      <4>2. up'[Len(up) - 1] = up[(Len(up) - 1) + 1] /\ (Len(up) - 1) + 1 = Len(up)
        BY <1>1, <1>2, <4>1
      <4>3. up' # <<>>
        BY <1>2, <2>4, <4>1
      <4> QED BY <2>2, <4>1, <4>2, <4>3 DEF Asked
    <3>2. Unnamed(up', csock, Len(up') - 1)
      BY <1>1, <1>2, <2>2, <2>4 DEF Asked, Unnamed
    <3>3. Head(up).port # csock
      BY <1>2, <2>2, <2>4 DEF Asked, Unnamed
    <3>4. r.port # csock
      BY <1>7, <3>3
    <3>5. Unnamed(down', csock, Len(down'))
      BY <1>3, <2>2, <3>4 DEF Asked, Unnamed
    <3> QED BY <3>1, <3>2, <3>5 DEF InFlight, Asked, Unnamed
  <2> QED BY <1>2, <2>3, <2>4
<1>8. Pipeline'
  BY <1>6, <1>7 DEF Pipeline, InFlight, Asked, Replied, Connected, Quiet, Unnamed
<1> QED BY <1>4, <1>5, <1>8

(* A step of the server's handler. *)
LEMMA StepHandler ==
  ASSUME IInv, CanAnswer,
         UNCHANGED <<client, udp>>,
         smode' = "TCP", serr' = FALSE,
         \/ Head(up).request = "UDP" /\ ssock' = Head(up).port /\ Answer(Reply("UDP_OK", Head(up).port))
         \/ Head(up).request = "UDP" /\ ssock' = None /\ Answer(Reply("DENIED", None))
         \/ Head(up).request = "TCP" /\ ssock' = None /\ Answer(Reply("TCP_OK", None))
  PROVE  IInv'
<1>1. Head(up) \in Requests
  BY Taking DEF IInv, Messages, CanAnswer
<1>2. Head(up).request = "UDP" => Head(up) # TcpReq /\ Head(up).port \in Ports
  BY <1>1
<1>3. Head(up).request = "TCP" => Head(up) = TcpReq
  BY <1>1
<1>4. UNCHANGED <<cmode, creq, cstatus, timer, csock, cpeer, cerr, verifies, commands, updates>>
  BY DEF client, udp
<1>5. TypeOK'
  BY <1>2, <1>4 DEF IInv, TypeOK
<1>6. ServerSocket'
  BY DEF ServerSocket
<1>7. Messages' /\ Closed' /\ Opened' /\ Peer' /\ Waiting' /\ Pipeline'
  <2>1. CASE Head(up).request = "UDP" /\ ssock' = Head(up).port /\ Answer(Reply("UDP_OK", Head(up).port))
    <3>1. Reply("UDP_OK", Head(up).port) \in Replies
      BY <1>2, <2>1
    <3> QED BY <1>2, <1>4, <1>6, <2>1, <3>1, StepAnswer
  <2>2. CASE Head(up).request = "UDP" /\ ssock' = None /\ Answer(Reply("DENIED", None))
    <3>1. Reply("DENIED", None) \in Replies
      OBVIOUS
    <3> QED BY <1>2, <1>4, <1>6, <2>2, <3>1, StepAnswer
  <2>3. CASE Head(up).request = "TCP" /\ ssock' = None /\ Answer(Reply("TCP_OK", None))
    <3>1. Reply("TCP_OK", None) \in Replies
      OBVIOUS
    <3> QED BY <1>3, <1>4, <1>6, <2>3, <3>1, StepAnswer
  <2> QED BY <2>1, <2>2, <2>3
<1> QED BY <1>5, <1>6, <1>7 DEF IInv

LEMMA StepHandle == IInv /\ (Handle \/ DenyUdp) => IInv'
<1>1. IInv /\ HandleUdp => IInv'
  BY StepHandler DEF HandleUdp
<1>2. IInv /\ HandleTcp => IInv'
  BY StepHandler DEF HandleTcp, NoSocket
<1>3. IInv /\ DenyUdp => IInv'
  BY StepHandler DEF DenyUdp, NoSocket
<1> QED BY <1>1, <1>2, <1>3 DEF Handle

(* A step of the datagrams alone, at most with the end of the server's link. *)
LEMMA StepDatagrams ==
  ASSUME IInv, UNCHANGED <<cmode, creq, cstatus, timer, csock, cpeer, up, down>>,
         cerr' \in BOOLEAN, serr' \in BOOLEAN, smode' \in {"TCP", "UDP"},
         ssock' \in {ssock, None}, smode' = "UDP" => ssock' # None,
         verifies' \subseteq verifies, commands' \subseteq commands,
         updates' \subseteq updates \cup ({ssock} \ {None})
  PROVE  IInv'
<1>1. TypeOK'
  BY DEF IInv, TypeOK
<1>2. Messages' /\ Closed' /\ Opened' /\ Peer' /\ Waiting' /\ Pipeline'
  BY Unnoticed DEF tcp
<1> QED BY <1>1, <1>2 DEF IInv, ServerSocket

LEMMA StepSendUpdate == IInv /\ SendUpdate => IInv'
<1> SUFFICES ASSUME IInv, SendUpdate PROVE IInv'
  OBVIOUS
<1>1. /\ smode = "UDP" /\ ssock # None
      /\ UNCHANGED <<cmode, creq, cstatus, timer, csock, cpeer, cerr, up, down, verifies, commands>>
  BY DEF SendUpdate, IInv, ServerSocket, client, tcp
<1>2. cerr \in BOOLEAN /\ serr \in BOOLEAN
  BY DEF IInv, TypeOK
<1>3. CASE serr
  BY <1>1, <1>2, <1>3, StepDatagrams DEF SendUpdate, NoSocket
<1>4. CASE ~ serr
  BY <1>1, <1>2, <1>4, StepDatagrams DEF SendUpdate, server
<1> QED BY <1>3, <1>4

LEMMA StepServerHiccup == IInv /\ ServerHiccup => IInv'
<1> SUFFICES ASSUME IInv, ServerHiccup PROVE IInv'
  OBVIOUS
<1>1. /\ serr' = FALSE
      /\ UNCHANGED <<cmode, creq, cstatus, timer, csock, cpeer, cerr, smode, ssock, up, down, verifies, commands, updates>>
  BY DEF ServerHiccup, client, tcp, udp
<1>2. cerr \in BOOLEAN /\ smode \in {"TCP", "UDP"} /\ (smode = "UDP" => ssock # None)
  BY DEF IInv, TypeOK, ServerSocket
<1> QED BY <1>1, <1>2, StepDatagrams

-----------------------------------------------------------------------------
(* The network *)

LEMMA StepDeliver == IInv /\ Deliver => IInv'
<1> SUFFICES ASSUME IInv, Deliver PROVE IInv'
  OBVIOUS
<1>1. /\ cerr \in BOOLEAN /\ serr \in BOOLEAN /\ smode \in {"TCP", "UDP"}
      /\ smode = "UDP" => ssock # None
      /\ verifies \cup commands \subseteq [from : Ports, to : Ports]
  BY DEF IInv, TypeOK, ServerSocket
<1>2. ASSUME NEW d \in verifies \cup commands, HandleVerify(d) PROVE IInv'
  <2>1. ssock = d.to /\ d.to # None
    BY <1>1, <1>2, ChannelAssumption DEF HandleVerify, Accepts
  <2>2. /\ UNCHANGED <<cmode, creq, cstatus, timer, csock, cpeer, cerr, serr, ssock, up, down, commands>>
        /\ smode' = "UDP" /\ verifies' \subseteq verifies /\ updates' = updates \cup {ssock}
    BY <1>2 DEF HandleVerify, client, tcp
  <2> QED BY <1>1, <2>1, <2>2, StepDatagrams
<1>3. ASSUME NEW d \in verifies \cup commands, HandleCommand(d) PROVE IInv'
  <2>1. /\ UNCHANGED <<cmode, creq, cstatus, timer, csock, cpeer, cerr, smode, serr, ssock, up, down, verifies, updates>>
        /\ commands' \subseteq commands
    BY <1>3 DEF HandleCommand, client, server, tcp
  <2> QED BY <1>1, <2>1, StepDatagrams
<1>4. ASSUME NEW d \in verifies \cup commands, Refuse(d) PROVE IInv'
  <2>1. /\ UNCHANGED <<cmode, creq, cstatus, timer, csock, cpeer, smode, serr, ssock, up, down, updates>>
        /\ verifies' \subseteq verifies /\ commands' \subseteq commands
    BY <1>4 DEF Refuse, server, tcp
  <2>2. cerr' \in BOOLEAN
    BY <1>1, <1>4, Zenon DEF Refuse
  <2> QED BY <1>1, <2>1, <2>2, StepDatagrams
<1>5. ASSUME NEW n \in updates, RefuseUpdate(n) PROVE IInv'
  <2>1. /\ UNCHANGED <<cmode, creq, cstatus, timer, csock, cpeer, cerr, smode, ssock, up, down, verifies, commands>>
        /\ updates' \subseteq updates
    BY <1>5 DEF RefuseUpdate, client, tcp
  <2>2. serr' \in BOOLEAN
    BY <1>1, <1>5, Zenon DEF RefuseUpdate
  <2> QED BY <1>1, <2>1, <2>2, StepDatagrams
<1>6. ASSUME NEW n \in updates, ReadUpdate(n) PROVE IInv'
  BY <1>6, StepReadUpdate
<1> QED BY <1>2, <1>3, <1>4, <1>5, <1>6 DEF Deliver

LEMMA StepLose == IInv /\ Lose => IInv'
<1> SUFFICES ASSUME IInv, Lose PROVE IInv'
  OBVIOUS
<1>1. /\ cerr \in BOOLEAN /\ serr \in BOOLEAN /\ smode \in {"TCP", "UDP"}
      /\ smode = "UDP" => ssock # None
  BY DEF IInv, TypeOK, ServerSocket
<1>2. /\ UNCHANGED <<cmode, creq, cstatus, timer, csock, cpeer, cerr, smode, serr, ssock, up, down>>
      /\ verifies' \subseteq verifies /\ commands' \subseteq commands /\ updates' \subseteq updates
  BY DEF Lose, client, server, tcp
<1> QED BY <1>1, <1>2, StepDatagrams

LEMMA StepResurrect == IInv /\ Resurrect => IInv'
<1> SUFFICES ASSUME IInv, Resurrect PROVE IInv'
  OBVIOUS
<1>1. Messages' /\ ServerSocket'
  BY DEF Resurrect, NoSocket, Messages, ServerSocket
<1>2. TypeOK'
  BY DEF IInv, TypeOK, Resurrect, CloseUdp, NoSocket, udp
<1>3. Closed' /\ Opened' /\ Peer' /\ Waiting' /\ Pipeline'
  BY NoLink DEF Resurrect, CloseUdp
<1> QED BY <1>1, <1>2, <1>3 DEF IInv

-----------------------------------------------------------------------------

(* Every step preserves the invariant, when an error is not taken for the   *)
(* server's verify.                                                        *)
LEMMA StepIInv == ~ Verified /\ IInv /\ [Next]_vars => IInv'
<1> SUFFICES ASSUME ~ Verified, IInv, [Next]_vars PROVE IInv'
  OBVIOUS
<1>1. CASE RequestUdp BY <1>1, StepRequestUdp
<1>2. CASE RequestTcp BY <1>2, StepRequestTcp
<1>3. CASE ForceReset BY <1>3, StepForceReset
<1>4. CASE ReadReply BY <1>4, StepReadReply
<1>5. CASE ReadError BY <1>5, StepReadError
<1>6. CASE SendCommand BY <1>6, StepSendCommand
<1>7. CASE Timeout BY <1>7, StepTimeout
<1>8. CASE Handle \/ DenyUdp BY <1>8, StepHandle
<1>9. CASE SendUpdate BY <1>9, StepSendUpdate
<1>10. CASE ServerHiccup BY <1>10, StepServerHiccup
<1>11. CASE Deliver BY <1>11, StepDeliver
<1>12. CASE Lose BY <1>12, StepLose
<1>13. CASE Resurrect BY <1>13, StepResurrect
<1>14. CASE UNCHANGED vars
  <2>1. /\ UNCHANGED <<cmode, creq, cstatus, timer, csock, cpeer, cerr>>
        /\ UNCHANGED <<smode, serr, ssock, up, down, verifies, commands, updates>>
    BY <1>14 DEF vars, client, server, tcp, udp
  <2>2. /\ cerr \in BOOLEAN /\ serr \in BOOLEAN /\ smode \in {"TCP", "UDP"}
        /\ smode = "UDP" => ssock # None
    BY DEF IInv, TypeOK, ServerSocket
  <2> QED BY <2>1, <2>2, StepDatagrams
<1> QED BY <1>1, <1>2, <1>3, <1>4, <1>5, <1>6, <1>7, <1>8, <1>9, <1>10, <1>11, <1>12, <1>13, <1>14
        DEF Next

LEMMA IInvAlways == ~ Verified /\ Spec => []IInv
<1>1. ASSUME ~ Verified PROVE Spec => []IInv
  <2>1. IInv /\ [Next]_vars => IInv'
    BY <1>1, StepIInv
  <2> QED BY <2>1, InitIInv, PTL DEF Spec
<1> QED BY <1>1

(* Both sides in UDP are on the same link, for any number of ports, losses  *)
(* and messages: handleUdpReply() may read a reply to an earlier request,   *)
(* but the one to its own is the last there is.                            *)
THEOREM SameLinkAlways == ~ Verified /\ Spec => []SameLink
<1>1. IInv => SameLink
  <2> SUFFICES ASSUME IInv PROVE SameLink
    OBVIOUS
  <2>1. smode = "UDP" => ssock # None
    BY DEF IInv, ServerSocket
  <2>2. cmode = "UDP" => csock # None /\ cpeer = csock
    BY DEF IInv, Closed, Peer
  <2>3. cmode = "UDP" => ssock \in {csock, None}
    BY <2>2 DEF IInv, Pipeline, Connected
  <2> QED BY <2>1, <2>2, <2>3 DEF SameLink, Linked
<1> QED BY <1>1, IInvAlways, PTL

(* A request in progress has a timer or an answer to come: sendUdpReq()     *)
(* never refuses all further requests for good.                            *)
THEOREM InProgressAlways == ~ Verified /\ Spec => []InProgress
<1>1. IInv => InProgress
  <2> SUFFICES ASSUME IInv, creq # cmode, ~ timer
               PROVE  \/ \E i \in DOMAIN up : up[i].request = creq
                      \/ \E j \in DOMAIN down : (down[j].reply = "TCP_OK") <=> (creq = "TCP")
    BY DEF InProgress
  <2>1. csock # None /\ up \in Seq(Requests) /\ down \in Seq(Replies)
    BY DEF IInv, Closed, Messages
  <2>2. cmode \in {"TCP", "UDP"} /\ creq \in {"TCP", "UDP"}
    BY DEF IInv, TypeOK
  <2>3. CASE cpeer = csock
    <3>1. cmode = "UDP" /\ creq = "TCP" /\ Connected(csock)
      BY <2>1, <2>2, <2>3 DEF IInv, Pipeline, Connected
    <3>2. CASE up = <<TcpReq>>
      <4>1. 1 \in DOMAIN up /\ up[1].request = "TCP"
        BY <3>2
      <4> QED BY <3>1, <4>1
    <3>3. CASE down = <<Reply("TCP_OK", None)>>
      <4>1. 1 \in DOMAIN down /\ down[1].reply = "TCP_OK"
        BY <3>3
      <4> QED BY <3>1, <4>1
    <3> QED BY <3>1, <3>2, <3>3 DEF Connected
  <2>4. CASE cpeer # csock
    <3>1. cmode = "TCP" /\ creq = "UDP" /\ InFlight(csock)
      BY <2>1, <2>2, <2>4 DEF IInv, Pipeline, Peer, Opened
    <3>2. CASE Asked(csock)
      <4>1. Len(up) \in DOMAIN up /\ up[Len(up)].request = "UDP"
        BY <2>1, <3>2 DEF Asked
      <4> QED BY <3>1, <4>1
    <3>3. CASE Replied(csock)
      <4>1. Len(down) \in DOMAIN down /\ down[Len(down)].reply # "TCP_OK"
        BY <2>1, <3>3 DEF Replied
      <4> QED BY <3>1, <4>1
    <3> QED BY <3>1, <3>2, <3>3 DEF InFlight
  <2> QED BY <2>3, <2>4
<1> QED BY <1>1, IInvAlways, PTL

=============================================================================
