------------------------------ MODULE Channel ------------------------------
(***************************************************************************)
(* The choice between TCP and UDP that the client and its ntserv process   *)
(* make together: sendUdpReq(), handleUdpReply(), readFromServer(), the    *)
(* UDP window and the resurrection of the client (socket.c, udpopt.c and   *)
(* input.c of the client); handleUdpReq(), doRead() and the writes to the  *)
(* UDP socket (ntserv/socket.c and ntserv/sockio.c of the server).         *)
(*                                                                         *)
(* TCP delivers in order; datagrams are lost, late and out of order, and    *)
(* one that comes to a port where nobody listens to its sender may be      *)
(* answered by ICMP: an error of the sender's socket that its next call    *)
(* returns.  Built with UDP_PORTSWAP: the server tells its port over TCP.  *)
(*                                                                         *)
(* The client's port names a request; the server's socket for it has the   *)
(* same name, and only hears that port.  For this no port is used again    *)
(* while anything in the system mentions it.  The code sees to no such     *)
(* thing: openUdpConn() of the client takes one of 256 ports at random, so *)
(* a late reply or datagram may find its port open for another request.    *)
(* That chance is left out.                                                *)
(***************************************************************************)
EXTENDS Naturals, Sequences

CONSTANTS
  Ports,       \* ports of the client
  None,        \* a closed socket, or one that is not connected
  MaxTrouble,  \* losses, denials, hasty timeouts, resets, resurrections: a bound
  MaxBacklog,  \* messages on TCP in one direction: a bound
  Verified     \* does an error of the socket pass for the server's verify?

ASSUME ChannelAssumption ==
  /\ None \notin Ports /\ MaxTrouble \in Nat /\ MaxBacklog \in Nat \ {0}
  /\ Verified \in BOOLEAN

VARIABLES
  cmode, creq,   \* client: commMode, commModeReq
  cstatus,       \* client: commStatus
  timer,         \* client: commSwitchTimeout > 0
  csock, cpeer,  \* client: the port of udpSock, and where it is connected to
  cerr,          \* client: an error is pending on udpSock
  smode, ssock,  \* server: commMode, udpSock
  serr,          \* server: an error is pending on udpSock
  up, down,      \* TCP: requests, replies
  verifies, commands, updates,  \* UDP: datagrams on their way
  trouble

client == <<cmode, creq, cstatus, timer, csock, cpeer, cerr>>
server == <<smode, ssock, serr>>
tcp == <<up, down>>
udp == <<verifies, commands, updates>>
vars == <<client, server, tcp, udp, trouble>>

UdpReq(p) == [request |-> "UDP", port |-> p]
TcpReq == [request |-> "TCP", port |-> None]
Reply(r, p) == [reply |-> r, port |-> p]

\* A datagram of the client to the server's socket `to`.
Datagram(to) == [from |-> csock, to |-> to]

Init ==
  /\ cmode = "TCP" /\ creq = "TCP" /\ cstatus = "CONNECTED" /\ timer = FALSE
  /\ csock = None /\ cpeer = None /\ cerr = FALSE
  /\ smode = "TCP" /\ ssock = None /\ serr = FALSE
  /\ up = <<>> /\ down = <<>>
  /\ verifies = {} /\ commands = {} /\ updates = {}
  /\ trouble = 0

(* Ports are not used again (an assumption, see above). *)
Fresh(p) ==
  /\ p \notin {csock, cpeer, ssock} \cup updates
  /\ \A i \in DOMAIN up : up[i].port # p
  /\ \A i \in DOMAIN down : down[i].port # p
  /\ \A d \in verifies \cup commands : p \notin {d.from, d.to}

Trouble == trouble < MaxTrouble /\ trouble' = trouble + 1

-----------------------------------------------------------------------------
(* The client *)

(* closeUdpConn() *)
CloseUdp == csock' = None /\ cpeer' = None /\ cerr' = FALSE

BackToTcp ==
  /\ cmode' = "TCP" /\ creq' = "TCP" /\ cstatus' = "CONNECTED" /\ timer' = FALSE
  /\ CloseUdp

Request(r) == up' = Append(up, r)
Room == Len(up) < MaxBacklog

(* sendUdpReq(COMM_UDP), when no such request is in progress. *)
RequestUdp ==
  /\ cmode = "TCP" /\ creq # "UDP" /\ Room
  /\ \E p \in Ports :
       /\ IF csock = None THEN Fresh(p) /\ cpeer' = None ELSE p = csock /\ UNCHANGED cpeer
       /\ csock' = p
       /\ Request(UdpReq(p))
  /\ creq' = "UDP" /\ cstatus' = "SWITCH_UDP" /\ timer' = TRUE
  /\ UNCHANGED <<cmode, cerr, server, down, udp, trouble>>

(* sendUdpReq(COMM_TCP) *)
RequestTcp ==
  /\ cmode = "UDP" /\ creq # "TCP" /\ Room /\ Trouble
  /\ Request(TcpReq)
  /\ creq' = "TCP" /\ cstatus' = "SWITCH_TCP" /\ timer' = TRUE
  /\ UNCHANGED <<cmode, csock, cpeer, cerr, server, down, udp>>

(* "Force reset to TCP": sendUdpReq() refuses a request that is in progress. *)
ForceReset ==
  /\ Room /\ Trouble
  /\ IF creq = "TCP" THEN UNCHANGED up ELSE Request(TcpReq)
  /\ BackToTcp
  /\ UNCHANGED <<server, down, udp>>

(* handleUdpReply() *)
(* Mutant: the socket is closed, and the mode is kept. *)
ReplyTcpOkCloses ==
  IF cmode = "TCP" THEN timer' = FALSE /\ UNCHANGED <<cmode, creq, cstatus, csock, cpeer, cerr, up, verifies>>
  ELSE /\ cstatus' = "CONNECTED" /\ timer' = FALSE /\ CloseUdp
       /\ UNCHANGED <<cmode, creq, up, verifies>>

ReplyTcpOk ==
  IF cmode = "TCP" THEN timer' = FALSE /\ UNCHANGED <<cmode, creq, cstatus, csock, cpeer, cerr, up, verifies>>
  ELSE /\ cmode' = "TCP" /\ cstatus' = "CONNECTED" /\ timer' = FALSE /\ CloseUdp
       /\ UNCHANGED <<creq, up, verifies>>

(* udpSock may be closed: then the connection fails.  connect() need not    *)
(* clear an error: then the write of the verify may fail.                  *)
ReplyUdpOk(p) ==
  IF cmode = "UDP" \/ creq # "UDP"
  THEN timer' = FALSE /\ UNCHANGED <<cmode, creq, cstatus, csock, cpeer, cerr, up, verifies>>
  ELSE IF csock = None
  THEN BackToTcp /\ Request(TcpReq) /\ UNCHANGED verifies
  ELSE \/ /\ cstatus' = "VERIFY_UDP" /\ timer' = TRUE
          /\ cpeer' = p /\ cerr' = FALSE
          /\ verifies' = verifies \cup {Datagram(p)}
          /\ UNCHANGED <<cmode, creq, csock, up>>
       \/ cerr /\ BackToTcp /\ UNCHANGED <<up, verifies>>

(* Mutant: the request stays in progress. *)
ReplyDeniedOpen ==
  /\ cstatus' = "CONNECTED" /\ timer' = FALSE
  /\ CloseUdp
  /\ UNCHANGED <<cmode, creq, up, verifies>>

ReplyDenied ==
  /\ creq' = cmode /\ cstatus' = "CONNECTED" /\ timer' = FALSE
  /\ CloseUdp
  /\ UNCHANGED <<cmode, up, verifies>>

ReadReply ==
  /\ down # <<>>
  /\ down' = Tail(down)
  /\ LET r == Head(down) IN
     CASE r.reply = "TCP_OK" -> ReplyTcpOk
       [] r.reply = "UDP_OK" -> ReplyUdpOk(r.port)
       [] r.reply = "DENIED" -> ReplyDenied
  /\ UNCHANGED <<server, commands, updates, trouble>>

(* readFromServer() finds something on udpSock. *)
Activity ==
  IF cstatus = "VERIFY_UDP"
  THEN cmode' = "UDP" /\ cstatus' = "CONNECTED" /\ timer' = FALSE
  ELSE UNCHANGED <<cmode, cstatus, timer>>

Heard(n) == csock = n /\ cpeer \in {None, n}

ReadUpdate(n) ==
  /\ n \in updates /\ Heard(n)
  /\ updates' = updates \ {n}
  /\ Activity
  /\ UNCHANGED <<creq, csock, cpeer, cerr, server, tcp, verifies, commands, trouble>>

(* doRead() gets ECONNREFUSED: "Hiccup", the socket is connected anew.     *)
ReadError ==
  /\ cerr
  /\ cstatus = "VERIFY_UDP" => Verified
  /\ cerr' = FALSE
  /\ Activity
  /\ UNCHANGED <<creq, csock, cpeer, server, tcp, udp, trouble>>

(* sendServerPacket() of a command that need not arrive. *)
SendCommand ==
  /\ cmode = "UDP"
  /\ IF cerr THEN BackToTcp /\ UNCHANGED commands
     ELSE commands' = commands \cup {Datagram(cpeer)} /\ UNCHANGED client
  /\ UNCHANGED <<server, tcp, verifies, updates, trouble>>

(* 25 updates without an answer: hasty, when an answer was still to come.  *)
AnswerToCome ==
  \/ up # <<>> \/ down # <<>>
  \/ cstatus = "VERIFY_UDP" /\ (Datagram(cpeer) \in verifies \/ smode = "UDP" \/ csock \in updates)

Timeout ==
  /\ timer
  /\ IF AnswerToCome THEN Trouble ELSE UNCHANGED trouble
  /\ BackToTcp
  /\ UNCHANGED <<server, tcp, udp>>

-----------------------------------------------------------------------------
(* The server *)

Answer(r) == up' = Tail(up) /\ down' = Append(down, r)
CanAnswer == up # <<>> /\ Len(down) < MaxBacklog
NoSocket == smode' = "TCP" /\ ssock' = None /\ serr' = FALSE

(* Mutant: a client that asks for the mode we are in is told so. *)
HandleUdpAlready ==
  /\ CanAnswer /\ Head(up).request = "UDP"
  /\ IF smode = "UDP" THEN UNCHANGED server
     ELSE smode' = "TCP" /\ ssock' = Head(up).port /\ serr' = FALSE
  /\ Answer(Reply("UDP_OK", ssock'))
  /\ UNCHANGED <<client, udp, trouble>>

(* handleUdpReq(): an old connection is dropped, whatever the mode.        *)
HandleUdp ==
  /\ CanAnswer /\ Head(up).request = "UDP"
  /\ smode' = "TCP" /\ ssock' = Head(up).port /\ serr' = FALSE
  /\ Answer(Reply("UDP_OK", Head(up).port))
  /\ UNCHANGED <<client, udp, trouble>>

(* connUdpConn() fails. *)
DenyUdp ==
  /\ CanAnswer /\ Head(up).request = "UDP" /\ Trouble
  /\ NoSocket
  /\ Answer(Reply("DENIED", None))
  /\ UNCHANGED <<client, udp>>

HandleTcp ==
  /\ CanAnswer /\ Head(up).request = "TCP"
  /\ NoSocket
  /\ Answer(Reply("TCP_OK", None))
  /\ UNCHANGED <<client, udp, trouble>>

Accepts(d) == ssock = d.to /\ d.from = d.to

HandleVerify(d) ==
  /\ d \in verifies /\ Accepts(d)
  /\ verifies' = verifies \ {d}
  /\ smode' = "UDP"
  /\ updates' = updates \cup {ssock}   \* SWITCH_VERIFY
  /\ UNCHANGED <<client, ssock, serr, tcp, commands, trouble>>

HandleCommand(d) ==
  /\ d \in commands /\ Accepts(d)
  /\ commands' = commands \ {d}
  /\ UNCHANGED <<client, server, tcp, verifies, updates, trouble>>

(* flushSockBuf(), sendUDPbuffered() *)
SendUpdate ==
  /\ smode = "UDP"
  /\ IF serr THEN NoSocket /\ UNCHANGED updates
     ELSE updates' = updates \cup {ssock} /\ UNCHANGED server
  /\ UNCHANGED <<client, tcp, verifies, commands, trouble>>

(* doRead() gets ECONNREFUSED. *)
ServerHiccup ==
  /\ serr
  /\ serr' = FALSE
  /\ UNCHANGED <<client, smode, ssock, tcp, udp, trouble>>

-----------------------------------------------------------------------------
(* The network *)

Refuse(d) ==
  /\ d \in verifies \cup commands /\ ~Accepts(d)
  /\ verifies' = verifies \ {d} /\ commands' = commands \ {d}
  /\ cerr' = (cerr \/ (csock = d.from /\ cpeer = d.to))
  /\ UNCHANGED <<cmode, creq, cstatus, timer, csock, cpeer, server, tcp, updates, trouble>>

RefuseUpdate(n) ==
  /\ n \in updates /\ ~Heard(n)
  /\ updates' = updates \ {n}
  /\ serr' = (serr \/ ssock = n)
  /\ UNCHANGED <<client, smode, ssock, tcp, verifies, commands, trouble>>

(* A datagram is lost, or its refusal is. *)
Lose ==
  /\ Trouble
  /\ \/ \E d \in verifies : verifies' = verifies \ {d} /\ UNCHANGED <<commands, updates>>
     \/ \E d \in commands : commands' = commands \ {d} /\ UNCHANGED <<verifies, updates>>
     \/ \E n \in updates : updates' = updates \ {n} /\ UNCHANGED <<verifies, commands>>
  /\ UNCHANGED <<client, server, tcp>>

(* The TCP connection breaks, and the two find each other again.  The      *)
(* client leaves commStatus as it is.                                      *)
Resurrect ==
  /\ Trouble
  /\ cmode' = "TCP" /\ creq' = "TCP" /\ timer' = FALSE /\ CloseUdp
  /\ NoSocket
  /\ up' = <<>> /\ down' = <<>>
  /\ UNCHANGED <<cstatus, udp>>

Deliver ==
  \/ \E d \in verifies \cup commands : HandleVerify(d) \/ HandleCommand(d) \/ Refuse(d)
  \/ \E n \in updates : ReadUpdate(n) \/ RefuseUpdate(n)

Handle == HandleUdp \/ HandleTcp

Next ==
  \/ RequestUdp \/ RequestTcp \/ ForceReset \/ ReadReply \/ ReadError \/ SendCommand \/ Timeout
  \/ Handle \/ DenyUdp \/ SendUpdate \/ ServerHiccup
  \/ Deliver \/ Lose \/ Resurrect

Spec == Init /\ [][Next]_vars

(* Both programs run, both networks deliver what they do not lose, and the *)
(* user asks for UDP again whenever the client is in TCP.                  *)
FairSpec ==
  /\ Spec
  /\ WF_vars(RequestUdp) /\ WF_vars(ReadReply) /\ WF_vars(Timeout) /\ WF_vars(Handle)
  /\ WF_vars(SendCommand) /\ WF_vars(SendUpdate)
  /\ \A p \in Ports :
       /\ WF_vars(\E d \in verifies : d.from = p /\ (HandleVerify(d) \/ Refuse(d)))
       /\ WF_vars(\E d \in commands : d.from = p /\ (HandleCommand(d) \/ Refuse(d)))
       /\ WF_vars(ReadUpdate(p) \/ RefuseUpdate(p))

-----------------------------------------------------------------------------
(* Every variable has its type; datagrams are sent from open, connected     *)
(* sockets only.                                                           *)
TypeOK ==
  /\ {cmode, creq, smode} \subseteq {"TCP", "UDP"}
  /\ cstatus \in {"CONNECTED", "SWITCH_UDP", "SWITCH_TCP", "VERIFY_UDP"}
  /\ {timer, cerr, serr} \subseteq BOOLEAN
  /\ {csock, cpeer, ssock} \subseteq Ports \cup {None}
  /\ verifies \subseteq [from : Ports, to : Ports] /\ commands \subseteq [from : Ports, to : Ports]
  /\ updates \subseteq Ports

Linked == smode = "UDP" /\ cmode = "UDP" /\ ssock = csock /\ cpeer = ssock

(* Both sides in UDP are on the same link, and each side in UDP has a      *)
(* socket: late replies, verifies and requests of earlier attempts do not  *)
(* mix up two links.                                                       *)
SameLink ==
  /\ smode = "UDP" => ssock # None
  /\ cmode = "UDP" => csock # None /\ cpeer # None
  /\ smode = "UDP" /\ cmode = "UDP" => Linked

(* "Request is in progress, do not disturb": while a request blocks others  *)
(* of its kind, its timer runs or an answer is on its way.                  *)
InProgress ==
  creq # cmode =>
    \/ timer
    \/ \E i \in DOMAIN up : up[i].request = creq
    \/ \E j \in DOMAIN down : (down[j].reply = "TCP_OK") <=> (creq = "TCP")

(* A user who insists gets UDP in the end, and keeps it. *)
UdpInTheEnd == <>[]Linked

(* "the client will change state when it receives ANY packet on the UDP     *)
(* connection" (handleUdpReq() of the server): and only then.              *)
EstablishedByPacket ==
  [][ cmode = "TCP" /\ cmode' = "UDP" => \E n \in updates : updates' = updates \ {n} ]_vars

(* "Force reset to TCP" (the UDP window): the server is in TCP, or is told *)
(* to go there.                                                            *)
ResetReachesServer ==
  [][ ForceReset => smode = "TCP" \/ \E i \in DOMAIN up' : up'[i].request = "TCP" ]_vars

=============================================================================
