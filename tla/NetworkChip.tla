---------------------------- MODULE NetworkChip -----------------------------
(***************************************************************************)
(* The network chip and the library that drives it: the transmit ring of a *)
(* socket, the receive ring of datagrams, the sockets themselves, what a   *)
(* connection tells the sketch, the size registers, and the web server on  *)
(* top.  Each is a system of its own; they stand side by side to be        *)
(* checked in one run (MCSizeRegister) and proved in two modules           *)
(* (SendBufferProofs, EthernetProofs).                                     *)
(***************************************************************************)
EXTENDS SendBuffer

CONSTANTS
  RSize, RPtrRange, Senders, MaxLen,                    (* UdpReceive       *)
  MaxSock, FirstServer, Outgoing,                       (* EthernetSockets  *)
  TcpSize, MaxSent, MaxWait,                            (* ClientReceive    *)
  Base,                                                 (* SizeRegister     *)
  Requests, LengthChars                                 (* WebRequest       *)

VARIABLES
  udpOpen, rxRing, rxRD, received, remaining, remote, udpPc, waiting,
  current, given,                                       (* UdpReceive       *)
  SnSR, sockBytes, serverPort, sockPc, at, listening, after, held, out,
  udp, usedFor, stale,                                  (* EthernetSockets  *)
  status, sent, read, handle, clientPc, waited, told,   (* ClientReceive    *)
  reg, sizePc, first, second, been,                     (* SizeRegister     *)
  request, webSent, webOpen, timedOut, webPc, file, isGETreq,
  currentLineIsBlank, currentLineIsContentLength, counter, contentLength,
  fullRequestSize, answer                               (* WebRequest       *)

Udp == INSTANCE UdpReceive WITH
  PtrRange <- RPtrRange,
  open <- udpOpen, ring <- rxRing, pc <- udpPc
Sock == INSTANCE EthernetSockets WITH received <- sockBytes, pc <- sockPc
Client == INSTANCE ClientReceive WITH
  RSize <- TcpSize, pc <- clientPc, answer <- told
Size == INSTANCE SizeRegister WITH pc <- sizePc
Web == INSTANCE WebRequest WITH sent <- webSent, open <- webOpen, pc <- webPc

-----------------------------------------------------------------------------
(* UdpReceive: what is read is the datagram whose header came last, and    *)
(* behind it come the next one's header and data.                          *)
ReceivedAsSent == Udp!ReceivedAsSent

(* EthernetSockets: handles and ports have their types, the server keeps   *)
(* to its sockets and listens on one at most, and two live handles never   *)
(* name one socket but where connect() has left it in the table of the     *)
(* server.                                                                 *)
SocketsKeptApart == Sock!SocketsKeptApart

(* EthernetSockets: no connect(), begin() or accept() takes a socket in    *)
(* use; only a stop() closes it, through a handle that names it, be it one *)
(* left over from an earlier connection.                                   *)
LiveSocketKept == Sock!LiveSocketKept

(* SizeRegister and ClientReceive: what the chip is asked for while it     *)
(* goes on is not made of an old half and a new one.  A size other than    *)
(* zero that is returned was true at some moment of the call.  When        *)
(* connected() says over of a connection that the other side has closed,   *)
(* nothing is left to read; after a reset it says over with bytes unread,  *)
(* and the end of file that recv() tells is not meant either (the run      *)
(* eof).  When stop() comes back the socket is closed.                     *)
AnswersWereTrue == Size!SizeWasTrue /\ Client!AnswersAreTrue

(* WebRequest: the answer is for what was asked for; in time it comes when *)
(* the request is whole and not before; and the server never waits for a   *)
(* byte that does not come.                                                *)
RequestsAnswered == Web!RequestsAnswered

=============================================================================
