--------------------------- MODULE MCSizeRegister ---------------------------
(***************************************************************************)
(* The network chip and what is made of it, for TLC: its size registers,   *)
(* the four sockets, the buffers of a connection and of datagrams, what a  *)
(* connection tells the sketch, and the web server on top.  Parts is the   *)
(* set of those that are looked at; a behaviour is one of them, part says  *)
(* which, and nothing of the others moves.                                 *)
(*                                                                         *)
(* Size register: bytes of three values: the upper one can carry twice.    *)
(* Sockets: three, two of them for the server: enough for a connection in  *)
(* use, one that listens, and one that changes hands.                      *)
(* Sending: a ring of four bytes and pointers that wrap at eight: writes   *)
(* of one to five bytes wrap at every place, one is longer than the ring.  *)
(* Datagrams: a ring of five cells, so that a datagram of no to two bytes  *)
(* wraps in its header and in its data, and a second fits or does not.     *)
(* Connection: two bytes fit, four are sent, so that the chip fills up and *)
(* is emptied in parts; stop() waits three milliseconds.                   *)
(* Web server: GET and POST of four names, with another header before the  *)
(* length; and some with one behind it too, with letters of the pattern in *)
(* them, and a POST that does not tell its length.                         *)
(***************************************************************************)
EXTENDS NetworkChip

CONSTANT Parts

VARIABLE part

-----------------------------------------------------------------------------
Serves == INSTANCE EthernetSockets WITH
  Outgoing <- FALSE, received <- sockBytes, pc <- sockPc

(* Requests: the first line, another header or none, and the length.       *)
Eol   == <<"CR", "LF">>
Names == {<<>>, <<"in", "asl">>, <<"x", "asl">>, <<"x", "htm">>}
Chars == [l \in {"0", "2"} |-> IF l = "0" THEN 0 ELSE 2]

Get(name, headers) ==
  [text |-> <<"G">> \o name \o <<"H">> \o Eol \o headers \o Eol,
   name |-> name, method |-> "GET", length |-> "none"]

Post(name, before, length, behind, place) ==
  [text |-> <<"P", "O">> \o name \o <<"H">> \o Eol \o before
              \o <<"C", "L", length>> \o Eol \o behind \o Eol
              \o [i \in 1 .. Chars[length] |-> "x"],
   name |-> name, method |-> "POST", length |-> place]

NoLength(name) ==
  [text |-> <<"P", "O">> \o name \o <<"H">> \o Eol \o Eol,
   name |-> name, method |-> "POST", length |-> "none"]

Plain     == {<<>>, <<"L", "C">> \o Eol}
Scattered == Plain \cup {<<"C", "x", "L", "x">> \o Eol}

WebRequests ==
  {Get(n, h) : n \in Names, h \in Plain}
  \cup {Post(n, h, "2", <<>>, "last") : n \in Names, h \in Plain}
  \cup {Post(<<>>, h, "0", <<>>, "last") : h \in Plain}
  \cup {Post(<<"x">>, b, "0", h, "found") : b \in Scattered, h \in Scattered}
  \cup {NoLength(<<>>)}

ASSUME
  /\ SendAssumption /\ Udp!ReceiveAssumption
  /\ Sock!SocketsAssumption /\ Client!ClientAssumption
  /\ Size!BaseAssumption
  /\ Web!WebAssumption

-----------------------------------------------------------------------------
recvVars   == <<udpOpen, rxRing, rxRD, received, remaining, remote, udpPc,
                waiting, current, given>>
sockVars   == <<SnSR, sockBytes, serverPort, sockPc, at, listening, after,
                held, out, udp, usedFor, stale>>
clientVars == <<status, sent, read, handle, clientPc, waited, told>>
sizeVars   == <<reg, sizePc, first, second, been>>
webVars    == <<request, webSent, webOpen, timedOut, webPc, file, isGETreq,
                currentLineIsBlank, currentLineIsContentLength, counter,
                contentLength, fullRequestSize, answer>>
partVars   == <<part, sendVars, recvVars, sockVars, clientVars, sizeVars, webVars>>

(* A part that is not looked at is in one of its initial states.           *)
MCInit ==
  /\ part \in Parts
  /\ \/ part = "send" /\ Init
     \/ part # "send" /\ Init /\ mode = "tcp" /\ txWR = 0 /\ ring[0] = 0
                      /\ ring[1] = 0 /\ ring[2] = 0 /\ ring[3] = 0
  /\ Udp!Init /\ Sock!Init /\ Client!Init
  /\ Size!Init /\ (part = "size" \/ reg = Size!Zero)
  /\ Web!Init /\ (part = "web" \/ request = Get(<<>>, <<>>))

MCNext ==
  /\ UNCHANGED part
  /\ \/ part = "send" /\ Next
        /\ UNCHANGED <<recvVars, sockVars, clientVars, sizeVars, webVars>>
     \/ part = "udp" /\ Udp!Next
        /\ UNCHANGED <<sendVars, sockVars, clientVars, sizeVars, webVars>>
     \/ /\ \/ part = "sockets" /\ Sock!Next
           \/ part = "serves"  /\ Serves!Next
        /\ UNCHANGED <<sendVars, recvVars, clientVars, sizeVars, webVars>>
     \/ part = "client" /\ Client!Next
        /\ UNCHANGED <<sendVars, recvVars, sockVars, sizeVars, webVars>>
     \/ part = "size" /\ Size!Next
        /\ UNCHANGED <<sendVars, recvVars, sockVars, clientVars, webVars>>
     \/ part = "web" /\ Web!Next
        /\ UNCHANGED <<sendVars, recvVars, sockVars, clientVars, sizeVars>>

(* The fairness of each module for its part; connect() asks less of it     *)
(* than EthernetSockets has.                                               *)
MCSpec ==
  /\ MCInit /\ [][MCNext]_partVars
  /\ WF_sockVars(part = "sockets" /\ (Sock!Accept \/ Sock!Connected))
  /\ WF_sockVars(part = "sockets" /\ Sock!Answers)
  /\ WF_sockVars(part = "serves" /\ (Serves!Accept \/ Serves!Connected))
  /\ SF_sockVars(part = "serves" /\ Serves!CallAccept("scan"))
  /\ SF_sockVars(part = "serves" /\ Serves!Read(held))
  /\ \A s \in 0 .. 2 : WF_sockVars(part = "serves" /\ Serves!HangUp(s))
  /\ WF_recvVars(part = "udp" /\ Udp!Library)
  /\ WF_clientVars(part = "client" /\ Client!Library)
  /\ WF_webVars(part = "web" /\ Web!ReadChar)
  /\ WF_webVars(part = "web" /\ Web!LoopEnds)
  /\ WF_webVars(part = "web" /\ Web!ClientCloses)

-----------------------------------------------------------------------------
(* These loops of the library and of the web server end: connect(), but    *)
(* for a connection that was made and closed between two looks, the        *)
(* server's wait for a listener, flush() and parsePacket(), stop(), and    *)
(* the reading of a request.  The loops of send(), which wait for the chip *)
(* to take what it was given, are not among them.                          *)
CallsComeBack ==
  /\ [](part = "sockets")   => Sock!ConnectComesBack
  /\ [](part = "serves")    => Serves!ListensAgain
  /\ [](part = "udp")       => Udp!FlushEnds
  /\ [](part = "client")    => Client!StopComesBack
  /\ [](part = "web")       => Web!ComesBack

(* socket.cpp, line 156: at the end of file nothing is left to read.       *)
EofMeansAllRead == Client!EofMeansAllRead

=============================================================================
