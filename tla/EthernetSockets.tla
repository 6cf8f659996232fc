-------------------------- MODULE EthernetSockets ---------------------------
(***************************************************************************)
(* The four sockets of the network chip and the objects of the Ethernet    *)
(* library that share them (Ethernet/src: EthernetServer, EthernetClient,  *)
(* EthernetUDP; Ethernet/arch/sam/utility/socket.cpp).                     *)
(*                                                                         *)
(* The chip changes the state of a socket at any time.  The library only   *)
(* looks at it, socket by socket, and keeps a table of the ports that the  *)
(* server listens on.  A handle is a socket number: nothing tells it that  *)
(* the connection it was made for is gone and the socket used for another. *)
(* One server, one client object for incoming and one for outgoing         *)
(* connections and one UDP object stand for those of a sketch.             *)
(***************************************************************************)
EXTENDS Integers, FiniteSets

CONSTANTS
  MaxSock,     (* MAX_SOCK_NUM: 4 in the code                                *)
  FirstServer, (* the first socket EthernetServer::begin looks at: 2         *)
  Outgoing     (* whether the sketch also connects and uses UDP              *)

(* What the constants have to be; MCSizeRegister assumes it of its values.*)
SocketsAssumption ==
  /\ MaxSock \in Nat \ {0} /\ FirstServer \in 0 .. MaxSock - 1
  /\ Outgoing \in BOOLEAN

VARIABLES
  SnSR,        (* the status register of each socket                         *)
  received,    (* the socket has bytes to read                               *)
  serverPort,  (* _server_port[sock] is the port of the server               *)
  pc,          (* what the sketch is in                                      *)
  at,          (* the socket a loop has come to                              *)
  listening,   (* listening of accept()                                      *)
  after,       (* what accept() was called from: available or write          *)
  held, out, udp,  (* _sock of the three handles                             *)
  usedFor,     (* history: what the socket was last opened for               *)
  stale        (* history: handles whose connection is gone                  *)

sockVars == <<SnSR, received, serverPort, pc, at, listening, after, held, out,
              udp, usedFor, stale>>

-----------------------------------------------------------------------------
Socks    == 0 .. MaxSock - 1
Handle   == 0 .. MaxSock           (* MaxSock: no socket                     *)
Statuses == {"CLOSED", "INIT", "LISTEN", "SYNSENT", "ESTABLISHED", "CLOSE_WAIT", "UDP"}
Uses     == {"none", "in", "out", "udp"}
Handles  == {"held", "out", "udp"}

Init ==
  /\ SnSR = [s \in Socks |-> "CLOSED"]
  /\ received = [s \in Socks |-> FALSE]
  /\ serverPort = [s \in Socks |-> FALSE]
  /\ pc = "loop" /\ at = 0 /\ listening = FALSE /\ after = "scan"
  /\ held = MaxSock /\ out = MaxSock /\ udp = MaxSock
  /\ usedFor = [s \in Socks |-> "none"] /\ stale = {}

sketch == <<pc, at, listening, after, held, out, udp>>

-----------------------------------------------------------------------------
(* The chip and the network.                                               *)

Chip(s, from, to) ==
  /\ SnSR[s] = from
  /\ SnSR' = [SnSR EXCEPT ![s] = to]
  /\ UNCHANGED <<received, serverPort, usedFor, stale, sketch>>

CallIn(s)  == Chip(s, "LISTEN", "ESTABLISHED")
Answer(s)  == Chip(s, "SYNSENT", "ESTABLISHED")
Refuse(s)  == Chip(s, "SYNSENT", "CLOSED")
HangUp(s)  == Chip(s, "ESTABLISHED", "CLOSE_WAIT")
Abort(s)   == Chip(s, "ESTABLISHED", "CLOSED") \/ Chip(s, "CLOSE_WAIT", "CLOSED")

BytesCome(s) ==
  /\ SnSR[s] \in {"ESTABLISHED", "UDP"} /\ ~received[s]
  /\ received' = [received EXCEPT ![s] = TRUE]
  /\ UNCHANGED <<SnSR, serverPort, usedFor, stale, sketch>>

(* One socket at most is calling: connect() waits for its answer.          *)
Answers == \E s \in Socks : Answer(s) \/ Refuse(s)

Network(s) ==
  CallIn(s) \/ Answer(s) \/ Refuse(s) \/ HangUp(s) \/ Abort(s) \/ BytesCome(s)

-----------------------------------------------------------------------------
(* socket() closes what is there and opens the socket anew; every handle   *)
(* that still names it is stale from then on.                              *)

Named(s) == { h \in Handles : CASE h = "held" -> held = s [] h = "out" -> out = s
                                [] OTHER -> udp = s }

Open(s, status, use) ==
  /\ SnSR' = [SnSR EXCEPT ![s] = status]
  /\ received' = [received EXCEPT ![s] = FALSE]
  /\ usedFor' = [usedFor EXCEPT ![s] = use]

(* EthernetClient::stop and EthernetUDP::stop: after at most a second the  *)
(* socket is closed, whatever it is used for by then.                      *)
Close(s) ==
  /\ Open(s, "CLOSED", "none")
  /\ serverPort' = [serverPort EXCEPT ![s] = FALSE]

Lowest(S) == IF S = {} THEN MaxSock ELSE CHOOSE s \in S : \A t \in S : s <= t

-----------------------------------------------------------------------------
(* The server.  The definitions with a suffix are faulty variants of the   *)
(* operation they precede.                                                 *)

CallAccept(next) ==
  /\ pc = "loop"
  /\ pc' = "accept" /\ at' = 0 /\ listening' = FALSE /\ after' = next
  /\ UNCHANGED <<SnSR, received, serverPort, held, out, udp, usedFor, stale>>

Finished(s) == SnSR[s] = "CLOSE_WAIT" /\ ~received[s]

SeesListener(s) == listening \/ (serverPort[s] /\ SnSR[s] = "LISTEN")

AcceptLook ==
  /\ pc = "accept" /\ at < MaxSock
  /\ at' = at + 1
  /\ listening' = SeesListener(at)
  /\ IF serverPort[at] /\ Finished(at)
     THEN Close(at) /\ stale' = stale \cup Named(at)
     ELSE UNCHANGED <<SnSR, received, serverPort, usedFor, stale>>
  /\ UNCHANGED <<pc, after, held, out, udp>>

(* As in the original library: any socket will do.                         *)
MayListen_Any(s) == SnSR[s] = "CLOSED"

MayListen(s) == s >= FirstServer /\ SnSR[s] = "CLOSED"

(* begin(), when no socket was found listening; the call's own variables   *)
(* are gone with it.                                                       *)
AcceptEnd ==
  /\ pc = "accept" /\ at = MaxSock
  /\ LET s == Lowest({t \in Socks : MayListen(t)})
     IN IF ~listening /\ s # MaxSock
        THEN /\ Open(s, "LISTEN", "in")
             /\ serverPort' = [serverPort EXCEPT ![s] = TRUE]
             /\ stale' = stale \cup Named(s)
        ELSE UNCHANGED <<SnSR, received, serverPort, usedFor, stale>>
  /\ pc' = after /\ at' = 0 /\ listening' = FALSE /\ after' = "scan"
  /\ UNCHANGED <<held, out, udp>>

Serves(s) == serverPort[s] /\ SnSR[s] \in {"ESTABLISHED", "CLOSE_WAIT"} /\ received[s]

(* available() returns the first socket with something to read; the object *)
(* of the sketch forgets the socket it named before.                       *)
Scan ==
  /\ pc = "scan"
  /\ IF at = MaxSock \/ Serves(at)
     THEN /\ held' = at /\ stale' = stale \ {"held"} /\ pc' = "loop" /\ at' = 0
     ELSE /\ at' = at + 1 /\ UNCHANGED <<held, stale, pc>>
  /\ UNCHANGED <<SnSR, received, serverPort, listening, after, out, udp, usedFor>>

(* write() sends to every connection of the server.                        *)
Write ==
  /\ pc = "write"
  /\ IF at < MaxSock THEN at' = at + 1 /\ pc' = pc ELSE at' = 0 /\ pc' = "loop"
  /\ UNCHANGED <<SnSR, received, serverPort, listening, after, held, out, udp, usedFor,
                 stale>>

-----------------------------------------------------------------------------
(* The handles of the sketch.                                              *)

Read(s) ==
  /\ pc = "loop" /\ s # MaxSock /\ received[s]
  /\ received' = [received EXCEPT ![s] = FALSE]
  /\ UNCHANGED <<SnSR, serverPort, usedFor, stale, sketch>>

StopHeld ==
  /\ pc = "loop" /\ held # MaxSock
  /\ Close(held) /\ held' = MaxSock
  /\ stale' = (stale \cup Named(held)) \ {"held"}
  /\ UNCHANGED <<pc, at, listening, after, out, udp>>

StopOut ==
  /\ pc = "loop" /\ out # MaxSock
  /\ Close(out) /\ out' = MaxSock
  /\ stale' = (stale \cup Named(out)) \ {"out"}
  /\ UNCHANGED <<pc, at, listening, after, held, udp>>

StopUdp ==
  /\ pc = "loop" /\ udp # MaxSock
  /\ Close(udp) /\ udp' = MaxSock
  /\ stale' = (stale \cup Named(udp)) \ {"udp"}
  /\ UNCHANGED <<pc, at, listening, after, held, out>>

(* Takes a socket that is in use.                                          *)
MayConnect_InUse(s) == SnSR[s] # "LISTEN"

MayConnect(s) == SnSR[s] \in {"CLOSED", "CLOSE_WAIT"}

(* connect(): the first socket that is free, or that the other side has    *)
(* closed; the table of the server's ports is left as it is.  A request    *)
(* for no port, or for the address of no one or of all, opens the socket   *)
(* and comes back without it: no one closes it again.                      *)
ConnectNowhere ==
  /\ Outgoing /\ pc = "loop" /\ out = MaxSock
  /\ LET s == Lowest({t \in Socks : MayConnect(t)})
     IN /\ s # MaxSock
        /\ Open(s, "INIT", "out")
        /\ stale' = stale \cup Named(s)
  /\ UNCHANGED <<serverPort, sketch>>

Connect ==
  /\ Outgoing /\ pc = "loop" /\ out = MaxSock
  /\ LET s == Lowest({t \in Socks : MayConnect(t)})
     IN /\ s # MaxSock
        /\ Open(s, "SYNSENT", "out")
        /\ out' = s
        /\ stale' = (stale \cup Named(s)) \ {"out"}
  /\ pc' = "connect"
  /\ UNCHANGED <<serverPort, at, listening, after, held, udp>>

(* The loop waits for one of two states.                                   *)
Connecting == SnSR[out] \notin {"ESTABLISHED", "CLOSED"}

(* Tries again, without end, when it was refused.                          *)
Connected_OrAgain ==
  /\ pc = "connect" /\ ~Connecting
  /\ IF SnSR[out] = "CLOSED"
     THEN SnSR' = [SnSR EXCEPT ![out] = "SYNSENT"] /\ pc' = pc
     ELSE pc' = "loop" /\ SnSR' = SnSR
  /\ UNCHANGED <<received, serverPort, at, listening, after, held, out, udp, usedFor, stale>>

Connected ==
  /\ pc = "connect" /\ ~Connecting
  /\ pc' = "loop"
  /\ out' = IF SnSR[out] = "CLOSED" THEN MaxSock ELSE out
  /\ stale' = IF SnSR[out] = "CLOSED" THEN stale \ {"out"} ELSE stale
  /\ UNCHANGED <<SnSR, received, serverPort, at, listening, after, held, udp, usedFor>>

UdpBegin ==
  /\ Outgoing /\ pc = "loop" /\ udp = MaxSock
  /\ LET s == Lowest({t \in Socks : SnSR[t] = "CLOSED"})
     IN /\ s # MaxSock
        /\ Open(s, "UDP", "udp")
        /\ udp' = s
        /\ stale' = (stale \cup Named(s)) \ {"udp"}
  /\ UNCHANGED <<serverPort, pc, at, listening, after, held, out>>

-----------------------------------------------------------------------------
Accept == AcceptLook \/ AcceptEnd \/ Scan \/ Write

Serve == CallAccept("scan") \/ CallAccept("write") \/ Accept \/ Connected

Use == Read(held) \/ Read(out) \/ Read(udp) \/ StopHeld \/ StopOut \/ StopUdp
         \/ Connect \/ ConnectNowhere \/ UdpBegin

Next == (\E s \in Socks : Network(s)) \/ Serve \/ Use

Spec == Init /\ [][Next]_sockVars

(* The sketch asks the server again and again and reads what it is handed; *)
(* the other side does not keep a connection for ever, and gets an answer  *)
(* or none when it is called.                                              *)
FairSpec ==
  /\ Spec
  /\ WF_sockVars(Accept \/ Connected) /\ SF_sockVars(CallAccept("scan"))
  /\ SF_sockVars(Read(held))
  /\ \A s \in Socks : WF_sockVars(HangUp(s))
  /\ WF_sockVars(Answers)

-----------------------------------------------------------------------------
TypeOK ==
  /\ SnSR \in [Socks -> Statuses] /\ received \in [Socks -> BOOLEAN]
  /\ serverPort \in [Socks -> BOOLEAN]
  /\ pc \in {"loop", "accept", "scan", "write", "connect"} /\ after \in {"scan", "write"}
  /\ at \in Handle /\ listening \in BOOLEAN
  /\ {held, out, udp} \subseteq Handle
  /\ usedFor \in [Socks -> Uses] /\ stale \subseteq Handles

(* The server keeps to its sockets (EthernetServer.cpp:19: "modified to    *)
(* allow other services on the other two sockets"), and one of them at     *)
(* most is listening, although accept() looks at them one after the other  *)
(* while calls come in.                                                    *)
ServerKeepsToItsSockets ==
  \A s \in Socks : serverPort[s] \/ SnSR[s] = "LISTEN" => s >= FirstServer
OneListener ==
  \A s, t \in Socks : SnSR[s] = "LISTEN" /\ SnSR[t] = "LISTEN" => s = t

(* Two handles name the same socket only when one of them is left over     *)
(* from a connection that is gone, or when the socket of an outgoing       *)
(* connection still stands in the table of the server, which connect()     *)
(* does not clear.  Only then can one part of the sketch close or read     *)
(* what belongs to another.                                                *)
SharedSocketIsLeftOver ==
  \A s \in Socks : \/ Cardinality(Named(s) \ stale) <= 1
                   \/ usedFor[s] = "out" /\ serverPort[s]

(* So the sockets of the sketch are kept apart.                            *)
SocketsKeptApart ==
  TypeOK /\ ServerKeepsToItsSockets /\ OneListener /\ SharedSocketIsLeftOver

(* No connect(), begin() or accept() takes a socket that carries a         *)
(* connection or datagrams; only a stop() closes one, through a handle     *)
(* that names it.  The handle may be left over from an earlier connection: *)
(* that one part of the sketch then closes what belongs to another is not  *)
(* excluded here, and the code does not exclude it.                        *)
ClosedByOwner ==
  \A s \in Socks :
    SnSR[s] \in {"ESTABLISHED", "UDP"} /\ usedFor'[s] # usedFor[s] =>
      \/ held = s /\ held' = MaxSock
      \/ out = s /\ out' = MaxSock
      \/ udp = s /\ udp' = MaxSock
LiveSocketKept == [][ClosedByOwner]_sockVars

(* connect() comes back, with one exception: a connection that is made and *)
(* closed by the other side between two looks is in neither of the states  *)
(* the loop waits for.                                                     *)
ConnectComesBack ==
  pc = "connect" ~> pc # "connect" \/ SnSR[out] = "CLOSE_WAIT"

(* A server that is asked again and again always gets to listen again.     *)
ListensAgain ==
  (\A s \in Socks : SnSR[s] # "LISTEN") ~> (\E s \in Socks : SnSR[s] = "LISTEN")

=============================================================================
