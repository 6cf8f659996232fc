--------------------------- MODULE EthernetProofs ---------------------------
(***************************************************************************)
(* What goes over the network, for all constants: the sockets of the       *)
(* network chip stay apart, a connection that the other side has closed is *)
(* said to be over only when nothing is left to read, a size other than    *)
(* zero read from the chip was true at some moment of the call, a lease is *)
(* kept, the address a lookup returns is that of the name it was asked     *)
(* for, a page of the web server shows the number the server keeps, and a  *)
(* request is answered when it is whole.  Each part has an inductive       *)
(* invariant, a lemma for each step that keeps it, and the theorem last.   *)
(***************************************************************************)
EXTENDS NetworkChip, NetworkNames, PiServer, FiniteSetTheorems, SequenceTheorems,
        WellFoundedInduction, TLAPS

-----------------------------------------------------------------------------
(* What a socket was opened for decides which states the chip can show.    *)
StatusOfUse == \A s \in Sock!Socks :
  /\ SnSR[s] = "UDP" <=> usedFor[s] = "udp"
  /\ SnSR[s] = "LISTEN" => usedFor[s] = "in" /\ serverPort[s]
  /\ SnSR[s] # "CLOSED" => usedFor[s] # "none"

(* A handle that is not stale names a socket that was opened for it.       *)
OpenedFor == \A s \in Sock!Socks :
  /\ held = s /\ "held" \notin stale => \/ usedFor[s] = "in"
                                        \/ usedFor[s] = "out" /\ serverPort[s]
  /\ out = s /\ "out" \notin stale => usedFor[s] = "out"
  /\ udp = s /\ "udp" \notin stale => usedFor[s] = "udp"

(* accept() has seen whether one of the sockets behind it listens.         *)
SeenListening ==
  sockPc = "accept" /\ ~listening => \A s \in Sock!Socks : s < at => SnSR[s] # "LISTEN"

(* connect() waits on the socket it has taken.                             *)
InUse == sockPc = "connect" => out # MaxSock

(* The invariant: with what a socket was opened for, a second handle of a  *)
(* socket in use would have been opened for two uses at once; and begin()  *)
(* opens a listener only when accept() has seen none on the way.           *)
SocketsInv ==
  /\ Sock!TypeOK /\ StatusOfUse /\ OpenedFor /\ SeenListening /\ InUse
  /\ Sock!ServerKeepsToItsSockets /\ Sock!OneListener

-----------------------------------------------------------------------------
(* What a handle is: a socket, or MAX_SOCK_NUM for none.                   *)
LEMMA HandleType ==
  ASSUME Sock!SocketsAssumption
  PROVE  /\ MaxSock \in Sock!Handle /\ MaxSock \notin Sock!Socks /\ 0 \in Sock!Handle
         /\ \A s \in Sock!Handle : s \in Sock!Socks <=> s # MaxSock
         /\ \A s \in Sock!Socks :
              s \in Int /\ s \in Sock!Handle /\ s + 1 \in Sock!Handle
  BY DEF Sock!SocketsAssumption, Sock!Handle, Sock!Socks

(* The loops over the sockets stop at one of those they look for.          *)
LEMMA LowestType ==
  ASSUME Sock!SocketsAssumption, NEW S \in SUBSET Sock!Socks
  PROVE  Sock!Lowest(S) \in S \cup {MaxSock}
<1>1. CASE S = {}
  BY <1>1 DEF Sock!Lowest
<1>2. CASE S # {}
  <2>1. IsWellFoundedOn({p \in Nat \X Nat : p[1] < p[2]}, Nat)
    BY NatLessThanWellFounded DEF OpToRel
  <2>2. S \subseteq Nat
    BY DEF Sock!Socks, Sock!SocketsAssumption
  <2>3. \E s \in S : \A t \in S : <<t, s>> \notin {p \in Nat \X Nat : p[1] < p[2]}
    BY <2>1, <2>2, <1>2, WFMin
  <2>4. PICK s \in S : \A t \in S : <<t, s>> \notin {p \in Nat \X Nat : p[1] < p[2]}
    BY <2>3
  <2>5. ASSUME NEW t \in S PROVE s <= t
    <3>1. ~(<<t, s>>[1] < <<t, s>>[2]) /\ t \in Nat /\ s \in Nat
      BY <2>2, <2>4
    <3> QED BY <3>1
  <2>6. \E u \in S : \A t \in S : u <= t
    BY <2>5
  <2> QED BY <1>2, <2>6 DEF Sock!Lowest
<1> QED BY <1>1, <1>2

(* At the start no socket is open and no handle names one.                 *)
LEMMA SocketsInit == Sock!SocketsAssumption /\ Sock!Init => SocketsInv
<1> SUFFICES ASSUME Sock!SocketsAssumption, Sock!Init PROVE SocketsInv
  OBVIOUS
<1>1. Sock!TypeOK
  BY HandleType DEF Sock!Init, Sock!TypeOK, Sock!Statuses, Sock!Uses, Sock!Handles
<1> QED
  BY <1>1, HandleType DEF Sock!Init, SocketsInv, StatusOfUse, OpenedFor, SeenListening,
     InUse, Sock!ServerKeepsToItsSockets, Sock!OneListener

(* What the chip does on its own moves a socket between states of one use. *)
LEMMA ChipKeeps ==
  ASSUME Sock!SocketsAssumption, SocketsInv, NEW s \in Sock!Socks, Sock!Network(s)
  PROVE  SocketsInv'
<1> USE DEF SocketsInv
<1>1. CASE Sock!BytesCome(s)
  BY <1>1 DEF Sock!BytesCome, Sock!sketch, Sock!TypeOK, StatusOfUse, OpenedFor,
       SeenListening, InUse,
     Sock!ServerKeepsToItsSockets, Sock!OneListener
<1>2. ASSUME NEW from \in {"LISTEN", "SYNSENT", "ESTABLISHED", "CLOSE_WAIT"},
             NEW to \in {"ESTABLISHED", "CLOSED", "CLOSE_WAIT"},
             Sock!Chip(s, from, to)
      PROVE  SocketsInv'
  <2>1. /\ SnSR[s] = from /\ SnSR' = [SnSR EXCEPT ![s] = to]
        /\ UNCHANGED <<sockBytes, serverPort, usedFor, stale, sockPc, at, listening,
                       after, held, out, udp>>
    BY <1>2 DEF Sock!Chip, Sock!sketch
  <2>2. Sock!TypeOK'
    BY <2>1 DEF Sock!TypeOK, Sock!Statuses
  <2>3. SnSR'[s] = to /\ \A t \in Sock!Socks : t # s => SnSR'[t] = SnSR[t]
    BY <2>1 DEF Sock!TypeOK
  <2>4. StatusOfUse'
    BY <2>1, <2>3 DEF StatusOfUse
  <2>5. OpenedFor' /\ InUse'
    BY <2>1 DEF OpenedFor, InUse
  <2>6. SeenListening' /\ Sock!ServerKeepsToItsSockets' /\ Sock!OneListener'
    BY <2>1, <2>3 DEF SeenListening, Sock!ServerKeepsToItsSockets, Sock!OneListener
  <2> QED BY <2>2, <2>4, <2>5, <2>6
<1> QED BY <1>1, <1>2 DEF Sock!Network, Sock!CallIn, Sock!Answer, Sock!Refuse,
        Sock!HangUp, Sock!Abort

(* The handles of a socket.                                                *)
LEMMA NamedType ==
  ASSUME NEW s
  PROVE  /\ Sock!Named(s) \subseteq Sock!Handles
         /\ "held" \in Sock!Named(s) <=> held = s
         /\ "out" \in Sock!Named(s) <=> out = s
         /\ "udp" \in Sock!Named(s) <=> udp = s
  BY DEF Sock!Named, Sock!Handles

(* A socket that is closed or opened is what it is used for from then on;  *)
(* the others stay as they are.                                            *)
LEMMA OpenKeeps ==
  ASSUME Sock!SocketsAssumption, SocketsInv, NEW s \in Sock!Socks,
         NEW shown \in Sock!Statuses, NEW use \in Sock!Uses, Sock!Open(s, shown, use),
         NEW named \in BOOLEAN, serverPort' = [serverPort EXCEPT ![s] = named],
         shown = "UDP" <=> use = "udp",
         shown = "LISTEN" => use = "in" /\ named,
         shown # "CLOSED" => use # "none",
         named => s >= FirstServer
  PROVE  /\ SnSR' \in [Sock!Socks -> Sock!Statuses]
         /\ sockBytes' \in [Sock!Socks -> BOOLEAN]
         /\ serverPort' \in [Sock!Socks -> BOOLEAN]
         /\ usedFor' \in [Sock!Socks -> Sock!Uses]
         /\ SnSR'[s] = shown /\ usedFor'[s] = use /\ serverPort'[s] = named
         /\ \A t \in Sock!Socks \ {s} : /\ SnSR'[t] = SnSR[t] /\ usedFor'[t] = usedFor[t]
                                   /\ serverPort'[t] = serverPort[t]
         /\ StatusOfUse' /\ Sock!ServerKeepsToItsSockets'
         /\ shown # "LISTEN" => Sock!OneListener'
<1> USE DEF SocketsInv
<1>1. /\ SnSR' \in [Sock!Socks -> Sock!Statuses]
      /\ sockBytes' \in [Sock!Socks -> BOOLEAN]
      /\ serverPort' \in [Sock!Socks -> BOOLEAN]
      /\ usedFor' \in [Sock!Socks -> Sock!Uses]
  BY DEF Sock!Open, Sock!TypeOK
<1>2. SnSR'[s] = shown /\ usedFor'[s] = use /\ serverPort'[s] = named
  BY DEF Sock!Open, Sock!TypeOK
<1>3. \A t \in Sock!Socks \ {s} : /\ SnSR'[t] = SnSR[t] /\ usedFor'[t] = usedFor[t]
                             /\ serverPort'[t] = serverPort[t]
  BY DEF Sock!Open, Sock!TypeOK
<1>4. StatusOfUse' /\ Sock!ServerKeepsToItsSockets'
  BY <1>2, <1>3 DEF StatusOfUse, Sock!ServerKeepsToItsSockets
<1>5. shown # "LISTEN" => Sock!OneListener'
  BY <1>2, <1>3 DEF Sock!OneListener
<1> QED BY <1>1, <1>2, <1>3, <1>4, <1>5

(* accept() looks at a socket, and closes it when the connection is over.  *)
LEMMA LookKeeps ==
  ASSUME Sock!SocketsAssumption, SocketsInv, Sock!AcceptLook PROVE SocketsInv'
<1> USE DEF SocketsInv
<1>1. at \in Sock!Socks /\ at \in Int /\ at + 1 \in Sock!Handle
      /\ \A s \in Sock!Socks : s \in Int /\ (s < at + 1 <=> s < at \/ s = at)
  BY HandleType DEF Sock!AcceptLook, Sock!TypeOK, Sock!Handle, Sock!Socks,
       Sock!SocketsAssumption
<1>2. /\ at' = at + 1 /\ listening' = Sock!SeesListener(at)
      /\ sockPc' = "accept" /\ sockPc = "accept"
      /\ UNCHANGED <<after, held, out, udp>>
  BY DEF Sock!AcceptLook
<1>3. listening' \in BOOLEAN
  BY <1>2, <1>1 DEF Sock!SeesListener, Sock!TypeOK
<1>4. SnSR[at] = "LISTEN" => listening'
  BY <1>1, <1>2 DEF Sock!SeesListener, StatusOfUse
<1>5. CASE serverPort[at] /\ Sock!Finished(at)
  <2>1. Sock!Close(at) /\ stale' = stale \cup Sock!Named(at) /\ SnSR[at] # "LISTEN"
    BY <1>5 DEF Sock!AcceptLook, Sock!Finished
  <2>2. /\ SnSR' \in [Sock!Socks -> Sock!Statuses]
        /\ sockBytes' \in [Sock!Socks -> BOOLEAN]
        /\ serverPort' \in [Sock!Socks -> BOOLEAN]
        /\ usedFor' \in [Sock!Socks -> Sock!Uses]
        /\ SnSR'[at] = "CLOSED" /\ usedFor'[at] = "none"
        /\ \A t \in Sock!Socks \ {at} : /\ SnSR'[t] = SnSR[t] /\ usedFor'[t] = usedFor[t]
                                   /\ serverPort'[t] = serverPort[t]
        /\ StatusOfUse' /\ Sock!ServerKeepsToItsSockets' /\ Sock!OneListener'
    BY <1>1, <2>1, OpenKeeps DEF Sock!Close, Sock!Statuses, Sock!Uses
  <2>3. Sock!TypeOK'
    BY <1>1, <1>2, <1>3, <2>1, <2>2, NamedType DEF Sock!TypeOK
  <2>4. OpenedFor'
    BY <1>2, <2>1, <2>2, NamedType DEF OpenedFor
  <2>5. SeenListening' /\ InUse'
    BY <1>1, <1>2, <1>4, <2>1, <2>2 DEF SeenListening, InUse, Sock!SeesListener
  <2> QED BY <2>2, <2>3, <2>4, <2>5
<1>6. CASE ~(serverPort[at] /\ Sock!Finished(at))
  <2>1. UNCHANGED <<SnSR, sockBytes, serverPort, usedFor, stale>>
    BY <1>6 DEF Sock!AcceptLook
  <2>2. Sock!TypeOK'
    BY <1>1, <1>2, <1>3, <2>1 DEF Sock!TypeOK
  <2>3. SeenListening'
    BY <1>1, <1>2, <1>4, <2>1 DEF SeenListening, Sock!SeesListener
  <2> QED BY <1>2, <2>1, <2>2, <2>3 DEF StatusOfUse, OpenedFor, InUse,
          Sock!ServerKeepsToItsSockets, Sock!OneListener
<1> QED BY <1>5, <1>6

(* begin() opens a listener only when accept() has seen none on any socket.*)
LEMMA ListenKeeps ==
  ASSUME Sock!SocketsAssumption, SocketsInv, Sock!AcceptEnd PROVE SocketsInv'
<1> USE DEF SocketsInv
<1> DEFINE Unused == {t \in Sock!Socks : Sock!MayListen(t)}
           s    == Sock!Lowest(Unused)
<1>1. s \in Unused \cup {MaxSock}
  BY LowestType
<1>2. /\ sockPc = "accept" /\ at = MaxSock /\ sockPc' = after /\ at' = 0
      /\ listening' = FALSE /\ after' = "scan" /\ UNCHANGED <<held, out, udp>>
      /\ IF ~listening /\ s # MaxSock
         THEN /\ Sock!Open(s, "LISTEN", "in")
              /\ serverPort' = [serverPort EXCEPT ![s] = TRUE]
              /\ stale' = stale \cup Sock!Named(s)
         ELSE UNCHANGED <<SnSR, sockBytes, serverPort, usedFor, stale>>
  BY DEF Sock!AcceptEnd
<1> HIDE DEF s
<1>3. CASE ~listening /\ s # MaxSock
  <2>1. s \in Sock!Socks /\ s >= FirstServer
    BY <1>1, <1>3 DEF Sock!MayListen
  <2>2. /\ SnSR' \in [Sock!Socks -> Sock!Statuses]
        /\ sockBytes' \in [Sock!Socks -> BOOLEAN]
        /\ serverPort' \in [Sock!Socks -> BOOLEAN]
        /\ usedFor' \in [Sock!Socks -> Sock!Uses]
        /\ SnSR'[s] = "LISTEN" /\ usedFor'[s] = "in"
        /\ \A t \in Sock!Socks \ {s} : /\ SnSR'[t] = SnSR[t] /\ usedFor'[t] = usedFor[t]
                                  /\ serverPort'[t] = serverPort[t]
        /\ StatusOfUse' /\ Sock!ServerKeepsToItsSockets'
    BY <1>2, <1>3, <2>1, OpenKeeps DEF Sock!Statuses, Sock!Uses
  <2>3. Sock!TypeOK'
    BY <1>2, <1>3, <2>2, NamedType, HandleType DEF Sock!TypeOK
  <2>4. OpenedFor'
    BY <1>2, <1>3, <2>2, NamedType DEF OpenedFor
  <2>5. \A t \in Sock!Socks : SnSR[t] # "LISTEN"
    BY <1>2, <1>3, HandleType DEF SeenListening, Sock!Socks, Sock!SocketsAssumption
  <2>6. SeenListening' /\ Sock!OneListener' /\ InUse'
    BY <1>2, <2>2, <2>5 DEF SeenListening, Sock!OneListener, InUse, Sock!TypeOK
  <2> QED BY <2>2, <2>3, <2>4, <2>6
<1>4. CASE ~(~listening /\ s # MaxSock)
  BY <1>2, <1>4, HandleType DEF Sock!TypeOK, StatusOfUse, OpenedFor, SeenListening,
       InUse,
     Sock!ServerKeepsToItsSockets, Sock!OneListener
<1> QED BY <1>3, <1>4

(* available() hands out a socket that carries a connection of the server. *)
LEMMA ScanKeeps ==
  ASSUME Sock!SocketsAssumption, SocketsInv, Sock!Scan
  PROVE SocketsInv'
<1> USE DEF SocketsInv
<1>1. UNCHANGED <<SnSR, sockBytes, serverPort, listening, after, out, udp, usedFor>>
  BY DEF Sock!Scan
<1>2. CASE at = MaxSock \/ Sock!Serves(at)
  <2>1. /\ held' = at /\ stale' = stale \ {"held"} /\ sockPc' = "loop" /\ at' = 0
    BY <1>2 DEF Sock!Scan
  <2>2. Sock!TypeOK'
    BY <1>1, <2>1, HandleType DEF Sock!TypeOK
  <2>3. at \in Sock!Socks => usedFor[at] \in {"in", "out"} /\ serverPort[at]
    BY <1>2, HandleType DEF Sock!Serves, StatusOfUse, Sock!TypeOK, Sock!Uses
  <2>4. OpenedFor'
    BY <1>1, <2>1, <2>3 DEF OpenedFor
  <2> QED BY <1>1, <2>1, <2>2, <2>4 DEF StatusOfUse, SeenListening, InUse,
          Sock!ServerKeepsToItsSockets, Sock!OneListener
<1>3. CASE ~(at = MaxSock \/ Sock!Serves(at))
  <2>1. at' = at + 1 /\ UNCHANGED <<held, stale, sockPc>> /\ sockPc = "scan"
    BY <1>3 DEF Sock!Scan
  <2>2. Sock!TypeOK'
    BY <1>1, <1>3, <2>1, HandleType DEF Sock!TypeOK
  <2> QED BY <1>1, <2>1, <2>2 DEF StatusOfUse, OpenedFor, SeenListening, InUse,
          Sock!ServerKeepsToItsSockets, Sock!OneListener
<1> QED BY <1>2, <1>3

(* The steps that open and close no socket.                                *)
LEMMA QuietKeeps ==
  ASSUME Sock!SocketsAssumption, SocketsInv,
         \/ Sock!CallAccept("scan") \/ Sock!CallAccept("write") \/ Sock!Write \/ Sock!Connected
         \/ \E s \in {held, out, udp} : Sock!Read(s)
  PROVE  SocketsInv'
<1> USE DEF SocketsInv
<1>1. ASSUME NEW next \in {"scan", "write"}, Sock!CallAccept(next) PROVE SocketsInv'
  <2>1. /\ sockPc' = "accept" /\ at' = 0 /\ listening' = FALSE /\ after' = next
        /\ UNCHANGED <<SnSR, sockBytes, serverPort, held, out, udp, usedFor, stale>>
    BY <1>1 DEF Sock!CallAccept
  <2>2. Sock!TypeOK'
    BY <2>1, HandleType DEF Sock!TypeOK
  <2>3. SeenListening'
    BY <2>1 DEF SeenListening, Sock!Socks, Sock!SocketsAssumption
  <2> QED BY <2>1, <2>2, <2>3 DEF StatusOfUse, OpenedFor, InUse,
          Sock!ServerKeepsToItsSockets, Sock!OneListener
<1>2. CASE Sock!Write
  <2>1. /\ at' = IF at < MaxSock THEN at + 1 ELSE 0
        /\ sockPc' \in {"write", "loop"}
        /\ UNCHANGED <<SnSR, sockBytes, serverPort, listening, after, held, out, udp,
                       usedFor, stale>>
    BY <1>2 DEF Sock!Write
  <2>2. at' \in Sock!Handle
    BY <2>1 DEF Sock!TypeOK, Sock!Handle, Sock!SocketsAssumption
  <2>3. Sock!TypeOK'
    BY <2>1, <2>2 DEF Sock!TypeOK
  <2> QED BY <2>1, <2>3 DEF StatusOfUse, OpenedFor, SeenListening, InUse,
          Sock!ServerKeepsToItsSockets, Sock!OneListener
<1>3. CASE Sock!Connected
  <2>1. /\ sockPc' = "loop" /\ out' \in {out, MaxSock} /\ stale' \subseteq stale
        /\ stale' \in {stale, stale \ {"out"}}
        /\ (stale' # stale => out' = MaxSock)
        /\ UNCHANGED <<SnSR, sockBytes, serverPort, at, listening, after, held, udp,
                       usedFor>>
    BY <1>3 DEF Sock!Connected
  <2>2. Sock!TypeOK'
    BY <2>1, HandleType DEF Sock!TypeOK
  <2>3. OpenedFor'
    BY <2>1, HandleType DEF OpenedFor
  <2> QED BY <2>1, <2>2, <2>3 DEF StatusOfUse, SeenListening, InUse,
          Sock!ServerKeepsToItsSockets, Sock!OneListener
<1>4. ASSUME NEW s \in {held, out, udp}, Sock!Read(s) PROVE SocketsInv'
  BY <1>4 DEF Sock!Read, Sock!sketch, Sock!TypeOK, StatusOfUse, OpenedFor,
       SeenListening,
     InUse, Sock!ServerKeepsToItsSockets, Sock!OneListener
<1> QED BY <1>1, <1>2, <1>3, <1>4

(* stop() of any handle closes the socket it names and makes the others    *)
(* that name it stale.                                                     *)
LEMMA StopKeeps ==
  ASSUME Sock!SocketsAssumption, SocketsInv,
         Sock!StopHeld \/ Sock!StopOut \/ Sock!StopUdp
  PROVE  SocketsInv'
<1> USE DEF SocketsInv
<1>1. ASSUME NEW s \in Sock!Socks, Sock!Close(s),
             NEW h \in Sock!Handles, stale' = (stale \cup Sock!Named(s)) \ {h},
             held' = IF h = "held" THEN MaxSock ELSE held,
             out' = IF h = "out" THEN MaxSock ELSE out,
             udp' = IF h = "udp" THEN MaxSock ELSE udp,
             sockPc = "loop", UNCHANGED <<sockPc, at, listening, after>>
      PROVE  SocketsInv'
  <2>2. /\ SnSR' \in [Sock!Socks -> Sock!Statuses]
        /\ sockBytes' \in [Sock!Socks -> BOOLEAN]
        /\ serverPort' \in [Sock!Socks -> BOOLEAN]
        /\ usedFor' \in [Sock!Socks -> Sock!Uses]
        /\ SnSR'[s] = "CLOSED" /\ usedFor'[s] = "none"
        /\ \A t \in Sock!Socks \ {s} : /\ SnSR'[t] = SnSR[t] /\ usedFor'[t] = usedFor[t]
                                  /\ serverPort'[t] = serverPort[t]
        /\ StatusOfUse' /\ Sock!ServerKeepsToItsSockets' /\ Sock!OneListener'
    BY <1>1, OpenKeeps DEF Sock!Close, Sock!Statuses, Sock!Uses
  <2>3. Sock!TypeOK'
    BY <1>1, <2>2, NamedType, HandleType DEF Sock!TypeOK
  <2>4. OpenedFor'
    BY <1>1, <2>2, NamedType, HandleType DEF OpenedFor, Sock!Handles
  <2> QED BY <1>1, <2>2, <2>3, <2>4 DEF SeenListening, InUse
<1>2. held # MaxSock => held \in Sock!Socks
  BY HandleType DEF Sock!TypeOK
<1>3. out # MaxSock => out \in Sock!Socks
  BY HandleType DEF Sock!TypeOK
<1>4. udp # MaxSock => udp \in Sock!Socks
  BY HandleType DEF Sock!TypeOK
<1>5. CASE Sock!StopHeld
  BY <1>1, <1>2, <1>5 DEF Sock!StopHeld, Sock!Handles
<1>6. CASE Sock!StopOut
  BY <1>1, <1>3, <1>6 DEF Sock!StopOut, Sock!Handles
<1>7. CASE Sock!StopUdp
  BY <1>1, <1>4, <1>7 DEF Sock!StopUdp, Sock!Handles
<1> QED BY <1>5, <1>6, <1>7

(* connect() and UDP's begin() take a socket that no one is using any more,*)
(* or one whose connection the other side has closed.                      *)
LEMMA TakeKeeps ==
  ASSUME Sock!SocketsAssumption, SocketsInv,
         Sock!Connect \/ Sock!ConnectNowhere \/ Sock!UdpBegin
  PROVE  SocketsInv'
<1> USE DEF SocketsInv
<1>1. CASE Sock!Connect
  <2> DEFINE s == Sock!Lowest({t \in Sock!Socks : Sock!MayConnect(t)})
  <2>1. /\ sockPc = "loop" /\ s # MaxSock /\ Sock!Open(s, "SYNSENT", "out") /\ out' = s
        /\ stale' = (stale \cup Sock!Named(s)) \ {"out"} /\ sockPc' = "connect"
        /\ UNCHANGED <<serverPort, at, listening, after, held, udp>>
    BY <1>1 DEF Sock!Connect
  <2>2. s \in Sock!Socks
    BY <2>1, LowestType
  <2> HIDE DEF s
  <2>3. /\ serverPort' = [serverPort EXCEPT ![s] = serverPort[s]]
        /\ serverPort[s] \in BOOLEAN /\ (serverPort[s] => s >= FirstServer)
    BY <2>1, <2>2 DEF Sock!TypeOK, Sock!ServerKeepsToItsSockets
  <2>4. /\ SnSR' \in [Sock!Socks -> Sock!Statuses]
        /\ sockBytes' \in [Sock!Socks -> BOOLEAN]
        /\ serverPort' \in [Sock!Socks -> BOOLEAN]
        /\ usedFor' \in [Sock!Socks -> Sock!Uses]
        /\ SnSR'[s] = "SYNSENT" /\ usedFor'[s] = "out"
        /\ \A t \in Sock!Socks \ {s} : /\ SnSR'[t] = SnSR[t] /\ usedFor'[t] = usedFor[t]
                                  /\ serverPort'[t] = serverPort[t]
        /\ StatusOfUse' /\ Sock!ServerKeepsToItsSockets' /\ Sock!OneListener'
    BY <2>1, <2>2, <2>3, OpenKeeps DEF Sock!Statuses, Sock!Uses
  <2>5. Sock!TypeOK'
    BY <2>1, <2>2, <2>4, NamedType, HandleType DEF Sock!TypeOK
  <2>6. OpenedFor'
    BY <2>1, <2>2, <2>4, NamedType DEF OpenedFor
  <2> QED BY <2>1, <2>2, <2>4, <2>5, <2>6, HandleType DEF SeenListening, InUse
<1>2. CASE Sock!UdpBegin
  <2> DEFINE s == Sock!Lowest({t \in Sock!Socks : SnSR[t] = "CLOSED"})
  <2>1. /\ sockPc = "loop" /\ s # MaxSock /\ Sock!Open(s, "UDP", "udp") /\ udp' = s
        /\ stale' = (stale \cup Sock!Named(s)) \ {"udp"}
        /\ UNCHANGED <<serverPort, sockPc, at, listening, after, held, out>>
    BY <1>2 DEF Sock!UdpBegin
  <2>2. s \in Sock!Socks
    BY <2>1, LowestType
  <2> HIDE DEF s
  <2>3. /\ serverPort' = [serverPort EXCEPT ![s] = serverPort[s]]
        /\ serverPort[s] \in BOOLEAN /\ (serverPort[s] => s >= FirstServer)
    BY <2>1, <2>2 DEF Sock!TypeOK, Sock!ServerKeepsToItsSockets
  <2>4. /\ SnSR' \in [Sock!Socks -> Sock!Statuses]
        /\ sockBytes' \in [Sock!Socks -> BOOLEAN]
        /\ serverPort' \in [Sock!Socks -> BOOLEAN]
        /\ usedFor' \in [Sock!Socks -> Sock!Uses]
        /\ SnSR'[s] = "UDP" /\ usedFor'[s] = "udp"
        /\ \A t \in Sock!Socks \ {s} : /\ SnSR'[t] = SnSR[t] /\ usedFor'[t] = usedFor[t]
                                  /\ serverPort'[t] = serverPort[t]
        /\ StatusOfUse' /\ Sock!ServerKeepsToItsSockets' /\ Sock!OneListener'
    BY <2>1, <2>2, <2>3, OpenKeeps DEF Sock!Statuses, Sock!Uses
  <2>5. Sock!TypeOK'
    BY <2>1, <2>2, <2>4, NamedType, HandleType DEF Sock!TypeOK
  <2>6. OpenedFor'
    BY <2>1, <2>2, <2>4, NamedType DEF OpenedFor
  <2> QED BY <2>1, <2>2, <2>4, <2>5, <2>6, HandleType DEF SeenListening, InUse
<1>3. CASE Sock!ConnectNowhere
  <2> DEFINE s == Sock!Lowest({t \in Sock!Socks : Sock!MayConnect(t)})
  <2>1. /\ sockPc = "loop" /\ s # MaxSock /\ Sock!Open(s, "INIT", "out")
        /\ out = MaxSock /\ stale' = stale \cup Sock!Named(s)
        /\ UNCHANGED <<serverPort, sockPc, at, listening, after, held, out, udp>>
    BY <1>3 DEF Sock!ConnectNowhere, Sock!sketch
  <2>2. s \in Sock!Socks
    BY <2>1, LowestType
  <2> HIDE DEF s
  <2>3. /\ serverPort' = [serverPort EXCEPT ![s] = serverPort[s]]
        /\ serverPort[s] \in BOOLEAN /\ (serverPort[s] => s >= FirstServer)
    BY <2>1, <2>2 DEF Sock!TypeOK, Sock!ServerKeepsToItsSockets
  <2>4. /\ SnSR' \in [Sock!Socks -> Sock!Statuses]
        /\ sockBytes' \in [Sock!Socks -> BOOLEAN]
        /\ serverPort' \in [Sock!Socks -> BOOLEAN]
        /\ usedFor' \in [Sock!Socks -> Sock!Uses]
        /\ SnSR'[s] = "INIT" /\ usedFor'[s] = "out"
        /\ \A t \in Sock!Socks \ {s} : /\ SnSR'[t] = SnSR[t] /\ usedFor'[t] = usedFor[t]
                                  /\ serverPort'[t] = serverPort[t]
        /\ StatusOfUse' /\ Sock!ServerKeepsToItsSockets' /\ Sock!OneListener'
    BY <2>1, <2>2, <2>3, OpenKeeps DEF Sock!Statuses, Sock!Uses
  <2>5. Sock!TypeOK'
    BY <2>1, <2>2, <2>4, NamedType, HandleType DEF Sock!TypeOK
  <2>6. OpenedFor'
    BY <2>1, <2>2, <2>4, NamedType, HandleType DEF OpenedFor
  <2> QED BY <2>1, <2>2, <2>4, <2>5, <2>6, HandleType DEF SeenListening, InUse
<1> QED BY <1>1, <1>2, <1>3

(* Every step of the chip and of the library keeps the invariant.          *)
LEMMA SocketsStep ==
  ASSUME Sock!SocketsAssumption, SocketsInv, [Sock!Next]_(Sock!sockVars)
  PROVE  SocketsInv'
<1>1. CASE UNCHANGED Sock!sockVars
  BY <1>1 DEF Sock!sockVars, SocketsInv, Sock!TypeOK, StatusOfUse, OpenedFor,
       SeenListening,
     InUse, Sock!ServerKeepsToItsSockets, Sock!OneListener
<1>2. CASE \E s \in Sock!Socks : Sock!Network(s)
  BY <1>2, ChipKeeps
<1>3. CASE Sock!Serve
  BY <1>3, LookKeeps, ListenKeeps, ScanKeeps, QuietKeeps DEF Sock!Serve, Sock!Accept
<1>4. CASE Sock!Use
  BY <1>4, QuietKeeps, StopKeeps, TakeKeeps DEF Sock!Use
<1> QED BY <1>1, <1>2, <1>3, <1>4 DEF Sock!Next

(* EthernetSockets counts as the library does.                             *)
LEMMA SocketsCountAlike == \A S : Sock!Cardinality(S) = Cardinality(S)
BY DEF Sock!Cardinality, Cardinality

(* Three handles that were opened for three uses cannot share a socket.    *)
LEMMA NotShared == ASSUME SocketsInv PROVE Sock!SharedSocketIsLeftOver
<1> SUFFICES ASSUME NEW s \in Sock!Socks, ~(usedFor[s] = "out" /\ serverPort[s])
             PROVE  Cardinality(Sock!Named(s) \ stale) <= 1
  BY SocketsCountAlike DEF Sock!SharedSocketIsLeftOver
<1> DEFINE live == Sock!Named(s) \ stale
<1>1. /\ "held" \in live => usedFor[s] = "in"
      /\ "out" \in live => usedFor[s] = "out"
      /\ "udp" \in live => usedFor[s] = "udp"
  BY NamedType DEF SocketsInv, OpenedFor
<1>2. \A g, h \in live : g = h
  BY <1>1, NamedType DEF Sock!Handles
<1>3. CASE live = {}
  BY <1>3, FS_EmptySet
<1>4. CASE live # {}
  <2>1. PICK h : h \in live
    BY <1>4
  <2>2. live = {h}
    BY <1>2, <2>1
  <2>3. Cardinality({h}) = 1
    BY FS_Singleton
  <2> QED BY <2>2, <2>3
<1> QED BY <1>3, <1>4

(* However many sockets the chip has, the server keeps to its own and      *)
(* listens on one at most, and two live handles name one socket only where *)
(* connect() has left it in the table of the server.                       *)
THEOREM SocketsApart ==
  Sock!SocketsAssumption => (Sock!Spec => []SocketsKeptApart)
<1> SUFFICES ASSUME Sock!SocketsAssumption PROVE Sock!Spec => []SocketsKeptApart
  OBVIOUS
<1>1. Sock!Init => SocketsInv
  BY SocketsInit
<1>2. SocketsInv /\ [Sock!Next]_(Sock!sockVars) => SocketsInv'
  BY SocketsStep
<1>3. SocketsInv => SocketsKeptApart
  BY NotShared DEF SocketsKeptApart, Sock!SocketsKeptApart, SocketsInv
<1> QED BY <1>1, <1>2, <1>3, PTL DEF Sock!Spec

(* No connect(), begin() or accept() takes the socket of a connection that *)
(* is up or of datagrams; only a stop() closes it, through a handle that   *)
(* names it, be it its own or one left over.                               *)
THEOREM LiveKept == Sock!SocketsAssumption => (Sock!Spec => LiveSocketKept)
<1> SUFFICES ASSUME Sock!SocketsAssumption PROVE Sock!Spec => LiveSocketKept
  OBVIOUS
<1>1. Sock!Init => SocketsInv
  BY SocketsInit
<1>2. SocketsInv /\ [Sock!Next]_(Sock!sockVars) => SocketsInv'
  BY SocketsStep
<1>3. SocketsInv /\ [Sock!Next]_(Sock!sockVars) => [Sock!ClosedByOwner]_(Sock!sockVars)
  <2> SUFFICES ASSUME SocketsInv, Sock!Next, NEW s \in Sock!Socks,
                      SnSR[s] \in {"ESTABLISHED", "UDP"}, usedFor'[s] # usedFor[s]
               PROVE  \/ held = s /\ held' = MaxSock
                      \/ out = s /\ out' = MaxSock
                      \/ udp = s /\ udp' = MaxSock
    BY DEF Sock!ClosedByOwner
  <2>1. ASSUME NEW t, NEW shown, NEW use, Sock!Open(t, shown, use) PROVE t = s
    BY <2>1 DEF Sock!Open, SocketsInv, Sock!TypeOK
  <2>2. CASE Sock!Serve
    <3>1. Sock!AcceptLook => at = s /\ Sock!Finished(s)
      BY <2>1 DEF Sock!AcceptLook, Sock!Close
    <3>2. Sock!AcceptEnd => Sock!Lowest({t \in Sock!Socks : Sock!MayListen(t)}) = s
      BY <2>1 DEF Sock!AcceptEnd
    <3>3. Sock!AcceptEnd => Sock!MayListen(s)
      BY <3>2, LowestType, HandleType
    <3> QED BY <2>2, <3>1, <3>3 DEF Sock!Serve, Sock!Accept, Sock!CallAccept,
            Sock!Scan, Sock!Write, Sock!Connected,
            Sock!Finished, Sock!MayListen
  <2>3. CASE Sock!Use
    <3>1. Sock!Connect \/ Sock!ConnectNowhere =>
            Sock!Lowest({t \in Sock!Socks : Sock!MayConnect(t)}) = s
      BY <2>1 DEF Sock!Connect, Sock!ConnectNowhere
    <3>2. Sock!Connect \/ Sock!ConnectNowhere => Sock!MayConnect(s)
      BY <3>1, LowestType, HandleType
    <3>3. Sock!UdpBegin => Sock!Lowest({t \in Sock!Socks : SnSR[t] = "CLOSED"}) = s
      BY <2>1 DEF Sock!UdpBegin
    <3>4. Sock!UdpBegin => SnSR[s] = "CLOSED"
      BY <3>3, LowestType, HandleType
    <3>5. Sock!StopHeld \/ Sock!StopOut \/ Sock!StopUdp =>
            \/ held = s /\ held' = MaxSock
            \/ out = s /\ out' = MaxSock
            \/ udp = s /\ udp' = MaxSock
      BY <2>1 DEF Sock!StopHeld, Sock!StopOut, Sock!StopUdp, Sock!Close
    <3> QED BY <2>3, <3>2, <3>4, <3>5 DEF Sock!Use, Sock!Read, Sock!MayConnect
  <2>4. CASE \E t \in Sock!Socks : Sock!Network(t)
    BY <2>4 DEF Sock!Network, Sock!CallIn, Sock!Answer, Sock!Refuse, Sock!HangUp,
         Sock!Abort, Sock!Chip, Sock!BytesCome
  <2> QED BY <2>2, <2>3, <2>4 DEF Sock!Next
<1> QED BY <1>1, <1>2, <1>3, PTL DEF Sock!Spec, LiveSocketKept, Sock!LiveSocketKept

-----------------------------------------------------------------------------
(* connected() asks for the size after it has found the connection closed  *)
(* by the other side, and no byte comes after that.                        *)
ClientInv ==
  /\ Client!TypeOK /\ Client!StoppedIsClosed
  /\ told = "over" => \/ status \in {"closed", "finWait"}
                      \/ status = "closeWait" /\ Client!Unread = 0
  /\ clientPc = "connected" => status \in {"closed", "closeWait"}
  /\ clientPc # "sketch" => handle

(* Every step of the chip and of the library keeps it.                     *)
LEMMA ClientStep ==
  ASSUME Client!ClientAssumption, ClientInv, [Client!Next]_(Client!clientVars)
  PROVE  ClientInv'
<1> USE DEF ClientInv, Client!TypeOK, Client!StoppedIsClosed, Client!Unread,
        Client!Statuses, Client!ClientAssumption
<1>1. CASE Client!BytesCome
  BY <1>1 DEF Client!BytesCome
<1>2. CASE Client!Chip
  BY <1>2 DEF Client!Chip
<1>3. CASE Client!Connect
  BY <1>3 DEF Client!Connect
<1>4. ASSUME NEW n \in 1 .. TcpSize, Client!Recv(n) PROVE ClientInv'
  BY <1>4 DEF Client!Recv, Client!Taken
<1>5. CASE Client!Connected
  BY <1>5 DEF Client!Connected
<1>6. CASE Client!Stop
  BY <1>6 DEF Client!Stop
<1>7. CASE Client!RecvNothing
  BY <1>7 DEF Client!RecvNothing
<1>8. CASE Client!ConnectedLeft
  BY <1>8 DEF Client!ConnectedLeft, Client!Left
<1>9. CASE Client!StopWait
  BY <1>9 DEF Client!StopWait, Client!Patient
<1>10. CASE Client!StopEnd
  BY <1>10 DEF Client!StopEnd
<1>11. CASE UNCHANGED Client!clientVars
  BY <1>11 DEF Client!clientVars
<1> QED BY <1>1, <1>2, <1>3, <1>4, <1>5, <1>6, <1>7, <1>8, <1>9, <1>10, <1>11
        DEF Client!Next, Client!Library

(* Of a connection that the other side has closed, connected() says that   *)
(* it is over only when the sketch has read every byte that was sent; and  *)
(* stop() leaves no connection behind.  Of a connection that was reset, or *)
(* ended by the board itself, and of recv()'s end of file this says        *)
(* nothing.                                                                *)
THEOREM OverWhenAllRead ==
  Client!ClientAssumption => (Client!Spec => []Client!AnswersAreTrue)
<1> SUFFICES ASSUME Client!ClientAssumption
             PROVE  Client!Spec => []Client!AnswersAreTrue
  OBVIOUS
<1>1. Client!Init => ClientInv
  BY DEF Client!Init, ClientInv, Client!TypeOK, Client!StoppedIsClosed,
     Client!Unread, Client!Statuses, Client!ClientAssumption
<1>2. ClientInv /\ [Client!Next]_(Client!clientVars) => ClientInv'
  BY ClientStep
<1>3. ClientInv => Client!AnswersAreTrue
  BY DEF ClientInv, Client!OverMeansAllRead, Client!AnswersAreTrue
<1> QED BY <1>1, <1>2, <1>3, PTL DEF Client!Spec

-----------------------------------------------------------------------------
(* Of the register's halves nothing is known but their width.  The         *)
(* invariant keeps a witness: the value w the register had when the lower  *)
(* byte was read for the first time.  The upper byte read before is not    *)
(* above that of w, the one read afterwards not below it, so equal upper   *)
(* bytes leave only w itself.                                              *)
Reached(v, w) == v = w \/ Size!Below(v, w)

(* w is a value the register had, its lower byte is the one read first and *)
(* its upper byte is not below the one read first.                         *)
Witness(w) == w \in been /\ w.lo = first.lo /\ first.hi <= w.hi

SizeInv ==
  /\ Size!TypeOK
  /\ sizePc = "lo1" => first.hi <= reg.hi
  /\ sizePc = "hi2" => \E w \in Size!Words : Witness(w) /\ Reached(w, reg)
  /\ sizePc = "lo2" => \E w \in Size!Words : Witness(w) /\ w.hi <= second.hi
  /\ sizePc = "compare" /\ first # Size!Zero =>
       \E w \in Size!Words : Witness(w) /\ w.hi <= second.hi
  /\ Size!SizeWasTrue

(* Init establishes it.                                                    *)
LEMMA SizeInit == Size!BaseAssumption /\ Size!Init => SizeInv
  BY DEF Size!BaseAssumption, Size!Init, SizeInv, Size!TypeOK, Size!SizeWasTrue,
     Size!Words, Size!Byte, Size!Zero

(* The order of the values is kept when the register grows.                *)
LEMMA GrowKeepsReached ==
  ASSUME Size!BaseAssumption,
         NEW u \in Size!Words, NEW v \in Size!Words, NEW w \in Size!Words,
         Reached(u, v), Size!Below(v, w)
  PROVE  Reached(u, w) /\ v.hi <= w.hi
  BY DEF Size!BaseAssumption, Reached, Size!Below, Size!Words, Size!Byte

(* What each step needs to keep it.                                        *)
LEMMA SizeStep ==
  ASSUME Size!BaseAssumption, SizeInv, [Size!Next]_(Size!sizeVars) PROVE SizeInv'
<1>z. Size!Zero \in Size!Words
  BY DEF Size!BaseAssumption, Size!Zero, Size!Words, Size!Byte
<1>b. \A x \in Size!Byte : x \in Nat
  BY DEF Size!BaseAssumption, Size!Byte
<1>t. Size!TypeOK
  BY DEF SizeInv
<1>1. CASE Size!Grow
  <2>1. PICK w \in Size!Words : Size!Below(reg, w) /\ reg' = w
    BY <1>1 DEF Size!Grow
  <2>2. Size!TypeOK'
    BY <1>1, <1>t, <2>1 DEF Size!Grow, Size!TypeOK
  <2>3. (sizePc = "lo1" => first.hi <= reg.hi)'
    BY <1>1, <1>t, <1>b, <2>1 DEF Size!Grow, SizeInv, Size!TypeOK, Size!Below,
       Size!Words
  <2>4. (sizePc = "hi2" => \E v \in Size!Words : Witness(v) /\ Reached(v, reg))'
    BY <1>1, <1>t, <2>1, GrowKeepsReached DEF Size!Grow, SizeInv, Size!TypeOK,
       Witness
  <2>5. /\ (sizePc = "lo2" =>
              \E v \in Size!Words : Witness(v) /\ v.hi <= second.hi)'
        /\ (sizePc = "compare" /\ first # Size!Zero =>
              \E v \in Size!Words : Witness(v) /\ v.hi <= second.hi)'
    BY <1>1 DEF Size!Grow, SizeInv, Witness
  <2>6. Size!SizeWasTrue'
    BY <1>1 DEF Size!Grow, Size!SizeWasTrue
  <2> QED
    BY <2>2, <2>3, <2>4, <2>5, <2>6 DEF SizeInv
<1>2. CASE Size!ReadHi1
  <2>1. Size!TypeOK' /\ first'.hi = reg.hi
    BY <1>2, <1>t DEF Size!ReadHi1, Size!TypeOK, Size!Words
  <2> QED
    BY <1>2, <1>t, <1>b, <2>1 DEF Size!ReadHi1, SizeInv, Size!TypeOK,
       Size!SizeWasTrue, Size!Words
<1>3. CASE Size!ReadLo1
  <2>1. Size!TypeOK' /\ first'.lo = reg.lo /\ first'.hi = first.hi
    BY <1>3, <1>t DEF Size!ReadLo1, Size!TypeOK, Size!Words
  <2>2. first.hi <= reg.hi
    BY <1>3 DEF Size!ReadLo1, SizeInv
  <2>3. sizePc' = "hi2" => Witness(reg)' /\ Reached(reg, reg)
    BY <1>3, <1>t, <2>1, <2>2 DEF Size!ReadLo1, Size!TypeOK, Witness, Reached
  <2>4. /\ sizePc' \in {"compare", "hi2"}
        /\ sizePc' = "compare" => first' = Size!Zero
    BY <1>3 DEF Size!ReadLo1
  <2>5. reg' = reg /\ reg \in Size!Words
    BY <1>3, <1>t DEF Size!ReadLo1, Size!TypeOK
  <2> QED
    BY <2>1, <2>3, <2>4, <2>5 DEF SizeInv, Size!SizeWasTrue
<1>4. CASE Size!ReadHi2
  <2>1. Size!TypeOK' /\ second'.hi = reg.hi
    BY <1>4, <1>t DEF Size!ReadHi2, Size!TypeOK, Size!Words
  <2>2. PICK w \in Size!Words : Witness(w) /\ Reached(w, reg)
    BY <1>4 DEF Size!ReadHi2, SizeInv
  <2>3. w.hi <= second'.hi
    BY <1>t, <1>b, <2>1, <2>2 DEF Reached, Size!Below, Size!TypeOK, Size!Words
  <2>4. Witness(w)'
    BY <1>4, <2>2 DEF Size!ReadHi2, Witness
  <2> QED
    BY <1>4, <2>1, <2>3, <2>4 DEF Size!ReadHi2, SizeInv, Size!SizeWasTrue
<1>5. CASE Size!ReadLo2
  <2>1. Size!TypeOK' /\ second'.hi = second.hi
    BY <1>5, <1>t DEF Size!ReadLo2, Size!TypeOK, Size!Words
  <2>2. PICK w \in Size!Words : Witness(w) /\ w.hi <= second.hi
    BY <1>5 DEF Size!ReadLo2, SizeInv
  <2>3. Witness(w)'
    BY <1>5, <2>2 DEF Size!ReadLo2, Witness
  <2> QED
    BY <1>5, <2>1, <2>2, <2>3 DEF Size!ReadLo2, SizeInv, Size!SizeWasTrue
<1>6. CASE Size!Compare
  <2>1. Size!TypeOK'
    BY <1>6, <1>t DEF Size!Compare, Size!TypeOK
  <2>2. ASSUME sizePc' = "returned", second' # Size!Zero PROVE second' \in been'
    <3>1. first = second /\ second # Size!Zero /\ sizePc = "compare"
      BY <1>6, <2>2 DEF Size!Compare, Size!Same
    <3>2. PICK w \in Size!Words : Witness(w) /\ w.hi <= second.hi
      BY <3>1 DEF SizeInv
    <3>3. w.hi = second.hi /\ w.lo = second.lo
      BY <1>t, <1>b, <3>1, <3>2 DEF Witness, Size!TypeOK, Size!Words
    <3>4. w = second
      BY <1>t, <3>3 DEF Size!TypeOK, Size!Words
    <3> QED
      BY <1>6, <3>2, <3>4 DEF Size!Compare, Witness
  <2> QED
    BY <1>6, <2>1, <2>2 DEF Size!Compare, SizeInv, Size!SizeWasTrue
<1>7. CASE Size!Call
  BY <1>7, <1>z, <1>t DEF Size!Call, SizeInv, Size!TypeOK, Size!SizeWasTrue
<1>8. CASE UNCHANGED Size!sizeVars
  BY <1>8 DEF Size!sizeVars, SizeInv, Size!TypeOK, Size!SizeWasTrue, Witness
<1> QED
  BY <1>1, <1>2, <1>3, <1>4, <1>5, <1>6, <1>7, <1>8 DEF Size!Next

(* getTXFreeSize and getRXReceivedSize return no size that never was: two  *)
(* equal readings of the bytes of a growing register are the value it had  *)
(* when the lower byte was read for the first time.                        *)
THEOREM SizeRegisterIsTrue ==
  Size!BaseAssumption => (Size!Spec => [](Size!TypeOK /\ Size!SizeWasTrue))
<1> SUFFICES ASSUME Size!BaseAssumption
             PROVE  Size!Spec => [](Size!TypeOK /\ Size!SizeWasTrue)
  OBVIOUS
<1>1. Size!Init => SizeInv
  BY SizeInit
<1>2. SizeInv /\ [Size!Next]_(Size!sizeVars) => SizeInv'
  BY SizeStep
<1>3. SizeInv => Size!TypeOK /\ Size!SizeWasTrue
  BY DEF SizeInv
<1> QED
  BY <1>1, <1>2, <1>3, PTL DEF Size!Spec

(* So a size other than zero, and the end of a connection that the other   *)
(* side has closed, are what the chip had at some moment of the call.      *)
THEOREM ChipAnswersWereTrue ==
  Size!BaseAssumption /\ Client!ClientAssumption =>
    (Size!Spec /\ Client!Spec => []AnswersWereTrue)
<1> SUFFICES ASSUME Size!BaseAssumption, Client!ClientAssumption
             PROVE  Size!Spec /\ Client!Spec => []AnswersWereTrue
  OBVIOUS
<1>1. Size!Spec => [](Size!TypeOK /\ Size!SizeWasTrue)
  BY SizeRegisterIsTrue
<1>2. Client!Spec => []Client!AnswersAreTrue
  BY OverWhenAllRead
<1>3. Size!SizeWasTrue /\ Client!AnswersAreTrue => AnswersWereTrue
  BY DEF AnswersWereTrue
<1> QED BY <1>1, <1>2, <1>3, PTL

-----------------------------------------------------------------------------
(* DhcpLease counts as the library does.                                   *)
LEMMA CountsAlike == \A S : Dhcp!Cardinality(S) = Cardinality(S)
BY DEF Dhcp!Cardinality, Cardinality

(* An answer says nothing of the timers when it says nothing of the lease. *)
TimersComeWithLease == \A m \in net : m.lease = 0 => ~m.timers

(* The times kept from the answers so far: they fit their width, and the   *)
(* second timer is there only when the first is, and is not before it.     *)
TimesInOrder ==
  /\ leaseTime < LongRange /\ t2 < LongRange
  /\ t1 <= t2 /\ (t1 = 0 => t2 = 0)
  /\ state = "LEASED" => IF 2 * t2 < LongRange THEN renewIn <= rebindIn ELSE rebindIn <= 0

(* A round waits only where it listens, and is over soon after its time.   *)
RoundIsBounded ==
  /\ phase = "test" \/ state \notin {"DISCOVER", "REQUEST"} => sinceAsked = 0
  /\ phase = "iterate" => elapsed <= Timeout + sinceAsked
  /\ phase \in {"idle", "check"} => elapsed = 0 /\ sinceAsked = 0

(* With the lease comes the address; the chip has it when the call is over.*)
AddressOfLease ==
  state = "LEASED" =>
    /\ localIp = granted /\ phase # "iterate"
    /\ phase \in {"idle", "check"} => chipIp = granted

(* The invariant.                                                          *)
LeaseInv ==
  /\ Dhcp!TypeOK /\ IsFiniteSet(net)
  /\ TimersComeWithLease /\ TimesInOrder /\ RoundIsBounded /\ AddressOfLease

-----------------------------------------------------------------------------
(* What an answer on its way is, and that there is still room for it.      *)
NetOK ==
  /\ net \subseteq Dhcp!Message /\ IsFiniteSet(net)
  /\ Dhcp!Cardinality(net) <= MaxNet

(* A question may bring an answer, of the kind TimersComeWithLease says.   *)
LEMMA SendKeepsNet ==
  ASSUME Dhcp!DhcpAssumption, NEW q \in {"DISCOVER", "REQUEST"}, NEW x \in Nat,
         NEW named \in Dhcp!Address,
         NEW others, others \subseteq Dhcp!Message, IsFiniteSet(others),
         Dhcp!Cardinality(others) <= MaxNet,
         \A m \in others : m.lease = 0 => ~m.timers,
         Dhcp!Send(q, x, named, others)
  PROVE  NetOK' /\ TimersComeWithLease'
<1>1. CASE net' = others
  BY <1>1 DEF NetOK, TimersComeWithLease
<1>2. CASE net' # others
  <2>1. PICK m \in Dhcp!Answers(q, x, named) :
          net' = others \cup {m} /\ Dhcp!Cardinality(others) < MaxNet
    BY <1>2 DEF Dhcp!Send
  <2>2. m \in Dhcp!Message /\ (m.lease = 0 => ~m.timers)
    BY <2>1 DEF Dhcp!Answers, Dhcp!Message, Dhcp!Address
  <2>3. IsFiniteSet(net') /\ Dhcp!Cardinality(net') <= Dhcp!Cardinality(others) + 1
    <3>1. IsFiniteSet(net') /\ Cardinality(net') <= Cardinality(others) + 1
      BY <2>1, FS_AddElement, FS_CardinalityType
    <3> QED BY <3>1, CountsAlike
  <2>4. Dhcp!Cardinality(net') <= MaxNet
    BY <2>1, <2>3, FS_CardinalityType, CountsAlike DEF Dhcp!DhcpAssumption
  <2> QED BY <2>1, <2>2, <2>3, <2>4 DEF NetOK, TimersComeWithLease
<1> QED BY <1>1, <1>2

(* An answer that is taken or lost makes room.                             *)
LEMMA LessOnTheWay ==
  ASSUME Dhcp!DhcpAssumption, NetOK, TimersComeWithLease, NEW m \in net
  PROVE  /\ net \ {m} \subseteq Dhcp!Message /\ IsFiniteSet(net \ {m})
         /\ Dhcp!Cardinality(net \ {m}) <= MaxNet
         /\ \A n \in net \ {m} : n.lease = 0 => ~n.timers
<1>1. IsFiniteSet(net \ {m}) /\ Dhcp!Cardinality(net \ {m}) = Dhcp!Cardinality(net) - 1
  BY FS_RemoveElement, CountsAlike DEF NetOK
<1> QED BY <1>1, FS_CardinalityType, CountsAlike DEF Dhcp!DhcpAssumption,
        NetOK, TimersComeWithLease

(* What is read from an answer.                                            *)
LEMMA TimesOfAnswer ==
  ASSUME Dhcp!DhcpAssumption, LeaseInv, NEW m \in net
  PROVE  /\ Dhcp!LeaseOf(m) \in Nat /\ Dhcp!LeaseOf(m) < LongRange
         /\ Dhcp!FirstOf(m) \in Nat /\ Dhcp!SecondOf(m) \in Nat
         /\ Dhcp!SecondOf(m) < LongRange
         /\ Dhcp!FirstOf(m) <= Dhcp!SecondOf(m)
         /\ Dhcp!FirstOf(m) = 0 => Dhcp!SecondOf(m) = 0
<1>m. m.lease \in 0 .. LongRange - 1 /\ LongRange \in Nat
  <2>1. m \in Dhcp!Message
    BY DEF LeaseInv, Dhcp!TypeOK
  <2>2. m.lease \in Leases
    BY <2>1 DEF Dhcp!Message
  <2> QED BY <2>2 DEF Dhcp!DhcpAssumption
<1>1. /\ m.lease \in Nat /\ m.lease < LongRange /\ (m.timers => m.lease # 0)
      /\ leaseTime \in Nat /\ t1 \in Nat /\ t2 \in Nat /\ LongRange \in Nat
  BY <1>m DEF LeaseInv, Dhcp!TypeOK, TimersComeWithLease
<1>2. CASE m.timers
  BY <1>1, <1>2 DEF Dhcp!LeaseOf, Dhcp!FirstOf, Dhcp!SecondOf, Dhcp!HalfOf,
     Dhcp!MostOf, LeaseInv, TimesInOrder
<1>3. CASE ~m.timers
  BY <1>1, <1>3 DEF Dhcp!LeaseOf, Dhcp!FirstOf, Dhcp!SecondOf, LeaseInv,
     TimesInOrder
<1> QED BY <1>2, <1>3

(* The two times of a lease: the one of the renewal is not the longer.     *)
LEMMA LeaseTimes ==
  ASSUME Dhcp!DhcpAssumption, NEW lease0 \in Nat, lease0 < LongRange,
         NEW f0 \in Nat, NEW s0 \in Nat, s0 < LongRange,
         f0 <= s0, f0 = 0 => s0 = 0
  PROVE  LET lease  == Dhcp!Or(lease0, DefaultLease)
             firstIn  == Dhcp!Or(f0, lease \div 2)
             secondIn == Dhcp!Or(s0, (2 * firstIn) % LongRange)
         IN /\ lease \in Nat /\ lease < LongRange
            /\ firstIn \in Nat /\ secondIn \in Nat /\ secondIn < LongRange
            /\ firstIn <= secondIn /\ (firstIn = 0 => secondIn = 0)
<1> DEFINE lease  == Dhcp!Or(lease0, DefaultLease)
           firstIn  == Dhcp!Or(f0, lease \div 2)
           twice    == (2 * firstIn) % LongRange
           secondIn == Dhcp!Or(s0, twice)
<1>1. lease \in Nat /\ lease < LongRange /\ LongRange \in Nat
  BY DEF Dhcp!DhcpAssumption, Dhcp!Or
<1> HIDE DEF lease
<1>2. lease \div 2 \in Nat /\ 2 * (lease \div 2) <= lease
  BY <1>1
<1>3. firstIn \in Nat /\ firstIn = IF f0 = 0 THEN lease \div 2 ELSE f0
  BY <1>2 DEF Dhcp!Or
<1> HIDE DEF firstIn
<1>4. secondIn = IF s0 = 0 THEN twice ELSE s0
  BY DEF Dhcp!Or
<1>5. CASE f0 = 0
  <2>1. 2 * firstIn \in Nat /\ 2 * firstIn < LongRange
    BY <1>1, <1>2, <1>3, <1>5
  <2>2. twice = 2 * firstIn
    <3> DEFINE n == 2 * firstIn
    <3>1. n \in Nat /\ n < LongRange
      BY <2>1
    <3> HIDE DEF n
    <3>2. n % LongRange = n
      BY <1>1, <3>1, Z3
    <3> QED BY <3>2 DEF n
  <2> HIDE DEF twice, secondIn
  <2> QED BY <1>1, <1>3, <1>4, <1>5, <2>1, <2>2 DEF lease, firstIn, twice, secondIn
<1>6. CASE f0 # 0
  <2> HIDE DEF twice, secondIn
  <2>1. secondIn = s0 /\ firstIn = f0
    BY <1>3, <1>4, <1>6
  <2> QED BY <1>1, <1>6, <2>1 DEF lease, firstIn, twice, secondIn
<1> QED BY <1>5, <1>6

(* Kept in a signed long they stay in order below half its range; above it *)
(* the second is in the past.                                              *)
LEMMA CountersInOrder ==
  ASSUME Dhcp!DhcpAssumption, NEW f \in Nat, NEW g \in Nat, f <= g, g < LongRange
  PROVE  /\ Dhcp!Signed(f) \in Int /\ Dhcp!Signed(g) \in Int
         /\ IF 2 * g < LongRange THEN Dhcp!Signed(f) <= Dhcp!Signed(g)
            ELSE Dhcp!Signed(g) <= 0
BY DEF Dhcp!DhcpAssumption, Dhcp!Signed

(* Counting down keeps the order of the two counters, and does not take    *)
(* one out of the past.                                                    *)
LEMMA LessKeepsOrder ==
  ASSUME Dhcp!DhcpAssumption, NEW n \in Int, NEW k \in Int,
         NEW factor \in 1 .. MaxFactor
  PROVE  /\ Dhcp!Less(n, factor) \in Int
         /\ n <= 0 => Dhcp!Less(n, factor) <= 0
         /\ n <= k => Dhcp!Less(n, factor) <= Dhcp!Less(k, factor)
BY DEF Dhcp!DhcpAssumption, Dhcp!Less

-----------------------------------------------------------------------------
(* At the start of begin nothing is known.                                 *)
LEMMA LeaseInit == ASSUME Dhcp!DhcpAssumption, Dhcp!Init PROVE LeaseInv
<1>1. IsFiniteSet(net) /\ Dhcp!Cardinality(net) = 0
  BY FS_EmptySet, CountsAlike DEF Dhcp!Init
<1>2. Dhcp!TypeOK
  BY <1>1 DEF Dhcp!DhcpAssumption, Dhcp!Init, Dhcp!TypeOK, Dhcp!Address,
     Dhcp!States
<1> QED BY <1>1, <1>2 DEF Dhcp!DhcpAssumption, Dhcp!Init, LeaseInv,
        TimersComeWithLease, TimesInOrder, RoundIsBounded, AddressOfLease

(* A packet of the round.                                                  *)
LEMMA ReceiveKeepsLease ==
  ASSUME Dhcp!DhcpAssumption, LeaseInv, NEW m \in net, Dhcp!Receive(m)
  PROVE  LeaseInv'
<1>t. Dhcp!TypeOK /\ Dhcp!Listens /\ m \in Dhcp!Message
  BY DEF LeaseInv, Dhcp!Receive, Dhcp!TypeOK
<1>n. NetOK
  BY DEF LeaseInv, Dhcp!TypeOK, NetOK
<1>r. /\ net \ {m} \subseteq Dhcp!Message /\ IsFiniteSet(net \ {m})
      /\ Dhcp!Cardinality(net \ {m}) <= MaxNet
      /\ \A n \in net \ {m} : n.lease = 0 => ~n.timers
  BY <1>n, LessOnTheWay DEF LeaseInv
<1>c. /\ sinceAsked' = 0 /\ phase' = "test" /\ why' = why /\ xid0' = xid0
      /\ chipIp' = chipIp /\ elapsed' = elapsed
  BY DEF Dhcp!Receive
<1>e. elapsed \in 0 .. Timeout + ResponseTimeout /\ RoundIsBounded'
  BY <1>t, <1>c DEF Dhcp!DhcpAssumption, LeaseInv, RoundIsBounded, Dhcp!TypeOK,
     Dhcp!Listens
<1>m. /\ m.ip \in Dhcp!Address /\ m.server \in Servers /\ m.xid \in Nat
      /\ m.lease \in Nat
  <2>1. /\ m.ip \in Dhcp!Address /\ m.server \in Servers /\ m.xid \in Nat
        /\ m.lease \in Leases
    BY <1>t DEF Dhcp!Message
  <2>2. Leases \subseteq 0 .. LongRange - 1 /\ LongRange \in Nat
    BY DEF Dhcp!DhcpAssumption
  <2>3. m.lease \in 0 .. LongRange - 1
    BY <2>1, <2>2, Zenon
  <2>4. m.lease \in Nat
    BY <2>2, <2>3
  <2> QED BY <2>1, <2>4, Zenon
<1>s. state \in {"DISCOVER", "REQUEST"}
  BY <1>t DEF Dhcp!Listens
<1>1. CASE ~Dhcp!ForUs(m)
  <2>1. /\ net' = net \ {m}
        /\ UNCHANGED <<state, xid, localIp, serverIp, Dhcp!timers, granted>>
    BY <1>1 DEF Dhcp!Receive
  <2>2. NetOK' /\ TimersComeWithLease'
    BY <1>r, <2>1 DEF NetOK, TimersComeWithLease
  <2>3. Dhcp!TypeOK'
    BY <1>t, <1>c, <1>e, <2>1, <2>2 DEF Dhcp!DhcpAssumption, Dhcp!TypeOK,
       NetOK, Dhcp!timers
  <2>4. TimesInOrder' /\ AddressOfLease'
    BY <1>s, <1>c, <2>1 DEF LeaseInv, TimesInOrder, AddressOfLease, Dhcp!timers
  <2> QED BY <1>e, <2>2, <2>3, <2>4 DEF LeaseInv, NetOK
<1>2. CASE Dhcp!ForUs(m)
  <2>1. /\ localIp' = m.ip
        /\ serverIp' = IF serverIp = None THEN m.server ELSE serverIp
        /\ IF state = "REQUEST" /\ m.type = "ACK" THEN Dhcp!Lease(m)
           ELSE Dhcp!Parse(m)
    BY <1>2 DEF Dhcp!Receive, Dhcp!TakeAddress
  <2>2. localIp' \in Dhcp!Address /\ serverIp' \in Dhcp!Address
    BY <1>t, <1>m, <2>1 DEF Dhcp!TypeOK, Dhcp!Address
  <2>3. /\ Dhcp!LeaseOf(m) \in Nat /\ Dhcp!LeaseOf(m) < LongRange
        /\ Dhcp!FirstOf(m) \in Nat /\ Dhcp!SecondOf(m) \in Nat
        /\ Dhcp!SecondOf(m) < LongRange
        /\ Dhcp!FirstOf(m) <= Dhcp!SecondOf(m)
        /\ Dhcp!FirstOf(m) = 0 => Dhcp!SecondOf(m) = 0
    BY TimesOfAnswer
  <2>4. CASE Dhcp!Lease(m)
    <3> DEFINE lease  == Dhcp!Or(Dhcp!LeaseOf(m), DefaultLease)
               firstIn  == Dhcp!Or(Dhcp!FirstOf(m), lease \div 2)
               secondIn == Dhcp!Or(Dhcp!SecondOf(m), (2 * firstIn) % LongRange)
    <3>1. /\ lease \in Nat /\ lease < LongRange
          /\ firstIn \in Nat /\ secondIn \in Nat /\ secondIn < LongRange
          /\ firstIn <= secondIn /\ (firstIn = 0 => secondIn = 0)
      BY <2>3, LeaseTimes
    <3>2. /\ state' = "LEASED" /\ granted' = m.ip
          /\ leaseTime' = lease /\ t1' = firstIn /\ t2' = secondIn
          /\ renewIn' = Dhcp!Signed(firstIn) /\ rebindIn' = Dhcp!Signed(secondIn)
          /\ xid' = xid /\ net' = net \ {m}
      BY <2>4 DEF Dhcp!Lease, Dhcp!Counters
    <3>3. NetOK' /\ TimersComeWithLease'
      BY <1>r, <3>2 DEF NetOK, TimersComeWithLease
    <3> HIDE DEF lease, firstIn, secondIn
    <3>c. /\ renewIn' \in Int /\ rebindIn' \in Int
          /\ IF 2 * secondIn < LongRange THEN renewIn' <= rebindIn' ELSE rebindIn' <= 0
      BY <3>1, <3>2, CountersInOrder
    <3>4. Dhcp!TypeOK'
      BY <1>t, <1>c, <1>e, <1>m, <2>2, <3>1, <3>2, <3>3, <3>c
         DEF Dhcp!DhcpAssumption, Dhcp!TypeOK, NetOK, Dhcp!States
    <3>5. TimesInOrder' /\ AddressOfLease'
      BY <1>c, <2>1, <3>1, <3>2, <3>c DEF TimesInOrder, AddressOfLease
    <3> QED BY <1>e, <3>3, <3>4, <3>5 DEF LeaseInv, NetOK
  <2>5. CASE Dhcp!Parse(m)
    <3>1. /\ leaseTime' = Dhcp!LeaseOf(m) /\ t1' = Dhcp!FirstOf(m)
          /\ t2' = Dhcp!SecondOf(m)
          /\ renewIn' \in {Dhcp!Signed(m.lease), renewIn} /\ rebindIn' = rebindIn
          /\ granted' = granted
      BY <2>5 DEF Dhcp!Parse
    <3>i. Dhcp!Signed(m.lease) \in Int
      BY <1>m DEF Dhcp!DhcpAssumption, Dhcp!Signed
    <3>2. state' \in {"DISCOVER", "REQUEST", "START"} /\ xid' \in Nat
      BY <1>s, <1>t, <1>m, <2>5 DEF Dhcp!Parse, Dhcp!TypeOK
    <3>3. NetOK' /\ TimersComeWithLease'
      <4>1. CASE state = "DISCOVER" /\ m.type = "OFFER"
        <5>1. Dhcp!Send("REQUEST", m.xid, serverIp', net \ {m})
          BY <2>5, <4>1 DEF Dhcp!Parse
        <5> QED BY <1>m, <1>r, <2>2, <5>1, SendKeepsNet
      <4>2. CASE ~(state = "DISCOVER" /\ m.type = "OFFER")
        BY <1>r, <2>5, <4>2 DEF Dhcp!Parse, NetOK, TimersComeWithLease
      <4> QED BY <4>1, <4>2
    <3>4. Dhcp!TypeOK'
      BY <1>t, <1>c, <1>e, <1>m, <2>2, <2>3, <3>1, <3>i, <3>2, <3>3
         DEF Dhcp!DhcpAssumption, Dhcp!TypeOK, NetOK, Dhcp!States
    <3>5. TimesInOrder' /\ AddressOfLease'
      BY <2>3, <3>1, <3>2 DEF TimesInOrder, AddressOfLease
    <3> QED BY <1>e, <3>3, <3>4, <3>5 DEF LeaseInv, NetOK
  <2> QED BY <2>1, <2>4, <2>5
<1> QED BY <1>1, <1>2

(* Binding anew, from wherever it is asked for.                            *)
LEMMA RebindKeepsLease ==
  ASSUME Dhcp!DhcpAssumption, LeaseInv, Dhcp!Rebind, UNCHANGED <<Dhcp!timers,
         net, granted, chipIp>>
  PROVE  LeaseInv'
<1>1. /\ state' = "START" /\ localIp' = None /\ serverIp' = None
      /\ why' = "rebind" /\ phase' = "iterate" /\ xid' \in Nat /\ xid0' = xid'
      /\ elapsed' = 0 /\ sinceAsked' = 0
      /\ UNCHANGED <<leaseTime, t1, t2, renewIn, rebindIn, net, granted, chipIp>>
  BY DEF Dhcp!DhcpAssumption, Dhcp!Rebind, Dhcp!BeginRound, Dhcp!timers
<1>2. Dhcp!TypeOK'
  BY <1>1 DEF Dhcp!DhcpAssumption, LeaseInv, Dhcp!TypeOK, Dhcp!States,
     Dhcp!Address
<1> QED BY <1>1, <1>2 DEF Dhcp!DhcpAssumption, LeaseInv, TimersComeWithLease,
        TimesInOrder, RoundIsBounded, AddressOfLease

(* Every step of the client and of the network keeps it.                   *)
LEMMA LeaseStep ==
  ASSUME Dhcp!DhcpAssumption, LeaseInv, [Dhcp!Next]_(Dhcp!dhcpVars)
  PROVE  LeaseInv'
<1>t. Dhcp!TypeOK /\ NetOK
  BY DEF LeaseInv, Dhcp!TypeOK, NetOK
<1> USE DEF Dhcp!DhcpAssumption
<1>1. CASE Dhcp!SendDiscover \/ Dhcp!SendRerequest
  <2>1. /\ xid' = xid + 1 /\ elapsed' = elapsed + 1 /\ phase' = "test"
        /\ state \in {"START", "REREQUEST"} /\ state' \in {"DISCOVER", "REQUEST"}
        /\ phase = "iterate"
        /\ \E q \in {"DISCOVER", "REQUEST"} : Dhcp!Send(q, xid', serverIp, net)
        /\ UNCHANGED <<why, xid0, localIp, serverIp, Dhcp!timers, sinceAsked,
                       chipIp, granted>>
    BY <1>1 DEF Dhcp!SendDiscover, Dhcp!SendRerequest
  <2>2. NetOK' /\ TimersComeWithLease'
    <3>1. PICK q \in {"DISCOVER", "REQUEST"} : Dhcp!Send(q, xid', serverIp, net)
      BY <2>1
    <3>2. xid' \in Nat /\ serverIp \in Dhcp!Address
      BY <1>t, <2>1 DEF Dhcp!TypeOK
    <3>3. /\ net \subseteq Dhcp!Message /\ IsFiniteSet(net)
          /\ Dhcp!Cardinality(net) <= MaxNet
          /\ \A m \in net : m.lease = 0 => ~m.timers
      BY <1>t DEF NetOK, LeaseInv, TimersComeWithLease
    <3> QED BY <3>1, <3>2, <3>3, SendKeepsNet
  <2>3. sinceAsked = 0 /\ elapsed <= Timeout
    BY <1>t, <2>1 DEF LeaseInv, RoundIsBounded, Dhcp!TypeOK
  <2>4. Dhcp!TypeOK' /\ RoundIsBounded'
    BY <1>t, <2>1, <2>2, <2>3 DEF Dhcp!TypeOK, NetOK, RoundIsBounded,
       Dhcp!timers, Dhcp!States
  <2>5. TimesInOrder' /\ AddressOfLease'
    BY <2>1 DEF LeaseInv, TimesInOrder, AddressOfLease, Dhcp!timers
  <2> QED BY <2>2, <2>4, <2>5 DEF LeaseInv, NetOK
<1>2. CASE \E m \in net : Dhcp!Receive(m)
  BY <1>2, ReceiveKeepsLease
<1>3. CASE Dhcp!Wait
  <2>1. /\ Dhcp!Listens /\ elapsed' = elapsed + 1
        /\ \/ /\ sinceAsked < ResponseTimeout /\ sinceAsked' = sinceAsked + 1
              /\ state' = state /\ phase' = phase
           \/ sinceAsked' = 0 /\ state' = "START" /\ phase' = "test"
        /\ UNCHANGED <<why, xid, xid0, localIp, serverIp, Dhcp!timers, chipIp,
                       net, granted>>
    BY <1>3 DEF Dhcp!Wait
  <2>2. elapsed <= Timeout + sinceAsked
    BY <2>1 DEF LeaseInv, RoundIsBounded, Dhcp!Listens
  <2>3. Dhcp!TypeOK' /\ RoundIsBounded'
    BY <1>t, <2>1, <2>2 DEF Dhcp!TypeOK, RoundIsBounded, Dhcp!timers,
       Dhcp!States, Dhcp!Listens
  <2>4. TimesInOrder' /\ AddressOfLease' /\ TimersComeWithLease' /\ IsFiniteSet(net')
    BY <2>1 DEF LeaseInv, TimesInOrder, AddressOfLease, TimersComeWithLease,
       Dhcp!timers, Dhcp!Listens
  <2> QED BY <2>3, <2>4 DEF LeaseInv
<1>4. CASE Dhcp!GoOn
  BY <1>4 DEF Dhcp!GoOn, LeaseInv, Dhcp!TypeOK, TimersComeWithLease,
     TimesInOrder, RoundIsBounded, AddressOfLease, Dhcp!timers
<1>5. CASE Dhcp!EndRound
  <2>1. CASE why = "renew" /\ Dhcp!ShouldRebind(state)
    <3>1. Dhcp!Rebind /\ UNCHANGED <<Dhcp!timers, net, granted, chipIp>>
      BY <1>5, <2>1 DEF Dhcp!EndRound
    <3> QED BY <3>1, RebindKeepsLease
  <2>2. CASE ~(why = "renew" /\ Dhcp!ShouldRebind(state))
    BY <1>5, <2>2 DEF Dhcp!EndRound, Dhcp!TellChip, LeaseInv, Dhcp!TypeOK,
       TimersComeWithLease, TimesInOrder, RoundIsBounded, AddressOfLease,
           Dhcp!timers
  <2> QED BY <2>1, <2>2
<1>6. CASE Dhcp!CountDown
  <2>1. \/ \E factor \in 1 .. MaxFactor : /\ renewIn' = Dhcp!Less(renewIn, factor)
                                            /\ rebindIn' = Dhcp!Less(rebindIn, factor)
        \/ UNCHANGED <<renewIn, rebindIn>>
    BY <1>6 DEF Dhcp!CountDown
  <2>2. /\ renewIn' \in Int /\ rebindIn' \in Int
        /\ renewIn <= rebindIn => renewIn' <= rebindIn'
        /\ rebindIn <= 0 => rebindIn' <= 0
    BY <1>t, <2>1, LessKeepsOrder DEF Dhcp!TypeOK
  <2> QED BY <1>6, <2>2 DEF Dhcp!CountDown, LeaseInv, Dhcp!TypeOK,
          TimersComeWithLease, TimesInOrder, RoundIsBounded, AddressOfLease
<1>7. CASE Dhcp!CheckLease
  <2>1. CASE Dhcp!ShouldRenew
    BY <1>7, <2>1 DEF Dhcp!CheckLease, Dhcp!ShouldRenew, Dhcp!BeginRound, LeaseInv, Dhcp!TypeOK,
       TimersComeWithLease, TimesInOrder, RoundIsBounded, AddressOfLease,
           Dhcp!timers, Dhcp!States
  <2>2. CASE ~Dhcp!ShouldRenew /\ Dhcp!ShouldRebind(state)
    <3>1. Dhcp!Rebind /\ UNCHANGED <<Dhcp!timers, net, granted, chipIp>>
      BY <1>7, <2>2 DEF Dhcp!CheckLease
    <3> QED BY <3>1, RebindKeepsLease
  <2>3. CASE ~Dhcp!ShouldRenew /\ ~Dhcp!ShouldRebind(state)
    BY <1>7, <2>3 DEF Dhcp!CheckLease, LeaseInv, Dhcp!TypeOK,
       TimersComeWithLease, TimesInOrder, RoundIsBounded, AddressOfLease,
           Dhcp!timers
  <2> QED BY <2>1, <2>2, <2>3
<1>8. CASE Dhcp!NoSocket
  BY <1>8 DEF Dhcp!NoSocket, LeaseInv, Dhcp!TypeOK, TimersComeWithLease,
     TimesInOrder, RoundIsBounded, AddressOfLease, Dhcp!timers
<1>9. CASE Dhcp!Lose
  <2>1. PICK m \in net : net' = net \ {m}
    BY <1>9 DEF Dhcp!Lose
  <2>2. NetOK' /\ TimersComeWithLease'
    BY <1>t, <2>1, LessOnTheWay DEF LeaseInv, NetOK, TimersComeWithLease
  <2>3. UNCHANGED <<state, phase, why, xid, xid0, localIp, serverIp, Dhcp!timers,
                    elapsed, sinceAsked, chipIp, granted>>
    BY <1>9 DEF Dhcp!Lose
  <2> QED BY <1>t, <2>2, <2>3 DEF LeaseInv, Dhcp!TypeOK, NetOK, TimesInOrder,
          RoundIsBounded, AddressOfLease, Dhcp!timers
<1>10. CASE UNCHANGED Dhcp!dhcpVars
  BY <1>10 DEF Dhcp!dhcpVars, LeaseInv, Dhcp!TypeOK, TimersComeWithLease,
     TimesInOrder, RoundIsBounded, AddressOfLease
<1> QED BY <1>1, <1>2, <1>3, <1>4, <1>5, <1>6, <1>7, <1>8, <1>9, <1>10
        DEF Dhcp!Next, Dhcp!Client, Dhcp!Iterate

(* Between calls of maintain the board uses the address acknowledged last, *)
(* and the chip has it; and a lease whose second timer fits a signed long  *)
(* is renewed before it is bound anew.                                     *)
THEOREM LeaseKept == Dhcp!DhcpAssumption => (Dhcp!Spec => []LeaseIsKept)
<1> SUFFICES ASSUME Dhcp!DhcpAssumption PROVE Dhcp!Spec => []LeaseIsKept
  OBVIOUS
<1>1. Dhcp!Init => LeaseInv
  BY LeaseInit
<1>2. LeaseInv /\ [Dhcp!Next]_(Dhcp!dhcpVars) => LeaseInv'
  BY LeaseStep
<1>3. LeaseInv => LeaseIsKept
  BY DEF LeaseInv, AddressOfLease, TimesInOrder, Dhcp!ChipHasLease,
     Dhcp!RenewBeforeRebind, LeaseIsKept, Dhcp!LeaseIsKept
<1> QED BY <1>1, <1>2, <1>3, PTL DEF Dhcp!Spec

-----------------------------------------------------------------------------
(* The answers of the server to the request made last are for the name     *)
(* that is looked up, wherever they are.                                   *)
AnswersThisName(r) == r.from = "server" /\ r.id = id => r.name = name

AnswersFitRequest ==
  lookupPc \in {"wait", "again"} =>
    /\ \A r \in replies : AnswersThisName(r)
    /\ \A k \in 1 .. Len(inbox) : AnswersThisName(inbox[k])

(* Success is that of the call which is running or has just come back.     *)
SuccessIsForThisName ==
  ret = Lookup!SUCCESS => lookupPc \in {"again", "end", "idle"} /\ answered = name

(* A wait is one of those that are left.                                   *)
WaitIsLeft == lookupPc \in {"send", "wait"} => waits < MaxWaits

(* The invariant.                                                          *)
LookupInv ==
  Lookup!TypeOK /\ AnswersFitRequest /\ SuccessIsForThisName /\ WaitIsLeft

-----------------------------------------------------------------------------
(* What the library makes of a datagram fits the word it returns, and is   *)
(* success for an answer to this request only.                             *)
LEMMA JudgedType ==
  ASSUME Lookup!DnsAssumption, NEW r
  PROVE  /\ Lookup!Returned(Lookup!Judged(r)) \in 0 .. WordRange - 1
         /\ Lookup!Returned(Lookup!Judged(r)) = Lookup!SUCCESS =>
              r.from = "server" /\ r.id = id
<1>1. WordRange \in Nat /\ WordRange > 16
  BY DEF Lookup!DnsAssumption
<1>2. Lookup!Judged(r) \in
        {Lookup!INVALID_SERVER, Lookup!TRUNCATED, Lookup!INVALID_RESPONSE,
         Lookup!ServerError, Lookup!NoAnswer, Lookup!SUCCESS}
  BY DEF Lookup!Judged
<1>3. \A n \in -10 .. -1 : n % WordRange = WordRange + n
  BY <1>1
<1>4. 1 % WordRange = 1
  BY <1>1
<1>5. Lookup!Judged(r) \in (-10 .. -1) \cup {1}
  BY <1>2 DEF Lookup!INVALID_SERVER, Lookup!TRUNCATED, Lookup!INVALID_RESPONSE,
     Lookup!ServerError, Lookup!NoAnswer, Lookup!SUCCESS
<1>6. Lookup!Judged(r) = 1 => r.from = "server" /\ r.id = id
  BY DEF Lookup!Judged, Lookup!INVALID_SERVER, Lookup!TRUNCATED,
     Lookup!INVALID_RESPONSE, Lookup!ServerError, Lookup!NoAnswer,
         Lookup!SUCCESS, Lookup!ForThisRequest
<1>7. Lookup!Returned(Lookup!Judged(r)) =
        IF Lookup!Judged(r) = 1 THEN 1 ELSE WordRange + Lookup!Judged(r)
  BY <1>3, <1>4, <1>5 DEF Lookup!Returned
<1> QED BY <1>1, <1>5, <1>6, <1>7 DEF Lookup!SUCCESS

(* One more datagram in the socket.                                        *)
LEMMA InboxGrows ==
  ASSUME inbox \in Seq(Lookup!Replies), NEW r \in Lookup!Replies,
         inbox' = Append(inbox, r),
         AnswersFitRequest, AnswersThisName(r) \/ lookupPc \notin {"wait", "again"},
         replies' \subseteq replies, UNCHANGED <<lookupPc, id, name>>
  PROVE  inbox' \in Seq(Lookup!Replies) /\ AnswersFitRequest'
<1>1. inbox' \in Seq(Lookup!Replies)
  BY AppendProperties
<1>2. /\ Len(inbox') = Len(inbox) + 1 /\ Len(inbox) \in Nat
      /\ inbox'[Len(inbox) + 1] = r
      /\ \A k \in 1 .. Len(inbox) : inbox'[k] = inbox[k]
  BY AppendProperties, LenProperties
<1>3. \A k \in 1 .. Len(inbox') :
        inbox'[k] = r \/ \E j \in 1 .. Len(inbox) : inbox'[k] = inbox[j]
  <2> SUFFICES ASSUME NEW k \in 1 .. Len(inbox'), k # Len(inbox) + 1
               PROVE  \E j \in 1 .. Len(inbox) : inbox'[k] = inbox[j]
    BY <1>2
  <2>1. k \in 1 .. Len(inbox)
    BY <1>2
  <2> QED BY <1>2, <2>1
<1>4. \A q : AnswersThisName(q)' <=> (q.from = "server" /\ q.id = id => q.name = name)
  BY DEF AnswersThisName
<1>5. AnswersFitRequest'
  BY <1>2, <1>3, Zenon DEF AnswersFitRequest, AnswersThisName
<1> QED BY <1>1, <1>5

(* No lookup has been made.                                                *)
LEMMA LookupInit == ASSUME Lookup!DnsAssumption, Lookup!Init PROVE LookupInv
<1>1. inbox \in Seq(Lookup!Replies) /\ replies \subseteq Lookup!Replies
  BY EmptySeq DEF Lookup!Init
<1> QED
  BY <1>1 DEF Lookup!Init, LookupInv, Lookup!TypeOK, AnswersFitRequest,
     SuccessIsForThisName, WaitIsLeft, Lookup!DnsAssumption, Lookup!SUCCESS

(* The network and other hosts.                                            *)
LEMMA NetworkKeeps ==
  ASSUME Lookup!DnsAssumption, LookupInv,
         Lookup!Deliver \/ Lookup!Lose \/ Lookup!Stranger PROVE LookupInv'
<1>1. /\ inbox \in Seq(Lookup!Replies) /\ replies \subseteq Lookup!Replies
      /\ AnswersFitRequest
      /\ port \in Ports /\ id \in Ids /\ name \in Names
  BY DEF LookupInv, Lookup!TypeOK
<1>2. /\ UNCHANGED <<lookupPc, name, port, id, ret, waits, answered>>
      /\ replies' \subseteq replies
  BY DEF Lookup!Deliver, Lookup!Lose, Lookup!Stranger
<1>3. inbox' \in Seq(Lookup!Replies) /\ AnswersFitRequest'
  <2>1. CASE Lookup!Deliver
    <3>1. PICK r \in replies : inbox' = Append(inbox, r)
      BY <2>1 DEF Lookup!Deliver
    <3>2. /\ r \in Lookup!Replies
          /\ AnswersThisName(r) \/ lookupPc \notin {"wait", "again"}
      BY <1>1 DEF AnswersFitRequest
    <3> QED BY <1>1, <1>2, <3>1, <3>2, InboxGrows
  <2>2. CASE Lookup!Lose
    <3>1. inbox' = inbox
      BY <2>2 DEF Lookup!Lose
    <3> QED BY <1>1, <1>2, <3>1 DEF AnswersFitRequest, AnswersThisName
  <2>3. CASE Lookup!Stranger
    <3> DEFINE r == [from |-> "other", port |-> port, id |-> id, name |-> name,
                     kind |-> "answer"]
    <3>1. inbox' = Append(inbox, r)
      BY <2>3 DEF Lookup!Stranger
    <3>2. r \in Lookup!Replies /\ AnswersThisName(r)
      BY <1>1 DEF Lookup!Replies, Lookup!Kinds, AnswersThisName
    <3> HIDE DEF r
    <3> QED BY <1>1, <1>2, <3>1, <3>2, InboxGrows
  <2> QED BY <2>1, <2>2, <2>3
<1>4. Lookup!TypeOK' /\ SuccessIsForThisName' /\ WaitIsLeft'
  BY <1>1, <1>2, <1>3 DEF LookupInv, Lookup!TypeOK, SuccessIsForThisName,
     WaitIsLeft
<1> QED BY <1>3, <1>4 DEF LookupInv

(* The request is sent under a number that is on no answer still about.    *)
LEMMA RequestKeeps ==
  ASSUME Lookup!DnsAssumption, LookupInv, Lookup!Send
  PROVE  LookupInv'
<1>0. /\ Lookup!TypeOK /\ lookupPc = "send" /\ waits < MaxWaits
      /\ UNCHANGED <<name, port, waits, inbox, answered>>
  BY DEF LookupInv, WaitIsLeft, Lookup!Send
<1>1. CASE ret' = 0 /\ lookupPc' = "end" /\ UNCHANGED <<id, replies>>
  BY <1>0, <1>1 DEF LookupInv, Lookup!TypeOK, AnswersFitRequest,
     SuccessIsForThisName, WaitIsLeft, Lookup!SUCCESS, Lookup!DnsAssumption
<1>2. CASE ~(ret' = 0 /\ lookupPc' = "end" /\ UNCHANGED <<id, replies>>)
  <2>1. /\ id' \in Lookup!FreshIds /\ ret' = Lookup!TIMED_OUT /\ lookupPc' = "wait"
        /\ \/ replies' = replies
           \/ \E k \in Lookup!Kinds :
                replies' =
                  replies \cup {[from |-> "server", port |-> port, id |-> id',
                                name |-> name, kind |-> k]}
    BY <1>2 DEF Lookup!Send
  <2>2. /\ id' \in Ids /\ \A r \in replies : r.id # id'
        /\ \A k \in 1 .. Len(inbox) : inbox[k].id # id'
    BY <2>1 DEF Lookup!FreshIds
  <2>3. /\ replies' \subseteq Lookup!Replies
        /\ \A r \in replies' : r.id = id' => r.name = name
    <3>1. CASE replies' = replies
      BY <1>0, <2>2, <3>1 DEF Lookup!TypeOK
    <3>2. CASE replies' # replies
      <4>1. PICK k \in Lookup!Kinds :
              replies' = replies \cup {[from |-> "server", port |-> port, id |-> id',
                                       name |-> name, kind |-> k]}
        BY <2>1, <3>2
      <4>2. [from |-> "server", port |-> port, id |-> id', name |-> name, kind |-> k]
              \in Lookup!Replies
        BY <1>0, <2>2 DEF Lookup!TypeOK, Lookup!Replies
      <4> QED BY <1>0, <2>2, <4>1, <4>2 DEF Lookup!TypeOK
    <3> QED BY <3>1, <3>2
  <2>4. AnswersFitRequest'
    BY <1>0, <2>2, <2>3 DEF AnswersFitRequest, AnswersThisName
  <2>5. ret' \in -2 .. WordRange - 1 /\ ret' # Lookup!SUCCESS
    BY <2>1 DEF Lookup!TIMED_OUT, Lookup!SUCCESS, Lookup!DnsAssumption
  <2> QED
    BY <1>0, <2>1, <2>2, <2>3, <2>4, <2>5 DEF LookupInv, Lookup!TypeOK,
       SuccessIsForThisName, WaitIsLeft
<1> QED BY <1>1, <1>2

(* A datagram is looked at.                                                *)
LEMMA GotKeeps ==
  ASSUME Lookup!DnsAssumption, LookupInv, Lookup!Got
  PROVE  LookupInv'
<1>1. /\ lookupPc = "wait" /\ inbox # <<>> /\ inbox \in Seq(Lookup!Replies)
      /\ Lookup!TypeOK
      /\ waits < MaxWaits /\ AnswersFitRequest
  BY DEF Lookup!Got, LookupInv, Lookup!TypeOK, WaitIsLeft
<1>2. /\ Head(inbox) = inbox[1] /\ 1 \in 1 .. Len(inbox)
      /\ Head(inbox) \in Lookup!Replies
      /\ Tail(inbox) \in Seq(Lookup!Replies) /\ Len(Tail(inbox)) = Len(inbox) - 1
      /\ \A k \in 1 .. Len(Tail(inbox)) : Tail(inbox)[k] = inbox[k + 1]
      /\ Len(inbox) \in Nat
  BY <1>1, HeadTailProperties, EmptySeq, LenProperties
<1>3. /\ ret' = Lookup!Returned(Lookup!Judged(Head(inbox))) /\ inbox' = Tail(inbox)
      /\ answered' = IF ret' = Lookup!SUCCESS THEN Head(inbox).name ELSE answered
      /\ waits' = waits + 1 /\ lookupPc' = "again"
      /\ UNCHANGED <<name, port, id, replies>>
  BY DEF Lookup!Got
<1>4. AnswersFitRequest'
  <2>1. \A k \in 1 .. Len(inbox') : \E j \in 1 .. Len(inbox) : inbox'[k] = inbox[j]
    <3> SUFFICES ASSUME NEW k \in 1 .. Len(inbox')
                 PROVE  \E j \in 1 .. Len(inbox) : inbox'[k] = inbox[j]
      OBVIOUS
    <3>1. k + 1 \in 1 .. Len(inbox) /\ inbox'[k] = inbox[k + 1]
      BY <1>2, <1>3
    <3> QED BY <3>1
  <2> QED BY <1>1, <1>3, <2>1, Zenon DEF AnswersFitRequest, AnswersThisName
<1>5. ret' \in 0 .. WordRange - 1
  BY <1>3, JudgedType
<1>6. ret' = Lookup!SUCCESS => Head(inbox).from = "server" /\ Head(inbox).id = id
  BY <1>3, JudgedType
<1>7. ret' = Lookup!SUCCESS => answered' = name
  <2>1. AnswersThisName(Head(inbox))
    BY <1>1, <1>2 DEF AnswersFitRequest
  <2> QED BY <1>3, <1>6, <2>1 DEF AnswersThisName
<1>8. answered' \in Names
  <2>1. Head(inbox).name \in Names
    BY <1>2 DEF Lookup!Replies
  <2> QED BY <1>1, <1>3, <2>1 DEF Lookup!TypeOK
<1>9. Lookup!TypeOK'
  <2>1. waits' \in 0 .. MaxWaits
    BY <1>1, <1>3 DEF Lookup!TypeOK, Lookup!DnsAssumption
  <2>2. ret' \in -2 .. WordRange - 1
    BY <1>5
  <2> QED BY <1>1, <1>2, <1>3, <1>8, <2>1, <2>2 DEF Lookup!TypeOK
<1> QED BY <1>3, <1>4, <1>7, <1>9 DEF LookupInv, SuccessIsForThisName,
        WaitIsLeft

(* Every other step of the call.                                           *)
LEMMA CallKeeps ==
  ASSUME Lookup!DnsAssumption, LookupInv,
         \/ Lookup!Fail \/ Lookup!Begin \/ Lookup!Silence
         \/ Lookup!Again \/ Lookup!Stop
  PROVE  LookupInv'
<1>0. /\ Lookup!TypeOK /\ 0 \in -2 .. WordRange - 1
      /\ Lookup!INVALID_SERVER \in -2 .. WordRange - 1
      /\ 0 \in 0 .. MaxWaits /\ 0 < MaxWaits
  BY DEF LookupInv, Lookup!DnsAssumption, Lookup!INVALID_SERVER
<1>1. CASE Lookup!Fail
  BY <1>0, <1>1 DEF Lookup!Fail, LookupInv, Lookup!TypeOK, AnswersFitRequest,
     SuccessIsForThisName, WaitIsLeft, Lookup!SUCCESS, Lookup!INVALID_SERVER
<1>2. CASE Lookup!Begin
  BY <1>0, <1>2, EmptySeq DEF Lookup!Begin, LookupInv, Lookup!TypeOK,
     AnswersFitRequest, SuccessIsForThisName, WaitIsLeft, Lookup!SUCCESS
<1>3. CASE Lookup!Silence
  <2>1. ret' \in -2 .. WordRange - 1 /\ ret' # Lookup!SUCCESS
    <3>1. (-1) % WordRange = WordRange - 1
      BY DEF Lookup!DnsAssumption
    <3> QED BY <1>3, <3>1 DEF Lookup!Silence, Lookup!Returned,
            Lookup!TIMED_OUT, Lookup!SUCCESS, Lookup!DnsAssumption
  <2>2. waits' \in 0 .. MaxWaits
    BY <1>0, <1>3 DEF Lookup!Silence, LookupInv, WaitIsLeft, Lookup!TypeOK,
       Lookup!DnsAssumption
  <2> QED BY <1>0, <1>3, <2>1, <2>2 DEF Lookup!Silence, LookupInv,
          Lookup!TypeOK, AnswersFitRequest, AnswersThisName,
              SuccessIsForThisName, WaitIsLeft
<1>4. CASE Lookup!Again
  BY <1>0, <1>4 DEF Lookup!Again, Lookup!WaitsAgain, LookupInv, Lookup!TypeOK,
     AnswersFitRequest, AnswersThisName, SuccessIsForThisName, WaitIsLeft,
         Lookup!TIMED_OUT, Lookup!SUCCESS
<1>5. CASE Lookup!Stop
  BY <1>0, <1>5, EmptySeq DEF Lookup!Stop, LookupInv, Lookup!TypeOK,
     AnswersFitRequest, SuccessIsForThisName, WaitIsLeft
<1> QED BY <1>1, <1>2, <1>3, <1>4, <1>5

(* Every step keeps it.                                                    *)
LEMMA LookupStep ==
  ASSUME Lookup!DnsAssumption, LookupInv, [Lookup!Next]_(Lookup!lookupVars)
  PROVE  LookupInv'
<1>1. CASE UNCHANGED Lookup!lookupVars
  BY <1>1 DEF Lookup!lookupVars, LookupInv, Lookup!TypeOK, AnswersFitRequest,
     AnswersThisName, SuccessIsForThisName, WaitIsLeft
<1> QED BY <1>1, NetworkKeeps, RequestKeeps, GotKeeps, CallKeeps
        DEF Lookup!Next, Lookup!Library

(* The address a lookup returns is that of the name it was asked for,      *)
(* however many answers are on their way and however late they come.       *)
THEOREM AnswerFitsName ==
  Lookup!DnsAssumption => (Lookup!Spec => []AnswerIsForThisName)
<1> SUFFICES ASSUME Lookup!DnsAssumption PROVE Lookup!Spec => []AnswerIsForThisName
  OBVIOUS
<1>1. Lookup!Init => LookupInv
  BY LookupInit
<1>2. LookupInv /\ [Lookup!Next]_(Lookup!lookupVars) => LookupInv'
  BY LookupStep
<1>3. LookupInv => AnswerIsForThisName
  BY DEF LookupInv, SuccessIsForThisName, Lookup!AnswerIsForThisName,
     AnswerIsForThisName
<1> QED BY <1>1, <1>2, <1>3, PTL DEF Lookup!Spec

-----------------------------------------------------------------------------
(* What a page shows in a namespace, or will show when it has handled what *)
(* is under way to it, is the datagram the server keeps.                   *)
Catches(p, c) ==
  IF messages[p][c] = <<>>
  THEN field[p][c] = Digits(kept[c])
  ELSE messages[p][c][Len(messages[p][c])] = kept[c]

(* The invariant: a page that is connected has a handler in each namespace *)
(* and catches up with the server in those it heard of.                    *)
PagesInv ==
  /\ ServerTypeOK
  /\ \A p \in connected :
       handlers[p] # 0 /\ \A c \in relayed[p] : Catches(p, c)

(* The last of a sequence is the last of its tail, or its head.            *)
LEMMA LastStays ==
  ASSUME NEW S, NEW s \in Seq(S), s # <<>>
  PROVE  /\ Head(s) \in S /\ Tail(s) \in Seq(S)
         /\ Tail(s) = <<>> => Head(s) = s[Len(s)]
         /\ Tail(s) # <<>> => Tail(s)[Len(Tail(s))] = s[Len(s)]
<1> DEFINE t == Tail(s)
           n == Len(t)
<1>1. /\ Head(s) \in S /\ t \in Seq(S) /\ n = Len(s) - 1
      /\ \A i \in 1 .. n : t[i] = s[i + 1]
  BY HeadTailProperties
<1>2. Head(s) = s[1] /\ n \in Nat
  BY <1>1
<1>3. t = <<>> => n = 0
  BY EmptySeq
<1>4. t # <<>> => n # 0
  BY <1>1, EmptySeq
<1> HIDE DEF t, n
<1>5. t # <<>> => t[n] = s[Len(s)]
  BY <1>1, <1>2, <1>4
<1>6. t = <<>> => s[1] = s[Len(s)]
  <2>1. Len(s) \in Nat
    OBVIOUS
  <2>2. CASE n = 0
    <3>1. Len(s) = 1
      BY <1>1, <2>1, <2>2
    <3> QED BY <3>1
  <2> QED BY <1>3, <2>2, Zenon
<1> QED BY <1>1, <1>2, <1>5, <1>6 DEF t, n

LEMMA LastIsNew ==
  ASSUME NEW S, NEW s \in Seq(S), NEW v \in S
  PROVE  Append(s, v) # <<>> /\ Append(s, v)[Len(Append(s, v))] = v
<1>1. /\ Append(s, v) # <<>> /\ Len(Append(s, v)) = Len(s) + 1
      /\ Append(s, v)[Len(s) + 1] = v
  BY AppendProperties
<1> QED BY <1>1

(* However many handlers a page has, it shows the number once.             *)
LEMMA Handled ==
  ASSUME ServerAssumption, NEW p, handlers[p] \in 1 .. MaxHandlers,
         NEW old, NEW v
  PROVE  AfterHandlers(p, old, v) = Digits(v)
<1> DEFINE Def(g) == g = [n \in 0 .. MaxHandlers |->
                           IF n = 0 THEN old ELSE Shown(g[n - 1], v)]
           h == [n \in 0 .. MaxHandlers |->
                  IF n = 0 THEN old ELSE Digits(v)]
           shown == CHOOSE g : Def(g)
<1>1. Def(h)
  BY DEF Shown
<1>2. Def(shown)
  BY <1>1, Zenon
<1>3. AfterHandlers(p, old, v) = shown[handlers[p]]
  BY DEF AfterHandlers
<1> HIDE DEF shown
<1>4. handlers[p] \in 0 .. MaxHandlers /\ handlers[p] # 0
  BY DEF ServerAssumption
<1>5. shown[handlers[p]] = Shown(shown[handlers[p] - 1], v)
  BY <1>2, <1>4
<1> QED BY <1>3, <1>5 DEF Shown

(* At the start no page is connected.                                      *)
LEMMA PagesInit == ServerAssumption /\ ServerInit => PagesInv
<1> SUFFICES ASSUME ServerAssumption, ServerInit PROVE PagesInv
  OBVIOUS
<1>1. ServerTypeOK
  BY DEF ServerAssumption, ServerInit, ServerTypeOK
<1> QED BY <1>1 DEF ServerInit, PagesInv

(* What is relayed is sent to every page there is, and is the last of what *)
(* is under way to each.                                                   *)
LEMMA RelayKeeps ==
  ASSUME ServerAssumption, PagesInv, NEW c \in Channels, Relay(c)
  PROVE  PagesInv'
<1> USE DEF PagesInv, ServerTypeOK
<1>1. PICK v \in inFlight[c] :
        /\ inFlight' = [inFlight EXCEPT ![c] = @ \ {v}]
        /\ kept' = [kept EXCEPT ![c] = v]
  BY DEF Relay
<1>2. v \in Numbers /\ v # Nothing /\ kept'[c] = v
  BY <1>1 DEF ServerAssumption
<1>3. /\ messages' = [p \in Pages |->
                IF p \in connected
                  THEN [messages[p] EXCEPT ![c] = Append(@, v)] ELSE messages[p]]
      /\ relayed' = [p \in Pages |->
                IF p \in connected THEN relayed[p] \cup {c} ELSE relayed[p]]
      /\ connected' = connected /\ handlers' = handlers /\ field' = field
  BY <1>2 DEF Relay, Emitted
<1>4. \A p \in Pages : messages'[p] \in [Channels -> Seq(Numbers)]
  BY <1>2, <1>3
<1>5. ServerTypeOK'
  <2>1. inFlight' \in [Channels -> SUBSET Numbers]
    BY <1>1
  <2>2. kept' \in [Channels -> Numbers \cup {Nothing}]
    BY <1>1, <1>2
  <2>3. messages' \in [Pages -> [Channels -> Seq(Numbers)]]
    BY <1>3, <1>4
  <2>4. relayed' \in [Pages -> SUBSET Channels]
    BY <1>3
  <2> QED BY <1>3, <2>1, <2>2, <2>3, <2>4
<1>6. ASSUME NEW p \in connected, NEW d \in relayed'[p] PROVE Catches(p, d)'
  <2>0. p \in Pages /\ messages[p][d] \in Seq(Numbers) /\ d \in Channels
    BY <1>5, <1>3
  <2>1. CASE d = c
    <3> DEFINE s == messages[p][d]
    <3>1. s \in Seq(Numbers) /\ messages'[p][d] = Append(s, v)
      BY <1>3, <2>0, <2>1
    <3> HIDE DEF s, PagesInv, ServerTypeOK
    <3>2. Append(s, v) # <<>> /\ Append(s, v)[Len(Append(s, v))] = v
      <4>1. s \in Seq(Numbers) /\ v \in Numbers
        BY <1>2, <3>1, Zenon
      <4> QED BY <4>1, LastIsNew
    <3> QED BY <1>2, <2>1, <3>1, <3>2 DEF Catches
  <2>2. CASE d # c
    <3>1. d \in relayed[p] /\ messages'[p][d] = messages[p][d]
          /\ kept'[d] = kept[d] /\ field'[p][d] = field[p][d]
      BY <1>1, <1>3, <2>0, <2>2
    <3> QED BY <3>1 DEF Catches
  <2> QED BY <2>1, <2>2
<1> QED BY <1>3, <1>5, <1>6

(* All the handlers of a page see a message before the next one comes.     *)
LEMMA HandleKeeps ==
  ASSUME ServerAssumption, PagesInv,
         NEW p \in Pages, NEW c \in Channels, Handle(p, c)
  PROVE  PagesInv'
<1> USE DEF PagesInv, ServerTypeOK
<1> DEFINE s == messages[p][c]
<1>1. /\ p \in connected /\ s # <<>> /\ s \in Seq(Numbers)
      /\ messages' = [messages EXCEPT ![p][c] = Tail(s)]
      /\ field' = [field EXCEPT ![p][c] =
                     AfterHandlers(p, field[p][c], Head(s))]
      /\ UNCHANGED <<inFlight, kept, connected, handlers, relayed>>
  BY DEF Handle
<1> HIDE DEF s
<1>2. /\ Head(s) \in Numbers /\ Tail(s) \in Seq(Numbers)
      /\ Tail(s) = <<>> => Head(s) = s[Len(s)]
      /\ Tail(s) # <<>> => Tail(s)[Len(Tail(s))] = s[Len(s)]
  BY <1>1, LastStays
<1>3. AfterHandlers(p, field[p][c], Head(s)) = Digits(Head(s))
  <2>1. handlers[p] \in 1 .. MaxHandlers
    BY <1>1 DEF ServerAssumption
  <2> QED BY <2>1, Handled
<1>4. field' = [field EXCEPT ![p][c] = Digits(Head(s))]
  BY <1>1, <1>3
<1>5. ServerTypeOK'
  <2>1. messages' \in [Pages -> [Channels -> Seq(Numbers)]]
    BY <1>1, <1>2
  <2>2. field' \in [Pages -> [Channels ->
                      {<<>>} \cup {Digits(v) : v \in Numbers}]]
    <3> DEFINE F == {<<>>} \cup {Digits(v) : v \in Numbers}
    <3>1. Digits(Head(s)) \in F
      BY <1>2
    <3>2. field \in [Pages -> [Channels -> F]]
      OBVIOUS
    <3> HIDE DEF F
    <3>3. field' \in [Pages -> [Channels -> F]]
      BY <1>4, <3>1, <3>2
    <3> QED BY <3>3 DEF F
  <2> QED BY <1>1, <2>1, <2>2
<1>6. ASSUME NEW q \in connected, NEW d \in relayed[q] PROVE Catches(q, d)'
  <2>0. q \in Pages /\ d \in Channels /\ Catches(q, d)
    OBVIOUS
  <2>1. CASE q = p /\ d = c
    <3>1. messages'[q][d] = Tail(s) /\ field'[q][d] = Digits(Head(s))
      BY <1>1, <1>4, <2>0, <2>1
    <3>2. s[Len(s)] = kept[c] /\ kept' = kept
      BY <1>1, <2>0, <2>1 DEF s, Catches
    <3> QED BY <1>2, <2>1, <3>1, <3>2 DEF Catches
  <2>2. CASE ~(q = p /\ d = c)
    <3>1. messages'[q][d] = messages[q][d] /\ field'[q][d] = field[q][d]
          /\ kept' = kept
      BY <1>1, <1>4, <2>0, <2>2
    <3> QED BY <2>0, <3>1 DEF Catches
  <2> QED BY <2>1, <2>2
<1> QED BY <1>1, <1>5, <1>6

(* Each step of the senders, the network and the pages keeps it.           *)
LEMMA PagesStep ==
  ASSUME ServerAssumption, PagesInv, [ServerNext]_serverVars
  PROVE  PagesInv'
<1> USE DEF PagesInv, ServerTypeOK
<1>1. ASSUME NEW c \in Channels, SendDatagram(c) \/ Lose(c) PROVE PagesInv'
  <2>1. inFlight' \in [Channels -> SUBSET Numbers]
    BY <1>1 DEF SendDatagram, Lose
  <2>2. UNCHANGED <<kept, connected, messages, handlers, field, relayed>>
    BY <1>1 DEF SendDatagram, Lose
  <2> QED BY <2>1, <2>2 DEF Catches
<1>2. ASSUME NEW p \in Pages, Connect(p) PROVE PagesInv'
  <2>1. /\ connected' = connected \cup {p}
        /\ handlers' = [handlers EXCEPT ![p] = @ + 1] /\ handlers[p] < MaxHandlers
        /\ relayed' = [relayed EXCEPT ![p] = {}]
        /\ UNCHANGED <<inFlight, kept, messages, field>>
    BY <1>2 DEF Connect
  <2>2. handlers[p] + 1 \in 0 .. MaxHandlers /\ handlers[p] + 1 # 0
    BY <2>1 DEF ServerAssumption
  <2>3. ServerTypeOK'
    BY <2>1, <2>2
  <2>4. ASSUME NEW q \in connected'
        PROVE  handlers'[q] # 0 /\ \A c \in relayed'[q] : Catches(q, c)'
    <3>1. q \in Pages
      BY <2>3
    <3>2. CASE q = p
      BY <2>1, <2>2, <3>2
    <3>3. CASE q # p
      BY <2>1, <3>1, <3>3 DEF Catches
    <3> QED BY <3>2, <3>3
  <2> QED BY <2>3, <2>4
<1>3. ASSUME NEW p \in Pages, Disconnect(p) \/ Reload(p)
      PROVE  PagesInv'
  <2>1. /\ connected' = connected \ {p}
        /\ messages' = [messages EXCEPT ![p] = [c \in Channels |-> <<>>]]
        /\ \/ field' = field
           \/ field' = [field EXCEPT ![p] = [c \in Channels |-> <<>>]]
        /\ handlers' = handlers \/ handlers' = [handlers EXCEPT ![p] = 0]
        /\ UNCHANGED <<inFlight, kept, relayed>>
    BY <1>3 DEF Disconnect, Reload
  <2>2. ServerTypeOK'
    <3>1. messages' \in [Pages -> [Channels -> Seq(Numbers)]]
      <4>1. <<>> \in Seq(Numbers)
        OBVIOUS
      <4>2. [c \in Channels |-> <<>>] \in [Channels -> Seq(Numbers)]
        BY <4>1
      <4> QED BY <2>1, <4>2
    <3>2. handlers' \in [Pages -> 0 .. MaxHandlers]
      <4>1. handlers \in [Pages -> 0 .. MaxHandlers]
        OBVIOUS
      <4>2. 0 \in 0 .. MaxHandlers
        BY DEF ServerAssumption
      <4> HIDE DEF PagesInv, ServerTypeOK
      <4> QED BY <2>1, <4>1, <4>2
    <3>3. field' \in [Pages -> [Channels ->
                      {<<>>} \cup {Digits(v) : v \in Numbers}]]
      <4> DEFINE F == {<<>>} \cup {Digits(v) : v \in Numbers}
      <4>1. field \in [Pages -> [Channels -> F]] /\ <<>> \in F
        OBVIOUS
      <4> HIDE DEF F
      <4>2. field' = field => field' \in [Pages -> [Channels -> F]]
        BY <4>1
      <4>3. field' = [field EXCEPT ![p] = [c \in Channels |-> <<>>]]
              => field' \in [Pages -> [Channels -> F]]
        BY <4>1
      <4>4. field' \in [Pages -> [Channels -> F]]
        BY <2>1, <4>2, <4>3
      <4> QED BY <4>4 DEF F
    <3> QED BY <2>1, <3>1, <3>2, <3>3
  <2>3. ASSUME NEW q \in connected'
        PROVE  handlers'[q] # 0 /\ \A c \in relayed'[q] : Catches(q, c)'
    <3>1. q \in connected /\ q # p /\ q \in Pages
      BY <2>1
    <3> QED BY <2>1, <3>1 DEF Catches
  <2> QED BY <2>2, <2>3
<1>4. CASE UNCHANGED serverVars
  BY <1>4 DEF serverVars, Catches
<1> HIDE DEF PagesInv, ServerTypeOK
<1> QED BY <1>1, <1>2, <1>3, <1>4, RelayKeeps, HandleKeeps DEF ServerNext

(* Whatever datagrams are lost or overtake each other, and however often   *)
(* pages connect, a page that has handled everything shows the datagram    *)
(* the server keeps, once: for any ports, pages, numbers and handlers.     *)
THEOREM PagesShowCurrent ==
  ServerAssumption => (ServerSpec => []PageShowsCurrent)
<1> SUFFICES ASSUME ServerAssumption PROVE ServerSpec => []PageShowsCurrent
  OBVIOUS
<1>1. ServerInit => PagesInv
  BY PagesInit
<1>2. PagesInv /\ [ServerNext]_serverVars => PagesInv'
  BY PagesStep
<1>3. PagesInv => PageShowsCurrent
  BY DEF PagesInv, PageShowsCurrent, ShowsWhatIsKept, Catches
<1> QED BY <1>1, <1>2, <1>3, PTL DEF ServerSpec

-----------------------------------------------------------------------------
(* The file of the web server begins with what the client has sent.        *)
FileIsRead == webPc # "idle" =>
  /\ Len(file) <= webSent
  /\ \A i \in 1 .. Len(file) : file[i] = request.text[i]

(* Nothing of a length has been found.                                     *)
NoLengthYet ==
  ~currentLineIsContentLength /\ contentLength = <<>> /\ fullRequestSize = 0

(* How far the search is after n characters, when the length of the body   *)
(* stands on these places.                                                 *)
Searched(n, a, b, e) ==
  /\ n < a => counter = 0 /\ NoLengthYet
  /\ a <= n /\ n < b => counter = 1 /\ NoLengthYet
  /\ b <= n /\ n < e =>
       /\ counter = 2 /\ currentLineIsContentLength /\ fullRequestSize = 0
       /\ contentLength = SubSeq(request.text, b, n)
  /\ e <= n =>
       /\ counter = 2 /\ ~currentLineIsContentLength /\ n <= fullRequestSize
       /\ fullRequestSize + 1 = Web!WholeSize(request.text, b, e)

(* What the search has found in n characters of the request.               *)
LengthSought(n) ==
  /\ request.method = "GET" => counter = 0 /\ NoLengthYet /\ n < Len(request.text)
  /\ request.method = "POST" /\ request.length = "none" =>
       /\ NoLengthYet /\ counter < 2
       /\ counter = 1 => \E i \in 1 .. n : request.text[i] = "C"
  /\ request.method = "POST" /\ request.length # "none" =>
       \E a, b, e \in 1 .. Len(request.text) :
         Web!TellsLength(request, a, b, e) /\ Searched(n, a, b, e)

(* The locals say of the characters read what they are meant to say.       *)
Parsed == webPc = "reading" =>
  /\ answer = "none"
  /\ isGETreq <=> file # <<>> /\ request.method = "GET"
  /\ currentLineIsBlank <=> Web!Blank(request.text, Len(file))
  /\ LengthSought(Len(file))

Answered == answer # "none" =>
  /\ webPc = "idle" /\ answer = Web!Answer(request.name)
  /\ ~timedOut /\ request.length # "found" => file = request.text

(* The invariant: when the next character completes the request depends on *)
(* what the locals have kept of the characters before it.                  *)
WebInv ==
  /\ Web!TypeOK /\ file \in Seq(STRING) /\ contentLength \in Seq(STRING)
  /\ FileIsRead /\ Parsed /\ Answered

(* How long the method in a first line is.                                 *)
MethodLen(r) == IF r.method = "GET" THEN 1 ELSE 2

(* The first line of a request, character by character: its carriage       *)
(* return is the first of the whole request.                               *)
LEMMA FirstLineHolds ==
  ASSUME Web!WebAssumption, NEW r \in Requests,
         NEW m, m = MethodLen(r), NEW n, n = Len(r.name)
  PROVE  /\ r.text \in Seq(STRING) /\ r.name \in Seq(STRING)
         /\ r.method \in {"GET", "POST"} /\ r.length \in {"none", "found", "last"}
         /\ m \in 1 .. 2 /\ m \in Nat /\ n \in Nat /\ Len(r.text) >= m + n + 2
         /\ r.text[1] = "G" <=> r.method = "GET"
         /\ \A i \in 1 .. n : r.text[m + i] = r.name[i]
         /\ \A i \in 1 .. m + n + 1 : r.text[i] # "CR"
         /\ r.text[m + n + 2] = "CR"
<1> DEFINE S == STRING \cup {"G", "P", "O", "H", "CR"}
           M == Web!Method(r)
           E == <<"H", "CR">>
           L == Web!StartLine(r)
           t == r.text
<1>1. /\ t \in Seq(STRING) /\ r.name \in Seq(STRING) /\ r.method \in {"GET", "POST"}
      /\ r.length \in {"none", "found", "last"}
  BY DEF Web!WebAssumption
<1>2. Web!WellFormed(r)
  BY DEF Web!WebAssumption
<1>3. /\ M \in Seq(S) /\ Len(M) = m
      /\ M[1] = "G" <=> r.method = "GET"
      /\ \A i \in 1 .. m : M[i] # "CR"
  <2>1. CASE r.method = "GET"
    <3>1. M = <<"G">> /\ m = 1
      BY <2>1 DEF Web!Method, MethodLen
    <3>2. M \in Seq({"G"}) /\ {"G"} \subseteq S
      BY <3>1
    <3>3. M \in Seq(S)
      <4> HIDE DEF S, M
      <4> QED BY <3>2, SeqMonotonic
    <3>4. /\ Len(M) = m /\ (M[1] = "G" <=> r.method = "GET")
          /\ \A i \in 1 .. m : M[i] # "CR"
      BY <3>1, <2>1
    <3> QED BY <3>3, <3>4
  <2>2. CASE r.method = "POST"
    <3>1. M = <<"P", "O">> /\ m = 2
      BY <2>2 DEF Web!Method, MethodLen
    <3>2. M \in Seq({"P", "O"}) /\ {"P", "O"} \subseteq S
      BY <3>1
    <3>3. M \in Seq(S)
      <4> HIDE DEF S, M
      <4> QED BY <3>2, SeqMonotonic
    <3>4. /\ Len(M) = m /\ (M[1] = "G" <=> r.method = "GET")
          /\ \A i \in 1 .. m : M[i] # "CR"
      BY <3>1, <2>2
    <3> QED BY <3>3, <3>4
  <2> QED BY <1>1, <2>1, <2>2
<1>4. E \in Seq(S) /\ Len(E) = 2 /\ E[1] = "H" /\ E[2] = "CR"
  <2>1. E \in Seq({"H", "CR"}) /\ {"H", "CR"} \subseteq S
    OBVIOUS
  <2>2. E \in Seq(S)
    <3> HIDE DEF S, E
    <3> QED BY <2>1, SeqMonotonic
  <2> QED BY <2>2
<1>5. m \in 1 .. 2 /\ m \in Nat /\ m > 0 /\ n \in Nat
  BY <1>1 DEF MethodLen
<1>6. \A i \in 1 .. n : r.name[i] # "CR"
  BY <1>2, <1>1 DEF Web!WellFormed, Web!ToSet
<1>7. L = (M \o r.name) \o E
  BY DEF Web!StartLine
<1>8. Web!IsPrefix(L, t)
  BY <1>2 DEF Web!WellFormed
<1> HIDE DEF S, M, E, L, t
<1>9. /\ M \o r.name \in Seq(S) /\ Len(M \o r.name) = m + n
      /\ \A i \in 1 .. m + n :
           (M \o r.name)[i] = IF i <= m THEN M[i] ELSE r.name[i - m]
  <2>1. M \in Seq(S) /\ r.name \in Seq(S)
    <3>1. STRING \subseteq S
      BY DEF S
    <3>2. r.name \in Seq(S)
      BY <3>1, <1>1, SeqMonotonic
    <3> QED BY <3>2, <1>3
  <2>2. /\ M \o r.name \in Seq(S)
        /\ Len(M \o r.name) = Len(M) + Len(r.name)
        /\ \A i \in 1 .. Len(M) + Len(r.name) :
             (M \o r.name)[i] = IF i <= Len(M) THEN M[i] ELSE r.name[i - Len(M)]
    BY ONLY <2>1, ConcatProperties
  <2> QED BY <2>2, <1>3
<1>10. /\ L \in Seq(S) /\ Len(L) = m + n + 2
       /\ \A i \in 1 .. m + n + 2 :
            L[i] = IF i <= m + n THEN (M \o r.name)[i] ELSE E[i - (m + n)]
  <2> DEFINE K == M \o r.name
  <2>1. K \in Seq(S) /\ E \in Seq(S)
    BY <1>4, <1>9
  <2> HIDE DEF K
  <2>2. /\ K \o E \in Seq(S) /\ Len(K \o E) = Len(K) + Len(E)
        /\ \A i \in 1 .. Len(K) + Len(E) :
             (K \o E)[i] = IF i <= Len(K) THEN K[i] ELSE E[i - Len(K)]
    BY ONLY <2>1, ConcatProperties
  <2>3. Len(K) = m + n /\ Len(E) = 2 /\ L = K \o E
    BY <1>4, <1>7, <1>9 DEF K
  <2> QED BY <2>2, <2>3 DEF K
<1>11. /\ Len(L) <= Len(t) /\ \A i \in 1 .. Len(L) : t[i] = L[i]
  <2>1. Len(L) <= Len(t) /\ SubSeq(L, 1, Len(L)) = SubSeq(t, 1, Len(L))
    BY <1>8 DEF Web!IsPrefix
  <2>2. Len(L) \in Nat /\ Len(t) \in Nat
    BY <1>1, <1>10 DEF t
  <2>3. ASSUME NEW i \in 1 .. Len(L) PROVE t[i] = L[i]
    <3>1. SubSeq(L, 1, Len(L))[i] = L[i]
      BY <1>10, <2>2
    <3>2. SubSeq(t, 1, Len(L))[i] = t[i]
      BY <1>1, <2>2, <2>1 DEF t
    <3> QED BY <3>1, <3>2, <2>1
  <2> QED BY <2>1, <2>3
<1>12. \A i \in 1 .. m + n + 2 :
         t[i] = IF i <= m THEN M[i] ELSE IF i <= m + n THEN r.name[i - m] ELSE E[i - (m + n)]
  <2>1. ASSUME NEW i \in 1 .. m + n + 2
        PROVE  t[i] = IF i <= m THEN M[i]
                      ELSE IF i <= m + n THEN r.name[i - m] ELSE E[i - (m + n)]
    <3>1. t[i] = L[i]
      BY <1>10, <1>11
    <3>2. i <= m + n => i \in 1 .. m + n
      BY <1>5
    <3>3. i <= m => i <= m + n
      BY <1>5
    <3> QED BY <3>1, <3>2, <3>3, <1>9, <1>10
  <2> QED BY <2>1
<1>13. t[1] = M[1]
  BY <1>5, <1>12
<1>14. \A i \in 1 .. n : t[m + i] = r.name[i]
  <2>1. ASSUME NEW i \in 1 .. n PROVE t[m + i] = r.name[i]
    <3>1. m + i \in 1 .. m + n + 2 /\ ~(m + i <= m) /\ m + i <= m + n /\ (m + i) - m = i
      BY <1>5
    <3> QED BY <3>1, <1>12
  <2> QED BY <2>1
<1>15. \A i \in 1 .. m + n + 1 : t[i] # "CR"
  <2>1. ASSUME NEW i \in 1 .. m + n + 1 PROVE t[i] # "CR"
    <3>1. CASE i <= m
      BY <3>1, <1>3, <1>5, <1>12
    <3>2. CASE m < i /\ i <= m + n
      <4>1. i - m \in 1 .. n /\ i \in 1 .. m + n + 2 /\ ~(i <= m)
        BY <3>2, <1>5
      <4>2. t[i] = r.name[i - m]
        BY <3>2, <4>1, <1>12
      <4> QED BY <4>1, <4>2, <1>6
    <3>3. CASE i = m + n + 1
      <4>1. i \in 1 .. m + n + 2 /\ ~(i <= m) /\ ~(i <= m + n) /\ i - (m + n) = 1
        BY <3>3, <1>5
      <4> QED BY <4>1, <1>4, <1>12
    <3> QED BY <1>5, <3>1, <3>2, <3>3
  <2> QED BY <2>1
<1>16. t[m + n + 2] = "CR"
  <2>1. ASSUME NEW i, i = m + n + 2
        PROVE  i \in 1 .. m + n + 2 /\ ~(i <= m) /\ ~(i <= m + n) /\ i - (m + n) = 2
    BY ONLY <1>5, <2>1
  <2>2. ASSUME NEW i, i = m + n + 2 PROVE t[i] = "CR"
    BY <2>1, <2>2, <1>4, <1>12
  <2> QED BY <2>2
<1>17. Len(t) >= m + n + 2
  BY <1>1, <1>5, <1>10, <1>11 DEF t
<1> QED BY <1>1, <1>3, <1>5, <1>13, <1>14, <1>15, <1>16, <1>17 DEF t

(* From any beginning of a request that has the end of the first line, the *)
(* name in that line is read.                                              *)
LEMMA NameIsFound ==
  ASSUME Web!WebAssumption, NEW r \in Requests, NEW f \in Seq(STRING),
         Len(f) <= Len(r.text), \A i \in 1 .. Len(f) : f[i] = r.text[i],
         "CR" \in Web!ToSet(f), NEW isGet, isGet <=> r.method = "GET"
  PROVE  Web!RequestedFile(f, isGet) = r.name
<1> DEFINE m == MethodLen(r)
           n == Len(r.name)
           k == m + n + 2
           I == {i \in 1 .. Len(f) : f[i] = "CR"}
           line == Web!FirstLine(f)
<1>1. /\ r.text \in Seq(STRING) /\ r.name \in Seq(STRING)
      /\ m \in 1 .. 2 /\ m \in Nat /\ n \in Nat /\ Len(r.text) >= k
      /\ \A i \in 1 .. n : r.text[m + i] = r.name[i]
      /\ \A i \in 1 .. m + n + 1 : r.text[i] # "CR"
      /\ r.text[k] = "CR" /\ r.method \in {"GET", "POST"}
  <2>1. ASSUME NEW j, j = m, NEW l, l = n
        PROVE  /\ r.text \in Seq(STRING) /\ r.name \in Seq(STRING)
               /\ j \in 1 .. 2 /\ j \in Nat /\ l \in Nat /\ Len(r.text) >= j + l + 2
               /\ \A i \in 1 .. l : r.text[j + i] = r.name[i]
               /\ \A i \in 1 .. j + l + 1 : r.text[i] # "CR"
               /\ r.text[j + l + 2] = "CR" /\ r.method \in {"GET", "POST"}
    BY <2>1, FirstLineHolds
  <2> HIDE DEF m, n
  <2> QED BY <2>1
<1>2. Len(f) \in Nat /\ I # {}
  BY DEF Web!ToSet
<1>3. Web!NameStart(isGet) = m + 1
  BY <1>1 DEF Web!NameStart, MethodLen
<1>4. Web!SelectInSeq(f, LAMBDA c : c = "CR") = Web!Min(I)
  BY <1>2 DEF Web!SelectInSeq
<1>5. line = SubSeq(f, 1, Web!Min(I) - 1)
  BY <1>4 DEF Web!FirstLine
<1>6. Web!RequestedFile(f, isGet) = SubSeq(line, m + 1, Len(line) - 1)
  BY <1>3 DEF Web!RequestedFile
<1> HIDE DEF m, n, line
<1>7. \A i \in I : k <= i
  <2>1. ASSUME NEW i \in I PROVE k <= i
    <3>1. i \in 1 .. Len(f) /\ r.text[i] = "CR" /\ i \in Nat /\ i >= 1
      BY <1>2
    <3>2. i \notin 1 .. m + n + 1
      BY <3>1, <1>1
    <3> QED BY <3>1, <3>2, <1>1
  <2> QED BY <2>1
<1>8. k \in I
  <2>1. PICK i \in I : TRUE
    BY <1>2
  <2>2. k <= Len(f) /\ k \in 1 .. Len(f)
    BY <2>1, <1>7, <1>1, <1>2
  <2> QED BY <2>2, <1>1
<1>9. Web!Min(I) = k
  <2>1. \E x \in I : \A y \in I : x <= y
    BY <1>7, <1>8
  <2>2. Web!Min(I) \in I /\ \A y \in I : Web!Min(I) <= y
    BY <2>1 DEF Web!Min
  <2> QED BY <2>2, <1>1, <1>2, <1>7, <1>8
<1> HIDE DEF I
<1>10. /\ line \in Seq(STRING) /\ Len(line) = m + n + 1
       /\ \A i \in 1 .. m + n + 1 : line[i] = r.text[i]
  <2>1. line = SubSeq(f, 1, m + n + 1)
    BY <1>1, <1>5, <1>9
  <2>2. m + n + 1 <= Len(f) /\ m + n + 1 \in Nat
    BY <1>1, <1>2, <1>8 DEF I
  <2> QED BY <2>1, <2>2, <1>2
<1>11. /\ SubSeq(line, m + 1, m + n) \in Seq(STRING)
       /\ Len(SubSeq(line, m + 1, m + n)) = n
       /\ \A i \in 1 .. n : SubSeq(line, m + 1, m + n)[i] = line[m + i]
  BY <1>1, <1>10
<1>12. \A i \in 1 .. n : line[m + i] = r.name[i]
  BY <1>1, <1>10
<1>13. Len(line) - 1 = m + n
  BY <1>1, <1>10
<1>14. Len(r.name) = n
  BY DEF n
<1>15. SubSeq(line, m + 1, m + n) = r.name
  <2> DEFINE s == SubSeq(line, m + 1, m + n)
  <2>1. /\ s \in Seq(STRING) /\ r.name \in Seq(STRING) /\ Len(s) = Len(r.name)
        /\ \A i \in 1 .. Len(s) : s[i] = r.name[i]
    BY <1>1, <1>11, <1>12, <1>14
  <2> HIDE DEF s
  <2>2. s = r.name
    BY ONLY <2>1, SeqEqual
  <2> QED BY <2>2 DEF s
<1> QED BY <1>6, <1>13, <1>15

(* Stretches of a sequence grow at their end.                              *)
LEMMA OneMoreInSubSeq ==
  ASSUME NEW S, NEW seq \in Seq(S), NEW i \in 1 .. Len(seq), NEW j \in i - 1 .. Len(seq) - 1
  PROVE  SubSeq(seq, i, j + 1) = Append(SubSeq(seq, i, j), seq[j + 1])
<1>1. i \in 1 .. Len(seq) /\ j + 1 \in i .. Len(seq) /\ (j + 1) - 1 = j
  OBVIOUS
<1>2. SubSeq(seq, i, j + 1) = SubSeq(seq, i, (j + 1) - 1) \o <<seq[j + 1]>>
  BY ONLY <1>1, seq \in Seq(S), SubSeqRecursiveSecond
<1>3. SubSeq(seq, i, j) \in Seq(S) /\ seq[j + 1] \in S
  OBVIOUS
<1>4. Append(SubSeq(seq, i, j), seq[j + 1]) = SubSeq(seq, i, j) \o <<seq[j + 1]>>
  BY <1>3, AppendIsConcat
<1> QED BY <1>1, <1>2, <1>4

(* The length of a body is a number, whatever was kept for it.             *)
LEMMA AtoiType == \A chars : Web!Atoi(chars) \in Nat
<1>1. \A d \in {"0", "1", "2"} : Web!Digits[d] \in Nat
  BY DEF Web!Digits
<1>2. DOMAIN Web!Digits = {"0", "1", "2"}
  BY DEF Web!Digits
<1> QED BY <1>1, <1>2 DEF Web!Atoi

(* A line is blank for as long as it has nothing but carriage returns.     *)
LEMMA BlankGrows ==
  ASSUME NEW t, NEW n \in Nat
  PROVE  Web!Blank(t, n + 1) <=> t[n + 1] = "LF" \/ (t[n + 1] = "CR" /\ Web!Blank(t, n))
<1>1. ASSUME t[n + 1] = "LF" PROVE Web!Blank(t, n + 1)
  <2>1. n + 1 \in 0 .. n + 1 /\ \A i \in (n + 1) + 1 .. n + 1 : t[i] = "CR"
    OBVIOUS
  <2> QED BY <1>1, <2>1 DEF Web!Blank
<1>2. ASSUME t[n + 1] = "CR", Web!Blank(t, n) PROVE Web!Blank(t, n + 1)
  <2>1. PICK j \in 0 .. n : (j = 0 \/ t[j] = "LF") /\ \A i \in j + 1 .. n : t[i] = "CR"
    BY <1>2 DEF Web!Blank
  <2>2. j \in 0 .. n + 1 /\ \A i \in j + 1 .. n + 1 : t[i] = "CR"
    BY <1>2, <2>1
  <2> QED BY <2>1, <2>2 DEF Web!Blank
<1>3. ASSUME Web!Blank(t, n + 1), t[n + 1] # "LF"
      PROVE  t[n + 1] = "CR" /\ Web!Blank(t, n)
  <2>1. PICK j \in 0 .. n + 1 : /\ j = 0 \/ t[j] = "LF"
                                /\ \A i \in j + 1 .. n + 1 : t[i] = "CR"
    BY <1>3 DEF Web!Blank
  <2>2. j \in 0 .. n /\ n + 1 \in j + 1 .. n + 1
    BY <2>1, <1>3
  <2>3. \A i \in j + 1 .. n : t[i] = "CR"
    BY <2>1, <2>2
  <2> QED BY <2>1, <2>2, <2>3 DEF Web!Blank
<1> QED BY <1>1, <1>2, <1>3

(* One more character of a POST that tells its length: the search goes on  *)
(* as it should, and only the character that completes the request is      *)
(* taken to be the last.                                                   *)
LEMMA SearchKeeps ==
  ASSUME Web!WebAssumption, request \in Requests,
         NEW n \in Nat, n < Len(request.text),
         NEW a \in 1 .. Len(request.text), NEW b \in 1 .. Len(request.text),
         NEW e \in 1 .. Len(request.text), Web!TellsLength(request, a, b, e),
         contentLength \in Seq(STRING), fullRequestSize \in Nat, Searched(n, a, b, e),
         Web!LengthLine(request.text[n + 1], n + 1), request' = request
  PROVE  \/ /\ fullRequestSize' > 0 /\ Web!BodyIsThere(n + 1, fullRequestSize')
            /\ n + 1 = Web!WholeSize(request.text, b, e)
         \/ /\ ~(fullRequestSize' > 0 /\ Web!BodyIsThere(n + 1, fullRequestSize'))
            /\ Searched(n + 1, a, b, e)'
<1> DEFINE t == request.text
           c == t[n + 1]
           whole == Web!WholeSize(t, b, e)
<1>1. t \in Seq(STRING) /\ LengthChars \in Nat \ {0} /\ Len(t) \in Nat
  BY DEF Web!WebAssumption
<1>2. /\ a < b /\ b < e /\ whole <= Len(t)
      /\ t[a] = "C" /\ \A i \in 1 .. a - 1 : t[i] # "C"
      /\ t[b] = "L" /\ \A i \in a .. b - 1 : t[i] # "L"
      /\ t[e] = "CR" \/ e = b + LengthChars
      /\ e <= b + LengthChars /\ \A i \in b .. e - 1 : t[i] # "CR"
  BY DEF Web!TellsLength, Web!LengthIsAt
<1>3. whole = e + Web!Atoi(SubSeq(t, b, e - 1)) + 3 /\ whole \in Nat /\ whole > e + 2
  BY AtoiType DEF Web!WholeSize
<1>4. c \in STRING
  BY <1>1
<1> DEFINE matched == Web!Matches(c)
           inLine  == IF matched THEN counter + 1 = 2 ELSE currentLineIsContentLength
           keep    == c # "CR" /\ Len(contentLength) < LengthChars
<1>5. /\ counter' = IF matched THEN counter + 1 ELSE counter
      /\ currentLineIsContentLength' = (inLine /\ keep)
      /\ contentLength' = IF inLine /\ keep THEN Append(contentLength, c) ELSE contentLength
      /\ fullRequestSize' = IF inLine /\ ~keep THEN (n + 1) + Web!Atoi(contentLength) + 2
                                              ELSE fullRequestSize
  BY DEF Web!LengthLine, Web!Pattern
<1>6. matched <=> \/ counter = 0 /\ fullRequestSize = 0 /\ c = "C"
                  \/ counter = 1 /\ fullRequestSize = 0 /\ c = "L"
  <2>1. counter \in 0 .. 2
    BY <1>2 DEF Searched
  <2> QED BY <2>1 DEF Web!Matches, Web!Pattern
<1>7. t' = t /\ whole' = whole
  OBVIOUS
<1> HIDE DEF t, c, whole, matched, inLine, keep
<1>8. CASE n + 1 < a
  <2>1. counter = 0 /\ NoLengthYet /\ c # "C"
    BY <1>2, <1>8 DEF Searched, c
  <2>2. ~matched /\ ~inLine
    BY <2>1, <1>6 DEF inLine, NoLengthYet
  <2>3. counter' = 0 /\ NoLengthYet'
    BY <2>1, <2>2, <1>5 DEF NoLengthYet
  <2>4. Searched(n + 1, a, b, e)'
    BY <2>3, <1>2, <1>8 DEF Searched
  <2> QED BY <2>3, <2>4 DEF NoLengthYet
<1>9. CASE n + 1 = a
  <2>1. counter = 0 /\ NoLengthYet /\ c = "C"
    BY <1>2, <1>9 DEF Searched, c
  <2>2. matched /\ ~inLine
    BY <2>1, <1>6 DEF inLine, NoLengthYet
  <2>3. counter' = counter + 1 /\ NoLengthYet'
    BY <2>1, <2>2, <1>5 DEF NoLengthYet
  <2>4. Searched(n + 1, a, b, e)'
    BY <2>1, <2>3, <1>2, <1>9 DEF Searched
  <2> QED BY <2>3, <2>4 DEF NoLengthYet
<1>10. CASE a < n + 1 /\ n + 1 < b
  <2>1. counter = 1 /\ NoLengthYet /\ c # "L"
    BY <1>2, <1>10 DEF Searched, c
  <2>2. ~matched /\ ~inLine
    BY <2>1, <1>6 DEF inLine, NoLengthYet
  <2>3. counter' = 1 /\ NoLengthYet'
    BY <2>1, <2>2, <1>5 DEF NoLengthYet
  <2>4. Searched(n + 1, a, b, e)'
    BY <2>3, <1>2, <1>10 DEF Searched
  <2> QED BY <2>3, <2>4 DEF NoLengthYet
<1>11. CASE n + 1 = b
  <2>1. counter = 1 /\ NoLengthYet /\ c = "L"
    BY <1>2, <1>11 DEF Searched, c
  <2>2. matched /\ inLine /\ keep
    BY <2>1, <1>1, <1>6 DEF inLine, keep, NoLengthYet
  <2>3. /\ counter' = counter + 1 /\ currentLineIsContentLength' /\ fullRequestSize' = 0
        /\ contentLength' = Append(<<>>, c)
    BY <2>1, <2>2, <1>5 DEF NoLengthYet
  <2>4. Append(<<>>, c) = SubSeq(t, b, n + 1)
    <3>1. SubSeq(t, b, n + 1) = Append(SubSeq(t, b, n), t[n + 1])
      BY <1>1, <1>2, <1>11, OneMoreInSubSeq
    <3>2. SubSeq(t, b, n) = <<>>
      BY <1>1, <1>11
    <3> QED BY <3>1, <3>2 DEF c
  <2>5. Searched(n + 1, a, b, e)'
    BY <2>1, <2>3, <2>4, <1>2, <1>7, <1>11 DEF Searched, t
  <2> QED BY <2>3, <2>5
<1>12. CASE b < n + 1 /\ n + 1 < e
  <2>1. /\ counter = 2 /\ currentLineIsContentLength /\ fullRequestSize = 0
        /\ contentLength = SubSeq(t, b, n)
    BY <1>2, <1>12 DEF Searched, t
  <2>2. c # "CR" /\ Len(contentLength) = n - b + 1
    <3>1. n + 1 \in b .. e - 1 /\ b \in 1 .. Len(t) /\ n \in b .. Len(t)
      BY <1>1, <1>2, <1>12 DEF t
    <3>2. c # "CR"
      BY <3>1, <1>2 DEF c
    <3>3. Len(SubSeq(t, b, n)) = n - b + 1
      BY <3>1, <1>1
    <3> QED BY <2>1, <3>2, <3>3
  <2>3. ~matched /\ inLine /\ keep
    BY <2>1, <2>2, <1>1, <1>2, <1>6, <1>12 DEF inLine, keep
  <2>4. /\ counter' = 2 /\ currentLineIsContentLength' /\ fullRequestSize' = 0
        /\ contentLength' = Append(SubSeq(t, b, n), c)
    BY <2>1, <2>3, <1>5
  <2>5. Append(SubSeq(t, b, n), c) = SubSeq(t, b, n + 1)
    <3>1. b \in 1 .. Len(t) /\ n \in b - 1 .. Len(t) - 1
      BY <1>1, <1>2, <1>12 DEF t
    <3>2. SubSeq(t, b, n + 1) = Append(SubSeq(t, b, n), t[n + 1])
      BY <3>1, <1>1, OneMoreInSubSeq
    <3> QED BY <3>2 DEF c
  <2>6. Searched(n + 1, a, b, e)'
    BY <2>4, <2>5, <1>2, <1>7, <1>12 DEF Searched, t
  <2> QED BY <2>4, <2>6
<1>13. CASE n + 1 = e
  <2>1. /\ counter = 2 /\ currentLineIsContentLength /\ fullRequestSize = 0
        /\ contentLength = SubSeq(t, b, n)
    BY <1>2, <1>13 DEF Searched, t
  <2>2. c = "CR" \/ Len(contentLength) = LengthChars
    BY <2>1, <1>1, <1>2, <1>13 DEF c
  <2>3. ~matched /\ inLine /\ ~keep
    BY <2>1, <2>2, <1>1, <1>6 DEF inLine, keep
  <2>4. /\ counter' = 2 /\ ~currentLineIsContentLength'
        /\ fullRequestSize' = (n + 1) + Web!Atoi(SubSeq(t, b, n)) + 2
    BY <2>1, <2>3, <1>5
  <2>5. e - 1 = n
    BY <1>13
  <2>6. fullRequestSize' + 1 = whole /\ fullRequestSize' \in Nat /\ fullRequestSize' > n + 1
    <3>1. Web!Atoi(SubSeq(t, b, n)) \in Nat
      BY AtoiType
    <3>2. whole = e + Web!Atoi(SubSeq(t, b, n)) + 3
      BY <1>3, <2>5
    <3> QED BY <2>4, <3>1, <3>2, <1>13
  <2>7. Searched(n + 1, a, b, e)'
    BY <2>4, <2>6, <1>2, <1>7, <1>13 DEF Searched, t, whole
  <2> QED BY <2>6, <2>7 DEF Web!BodyIsThere
<1>14. CASE e < n + 1
  <2>1. /\ counter = 2 /\ ~currentLineIsContentLength /\ n <= fullRequestSize
        /\ fullRequestSize + 1 = whole /\ fullRequestSize \in Int
    BY <1>2, <1>3, <1>14 DEF Searched, t, whole, Web!WholeSize
  <2>2. ~matched /\ ~inLine
    BY <2>1, <1>6 DEF inLine
  <2>3. counter' = 2 /\ ~currentLineIsContentLength' /\ fullRequestSize' = fullRequestSize
    BY <2>1, <2>2, <1>5
  <2>4. CASE n + 1 <= fullRequestSize
    <3>1. Searched(n + 1, a, b, e)'
      BY <2>1, <2>3, <2>4, <1>2, <1>7, <1>14 DEF Searched, t, whole
    <3> QED BY <3>1, <2>1, <2>3, <2>4 DEF Web!BodyIsThere
  <2>5. CASE n + 1 > fullRequestSize
    BY <2>1, <2>3, <2>5, <1>3, <1>14 DEF Web!BodyIsThere, t, whole
  <2> QED BY <2>1, <2>4, <2>5
<1> QED BY <1>2, <1>8, <1>9, <1>10, <1>11, <1>12, <1>13, <1>14

(* What the client can be sent.                                            *)
LEMMA AnswerType ==
  \A asked : Web!Answer(asked) \in {"index", "inputs", "script", "file"}
BY DEF Web!Answer

(* A sequence that agrees with another as far as it goes is its beginning. *)
LEMMA PrefixIsRead ==
  ASSUME NEW s \in Seq(STRING), NEW t \in Seq(STRING), Len(s) <= Len(t),
         \A i \in 1 .. Len(s) : s[i] = t[i]
  PROVE  Web!IsPrefix(s, t)
<1>1. Len(s) \in Nat /\ Len(t) \in Nat
  OBVIOUS
<1>2. /\ SubSeq(s, 1, Len(s)) \in Seq(STRING) /\ SubSeq(t, 1, Len(s)) \in Seq(STRING)
      /\ Len(SubSeq(s, 1, Len(s))) = Len(s) /\ Len(SubSeq(t, 1, Len(s))) = Len(s)
      /\ \A i \in 1 .. Len(s) : /\ SubSeq(s, 1, Len(s))[i] = s[i]
                                /\ SubSeq(t, 1, Len(s))[i] = t[i]
  BY <1>1
<1>3. SubSeq(s, 1, Len(s)) = SubSeq(t, 1, Len(s))
  <2> DEFINE u == SubSeq(s, 1, Len(s))
             v == SubSeq(t, 1, Len(s))
  <2>1. /\ u \in Seq(STRING) /\ v \in Seq(STRING) /\ Len(u) = Len(v)
        /\ \A i \in 1 .. Len(u) : u[i] = v[i]
    BY <1>2
  <2> HIDE DEF u, v
  <2>2. u = v
    BY ONLY <2>1, SeqEqual
  <2> QED BY <2>2 DEF u, v
<1> QED BY <1>3 DEF Web!IsPrefix

(* One more character, whatever the request: the locals say of it what     *)
(* they should; if it completes the request in the eyes of the server,     *)
(* nothing that belongs to the request comes behind it.                    *)
LEMMA LocalsKeep ==
  ASSUME Web!WebAssumption, WebInv, Web!ReadChar,
         NEW n, n = Len(file), NEW c, c = request.text[n + 1]
  PROVE  /\ isGETreq' \in BOOLEAN /\ (isGETreq' <=> request.method = "GET")
         /\ currentLineIsBlank' \in BOOLEAN
         /\ currentLineIsBlank' <=> Web!Blank(request.text, n + 1)
         /\ currentLineIsContentLength' \in BOOLEAN /\ counter' \in 0 .. 2
         /\ contentLength' \in Seq(STRING) /\ Len(contentLength') <= LengthChars
         /\ fullRequestSize' \in Nat
         /\ \/ /\ Web!RequestIsComplete(c, n + 1)
               /\ request.length # "found" => n + 1 = Len(request.text)
            \/ /\ ~Web!RequestIsComplete(c, n + 1)
               /\ LengthSought(n + 1)'
<1> DEFINE t == request.text
<1>1. /\ request \in Requests /\ t \in Seq(STRING)
      /\ request.method \in {"GET", "POST"} /\ request.length \in {"none", "found", "last"}
      /\ t[1] = "G" <=> request.method = "GET"
  BY FirstLineHolds DEF WebInv, Web!TypeOK
<1>2. /\ webPc = "reading" /\ Web!NumRead = n
      /\ n \in Nat /\ n < Len(t) /\ Len(t) \in Nat /\ c \in STRING
  BY <1>1 DEF WebInv, Web!TypeOK, Web!ReadChar, Web!NumRead, FileIsRead
<1>3. /\ file' = Append(file, c) /\ request' = request
      /\ isGETreq' = IF n + 1 = 1 THEN c = "G" ELSE isGETreq
      /\ IF isGETreq'
           THEN UNCHANGED <<counter, contentLength, fullRequestSize,
                            currentLineIsContentLength>>
           ELSE Web!LengthLine(c, n + 1)
      /\ currentLineIsBlank' = IF c = "LF" THEN TRUE
                               ELSE IF c = "CR" THEN currentLineIsBlank ELSE FALSE
  BY <1>2 DEF Web!ReadChar
<1>4. /\ isGETreq \in BOOLEAN /\ currentLineIsBlank \in BOOLEAN
      /\ currentLineIsContentLength \in BOOLEAN /\ counter \in 0 .. 2
      /\ contentLength \in Seq(STRING) /\ Len(contentLength) <= LengthChars
      /\ fullRequestSize \in Nat /\ file \in Seq(STRING) /\ LengthChars \in Nat
  BY DEF WebInv, Web!TypeOK, Web!Pattern, Web!WebAssumption
<1>5. /\ isGETreq <=> file # <<>> /\ request.method = "GET"
      /\ currentLineIsBlank <=> Web!Blank(t, n)
      /\ LengthSought(n)
  BY <1>2 DEF WebInv, Parsed
<1>6. isGETreq' \in BOOLEAN /\ (isGETreq' <=> request.method = "GET")
  <2>1. CASE n = 0
    <3>1. n + 1 = 1 /\ c = t[1]
      BY <2>1
    <3>2. isGETreq' = (c = "G")
      BY <3>1, <1>3
    <3> QED BY <3>1, <3>2, <1>1
  <2>2. CASE n # 0
    <3>1. file # <<>> /\ n + 1 # 1
      BY <2>2, <1>2
    <3> QED BY <3>1, <1>3, <1>4, <1>5
  <2> QED BY <2>1, <2>2
<1>7. currentLineIsBlank' \in BOOLEAN /\ (currentLineIsBlank' <=> Web!Blank(t, n + 1))
  <2>1. Web!Blank(t, n + 1) <=> c = "LF" \/ (c = "CR" /\ Web!Blank(t, n))
    BY <1>2, BlankGrows
  <2> QED BY <2>1, <1>3, <1>4, <1>5
<1>8. /\ currentLineIsContentLength' \in BOOLEAN /\ counter' \in 0 .. 2
      /\ contentLength' \in Seq(STRING) /\ Len(contentLength') <= LengthChars
      /\ fullRequestSize' \in Nat
  <2>1. CASE isGETreq'
    BY <2>1, <1>3, <1>4
  <2>2. CASE ~isGETreq'
    <3> DEFINE matched == Web!Matches(c)
               inLine  == IF matched THEN counter + 1 = 2 ELSE currentLineIsContentLength
               keep    == c # "CR" /\ Len(contentLength) < LengthChars
    <3>1. /\ counter' = IF matched THEN counter + 1 ELSE counter
          /\ currentLineIsContentLength' = (inLine /\ keep)
          /\ contentLength' = IF inLine /\ keep THEN Append(contentLength, c) ELSE contentLength
          /\ fullRequestSize' = IF inLine /\ ~keep THEN (n + 1) + Web!Atoi(contentLength) + 2
                                                  ELSE fullRequestSize
      BY <2>2, <1>3 DEF Web!LengthLine, Web!Pattern
    <3>2. matched => counter < 2
      BY DEF Web!Matches, Web!Pattern
    <3>3. inLine \in BOOLEAN /\ keep \in BOOLEAN
      BY <1>4
    <3>4. Web!Atoi(contentLength) \in Nat
      BY AtoiType
    <3>5. /\ Append(contentLength, c) \in Seq(STRING)
          /\ keep => Len(Append(contentLength, c)) <= LengthChars
      BY <1>2, <1>4
    <3> HIDE DEF matched, inLine, keep
    <3>6. contentLength' \in Seq(STRING) /\ Len(contentLength') <= LengthChars
      BY <3>1, <3>5, <1>4
    <3>7. counter' \in 0 .. 2 /\ fullRequestSize' \in Nat
      BY <3>1, <3>2, <3>4, <1>2, <1>4
    <3>8. currentLineIsContentLength' \in BOOLEAN
      BY <3>1, <3>3
    <3> QED BY <3>6, <3>7, <3>8
  <2> QED BY <2>1, <2>2
<1>9. \/ /\ Web!RequestIsComplete(c, n + 1)
         /\ request.length # "found" => n + 1 = Len(t)
      \/ ~Web!RequestIsComplete(c, n + 1) /\ LengthSought(n + 1)'
  <2>1. Web!WellFormed(request)
    BY <1>1 DEF Web!WebAssumption
  <2>2. CASE request.method = "GET"
    <3>1. UNCHANGED <<counter, contentLength, fullRequestSize, currentLineIsContentLength>>
      BY <2>2, <1>3, <1>6
    <3>2. Web!RequestIsComplete(c, n + 1) <=> c = "LF" /\ Web!Blank(t, n)
      BY <2>2, <1>5, <1>6 DEF Web!RequestIsComplete, Web!BlankLine
    <3>3. c = "LF" /\ Web!Blank(t, n) <=> n + 1 = Len(t)
      <4>1. \A i \in 1 .. Len(t) : t[i] = "LF" /\ Web!Blank(t, i - 1) <=> i = Len(t)
        BY <2>1, <2>2 DEF Web!WellFormed
      <4>2. n + 1 \in 1 .. Len(t) /\ (n + 1) - 1 = n
        BY <1>2
      <4>3. t[n + 1] = "LF" /\ Web!Blank(t, (n + 1) - 1) <=> n + 1 = Len(t)
        BY <4>1, <4>2
      <4> QED BY <4>2, <4>3
    <3>4. n + 1 # Len(t) => LengthSought(n + 1)'
      BY <3>1, <2>2, <1>2, <1>3, <1>5 DEF LengthSought, NoLengthYet
    <3> QED BY <3>2, <3>3, <3>4
  <2>3. CASE request.method = "POST" /\ request.length = "none"
    <3>1. /\ NoLengthYet /\ counter < 2
          /\ counter = 1 => \E i \in 1 .. n : t[i] = "C"
      BY <2>3, <1>5 DEF LengthSought
    <3>2. ~(counter = 1 /\ c = "L")
      <4>1. \A i, j \in 1 .. Len(t) : t[i] = "C" /\ t[j] = "L" => j < i
        BY <2>1, <2>3 DEF Web!WellFormed
      <4>2. SUFFICES ASSUME counter = 1, c = "L" PROVE FALSE
        OBVIOUS
      <4>3. PICK i \in 1 .. n : t[i] = "C"
        BY <3>1, <4>2
      <4>4. i \in 1 .. Len(t) /\ n + 1 \in 1 .. Len(t) /\ ~(n + 1 < i)
        BY <1>2
      <4> QED BY <4>1, <4>2, <4>3, <4>4
    <3>3. Web!Matches(c) <=> counter = 0 /\ c = "C"
      BY <3>1, <3>2, <1>4 DEF Web!Matches, Web!Pattern, NoLengthYet
    <3>4. Web!LengthLine(c, n + 1)
      BY <2>3, <1>3, <1>6
    <3>5. /\ counter' = (IF Web!Matches(c) THEN counter + 1 ELSE counter)
          /\ NoLengthYet'
      <4>1. (IF Web!Matches(c) THEN counter + 1 = 2 ELSE currentLineIsContentLength) = FALSE
        BY <3>1, <3>3, <1>4 DEF NoLengthYet
      <4> QED BY <4>1, <3>1, <3>4 DEF NoLengthYet, Web!LengthLine, Web!Pattern
    <3>6. counter' < 2 /\ (counter' = 1 => \E i \in 1 .. n + 1 : t[i] = "C")
      <4>1. CASE Web!Matches(c)
        <5>1. t[n + 1] = "C" /\ n + 1 \in 1 .. n + 1
          BY <4>1, <3>3, <1>2
        <5> QED BY <4>1, <5>1, <3>3, <3>5
      <4>2. CASE ~Web!Matches(c)
        <5>1. 1 .. n \subseteq 1 .. n + 1
          BY <1>2
        <5> QED BY <4>2, <5>1, <3>1, <3>5
      <4> QED BY <4>1, <4>2
    <3>7. ~Web!RequestIsComplete(c, n + 1)
      BY <2>3, <3>5, <1>6 DEF Web!RequestIsComplete, NoLengthYet
    <3>8. LengthSought(n + 1)'
      BY <2>3, <3>5, <3>6, <1>3 DEF LengthSought
    <3> QED BY <3>7, <3>8
  <2>4. CASE request.method = "POST" /\ request.length # "none"
    <3>1. PICK a, b, e \in 1 .. Len(t) : /\ Web!TellsLength(request, a, b, e)
                                         /\ Searched(n, a, b, e)
      BY <2>4, <1>5 DEF LengthSought
    <3>2. Web!LengthLine(c, n + 1)
      BY <2>4, <1>3, <1>6
    <3>3. \/ /\ fullRequestSize' > 0 /\ Web!BodyIsThere(n + 1, fullRequestSize')
             /\ n + 1 = Web!WholeSize(t, b, e)
          \/ /\ ~(fullRequestSize' > 0 /\ Web!BodyIsThere(n + 1, fullRequestSize'))
             /\ Searched(n + 1, a, b, e)'
      BY <3>1, <3>2, <1>1, <1>2, <1>3, <1>4, SearchKeeps
    <3>4. Web!RequestIsComplete(c, n + 1) <=>
            fullRequestSize' > 0 /\ Web!BodyIsThere(n + 1, fullRequestSize')
      BY <2>4, <1>6 DEF Web!RequestIsComplete
    <3>5. request.length # "found" => Web!WholeSize(t, b, e) = Len(t)
      BY <2>4, <3>1, <1>1 DEF Web!TellsLength
    <3>6. Searched(n + 1, a, b, e)' => LengthSought(n + 1)'
      BY <2>4, <3>1, <1>3 DEF LengthSought
    <3> QED BY <3>3, <3>4, <3>5, <3>6
  <2> QED BY <1>1, <2>2, <2>3, <2>4
<1> QED BY <1>6, <1>7, <1>8, <1>9

(* A new client finds the server with nothing read.                        *)
LEMMA WebInit ==
  ASSUME Web!WebAssumption, Web!Init PROVE WebInv
<1>1. request.text \in Seq(STRING) /\ LengthChars \in Nat
  BY DEF Web!Init, Web!WebAssumption
<1>2. Len(request.text) \in Nat /\ Len(contentLength) = 0 /\ contentLength \in Seq(STRING)
  BY <1>1 DEF Web!Init
<1>3. Web!TypeOK
  <2>1. {webOpen, timedOut, isGETreq, currentLineIsBlank, currentLineIsContentLength}
          \subseteq BOOLEAN
    BY DEF Web!Init
  <2>2. /\ request \in Requests /\ webSent \in 0 .. Len(request.text)
        /\ counter \in 0 .. 2 /\ Len(contentLength) <= LengthChars /\ fullRequestSize \in Nat
    BY <1>1, <1>2 DEF Web!Init
  <2> QED BY <2>1, <2>2 DEF Web!Init, Web!TypeOK, Web!Pattern
<1>4. FileIsRead /\ Parsed /\ Answered /\ file \in Seq(STRING)
  BY DEF Web!Init, FileIsRead, Parsed, Answered
<1> QED BY <1>2, <1>3, <1>4 DEF WebInv

(* The server takes a character, and answers if it takes it for the last.  *)
LEMMA ReadKeeps ==
  ASSUME Web!WebAssumption, WebInv, Web!ReadChar PROVE WebInv'
<1> DEFINE t == request.text
<1> SUFFICES ASSUME NEW n, n = Len(file), NEW c, c = t[n + 1] PROVE WebInv'
  OBVIOUS
<1>1. /\ request \in Requests /\ t \in Seq(STRING) /\ file \in Seq(STRING)
      /\ webSent \in 0 .. Len(t)
      /\ Len(t) \in Nat /\ n \in Nat /\ webOpen \in BOOLEAN /\ timedOut \in BOOLEAN
  BY DEF WebInv, Web!TypeOK, Web!WebAssumption
<1>2. webPc = "reading" /\ Web!NumRead = n /\ n < webSent
  BY DEF Web!ReadChar, Web!NumRead
<1>3. /\ file' = Append(file, c)
      /\ UNCHANGED <<request, webSent, timedOut>>
      /\ IF ~Web!AnswerNow(c, n + 1) THEN UNCHANGED <<webPc, answer, webOpen>>
         ELSE IF "CR" \notin Web!ToSet(file')
           THEN webPc' = "stuck" /\ UNCHANGED <<answer, webOpen>>
           ELSE /\ answer' = Web!Answer(Web!RequestedFile(file', isGETreq'))
                /\ webPc' = "idle" /\ webOpen' = FALSE
  BY <1>2 DEF Web!ReadChar
<1>4. /\ answer = "none"
      /\ \A i \in 1 .. n : file[i] = t[i]
  BY <1>2 DEF WebInv, Parsed, FileIsRead
<1>5. c \in STRING /\ n + 1 <= Len(t)
  BY <1>1, <1>2
<1>6. /\ file' \in Seq(STRING) /\ Len(file') = n + 1 /\ file' # <<>>
      /\ \A i \in 1 .. n + 1 : file'[i] = t[i]
  BY <1>1, <1>3, <1>4, <1>5
<1>7. /\ isGETreq' \in BOOLEAN /\ (isGETreq' <=> request.method = "GET")
      /\ currentLineIsBlank' \in BOOLEAN
      /\ currentLineIsBlank' <=> Web!Blank(request.text, n + 1)
      /\ currentLineIsContentLength' \in BOOLEAN /\ counter' \in 0 .. 2
      /\ contentLength' \in Seq(STRING) /\ Len(contentLength') <= LengthChars
      /\ fullRequestSize' \in Nat
      /\ \/ /\ Web!RequestIsComplete(c, n + 1)
            /\ request.length # "found" => n + 1 = Len(request.text)
         \/ /\ ~Web!RequestIsComplete(c, n + 1)
            /\ LengthSought(n + 1)'
  BY LocalsKeep
<1>8. Web!IsPrefix(file', t')
  BY <1>1, <1>3, <1>5, <1>6, PrefixIsRead
<1> HIDE DEF t
<1>9. FileIsRead'
  BY <1>1, <1>2, <1>3, <1>6 DEF FileIsRead, t
<1>10. CASE ~Web!AnswerNow(c, n + 1)
  <2>1. webPc' = "reading" /\ answer' = "none" /\ webOpen' = webOpen
    BY <1>2, <1>3, <1>4, <1>10
  <2>2. LengthSought(Len(file))'
    BY <1>6, <1>7, <1>10 DEF Web!AnswerNow
  <2>3. Parsed'
    BY <2>1, <2>2, <1>3, <1>6, <1>7 DEF Parsed
  <2>4. Web!TypeOK'
    BY <2>1, <1>1, <1>3, <1>7, <1>8 DEF Web!TypeOK, Web!Pattern, t
  <2> QED BY <2>1, <2>3, <2>4, <1>6, <1>7, <1>9 DEF WebInv, Answered
<1>11. CASE Web!AnswerNow(c, n + 1) /\ "CR" \notin Web!ToSet(file')
  <2>1. webPc' = "stuck" /\ answer' = "none" /\ webOpen' = webOpen
    BY <1>3, <1>4, <1>11
  <2>2. Parsed'
    BY <2>1 DEF Parsed
  <2>3. Web!TypeOK'
    BY <2>1, <1>1, <1>3, <1>7, <1>8 DEF Web!TypeOK, Web!Pattern, t
  <2> QED BY <2>1, <2>2, <2>3, <1>6, <1>7, <1>9 DEF WebInv, Answered
<1>12. CASE Web!AnswerNow(c, n + 1) /\ "CR" \in Web!ToSet(file')
  <2>1. /\ answer' = Web!Answer(Web!RequestedFile(file', isGETreq'))
        /\ webPc' = "idle" /\ webOpen' = FALSE
    BY <1>3, <1>12
  <2>2. Web!RequestedFile(file', isGETreq') = request.name
    BY <1>1, <1>5, <1>6, <1>7, <1>12, NameIsFound DEF t
  <2>3. answer' \in {"index", "inputs", "script", "file"}
    BY <2>1, AnswerType
  <2>4. ASSUME ~timedOut', request'.length # "found" PROVE file' = t
    <3>1. n + 1 = Len(t)
      BY <2>4, <1>3, <1>7, <1>12 DEF Web!AnswerNow, t
    <3> DEFINE f == file'
    <3>2. /\ f \in Seq(STRING) /\ t \in Seq(STRING) /\ Len(f) = Len(t)
          /\ \A i \in 1 .. Len(f) : f[i] = t[i]
      BY <3>1, <1>1, <1>6
    <3> HIDE DEF f
    <3>3. f = t
      BY ONLY <3>2, SeqEqual
    <3> QED BY <3>3 DEF f
  <2>5. Answered'
    BY <2>1, <2>2, <2>4, <1>3 DEF Answered, t
  <2>6. Parsed'
    BY <2>1 DEF Parsed
  <2>7. Web!TypeOK'
    BY <2>1, <2>3, <1>1, <1>3, <1>7 DEF Web!TypeOK, Web!Pattern, t
  <2> QED BY <2>5, <2>6, <2>7, <1>6, <1>7, <1>9 DEF WebInv
<1> QED BY <1>10, <1>11, <1>12

(* Steps that read nothing and say nothing to the client.                  *)
LEMMA NothingReadKeeps ==
  ASSUME WebInv, UNCHANGED <<request, file, Web!parseVars, answer>>,
         webPc' \in {webPc, "idle"}, webSent' \in webSent .. Len(request.text),
         webOpen' \in BOOLEAN, timedOut' \in BOOLEAN,
         answer = "none" \/ timedOut' = timedOut, Web!WebAssumption
  PROVE  WebInv'
<1>1. /\ UNCHANGED <<isGETreq, currentLineIsBlank, currentLineIsContentLength,
                     counter, contentLength, fullRequestSize>>
      /\ UNCHANGED <<request, file, answer>>
  BY DEF Web!parseVars
<1>2. Len(file) \in Nat /\ Len(request.text) \in Nat /\ webSent \in 0 .. Len(request.text)
  BY DEF WebInv, Web!TypeOK, Web!WebAssumption
<1>3. webSent' \in 0 .. Len(request.text) /\ webSent <= webSent'
  BY <1>2
<1>4. Web!TypeOK'
  BY <1>1, <1>3 DEF WebInv, Web!TypeOK
<1>5. FileIsRead'
  BY <1>1, <1>2, <1>3 DEF WebInv, FileIsRead
<1>6. ASSUME NEW n PROVE LengthSought(n)' <=> LengthSought(n)
  BY <1>1 DEF LengthSought, Searched, NoLengthYet
<1>7. Parsed'
  <2>1. ASSUME NEW n, n = Len(file), webPc = "reading" PROVE LengthSought(n)'
    BY <1>6, <2>1 DEF WebInv, Parsed
  <2>2. webPc' = "reading" => LengthSought(Len(file))'
    BY <1>1, <2>1
  <2> QED BY <1>1, <2>2 DEF WebInv, Parsed
<1>8. Answered'
  BY <1>1 DEF WebInv, Answered
<1> QED BY <1>1, <1>4, <1>5, <1>7, <1>8 DEF WebInv

(* Every step keeps the invariant; the first character of a request finds  *)
(* the locals as the search needs them.                                    *)
LEMMA WebStep ==
  ASSUME Web!WebAssumption, WebInv, [Web!Next]_(Web!webVars) PROVE WebInv'
<1> USE DEF WebInv, Web!TypeOK, Web!Pattern
<1>1. /\ \A r \in Requests : r.text \in Seq(STRING) /\ Len(r.text) \in Nat
      /\ LengthChars \in Nat
  BY DEF Web!WebAssumption
<1>2. webSent \in webSent .. Len(request.text)
  BY <1>1
<1>3. CASE Web!ClientSends
  BY <1>1, <1>3, NothingReadKeeps DEF Web!ClientSends
<1>4. CASE \/ Web!ClientCloses \/ Web!LoopEnds \/ Web!TimePasses
           \/ UNCHANGED Web!webVars
  BY <1>2, <1>4, NothingReadKeeps DEF Web!ClientCloses, Web!LoopEnds, Web!TimePasses,
     Web!webVars, Web!clientVars, Parsed
<1>5. CASE Web!NextClient
  <2>1. /\ webPc' = "idle" /\ request' \in Requests /\ webSent' = 0 /\ webOpen' = TRUE
        /\ answer' = "none" /\ file' = file /\ timedOut' = FALSE
        /\ isGETreq' = FALSE /\ currentLineIsBlank' = TRUE
        /\ currentLineIsContentLength' = FALSE
        /\ counter' = 0 /\ contentLength' = <<>> /\ fullRequestSize' = 0
    BY <1>5 DEF Web!NextClient, Web!FreshLocals
  <2>2. FileIsRead' /\ Parsed' /\ Answered'
    BY <2>1 DEF FileIsRead, Parsed, Answered
  <2>3. /\ Len(request'.text) \in Nat /\ Len(contentLength') = 0
        /\ contentLength' \in Seq(STRING)
    BY <1>1, <2>1
  <2>4. {webOpen', timedOut', isGETreq', currentLineIsBlank', currentLineIsContentLength'}
          \subseteq BOOLEAN
    BY <2>1
  <2>5. /\ webSent' \in 0 .. Len(request'.text) /\ counter' \in 0 .. 2
        /\ Len(contentLength') <= LengthChars /\ fullRequestSize' \in Nat
    BY <1>1, <2>1, <2>3
  <2> QED BY <2>1, <2>2, <2>3, <2>4, <2>5
<1>6. CASE Web!Accept
  <2> DEFINE t == request.text
  <2>1. /\ webPc' = "reading" /\ file' = <<>> /\ webSent > 0 /\ webSent \in 0 .. Len(t)
        /\ UNCHANGED <<request, webSent, webOpen, answer>> /\ answer = "none"
        /\ isGETreq' = FALSE /\ currentLineIsBlank' = TRUE
        /\ counter' = 0 /\ NoLengthYet' /\ timedOut' = FALSE
    BY <1>6 DEF Web!Accept, Web!NewFile, Web!FreshLocals, Web!clientVars, NoLengthYet
  <2>2. request \in Requests /\ t \in Seq(STRING) /\ Len(t) > 0
    BY <1>1, <2>1
  <2>3. Web!WellFormed(request)
    BY <2>2 DEF Web!WebAssumption
  <2>4. LengthSought(0)'
    <3>1. request.method = "POST" /\ request.length # "none" =>
            \E a, b, e \in 1 .. Len(t) : Web!TellsLength(request, a, b, e)
      BY <2>3 DEF Web!WellFormed
    <3>2. ASSUME NEW a \in 1 .. Len(t), NEW b \in 1 .. Len(t), NEW e \in 1 .. Len(t),
                 Web!TellsLength(request, a, b, e)
          PROVE  Searched(0, a, b, e)'
      <4>1. a > 0 /\ b > 0 /\ e > 0
        OBVIOUS
      <4> QED BY <2>1, <4>1 DEF Searched
    <3> QED BY <2>1, <2>2, <3>1, <3>2 DEF LengthSought
  <2>5. Web!Blank(t, 0)
    BY DEF Web!Blank
  <2>6. Len(file') = 0
    BY <2>1
  <2>7. Parsed' /\ FileIsRead' /\ Answered'
    BY <2>1, <2>4, <2>5, <2>6 DEF Parsed, FileIsRead, Answered
  <2>8. Web!IsPrefix(file', t')
    <3>1. ASSUME NEW f, f = <<>> PROVE Web!IsPrefix(f, t)
      <4>1. /\ f \in Seq(STRING) /\ t \in Seq(STRING) /\ Len(f) <= Len(t)
            /\ \A i \in 1 .. Len(f) : f[i] = t[i]
        BY <3>1, <2>2
      <4> HIDE DEF t
      <4> QED BY ONLY <4>1, PrefixIsRead
    <3> QED BY <2>1, <3>1
  <2>9. /\ Len(contentLength') = 0 /\ contentLength' \in Seq(STRING)
        /\ file' \in Seq(STRING)
    BY <2>1 DEF NoLengthYet
  <2>10. {webOpen', timedOut', isGETreq', currentLineIsBlank', currentLineIsContentLength'}
           \subseteq BOOLEAN
    <3>1. webOpen \in BOOLEAN
      OBVIOUS
    <3>2. webOpen' \in BOOLEAN
      BY <2>1, <3>1
    <3>3. /\ timedOut' = FALSE /\ isGETreq' = FALSE /\ currentLineIsBlank' = TRUE
          /\ currentLineIsContentLength' = FALSE
      BY <1>6 DEF Web!Accept, Web!FreshLocals
    <3> HIDE DEF WebInv, Web!TypeOK
    <3> QED BY <3>2, <3>3
  <2>11. counter' \in 0 .. 2 /\ Len(contentLength') <= LengthChars /\ fullRequestSize' \in Nat
    BY <1>1, <2>1, <2>9 DEF NoLengthYet
  <2> QED BY <2>1, <2>2, <2>7, <2>8, <2>9, <2>10, <2>11
<1>7. CASE Web!ReadChar
  BY <1>7, ReadKeeps
<1> HIDE DEF WebInv, Web!TypeOK, Web!Pattern
<1> QED BY <1>3, <1>4, <1>5, <1>6, <1>7 DEF Web!Next

(* For any requests that are what they have to be, and any length that is  *)
(* kept: whatever the client sends when, wherever the timeout cuts in and  *)
(* whatever is still on the card, the answer is for the name in the        *)
(* request; in time it comes with the last character of the request, and   *)
(* no request that has been read to its end waits.                         *)
THEOREM RequestsAreAnswered ==
  Web!WebAssumption => (Web!Spec => []RequestsAnswered)
<1> SUFFICES ASSUME Web!WebAssumption PROVE Web!Spec => []RequestsAnswered
  OBVIOUS
<1>1. Web!Init => WebInv
  BY WebInit
<1>2. WebInv /\ [Web!Next]_(Web!webVars) => WebInv'
  BY WebStep
<1>3. WebInv => RequestsAnswered
  <2> SUFFICES ASSUME WebInv PROVE RequestsAnswered
    OBVIOUS
  <2>1. Web!TypeOK /\ Web!AnsweredWhenWhole /\ Web!GetsWhatItAsked
    BY DEF WebInv, Answered, Web!AnsweredWhenWhole, Web!GetsWhatItAsked
  <2>2. Web!WholeIsAnswered
    <3> DEFINE n == Len(file)
               t == request.text
    <3>1. SUFFICES ASSUME webPc = "reading",
                          request.method = "GET" \/ request.length # "none"
                   PROVE  file # t
      BY DEF Web!WholeIsAnswered
    <3>2. /\ request.method \in {"GET", "POST"} /\ Len(t) \in Nat
          /\ n \in Nat /\ LengthSought(n)
      BY <3>1 DEF WebInv, Web!TypeOK, Web!WebAssumption, Parsed
    <3>3. CASE request.method = "GET"
      BY <3>2, <3>3 DEF LengthSought
    <3>4. CASE request.method = "POST"
      <4>1. PICK a, b, e \in 1 .. Len(t) : /\ Web!TellsLength(request, a, b, e)
                                           /\ Searched(n, a, b, e)
        BY <3>1, <3>2, <3>4 DEF LengthSought
      <4>2. CASE n < e
        BY <3>2, <4>1, <4>2
      <4>3. CASE e <= n
        <5>1. n <= fullRequestSize /\ fullRequestSize + 1 = Web!WholeSize(t, b, e)
          BY <4>1, <4>3 DEF Searched
        <5>2. Web!WholeSize(t, b, e) <= Len(t) /\ fullRequestSize \in Nat
          BY <4>1 DEF Web!TellsLength, WebInv, Web!TypeOK
        <5> QED BY <3>2, <5>1, <5>2
      <4> QED BY <3>2, <4>2, <4>3
    <3> QED BY <3>2, <3>3, <3>4
  <2> QED BY <2>1, <2>2 DEF RequestsAnswered, Web!RequestsAnswered
<1> QED BY <1>1, <1>2, <1>3, PTL DEF Web!Spec

=============================================================================
