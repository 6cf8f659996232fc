----------------------------- MODULE UdpReceive -----------------------------
(***************************************************************************)
(* Datagrams as EthernetUDP takes them out of the receive buffer of a      *)
(* socket (Ethernet/src/EthernetUdp.cpp parsePacket, read, flush;          *)
(* arch/sam/utility/socket.cpp recv, recvfrom; w5100.cpp                   *)
(* recv_data_processing, read_data).                                       *)
(*                                                                         *)
(* The chip puts every datagram into the ring behind a header with the     *)
(* sender and the length.  The library reads the header as if it were part *)
(* of a stream and counts the bytes that follow: if the count is ever      *)
(* wrong, data are taken for a header from then on.                        *)
(***************************************************************************)
EXTENDS Integers, Sequences

CONSTANTS
  RSize,     (* RSIZE: 2048 in the code                                      *)
  PtrRange,  (* 2^16                                                         *)
  Bytes,
  Senders,
  MaxLen     (* longest datagram                                             *)

(* What the constants have to be; MCSizeRegister assumes it of its values.*)
ReceiveAssumption ==
  /\ RSize \in Nat \ {0} /\ PtrRange \in Nat /\ PtrRange % RSize = 0 /\ PtrRange > RSize
  /\ MaxLen \in Nat

VARIABLES
  open,       (* the socket is ours                                          *)
  ring,       (* the memory of the chip                                      *)
  rxRD,       (* the read pointer                                            *)
  received,   (* SnRX_RSR: bytes the chip holds for us                       *)
  remaining,  (* _remaining                                                  *)
  remote,     (* _remoteIP, _remotePort                                      *)
  pc,         (* "sketch", or inside flush() or parsePacket()                *)
  waiting,    (* history: the datagrams in the ring, their headers unread    *)
  current,    (* history: the datagram whose header was read last            *)
  given       (* history: what of it the sketch was given                    *)

chipVars == <<open, ring, rxRD, received>>
udpVars  == <<remaining, remote, pc>>
recvVars == <<chipVars, udpVars, waiting, current, given>>

-----------------------------------------------------------------------------
Cells     == 0 .. RSize - 1
Ptrs      == 0 .. PtrRange - 1
Datagrams == [from : Senders, data : UNION { [1 .. n -> Bytes] : n \in 0 .. MaxLen }]
Values    == Senders \cup Bytes \cup (0 .. MaxLen)
None      == [from |-> 0, data |-> <<>>]

HeadLen == 2
Framed(d) == <<d.from, Len(d.data)>> \o d.data

First(s) == IF s = <<>> THEN None ELSE s[1]

Smaller(m, n) == IF m < n THEN m ELSE n

Init ==
  /\ open = TRUE
  /\ ring = [c \in Cells |-> 0] /\ rxRD = 0 /\ received = 0
  /\ remaining = 0 /\ remote = 0 /\ pc = "sketch"
  /\ waiting = <<>> /\ current = None /\ given = <<>>

-----------------------------------------------------------------------------
(* The definitions with a suffix are faulty variants of the operation they *)
(* precede.                                                                *)

(* The chip: a datagram that does not fit is dropped.                      *)
Arrive(d) ==
  LET n == HeadLen + Len(d.data)
  IN /\ open /\ received + n <= RSize
     /\ ring' = [c \in Cells |->
                   LET k == (c - (rxRD + received)) % RSize
                   IN IF k < n THEN Framed(d)[k + 1] ELSE ring[c]]
     /\ received' = received + n
     /\ waiting' = Append(waiting, d)
     /\ UNCHANGED <<open, rxRD, udpVars, current, given>>

(* read_data: up to the end of the ring, then from its front.              *)
ReadData(ptr, n) ==
  LET start == ptr % RSize
      size  == IF start + n > RSize THEN RSize - start ELSE n
  IN [i \in 1 .. n |-> IF i <= size THEN ring[start + i - 1] ELSE ring[i - size - 1]]

(* The pointer moves on and the command RECV gives the room back.          *)
Consume(n) ==
  /\ rxRD' = (rxRD + n) % PtrRange
  /\ received' = received - n
  /\ UNCHANGED <<open, ring>>

-----------------------------------------------------------------------------
(* The loop of flush() reads byte by byte; new datagrams arrive meanwhile. *)
Flush ==
  /\ pc = "sketch" /\ open /\ pc' = "flush"
  /\ UNCHANGED <<chipVars, remaining, remote, waiting, current, given>>

ParsePacket ==
  /\ pc = "sketch" /\ open /\ pc' = "parse"
  /\ UNCHANGED <<chipVars, remaining, remote, waiting, current, given>>

(* If the chip had nothing, the loop would turn for ever.                  *)
FlushByte ==
  /\ pc \in {"flush", "parse"} /\ remaining > 0 /\ received > 0
  /\ Consume(1)
  /\ remaining' = remaining - 1
  /\ given' = given \o ReadData(rxRD, 1)
  /\ UNCHANGED <<remote, pc, waiting, current>>

FlushEnd ==
  /\ pc = "flush" /\ remaining = 0 /\ pc' = "sketch"
  /\ UNCHANGED <<chipVars, remaining, remote, waiting, current, given>>

(* Nothing has arrived.                                                    *)
NoPacket ==
  /\ pc = "parse" /\ remaining = 0 /\ received = 0
  /\ pc' = "sketch"
  /\ UNCHANGED <<chipVars, remaining, remote, waiting, current, given>>

(* Does not throw away what is left of the datagram before.                *)
AtHeader_NoFlush == received > 0

AtHeader == remaining = 0 /\ received > 0

(* The header is read with recv().                                         *)
ReadHeader ==
  LET head == ReadData(rxRD, HeadLen)
  IN /\ pc = "parse" /\ AtHeader
     /\ Consume(Smaller(received, HeadLen))
     /\ remote' = head[1] /\ remaining' = head[2]
     /\ pc' = "sketch"
     /\ current' = First(waiting) /\ waiting' = SubSeq(waiting, 2, Len(waiting)) /\ given' = <<>>

Asked(len) == Smaller(remaining, len)

(* read(buffer, len), and read() with one byte.                            *)
Read(len) ==
  LET got == Smaller(Asked(len), received)
  IN /\ pc = "sketch" /\ open /\ remaining > 0 /\ got > 0
     /\ Consume(got)
     /\ remaining' = remaining - got
     /\ given' = given \o ReadData(rxRD, got)
     /\ UNCHANGED <<remote, pc, waiting, current>>

(* recvfrom() takes header and data at once.                               *)
RecvFrom ==
  LET head == ReadData(rxRD, HeadLen)
  IN /\ pc = "sketch" /\ open /\ remaining = 0 /\ received > 0
     /\ Consume(HeadLen + head[2])
     /\ remote' = head[1]
     /\ current' = First(waiting) /\ waiting' = SubSeq(waiting, 2, Len(waiting))
     /\ given' = ReadData(rxRD + HeadLen, head[2])
     /\ UNCHANGED <<remaining, pc>>

(* The socket is closed with whatever it holds.                            *)
Stop ==
  /\ pc = "sketch" /\ open
  /\ open' = FALSE /\ received' = 0
  /\ waiting' = <<>> /\ current' = None /\ given' = <<>>
  /\ UNCHANGED <<ring, rxRD, udpVars>>

Fresh == remaining' = 0

Begin ==
  /\ ~open /\ open' = TRUE
  /\ Fresh
  /\ UNCHANGED <<ring, rxRD, received, remote, pc, waiting, current, given>>

Library == FlushByte \/ FlushEnd \/ NoPacket \/ ReadHeader

Next ==
  \/ \E d \in Datagrams : Arrive(d)
  \/ \E len \in 1 .. MaxLen : Read(len)
  \/ Flush \/ ParsePacket \/ Library \/ RecvFrom \/ Stop \/ Begin

Spec == Init /\ [][Next]_recvVars

(* A call goes on until it returns.                                        *)
FairSpec == Spec /\ WF_recvVars(Library)

-----------------------------------------------------------------------------
TypeOK ==
  /\ open \in BOOLEAN /\ ring \in [Cells -> Values]
  /\ rxRD \in Ptrs /\ received \in 0 .. RSize
  /\ remaining \in 0 .. MaxLen /\ remote \in Values
  /\ pc \in {"sketch", "flush", "parse"}
  /\ waiting \in Seq(Datagrams) /\ current \in Datagrams \cup {None}

(* What the sketch is given is the datagram whose header parsePacket read, *)
(* from its first byte on, with its sender, and never the header or a byte *)
(* of the next one: however the sketch cuts its reads, wherever the ring   *)
(* wraps and whatever arrives in between.                                  *)
ReadsAreTheDatagram ==
  /\ given = SubSeq(current.data, 1, Len(given))
  /\ current # None => remote = current.from

(* The byte so many places behind the read pointer.                        *)
Ahead(places) == ring[(rxRD + places) % RSize]

(* The datagrams that wait stand where it says, header first and one       *)
(* behind the other: the first behind what is left of the one before it,   *)
(* and behind the last the chip has nothing more.                          *)
InARow(where) ==
  /\ where[1] = remaining /\ where[Len(waiting) + 1] = received
  /\ \A k \in 1 .. Len(waiting) :
       /\ where[k + 1] = where[k] + HeadLen + Len(waiting[k].data)
       /\ \A i \in 1 .. HeadLen + Len(waiting[k].data) :
            Ahead(where[k] + i - 1) = Framed(waiting[k])[i]

(* The count of the library and the chip's agree: behind what is left of   *)
(* this datagram comes a whole header, and behind its data the next one.   *)
HeaderComesNext ==
  open => \E where \in [1 .. Len(waiting) + 1 -> 0 .. RSize] : InARow(where)

(* All of it.                                                              *)
ReceivedAsSent == TypeOK /\ ReadsAreTheDatagram /\ HeaderComesNext

(* flush() and parsePacket() come back: the comment of flush() hopes so,   *)
(* and it holds as long as the count of _remaining is that of the chip.    *)
FlushEnds == (pc # "sketch") ~> (pc = "sketch")

=============================================================================
