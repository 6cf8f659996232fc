----------------------------- MODULE SendBuffer -----------------------------
(***************************************************************************)
(* The transmit buffer of one socket: a ring in the network chip that the  *)
(* library writes through pointers of sixteen bits                         *)
(* (Ethernet/arch/sam/utility/socket.cpp send, bufferData, sendUDP;        *)
(* w5100.cpp send_data_processing_offset; EthernetUDP and EthernetClient). *)
(*                                                                         *)
(* The chip takes over a written pointer with the command SEND and reads   *)
(* back the old one until then, which is why EthernetUDP counts the bytes  *)
(* of a datagram itself.  On a connection it keeps what it has sent until  *)
(* the other side acknowledges it, as it may have to send it again.        *)
(***************************************************************************)
EXTENDS Integers, Sequences

CONSTANTS
  SSize,       (* SSIZE: 2048 in the code                                    *)
  PtrRange,    (* 2^16                                                       *)
  Bytes,
  MaxWrite,    (* longest write of the sketch                                *)
  MaxDatagram  (* longest datagram the sketch puts together                  *)

(* What the constants have to be; MCSizeRegister assumes it of its values.*)
SendAssumption ==
  /\ SSize \in Nat \ {0} /\ PtrRange \in Nat /\ PtrRange % SSize = 0 /\ PtrRange > SSize
  /\ MaxWrite \in Nat /\ MaxDatagram \in 0 .. SSize

VARIABLES
  mode,      (* the socket is used for a connection or for datagrams         *)
  open,      (* SnSR: the connection is still there                          *)
  ring,      (* the memory of the chip                                       *)
  txWR,      (* the write pointer the chip has taken over                    *)
  txNew,     (* the write pointer written last                               *)
  txRD,      (* the chip's read pointer: all before it is acknowledged       *)
  offset,    (* _offset                                                      *)
  building,  (* beginPacket was called                                       *)
  packet,    (* history: what the sketch wrote into this datagram            *)
  unacked,   (* history: what was sent and not yet acknowledged              *)
  onWire     (* history: the datagram sent last, as written and as sent      *)

sendVars == <<mode, open, ring, txWR, txNew, txRD, offset, building, packet,
              unacked, onWire>>

-----------------------------------------------------------------------------
Cells == 0 .. SSize - 1
Ptrs  == 0 .. PtrRange - 1
Data  == UNION { [1 .. n -> Bytes] : n \in 1 .. MaxWrite }

(* getTXFreeSize: what the chip has taken over and not let go is in use.   *)
Free == SSize - ((txWR - txRD) % PtrRange)

Smaller(m, n) == IF m < n THEN m ELSE n

(* The bytes between two pointers.                                         *)
Between(mem, from, n) == [i \in 1 .. n |-> mem[(from + i - 1) % SSize]]

Init ==
  /\ mode \in {"tcp", "udp"} /\ open = TRUE
  /\ ring \in [Cells -> Bytes]
  /\ txWR \in Ptrs /\ txNew = txWR /\ txRD = txWR
  /\ offset = 0 /\ building = FALSE /\ packet = <<>> /\ unacked = <<>>
  /\ onWire = [written |-> <<>>, sent |-> <<>>]

-----------------------------------------------------------------------------
(* The definitions with a suffix are faulty variants of the operation they *)
(* precede.                                                                *)

(* How much is written before the end of the ring; the rest goes to its    *)
(* front.                                                                  *)
FirstPart(start, n) == IF start + n > SSize THEN SSize - start ELSE n

(* send_data_processing_offset.                                            *)
Process(off, data, n) ==
  LET ptr   == (txWR + off) % PtrRange
      start == ptr % SSize
      size  == FirstPart(start, n)
  IN /\ ring' = [c \in Cells |->
                   IF c >= start /\ c < start + size THEN data[c - start + 1]
                   ELSE IF size < n /\ c < n - size THEN data[size + c + 1]
                   ELSE ring[c]]
     /\ txNew' = (ptr + n) % PtrRange

-----------------------------------------------------------------------------
(* A connection: send() waits until there is room, or gives up when the    *)
(* connection is gone.                                                     *)

(* Writes as soon as there is any room.                                    *)
Room_Any(n) == Free > 0

Room(n) == Free >= n

Send(data) ==
  LET n == Smaller(Len(data), SSize)
  IN /\ mode = "tcp" /\ open /\ Room(n)
     /\ Process(0, data, n)
     /\ txWR' = txNew'
     /\ unacked' = unacked \o SubSeq(data, 1, n)
     /\ UNCHANGED <<mode, open, txRD, offset, building, packet, onWire>>

(* The other side acknowledges some of it.                                 *)
Acknowledge ==
  /\ mode = "tcp" /\ open
  /\ \E n \in 1 .. Len(unacked) :
       /\ txRD' = (txRD + n) % PtrRange
       /\ unacked' = SubSeq(unacked, n + 1, Len(unacked))
  /\ UNCHANGED <<mode, open, ring, txWR, txNew, offset, building, packet, onWire>>

(* The connection ends, and the socket is opened for another, which takes  *)
(* the pointers as they are.                                               *)
Reopen ==
  /\ mode = "tcp"
  /\ open' = ~open
  /\ txRD' = txWR /\ txNew' = txWR /\ unacked' = <<>>
  /\ UNCHANGED <<mode, ring, txWR, offset, building, packet, onWire>>

-----------------------------------------------------------------------------
(* Datagrams: beginPacket, as many writes as the sketch likes, endPacket.  *)

BeginPacket ==
  /\ mode = "udp"
  /\ offset' = 0
  /\ building' = TRUE /\ packet' = <<>>
  /\ UNCHANGED <<mode, open, ring, txWR, txNew, txRD, unacked, onWire>>

(* bufferData cuts a write to the free size of the chip, in which the      *)
(* datagram begun is not counted: the sketch has to keep it short enough.  *)
WritePacket(data) ==
  LET n == Smaller(Len(data), Free)
  IN /\ building /\ offset + Len(data) <= MaxDatagram
     /\ Process(offset, data, n)
     /\ offset' = offset + n
     /\ packet' = packet \o SubSeq(data, 1, n)
     /\ UNCHANGED <<mode, open, txWR, txRD, building, unacked, onWire>>

(* Sent, or given up when the address is not answered for: the chip has    *)
(* let go of the bytes either way.  No caller ends an empty datagram.      *)
EndPacket ==
  /\ building /\ packet # <<>>
  /\ txWR' = txNew /\ txRD' = txNew
  /\ onWire' = [written |-> packet,
                sent |-> Between(ring, txWR, (txNew - txWR) % PtrRange)]
  /\ building' = FALSE
  /\ UNCHANGED <<mode, open, ring, txNew, offset, packet, unacked>>

(* sendto: a datagram in one piece, cut to the ring.  The two ways to send *)
(* are not mixed within a datagram.                                        *)
SendTo(data) ==
  LET n == Smaller(Len(data), SSize)
  IN /\ mode = "udp" /\ ~building
     /\ Process(0, data, n)
     /\ txWR' = txNew' /\ txRD' = txNew'
     /\ onWire' = [written |-> SubSeq(data, 1, n), sent |-> Between(ring', txWR, n)]
     /\ UNCHANGED <<mode, open, offset, building, packet, unacked>>

Next ==
  \/ \E data \in Data : Send(data) \/ SendTo(data) \/ WritePacket(data)
  \/ Acknowledge \/ Reopen \/ BeginPacket \/ EndPacket

Spec == Init /\ [][Next]_sendVars

-----------------------------------------------------------------------------
TypeOK ==
  /\ mode \in {"tcp", "udp"} /\ {open, building} \subseteq BOOLEAN
  /\ ring \in [Cells -> Bytes]
  /\ {txWR, txNew, txRD} \subseteq Ptrs
  /\ offset \in 0 .. MaxDatagram
  /\ packet \in Seq(Bytes) /\ unacked \in Seq(Bytes)

(* What was sent on a connection and is not yet acknowledged is still in   *)
(* the ring, in its order, for the chip to send again: a later send, which *)
(* may wrap around the end of the ring and of the pointers, writes over    *)
(* none of it.                                                             *)
UnackedIntact ==
  /\ Len(unacked) = (txWR - txRD) % PtrRange
  /\ unacked = Between(ring, txRD, Len(unacked))

(* A datagram goes out as the sketch wrote it, in as many pieces as it     *)
(* liked, wherever in the ring it began and however the one before ended.  *)
DatagramAsWritten == onWire.sent = onWire.written

(* All of it.                                                              *)
SentAsWritten == TypeOK /\ UnackedIntact /\ DatagramAsWritten

=============================================================================
