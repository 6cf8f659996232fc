-------------------------- MODULE SendBufferProofs --------------------------
(***************************************************************************)
(* The rings of the network chip, for rings and pointers of every size, as *)
(* long as the one is a multiple of the other: what the library writes     *)
(* into the ring of a socket is what goes on the wire, and the datagrams   *)
(* it reads are those that came, each behind its header.                   *)
(***************************************************************************)
EXTENDS NetworkChip, SequenceTheorems, TLAPS

-----------------------------------------------------------------------------
(* Remainders and quotients where the divisor is a parameter.              *)

(* A number is a multiple of n and its remainder.                          *)
LEMMA DivMod ==
  ASSUME NEW a \in Int, NEW n \in Nat \ {0}
  PROVE  a % n \in 0 .. n - 1 /\ \E q \in Int : a = n * q + (a % n)
<1>1. a % n \in 0 .. n - 1
  BY Z3
<1>2. a = n * (a \div n) + (a % n) /\ (a \div n) \in Int
  BY SMT
<1> QED BY <1>1, <1>2

(* and there is only one.                                                  *)
LEMMA ModIs ==
  ASSUME NEW n \in Nat \ {0}, NEW q \in Int, NEW r \in 0 .. n - 1
  PROVE  (n * q + r) % n = r
<1> DEFINE a == n * q + r
           m == a % n
<1>1. a \in Int
  BY SMT
<1> HIDE DEF a
<1>2. PICK p \in Int : a = n * p + m
  BY <1>1, DivMod
<1>3. m \in 0 .. n - 1
  BY <1>1, DivMod
<1> HIDE DEF m
<1>4. n * (q - p) = m - r
  <2>1. n * (q - p) = n * q - n * p
    BY SMT
  <2>2. n * q \in Int /\ n * p \in Int
    BY SMT
  <2> QED BY <1>2, <1>3, <2>1, <2>2, SMT DEF a
<1>5. q - p = 0
  <2> DEFINE d == q - p
             e == m - r
  <2>1. d \in Int /\ e \in Int /\ e < n /\ -n < e /\ n * d = e
    BY <1>3, <1>4
  <2> HIDE DEF d, e
  <2>2. ~(d >= 1)
    BY <2>1, SMT
  <2>3. ~(d <= -1)
    BY <2>1, SMT
  <2> QED BY <2>1, <2>2, <2>3 DEF d
<1> QED BY <1>3, <1>4, <1>5 DEF a, m

(* Multiples of n do not change the remainder.                             *)
LEMMA ModPlus ==
  ASSUME NEW n \in Nat \ {0}, NEW a \in Int, NEW q \in Int
  PROVE  (a + n * q) % n = a % n
<1>1. PICK p \in Int : a = n * p + (a % n)
  BY DivMod
<1>2. a % n \in 0 .. n - 1
  BY DivMod
<1> DEFINE r == a % n
<1> HIDE DEF r
<1>3. r \in 0 .. n - 1 /\ a = n * p + r
  BY <1>1, <1>2 DEF r
<1>4. a + n * q = n * (p + q) + r
  <2>1. n * (p + q) = n * p + n * q /\ n * p \in Int /\ n * q \in Int
    BY SMT
  <2> QED BY <1>3, <2>1
<1>5. (n * (p + q) + r) % n = r
  BY <1>3, ModIs
<1> QED BY <1>4, <1>5 DEF r

(* Going round once does not change it either.                             *)
LEMMA ModOnce ==
  ASSUME NEW n \in Nat \ {0}, NEW a \in Int
  PROVE  (a + n) % n = a % n
<1>1. PICK q \in Int : q = 1
  OBVIOUS
<1>2. (a + n * q) % n = a % n
  BY ModPlus
<1>3. n * q = n
  BY <1>1
<1> QED BY <1>2, <1>3

(* Nor does taking the remainder of a part, by n or by a multiple of it.   *)
LEMMA ModOfMod ==
  ASSUME NEW n \in Nat \ {0}, NEW m \in Nat \ {0}, m % n = 0,
         NEW a \in Int, NEW b \in Int
  PROVE  ((a % m) + b) % n = (a + b) % n
<1> DEFINE r == a % m
<1>1. r \in Int /\ \E p \in Int : a = m * p + r
  <2>1. r \in Int
    BY DivMod
  <2>2. \E p \in Int : a = m * p + (a % m)
    BY DivMod
  <2> QED BY <2>1, <2>2, Zenon
<1>2. \E k \in Int : m = n * k
  <2>1. m \in Int
    OBVIOUS
  <2>2. \E k \in Int : m = n * k + (m % n)
    BY <2>1, DivMod
  <2> QED BY <2>2
<1> HIDE DEF r
<1>3. PICK p \in Int : a = m * p + r
  BY <1>1
<1>4. PICK k \in Int : m = n * k
  BY <1>2
<1>5. PICK c \in Int : a = n * c + r
  <2>1. m * p = n * (k * p) /\ k * p \in Int
    BY <1>4, SMT
  <2> QED BY <1>3, <2>1
<1>6. ((r + b) + n * c) % n = (r + b) % n
  <2>1. r + b \in Int
    BY <1>1
  <2> QED BY <2>1, ModPlus
<1>7. a + b = (r + b) + n * c
  <2> DEFINE d == n * c
  <2>1. d \in Int /\ a = d + r
    BY <1>5
  <2> HIDE DEF d
  <2>2. a + b = (r + b) + d
    BY <1>1, <2>1
  <2> QED BY <2>2 DEF d
<1> QED BY <1>6, <1>7 DEF r

(* What is in range is its own remainder.                                  *)
LEMMA ModOfSmall ==
  ASSUME NEW n \in Nat \ {0}, NEW a \in 0 .. n - 1
  PROVE  a % n = a
BY Z3

(* Around a ring of n cells.                                               *)
LEMMA Around ==
  ASSUME NEW n \in Nat \ {0}, NEW a \in 0 .. n - 1, NEW b \in 0 .. n - 1
  PROVE  (a + b) % n = IF a + b < n THEN a + b ELSE a + b - n
<1>1. CASE a + b < n
  BY <1>1, ModOfSmall
<1>2. CASE ~(a + b < n)
  <2> DEFINE c == a + b - n
  <2>1. c \in 0 .. n - 1 /\ c + n = a + b
    BY <1>2
  <2> HIDE DEF c
  <2>2. (c + n) % n = c % n /\ c % n = c
    <3>1. c \in Int
      BY <2>1
    <3> QED BY <2>1, <3>1, ModOnce, ModOfSmall, Zenon
  <2> QED BY <1>2, <2>1, <2>2 DEF c
<1> QED BY <1>1, <1>2

-----------------------------------------------------------------------------
(* What the ring and the pointers are.                                     *)
LEMMA SendSizes ==
  ASSUME SendAssumption
  PROVE  /\ SSize \in Nat \ {0} /\ PtrRange \in Nat \ {0} /\ SSize < PtrRange
         /\ PtrRange % SSize = 0 /\ PtrRange % PtrRange = 0
         /\ MaxDatagram \in Nat /\ MaxDatagram <= SSize
<1>1. /\ SSize \in Nat \ {0} /\ PtrRange \in Nat \ {0} /\ SSize < PtrRange
      /\ PtrRange % SSize = 0 /\ MaxDatagram \in Nat /\ MaxDatagram <= SSize
  BY DEF SendAssumption
<1>2. (PtrRange * 1 + 0) % PtrRange = 0
  BY <1>1, ModIs
<1>3. PtrRange * 1 + 0 = PtrRange
  BY <1>1
<1> QED BY <1>1, <1>2, <1>3

(* Pointers that wrap name the same cells as pointers that do not.         *)
LEMMA CellOfPtr ==
  ASSUME SendAssumption, NEW a \in Int, NEW b \in Int
  PROVE  /\ ((a % PtrRange) + b) % SSize = (a + b) % SSize
         /\ ((a % SSize) + b) % SSize = (a + b) % SSize
         /\ ((a % PtrRange) + b) % PtrRange = (a + b) % PtrRange
         /\ a % SSize \in Cells /\ a % PtrRange \in Ptrs
         /\ (a + SSize) % SSize = a % SSize
<1>1. ((a % PtrRange) + b) % SSize = (a + b) % SSize
  BY SendSizes, ModOfMod
<1>2. ((a % PtrRange) + b) % PtrRange = (a + b) % PtrRange
  BY SendSizes, ModOfMod
<1>3. ((a % SSize) + b) % SSize = (a + b) % SSize
  <2>1. (SSize * 1 + 0) % SSize = 0 /\ SSize * 1 + 0 = SSize
    BY SendSizes, ModIs
  <2> QED BY <2>1, SendSizes, ModOfMod
<1>4. a % SSize \in Cells /\ a % PtrRange \in Ptrs
  BY SendSizes, DivMod DEF Cells, Ptrs
<1>5. (a + SSize) % SSize = a % SSize
  BY SendSizes, ModOnce
<1> QED BY <1>1, <1>2, <1>3, <1>4, <1>5

(* Process puts n bytes behind the pointer, around the end of the ring if  *)
(* it has to, and leaves every other cell as it is.                        *)
LEMMA Written ==
  ASSUME SendAssumption, TypeOK,
         NEW off \in Nat, NEW data \in Seq(Bytes), NEW n \in 1 .. SSize,
         n <= Len(data), Process(off, data, n)
  PROVE  /\ ring' \in [Cells -> Bytes]
         /\ txNew' = (txWR + off + n) % PtrRange
         /\ \A m \in 0 .. n - 1 : ring'[(txWR + off + m) % SSize] = data[m + 1]
         /\ \A m \in n .. SSize - 1 :
              ring'[(txWR + off + m) % SSize] = ring[(txWR + off + m) % SSize]
<1> DEFINE start == ((txWR + off) % PtrRange) % SSize
           size  == FirstPart(start, n)
<1>1. txWR \in Int /\ txWR + off \in Int /\ SSize \in Nat \ {0} /\ n \in Int
  BY SendSizes DEF TypeOK, Ptrs
<1>2. start = (txWR + off) % SSize /\ start \in Cells
  <2>1. (((txWR + off) % PtrRange) + 0) % SSize = ((txWR + off) + 0) % SSize
    BY <1>1, CellOfPtr
  <2>2. (txWR + off) % PtrRange \in Int
    BY <1>1, CellOfPtr, SendSizes DEF Ptrs
  <2>3. start = (txWR + off) % SSize
    BY <1>1, <2>1, <2>2
  <2> QED BY <1>1, <2>3, CellOfPtr
<1>3. ring' = [c \in Cells |->
                 IF c >= start /\ c < start + size THEN data[c - start + 1]
                 ELSE IF size < n /\ c < n - size THEN data[size + c + 1]
                 ELSE ring[c]]
  BY DEF Process
<1>4. txNew' = (txWR + off + n) % PtrRange
  BY <1>1, CellOfPtr DEF Process
<1>5. ASSUME NEW m \in 0 .. SSize - 1
      PROVE  (txWR + off + m) % SSize
               = IF start + m < SSize THEN start + m ELSE start + m - SSize
  <2> DEFINE a == txWR + off
  <2>1. (start + m) % SSize = (txWR + off + m) % SSize
    <3>1. a \in Int /\ start = a % SSize
      BY <1>1, <1>2
    <3> HIDE DEF a, start
    <3>2. ((a % SSize) + m) % SSize = (a + m) % SSize
      <4>1. m \in Int
        BY <1>1
      <4> QED BY <3>1, <4>1, CellOfPtr, Zenon
    <3> QED BY <3>1, <3>2 DEF a
  <2> HIDE DEF start
  <2>2. (start + m) % SSize = IF start + m < SSize THEN start + m ELSE start + m - SSize
    BY <1>1, <1>2, Around DEF Cells
  <2> QED BY <2>1, <2>2
<1> HIDE DEF start
<1>6. size = IF start + n > SSize THEN SSize - start ELSE n
  BY DEF FirstPart
<1> HIDE DEF size
<1>7. ring' \in [Cells -> Bytes]
  <2> SUFFICES ASSUME NEW c \in Cells
               PROVE  ring'[c] \in Bytes
    BY <1>3
  <2>1. \A i \in 1 .. Len(data) : data[i] \in Bytes
    OBVIOUS
  <2>2. CASE c >= start /\ c < start + size
    <3>1. c - start + 1 \in 1 .. Len(data)
      BY <1>1, <1>2, <1>6, <2>2 DEF Cells
    <3> QED BY <1>3, <2>1, <2>2, <3>1
  <2>3. CASE ~(c >= start /\ c < start + size) /\ size < n /\ c < n - size
    <3>1. size + c + 1 \in 1 .. Len(data)
      BY <1>1, <1>2, <1>6, <2>3 DEF Cells
    <3> QED BY <1>3, <2>1, <2>3, <3>1
  <2>4. CASE ~(c >= start /\ c < start + size) /\ ~(size < n /\ c < n - size)
    BY <1>3, <2>4 DEF TypeOK
  <2> QED BY <2>2, <2>3, <2>4
<1>8. ASSUME NEW m \in 0 .. n - 1
      PROVE  ring'[(txWR + off + m) % SSize] = data[m + 1]
  <2> DEFINE c == (txWR + off + m) % SSize
  <2>1. /\ m \in 0 .. SSize - 1
        /\ c = IF start + m < SSize THEN start + m ELSE start + m - SSize
    BY <1>1, <1>5
  <2> HIDE DEF c
  <2>2. c \in Cells
    BY <1>1, <1>2, <2>1 DEF Cells
  <2>3. CASE start + m < SSize
    <3>1. c >= start /\ c < start + size /\ c - start + 1 = m + 1
      BY <1>1, <1>2, <1>6, <2>1, <2>3 DEF Cells
    <3> QED BY <1>3, <2>2, <3>1 DEF c
  <2>4. CASE ~(start + m < SSize)
    <3>1. ~(c >= start) /\ size < n /\ c < n - size /\ size + c + 1 = m + 1
      BY <1>1, <1>2, <1>6, <2>1, <2>4 DEF Cells
    <3> QED BY <1>3, <2>2, <3>1 DEF c
  <2> QED BY <2>3, <2>4
<1>9. ASSUME NEW m \in n .. SSize - 1
      PROVE  ring'[(txWR + off + m) % SSize] = ring[(txWR + off + m) % SSize]
  <2> DEFINE c == (txWR + off + m) % SSize
  <2>1. /\ m \in 0 .. SSize - 1
        /\ c = IF start + m < SSize THEN start + m ELSE start + m - SSize
    BY <1>1, <1>5
  <2> HIDE DEF c
  <2>2. c \in Cells
    BY <1>1, <1>2, <2>1 DEF Cells
  <2>3. ~(c >= start /\ c < start + size) /\ ~(size < n /\ c < n - size)
    BY <1>1, <1>2, <1>6, <2>1 DEF Cells
  <2> QED BY <1>3, <2>2, <2>3 DEF c
<1> QED BY <1>4, <1>7, <1>8, <1>9

-----------------------------------------------------------------------------
(* A sequence is what the ring holds from a pointer on, when it is so byte *)
(* by byte.                                                                *)
LEMMA HeldInRing ==
  ASSUME NEW s \in Seq(Bytes), NEW mem, NEW from
  PROVE  s = Between(mem, from, Len(s))
           <=> \A i \in 1 .. Len(s) : s[i] = mem[(from + i - 1) % SSize]
<1> s = [i \in 1 .. Len(s) |-> s[i]]
  OBVIOUS
<1> QED BY DEF Between

(* One sequence behind another.                                            *)
LEMMA Joined ==
  ASSUME NEW s \in Seq(Bytes), NEW t \in Seq(Bytes)
  PROVE  /\ s \o t \in Seq(Bytes) /\ Len(s \o t) = Len(s) + Len(t)
         /\ \A i \in 1 .. Len(s) : (s \o t)[i] = s[i]
         /\ \A i \in Len(s) + 1 .. Len(s) + Len(t) : (s \o t)[i] = t[i - Len(s)]
  OBVIOUS

(* The bytes on their way and those of the datagram begun are in the ring. *)
PacketInRing ==
  building =>
    /\ offset = Len(packet)
    /\ packet = Between(ring, txWR, offset)
    /\ packet # <<>> => txNew = (txWR + offset) % PtrRange

(* The invariant: nothing that is sent again is overwritten because what   *)
(* is unacknowledged never goes around the ring, and for datagrams nothing *)
(* is unacknowledged at all, which leaves the whole ring to the one begun. *)
SendInv ==
  /\ TypeOK /\ UnackedIntact /\ PacketInRing /\ DatagramAsWritten
  /\ Len(unacked) <= SSize
  /\ mode = "udp" => txRD = txWR /\ unacked = <<>>
  /\ mode = "tcp" => ~building

(* At the start nothing is on its way and no datagram is begun.            *)
LEMMA SendInit == SendAssumption /\ Init => SendInv
<1> SUFFICES ASSUME SendAssumption, Init PROVE SendInv
  OBVIOUS
<1>1. TypeOK
  <2>1. {open, building} \subseteq BOOLEAN
    BY Zenon DEF Init
  <2>2. offset \in 0 .. MaxDatagram
    BY SendSizes DEF Init
  <2>3. packet \in Seq(Bytes) /\ unacked \in Seq(Bytes)
    BY DEF Init
  <2>4. mode \in {"tcp", "udp"} /\ ring \in [Cells -> Bytes] /\ {txWR, txNew, txRD} \subseteq Ptrs
    BY Zenon DEF Init
  <2> QED BY <2>1, <2>2, <2>3, <2>4, Zenon DEF TypeOK
<1>2. (txWR - txRD) % PtrRange = 0
  <2>1. txWR - txRD = 0
    BY DEF Init, Ptrs
  <2>2. 0 \in 0 .. PtrRange - 1
    BY SendSizes
  <2> QED BY <2>1, <2>2, SendSizes, ModOfSmall, Zenon
<1>3. <<>> = Between(ring, txRD, 0)
  BY DEF Between
<1> QED BY <1>1, <1>2, <1>3, SendSizes
  DEF Init, SendInv, UnackedIntact, PacketInRing, DatagramAsWritten

(* What a write of the sketch is.                                          *)
LEMMA DataType ==
  ASSUME SendAssumption, NEW data \in Data
  PROVE  data \in Seq(Bytes) /\ Len(data) \in Nat \ {0}
<1>1. PICK n \in 1 .. MaxWrite : data \in [1 .. n -> Bytes]
  BY DEF Data
<1>2. n \in Nat \ {0}
  BY DEF SendAssumption
<1> QED BY <1>1, <1>2

(* A send on a connection goes behind what is not acknowledged, and as it  *)
(* waited for the room, not so far around that it meets its beginning.     *)
LEMMA SendKeeps ==
  ASSUME SendAssumption, SendInv, NEW data \in Data, Send(data)
  PROVE  SendInv'
<1> USE DEF SendInv
<1> DEFINE n == Smaller(Len(data), SSize)
           k == Len(unacked)
           more == SubSeq(data, 1, n)
<1>1. /\ mode = "tcp" /\ Room(n) /\ Process(0, data, n) /\ txWR' = txNew'
      /\ unacked' = unacked \o more
      /\ UNCHANGED <<mode, open, txRD, offset, building, packet, onWire>>
  BY DEF Send
<1>2. data \in Seq(Bytes) /\ n \in 1 .. SSize /\ n <= Len(data) /\ n \in Int
  BY DataType, SendSizes DEF Smaller
<1>3. /\ txWR \in Int /\ txRD \in Int /\ txWR \in Ptrs /\ txRD \in Ptrs
      /\ k \in Nat /\ k = (txWR - txRD) % PtrRange
      /\ \A i \in 1 .. k : unacked[i] = ring[(txRD + i - 1) % SSize]
  BY HeldInRing DEF TypeOK, UnackedIntact, Ptrs
<1>4. k + n <= SSize
  BY <1>1, <1>2, <1>3, SendSizes DEF Room, Free
<1> HIDE DEF n
<1>5. /\ ring' \in [Cells -> Bytes]
      /\ txNew' = (txWR + 0 + n) % PtrRange
      /\ \A m \in 0 .. n - 1 : ring'[(txWR + 0 + m) % SSize] = data[m + 1]
      /\ \A m \in n .. SSize - 1 :
           ring'[(txWR + 0 + m) % SSize] = ring[(txWR + 0 + m) % SSize]
  BY <1>1, <1>2, Written
<1>6. more \in Seq(Bytes) /\ Len(more) = n /\ \A i \in 1 .. n : more[i] = data[i]
  BY <1>2
<1> HIDE DEF more
<1>7. /\ unacked' \in Seq(Bytes) /\ Len(unacked') = k + n
      /\ \A i \in 1 .. k : unacked'[i] = unacked[i]
      /\ \A i \in k + 1 .. k + n : unacked'[i] = more[i - k]
  <2>1. unacked \in Seq(Bytes) /\ n \in Nat
    BY <1>2 DEF TypeOK
  <2>2. unacked' = unacked \o more
    BY <1>1
  <2>3. more \in Seq(Bytes) /\ Len(more) = n
    BY <1>6
  <2>4. /\ unacked \o more \in Seq(Bytes)
        /\ Len(unacked \o more) = Len(unacked) + Len(more)
        /\ \A i \in 1 .. Len(unacked) : (unacked \o more)[i] = unacked[i]
        /\ \A i \in Len(unacked) + 1 .. Len(unacked) + Len(more) :
             (unacked \o more)[i] = more[i - Len(unacked)]
    BY <2>1, <2>3, Joined, Zenon
  <2> QED BY <2>2, <2>3, <2>4, Zenon
<1> HIDE DEF k
<1>8. (txWR' - txRD) % PtrRange = k + n
  <2> DEFINE d == txWR - txRD
  <2>1. ((txWR + n) % PtrRange) + (0 - txRD) = txWR' - txRD
    <3>1. txWR + 0 + n = txWR + n
      BY <1>2, <1>3
    <3>2. (txWR + n) % PtrRange \in Int
      <4> DEFINE e == txWR + n
      <4>1. e \in Int
        BY <1>2, <1>3
      <4> HIDE DEF e
      <4>2. e % PtrRange \in Ptrs
        BY <4>1, CellOfPtr, Zenon
      <4> QED BY <4>2, SendSizes DEF e, Ptrs
    <3> QED BY <1>1, <1>3, <1>5, <3>1, <3>2
  <2>2. (((txWR + n) % PtrRange) + (0 - txRD)) % PtrRange
          = ((txWR + n) + (0 - txRD)) % PtrRange
    <3>1. txWR + n \in Int /\ 0 - txRD \in Int
      BY <1>2, <1>3
    <3> QED BY <3>1, CellOfPtr, Zenon
  <2>3. (txWR + n) + (0 - txRD) = d + n /\ d \in Int
    BY <1>2, <1>3
  <2> HIDE DEF d
  <2>4. ((d % PtrRange) + n) % PtrRange = (d + n) % PtrRange
    BY <1>2, <2>3, CellOfPtr, Zenon
  <2>5. d % PtrRange = k
    BY <1>3 DEF d
  <2>6. (k + n) % PtrRange = k + n
    <3>1. k + n \in 0 .. PtrRange - 1
      BY <1>2, <1>3, <1>4, SendSizes
    <3> QED BY <3>1, SendSizes, ModOfSmall, Zenon
  <2> QED BY <2>1, <2>2, <2>3, <2>4, <2>5, <2>6
<1>9. txWR \in Int /\ txWR + 0 = txWR
  BY <1>3
<1>10. ASSUME NEW i \in 1 .. k + n
       PROVE  unacked'[i] = ring'[(txRD + i - 1) % SSize]
  <2>0. /\ k \in Nat /\ txRD \in Int /\ SSize \in Nat \ {0}
        /\ n \in Int /\ n >= 1 /\ k + n <= SSize
    BY <1>2, <1>3, <1>4, SendSizes
  <2>1. i \in Int /\ i >= 1 /\ i <= k + n
    BY <2>0
  <2>2. ASSUME NEW m \in Int
        PROVE  (txWR + 0 + m) % SSize = (txRD + k + m) % SSize
    <3> DEFINE d == txWR - txRD
               a == txRD + m
    <3>1. d \in Int /\ a \in Int /\ d + a = txWR + 0 + m /\ k + a = txRD + k + m
      BY <1>3, <2>1
    <3> HIDE DEF d, a
    <3>2. ((d % PtrRange) + a) % SSize = (d + a) % SSize
      BY <3>1, CellOfPtr, Zenon
    <3>3. d % PtrRange = k
      BY <1>3 DEF d
    <3> QED BY <3>1, <3>2, <3>3
  <2>3. CASE i <= k
    <3> DEFINE m == SSize - k + i - 1
               c == txRD + i - 1
    <3>1. m \in n .. SSize - 1 /\ m \in Int /\ c \in Int /\ txRD + k + m = c + SSize
      BY <2>0, <2>1, <2>3
    <3> HIDE DEF m, c
    <3>2. (c + SSize) % SSize = c % SSize
      BY <3>1, CellOfPtr, Zenon
    <3>3. (txWR + 0 + m) % SSize = c % SSize
      BY <2>2, <3>1, <3>2, Zenon
    <3>4. ring'[c % SSize] = ring[c % SSize]
      BY <1>5, <3>1, <3>3, Zenon
    <3>5. unacked'[i] = ring[c % SSize]
      <4>1. i \in 1 .. k
        BY <2>1, <2>3
      <4> QED BY <1>3, <1>7, <4>1 DEF c
    <3> QED BY <3>4, <3>5 DEF c
  <2>4. CASE ~(i <= k)
    <3> DEFINE m == i - k - 1
    <3>1. /\ m \in 0 .. n - 1 /\ m \in Int /\ m + 1 = i - k /\ i - k \in 1 .. n
          /\ txRD + k + m = txRD + i - 1
      BY <1>2, <1>3, <2>1, <2>4
    <3> HIDE DEF m
    <3>2. ring'[(txWR + 0 + m) % SSize] = data[i - k]
      BY <1>5, <3>1, Zenon
    <3>3. (txWR + 0 + m) % SSize = (txRD + i - 1) % SSize
      BY <2>2, <3>1, Zenon
    <3>4. unacked'[i] = more[i - k]
      <4>1. i \in k + 1 .. k + n
        BY <2>0, <2>1, <2>4
      <4> QED BY <1>7, <4>1
    <3> QED BY <1>6, <3>1, <3>2, <3>3, <3>4
  <2> QED BY <2>3, <2>4
<1>11. txNew' \in Ptrs
  <2>1. txWR + 0 + n \in Int
    BY <1>2, <1>3
  <2> QED BY <1>5, <2>1, CellOfPtr, Zenon
<1>12. TypeOK'
  BY <1>1, <1>5, <1>7, <1>11 DEF TypeOK
<1>13. UnackedIntact'
  <2>1. unacked' = Between(ring', txRD, Len(unacked'))
    BY <1>7, <1>10, HeldInRing
  <2> QED BY <1>1, <1>7, <1>8, <2>1 DEF UnackedIntact, Between
<1> QED BY <1>1, <1>4, <1>7, <1>12, <1>13 DEF PacketInRing, DatagramAsWritten

(* What is acknowledged leaves the ring at its beginning.                  *)
LEMMA AcknowledgeKeeps ==
  ASSUME SendAssumption, SendInv, Acknowledge PROVE SendInv'
<1>0. TypeOK /\ UnackedIntact /\ PacketInRing /\ DatagramAsWritten
      /\ Len(unacked) <= SSize /\ (mode = "tcp" => ~building)
  BY DEF SendInv
<1> DEFINE k == Len(unacked)
<1>1. PICK n \in 1 .. k :
        /\ txRD' = (txRD + n) % PtrRange
        /\ unacked' = SubSeq(unacked, n + 1, k)
  BY DEF Acknowledge
<1>2. mode = "tcp" /\ UNCHANGED <<mode, open, ring, txWR, txNew, offset, building,
                                  packet, onWire>>
  BY DEF Acknowledge
<1>3. /\ txWR \in Int /\ txRD \in Int /\ unacked \in Seq(Bytes)
      /\ k \in Nat /\ k = (txWR - txRD) % PtrRange
      /\ \A i \in 1 .. k : unacked[i] = ring[(txRD + i - 1) % SSize]
  BY <1>0, HeldInRing DEF TypeOK, UnackedIntact, Ptrs
<1>4. k \in Nat /\ n \in Int /\ n >= 1 /\ n <= k /\ k <= SSize /\ SSize < PtrRange /\ SSize \in Nat
      /\ txWR \in Int /\ txRD \in Int /\ PtrRange \in Nat /\ txRD + n \in Int
  BY <1>0, <1>3, SendSizes
<1>5. /\ unacked' \in Seq(Bytes) /\ Len(unacked') = k - n
      /\ \A i \in 1 .. k - n : unacked'[i] = unacked[n + i]
  <2>1. \A i \in n + 1 .. k : unacked[i] \in Bytes
    BY <1>3, <1>4, ElementOfSeq
  <2>2. n + 1 \in Int /\ k \in Int
    BY <1>4
  <2> HIDE DEF k
  <2>3. /\ unacked' \in Seq(Bytes)
        /\ Len(unacked') = IF n + 1 <= k THEN k - (n + 1) + 1 ELSE 0
        /\ \A i \in 1 .. k - (n + 1) + 1 : unacked'[i] = unacked[n + 1 + i - 1]
    BY <1>1, <2>1, <2>2, SubSeqProperties
  <2>4. k - (n + 1) + 1 = k - n /\ (IF n + 1 <= k THEN k - (n + 1) + 1 ELSE 0) = k - n
    BY <1>4
  <2>5. ASSUME NEW i \in 1 .. k - n
        PROVE  unacked'[i] = unacked[n + i]
    <3>1. i \in 1 .. k - (n + 1) + 1 /\ n + 1 + i - 1 = n + i
      BY <1>4
    <3> QED BY <2>3, <3>1
  <2> QED BY <2>3, <2>4, <2>5
<1> HIDE DEF k
<1>6. txRD' \in Ptrs /\ txRD' \in Int
  <2>1. (txRD + n) % PtrRange \in Ptrs
    BY <1>4, CellOfPtr, Zenon
  <2> QED BY <1>1, <2>1, SendSizes DEF Ptrs
<1>7. (txWR - txRD') % PtrRange = k - n
  <2> DEFINE e == txRD + n
             f == txWR - txRD
  <2>1. PICK q \in Int : e = PtrRange * q + (e % PtrRange)
    <3>1. e \in Int
      BY <1>4
    <3> HIDE DEF e
    <3> QED BY <3>1, SendSizes, DivMod, Zenon
  <2>2. PICK p \in Int : f = PtrRange * p + (f % PtrRange)
    <3>1. f \in Int
      BY <1>4
    <3> HIDE DEF f
    <3> QED BY <3>1, SendSizes, DivMod, Zenon
  <2>3. e = PtrRange * q + txRD' /\ f = PtrRange * p + k
    BY <1>1, <1>3, <2>1, <2>2
  <2>4. PtrRange * (p + q) = PtrRange * p + PtrRange * q
        /\ PtrRange * p \in Int /\ PtrRange * q \in Int
    BY <1>4, SMT
  <2>5. txWR - txRD' = PtrRange * (p + q) + (k - n)
    <3> DEFINE v == PtrRange * p
               w == PtrRange * q
               z == PtrRange * (p + q)
    <3>1. v \in Int /\ w \in Int /\ e = w + txRD' /\ f = v + k /\ z = v + w
      BY <2>3, <2>4
    <3> HIDE DEF v, w, z
    <3>2. txWR - txRD' = z + (k - n)
      <4>1. txRD + n = w + txRD' /\ txWR - txRD = v + k /\ z = v + w
        BY <3>1
      <4>2. txWR - txRD' = (v + w) + (k - n)
        <5>1. /\ txWR \in Int /\ txRD \in Int /\ txRD' \in Int
              /\ v \in Int /\ w \in Int /\ k \in Int /\ n \in Int
          BY <1>4, <1>6, <3>1
        <5>2. txRD + n = w + txRD' /\ txWR - txRD = v + k
          BY <4>1
        <5> HIDE DEF e, f
        <5>3. PICK x \in Int, r \in Int, r1 \in Int :
                x = txWR /\ r = txRD /\ r1 = txRD'
          BY <5>1
        <5>4. r + n = w + r1 /\ x - r = v + k
          BY <5>2, <5>3
        <5>5. x - r1 = (v + w) + (k - n)
          BY <5>1, <5>4
        <5> QED BY <5>3, <5>5
      <4> QED BY <4>1, <4>2
    <3> QED BY <3>2 DEF z
  <2>6. p + q \in Int /\ k - n \in 0 .. PtrRange - 1
    BY <1>4
  <2> DEFINE u == p + q
             r == k - n
  <2> HIDE DEF u, r
  <2>7. u \in Int /\ r \in 0 .. PtrRange - 1 /\ txWR - txRD' = PtrRange * u + r
    BY <2>5, <2>6 DEF u, r
  <2>8. (PtrRange * u + r) % PtrRange = r
    BY <2>7, SendSizes, ModIs, Zenon
  <2> QED BY <2>7, <2>8 DEF r
<1>8. ASSUME NEW i \in 1 .. k - n
      PROVE  unacked'[i] = ring[(txRD' + i - 1) % SSize]
  <2> DEFINE a == txRD + n
             b == i - 1
             j == n + i
  <2>1. /\ j \in 1 .. k /\ a \in Int /\ b \in Int
        /\ a + b = txRD + j - 1 /\ txRD' + b = txRD' + i - 1
    BY <1>4, <1>6
  <2>2. unacked'[i] = unacked[j]
    BY <1>5
  <2>3. a % PtrRange = txRD'
    BY <1>1
  <2> HIDE DEF a, b, j
  <2>4. ((a % PtrRange) + b) % SSize = (a + b) % SSize
    BY <2>1, CellOfPtr, Zenon
  <2>5. unacked[j] = ring[(txRD + j - 1) % SSize]
    BY <1>3, <2>1, Zenon
  <2> QED BY <2>1, <2>2, <2>3, <2>4, <2>5, Zenon
<1>9. TypeOK'
  BY <1>0, <1>2, <1>5, <1>6 DEF TypeOK
<1>10. UnackedIntact'
  <2>1. unacked' = Between(ring, txRD', Len(unacked'))
    BY <1>5, <1>8, HeldInRing
  <2> QED BY <1>2, <1>5, <1>7, <2>1 DEF UnackedIntact, Between
<1>11. Len(unacked') <= SSize
  BY <1>4, <1>5
<1> QED BY <1>0, <1>2, <1>9, <1>10, <1>11 DEF SendInv, PacketInRing, DatagramAsWritten

(* A pointer is at no distance from itself.                                *)
LEMMA NoDistance ==
  ASSUME SendAssumption, NEW p \in Ptrs PROVE (p - p) % PtrRange = 0
<1>1. p - p = 0
  BY DEF Ptrs
<1>2. 0 \in 0 .. PtrRange - 1
  BY SendSizes
<1> QED BY <1>1, <1>2, SendSizes, ModOfSmall, Zenon

(* Reopening a socket and beginning a datagram leave nothing behind.       *)
LEMMA ReopenKeeps == ASSUME SendAssumption, SendInv, Reopen PROVE SendInv'
<1>0. TypeOK /\ DatagramAsWritten /\ (mode = "tcp" => ~building)
  BY DEF SendInv
<1>1. /\ mode = "tcp" /\ open' = ~open /\ txRD' = txWR /\ txNew' = txWR
      /\ unacked' = <<>>
      /\ UNCHANGED <<mode, ring, txWR, offset, building, packet, onWire>>
  BY DEF Reopen
<1>2. TypeOK'
  <2>1. {open', building'} \subseteq BOOLEAN
    BY <1>0, <1>1, Zenon DEF TypeOK
  <2>2. unacked' \in Seq(Bytes)
    BY <1>1
  <2>3. {txWR', txNew', txRD'} \subseteq Ptrs
    BY <1>0, <1>1 DEF TypeOK
  <2> QED BY <1>0, <1>1, <2>1, <2>2, <2>3, Zenon DEF TypeOK
<1>3. UnackedIntact'
  <2>1. (txWR' - txRD') % PtrRange = 0
    BY <1>0, <1>1, NoDistance DEF TypeOK
  <2>2. Len(<<>>) = 0 /\ <<>> = Between(ring', txRD', 0)
    BY DEF Between
  <2> QED BY <1>1, <2>1, <2>2 DEF UnackedIntact
<1>4. Len(unacked') <= SSize
  BY <1>1, SendSizes
<1> QED BY <1>0, <1>1, <1>2, <1>3, <1>4 DEF SendInv, PacketInRing, DatagramAsWritten

(* A datagram that is begun has no bytes yet.                              *)
LEMMA BeginKeeps == ASSUME SendAssumption, SendInv, BeginPacket PROVE SendInv'
<1>0. /\ TypeOK /\ DatagramAsWritten /\ UnackedIntact /\ Len(unacked) <= SSize
      /\ (mode = "udp" => txRD = txWR /\ unacked = <<>>)
  BY DEF SendInv
<1>1. /\ mode = "udp" /\ offset' = 0 /\ building' = TRUE /\ packet' = <<>>
      /\ UNCHANGED <<mode, open, ring, txWR, txNew, txRD, unacked, onWire>>
  BY DEF BeginPacket
<1>2. TypeOK'
  <2>1. {open', building'} \subseteq BOOLEAN
    BY <1>0, <1>1, Zenon DEF TypeOK
  <2>2. packet' \in Seq(Bytes) /\ offset' \in 0 .. MaxDatagram
    BY <1>1, SendSizes
  <2> QED BY <1>0, <1>1, <2>1, <2>2, Zenon DEF TypeOK
<1>3. PacketInRing'
  <2>1. Len(<<>>) = 0 /\ <<>> = Between(ring', txWR', 0)
    BY DEF Between
  <2> QED BY <1>1, <2>1 DEF PacketInRing
<1> QED BY <1>0, <1>1, <1>2, <1>3 DEF SendInv, UnackedIntact, Between, DatagramAsWritten

(* Nothing of a socket for datagrams waits for an acknowledgement.         *)
LEMMA NoneUnacked ==
  ASSUME SendAssumption, TypeOK', unacked' = <<>>, txRD' = txWR'
  PROVE  UnackedIntact' /\ Len(unacked') <= SSize
<1>1. (txWR' - txRD') % PtrRange = 0
  BY NoDistance DEF TypeOK
<1>2. Len(<<>>) = 0 /\ <<>> = Between(ring', txRD', 0)
  BY DEF Between
<1> QED BY <1>1, <1>2, SendSizes DEF UnackedIntact

(* A write of the sketch goes behind what the datagram has so far.         *)
LEMMA WriteKeeps ==
  ASSUME SendAssumption, SendInv, NEW data \in Data, WritePacket(data)
  PROVE  SendInv'
<1>0. /\ TypeOK /\ PacketInRing /\ DatagramAsWritten
      /\ (mode = "udp" => txRD = txWR /\ unacked = <<>>) /\ (mode = "tcp" => ~building)
  BY DEF SendInv
<1> DEFINE n == Smaller(Len(data), Free)
           more == SubSeq(data, 1, n)
<1>1. /\ building /\ offset + Len(data) <= MaxDatagram
      /\ Process(offset, data, n) /\ offset' = offset + n
      /\ packet' = packet \o more
      /\ UNCHANGED <<mode, open, txWR, txRD, building, unacked, onWire>>
  BY DEF WritePacket
<1>2. mode = "udp" /\ txRD = txWR /\ unacked = <<>>
  BY <1>0, <1>1 DEF TypeOK
<1>3. /\ offset \in Nat /\ offset = Len(packet) /\ packet \in Seq(Bytes)
      /\ txWR \in Ptrs /\ txWR \in Int
      /\ \A i \in 1 .. offset : packet[i] = ring[(txWR + i - 1) % SSize]
  <2>1. offset = Len(packet) /\ packet = Between(ring, txWR, Len(packet))
    BY <1>0, <1>1, Zenon DEF PacketInRing
  <2>2. \A i \in 1 .. Len(packet) : packet[i] = ring[(txWR + i - 1) % SSize]
    <3>1. packet \in Seq(Bytes)
      BY <1>0 DEF TypeOK
    <3> QED BY <2>1, <3>1, HeldInRing
  <2>3. offset \in Nat /\ packet \in Seq(Bytes) /\ txWR \in Ptrs /\ txWR \in Int
    BY <1>0, SendSizes DEF TypeOK, Ptrs
  <2> QED BY <2>1, <2>2, <2>3, Zenon
<1>4. data \in Seq(Bytes) /\ Len(data) \in Nat \ {0}
  BY DataType
<1>5. n = Len(data)
  <2>1. Free = SSize
    BY <1>2, <1>3, NoDistance, SendSizes DEF Free
  <2>2. Len(data) <= SSize
    BY <1>1, <1>3, <1>4, SendSizes
  <2> QED BY <1>4, <2>1, <2>2, SendSizes DEF Smaller
<1>6. more \in Seq(Bytes) /\ Len(more) = n /\ \A i \in 1 .. n : more[i] = data[i]
  BY <1>4, <1>5
<1> HIDE DEF n, more
<1>7. /\ n \in 1 .. SSize /\ n <= Len(data) /\ n \in Int /\ n >= 1
      /\ offset + n <= MaxDatagram /\ offset + n <= SSize
      /\ offset \in Nat /\ txWR \in Int /\ SSize \in Nat
  BY <1>1, <1>3, <1>4, <1>5, SendSizes
<1>8. /\ ring' \in [Cells -> Bytes]
      /\ txNew' = (txWR + offset + n) % PtrRange
      /\ \A m \in 0 .. n - 1 : ring'[(txWR + offset + m) % SSize] = data[m + 1]
      /\ \A m \in n .. SSize - 1 :
           ring'[(txWR + offset + m) % SSize] = ring[(txWR + offset + m) % SSize]
  BY <1>0, <1>1, <1>4, <1>7, Written, Zenon
<1>9. /\ packet' \in Seq(Bytes) /\ Len(packet') = offset + n
      /\ \A i \in 1 .. offset : packet'[i] = packet[i]
      /\ \A i \in offset + 1 .. offset + n : packet'[i] = more[i - offset]
  <2>1. offset = Len(packet) /\ packet' = packet \o more /\ Len(more) = n
    BY <1>1, <1>3, <1>6, Zenon
  <2>2. packet \in Seq(Bytes) /\ more \in Seq(Bytes)
    BY <1>3, <1>6, Zenon
  <2> QED BY <2>1, <2>2, Joined
<1>10. ASSUME NEW i \in 1 .. offset + n
       PROVE  packet'[i] = ring'[(txWR + i - 1) % SSize]
  <2> DEFINE c == txWR + i - 1
  <2>1. i \in Int /\ i >= 1 /\ i <= offset + n /\ c \in Int
    BY <1>7
  <2>2. CASE i <= offset
    <3> DEFINE m == SSize - offset + i - 1
    <3>1. /\ m \in n .. SSize - 1 /\ i \in 1 .. offset
          /\ txWR + offset + m = c + SSize
      BY <1>7, <2>1, <2>2
    <3>2. packet[i] = ring[c % SSize]
      BY <1>3, <3>1, Zenon
    <3> HIDE DEF m, c
    <3>3. (c + SSize) % SSize = c % SSize
      BY <2>1, CellOfPtr, Zenon
    <3>4. ring'[(txWR + offset + m) % SSize] = ring[(txWR + offset + m) % SSize]
      BY <1>8, <3>1, Zenon
    <3>5. ring'[c % SSize] = ring[c % SSize]
      BY <3>1, <3>3, <3>4, Zenon
    <3>6. packet'[i] = packet[i]
      BY <1>9, <3>1, Zenon
    <3> QED BY <3>2, <3>5, <3>6, Zenon DEF c
  <2>3. CASE ~(i <= offset)
    <3> DEFINE m == i - offset - 1
               j == i - offset
    <3>1. /\ m \in 0 .. n - 1 /\ m + 1 = j /\ j \in 1 .. n
          /\ txWR + offset + m = c /\ i \in offset + 1 .. offset + n
      BY <1>7, <2>1, <2>3
    <3>2. packet'[i] = more[j]
      BY <1>9, <3>1, Zenon
    <3> HIDE DEF m, c, j
    <3>3. ring'[(txWR + offset + m) % SSize] = data[m + 1]
      BY <1>8, <3>1, Zenon
    <3>4. more[j] = data[j]
      BY <1>6, <3>1, Zenon
    <3>5. ring'[c % SSize] = data[j]
      BY <3>1, <3>3
    <3> QED BY <3>2, <3>4, <3>5, Zenon DEF c
  <2> QED BY <2>2, <2>3
<1>11. TypeOK'
  <2>1. txNew' \in Ptrs
    <3>1. txWR + offset + n \in Int
      BY <1>7
    <3> QED BY <1>8, <3>1, CellOfPtr, Zenon
  <2>2. offset' \in 0 .. MaxDatagram
    BY <1>1, <1>7, SendSizes
  <2>3. {open', building'} \subseteq BOOLEAN /\ {txWR', txRD'} \subseteq Ptrs
    BY <1>0, <1>1, Zenon DEF TypeOK
  <2>4. {txWR', txNew', txRD'} \subseteq Ptrs
    BY <2>1, <2>3
  <2> QED BY <1>0, <1>1, <1>8, <1>9, <2>2, <2>3, <2>4, Zenon DEF TypeOK
<1>12. PacketInRing'
  <2>1. packet' = Between(ring', txWR', Len(packet'))
    BY <1>1, <1>9, <1>10, HeldInRing
  <2>2. txNew' = (txWR' + offset') % PtrRange
    <3>1. txWR + offset + n = txWR' + offset'
      BY <1>1, <1>7
    <3> QED BY <1>8, <3>1
  <2>3. offset' = Len(packet')
    BY <1>1, <1>9
  <2> QED BY <2>1, <2>2, <2>3, Zenon DEF PacketInRing
<1>13. UnackedIntact' /\ Len(unacked') <= SSize
  BY <1>1, <1>2, <1>11, NoneUnacked
<1> QED BY <1>0, <1>1, <1>2, <1>11, <1>12, <1>13 DEF SendInv, DatagramAsWritten

(* What goes out is what the ring holds from the pointer the chip has to   *)
(* the one written last: the datagram.                                     *)
LEMMA EndKeeps == ASSUME SendAssumption, SendInv, EndPacket PROVE SendInv'
<1>0. /\ TypeOK /\ PacketInRing
      /\ (mode = "udp" => txRD = txWR /\ unacked = <<>>) /\ (mode = "tcp" => ~building)
  BY DEF SendInv
<1>1. /\ building /\ packet # <<>>
      /\ txWR' = txNew /\ txRD' = txNew /\ building' = FALSE
      /\ onWire' = [written |-> packet,
                    sent |-> Between(ring, txWR, (txNew - txWR) % PtrRange)]
      /\ UNCHANGED <<mode, open, ring, txNew, offset, packet, unacked>>
  BY DEF EndPacket
<1>2. mode = "udp" /\ unacked' = <<>>
  BY <1>0, <1>1 DEF TypeOK
<1>3. packet = Between(ring, txWR, offset) /\ txNew = (txWR + offset) % PtrRange
  BY <1>0, <1>1, Zenon DEF PacketInRing
<1>4. txWR \in Int /\ offset \in Int /\ offset \in 0 .. PtrRange - 1
  BY <1>0, SendSizes DEF TypeOK, Ptrs
<1>5. (txNew - txWR) % PtrRange = offset
  <2> DEFINE a == txWR + offset
             b == 0 - txWR
  <2>1. a \in Int /\ b \in Int /\ a + b = offset
    BY <1>4
  <2>2. txNew = a % PtrRange /\ txNew \in Int
    BY <1>0, <1>3, SendSizes DEF TypeOK, Ptrs
  <2>3. txNew - txWR = txNew + b
    BY <1>4, <2>2
  <2> HIDE DEF a, b
  <2>4. ((a % PtrRange) + b) % PtrRange = (a + b) % PtrRange
    BY <2>1, CellOfPtr, Zenon
  <2>5. offset % PtrRange = offset
    BY <1>4, SendSizes, ModOfSmall, Zenon
  <2> QED BY <2>1, <2>2, <2>3, <2>4, <2>5, Zenon
<1>6. DatagramAsWritten'
  BY <1>1, <1>3, <1>5 DEF DatagramAsWritten
<1>7. TypeOK'
  <2>1. {open', building'} \subseteq BOOLEAN
    BY <1>0, <1>1, Zenon DEF TypeOK
  <2> QED BY <1>0, <1>1, <2>1, Zenon DEF TypeOK
<1>8. UnackedIntact' /\ Len(unacked') <= SSize
  BY <1>1, <1>2, <1>7, NoneUnacked
<1>9. txRD' = txWR'
  BY <1>1
<1>10. PacketInRing'
  BY <1>1 DEF PacketInRing
<1> QED BY <1>1, <1>2, <1>6, <1>7, <1>8, <1>9, <1>10 DEF SendInv

(* The same for a datagram in one piece.                                   *)
LEMMA SendToKeeps ==
  ASSUME SendAssumption, SendInv, NEW data \in Data, SendTo(data)
  PROVE  SendInv'
<1>0. /\ TypeOK /\ (mode = "udp" => txRD = txWR /\ unacked = <<>>)
  BY DEF SendInv
<1> DEFINE n == Smaller(Len(data), SSize)
           more == SubSeq(data, 1, n)
<1>1. /\ mode = "udp" /\ ~building /\ Process(0, data, n)
      /\ txWR' = txNew' /\ txRD' = txNew'
      /\ onWire' = [written |-> more, sent |-> Between(ring', txWR, n)]
      /\ UNCHANGED <<mode, open, offset, building, packet, unacked>>
  BY DEF SendTo
<1>2. data \in Seq(Bytes) /\ n \in 1 .. SSize /\ n <= Len(data) /\ n \in Int /\ n >= 1
  BY DataType, SendSizes DEF Smaller
<1>3. more \in Seq(Bytes) /\ Len(more) = n /\ \A i \in 1 .. n : more[i] = data[i]
  BY <1>2
<1> HIDE DEF n, more
<1>4. 0 \in Nat /\ txWR \in Int
  BY <1>0, SendSizes DEF TypeOK, Ptrs
<1>5. /\ ring' \in [Cells -> Bytes]
      /\ txNew' = (txWR + 0 + n) % PtrRange
      /\ \A m \in 0 .. n - 1 : ring'[(txWR + 0 + m) % SSize] = data[m + 1]
  BY <1>0, <1>1, <1>2, <1>4, Written, Zenon
<1>6. ASSUME NEW i \in 1 .. n PROVE more[i] = ring'[(txWR + i - 1) % SSize]
  <2> DEFINE m == i - 1
             c == txWR + i - 1
  <2>1. m \in 0 .. n - 1 /\ m + 1 = i /\ txWR + 0 + m = c
    BY <1>2, <1>4
  <2> HIDE DEF m, c
  <2>2. ring'[(txWR + 0 + m) % SSize] = data[m + 1]
    BY <1>5, <2>1, Zenon
  <2>3. ring'[c % SSize] = data[i]
    BY <2>1, <2>2
  <2> QED BY <1>3, <2>3, Zenon DEF c
<1>7. DatagramAsWritten'
  <2>1. more = Between(ring', txWR, Len(more))
    BY <1>3, <1>6, HeldInRing
  <2> QED BY <1>1, <1>3, <2>1 DEF DatagramAsWritten
<1>8. TypeOK'
  <2>1. txNew' \in Ptrs
    <3>1. txWR + 0 + n \in Int
      BY <1>2, <1>4
    <3> QED BY <1>5, <3>1, CellOfPtr, Zenon
  <2>2. {open', building'} \subseteq BOOLEAN
    BY <1>0, <1>1, Zenon DEF TypeOK
  <2>3. {txWR', txNew', txRD'} \subseteq Ptrs
    BY <1>1, <2>1
  <2> QED BY <1>0, <1>1, <1>5, <2>2, <2>3, Zenon DEF TypeOK
<1>9. UnackedIntact' /\ Len(unacked') <= SSize
  BY <1>0, <1>1, <1>8, NoneUnacked
<1>10. PacketInRing'
  BY <1>1 DEF PacketInRing
<1> QED BY <1>0, <1>1, <1>7, <1>8, <1>9, <1>10 DEF SendInv

(* Every operation on the buffer keeps the invariant.                      *)
LEMMA SendStep ==
  ASSUME SendAssumption, SendInv, [Next]_sendVars PROVE SendInv'
<1>1. CASE UNCHANGED sendVars
  BY <1>1 DEF sendVars, SendInv, TypeOK, UnackedIntact, PacketInRing, DatagramAsWritten,
     Between
<1> QED BY <1>1, SendKeeps, SendToKeeps, WriteKeeps, AcknowledgeKeeps, ReopenKeeps,
        BeginKeeps, EndKeeps DEF Next

(* Whatever the size of the ring and of the pointers, as long as the one   *)
(* is a multiple of the other: what the chip sends again is what was given *)
(* to it, and a datagram goes out as it was written.                       *)
THEOREM WireAsWritten == SendAssumption => (Spec => []SentAsWritten)
<1> SUFFICES ASSUME SendAssumption PROVE Spec => []SentAsWritten
  OBVIOUS
<1>1. Init => SendInv
  BY SendInit
<1>2. SendInv /\ [Next]_sendVars => SendInv'
  BY SendStep
<1>3. SendInv => SentAsWritten
  BY DEF SendInv, SentAsWritten
<1> QED BY <1>1, <1>2, <1>3, PTL DEF Spec

-----------------------------------------------------------------------------
(* The datagrams that come.                                                *)

(* The places of the datagrams that wait, each whole behind all before it. *)
Row(where) ==
  /\ where \in [1 .. Len(waiting) + 1 -> 0 .. RSize]
  /\ Udp!InARow(where)
  /\ \A j \in 1 .. Len(waiting) : \A k \in j + 1 .. Len(waiting) + 1 :
       where[j] + Udp!HeadLen + Len(waiting[j].data) <= where[k]

WaitInARow == udpOpen => \E where : Row(where)

(* What is left of a datagram is there, and what was given of it came from *)
(* its front.                                                              *)
RestIsNext ==
  udpOpen => /\ Len(given) + remaining = Len(current.data)
          /\ \A i \in 1 .. remaining : Udp!Ahead(i - 1) = current.data[Len(given) + i]

FrontIsGiven ==
  /\ given \in Seq(Udp!Values) /\ Len(given) <= Len(current.data)
  /\ \A i \in 1 .. Len(given) : given[i] = current.data[i]

SenderIsKnown == current # Udp!None => remote = current.from

(* A closed socket holds nothing.                                          *)
ClosedIsEmpty ==
  ~udpOpen => /\ udpPc = "sketch" /\ received = 0 /\ waiting = <<>>
           /\ current = Udp!None /\ given = <<>>

(* The invariant.                                                          *)
UdpInv ==
  /\ Udp!TypeOK /\ WaitInARow /\ RestIsNext /\ FrontIsGiven /\ SenderIsKnown
  /\ ClosedIsEmpty

-----------------------------------------------------------------------------
(* What the ring and the pointers are.                                     *)
LEMMA RingSizes ==
  ASSUME Udp!ReceiveAssumption
  PROVE  /\ RSize \in Nat \ {0} /\ RPtrRange \in Nat \ {0} /\ RSize < RPtrRange
         /\ RPtrRange % RSize = 0 /\ MaxLen \in Nat
BY DEF Udp!ReceiveAssumption

(* A pointer that wraps names the same cell as one that does not.          *)
LEMMA CellBehind ==
  ASSUME Udp!ReceiveAssumption, NEW a \in Int, NEW b \in Int
  PROVE  /\ ((a % RPtrRange) + b) % RSize = (a + b) % RSize
         /\ ((a % RSize) + b) % RSize = (a + b) % RSize
         /\ a % RSize \in Udp!Cells /\ a % RPtrRange \in Udp!Ptrs
<1>1. ((a % RPtrRange) + b) % RSize = (a + b) % RSize
  BY RingSizes, ModOfMod
<1>2. ((a % RSize) + b) % RSize = (a + b) % RSize
  <2>1. (RSize * 1 + 0) % RSize = 0 /\ RSize * 1 + 0 = RSize
    BY RingSizes, ModIs
  <2> QED BY <2>1, RingSizes, ModOfMod
<1>3. a % RSize \in Udp!Cells /\ a % RPtrRange \in Udp!Ptrs
  BY RingSizes, DivMod DEF Udp!Cells, Udp!Ptrs
<1> QED BY <1>1, <1>2, <1>3

(* read_data reads the cells from the pointer on, around the end.          *)
LEMMA DataRead ==
  ASSUME Udp!ReceiveAssumption, Udp!TypeOK, NEW off \in Nat, NEW n \in 0 .. RSize
  PROVE  /\ Udp!ReadData(rxRD + off, n) \in Seq(Udp!Values)
         /\ Len(Udp!ReadData(rxRD + off, n)) = n
         /\ \A i \in 1 .. n : Udp!ReadData(rxRD + off, n)[i] = Udp!Ahead(off + i - 1)
<1> DEFINE ptr   == rxRD + off
           start == ptr % RSize
           size  == IF start + n > RSize THEN RSize - start ELSE n
           r     == Udp!ReadData(rxRD + off, n)
<1>0. RSize \in Nat \ {0} /\ ptr \in Nat /\ n \in Nat /\ n <= RSize
  <2>1. RSize \in Nat \ {0} /\ rxRD \in Nat
    BY RingSizes DEF Udp!TypeOK, Udp!Ptrs
  <2> QED BY <2>1
<1>1. start \in 0 .. RSize - 1
  <2>1. ptr \in Int /\ 0 \in Int
    BY <1>0
  <2> HIDE DEF ptr
  <2> QED BY <2>1, CellBehind DEF Udp!Cells
<1>2. r = [i \in 1 .. n |-> IF i <= size THEN rxRing[start + i - 1] ELSE rxRing[i - size - 1]]
  BY DEF Udp!ReadData
<1>3. ASSUME NEW i \in 1 .. n
      PROVE  /\ (rxRD + (off + i - 1)) % RSize
                  = IF i <= size THEN start + i - 1 ELSE i - size - 1
             /\ (rxRD + (off + i - 1)) % RSize \in Udp!Cells
  <2>1. i - 1 \in 0 .. RSize - 1
    BY <1>0
  <2>2. (start + (i - 1)) % RSize = (ptr + (i - 1)) % RSize
    <3>1. ptr \in Int /\ i - 1 \in Int
      BY <1>0, <2>1
    <3> HIDE DEF ptr
    <3> QED BY <3>1, CellBehind
  <2>3. ptr + (i - 1) = rxRD + (off + i - 1)
    BY <1>0, <2>1 DEF Udp!TypeOK, Udp!Ptrs
  <2> HIDE DEF ptr, start
  <2>4. (start + (i - 1)) % RSize
          = IF start + (i - 1) < RSize THEN start + (i - 1) ELSE start + (i - 1) - RSize
    BY <1>0, <1>1, <2>1, Around
  <2>5. i <= size <=> start + (i - 1) < RSize
    BY <1>0, <1>1, <2>1
  <2>6. i > size => start + (i - 1) - RSize = i - size - 1
    BY <1>0, <1>1, <2>1
  <2>7. (rxRD + (off + i - 1)) % RSize
          = IF i <= size THEN start + i - 1 ELSE i - size - 1
    BY <1>0, <1>1, <2>1, <2>2, <2>3, <2>4, <2>5, <2>6
  <2>8. (start + (i - 1)) % RSize \in Udp!Cells
    BY <1>0, <1>1, <2>1, <2>4 DEF Udp!Cells
  <2> QED BY <2>2, <2>3, <2>7, <2>8
<1>4. \A i \in 1 .. n : r[i] = Udp!Ahead(off + i - 1)
  BY <1>2, <1>3 DEF Udp!Ahead
<1>5. \A i \in 1 .. n : r[i] \in Udp!Values
  BY <1>3, <1>4 DEF Udp!TypeOK, Udp!Ahead
<1>6. r \in [1 .. n -> Udp!Values]
  BY <1>2, <1>5
<1> HIDE DEF r
<1>7. r \in Seq(Udp!Values)
  BY <1>0, <1>6, SeqDef
<1>8. Len(r) = n
  BY <1>0, <1>2, <1>7, LenProperties
<1> QED BY <1>4, <1>7, <1>8 DEF r

(* What a datagram is, and how it stands in the ring.                      *)
LEMMA FramedIs ==
  ASSUME Udp!ReceiveAssumption, NEW d \in Udp!Datagrams
  PROVE  /\ d.from \in Udp!Values /\ Len(d.data) \in 0 .. MaxLen
         /\ Len(d.data) \in Udp!Values
         /\ d.data \in Seq(Udp!Values)
         /\ Udp!Framed(d)[1] = d.from /\ Udp!Framed(d)[2] = Len(d.data)
         /\ \A i \in 1 .. Len(d.data) : Udp!Framed(d)[Udp!HeadLen + i] = d.data[i]
         /\ \A i \in 1 .. Udp!HeadLen + Len(d.data) : Udp!Framed(d)[i] \in Udp!Values
<1>1. PICK n \in 0 .. MaxLen : d.data \in [1 .. n -> Bytes]
  BY DEF Udp!Datagrams
<1>2. n \in Nat
  BY <1>1, RingSizes
<1>3. d.data \in Seq(Udp!Values) /\ Len(d.data) = n
  <2>1. d.data \in [1 .. n -> Udp!Values]
    BY <1>1 DEF Udp!Values
  <2>2. d.data \in Seq(Udp!Values)
    BY <1>2, <2>1, SeqDef
  <2>3. /\ Len(d.data) \in Nat /\ DOMAIN d.data = 1 .. Len(d.data)
        /\ DOMAIN d.data = 1 .. n
    BY <2>1, <2>2, LenProperties
  <2> QED BY <1>2, <2>2, <2>3
<1>4. d.from \in Udp!Values /\ n \in Udp!Values
  BY <1>1 DEF Udp!Datagrams, Udp!Values
<1>5. /\ <<d.from, Len(d.data)>> \in Seq(Udp!Values)
      /\ Len(<<d.from, Len(d.data)>>) = 2
      /\ <<d.from, Len(d.data)>>[1] = d.from
      /\ <<d.from, Len(d.data)>>[2] = Len(d.data)
  BY <1>3, <1>4
<1>6. \A i \in 1 .. 2 + n : Udp!Framed(d)[i] = IF i <= 2 THEN <<d.from, Len(d.data)>>[i]
                                           ELSE d.data[i - 2]
  BY <1>3, <1>5, ConcatProperties DEF Udp!Framed
<1>7. \A i \in 1 .. n : d.data[i] \in Udp!Values
  BY <1>3
<1>8. Udp!Framed(d)[1] = d.from /\ Udp!Framed(d)[2] = n
  BY <1>2, <1>3, <1>5, <1>6
<1>9. \A i \in 1 .. n : Udp!Framed(d)[Udp!HeadLen + i] = d.data[i]
  BY <1>2, <1>6 DEF Udp!HeadLen
<1>10. \A i \in 1 .. Udp!HeadLen + n : Udp!Framed(d)[i] \in Udp!Values
  <2> SUFFICES ASSUME NEW i \in 1 .. Udp!HeadLen + n PROVE Udp!Framed(d)[i] \in Udp!Values
    OBVIOUS
  <2>1. CASE i \in 1 .. 2
    BY <1>4, <1>8, <2>1
  <2>2. CASE i \notin 1 .. 2
    <3>1. i - 2 \in 1 .. n /\ i = Udp!HeadLen + (i - 2)
      BY <1>2, <2>2 DEF Udp!HeadLen
    <3> QED BY <1>7, <1>9, <3>1
  <2> QED BY <2>1, <2>2
<1> QED BY <1>1, <1>3, <1>4, <1>8, <1>9, <1>10

(* The datagram that is read, if there is one.                             *)
LEMMA CurrentData ==
  ASSUME Udp!ReceiveAssumption, NEW d \in Udp!Datagrams \cup {Udp!None}
  PROVE  d.data \in Seq(Udp!Values) /\ Len(d.data) \in 0 .. MaxLen
<1>1. CASE d \in Udp!Datagrams
  BY <1>1, FramedIs
<1>2. CASE d = Udp!None
  BY <1>2, RingSizes, EmptySeq DEF Udp!None
<1> QED BY <1>1, <1>2

(* Taking bytes moves the read pointer.                                    *)
LEMMA ConsumeMoves ==
  ASSUME Udp!ReceiveAssumption, Udp!TypeOK, NEW n \in Nat, Udp!Consume(n)
  PROVE  rxRD' \in Udp!Ptrs /\ \A m \in Int : Udp!Ahead(m)' = Udp!Ahead(m + n)
<1>1. rxRD' = (rxRD + n) % RPtrRange /\ rxRing' = rxRing /\ rxRD \in Int /\ n \in Int
  BY RingSizes DEF Udp!Consume, Udp!TypeOK, Udp!Ptrs
<1>2. rxRD' \in Udp!Ptrs
  <2>1. rxRD + n \in Int
    BY <1>1
  <2> QED BY <1>1, <2>1, CellBehind
<1>3. ASSUME NEW m \in Int PROVE Udp!Ahead(m)' = Udp!Ahead(m + n)
  <2>1. (((rxRD + n) % RPtrRange) + m) % RSize = ((rxRD + n) + m) % RSize
    <3>1. rxRD + n \in Int
      BY <1>1
    <3> QED BY <3>1, CellBehind
  <2>2. (rxRD + n) + m = rxRD + (m + n)
    BY <1>1
  <2> QED BY <1>1, <2>1, <2>2 DEF Udp!Ahead
<1> QED BY <1>2, <1>3

(* What the chip holds is enough for what is left, and for the whole       *)
(* datagram that comes first behind it.                                    *)
LEMMA RowFits ==
  ASSUME Udp!ReceiveAssumption, UdpInv, udpOpen, NEW where, Row(where)
  PROVE  /\ Len(waiting) \in Nat /\ remaining <= received
         /\ remaining = 0 /\ received > 0 =>
              /\ Len(waiting) >= 1 /\ waiting[1] \in Udp!Datagrams
              /\ where[1] = 0 /\ where[2] = Udp!HeadLen + Len(waiting[1].data)
              /\ where[2] <= received
<1>0. /\ Len(waiting) \in Nat /\ waiting \in Seq(Udp!Datagrams)
      /\ remaining \in Nat /\ received \in 0 .. RSize /\ RSize \in Nat
      /\ \A k \in 1 .. Len(waiting) : waiting[k] \in Udp!Datagrams
  BY RingSizes, LenProperties, ElementOfSeq DEF UdpInv, Udp!TypeOK
<1>1. where[1] = remaining /\ where[Len(waiting) + 1] = received
  BY DEF Row, Udp!InARow
<1>2. CASE Len(waiting) = 0
  BY <1>0, <1>1, <1>2
<1>3. CASE Len(waiting) >= 1
  <2> DEFINE n == Len(waiting[1].data)
             m == Len(waiting) + 1
  <2>1. where[1] + 2 + n <= where[m] /\ where[2] = where[1] + 2 + n
    <3>1. 1 \in 1 .. Len(waiting) /\ m \in 1 + 1 .. Len(waiting) + 1
      BY <1>0, <1>3
    <3>2. where[1 + 1] = where[1] + Udp!HeadLen + n
      BY <3>1 DEF Row, Udp!InARow
    <3>3. where[1] + Udp!HeadLen + n <= where[m]
      BY <3>1 DEF Row
    <3> QED BY <3>2, <3>3 DEF Udp!HeadLen
  <2>2. waiting[1] \in Udp!Datagrams /\ n \in Nat
    <3>1. waiting[1] \in Udp!Datagrams
      BY <1>0, <1>3
    <3>2. n \in 0 .. MaxLen /\ MaxLen \in Nat
      BY <3>1, FramedIs, RingSizes
    <3> QED BY <3>1, <3>2
  <2>3. where[m] = received /\ where[1] = remaining
    BY <1>1
  <2> HIDE DEF n, m
  <2>4. where[2] = remaining + 2 + n /\ where[2] <= received /\ remaining <= received
    BY <1>0, <2>1, <2>2, <2>3
  <2>5. received > 0 /\ remaining = 0 => where[1] = 0 /\ where[2] = 2 + n
    BY <1>0, <2>2, <2>3, <2>4
  <2> QED BY <1>0, <1>3, <2>2, <2>4, <2>5 DEF Udp!HeadLen, n
<1> QED BY <1>0, <1>2, <1>3

(* The first so many places of a row.                                      *)
LEMMA RowGrows ==
  ASSUME Udp!ReceiveAssumption, UdpInv, NEW where, Row(where)
  PROVE  /\ Len(waiting) \in Nat
         /\ \A k \in 1 .. Len(waiting) + 1 :
              where[k] \in 0 .. RSize /\ where[1] <= where[k]
         /\ \A k \in 1 .. Len(waiting) :
              /\ waiting[k] \in Udp!Datagrams /\ Len(waiting[k].data) \in Nat
              /\ where[k + 1] = where[k] + Udp!HeadLen + Len(waiting[k].data)
<1>1. /\ Len(waiting) \in Nat /\ \A k \in 1 .. Len(waiting) : waiting[k] \in Udp!Datagrams
  BY LenProperties, ElementOfSeq DEF UdpInv, Udp!TypeOK
<1>2. ASSUME NEW k \in 1 .. Len(waiting)
      PROVE  Len(waiting[k].data) \in Nat
  <2>1. waiting[k] \in Udp!Datagrams
    BY <1>1
  <2>2. Len(waiting[k].data) \in 0 .. MaxLen /\ MaxLen \in Nat
    BY <2>1, FramedIs, RingSizes
  <2> QED BY <2>2
<1>3. ASSUME NEW k \in 1 .. Len(waiting) + 1
      PROVE  where[k] \in 0 .. RSize
  BY DEF Row
<1>4. ASSUME NEW k \in 1 .. Len(waiting)
      PROVE  where[k + 1] = where[k] + Udp!HeadLen + Len(waiting[k].data)
  BY DEF Row, Udp!InARow
<1>5. ASSUME NEW k \in 1 .. Len(waiting) + 1
      PROVE  where[1] <= where[k]
  <2>1. where[1] \in Nat /\ where[k] \in Nat
    <3>1. 1 \in 1 .. Len(waiting) + 1
      BY <1>1
    <3> QED BY <1>3, <3>1
  <2>2. CASE k = 1
    BY <2>1, <2>2
  <2>3. CASE k # 1
    <3>1. 1 \in 1 .. Len(waiting) /\ k \in 1 + 1 .. Len(waiting) + 1
      BY <1>1, <2>3
    <3> DEFINE n == Len(waiting[1].data)
    <3>2. where[1] + Udp!HeadLen + n <= where[k]
      BY <3>1 DEF Row
    <3>3. n \in Nat
      BY <1>2, <3>1
    <3> HIDE DEF n
    <3> QED BY <2>1, <3>2, <3>3 DEF Udp!HeadLen
  <2> QED BY <2>2, <2>3
<1> QED BY <1>1, <1>2, <1>3, <1>4, <1>5

(* When bytes are taken the places of what waits move with the pointer;    *)
(* when a header is read, those of the datagrams behind it.                *)
LEMMA RowMoves ==
  ASSUME Udp!ReceiveAssumption, UdpInv, udpOpen, NEW where, Row(where),
         NEW f \in 0 .. Len(waiting), NEW n \in Nat, n <= where[f + 1], Udp!Consume(n),
         waiting' \in Seq(Udp!Datagrams), Len(waiting') = Len(waiting) - f,
         \A k \in 1 .. Len(waiting) - f : waiting'[k] = waiting[k + f],
         remaining' = where[f + 1] - n
  PROVE  WaitInARow'
<1> DEFINE m == Len(waiting) - f
<1>0. PICK w : w = [k \in 1 .. m + 1 |-> where[k + f] - n]
  OBVIOUS
<1>1. /\ Len(waiting) \in Nat /\ m \in Nat /\ f \in Nat /\ RSize \in Nat
      /\ received \in Nat
  <2>1. Len(waiting) \in Nat
    BY RowGrows
  <2>2. received \in 0 .. RSize /\ RSize \in Nat
    BY RingSizes DEF UdpInv, Udp!TypeOK
  <2> QED BY <2>1, <2>2
<1>2. \A k \in 1 .. Len(waiting) + 1 : where[k] \in 0 .. RSize
  BY RowGrows
<1>3. ASSUME NEW k \in 1 .. m + 1
      PROVE  where[f + 1] <= where[k + f]
  <2>1. f + 1 \in 1 .. Len(waiting) + 1 /\ k + f \in 1 .. Len(waiting) + 1
    BY <1>1
  <2>2. where[f + 1] \in Nat /\ where[k + f] \in Nat
    BY <1>2, <2>1
  <2>3. CASE k = 1
    BY <2>2, <2>3, <1>1
  <2>4. CASE k # 1
    <3> DEFINE d == Len(waiting[f + 1].data)
    <3>1. f + 1 \in 1 .. Len(waiting) /\ k + f \in f + 1 + 1 .. Len(waiting) + 1
      BY <1>1, <2>4
    <3>2. where[f + 1] + Udp!HeadLen + d <= where[k + f]
      BY <3>1 DEF Row
    <3>3. d \in Nat
      BY <3>1, RowGrows
    <3> HIDE DEF d
    <3> QED BY <2>2, <3>2, <3>3 DEF Udp!HeadLen
  <2> QED BY <2>3, <2>4
<1>4. \A k \in 1 .. m + 1 : w[k] = where[k + f] - n /\ w[k] \in 0 .. RSize
  <2> SUFFICES ASSUME NEW k \in 1 .. m + 1
               PROVE  where[k + f] - n \in 0 .. RSize
    BY <1>0
  <2>1. k + f \in 1 .. Len(waiting) + 1 /\ f + 1 \in 1 .. Len(waiting) + 1
    BY <1>1
  <2>2. where[k + f] \in 0 .. RSize /\ where[f + 1] \in 0 .. RSize
    BY <1>2, <2>1
  <2> HIDE DEF m
  <2> QED BY <1>1, <1>3, <2>2
<1>5. w \in [1 .. m + 1 -> 0 .. RSize] /\ DOMAIN w = 1 .. m + 1
  BY <1>0, <1>4
<1>6. w[1] = remaining' /\ w[m + 1] = received'
  <2>1. 1 \in 1 .. m + 1 /\ m + 1 \in 1 .. m + 1 /\ 1 + f = f + 1
        /\ (m + 1) + f = Len(waiting) + 1
    BY <1>1
  <2>2. w[1] = where[1 + f] - n
    BY <1>4, <2>1
  <2>3. w[m + 1] = where[(m + 1) + f] - n
    BY <1>4, <2>1
  <2>4. where[Len(waiting) + 1] = received
    BY DEF Row, Udp!InARow
  <2> HIDE DEF m
  <2> QED BY <2>1, <2>2, <2>3, <2>4 DEF Udp!Consume
<1>7. \A p \in Int : Udp!Ahead(p)' = Udp!Ahead(p + n)
  BY ConsumeMoves DEF UdpInv
<1>8. ASSUME NEW k \in 1 .. m
      PROVE  /\ waiting'[k] = waiting[k + f] /\ k + f \in 1 .. Len(waiting)
             /\ Len(waiting[k + f].data) \in Nat
             /\ w[k + 1] = w[k] + Udp!HeadLen + Len(waiting'[k].data)
             /\ \A i \in 1 .. Udp!HeadLen + Len(waiting'[k].data) :
                  Udp!Ahead(w[k] + i - 1)' = Udp!Framed(waiting'[k])[i]
  <2>1. /\ k + f \in 1 .. Len(waiting) /\ k \in 1 .. m + 1 /\ k + 1 \in 1 .. m + 1
        /\ (k + f) + 1 = (k + 1) + f /\ k + f \in 1 .. Len(waiting) + 1
    <3>1. k \in Nat /\ 1 <= k /\ k <= m /\ m + f = Len(waiting)
      BY <1>1
    <3> HIDE DEF m
    <3>2. k \in 1 .. m + 1 /\ k + 1 \in 1 .. m + 1
      BY <1>1, <3>1
    <3>3. k + f \in 1 .. Len(waiting)
      BY <1>1, <3>1
    <3>4. (k + f) + 1 = (k + 1) + f /\ k + f \in 1 .. Len(waiting) + 1
      BY <1>1, <3>1
    <3> QED BY <3>2, <3>3, <3>4
  <2>2. waiting'[k] = waiting[k + f]
    OBVIOUS
  <2> DEFINE d == Len(waiting[k + f].data)
  <2>3. where[(k + f) + 1] = where[k + f] + Udp!HeadLen + d
    BY <2>1, RowGrows
  <2>4. d \in Nat /\ where[k + f] \in Int
    BY <2>1, RowGrows, <1>2
  <2>5. w[k] = where[k + f] - n /\ w[k + 1] = where[(k + 1) + f] - n
    BY <1>4, <2>1
  <2> HIDE DEF m
  <2>6. w[k + 1] = w[k] + Udp!HeadLen + d
    <3> HIDE DEF d
    <3> QED BY <2>1, <2>3, <2>4, <2>5 DEF Udp!HeadLen
  <2>7. ASSUME NEW i \in 1 .. Udp!HeadLen + d
        PROVE  Udp!Ahead(w[k] + i - 1)' = Udp!Framed(waiting[k + f])[i]
    <3>1. Udp!Ahead(where[k + f] + i - 1) = Udp!Framed(waiting[k + f])[i]
      BY <2>1 DEF Row, Udp!InARow
    <3> HIDE DEF d
    <3>2. i \in Int /\ w[k] + i - 1 \in Int
          /\ (w[k] + i - 1) + n = where[k + f] + i - 1
      BY <2>4, <2>5 DEF Udp!HeadLen
    <3>3. Udp!Ahead(w[k] + i - 1)' = Udp!Ahead((w[k] + i - 1) + n)
      <4>1. PICK p : p = w[k] + i - 1
        OBVIOUS
      <4>2. Udp!Ahead(p)' = Udp!Ahead(p + n)
        BY <1>7, <3>2, <4>1
      <4> QED BY <4>1, <4>2
    <3> QED BY <3>1, <3>2, <3>3
  <2> QED BY <2>1, <2>2, <2>4, <2>6, <2>7
<1>9. Udp!InARow(w)'
  <2>1. Len(waiting') = m
    OBVIOUS
  <2> HIDE DEF m
  <2> QED BY <1>6, <1>8, <2>1 DEF Udp!InARow
<1>10. ASSUME NEW j \in 1 .. m, NEW k \in j + 1 .. m + 1
       PROVE  w[j] + Udp!HeadLen + Len(waiting'[j].data) <= w[k]
  <2>1. /\ j + f \in 1 .. Len(waiting) /\ k + f \in (j + f) + 1 .. Len(waiting) + 1
        /\ j \in 1 .. m + 1 /\ k \in 1 .. m + 1 /\ k + f \in 1 .. Len(waiting) + 1
        /\ j + f \in 1 .. Len(waiting) + 1
    BY <1>1
  <2> DEFINE d == Len(waiting[j + f].data)
  <2>2. where[j + f] + Udp!HeadLen + d <= where[k + f]
    BY <2>1 DEF Row
  <2>3. d \in Nat /\ where[j + f] \in Int /\ where[k + f] \in Int
    BY <1>2, <2>1, RowGrows
  <2>4. w[j] = where[j + f] - n /\ w[k] = where[k + f] - n
    BY <1>4, <2>1
  <2>5. waiting'[j] = waiting[j + f]
    OBVIOUS
  <2> HIDE DEF d, m
  <2>7. n \in Int
    OBVIOUS
  <2>6. w[j] + Udp!HeadLen + d <= w[k]
    <3>1. \A a, b \in Int : a + 2 + d <= b => a - n + 2 + d <= b - n
      BY <2>3, <2>7
    <3> QED BY <2>2, <2>3, <2>4, <3>1 DEF Udp!HeadLen
  <2> QED BY <2>5, <2>6 DEF d
<1>11. Len(waiting') = m
  OBVIOUS
<1> HIDE DEF m
<1>12. Row(w)'
  BY <1>5, <1>9, <1>10, <1>11 DEF Row
<1> QED BY <1>12 DEF WaitInARow

(* Bytes of the datagram that is read.                                     *)
LEMMA BytesTaken ==
  ASSUME Udp!ReceiveAssumption, UdpInv, udpOpen, NEW n \in Nat, n <= remaining,
         Udp!Consume(n), remaining' = remaining - n,
         given' = given \o Udp!ReadData(rxRD, n),
         UNCHANGED <<remote, udpPc, waiting, current>>
  PROVE  UdpInv'
<1> DEFINE r == Udp!ReadData(rxRD, n)
           g == Len(given)
<1>1. PICK where : Row(where)
  BY DEF UdpInv, WaitInARow
<1>2. /\ remaining \in 0 .. MaxLen /\ received \in 0 .. RSize /\ remaining <= received
      /\ MaxLen \in Nat /\ RSize \in Nat /\ waiting \in Seq(Udp!Datagrams)
      /\ Len(waiting) \in Nat
      /\ rxRD \in Nat
  BY <1>1, RowFits, RingSizes DEF UdpInv, Udp!TypeOK, Udp!Ptrs
<1>3. n \in 0 .. RSize
  BY <1>2
<1>4. /\ r \in Seq(Udp!Values) /\ Len(r) = n /\ \A i \in 1 .. n : r[i] = Udp!Ahead(i - 1)
  <2>1. Udp!TypeOK /\ rxRD + 0 = rxRD /\ 0 \in Nat
    BY <1>2 DEF UdpInv
  <2>2. /\ Udp!ReadData(rxRD + 0, n) \in Seq(Udp!Values)
        /\ Len(Udp!ReadData(rxRD + 0, n)) = n
        /\ \A i \in 1 .. n : Udp!ReadData(rxRD + 0, n)[i] = Udp!Ahead(0 + i - 1)
    BY <1>3, <2>1, DataRead, Zenon
  <2>3. \A i \in 1 .. n : 0 + i - 1 = i - 1
    BY <1>2
  <2> QED BY <2>1, <2>2, <2>3
<1>5. \A p \in Int : Udp!Ahead(p)' = Udp!Ahead(p + n)
  BY ConsumeMoves DEF UdpInv
<1>6. rxRD' \in Udp!Ptrs
  BY ConsumeMoves DEF UdpInv
<1>7. Udp!TypeOK'
  <2>1. received' \in 0 .. RSize /\ remaining' \in 0 .. MaxLen
    BY <1>2 DEF Udp!Consume
  <2> QED BY <1>6, <2>1 DEF UdpInv, Udp!TypeOK, Udp!Consume, Udp!Cells,
          Udp!Values, Udp!Datagrams
<1>8. WaitInARow'
  <2>1. where[0 + 1] = remaining
    BY <1>1 DEF Row, Udp!InARow
  <2>2. 0 \in 0 .. Len(waiting) /\ Len(waiting') = Len(waiting) - 0
        /\ \A k \in 1 .. Len(waiting) - 0 : waiting'[k] = waiting[k + 0]
    BY <1>2
  <2> QED BY <1>1, <1>2, <2>1, <2>2, RowMoves
<1>9. /\ given \in Seq(Udp!Values) /\ g \in Nat /\ given' \in Seq(Udp!Values)
      /\ Len(given') = g + n
      /\ \A i \in 1 .. g + n : given'[i] = IF i <= g THEN given[i] ELSE r[i - g]
  <2>1. given \in Seq(Udp!Values) /\ g \in Nat
    BY LenProperties DEF UdpInv, FrontIsGiven
  <2> HIDE DEF r
  <2> QED BY <1>4, <2>1, ConcatProperties DEF r
<1>10. /\ g + remaining = Len(current.data) /\ Len(current.data) \in Nat
       /\ \A i \in 1 .. remaining : Udp!Ahead(i - 1) = current.data[g + i]
  <2>1. /\ Len(given) + remaining = Len(current.data)
        /\ \A i \in 1 .. remaining : Udp!Ahead(i - 1) = current.data[Len(given) + i]
    BY DEF UdpInv, RestIsNext
  <2>2. g + remaining \in Nat
    BY <1>2, <1>9
  <2> QED BY <2>1, <2>2
<1> HIDE DEF r, g
<1>11. RestIsNext'
  <2>1. Len(given') + remaining' = Len(current.data)
    <3> DEFINE l == Len(current.data)
    <3>1. g + remaining = l /\ remaining \in Int
      BY <1>2, <1>10
    <3>2. Len(given') = g + n /\ g \in Nat /\ remaining' = remaining - n
      BY <1>9
    <3> HIDE DEF l
    <3>3. (g + n) + (remaining - n) = l
      BY <3>1, <3>2
    <3> QED BY <3>2, <3>3 DEF l
  <2>2. ASSUME NEW i \in 1 .. remaining - n
        PROVE  Udp!Ahead(i - 1)' = current.data[(g + n) + i]
    <3>1. i + n \in 1 .. remaining /\ i - 1 \in Int /\ (i - 1) + n = (i + n) - 1
          /\ g + (i + n) = (g + n) + i
      BY <1>2, <1>9
    <3>2. Udp!Ahead(i - 1)' = Udp!Ahead((i - 1) + n)
      BY <1>5, <3>1
    <3>3. Udp!Ahead((i + n) - 1) = current.data[g + (i + n)]
      BY <1>10, <3>1
    <3> QED BY <3>1, <3>2, <3>3
  <2> QED BY <1>9, <2>1, <2>2 DEF RestIsNext
<1>12. FrontIsGiven'
  <2>1. ASSUME NEW i \in 1 .. g + n
        PROVE  given'[i] = current.data[i]
    <3>1. CASE i <= g
      <4>1. i \in 1 .. g
        BY <1>9, <3>1
      <4> QED BY <1>9, <3>1, <4>1 DEF UdpInv, FrontIsGiven, g
    <3>2. CASE ~(i <= g)
      <4>1. i - g \in 1 .. n /\ i - g \in 1 .. remaining /\ g + (i - g) = i
        BY <1>2, <1>9, <3>2
      <4>2. Udp!Ahead((i - g) - 1) = current.data[g + (i - g)]
        BY <1>10, <4>1
      <4> QED BY <1>4, <1>9, <3>2, <4>1, <4>2
    <3> QED BY <3>1, <3>2
  <2>2. g + n <= Len(current.data)
    BY <1>2, <1>9, <1>10
  <2> QED BY <1>9, <2>1, <2>2 DEF FrontIsGiven
<1>13. SenderIsKnown' /\ ClosedIsEmpty'
  BY DEF UdpInv, SenderIsKnown, ClosedIsEmpty, Udp!Consume, Udp!None
<1> QED BY <1>7, <1>8, <1>11, <1>12, <1>13 DEF UdpInv

(* The header the library reads is the header of the datagram that waits   *)
(* first, and behind it stand its data.                                    *)
LEMMA HeaderRead ==
  ASSUME Udp!ReceiveAssumption, UdpInv, udpOpen, remaining = 0, received > 0
  PROVE  /\ waiting # <<>> /\ Len(waiting) \in Nat \ {0}
         /\ Udp!First(waiting) = waiting[1] /\ waiting[1] \in Udp!Datagrams
         /\ Udp!ReadData(rxRD, Udp!HeadLen)[1] = waiting[1].from
         /\ Udp!ReadData(rxRD, Udp!HeadLen)[2] = Len(waiting[1].data)
         /\ Len(waiting[1].data) \in 0 .. MaxLen
         /\ Udp!HeadLen + Len(waiting[1].data) <= received
         /\ \A i \in 1 .. Len(waiting[1].data) : Udp!Ahead(Udp!HeadLen + i - 1) = waiting[1].data[i]
<1> DEFINE d == waiting[1]
           n == Len(d.data)
<1>1. PICK where : Row(where)
  BY DEF UdpInv, WaitInARow
<1>2. /\ Len(waiting) \in Nat /\ Len(waiting) >= 1 /\ d \in Udp!Datagrams
      /\ where[1] = 0 /\ where[2] = Udp!HeadLen + n /\ where[2] <= received
  BY <1>1, RowFits
<1>3. waiting # <<>> /\ Udp!First(waiting) = d
  BY <1>2, EmptySeq DEF Udp!First
<1>4. /\ n \in 0 .. MaxLen /\ Udp!Framed(d)[1] = d.from /\ Udp!Framed(d)[2] = n
      /\ \A i \in 1 .. n : Udp!Framed(d)[Udp!HeadLen + i] = d.data[i]
  BY <1>2, FramedIs
<1>5. n \in Nat /\ received \in 0 .. RSize /\ RSize \in Nat /\ rxRD \in Nat
  BY <1>4, RingSizes DEF UdpInv, Udp!TypeOK, Udp!Ptrs
<1>6. \A i \in 1 .. Udp!HeadLen + n : Udp!Ahead(i - 1) = Udp!Framed(d)[i]
  <2>1. 1 \in 1 .. Len(waiting)
    BY <1>2
  <2>2. \A i \in 1 .. Udp!HeadLen + n : Udp!Ahead(where[1] + i - 1) = Udp!Framed(d)[i]
    BY <1>1, <2>1 DEF Row, Udp!InARow
  <2> HIDE DEF d, n
  <2>3. \A i \in 1 .. Udp!HeadLen + n : 0 + i - 1 = i - 1
    BY <1>5 DEF Udp!HeadLen
  <2> QED BY <1>2, <2>2, <2>3
<1> HIDE DEF n
<1>7. Udp!HeadLen \in 0 .. RSize /\ Udp!HeadLen = 2
  BY <1>2, <1>5 DEF Udp!HeadLen
<1>8. \A i \in 1 .. Udp!HeadLen : Udp!ReadData(rxRD, Udp!HeadLen)[i] = Udp!Ahead(i - 1)
  <2>1. Udp!TypeOK /\ rxRD + 0 = rxRD /\ 0 \in Nat
    BY <1>5 DEF UdpInv
  <2>2. \A i \in 1 .. Udp!HeadLen : Udp!ReadData(rxRD + 0, Udp!HeadLen)[i] = Udp!Ahead(0 + i - 1)
    BY <1>7, <2>1, DataRead, Zenon
  <2>3. \A i \in 1 .. Udp!HeadLen : 0 + i - 1 = i - 1
    BY <1>7
  <2> QED BY <2>1, <2>2, <2>3
<1>9. /\ Udp!ReadData(rxRD, Udp!HeadLen)[1] = d.from
      /\ Udp!ReadData(rxRD, Udp!HeadLen)[2] = n
  <2>1. 1 \in 1 .. Udp!HeadLen /\ 2 \in 1 .. Udp!HeadLen /\ 1 \in 1 .. Udp!HeadLen + n
        /\ 2 \in 1 .. Udp!HeadLen + n
    BY <1>5, <1>7
  <2> HIDE DEF d
  <2> QED BY <1>4, <1>6, <1>8, <2>1
<1>10. ASSUME NEW i \in 1 .. n PROVE Udp!Ahead(Udp!HeadLen + i - 1) = d.data[i]
  <2>1. PICK j : j = Udp!HeadLen + i
    OBVIOUS
  <2>2. j \in 1 .. Udp!HeadLen + n /\ j - 1 = Udp!HeadLen + i - 1
    BY <1>5, <1>7, <2>1
  <2>3. Udp!Ahead(j - 1) = Udp!Framed(d)[j]
    BY <1>6, <2>2
  <2>4. Udp!Framed(d)[Udp!HeadLen + i] = d.data[i]
    BY <1>4 DEF n
  <2> QED BY <2>1, <2>2, <2>3, <2>4
<1> QED BY <1>2, <1>3, <1>4, <1>9, <1>10 DEF n

(* The header that is read is followed by the rest of the row.             *)
LEMMA RestWaits ==
  ASSUME Udp!ReceiveAssumption, UdpInv, udpOpen, remaining = 0, received > 0,
         NEW n \in Nat, n <= Udp!HeadLen + Len(waiting[1].data), Udp!Consume(n),
         waiting' = SubSeq(waiting, 2, Len(waiting)),
         remaining' = Udp!HeadLen + Len(waiting[1].data) - n
  PROVE  WaitInARow' /\ waiting' \in Seq(Udp!Datagrams)
<1>1. PICK where : Row(where)
  BY DEF UdpInv, WaitInARow
<1>2. /\ Len(waiting) \in Nat /\ Len(waiting) >= 1
      /\ where[2] = Udp!HeadLen + Len(waiting[1].data)
  BY <1>1, RowFits
<1>3. waiting \in Seq(Udp!Datagrams)
  BY DEF UdpInv, Udp!TypeOK
<1>4. /\ waiting' \in Seq(Udp!Datagrams) /\ Len(waiting') = Len(waiting) - 1
      /\ \A k \in 1 .. Len(waiting) - 1 : waiting'[k] = waiting[k + 1]
  <2>1. \A k \in 2 .. Len(waiting) : waiting[k] \in Udp!Datagrams
    BY <1>2, <1>3, ElementOfSeq
  <2>2. 2 <= Len(waiting) + 1 /\ Len(waiting) \in Int /\ 2 \in Int
    BY <1>2
  <2>3. /\ SubSeq(waiting, 2, Len(waiting)) \in Seq(Udp!Datagrams)
        /\ Len(SubSeq(waiting, 2, Len(waiting)))
             = IF 2 <= Len(waiting) THEN Len(waiting) - 2 + 1 ELSE 0
        /\ \A k \in 1 .. Len(waiting) - 2 + 1 :
             SubSeq(waiting, 2, Len(waiting))[k] = waiting[2 + k - 1]
    BY <1>2, <1>3, SubSeqProperties
  <2>4. ASSUME NEW k \in 1 .. Len(waiting) - 1
        PROVE  waiting'[k] = waiting[k + 1]
    <3>1. 2 + k - 1 = k + 1 /\ k \in 1 .. Len(waiting) - 2 + 1
      BY <1>2
    <3>2. SubSeq(waiting, 2, Len(waiting))[k] = waiting[2 + k - 1]
      BY <2>3, <3>1
    <3> QED BY <3>1, <3>2
  <2>5. Len(waiting') = Len(waiting) - 1
    <3>1. Len(SubSeq(waiting, 2, Len(waiting))) = IF 2 <= Len(waiting) THEN Len(waiting) - 2 + 1 ELSE 0
      BY <2>3
    <3>2. PICK l : l = Len(waiting)
      OBVIOUS
    <3>3. (IF 2 <= l THEN l - 2 + 1 ELSE 0) = l - 1
      BY <1>2, <3>2
    <3> QED BY <3>1, <3>2, <3>3
  <2>6. waiting' \in Seq(Udp!Datagrams)
    BY <2>3
  <2> QED BY <2>4, <2>5, <2>6
<1>5. 1 \in 0 .. Len(waiting) /\ n <= where[1 + 1] /\ remaining' = where[1 + 1] - n
  <2>1. 1 + 1 = 2 /\ 1 \in 0 .. Len(waiting)
    BY <1>2
  <2>2. PICK l : l = Udp!HeadLen + Len(waiting[1].data)
    OBVIOUS
  <2>3. n <= l /\ remaining' = l - n
    <3> DEFINE d == Len(waiting[1].data)
    <3>1. /\ n <= Udp!HeadLen + d /\ remaining' = Udp!HeadLen + d - n
          /\ l = Udp!HeadLen + d
      BY <2>2
    <3>2. d \in Nat
      <4>1. d \in 0 .. MaxLen /\ MaxLen \in Nat
        BY HeaderRead, RingSizes
      <4> HIDE DEF d
      <4> QED BY <4>1
    <3> HIDE DEF d
    <3> QED BY <3>1, <3>2 DEF Udp!HeadLen
  <2>4. where[2] = l
    BY <1>2, <2>2
  <2> QED BY <2>1, <2>3, <2>4
<1>6. WaitInARow'
  BY <1>1, <1>4, <1>5, RowMoves
<1> QED BY <1>4, <1>6

(* The header of the next datagram.                                        *)
LEMMA HeaderKeeps ==
  ASSUME Udp!ReceiveAssumption, UdpInv, Udp!ReadHeader
  PROVE  UdpInv'
<1> DEFINE d == waiting[1]
           n == Len(d.data)
<1>1. udpOpen /\ remaining = 0 /\ received > 0
  BY DEF UdpInv, ClosedIsEmpty, Udp!ReadHeader, Udp!AtHeader
<1>2. /\ Udp!First(waiting) = d /\ d \in Udp!Datagrams /\ n \in 0 .. MaxLen
      /\ Udp!ReadData(rxRD, Udp!HeadLen)[1] = d.from
      /\ Udp!ReadData(rxRD, Udp!HeadLen)[2] = n
      /\ Udp!HeadLen + n <= received
      /\ \A i \in 1 .. n : Udp!Ahead(Udp!HeadLen + i - 1) = d.data[i]
  BY <1>1, HeaderRead
<1>3. /\ n \in Nat /\ received \in 0 .. RSize /\ RSize \in Nat /\ Udp!HeadLen = 2
      /\ d.from \in Udp!Values /\ d.data \in Seq(Udp!Values)
  BY <1>2, RingSizes, FramedIs DEF UdpInv, Udp!TypeOK, Udp!HeadLen
<1>4. Udp!Smaller(received, Udp!HeadLen) = Udp!HeadLen
  BY <1>2, <1>3 DEF Udp!Smaller
<1>5. /\ Udp!Consume(Udp!HeadLen) /\ remote' = d.from /\ remaining' = n
      /\ udpPc' = "sketch"
      /\ current' = d /\ waiting' = SubSeq(waiting, 2, Len(waiting)) /\ given' = <<>>
  BY <1>2, <1>4 DEF Udp!ReadHeader
<1>6. WaitInARow' /\ waiting' \in Seq(Udp!Datagrams)
  <2>1. /\ Udp!HeadLen \in Nat /\ Udp!HeadLen <= Udp!HeadLen + n
        /\ remaining' = Udp!HeadLen + n - Udp!HeadLen
    <3> HIDE DEF n
    <3> QED BY <1>3, <1>5
  <2> QED BY <1>1, <1>5, <2>1, RestWaits
<1>7. rxRD' \in Udp!Ptrs /\ \A p \in Int : Udp!Ahead(p)' = Udp!Ahead(p + Udp!HeadLen)
  BY <1>3, <1>5, ConsumeMoves DEF UdpInv
<1>8. Udp!TypeOK'
  <2>1. received' \in 0 .. RSize
    <3> HIDE DEF n
    <3> QED BY <1>2, <1>3, <1>5 DEF Udp!Consume
  <2>2. rxRing' \in [Udp!Cells -> Udp!Values] /\ udpOpen' \in BOOLEAN
    BY <1>5 DEF UdpInv, Udp!TypeOK, Udp!Consume
  <2> QED BY <1>2, <1>3, <1>5, <1>6, <1>7, <2>1, <2>2 DEF Udp!TypeOK
<1>9. RestIsNext'
  <2>1. Len(given') + remaining' = n
    BY <1>3, <1>5
  <2>2. ASSUME NEW i \in 1 .. n
        PROVE  Udp!Ahead(i - 1)' = d.data[i]
    <3>1. i - 1 \in Int /\ (i - 1) + Udp!HeadLen = Udp!HeadLen + i - 1
      BY <1>3
    <3> QED BY <1>2, <1>7, <3>1
  <2>3. \A i \in 1 .. n : Len(given') + i = i
    BY <1>3, <1>5
  <2> QED BY <1>5, <2>1, <2>2, <2>3 DEF RestIsNext
<1>10. FrontIsGiven'
  BY <1>3, <1>5 DEF FrontIsGiven
<1>11. SenderIsKnown' /\ ClosedIsEmpty'
  BY <1>1, <1>5 DEF SenderIsKnown, ClosedIsEmpty, Udp!Consume
<1> QED BY <1>6, <1>8, <1>9, <1>10, <1>11 DEF UdpInv

(* Header and data at once.                                                *)
LEMMA RecvFromKeeps ==
  ASSUME Udp!ReceiveAssumption, UdpInv, Udp!RecvFrom
  PROVE  UdpInv'
<1> DEFINE d == waiting[1]
           n == Len(d.data)
<1>1. udpOpen /\ remaining = 0 /\ received > 0
  BY DEF Udp!RecvFrom
<1>2. /\ Udp!First(waiting) = d /\ d \in Udp!Datagrams /\ n \in 0 .. MaxLen
      /\ Udp!ReadData(rxRD, Udp!HeadLen)[1] = d.from
      /\ Udp!ReadData(rxRD, Udp!HeadLen)[2] = n
      /\ Udp!HeadLen + n <= received
      /\ \A i \in 1 .. n : Udp!Ahead(Udp!HeadLen + i - 1) = d.data[i]
  BY <1>1, HeaderRead
<1>3. /\ n \in Nat /\ received \in 0 .. RSize /\ RSize \in Nat /\ Udp!HeadLen = 2
      /\ d.from \in Udp!Values /\ d.data \in Seq(Udp!Values)
  BY <1>2, RingSizes, FramedIs DEF UdpInv, Udp!TypeOK, Udp!HeadLen
<1>4. /\ Udp!Consume(Udp!HeadLen + n) /\ remote' = d.from /\ udpPc' = udpPc
      /\ udpPc = "sketch"
      /\ remaining' = remaining
      /\ current' = d /\ waiting' = SubSeq(waiting, 2, Len(waiting))
      /\ given' = Udp!ReadData(rxRD + Udp!HeadLen, n)
  BY <1>2 DEF Udp!RecvFrom
<1>5. WaitInARow' /\ waiting' \in Seq(Udp!Datagrams)
  <2>1. Udp!HeadLen + n \in Nat /\ Udp!HeadLen + n <= Udp!HeadLen + n
        /\ remaining' = Udp!HeadLen + n - (Udp!HeadLen + n)
    <3> HIDE DEF n
    <3> QED BY <1>1, <1>3, <1>4
  <2> QED BY <1>1, <1>4, <2>1, RestWaits
<1>6. rxRD' \in Udp!Ptrs
  <2>1. Udp!HeadLen + n \in Nat
    <3> HIDE DEF n
    <3> QED BY <1>3
  <2> QED BY <1>4, <2>1, ConsumeMoves DEF UdpInv
<1>7. Udp!TypeOK'
  <2>1. received' \in 0 .. RSize
    <3> HIDE DEF n
    <3> QED BY <1>2, <1>3, <1>4 DEF Udp!Consume
  <2>2. rxRing' \in [Udp!Cells -> Udp!Values] /\ udpOpen' \in BOOLEAN
    BY <1>4 DEF UdpInv, Udp!TypeOK, Udp!Consume
  <2> QED BY <1>2, <1>3, <1>4, <1>5, <1>6, <2>1, <2>2 DEF UdpInv, Udp!TypeOK
<1>8. /\ given' \in Seq(Udp!Values) /\ Len(given') = n
      /\ \A i \in 1 .. n : given'[i] = Udp!Ahead(Udp!HeadLen + i - 1)
  <2>1. n \in 0 .. RSize /\ Udp!HeadLen \in Nat
    <3> HIDE DEF n
    <3> QED BY <1>2, <1>3
  <2> QED BY <1>4, <2>1, DataRead DEF UdpInv
<1>9. RestIsNext'
  BY <1>1, <1>3, <1>4, <1>8 DEF RestIsNext
<1>10. FrontIsGiven'
  <2>1. Len(given') <= Len(current'.data)
    BY <1>3, <1>4, <1>8
  <2>2. ASSUME NEW i \in 1 .. Len(given')
        PROVE  given'[i] = current'.data[i]
    BY <1>2, <1>4, <1>8
  <2> QED BY <1>8, <2>1, <2>2 DEF FrontIsGiven
<1>11. SenderIsKnown' /\ ClosedIsEmpty'
  BY <1>1, <1>4 DEF SenderIsKnown, ClosedIsEmpty, Udp!Consume
<1> QED BY <1>5, <1>7, <1>9, <1>10, <1>11 DEF UdpInv

(* A datagram comes to stand behind all that the chip holds.               *)
LEMMA CellsOfArrival ==
  ASSUME Udp!ReceiveAssumption, UdpInv, NEW d \in Udp!Datagrams, Udp!Arrive(d)
  PROVE  /\ rxRing' \in [Udp!Cells -> Udp!Values]
         /\ \A p \in 0 .. received - 1 : Udp!Ahead(p)' = Udp!Ahead(p)
         /\ \A p \in received .. received + (Udp!HeadLen + Len(d.data)) - 1 :
              Udp!Ahead(p)' = Udp!Framed(d)[p - received + 1]
<1> DEFINE n == Udp!HeadLen + Len(d.data)
           x == rxRD + received
<1>1. /\ n \in Nat /\ received + n <= RSize /\ RSize \in Nat \ {0} /\ rxRD \in Nat
      /\ received \in 0 .. RSize /\ rxRD' = rxRD
  <2>1. Len(d.data) \in 0 .. MaxLen /\ MaxLen \in Nat
    BY FramedIs, RingSizes
  <2>2. n \in Nat
    BY <2>1 DEF Udp!HeadLen
  <2>3. RSize \in Nat \ {0} /\ rxRD \in Nat /\ received \in 0 .. RSize /\ rxRD' = rxRD
    BY RingSizes DEF UdpInv, Udp!TypeOK, Udp!Ptrs, Udp!Arrive
  <2> QED BY <2>2, <2>3 DEF Udp!Arrive
<1>2. rxRing' = [c \in Udp!Cells |->
                 IF (c - x) % RSize < n THEN Udp!Framed(d)[((c - x) % RSize) + 1] ELSE rxRing[c]]
  BY DEF Udp!Arrive
<1>3. \A i \in 1 .. n : Udp!Framed(d)[i] \in Udp!Values
  BY FramedIs
<1> HIDE DEF n
<1>4. x \in Int
  BY <1>1
<1> HIDE DEF x
<1>5. rxRing' \in [Udp!Cells -> Udp!Values]
  <2> SUFFICES ASSUME NEW c \in Udp!Cells
               PROVE  (IF (c - x) % RSize < n THEN Udp!Framed(d)[((c - x) % RSize) + 1] ELSE rxRing[c])
                        \in Udp!Values
    BY <1>2
  <2>1. (c - x) % RSize \in 0 .. RSize - 1
    <3>1. c - x \in Int
      BY <1>1, <1>4 DEF Udp!Cells
    <3> QED BY <1>1, <3>1, DivMod
  <2>2. rxRing[c] \in Udp!Values
    BY DEF UdpInv, Udp!TypeOK
  <2>3. PICK k : k = (c - x) % RSize
    OBVIOUS
  <2>4. k < n => k + 1 \in 1 .. n
    BY <1>1, <2>1, <2>3
  <2>5. k < n => Udp!Framed(d)[k + 1] \in Udp!Values
    BY <1>3, <2>4
  <2> QED BY <2>2, <2>3, <2>5
(* How far behind the last byte of before a cell is.                       *)
<1>6. ASSUME NEW p \in 0 .. RSize - 1
      PROVE  /\ (rxRD + p) % RSize \in Udp!Cells
             /\ (((rxRD + p) % RSize) - x) % RSize
                  = IF p < received THEN p - received + RSize ELSE p - received
  <2>1. (rxRD + p) % RSize \in Udp!Cells
    <3>1. rxRD + p \in Int /\ 0 \in Int
      BY <1>1
    <3> QED BY <3>1, CellBehind
  <2>2. PICK a : a = rxRD + p
    OBVIOUS
  <2>3. PICK b : b = -x
    OBVIOUS
  <2>4. a \in Int /\ b \in Int /\ a + b = p - received
    BY <1>1, <1>4, <2>2, <2>3 DEF x
  <2>5. ((a % RSize) + b) % RSize = (a + b) % RSize
    BY <2>4, CellBehind
  <2>6. ((rxRD + p) % RSize) - x = (a % RSize) + b
    <3>1. PICK c : c = (rxRD + p) % RSize
      OBVIOUS
    <3>2. c \in Int
      BY <1>1, <2>1, <3>1 DEF Udp!Cells
    <3>3. c - x = c + b
      BY <1>4, <2>3, <3>2
    <3> QED BY <2>2, <3>1, <3>3
  <2>7. CASE p < received
    <3>1. PICK q : q = p - received + RSize
      OBVIOUS
    <3>2. q \in 0 .. RSize - 1 /\ p - received \in Int /\ (p - received) + RSize = q
      BY <1>1, <2>7, <3>1
    <3>3. q % RSize = q
      BY <1>1, <3>2, ModOfSmall
    <3>4. ((p - received) + RSize) % RSize = (p - received) % RSize
      BY <1>1, <3>2, ModOnce
    <3> QED BY <2>1, <2>4, <2>5, <2>6, <2>7, <3>1, <3>2, <3>3, <3>4
  <2>8. CASE ~(p < received)
    <3>1. PICK q : q = p - received
      OBVIOUS
    <3>2. q \in 0 .. RSize - 1
      BY <1>1, <2>8, <3>1
    <3>3. q % RSize = q
      BY <1>1, <3>2, ModOfSmall
    <3> QED BY <2>1, <2>4, <2>5, <2>6, <2>8, <3>1, <3>3
  <2> QED BY <2>7, <2>8
<1>7. ASSUME NEW p \in 0 .. received - 1
      PROVE  Udp!Ahead(p)' = Udp!Ahead(p)
  <2>1. p \in 0 .. RSize - 1 /\ p < received /\ ~(p - received + RSize < n)
    BY <1>1
  <2>2. PICK c \in Udp!Cells : c = (rxRD + p) % RSize /\ (c - x) % RSize = p - received + RSize
    BY <1>6, <2>1
  <2>3. rxRing'[c] = rxRing[c]
    BY <1>2, <2>1, <2>2
  <2> QED BY <1>1, <2>2, <2>3 DEF Udp!Ahead
<1>8. ASSUME NEW p \in received .. received + n - 1
      PROVE  Udp!Ahead(p)' = Udp!Framed(d)[p - received + 1]
  <2>1. p \in 0 .. RSize - 1 /\ ~(p < received) /\ p - received < n
    BY <1>1
  <2>2. PICK c \in Udp!Cells : c = (rxRD + p) % RSize /\ (c - x) % RSize = p - received
    BY <1>6, <2>1
  <2>3. rxRing'[c] = Udp!Framed(d)[p - received + 1]
    BY <1>2, <2>1, <2>2
  <2> QED BY <1>1, <2>2, <2>3 DEF Udp!Ahead
<1> QED BY <1>5, <1>7, <1>8 DEF n

LEMMA ArriveKeeps ==
  ASSUME Udp!ReceiveAssumption, UdpInv, NEW d \in Udp!Datagrams, Udp!Arrive(d)
  PROVE  UdpInv'
<1>0. PICK where : Row(where)
  BY DEF UdpInv, WaitInARow, Udp!Arrive
<1>1. PICK n : n = Udp!HeadLen + Len(d.data)
  OBVIOUS
<1>2. PICK h : h = received
  OBVIOUS
<1>3. PICK m : m = Len(waiting)
  OBVIOUS
<1>4. /\ n \in Nat /\ h \in 0 .. RSize /\ RSize \in Nat /\ h + n <= RSize /\ m \in Nat
      /\ udpOpen /\ received' = h + n /\ waiting \in Seq(Udp!Datagrams)
      /\ waiting' = Append(waiting, d)
      /\ UNCHANGED <<udpOpen, rxRD, remaining, remote, udpPc, current, given>>
  <2>1. Len(d.data) \in 0 .. MaxLen /\ MaxLen \in Nat
    BY FramedIs, RingSizes
  <2>2. n \in Nat
    BY <1>1, <2>1 DEF Udp!HeadLen
  <2>3. /\ h \in 0 .. RSize /\ RSize \in Nat
        /\ waiting \in Seq(Udp!Datagrams) /\ m \in Nat
    BY <1>2, <1>3, RingSizes, LenProperties DEF UdpInv, Udp!TypeOK
  <2> QED BY <1>1, <1>2, <2>2, <2>3 DEF Udp!Arrive, Udp!udpVars
<1>5. /\ rxRing' \in [Udp!Cells -> Udp!Values]
      /\ \A p \in 0 .. h - 1 : Udp!Ahead(p)' = Udp!Ahead(p)
      /\ \A p \in h .. h + n - 1 : Udp!Ahead(p)' = Udp!Framed(d)[p - h + 1]
  BY <1>1, <1>2, CellsOfArrival
<1>6. /\ waiting' \in Seq(Udp!Datagrams) /\ Len(waiting') = m + 1
      /\ waiting'[m + 1] = d
      /\ \A k \in 1 .. m : waiting'[k] = waiting[k]
  BY <1>3, <1>4, AppendProperties
<1>7. Udp!TypeOK'
  <2>1. received' \in 0 .. RSize
    BY <1>4
  <2> QED BY <1>4, <1>5, <1>6, <2>1 DEF UdpInv, Udp!TypeOK
(* The row grows by one place.                                             *)
<1>8. WaitInARow'
  <2>1. PICK w : w = [k \in 1 .. m + 2 |-> IF k <= m + 1 THEN where[k] ELSE h + n]
    OBVIOUS
  <2>2. /\ \A k \in 1 .. m + 1 : where[k] \in 0 .. RSize /\ where[k] \in Nat
        /\ where[m + 1] = h /\ where[1] = remaining
    <3>1. \A k \in 1 .. m + 1 : where[k] \in 0 .. RSize
      BY <1>0, <1>3, RowGrows
    <3>2. where[m + 1] = h /\ where[1] = remaining
      BY <1>0, <1>2, <1>3 DEF Row, Udp!InARow
    <3> QED BY <3>1, <3>2
  <2>3. \A k \in 1 .. m + 1 : w[k] = where[k]
    BY <1>4, <2>1
  <2>4. w[m + 2] = h + n /\ w[m + 1] = h /\ w[1] = remaining
    <3>1. m + 2 \in 1 .. m + 2 /\ ~(m + 2 <= m + 1) /\ m + 1 \in 1 .. m + 1 /\ 1 \in 1 .. m + 1
      BY <1>4
    <3> QED BY <2>1, <2>2, <2>3, <3>1
  <2>5. w \in [1 .. m + 1 + 1 -> 0 .. RSize] /\ DOMAIN w = 1 .. m + 1 + 1
    <3>1. m + 2 = m + 1 + 1 /\ h + n \in 0 .. RSize
      BY <1>4
    <3>2. ASSUME NEW k \in 1 .. m + 2
          PROVE  (IF k <= m + 1 THEN where[k] ELSE h + n) \in 0 .. RSize
      <4>1. k <= m + 1 => k \in 1 .. m + 1
        BY <1>4
      <4> QED BY <2>2, <3>1, <4>1
    <3> QED BY <2>1, <3>1, <3>2
(* A place of before, and the places of the datagrams behind it.           *)
  <2>6. ASSUME NEW j \in 1 .. m
        PROVE  /\ Len(waiting[j].data) \in Nat /\ w[j] \in Nat
               /\ w[j + 1] = w[j] + Udp!HeadLen + Len(waiting[j].data)
               /\ \A k \in j + 1 .. m + 1 : w[j] + Udp!HeadLen + Len(waiting[j].data) <= w[k]
               /\ w[j] + Udp!HeadLen + Len(waiting[j].data) <= h
    <3>1. j \in 1 .. m + 1 /\ j + 1 \in 1 .. m + 1 /\ m + 1 \in j + 1 .. m + 1
          /\ \A k \in j + 1 .. m + 1 : k \in 1 .. m + 1
      BY <1>4
    <3>2. /\ Len(waiting[j].data) \in Nat
          /\ where[j + 1] = where[j] + Udp!HeadLen + Len(waiting[j].data)
      BY <1>0, <1>3, RowGrows
    <3>3. \A k \in j + 1 .. m + 1 : where[j] + Udp!HeadLen + Len(waiting[j].data) <= where[k]
      BY <1>0, <1>3 DEF Row
    <3>4. where[j] + Udp!HeadLen + Len(waiting[j].data) <= h
      BY <2>2, <3>1, <3>3
    <3> QED BY <2>2, <2>3, <3>1, <3>2, <3>3, <3>4
  <2>7. \A i \in 1 .. Udp!HeadLen + Len(d.data) : Udp!Ahead(w[m + 1] + i - 1)' = Udp!Framed(d)[i]
    <3> SUFFICES ASSUME NEW i \in 1 .. n
                 PROVE  Udp!Ahead(w[m + 1] + i - 1)' = Udp!Framed(d)[i]
      BY <1>1
    <3>1. PICK p : p = w[m + 1] + i - 1
      OBVIOUS
    <3>2. p \in h .. h + n - 1 /\ p - h + 1 = i
      BY <1>4, <2>4, <3>1
    <3>3. Udp!Ahead(p)' = Udp!Framed(d)[i]
      BY <1>5, <3>2
    <3> QED BY <3>1, <3>3
  <2>8. ASSUME NEW j \in 1 .. m, NEW i \in 1 .. Udp!HeadLen + Len(waiting[j].data)
        PROVE  Udp!Ahead(w[j] + i - 1)' = Udp!Framed(waiting[j])[i]
    <3>1. PICK p : p = w[j] + i - 1
      OBVIOUS
    <3>2. p \in 0 .. h - 1
      <4>1. PICK l : l = Len(waiting[j].data)
        OBVIOUS
      <4>2. /\ i \in 1 .. Udp!HeadLen + l /\ l \in Nat /\ w[j] \in Nat
            /\ w[j] + Udp!HeadLen + l <= h
        BY <2>6, <4>1
      <4> QED BY <1>4, <3>1, <4>2 DEF Udp!HeadLen
    <3>3. Udp!Ahead(p) = Udp!Framed(waiting[j])[i]
      <4>1. w[j] = where[j]
        BY <1>4, <2>3
      <4>2. Udp!Ahead(where[j] + i - 1) = Udp!Framed(waiting[j])[i]
        BY <1>0, <1>3 DEF Row, Udp!InARow
      <4> QED BY <3>1, <4>1, <4>2
    <3>4. Udp!Ahead(p)' = Udp!Ahead(p)
      BY <1>5, <3>2
    <3> QED BY <3>1, <3>3, <3>4
  <2>9. ASSUME NEW k \in 1 .. m + 1
        PROVE  /\ w[k + 1] = w[k] + Udp!HeadLen + Len(waiting'[k].data)
               /\ \A i \in 1 .. Udp!HeadLen + Len(waiting'[k].data) :
                    Udp!Ahead(w[k] + i - 1)' = Udp!Framed(waiting'[k])[i]
    <3>1. CASE k \in 1 .. m
      BY <1>6, <2>6, <2>8, <3>1
    <3>2. CASE k = m + 1
      <4>1. w[k + 1] = w[m + 2]
        BY <1>4, <3>2
      <4>2. w[k + 1] = w[k] + Udp!HeadLen + Len(d.data)
        <5>1. PICK l : l = Len(d.data)
          OBVIOUS
        <5>2. l \in Nat
          <6>1. l \in 0 .. MaxLen /\ MaxLen \in Nat
            BY <5>1, FramedIs, RingSizes
          <6> QED BY <6>1
        <5>3. w[k + 1] = h + (Udp!HeadLen + l) /\ w[k] = h
          BY <1>1, <2>4, <3>2, <4>1, <5>1
        <5>4. h + (Udp!HeadLen + l) = h + Udp!HeadLen + l
          BY <1>4, <5>2 DEF Udp!HeadLen
        <5> QED BY <5>1, <5>3, <5>4
      <4> QED BY <1>6, <2>7, <3>2, <4>2
    <3>3. k \in 1 .. m \/ k = m + 1
      BY <1>4
    <3> QED BY <3>1, <3>2, <3>3
  <2>10. Udp!InARow(w)'
    <3>1. w[1] = remaining' /\ w[Len(waiting') + 1] = received'
      <4>1. Len(waiting') + 1 = m + 2
        BY <1>4, <1>6
      <4> QED BY <1>4, <2>4, <4>1
    <3> QED BY <1>6, <2>9, <3>1 DEF Udp!InARow
  <2>11. ASSUME NEW j \in 1 .. m + 1, NEW k \in j + 1 .. m + 1 + 1
         PROVE  w[j] + Udp!HeadLen + Len(waiting'[j].data) <= w[k]
    <3>1. CASE j \in 1 .. m
      <4>1. waiting'[j] = waiting[j]
        BY <1>6, <3>1
      <4>2. PICK l : l = w[j] + Udp!HeadLen + Len(waiting[j].data)
        OBVIOUS
      <4>3. l <= h /\ \A i \in j + 1 .. m + 1 : l <= w[i]
        BY <2>6, <3>1, <4>2
      <4>4. l \in Nat
        BY <2>6, <3>1, <4>2 DEF Udp!HeadLen
      <4>5. CASE k = m + 2
        <5>1. w[k] = h + n /\ l <= h
          BY <2>4, <4>3, <4>5
        <5>2. l <= w[k]
          BY <1>4, <4>4, <5>1
        <5> QED BY <4>1, <4>2, <5>2
      <4>6. CASE k # m + 2
        <5>1. k \in j + 1 .. m + 1
          BY <1>4, <3>1, <4>6
        <5> QED BY <4>1, <4>2, <4>3, <5>1
      <4> QED BY <4>5, <4>6
    <3>2. CASE j = m + 1
      <4>1. k = m + 2 /\ k = j + 1
        BY <1>4, <3>2
      <4>2. w[j + 1] = w[j] + Udp!HeadLen + Len(waiting'[j].data)
        BY <2>9
      <4>3. w[k] \in Int
        BY <1>4, <2>4, <4>1
      <4> QED BY <4>1, <4>2, <4>3
    <3>3. j \in 1 .. m \/ j = m + 1
      BY <1>4
    <3> QED BY <3>1, <3>2, <3>3
  <2>12. Row(w)'
    BY <1>6, <2>5, <2>10, <2>11 DEF Row
  <2> QED BY <2>12 DEF WaitInARow
<1>9. RestIsNext'
  <2>1. remaining <= h /\ remaining \in Nat
    <3>1. remaining <= received
      BY <1>0, <1>4, RowFits
    <3>2. remaining \in 0 .. MaxLen /\ MaxLen \in Nat
      BY RingSizes DEF UdpInv, Udp!TypeOK
    <3> QED BY <1>2, <3>1, <3>2
  <2>2. ASSUME NEW i \in 1 .. remaining
        PROVE  Udp!Ahead(i - 1)' = Udp!Ahead(i - 1)
    <3>1. i - 1 \in 0 .. h - 1
      BY <1>4, <2>1
    <3> QED BY <1>5, <3>1
  <2> QED BY <1>4, <2>2 DEF UdpInv, RestIsNext
<1>10. FrontIsGiven' /\ SenderIsKnown' /\ ClosedIsEmpty'
  BY <1>4 DEF UdpInv, FrontIsGiven, SenderIsKnown, ClosedIsEmpty, Udp!None
<1> QED BY <1>7, <1>8, <1>9, <1>10 DEF UdpInv

-----------------------------------------------------------------------------
(* A step that moves no byte.                                              *)
LEMMA StandsStill ==
  ASSUME Udp!ReceiveAssumption, UdpInv,
         UNCHANGED <<udpOpen, rxRing, rxRD, received, remaining, remote, waiting, current, given>>,
         udpPc' \in {"sketch", "flush", "parse"}, udpOpen \/ udpPc' = "sketch"
  PROVE  UdpInv'
<1>1. Udp!TypeOK'
  BY DEF UdpInv, Udp!TypeOK, Udp!Cells, Udp!Ptrs, Udp!Values, Udp!Datagrams,
     Udp!None
<1>2. WaitInARow'
  BY DEF UdpInv, WaitInARow, Row, Udp!InARow, Udp!Ahead
<1>3. RestIsNext' /\ FrontIsGiven' /\ SenderIsKnown' /\ ClosedIsEmpty'
  BY DEF UdpInv, RestIsNext, FrontIsGiven, SenderIsKnown, ClosedIsEmpty,
     Udp!Ahead, Udp!Values, Udp!None
<1> QED BY <1>1, <1>2, <1>3 DEF UdpInv

LEMMA UdpStarts ==
  ASSUME Udp!ReceiveAssumption, Udp!Init
  PROVE  UdpInv
<1>1. /\ udpOpen = TRUE /\ remaining = 0 /\ received = 0 /\ waiting = <<>>
      /\ current = Udp!None
      /\ given = <<>> /\ rxRD = 0 /\ remote = 0 /\ udpPc = "sketch"
      /\ Len(waiting) = 0 /\ Len(given) = 0 /\ Len(current.data) = 0
  BY DEF Udp!Init, Udp!None
<1>2. /\ RSize \in Nat /\ MaxLen \in Nat /\ RPtrRange \in Nat \ {0}
      /\ 0 \in 0 .. MaxLen
      /\ 0 \in 0 .. RSize
  BY RingSizes
<1>3. Udp!TypeOK
  <2>1. 0 \in Udp!Values /\ rxRing \in [Udp!Cells -> Udp!Values]
    BY <1>2 DEF Udp!Init, Udp!Values
  <2>2. rxRD \in Udp!Ptrs
    BY <1>1, <1>2 DEF Udp!Ptrs
  <2>3. waiting \in Seq(Udp!Datagrams)
    BY <1>1, EmptySeq
  <2> QED BY <1>1, <1>2, <2>1, <2>2, <2>3 DEF Udp!TypeOK
<1>4. WaitInARow
  <2>1. PICK w : w = [k \in 1 .. 1 |-> 0]
    OBVIOUS
  <2>2. w \in [1 .. 0 + 1 -> 0 .. RSize] /\ w[1] = 0
    BY <1>2, <2>1
  <2>3. Row(w)
    BY <1>1, <2>2 DEF Row, Udp!InARow
  <2> QED BY <2>3 DEF WaitInARow
<1>5. RestIsNext /\ FrontIsGiven /\ SenderIsKnown /\ ClosedIsEmpty
  BY <1>1, <1>2 DEF RestIsNext, FrontIsGiven, SenderIsKnown, ClosedIsEmpty,
     Udp!None
<1> QED BY <1>3, <1>4, <1>5 DEF UdpInv

(* Every step of the chip and of the library keeps the invariant.          *)
LEMMA UdpSteps ==
  ASSUME Udp!ReceiveAssumption, UdpInv, [Udp!Next]_(Udp!recvVars)
  PROVE  UdpInv'
<1>1. CASE UNCHANGED Udp!recvVars
  <2>1. UNCHANGED <<udpOpen, rxRing, rxRD, received, remaining, remote, udpPc, waiting, current, given>>
    BY <1>1 DEF Udp!recvVars, Udp!chipVars, Udp!udpVars
  <2> QED BY <2>1, StandsStill DEF UdpInv, ClosedIsEmpty, Udp!TypeOK
<1>2. ASSUME NEW d \in Udp!Datagrams, Udp!Arrive(d) PROVE UdpInv'
  BY <1>2, ArriveKeeps
<1>3. ASSUME NEW len \in 1 .. MaxLen, Udp!Read(len) PROVE UdpInv'
  <2>1. PICK n : n = Udp!Smaller(Udp!Asked(len), received)
    OBVIOUS
  <2>2. /\ remaining \in 0 .. MaxLen /\ received \in 0 .. RSize /\ MaxLen \in Nat
        /\ RSize \in Nat /\ len \in Nat
    BY RingSizes DEF UdpInv, Udp!TypeOK
  <2>3. n \in Nat /\ n <= remaining
    BY <2>1, <2>2 DEF Udp!Smaller, Udp!Asked
  <2>4. /\ udpOpen /\ Udp!Consume(n) /\ remaining' = remaining - n
        /\ given' = given \o Udp!ReadData(rxRD, n)
        /\ UNCHANGED <<remote, udpPc, waiting, current>>
    BY <1>3, <2>1 DEF Udp!Read
  <2> QED BY <2>3, <2>4, BytesTaken
<1>4. CASE Udp!Flush \/ Udp!ParsePacket \/ Udp!FlushEnd \/ Udp!NoPacket
  <2>1. /\ UNCHANGED <<udpOpen, rxRing, rxRD, received, remaining, remote, waiting, current, given>>
        /\ udpPc' \in {"sketch", "flush", "parse"} /\ (udpOpen \/ udpPc' = "sketch")
    <3>1. CASE Udp!Flush
      BY <3>1 DEF Udp!Flush, Udp!chipVars
    <3>2. CASE Udp!ParsePacket
      BY <3>2 DEF Udp!ParsePacket, Udp!chipVars
    <3>3. CASE Udp!FlushEnd
      BY <3>3 DEF Udp!FlushEnd, Udp!chipVars
    <3>4. CASE Udp!NoPacket
      BY <3>4 DEF Udp!NoPacket, Udp!chipVars
    <3> QED BY <1>4, <3>1, <3>2, <3>3, <3>4
  <2> QED BY <2>1, StandsStill
<1>5. CASE Udp!FlushByte
  <2>1. remaining \in 0 .. MaxLen /\ MaxLen \in Nat /\ remaining > 0
    BY <1>5, RingSizes DEF Udp!FlushByte, UdpInv, Udp!TypeOK
  <2>0. udpOpen
    BY <1>5 DEF Udp!FlushByte, UdpInv, ClosedIsEmpty
  <2>2. 1 \in Nat /\ 1 <= remaining
    BY <2>1
  <2> QED BY <1>5, <2>0, <2>1, <2>2, BytesTaken DEF Udp!FlushByte
<1>6. CASE Udp!ReadHeader
  BY <1>6, HeaderKeeps
<1>7. CASE Udp!RecvFrom
  BY <1>7, RecvFromKeeps
<1>8. CASE Udp!Stop
  <2>1. /\ udpOpen' = FALSE /\ received' = 0 /\ waiting' = <<>>
        /\ current' = Udp!None /\ given' = <<>>
        /\ udpPc = "sketch" /\ UNCHANGED <<rxRing, rxRD, remaining, remote, udpPc>>
    BY <1>8 DEF Udp!Stop, Udp!udpVars
  <2>2. RSize \in Nat /\ <<>> \in Seq(Udp!Datagrams)
    BY RingSizes, EmptySeq
  <2>3. Udp!TypeOK'
    <3>1. udpOpen' \in BOOLEAN /\ received' \in 0 .. RSize
      <4>1. 0 \in 0 .. RSize
        BY <2>2
      <4>2. udpOpen' = FALSE /\ received' = 0
        BY <2>1
      <4> QED BY <4>1, <4>2, Zenon
    <3>2. waiting' \in Seq(Udp!Datagrams) /\ current' \in Udp!Datagrams \cup {Udp!None}
      BY <2>1, <2>2
    <3> QED BY <2>1, <3>1, <3>2 DEF UdpInv, Udp!TypeOK
  <2>4. Len(given') = 0 /\ Len(current'.data) = 0
    BY <2>1 DEF Udp!None
  <2> QED BY <2>1, <2>3, <2>4 DEF UdpInv, WaitInARow, RestIsNext, FrontIsGiven,
          SenderIsKnown,
                                  ClosedIsEmpty, Udp!None
<1>9. CASE Udp!Begin
  <2>1. /\ udpOpen' = TRUE /\ remaining' = 0 /\ udpPc = "sketch"
        /\ received = 0 /\ waiting = <<>>
        /\ current = Udp!None /\ given = <<>>
        /\ UNCHANGED <<rxRing, rxRD, received, remote, udpPc, waiting, current, given>>
    BY <1>9 DEF Udp!Begin, Udp!Fresh, UdpInv, ClosedIsEmpty
  <2>2. RSize \in Nat /\ MaxLen \in Nat
    BY RingSizes
  <2>3. Udp!TypeOK'
    BY <2>1, <2>2 DEF UdpInv, Udp!TypeOK
  <2>4. WaitInARow'
    <3>1. PICK w : w = [k \in 1 .. 1 |-> 0]
      OBVIOUS
    <3>2. w \in [1 .. 0 + 1 -> 0 .. RSize] /\ w[1] = 0 /\ Len(waiting') = 0
      BY <2>1, <2>2, <3>1
    <3>3. Row(w)'
      BY <2>1, <3>2 DEF Row, Udp!InARow
    <3> QED BY <3>3 DEF WaitInARow
  <2>5. Len(given') = 0 /\ Len(current'.data) = 0
    BY <2>1 DEF Udp!None
  <2> QED BY <2>1, <2>3, <2>4, <2>5 DEF UdpInv, RestIsNext, FrontIsGiven,
          SenderIsKnown,
                                         ClosedIsEmpty, Udp!None
<1> QED BY <1>1, <1>2, <1>3, <1>4, <1>5, <1>6, <1>7, <1>8, <1>9 DEF Udp!Next,
        Udp!Library

(* What the sketch is given is the front of the datagram.                  *)
LEMMA FrontOfDatagram ==
  ASSUME Udp!ReceiveAssumption, UdpInv
  PROVE  given = SubSeq(current.data, 1, Len(given))
<1>1. PICK g : g = Len(given)
  OBVIOUS
<1>2. PICK s : s = SubSeq(current.data, 1, g)
  OBVIOUS
<1>3. /\ given \in Seq(Udp!Values) /\ g \in Nat /\ g <= Len(current.data)
      /\ \A i \in 1 .. g : given[i] = current.data[i] /\ given[i] \in Udp!Values
  BY <1>1, LenProperties, ElementOfSeq DEF UdpInv, FrontIsGiven
<1>4. /\ s \in Seq(Udp!Values) /\ Len(s) = g /\ \A i \in 1 .. g : s[i] = current.data[i]
  <2>1. \A i \in 1 .. g : current.data[i] \in Udp!Values
    BY <1>3
  <2>2. 1 \in Int /\ g \in Int
    BY <1>3
  <2>3. /\ s \in Seq(Udp!Values) /\ Len(s) = IF 1 <= g THEN g - 1 + 1 ELSE 0
        /\ \A i \in 1 .. g - 1 + 1 : s[i] = current.data[1 + i - 1]
    BY <1>2, <2>1, <2>2, SubSeqProperties
  <2>4. /\ g - 1 + 1 = g /\ (IF 1 <= g THEN g - 1 + 1 ELSE 0) = g
        /\ \A i \in 1 .. g : 1 + i - 1 = i
    BY <1>3
  <2> QED BY <2>3, <2>4
<1>5. given = s
  BY <1>1, <1>3, <1>4, SeqEqual
<1> QED BY <1>1, <1>2, <1>5

(* However the sketch cuts its reads, wherever the ring wraps and whatever *)
(* arrives in between: it gets the datagram whose header was read, with    *)
(* its sender, and where it ends the next header begins.                   *)
THEOREM DatagramsAsSent == Udp!ReceiveAssumption => (Udp!Spec => []ReceivedAsSent)
<1> SUFFICES ASSUME Udp!ReceiveAssumption PROVE Udp!Spec => []ReceivedAsSent
  OBVIOUS
<1>1. Udp!Init => UdpInv
  BY UdpStarts
<1>2. UdpInv /\ [Udp!Next]_(Udp!recvVars) => UdpInv'
  BY UdpSteps
<1>3. UdpInv => ReceivedAsSent
  <2> SUFFICES ASSUME UdpInv PROVE ReceivedAsSent
    OBVIOUS
  <2>1. Udp!HeaderComesNext
    BY DEF UdpInv, WaitInARow, Row, Udp!HeaderComesNext
  <2> QED BY <2>1, FrontOfDatagram DEF UdpInv, SenderIsKnown,
          Udp!ReadsAreTheDatagram, ReceivedAsSent, Udp!ReceivedAsSent
<1> QED BY <1>1, <1>2, <1>3, PTL DEF Udp!Spec

=============================================================================
