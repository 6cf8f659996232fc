------------------------- MODULE TeensyFramesProofs -------------------------
(***************************************************************************)
(* What the boards read from the lines between them, for all constants.    *)
(* The Teensy reads the frames of the Due (TeensyFrames: the types and     *)
(* SegmentReadWhole, for frames and receive buffers of any length) and the *)
(* messages of the ProMicro (ProMicroLink: the types, what the acknowledge *)
(* pin does and where the boards may stop, for messages of any length and  *)
(* buffers of any size).  On the CAN bus the Due repeats the pattern under *)
(* the same identifier (PatternRelay, for any ring of identifiers longer   *)
(* than the tier threes between two tier fours), and a listener shows one  *)
(* frame (CanBus, for any identifiers and payloads of the master).         *)
(***************************************************************************)
EXTENDS BoardLines, SequenceTheorems, TLAPS

-----------------------------------------------------------------------------

(* What may follow the byte b: the next place, or a spoilt one.            *)
After(b) == {PlaceAfter(b), Spoilt}

(* In the receive buffer one byte follows the other, up to the last one.   *)
Chained ==
  /\ \A i \in 1 .. Len(rx) - 1 : rx[i + 1].place \in After(rx[i])
  /\ rx # <<>> => rx[Len(rx)] = lastByte

(* Only the '>' of a frame is as far from its beginning as that.           *)
Ends(b) == b.place = FrameLen => b.value = End

EndsLast ==
  /\ Ends(lastByte) /\ Ends(inChar)
  /\ \A i \in 1 .. Len(rx) : Ends(rx[i])

(* A segment begins no earlier than the frame that is being sent, as long  *)
(* as no byte of it was dropped.                                           *)
WithinFrame ==
  ~gap /\ lastByte.value # End =>
    lastByte.place = Spoilt \/ lastByte.place <= sent

(* The place of the next byte to be read.                                  *)
NextPlace == IF rx # <<>> THEN rx[1].place ELSE PlaceAfter(lastByte)

(* Between two texts the reader is at the beginning of a segment or in a   *)
(* spoilt one; in a text, behind the last byte it has read.                *)
Aligned ==
  IF incoming.length = 0 THEN NextPlace \in {1, Spoilt}
  ELSE NextPlace \in After(inChar)

(* What is read of an unspoilt segment has been read from its beginning,   *)
(* and the rest of the frame is there.                                     *)
RestIsThere ==
  stage = "read" =>
    IF incoming.length = 0 THEN Len(rx) >= FrameLen
    ELSE inChar.place # Spoilt =>
           /\ incoming.start = 1
           /\ AtEnd \/ inChar.place + Len(rx) >= FrameLen

FramesInv ==
  /\ TypeOK /\ Chained /\ EndsLast /\ WithinFrame /\ Aligned /\ RestIsThere
  /\ stage = "poll" => incoming.length = 0

-----------------------------------------------------------------------------
(* The place after a byte is a place.                                      *)
LEMMA PlaceAfterType ==
  ASSUME NEW b \in Received PROVE PlaceAfter(b) \in 1 .. Spoilt
BY FramesAssumption DEF PlaceAfter, Received, Spoilt

(* A frame consists of bytes.                                              *)
LEMMA FrameByteType ==
  ASSUME NEW i \in 1 .. FrameLen, NEW v \in FrameByte(i)
  PROVE  v \in Bytes /\ (i = FrameLen => v = End)
BY FramesAssumption DEF FrameByte, Bytes, Id

(* Reading a byte extends a text to a text that is not empty.              *)
LEMMA ExtendedType ==
  ASSUME NEW text \in Text, NEW b \in Received
  PROVE  /\ Extended(text, b) \in Text
         /\ Extended(text, b).length # 0
         /\ Extended(text, b).start =
              IF text.length = 0 THEN b.place ELSE text.start
<1>1. /\ text.length \in 0 .. FrameLen /\ text.start \in 1 .. Spoilt
      /\ text.s \in [0 .. 1 -> Bytes] /\ text.nul \in BOOLEAN
      /\ b.value \in Bytes /\ b.place \in 1 .. Spoilt
  BY DEF Text, Received
<1>2. (IF text.length < FrameLen THEN text.length + 1 ELSE FrameLen)
         \in 1 .. FrameLen
  BY <1>1, FramesAssumption
<1>3. [i \in 0 .. 1 |-> IF i = text.length THEN b.value ELSE text.s[i]]
         \in [0 .. 1 -> Bytes]
  BY <1>1
<1>4. (text.nul \/ b.value = Nul) \in BOOLEAN
  OBVIOUS
<1> QED BY <1>1, <1>2, <1>3, <1>4, FramesAssumption DEF Extended, Text

(* The empty text is a text, and no byte is a byte.                        *)
LEMMA StartType == Start \in Received /\ Empty \in Text /\ Ends(Start)
<1>1. Nul \in Bytes /\ End \in Bytes
  BY FramesAssumption DEF Bytes
<1>2. Start \in Received /\ Ends(Start)
  BY <1>1, FramesAssumption DEF Start, Received, Spoilt, Ends
<1>3. [i \in 0 .. 1 |-> Nul] \in [0 .. 1 -> Bytes]
  BY <1>1
<1>4. Empty \in Text
  BY <1>3, FramesAssumption DEF Empty, Text, Spoilt
<1> QED BY <1>2, <1>4

(* The initial state satisfies the invariant.                              *)
LEMMA InitFrames == Init => FramesInv
<1> SUFFICES ASSUME Init PROVE FramesInv
  OBVIOUS
<1>1. Nul \in Bytes
  BY FramesAssumption DEF Bytes
<1>2. TypeOK
  <2>1. blinkerState \in Bytes /\ switchState \in [SwitchIds -> Bytes]
    BY <1>1 DEF Init, Nul
  <2>2. rx \in Seq(Received) /\ Len(rx) <= RxCap /\ sent \in 0 .. FrameLen - 1
    BY FramesAssumption DEF Init
  <2> QED BY <2>1, <2>2, StartType DEF Init, TypeOK
<1>3. Chained /\ EndsLast
  BY StartType DEF Init, Chained, EndsLast
<1>4. WithinFrame /\ RestIsThere
  BY DEF Init, WithinFrame, RestIsThere, Start
<1>5. Aligned /\ incoming.length = 0
  BY DEF Init, Aligned, NextPlace, PlaceAfter, Start, Empty
<1> QED BY <1>2, <1>3, <1>4, <1>5 DEF FramesInv

(* What arrives is chained to what came before it.                         *)
LEMMA SendKeeps == ASSUME FramesInv, SendByte PROVE FramesInv'
<1> USE DEF FramesInv
<1>1. PICK value \in FrameByte(sent + 1) :
        /\ sent' = IF sent + 1 = FrameLen THEN 0 ELSE sent + 1
        /\ IF Len(rx) < RxCap
           THEN /\ lastByte' = [value |-> value,
                                place |-> IF gap THEN Spoilt
                                          ELSE PlaceAfter(lastByte)]
                /\ rx' = Append(rx, lastByte')
                /\ gap' = FALSE
           ELSE gap' = TRUE /\ UNCHANGED <<rx, lastByte>>
        /\ UNCHANGED <<stage, incoming, inChar, blinkerState, switchState>>
  BY DEF SendByte
<1>2. sent + 1 \in 1 .. FrameLen /\ sent' \in 0 .. FrameLen - 1
      /\ (sent + 1 < FrameLen => sent' = sent + 1)
  BY <1>1, FramesAssumption DEF TypeOK
<1>3. value \in Bytes /\ (value # End => sent + 1 < FrameLen)
  <2>1. value \in Bytes /\ (sent + 1 = FrameLen => value = End)
    BY <1>2, FrameByteType
  <2> QED BY <1>2, <2>1, FramesAssumption
<1>4. CASE Len(rx) < RxCap
  <2> DEFINE b == lastByte'
  <2>1. b.value = value /\ b.place \in After(lastByte)
        /\ (gap => b.place = Spoilt) /\ (~gap => b.place = PlaceAfter(lastByte))
        /\ rx' = Append(rx, b)
    BY <1>1, <1>4 DEF After
  <2>2. b \in Received
    <3>1. PlaceAfter(lastByte) \in 1 .. Spoilt /\ Spoilt \in 1 .. Spoilt
      BY PlaceAfterType, FramesAssumption DEF TypeOK, Spoilt
    <3> QED BY <1>1, <1>3, <1>4, <3>1 DEF Received
  <2> HIDE DEF b
  <2>3. /\ Len(rx') = Len(rx) + 1 /\ rx' \in Seq(Received)
        /\ \A i \in 1 .. Len(rx) : rx'[i] = rx[i]
        /\ rx'[Len(rx) + 1] = b
    BY <2>1, <2>2 DEF TypeOK
  <2>4. TypeOK'
    <3>1. lastByte' \in Received /\ gap' \in BOOLEAN
      BY <1>1, <1>4, <2>2 DEF b
    <3>2. Len(rx') <= RxCap
      BY <1>4, <2>3, FramesAssumption DEF TypeOK
    <3> QED BY <1>1, <1>2, <2>3, <3>1, <3>2 DEF TypeOK
  <2>5. Chained'
    <3>1. ASSUME NEW i \in 1 .. Len(rx)
          PROVE  rx'[i + 1].place \in After(rx'[i])
      <4>1. CASE i < Len(rx)
        <5>1. i + 1 \in 1 .. Len(rx) /\ i \in 1 .. Len(rx) - 1
          BY <4>1, <2>3 DEF TypeOK
        <5> QED BY <5>1, <2>3 DEF Chained
      <4>2. CASE i = Len(rx)
        <5>1. rx[i] = lastByte
          BY <4>2, <3>1 DEF Chained, TypeOK
        <5> QED BY <5>1, <4>2, <2>1, <2>3
      <4> QED BY <4>1, <4>2 DEF TypeOK
    <3>2. rx'[Len(rx')] = lastByte' /\ Len(rx') - 1 = Len(rx)
      BY <2>3 DEF b, TypeOK
    <3> QED BY <3>1, <3>2 DEF Chained, After, PlaceAfter
  <2>6. b.value # End => b.place = Spoilt \/ b.place <= sent'
    BY <1>2, <1>3, <2>1, FramesAssumption
    DEF WithinFrame, PlaceAfter, Spoilt, TypeOK, Received
  <2>7. WithinFrame'
    BY <2>6 DEF WithinFrame, b
  <2>8. Ends(b)
    BY <1>2, <1>3, <2>1, <2>6, FramesAssumption DEF Ends, Spoilt
  <2>9. EndsLast'
    <3>1. ASSUME NEW i \in 1 .. Len(rx') PROVE Ends(rx'[i])
      BY <2>3, <2>8 DEF EndsLast, TypeOK
    <3> QED BY <1>1, <2>8, <3>1 DEF EndsLast, Ends, b
  <2>10. Aligned'
    <3>1. NextPlace' = rx'[1].place
      BY <2>3 DEF NextPlace, TypeOK
    <3>2. CASE rx = <<>>
      BY <1>1, <2>1, <2>3, <3>1, <3>2 DEF Aligned, NextPlace, After, PlaceAfter
    <3>3. CASE rx # <<>>
      <4>1. rx'[1] = rx[1]
        BY <2>3, <3>3 DEF TypeOK
      <4> QED BY <1>1, <3>1, <3>3, <4>1 DEF Aligned, NextPlace, After, PlaceAfter
    <3> QED BY <3>2, <3>3
  <2>11. RestIsThere' /\ (stage' = "poll" => incoming'.length = 0)
    BY <1>1, <2>3, FramesAssumption
    DEF RestIsThere, AtEnd, TypeOK, Received, Spoilt
  <2> QED BY <2>4, <2>5, <2>7, <2>9, <2>10, <2>11
<1>5. CASE ~(Len(rx) < RxCap)
  BY <1>1, <1>2, <1>5
  DEF TypeOK, Chained, After, PlaceAfter, EndsLast, Ends, WithinFrame, Aligned,
      NextPlace, RestIsThere, AtEnd
<1> QED BY <1>4, <1>5

(* The reader starts with a frame's worth of bytes before it.              *)
LEMMA PollKeeps == ASSUME FramesInv, Poll PROVE FramesInv'
BY FramesAssumption
DEF FramesInv, Poll, TypeOK, Chained, After, PlaceAfter, EndsLast, Ends,
    WithinFrame, Aligned, NextPlace, RestIsThere, AtEnd

(* Reading moves the head of the buffer to the text.                       *)
LEMMA ReadKeeps == ASSUME FramesInv, ReadByte PROVE FramesInv'
<1> USE DEF FramesInv
<1> DEFINE b == rx[1]
<1>1. /\ rx # <<>> /\ Len(rx) \in Nat \ {0} /\ b \in Received /\ Head(rx) = b
      /\ Len(Tail(rx)) = Len(rx) - 1 /\ Tail(rx) \in Seq(Received)
      /\ \A i \in 1 .. Len(rx) - 1 : Tail(rx)[i] = rx[i + 1]
  BY DEF ReadByte, TypeOK
<1> HIDE DEF b
<1>2. /\ rx' = Tail(rx) /\ inChar' = b /\ incoming' = Extended(incoming, b)
      /\ stage = "read" /\ stage' = "read" /\ ~AtEnd
      /\ UNCHANGED <<sent, lastByte, gap, blinkerState, switchState>>
  BY <1>1 DEF ReadByte
<1>3. /\ incoming' \in Text /\ incoming'.length # 0
      /\ incoming'.start = IF incoming.length = 0 THEN b.place
                           ELSE incoming.start
  BY <1>1, <1>2, ExtendedType DEF TypeOK
<1>4. TypeOK'
  <2>1. rx' \in Seq(Received) /\ Len(rx') <= RxCap
    BY <1>1, <1>2, FramesAssumption DEF TypeOK
  <2> QED BY <1>1, <1>2, <1>3, <2>1 DEF TypeOK
<1>5. Chained'
  <2>1. ASSUME NEW i \in 1 .. Len(rx') - 1
        PROVE  rx'[i + 1].place \in After(rx'[i])
    <3>1. i + 1 \in 1 .. Len(rx) - 1 /\ i \in 1 .. Len(rx) - 1
      BY <1>1, <1>2
    <3>2. rx'[i + 1] = rx[i + 2] /\ rx'[i] = rx[i + 1]
      BY <1>1, <1>2, <3>1
    <3>3. rx[(i + 1) + 1].place \in After(rx[i + 1])
      BY <3>1 DEF Chained
    <3>4. (i + 1) + 1 = i + 2
      BY <3>1, <1>1
    <3> QED BY <3>2, <3>3, <3>4
  <2>2. rx' # <<>> => rx'[Len(rx')] = lastByte'
    <3> SUFFICES ASSUME rx' # <<>> PROVE rx'[Len(rx')] = lastByte'
      OBVIOUS
    <3>1. Len(rx) - 1 \in 1 .. Len(rx) - 1
      BY <1>1, <1>2
    <3>2. rx'[Len(rx')] = rx[(Len(rx) - 1) + 1] /\ (Len(rx) - 1) + 1 = Len(rx)
      BY <1>1, <1>2, <3>1
    <3> QED BY <1>1, <1>2, <3>2 DEF Chained
  <2> QED BY <2>1, <2>2 DEF Chained, After, PlaceAfter
<1>6. EndsLast' /\ WithinFrame'
  <2>1. Ends(b)
    BY <1>1 DEF EndsLast, b
  <2>2. ASSUME NEW i \in 1 .. Len(rx') PROVE Ends(rx'[i])
    <3>1. i \in 1 .. Len(rx) - 1 /\ i + 1 \in 1 .. Len(rx)
      BY <1>1, <1>2
    <3> QED BY <1>1, <1>2, <3>1 DEF EndsLast
  <2> QED BY <1>2, <2>1, <2>2 DEF EndsLast, Ends, WithinFrame
<1>7. Aligned'
  <2>1. CASE rx' = <<>>
    <3>1. Len(rx) = 1
      <4>1. Len(rx') = 0
        <5>1. Len(<<>>) = 0
          OBVIOUS
        <5> QED BY <2>1, <5>1, Zenon
      <4>2. Len(rx') = Len(rx) - 1
        BY <1>1, <1>2, Zenon
      <4>3. Len(rx) \in Nat
        BY <1>1
      <4> QED BY <4>1, <4>2, <4>3
    <3>2. b = lastByte
      BY <1>1, <3>1 DEF Chained, b
    <3> QED BY <1>2, <1>3, <2>1, <3>2 DEF Aligned, NextPlace, After, PlaceAfter
  <2>2. CASE rx' # <<>>
    <3>1. 1 \in 1 .. Len(rx) - 1 /\ rx'[1] = rx[1 + 1]
      BY <1>1, <1>2, <2>2
    <3>2. rx'[1].place \in After(b)
      BY <3>1 DEF Chained, b
    <3> QED BY <1>2, <1>3, <2>2, <3>2 DEF Aligned, NextPlace, After, PlaceAfter
  <2> QED BY <2>1, <2>2
<1>8. RestIsThere'
  <2> SUFFICES ASSUME b.place # Spoilt
               PROVE  /\ incoming'.start = 1
                      /\ b.place + Len(rx') >= FrameLen
    BY <1>2, <1>3 DEF RestIsThere
  <2>1. NextPlace = b.place
    BY <1>1 DEF NextPlace, b
  <2>2. CASE incoming.length = 0
    <3>1. b.place = 1
      BY <2>1, <2>2 DEF Aligned
    <3>2. Len(rx) >= FrameLen
      BY <1>2, <2>2 DEF RestIsThere
    <3> QED BY <1>1, <1>2, <1>3, <2>2, <3>1, <3>2, FramesAssumption
  <2>3. CASE incoming.length # 0
    <3>1. b.place = PlaceAfter(inChar) /\ inChar.value # End
      BY <1>2, <2>1, <2>3 DEF Aligned, After, AtEnd
    <3>2. inChar.place < FrameLen /\ b.place = inChar.place + 1
      BY <3>1 DEF PlaceAfter
    <3>3. inChar.place # Spoilt
      BY <3>2, FramesAssumption DEF Spoilt
    <3>4. incoming.start = 1 /\ inChar.place + Len(rx) >= FrameLen
      BY <1>2, <2>3, <3>3 DEF RestIsThere
    <3>5. inChar.place \in Nat
      BY FramesAssumption DEF TypeOK, Received, Spoilt
    <3> QED BY <1>1, <1>2, <1>3, <2>3, <3>2, <3>4, <3>5, FramesAssumption
  <2> QED BY <2>2, <2>3
<1> QED BY <1>2, <1>4, <1>5, <1>6, <1>7, <1>8

(* A text that did not end at a '>' and is not spoilt is a whole frame.    *)
LEMMA TextIsWhole == FramesInv => SegmentReadWhole
<1> SUFFICES ASSUME FramesInv, stage = "read", AtEnd \/ rx = <<>>,
                    inChar.place # Spoilt
             PROVE  AtEnd /\ incoming.start = 1
  BY DEF SegmentReadWhole
<1>1. incoming.length # 0
  BY FramesAssumption DEF FramesInv, RestIsThere, AtEnd, TypeOK
<1>2. incoming.start = 1 /\ (AtEnd \/ inChar.place + Len(rx) >= FrameLen)
  BY <1>1 DEF FramesInv, RestIsThere
<1>3. CASE rx = <<>> /\ ~AtEnd
  <2>1. inChar.place = FrameLen
    BY <1>2, <1>3, FramesAssumption DEF FramesInv, TypeOK, Received, Spoilt
  <2> QED BY <1>1, <1>2, <2>1 DEF FramesInv, EndsLast, Ends, AtEnd
<1> QED BY <1>2, <1>3

(* Behind a text the reader is at the beginning of a segment, or in one    *)
(* that is spoilt.                                                         *)
LEMMA CheckKeeps == ASSUME FramesInv, Check PROVE FramesInv'
<1> USE DEF FramesInv
<1>1. /\ stage = "read" /\ stage' = "poll" /\ (AtEnd \/ rx = <<>>)
      /\ incoming' = Empty /\ inChar' = Start
      /\ UNCHANGED <<sent, rx, lastByte, gap>>
  BY DEF Check
<1>2. blinkerState' \in Bytes /\ switchState' \in [SwitchIds -> Bytes]
  <2>1. incoming.s[1] \in Bytes
    BY DEF TypeOK, Text
  <2>2. CASE Accept
    BY <2>1, <2>2 DEF Accept, TypeOK
  <2>3. CASE Reject
    BY <2>3 DEF Reject, TypeOK
  <2> QED BY <2>2, <2>3 DEF Check
<1>3. TypeOK'
  BY <1>1, <1>2, StartType DEF TypeOK
<1>4. Chained' /\ EndsLast' /\ WithinFrame' /\ RestIsThere'
  BY <1>1, StartType
  DEF Chained, After, PlaceAfter, EndsLast, Ends, WithinFrame, RestIsThere
<1>5. incoming'.length = 0
  BY <1>1 DEF Empty
<1>6. NextPlace \in {1, Spoilt}
  <2>1. CASE inChar.place # Spoilt
    <3>1. AtEnd
      BY <1>1, <2>1, TextIsWhole DEF SegmentReadWhole
    <3> QED BY <3>1 DEF AtEnd, Aligned, After, PlaceAfter
  <2>2. CASE inChar.place = Spoilt
    <3>1. PlaceAfter(inChar) \in {1, Spoilt}
      BY <2>2, FramesAssumption DEF PlaceAfter, Spoilt
    <3> QED BY <3>1 DEF Aligned, After
  <2> QED BY <2>1, <2>2
<1>7. Aligned'
  BY <1>1, <1>5, <1>6 DEF Aligned, NextPlace, PlaceAfter
<1> QED BY <1>1, <1>3, <1>4, <1>5, <1>7

(* Every step keeps the invariant.                                         *)
LEMMA FramesStep == FramesInv /\ [Next]_framesVars => FramesInv'
<1> SUFFICES ASSUME FramesInv, [Next]_framesVars PROVE FramesInv'
  OBVIOUS
<1>1. CASE UNCHANGED framesVars
  BY <1>1
  DEF framesVars, FramesInv, TypeOK, Chained, After, PlaceAfter, EndsLast, Ends,
      WithinFrame, Aligned, NextPlace, RestIsThere, AtEnd
<1> QED BY <1>1, SendKeeps, PollKeeps, ReadKeeps, CheckKeeps DEF Next, TierZero

-----------------------------------------------------------------------------
(* Every variable keeps its type; nothing is written past the receive      *)
(* buffer or the text.                                                     *)
THEOREM FramesTypeCorrect == Spec => []TypeOK
<1>1. FramesInv => TypeOK
  BY DEF FramesInv
<1> QED BY InitFrames, FramesStep, <1>1, PTL DEF Spec

(* What the reader takes for a frame is a whole segment, or a spoilt one.  *)
THEOREM SegmentsReadWhole == Spec => []SegmentReadWhole
BY InitFrames, FramesStep, TextIsWhole, PTL DEF Spec

-----------------------------------------------------------------------------
(* A message is a sequence of bytes, as long as Length says.               *)
LEMMA MessageType ==
  ASSUME Micro!LinkAssumption, NEW m \in Micro!Modules
  PROVE  /\ Micro!Message(m) \in Seq(Micro!Modules)
         /\ Len(Micro!Message(m)) = Length[m]
<1>1. Length[m] \in Nat
  BY DEF Micro!LinkAssumption
<1>2. Micro!Message(m) \in [1 .. Length[m] -> Micro!Modules]
  BY DEF Micro!Message
<1> QED
  BY <1>1, <1>2

(* The other of the two modules is one of them.                            *)
LEMMA OtherType ==
  ASSUME NEW m \in Micro!Modules PROVE Micro!Other(m) \in Micro!Modules
  BY DEF Micro!Other, Micro!Modules

(* At the start nothing is on the line and the pins are low.               *)
LEMMA MicroInit ==
  ASSUME Micro!LinkAssumption, Micro!Init PROVE Micro!TypeOK
<1>1. << >> \in Seq(Micro!Modules) /\ Len(<< >>) = 0
  OBVIOUS
<1>2. line \in Seq(Micro!Modules) /\ Len(line) <= TxCap
  BY <1>1 DEF Micro!LinkAssumption, Micro!Init
<1>3. buffer \in Seq(Micro!Modules) /\ Len(buffer) <= MicroRxCap
  BY <1>1 DEF Micro!LinkAssumption, Micro!Init
<1>4. /\ trigger \in [Micro!Modules -> BOOLEAN]
      /\ forwarded \subseteq Micro!Modules \X Micro!Modules
  BY DEF Micro!Init
<1>5. \A m \in Micro!Modules :
        trigger[m] <=> mFor = m /\ mStep \in {"wait", "lower"}
  BY DEF Micro!Init
<1>6. mFor \in Micro!Modules /\ tFor \in Micro!Modules
  BY DEF Micro!Init, Micro!Modules
<1>7. underAck \in 0 .. 2
  BY DEF Micro!Init
<1>8. /\ mStep = "print" /\ tStep = "test"
      /\ ack \in BOOLEAN
  BY DEF Micro!Init
<1> QED
  BY <1>2, <1>3, <1>4, <1>5, <1>6, <1>7, <1>8, Zenon DEF Micro!TypeOK

(* The trigger is high only between RaiseTrigger and LowerTrigger.         *)
LEMMA ProMicroKeepsType ==
  ASSUME Micro!LinkAssumption, Micro!TypeOK, Micro!ProMicroStep
  PROVE  Micro!TypeOK'
<1> USE DEF Micro!TypeOK
<1>1. CASE Micro!PrintMessage
  <2>1. /\ Micro!Message(mFor) \in Seq(Micro!Modules)
        /\ Len(Micro!Message(mFor)) = Length[mFor]
    BY MessageType
  <2>2. Len(line) \in Nat /\ Length[mFor] \in Nat
    BY DEF Micro!LinkAssumption
  <2>3. line' \in Seq(Micro!Modules) /\ Len(line') = Len(line) + Length[mFor]
    BY <1>1, <2>1, <2>2 DEF Micro!PrintMessage
  <2>4. Len(line') <= TxCap
    BY <1>1, <2>3 DEF Micro!PrintMessage
  <2>5. underAck' \in 0 .. 2
    BY <1>1 DEF Micro!PrintMessage
  <2> QED
    BY <1>1, <2>3, <2>4, <2>5 DEF Micro!PrintMessage, Micro!proMicro,
       Micro!teensy
<1>2. CASE Micro!RaiseTrigger
  BY <1>2 DEF Micro!RaiseTrigger, Micro!teensy
<1>3. CASE Micro!LeaveWait
  BY <1>3 DEF Micro!LeaveWait, Micro!teensy
<1>4. CASE Micro!LowerTrigger
  <2>1. mFor' \in Micro!Modules
    BY <1>4, OtherType DEF Micro!LowerTrigger
  <2> QED
    BY <1>4, <2>1 DEF Micro!LowerTrigger, Micro!teensy
<1> QED
  BY <1>1, <1>2, <1>3, <1>4 DEF Micro!ProMicroStep

(* The Teensy takes bytes from its buffer and puts none in.                *)
LEMMA TeensyKeepsType ==
  ASSUME Micro!LinkAssumption, Micro!TypeOK, Micro!TeensyStep
  PROVE  Micro!TypeOK'
<1> USE DEF Micro!TypeOK, Micro!proMicro, Micro!teensy
<1>1. CASE Micro!TestTrigger
  BY <1>1, OtherType DEF Micro!TestTrigger
<1>2. CASE Micro!RaiseAck
  BY <1>2 DEF Micro!RaiseAck
<1>3. CASE Micro!TriggerIsLow
  BY <1>3 DEF Micro!TriggerIsLow
<1>4. CASE Micro!ForwardByte
  <2>1. Head(buffer) \in Micro!Modules /\ Tail(buffer) \in Seq(Micro!Modules)
    BY <1>4 DEF Micro!ForwardByte
  <2>2. Len(Tail(buffer)) = Len(buffer) - 1 /\ Len(buffer) \in Nat
    BY <1>4 DEF Micro!ForwardByte
  <2>3. Len(buffer') <= MicroRxCap /\ buffer' \in Seq(Micro!Modules)
    BY <1>4, <2>1, <2>2 DEF Micro!LinkAssumption, Micro!ForwardByte
  <2>4. forwarded' \subseteq Micro!Modules \X Micro!Modules
    BY <1>4, <2>1 DEF Micro!ForwardByte
  <2> QED
    BY <1>4, <2>3, <2>4 DEF Micro!ForwardByte
<1>5. CASE Micro!LowerAck
  BY <1>5 DEF Micro!LowerAck, Micro!Modules
<1>6. CASE Micro!TriggerIsLowAgain
  BY <1>6 DEF Micro!TriggerIsLowAgain, Micro!Modules
<1> QED
  BY <1>1, <1>2, <1>3, <1>4, <1>5, <1>6 DEF Micro!TeensyStep

(* A byte that arrives goes into the buffer or is lost.                    *)
LEMMA ArriveKeepsType ==
  ASSUME Micro!LinkAssumption, Micro!TypeOK, Micro!Arrive
  PROVE  Micro!TypeOK'
<1> USE DEF Micro!TypeOK
<1>1. Head(line) \in Micro!Modules /\ Tail(line) \in Seq(Micro!Modules)
  BY DEF Micro!Arrive
<1>2. Len(Tail(line)) = Len(line) - 1 /\ Len(line) \in Nat
  BY DEF Micro!Arrive
<1>3. line' \in Seq(Micro!Modules) /\ Len(line') <= TxCap
  BY <1>1, <1>2 DEF Micro!LinkAssumption, Micro!Arrive
<1>4. buffer' \in Seq(Micro!Modules) /\ Len(buffer') <= MicroRxCap
  <2>1. CASE Len(buffer) < MicroRxCap
    <3>1. buffer' = Append(buffer, Head(line)) /\ Len(buffer) \in Nat
      BY <2>1 DEF Micro!Arrive
    <3>2. Len(buffer') = Len(buffer) + 1 /\ buffer' \in Seq(Micro!Modules)
      BY <3>1, <1>1
    <3> QED
      BY <2>1, <3>1, <3>2 DEF Micro!LinkAssumption
  <2>2. CASE ~(Len(buffer) < MicroRxCap)
    BY <2>2 DEF Micro!Arrive
  <2> QED
    BY <2>1, <2>2
<1> QED
  BY <1>3, <1>4 DEF Micro!Arrive, Micro!proMicro, Micro!teensy

(* Every step of the boards and of the line keeps the types.               *)
LEMMA MicroKeepsType ==
  ASSUME Micro!LinkAssumption, Micro!TypeOK, [Micro!Next]_(Micro!pmVars)
  PROVE  Micro!TypeOK'
<1>1. CASE UNCHANGED Micro!pmVars
  BY <1>1 DEF Micro!TypeOK, Micro!pmVars, Micro!proMicro, Micro!teensy
<1> QED
  BY <1>1, ProMicroKeepsType, TeensyKeepsType, ArriveKeepsType DEF Micro!Next

(* The types hold, and a trigger is high only while SendMessageToTeensy    *)
(* waits for the acknowledge pin or is about to lower it.                  *)
THEOREM MicroTypeCorrect == Micro!LinkAssumption => (Micro!Spec => []Micro!TypeOK)
<1> SUFFICES ASSUME Micro!LinkAssumption PROVE Micro!Spec => []Micro!TypeOK
  OBVIOUS
<1>1. Micro!Init => Micro!TypeOK
  BY MicroInit
<1>2. Micro!TypeOK /\ [Micro!Next]_(Micro!pmVars) => Micro!TypeOK'
  BY MicroKeepsType
<1> QED
  BY <1>1, <1>2, PTL DEF Micro!Spec

(* A message that is printed under the acknowledge pin is the last one:    *)
(* the ProMicro then stands before or at its wait, until the pin falls.    *)
AckInv ==
  ack => \/ underAck = 0
         \/ underAck = 1 /\ mStep \in {"raise", "wait"}

(* The acknowledge pin keeps the ProMicro from printing more than one      *)
(* message, whatever the buffers hold and however the boards interleave.   *)
THEOREM AckHolds ==
  Micro!LinkAssumption => (Micro!Spec => []AckHoldsProMicro)
<1> SUFFICES ASSUME Micro!LinkAssumption
             PROVE  Micro!Spec => []AckHoldsProMicro
  OBVIOUS
<1>1. Micro!Init => AckInv
  BY DEF Micro!Init, AckInv
<1>2. Micro!TypeOK /\ AckInv /\ [Micro!Next]_(Micro!pmVars) => AckInv'
  <2> SUFFICES ASSUME Micro!TypeOK, AckInv, [Micro!Next]_(Micro!pmVars)
               PROVE  AckInv'
    OBVIOUS
  <2> USE DEF AckInv
  <2>1. CASE Micro!PrintMessage
    BY <2>1 DEF Micro!PrintMessage
  <2>2. CASE Micro!RaiseTrigger
    BY <2>2 DEF Micro!RaiseTrigger
  <2>3. CASE Micro!LeaveWait
    BY <2>3 DEF Micro!LeaveWait
  <2>4. CASE Micro!LowerTrigger
    BY <2>4 DEF Micro!LowerTrigger
  <2>5. CASE Micro!RaiseAck
    BY <2>5 DEF Micro!RaiseAck
  <2>6. CASE Micro!LowerAck
    BY <2>6 DEF Micro!LowerAck
  <2>7. CASE \/ Micro!TestTrigger \/ Micro!TriggerIsLow
             \/ Micro!ForwardByte \/ Micro!TriggerIsLowAgain
    BY <2>7 DEF Micro!TestTrigger, Micro!TriggerIsLow, Micro!ForwardByte,
       Micro!TriggerIsLowAgain, Micro!proMicro
  <2>8. CASE Micro!Arrive \/ UNCHANGED Micro!pmVars
    BY <2>8 DEF Micro!Arrive, Micro!pmVars, Micro!proMicro
  <2> QED
    BY <2>1, <2>2, <2>3, <2>4, <2>5, <2>6, <2>7, <2>8
    DEF Micro!Next, Micro!ProMicroStep, Micro!TeensyStep
<1>3. AckInv => AckHoldsProMicro
  BY DEF AckInv, AckHoldsProMicro, Micro!AckHoldsProMicro
<1> QED
  BY <1>1, <1>2, <1>3, MicroTypeCorrect, PTL DEF Micro!Spec

(* The acknowledge pin is high while a block waits for its trigger or      *)
(* forwards, and at no other time: not while the second block waits again. *)
AckWhileForwarding == ack <=> tStep \in {"wait", "drain"}

(* The boards only ever stop for good in a circular wait.  A line that has *)
(* run empty takes any message, so the ProMicro is held by the pin; this   *)
(* is high, so the Teensy is in its first wait, and the trigger that holds *)
(* it there is the one of the message the ProMicro waits with.             *)
THEOREM CircularWaitOnly ==
  Micro!LinkAssumption => (Micro!Spec => []StopsOnlyInCircularWait)
<1> SUFFICES ASSUME Micro!LinkAssumption
             PROVE  Micro!Spec => []StopsOnlyInCircularWait
  OBVIOUS
<1>1. Micro!Init => AckWhileForwarding
  BY DEF Micro!Init, AckWhileForwarding
<1>2. /\ Micro!TypeOK /\ AckWhileForwarding
      /\ [Micro!Next]_(Micro!pmVars)
      => AckWhileForwarding'
  <2> SUFFICES ASSUME Micro!TypeOK, AckWhileForwarding,
                      [Micro!Next]_(Micro!pmVars)
               PROVE  AckWhileForwarding'
    OBVIOUS
  <2> USE DEF AckWhileForwarding
  <2>1. CASE Micro!ProMicroStep \/ Micro!Arrive \/ UNCHANGED Micro!pmVars
    BY <2>1 DEF Micro!ProMicroStep, Micro!PrintMessage, Micro!RaiseTrigger,
       Micro!LeaveWait, Micro!LowerTrigger, Micro!Arrive, Micro!teensy,
       Micro!pmVars
  <2>2. CASE Micro!TestTrigger
    BY <2>2 DEF Micro!TestTrigger
  <2>3. CASE Micro!RaiseAck
    BY <2>3 DEF Micro!RaiseAck
  <2>4. CASE Micro!TriggerIsLow
    BY <2>4 DEF Micro!TriggerIsLow
  <2>5. CASE Micro!ForwardByte
    BY <2>5 DEF Micro!ForwardByte, Micro!teensy
  <2>6. CASE Micro!LowerAck
    BY <2>6 DEF Micro!LowerAck
  <2>7. CASE Micro!TriggerIsLowAgain
    BY <2>7 DEF Micro!TriggerIsLowAgain
  <2> QED
    BY <2>1, <2>2, <2>3, <2>4, <2>5, <2>6, <2>7
    DEF Micro!Next, Micro!TeensyStep
<1>3. Micro!TypeOK /\ AckWhileForwarding => StopsOnlyInCircularWait
  <2> SUFFICES ASSUME Micro!TypeOK, AckWhileForwarding,
                      Micro!ProMicroIsHeld, Micro!TeensyIsHeld, line = << >>
               PROVE  Micro!CircularWait
    BY DEF StopsOnlyInCircularWait, Micro!StopsOnlyInCircularWait
  <2>1. mFor \in Micro!Modules /\ tFor \in Micro!Modules
    BY DEF Micro!TypeOK
  <2>2. ~(Len(line) + Length[mFor] > TxCap)
    <3>1. Len(line) = 0
      OBVIOUS
    <3>2. Length[mFor] \in Nat /\ Length[mFor] <= TxCap /\ TxCap \in Nat
      BY <2>1 DEF Micro!LinkAssumption
    <3> QED
      BY <3>1, <3>2
  <2>3. mStep = "wait" /\ ack
    BY <2>2 DEF Micro!ProMicroIsHeld
  <2>4. tStep = "wait" /\ trigger[tFor]
    BY <2>3 DEF AckWhileForwarding, Micro!TeensyIsHeld
  <2>5. tFor = mFor
    BY <2>1, <2>4 DEF Micro!TypeOK
  <2> QED
    BY <2>3, <2>4, <2>5 DEF Micro!CircularWait
<1> QED
  BY <1>1, <1>2, <1>3, MicroTypeCorrect, PTL DEF Micro!Spec

-----------------------------------------------------------------------------
(* How far the identifier has moved on from that of the last frame: no     *)
(* further than there were tier threes since, so it has not come round to  *)
(* it again; and if it has not moved, rxBuf holds what was sent.           *)
Ahead(d) ==
  \/ rxID = handed.id + d
  \/ rxID = handed.id + d - (LastId - FirstId + 1)

FrameAndBuffer ==
  handed # Relay!NoFrame =>
    \E d \in 0 .. threes : Ahead(d) /\ (d = 0 => handed.data = rxBuf0)

(* In tier three an identifier has just been taken.                        *)
TookId == tier \in {"test", "send", "clear"} => threes > 0

RelayInv == Relay!TypeOK /\ FrameAndBuffer /\ TookId

-----------------------------------------------------------------------------
(* A number cut to a byte is a byte.                                       *)
LEMMA CutToByte ==
  ASSUME Relay!RelayAssumption, NEW n \in Nat PROVE n % ByteRange \in Relay!Byte
BY DEF Relay!RelayAssumption, Relay!Byte

(* The initial state satisfies the invariant.                              *)
LEMMA InitRelay ==
  ASSUME Relay!RelayAssumption, Relay!Init PROVE RelayInv
<1>1. 0 \in Relay!Byte /\ FirstId \in Relay!Ids /\ 0 \in 0 .. MaxThrees
  BY DEF Relay!RelayAssumption, Relay!Byte, Relay!Ids
<1>2. /\ DOMAIN settings = ByteSettings \cup SwitchSettings
      /\ \A c \in ByteSettings : settings[c] \in Relay!Byte
      /\ \A c \in SwitchSettings : settings[c] \in BOOLEAN
  BY <1>1 DEF Relay!RelayAssumption, Relay!Init
<1>3. Relay!TypeOK /\ FrameAndBuffer /\ TookId
  BY <1>1, <1>2 DEF Relay!Init, Relay!TypeOK, FrameAndBuffer, TookId
<1> QED BY <1>3 DEF RelayInv

(* The interrupt touches nothing that is sent.                             *)
LEMMA ReceiveKeeps ==
  ASSUME Relay!RelayAssumption, RelayInv, Relay!ReceiveEvent
  PROVE  RelayInv' /\ UNCHANGED handed
<1>1. PICK text \in Relay!Texts :
        \/ \E c \in ByteSettings \cup SwitchSettings : Relay!ReceiveSetting(c, text)
        \/ Relay!ReceivePattern(text)
  BY DEF Relay!ReceiveEvent
<1>2. text.toInt % ByteRange \in Relay!Byte /\ text.isTrue \in BOOLEAN
  <2>1. text.toInt \in Nat
    BY DEF Relay!RelayAssumption, Relay!Texts
  <2> QED BY <2>1, CutToByte DEF Relay!Texts
<1>3. CASE \E c \in ByteSettings \cup SwitchSettings : Relay!ReceiveSetting(c, text)
  <2>1. PICK c \in ByteSettings \cup SwitchSettings : Relay!ReceiveSetting(c, text)
    BY <1>3
  <2>2. Relay!TypeOK'
    BY <1>2, <2>1 DEF Relay!RelayAssumption, RelayInv, Relay!TypeOK,
       Relay!ReceiveSetting
  <2>3. FrameAndBuffer' /\ TookId' /\ UNCHANGED handed
    BY <2>1 DEF RelayInv, FrameAndBuffer, TookId, Ahead, Relay!ReceiveSetting
  <2> QED BY <2>2, <2>3 DEF RelayInv
<1>4. CASE Relay!ReceivePattern(text)
  <2>1. Relay!TypeOK'
    BY <1>2, <1>4 DEF RelayInv, Relay!TypeOK, Relay!ReceivePattern
  <2>2. FrameAndBuffer' /\ TookId' /\ UNCHANGED handed
    BY <1>4 DEF RelayInv, FrameAndBuffer, TookId, Ahead, Relay!ReceivePattern
  <2> QED BY <2>1, <2>2 DEF RelayInv
<1> QED BY <1>1, <1>3, <1>4

(* Loading moves the identifier on by one, and counts it.                  *)
LEMMA LoadKeeps ==
  ASSUME Relay!RelayAssumption, RelayInv, Relay!TierThreeLoad
  PROVE  RelayInv' /\ UNCHANGED handed
<1>1. Relay!NextId(rxID) \in Relay!Ids
  BY DEF Relay!RelayAssumption, RelayInv, Relay!TypeOK, Relay!NextId, Relay!Ids
<1>2. Relay!TypeOK' /\ TookId' /\ UNCHANGED handed
  BY <1>1 DEF Relay!RelayAssumption, RelayInv, Relay!TypeOK, TookId,
     Relay!TierThreeLoad
<1>3. FrameAndBuffer'
  <2> SUFFICES ASSUME handed # Relay!NoFrame
               PROVE \E d \in 0 .. threes' : Ahead(d)' /\ d # 0
    BY <1>2 DEF FrameAndBuffer
  <2>1. PICK d \in 0 .. threes : Ahead(d)
    BY DEF RelayInv, FrameAndBuffer
  <2>2. /\ handed.id \in Relay!Ids /\ rxID \in Relay!Ids /\ threes \in 0 .. MaxThrees
        /\ threes < MaxThrees
    BY DEF RelayInv, Relay!TypeOK, Relay!Frame, Relay!TierThreeLoad
  <2>3. Ahead(d + 1)'
    BY <1>2, <2>1, <2>2 DEF Relay!RelayAssumption, Relay!TierThreeLoad,
       Relay!NextId, Relay!Ids, Ahead
  <2>4. d + 1 \in 0 .. threes' /\ d + 1 # 0
    BY <2>1, <2>2 DEF Relay!RelayAssumption, Relay!TierThreeLoad
  <2> QED BY <2>3, <2>4
<1> QED BY <1>2, <1>3 DEF RelayInv

(* What a frame handed over now establishes.                               *)
LEMMA SendEstablishes ==
  ASSUME Relay!RelayAssumption, RelayInv, Relay!SendMsgBuf, UNCHANGED <<rxBuf0,
         rxID>>,
         threes' \in 0 .. MaxThrees
  PROVE  /\ handed' \in Relay!Frame /\ busPattern' \in Relay!Byte
         /\ FrameAndBuffer'
         /\ handed'.id = handed.id => handed'.data = handed.data
<1>1. /\ handed' = [id |-> rxID, data |-> rxBuf0] /\ rxID \in Relay!Ids
      /\ rxBuf0 \in Relay!Byte
  BY DEF Relay!SendMsgBuf, RelayInv, Relay!TypeOK
<1>2. handed' \in Relay!Frame /\ busPattern' \in Relay!Byte
  BY <1>1 DEF Relay!Frame, Relay!SendMsgBuf, RelayInv, Relay!TypeOK
<1>3. FrameAndBuffer'
  <2>1. Ahead(0)' /\ handed'.data = rxBuf0' /\ 0 \in 0 .. threes'
    BY <1>1 DEF Relay!RelayAssumption, Ahead, Relay!Ids
  <2> QED BY <2>1 DEF FrameAndBuffer
<1>4. ASSUME handed'.id = handed.id PROVE handed'.data = handed.data
  <2>1. handed.id = rxID /\ handed # Relay!NoFrame
    BY <1>1, <1>4 DEF Relay!RelayAssumption, Relay!NoFrame, Relay!Ids
  <2>2. PICK d \in 0 .. threes : Ahead(d) /\ (d = 0 => handed.data = rxBuf0)
    BY <2>1 DEF RelayInv, FrameAndBuffer
  <2>3. d = 0
    BY <1>1, <2>1, <2>2 DEF Relay!RelayAssumption, Ahead, Relay!Ids, RelayInv,
       Relay!TypeOK
  <2> QED BY <1>1, <2>2, <2>3
<1> QED BY <1>2, <1>3, <1>4

(* Every step keeps the invariant and repeats what it repeats the          *)
(* identifier of.                                                          *)
LEMMA RelayStep ==
  ASSUME Relay!RelayAssumption, RelayInv, [Relay!Next]_(Relay!relayVars)
  PROVE  /\ RelayInv'
         /\ handed'.id = handed.id => handed'.data = handed.data
<1>1. CASE Relay!ReceiveEvent
  BY <1>1, ReceiveKeeps
<1>2. CASE Relay!TierThreeLoad
  BY <1>2, LoadKeeps
<1>3. CASE Relay!TierThreeTest
  BY <1>3 DEF RelayInv, Relay!TypeOK, FrameAndBuffer, TookId, Ahead,
     Relay!TierThreeTest
<1>4. CASE Relay!TierThreeSend
  <2>1. threes' \in 0 .. MaxThrees /\ TookId'
    BY <1>4 DEF RelayInv, Relay!TypeOK, TookId, Relay!TierThreeSend
  <2>2. /\ handed' \in Relay!Frame /\ busPattern' \in Relay!Byte /\ FrameAndBuffer'
        /\ handed'.id = handed.id => handed'.data = handed.data
    BY <1>4, <2>1, SendEstablishes DEF Relay!TierThreeSend
  <2>3. Relay!TypeOK'
    BY <1>4, <2>2 DEF RelayInv, Relay!TypeOK, Relay!TierThreeSend
  <2> QED BY <2>1, <2>2, <2>3 DEF RelayInv
<1>5. CASE Relay!TierThreeClear
  BY <1>5 DEF RelayInv, Relay!TypeOK, FrameAndBuffer, TookId, Ahead,
     Relay!TierThreeClear
<1>6. CASE Relay!TierFour
  <2>1. threes' \in 0 .. MaxThrees /\ TookId'
    BY <1>6 DEF Relay!RelayAssumption, RelayInv, Relay!TypeOK, TookId,
       Relay!TierFour
  <2>2. /\ handed' \in Relay!Frame /\ busPattern' \in Relay!Byte /\ FrameAndBuffer'
        /\ handed'.id = handed.id => handed'.data = handed.data
    BY <1>6, <2>1, SendEstablishes DEF Relay!TierFour
  <2>3. Relay!TypeOK'
    BY <1>6, <2>1, <2>2 DEF RelayInv, Relay!TypeOK, Relay!TierFour
  <2> QED BY <2>1, <2>2, <2>3 DEF RelayInv
<1>7. CASE UNCHANGED Relay!relayVars
  BY <1>7 DEF RelayInv, Relay!TypeOK, FrameAndBuffer, TookId, Ahead,
     Relay!relayVars
<1> QED BY <1>1, <1>2, <1>3, <1>4, <1>5, <1>6, <1>7 DEF Relay!Next,
        Relay!TierThree

-----------------------------------------------------------------------------
(* Every variable keeps its type: bytes stay bytes, identifiers stay in    *)
(* their ring.                                                             *)
THEOREM RelayTypeCorrect ==
  Relay!RelayAssumption => (Relay!Spec => []Relay!TypeOK)
<1> SUFFICES ASSUME Relay!RelayAssumption PROVE Relay!Spec => []Relay!TypeOK
  OBVIOUS
<1>2. Relay!Init => RelayInv
  BY InitRelay
<1>3. RelayInv /\ [Relay!Next]_(Relay!relayVars) => RelayInv'
  BY RelayStep
<1>1. RelayInv => Relay!TypeOK
  BY DEF RelayInv
<1> QED BY <1>1, <1>2, <1>3, PTL DEF Relay!Spec

(* A frame with the identifier of the one before it repeats its pattern.   *)
THEOREM FramesRepeat ==
  Relay!RelayAssumption => (Relay!Spec => SameIdSamePattern)
<1> SUFFICES ASSUME Relay!RelayAssumption
             PROVE  Relay!Spec => SameIdSamePattern
  OBVIOUS
<1>2. Relay!Init => RelayInv
  BY InitRelay
<1>3. RelayInv /\ [Relay!Next]_(Relay!relayVars) => RelayInv'
  BY RelayStep
<1>1. RelayInv /\ [Relay!Next]_(Relay!relayVars)
        => [handed'.id = handed.id => handed'.data = handed.data]_(Relay!relayVars)
  BY RelayStep
<1> QED BY <1>1, <1>2, <1>3, PTL DEF Relay!Spec, SameIdSamePattern,
     Relay!SameIdSamePattern

-----------------------------------------------------------------------------
(* A frame somebody sent: a timing frame, or one of the master.            *)
WasSent(f) ==
  \/ f.id = Bus!TimingId
  \/ f.id \in MasterIds /\ f.data \in DataOf[f.id]

Frames == [id : 1 .. Bus!MaxId, data : Seq(Nat)]

(* What a buffer of the listener l can hold.                               *)
Heard(l, f) ==
  \/ f = Bus!Empty
  \/ f \in Frames /\ WasSent(f) /\ (l = "volume" => f.id = Bus!VolumeId)

(* The two buffers of every listener are as that says.                     *)
BuffersHeard ==
  /\ DOMAIN buf0 = Bus!Listeners /\ DOMAIN buf1 = Bus!Listeners
  /\ \A l \in Bus!Listeners : Heard(l, buf0[l]) /\ Heard(l, buf1[l])

(* Identifiers have eleven bits.                                           *)
IdsFit ==
  \A l \in Bus!Listeners :
    buf0[l].id \in 0 .. Bus!MaxId /\ buf1[l].id \in 0 .. Bus!MaxId

(* The parts of the type invariant.                                        *)
FrameNumFits == timingFrameNum \in 0 .. TimingFrames - 1
LightTypes ==
  /\ rxBuf \in [1 .. 4 -> Nat] /\ rxId \in 0 .. Bus!MaxId
  /\ lightState \in Nat /\ turnTiming \in Nat
PotTypes == pots \in [1 .. 4 -> Nat]

(* The invariant: what waits in a buffer was sent, and the filters of the  *)
(* volume controller let nothing else through.                             *)
BusInv == Bus!ListenersShowOneFrame /\ BuffersHeard

(* The parts of a frame.                                                   *)
LEMMA FrameParts ==
  ASSUME NEW f \in Frames
  PROVE  f.id \in 1 .. Bus!MaxId /\ f.id \in Nat /\ f.data \in Seq(Nat)
<1>1. \A i \in 1 .. Bus!MaxId : i \in Nat
  BY DEF Bus!MaxId
<1>2. f.id \in 1 .. Bus!MaxId /\ f.data \in Seq(Nat)
  BY Zenon DEF Frames
<1>3. f.id \in Nat
  BY <1>1, <1>2, Zenon
<1> QED BY <1>2, <1>3

(* What is known of the types, part by part.                               *)
LEMMA BusTypes ==
  Bus!TypeOK <=> FrameNumFits /\ IdsFit /\ LightTypes /\ PotTypes
<1>1. Bus!TypeOK => FrameNumFits /\ IdsFit /\ LightTypes /\ PotTypes
  <2> SUFFICES ASSUME Bus!TypeOK
               PROVE  FrameNumFits /\ IdsFit /\ LightTypes /\ PotTypes
    OBVIOUS
  <2>1. FrameNumFits
    BY Zenon DEF Bus!TypeOK, FrameNumFits
  <2>2. IdsFit
    BY Zenon DEF Bus!TypeOK, IdsFit
  <2>3. LightTypes
    BY Zenon DEF Bus!TypeOK, LightTypes
  <2>4. PotTypes
    BY Zenon DEF Bus!TypeOK, PotTypes
  <2> QED BY <2>1, <2>2, <2>3, <2>4
<1>2. ASSUME FrameNumFits, IdsFit, LightTypes, PotTypes
      PROVE  Bus!TypeOK
  BY <1>2, Zenon DEF Bus!TypeOK, FrameNumFits, IdsFit, LightTypes, PotTypes
<1> QED BY <1>1, <1>2

(* What the invariant says.                                                *)
LEMMA BusParts ==
  BusInv <=> /\ FrameNumFits /\ IdsFit /\ LightTypes /\ PotTypes
             /\ Bus!LightsOfOneFrame /\ Bus!PotsOfOneFrame /\ BuffersHeard
BY BusTypes, Zenon DEF BusInv, Bus!ListenersShowOneFrame

(* What shows depends on nothing but what shows.                           *)
LEMMA LightsStay ==
  ASSUME LightTypes, Bus!LightsOfOneFrame,
         rxBuf' = rxBuf, rxId' = rxId, lightState' = lightState,
         turnTiming' = turnTiming
  PROVE  LightTypes' /\ Bus!LightsOfOneFrame'
<1>1. LightTypes'
  BY DEF LightTypes
<1>2. Bus!LightsOfOneFrame'
  BY DEF Bus!LightsOfOneFrame
<1> QED BY <1>1, <1>2

LEMMA PotsStay ==
  ASSUME PotTypes, Bus!PotsOfOneFrame, pots' = pots
  PROVE  PotTypes' /\ Bus!PotsOfOneFrame'
<1>1. PotTypes'
  BY DEF PotTypes
<1>2. Bus!PotsOfOneFrame'
  BY DEF Bus!PotsOfOneFrame
<1> QED BY <1>1, <1>2

(* What a buffer holds has an identifier of eleven bits.                   *)
LEMMA HeardId ==
  ASSUME BuffersHeard
  PROVE  IdsFit
<1>1. Bus!Empty.id \in 0 .. Bus!MaxId
  BY DEF Bus!Empty, Bus!MaxId
<1>2. \A f \in Frames : f.id \in 0 .. Bus!MaxId
  <2>1. \A i \in 1 .. Bus!MaxId : i \in 0 .. Bus!MaxId
    BY DEF Bus!MaxId
  <2> QED BY <2>1, FrameParts
<1> QED BY <1>1, <1>2, Zenon DEF BuffersHeard, Heard, IdsFit

(* The first buffer of the volume controller is as choosy as the second.   *)
LEMMA Filtered ==
  ASSUME NEW l \in Bus!Listeners, NEW id \in Nat, Bus!SecondBuffer(l, id)
  PROVE  l = "volume" => id = Bus!VolumeId
BY DEF Bus!Listeners, Bus!SecondBuffer, Bus!FirstBuffer, Bus!VolumeFilter

(* A frame on the bus is heard or not.                                     *)
LEMMA BroadcastKeeps ==
  ASSUME BuffersHeard, NEW sender, NEW f \in Frames, WasSent(f),
         Bus!Broadcast(sender, f)
  PROVE  BuffersHeard'
<1>1. /\ DOMAIN buf0' = Bus!Listeners /\ DOMAIN buf1' = Bus!Listeners
      /\ \A l \in Bus!Listeners :
           /\ buf0'[l] = buf0[l] \/ (buf0'[l] = f /\ Bus!Into0(l, f))
           /\ buf1'[l] = buf1[l] \/ (buf1'[l] = f /\ Bus!Into1(l, f))
  BY DEF Bus!Broadcast
<1>2. \A l \in Bus!Listeners : Bus!Into0(l, f) \/ Bus!Into1(l, f) => Heard(l, f)
  <2> SUFFICES ASSUME NEW l \in Bus!Listeners, Bus!Into0(l, f) \/ Bus!Into1(l, f)
               PROVE  Heard(l, f)
    OBVIOUS
  <2>1. Bus!SecondBuffer(l, f.id)
    BY DEF Bus!Into0, Bus!Into1, Bus!SecondBuffer
  <2>2. f.id \in Nat
    BY FrameParts
  <2>3. l = "volume" => f.id = Bus!VolumeId
    BY <2>1, <2>2, Filtered
  <2> QED BY <2>3 DEF Heard
<1> QED BY <1>1, <1>2 DEF BuffersHeard, Heard

(* Four bytes are taken from a frame, or as many as it has.                *)
LEMMA StoredType ==
  ASSUME NEW old \in [1 .. 4 -> Nat], NEW data \in Seq(Nat)
  PROVE  Bus!Stored(old, data) \in [1 .. 4 -> Nat]
<1>1. Len(data) \in Nat /\ data \in [1 .. Len(data) -> Nat]
  BY LenProperties
<1>2. \A i \in 1 .. 4 : i <= Len(data) => data[i] \in Nat
  BY <1>1
<1> QED BY <1>2 DEF Bus!Stored

(* A payload of the master has four bytes.                                 *)
LEMMA FourBytes ==
  ASSUME NEW data \in [1 .. 4 -> Nat] PROVE data \in Seq(Nat) /\ Len(data) = 4
<1>1. data \in Seq(Nat)
  BY SeqDef
<1>2. Len(data) \in Nat /\ DOMAIN data = 1 .. Len(data)
  BY <1>1, LenProperties
<1>3. \A i \in Int : i \in 1 .. Len(data) <=> i \in 1 .. 4
  BY <1>2
<1>4. 4 \in 1 .. Len(data) /\ 5 \notin 1 .. Len(data)
  BY <1>3
<1> QED BY <1>1, <1>2, <1>4

(* All four are taken.                                                     *)
LEMMA StoredWhole ==
  ASSUME NEW old, NEW data \in [1 .. 4 -> Nat] PROVE Bus!Stored(old, data) = data
<1>1. Len(data) = 4
  BY FourBytes
<1> QED BY <1>1 DEF Bus!Stored

(* A payload the master sends is one of four bytes.                        *)
LEMMA MasterData ==
  ASSUME Bus!BusAssumption, NEW id \in MasterIds, NEW data \in DataOf[id]
  PROVE  data \in [1 .. 4 -> Nat] /\ id \in 2 .. Bus!MaxId
<1>1. /\ DataOf \in [MasterIds -> SUBSET [1 .. 4 -> Nat]]
      /\ MasterIds \subseteq 2 .. Bus!MaxId
  BY Zenon DEF Bus!BusAssumption
<1>2. DataOf[id] \in SUBSET [1 .. 4 -> Nat] /\ id \in 2 .. Bus!MaxId
  BY <1>1, Zenon
<1> QED BY <1>2, Zenon

(* At the start the buffers are empty.                                     *)
LEMMA BusInit == ASSUME Bus!BusAssumption, Bus!Init PROVE BusInv
<1>1. Bus!LightsOfOneFrame /\ Bus!PotsOfOneFrame
  BY DEF Bus!Init, Bus!LightsOfOneFrame, Bus!PotsOfOneFrame
<1>2. FrameNumFits /\ IdsFit
  BY DEF Bus!BusAssumption, Bus!Init, FrameNumFits, IdsFit, Bus!Empty, Bus!MaxId
<1>3. LightTypes /\ PotTypes
  BY DEF Bus!Init, LightTypes, PotTypes, Bus!AllZero, Bus!FogEnabled, Bus!MaxId
<1>4. BuffersHeard
  BY DEF Bus!Init, BuffersHeard, Heard
<1> QED BY <1>1, <1>2, <1>3, <1>4, BusParts

(* The Teensy sends a timing frame.                                        *)
LEMMA TimingKeeps ==
  ASSUME Bus!BusAssumption, BusInv, Bus!SendTiming
  PROVE  BusInv'
<1>1. PICK blinker \in BlinkStates :
        Bus!Broadcast("teensy",
                      [id |-> Bus!TimingId, data |-> <<timingFrameNum, blinker>>])
  BY DEF Bus!SendTiming
<1> DEFINE f == [id |-> Bus!TimingId, data |-> <<timingFrameNum, blinker>>]
<1>2. f \in Frames /\ WasSent(f)
  <2>1. <<timingFrameNum, blinker>> \in Seq(Nat)
    <3>1. timingFrameNum \in 0 .. TimingFrames - 1 /\ TimingFrames \in Nat
      BY BusParts DEF FrameNumFits, Bus!BusAssumption
    <3>2. timingFrameNum \in Nat
      BY <3>1
    <3>3. blinker \in Nat
      BY DEF Bus!BusAssumption
    <3> QED BY <3>2, <3>3
  <2>2. Bus!TimingId \in 1 .. Bus!MaxId
    BY DEF Bus!TimingId, Bus!MaxId
  <2>3. [id |-> Bus!TimingId, data |-> <<timingFrameNum, blinker>>] \in Frames
    BY <2>1, <2>2 DEF Frames
  <2> QED BY <2>3, Zenon DEF WasSent
<1>3. BuffersHeard'
  BY <1>1, <1>2, BroadcastKeeps DEF BusInv
<1>4. FrameNumFits'
  <2>1. timingFrameNum \in 0 .. TimingFrames - 1 /\ TimingFrames \in Nat \ {0}
    BY BusParts DEF FrameNumFits, Bus!BusAssumption
  <2>2. timingFrameNum' = IF timingFrameNum = TimingFrames - 1
                          THEN 0 ELSE timingFrameNum + 1
    BY DEF Bus!SendTiming, Bus!NextFrameNum
  <2> QED BY <2>1, <2>2 DEF FrameNumFits
<1>5. IdsFit'
  BY <1>3, HeardId, PTL
<1>6. /\ rxBuf' = rxBuf /\ rxId' = rxId /\ lightState' = lightState
      /\ turnTiming' = turnTiming /\ pots' = pots
  BY DEF Bus!SendTiming
<1>7. LightTypes' /\ Bus!LightsOfOneFrame' /\ PotTypes' /\ Bus!PotsOfOneFrame'
  BY <1>6, LightsStay, PotsStay, BusParts
<1> QED BY <1>3, <1>4, <1>5, <1>7, BusParts, PTL

(* The master sends a frame.                                               *)
LEMMA MasterKeeps ==
  ASSUME Bus!BusAssumption, BusInv, Bus!MasterSends
  PROVE  BusInv'
<1>0. PICK id \in MasterIds : \E data \in DataOf[id] :
        Bus!Broadcast("master", [id |-> id, data |-> data])
  BY DEF Bus!MasterSends
<1>1. PICK data \in DataOf[id] : Bus!Broadcast("master", [id |-> id, data |-> data])
  BY <1>0
<1> DEFINE f == [id |-> id, data |-> data]
<1>2. f \in Frames /\ f.id = id /\ f.data = data
  <2>1. data \in Seq(Nat) /\ id \in 2 .. Bus!MaxId
    <3>1. data \in [1 .. 4 -> Nat] /\ id \in 2 .. Bus!MaxId
      BY MasterData
    <3>2. data \in Seq(Nat)
      BY <3>1, FourBytes
    <3> QED BY <3>1, <3>2
  <2>2. id \in 1 .. Bus!MaxId
    BY <2>1 DEF Bus!MaxId
  <2>3. [id |-> id, data |-> data] \in Frames
    BY <2>1, <2>2 DEF Frames
  <2> QED BY <2>3
<1>3. WasSent(f)
  BY <1>2, Zenon DEF WasSent
<1> HIDE DEF f
<1>5. BuffersHeard'
  BY <1>1, <1>2, <1>3, BroadcastKeeps DEF BusInv, f
<1>6. IdsFit'
  BY <1>5, HeardId, PTL
<1>7. /\ timingFrameNum' = timingFrameNum /\ rxBuf' = rxBuf /\ rxId' = rxId
      /\ lightState' = lightState /\ turnTiming' = turnTiming /\ pots' = pots
  BY DEF Bus!MasterSends
<1>8. LightTypes' /\ Bus!LightsOfOneFrame' /\ PotTypes' /\ Bus!PotsOfOneFrame'
  BY <1>7, LightsStay, PotsStay, BusParts
<1>9. FrameNumFits'
  BY <1>7, BusParts DEF FrameNumFits
<1> QED BY <1>5, <1>6, <1>8, <1>9, BusParts, PTL

(* What a listener takes from a buffer was sent.                           *)
LEMMA TakeKeeps ==
  ASSUME BuffersHeard, NEW l \in Bus!Listeners, Bus!TakeFrame(l)
  PROVE  BuffersHeard' /\ Heard(l, Bus!Waiting(l)) /\ Bus!Waiting(l) # Bus!Empty
<1>1. /\ DOMAIN buf0' = Bus!Listeners /\ DOMAIN buf1' = Bus!Listeners
      /\ \A k \in Bus!Listeners : /\ buf0'[k] \in {Bus!Empty, buf0[k]}
                                  /\ buf1'[k] \in {Bus!Empty, buf1[k]}
  BY DEF BuffersHeard, Bus!TakeFrame
<1>2. \A k \in Bus!Listeners : Heard(k, buf0'[k]) /\ Heard(k, buf1'[k])
  BY <1>1 DEF BuffersHeard, Heard
<1>3. BuffersHeard'
  BY <1>1, <1>2 DEF BuffersHeard, Heard
<1>4. Heard(l, Bus!Waiting(l)) /\ Bus!Waiting(l) # Bus!Empty
  BY DEF BuffersHeard, Bus!TakeFrame, Bus!Waiting
<1> QED BY <1>3, <1>4

(* The halo lights read a frame; one that is meant for them is the         *)
(* master's.                                                               *)
LEMMA HaloKeeps == ASSUME Bus!BusAssumption, BusInv, Bus!HaloLoop PROVE BusInv'
<1> DEFINE f == Bus!Waiting("halo")
<1>1. /\ Bus!TakeFrame("halo") /\ rxId' = f.id /\ rxBuf' = Bus!Stored(rxBuf, f.data)
      /\ IF f.id \in 2 .. 15 THEN lightState' = rxBuf'[1] /\ turnTiming' = rxBuf'[2]
                             ELSE UNCHANGED <<lightState, turnTiming>>
      /\ UNCHANGED <<timingFrameNum, pots>>
  BY DEF Bus!HaloLoop, Bus!IdRead
<1>2. BuffersHeard' /\ Heard("halo", f) /\ f # Bus!Empty
  BY <1>1, TakeKeeps DEF Bus!Listeners, BusInv
<1>0. IdsFit'
  BY <1>2, HeardId, PTL
<1> HIDE DEF f
<1>3. f.id \in 1 .. Bus!MaxId /\ f.data \in Seq(Nat) /\ WasSent(f)
  BY <1>2, FrameParts DEF Heard
<1>4. rxBuf' \in [1 .. 4 -> Nat] /\ rxId' \in 0 .. Bus!MaxId
  <2>1. rxBuf \in [1 .. 4 -> Nat]
    BY BusParts DEF LightTypes
  <2>2. Bus!Stored(rxBuf, f.data) \in [1 .. 4 -> Nat]
    BY <1>3, <2>1, StoredType
  <2>3. \A i \in 1 .. Bus!MaxId : i \in 0 .. Bus!MaxId
    BY DEF Bus!MaxId
  <2> QED BY <1>1, <1>3, <2>2, <2>3
<1>5. LightTypes' /\ Bus!LightsOfOneFrame'
  <2>1. CASE f.id \in 2 .. 15
    <3>1. f.id \in MasterIds /\ f.data \in DataOf[f.id]
      BY <1>3, <2>1 DEF WasSent, Bus!TimingId
    <3>2. f.data \in [1 .. 4 -> Nat]
      BY <3>1, MasterData
    <3>3. rxBuf' = f.data
      BY <1>1, <3>2, StoredWhole
    <3>4. lightState' = f.data[1] /\ turnTiming' = f.data[2]
      BY <1>1, <2>1, <3>3
    <3>5. Bus!LightsOfOneFrame'
      BY <2>1, <3>1, <3>4 DEF Bus!LightsOfOneFrame, Bus!VolumeId
    <3>6. lightState' \in Nat /\ turnTiming' \in Nat
      BY <3>2, <3>4
    <3> QED BY <1>4, <3>5, <3>6 DEF LightTypes
  <2>2. CASE f.id \notin 2 .. 15
    <3>1. lightState' = lightState /\ turnTiming' = turnTiming
      BY <1>1, <2>2
    <3>2. Bus!LightsOfOneFrame'
      BY <3>1, BusParts DEF Bus!LightsOfOneFrame
    <3> QED BY <1>4, <3>1, <3>2, BusParts DEF LightTypes
  <2> QED BY <2>1, <2>2
<1>6. timingFrameNum' = timingFrameNum /\ pots' = pots
  BY <1>1
<1>7. FrameNumFits' /\ PotTypes' /\ Bus!PotsOfOneFrame'
  BY <1>6, PotsStay, BusParts DEF FrameNumFits
<1>8. BuffersHeard'
  BY <1>2
<1> QED BY <1>0, <1>5, <1>7, <1>8, BusParts, PTL

(* The volume controller reads a frame, and it is a volume frame.          *)
LEMMA VolumeKeeps ==
  ASSUME Bus!BusAssumption, BusInv, Bus!VolumeLoop
  PROVE  BusInv'
<1> DEFINE f == Bus!Waiting("volume")
<1>1. /\ Bus!TakeFrame("volume") /\ pots' = Bus!Stored(pots, f.data)
      /\ UNCHANGED <<timingFrameNum, rxBuf, rxId, lightState, turnTiming>>
  BY DEF Bus!VolumeLoop
<1>2. BuffersHeard' /\ Heard("volume", f) /\ f # Bus!Empty
  BY <1>1, TakeKeeps DEF Bus!Listeners, BusInv
<1>0. IdsFit'
  BY <1>2, HeardId, PTL
<1> HIDE DEF f
<1>3. Bus!VolumeId \in MasterIds /\ f.data \in DataOf[Bus!VolumeId]
  BY <1>2 DEF Heard, WasSent, Bus!VolumeId, Bus!TimingId
<1>4. f.data \in [1 .. 4 -> Nat]
  BY <1>3, MasterData
<1>5. pots' = f.data
  BY <1>1, <1>4, StoredWhole
<1>6. Bus!PotsOfOneFrame' /\ PotTypes'
  BY <1>3, <1>4, <1>5 DEF Bus!PotsOfOneFrame, PotTypes
<1>7. /\ timingFrameNum' = timingFrameNum /\ rxBuf' = rxBuf /\ rxId' = rxId
      /\ lightState' = lightState /\ turnTiming' = turnTiming
  BY <1>1
<1>8. FrameNumFits' /\ LightTypes' /\ Bus!LightsOfOneFrame'
  BY <1>7, LightsStay, BusParts DEF FrameNumFits
<1>9. BuffersHeard'
  BY <1>2
<1> QED BY <1>0, <1>6, <1>8, <1>9, BusParts, PTL

(* Every frame that is sent and every pass of a listener keeps it.         *)
LEMMA BusStep ==
  ASSUME Bus!BusAssumption, BusInv, [Bus!Next]_(Bus!busVars) PROVE BusInv'
<1>1. CASE UNCHANGED Bus!busVars
  <2>1. /\ timingFrameNum' = timingFrameNum /\ rxBuf' = rxBuf /\ rxId' = rxId
        /\ lightState' = lightState /\ turnTiming' = turnTiming /\ pots' = pots
        /\ buf0' = buf0 /\ buf1' = buf1
    BY <1>1 DEF Bus!busVars
  <2>2. FrameNumFits' /\ LightTypes' /\ Bus!LightsOfOneFrame'
    BY <2>1, LightsStay, BusParts DEF FrameNumFits
  <2>3. PotTypes' /\ Bus!PotsOfOneFrame'
    BY <2>1, PotsStay, BusParts
  <2>5. IdsFit'
    BY <2>1, BusParts DEF IdsFit
  <2>4. BuffersHeard'
    BY <2>1, BusParts DEF BuffersHeard, Heard
  <2> QED BY <2>2, <2>3, <2>4, <2>5, BusParts, PTL
<1> QED BY <1>1, TimingKeeps, MasterKeeps, HaloKeeps, VolumeKeeps DEF Bus!Next

(* Whatever the master sends and however the frames overtake each other in *)
(* the two buffers, the lights are those of one frame of their group and   *)
(* the potentiometers those of one volume frame.                           *)
THEOREM OneFrameIsShown ==
  Bus!BusAssumption => (Bus!Spec => []ListenersShowOneFrame)
<1> SUFFICES ASSUME Bus!BusAssumption PROVE Bus!Spec => []ListenersShowOneFrame
  OBVIOUS
<1>1. Bus!Init => BusInv
  BY BusInit
<1>2. BusInv /\ [Bus!Next]_(Bus!busVars) => BusInv'
  BY BusStep
<1>3. BusInv => ListenersShowOneFrame
  BY DEF BusInv, ListenersShowOneFrame
<1> QED BY <1>1, <1>2, <1>3, PTL DEF Bus!Spec

=============================================================================
