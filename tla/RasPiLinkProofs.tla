-------------------------- MODULE RasPiLinkProofs --------------------------
(***************************************************************************)
(* Proofs about RasPiLink, for every value of its constants.               *)
(*                                                                         *)
(* That a quiet link has delivered everything is not inductive: it rests   *)
(* on what the buffer holds while the line is up (BufferKept), on how far  *)
(* the copy has come (CopySoFar), and on the Pi never taking a mixture for *)
(* a reading of a kind that is not being sent (ViewKept).                  *)
(***************************************************************************)
EXTENDS RasPiLink, TLAPS

Sending == LowestBit(dataToSendi2cFlag)

(* The kinds of which nothing newer is to come and nothing has gone lost.  *)
Settled == Kinds \ (dataToSendi2cFlag \cup missed)

LoopShape ==
  /\ readingTemp = reading
  /\ ~copying => next = 0
  /\ copying => dataToSendi2cFlag # {}

CopySoFar ==
  copying =>
    /\ Sending \in missed => missed = Kinds
    /\ Sending \notin missed =>
         /\ dataToSendi2c[Sending] = "tempchar"
         /\ tempchar = Text(Sending, reading[Sending])
         /\ \A c \in Cell : c < next =>
              dataToSendi2cBuff[c] = Text(Sending, reading[Sending])[c]

BufferKept ==
  next = 0 =>
    \A k \in InBuffer \cap Settled : dataToSendi2cBuff = Text(k, reading[k])

ViewKept ==
  \A k \in Settled :
    piView[k] = reading[k] \/ (DueInt /\ ~copying /\ k \in InBuffer)

LInv == TypeOK /\ LoopShape /\ CopySoFar /\ BufferKept /\ ViewKept

-----------------------------------------------------------------------------
LEMMA TextTyped ==
  ASSUME NEW k \in Kinds, NEW v \in Readings
  PROVE  /\ Text(k, v) \in [Cell -> Content]
         /\ Text(k, v)[0] = Tag(k)
  BY LinkAssumption DEF Text, Content, Cell

LEMMA TagInjective ==
  ASSUME NEW j \in Kinds, NEW k \in Kinds, Tag(j) = Tag(k)
  PROVE  j = k
  BY DEF Tag

LEMMA LowestBitIsSet ==
  ASSUME NEW flags \in SUBSET Kinds, flags # {}
  PROVE  LowestBit(flags) \in flags /\ FormattedLast(flags) = LowestBit(flags)
  BY DEF LowestBit, FormattedLast, Kinds

(* Reading back a whole text gives the reading it was made of.             *)
LEMMA ReadBackText ==
  ASSUME NEW k \in Kinds, NEW v \in Readings
  PROVE  ReadBack(Text(k, v)) = v
<1>1. 1 \in Cell /\ 1 # 0
  BY LinkAssumption DEF Cell
<1>2. \A c \in Cell \ {0} : Text(k, v)[c] = Digit(v)
  BY DEF Text
<1>3. Text(k, v)[1] = Digit(v)
  BY <1>1, <1>2
<1> QED
  BY <1>2, <1>3 DEF ReadBack, Digit

LEMMA ReadBackTyped ==
  ASSUME NEW buff \in [Cell -> Content]
  PROVE  ReadBack(buff) \in Readings \cup {Mixed}
<1>1. CASE \E v \in Readings : \A c \in Cell \ {0} : buff[c] = Digit(v)
  <2>1. PICK v \in Readings : \A c \in Cell \ {0} : buff[c] = Digit(v)
    BY <1>1
  <2>2. buff[1] = Digit(v)
    BY <2>1, LinkAssumption DEF Cell
  <2> QED
    BY <1>1, <2>2 DEF ReadBack, Digit
<1>2. CASE ~ \E v \in Readings : \A c \in Cell \ {0} : buff[c] = Digit(v)
  BY <1>2 DEF ReadBack
<1> QED
  BY <1>1, <1>2

LEMMA InitLInv == Init => LInv
<1> SUFFICES ASSUME Init PROVE LInv
  OBVIOUS
<1>1. NoText \in [Cell -> Content]
  BY DEF NoText, Content
<1>2. /\ reading \in [Kinds -> Readings]
      /\ readingTemp \in [Kinds -> Readings]
      /\ piView \in [Kinds -> Readings \cup {Mixed}]
      /\ dataToSendi2c \in [Kinds -> {"otherCharArray", "tempchar"}]
  BY LinkAssumption DEF Init
<1>3. /\ i2cresetCounter \in 0 .. ResetLimit + 1
      /\ next \in 0 .. Cells
      /\ dataToSendi2cFlag \subseteq Kinds /\ missed \subseteq Kinds
  BY LinkAssumption DEF Init
<1>4. DueInt \in BOOLEAN /\ copying \in BOOLEAN
  BY DEF Init
<1>5. TypeOK
  BY <1>1, <1>2, <1>3, <1>4 DEF Init, TypeOK
<1>6. InBuffer = {}
  BY LinkAssumption DEF Init, InBuffer, NoText, Junk, Tag, Cell
<1>7. LoopShape /\ CopySoFar /\ BufferKept /\ ViewKept
  BY <1>6 DEF Init, LoopShape, CopySoFar, BufferKept, ViewKept, Settled
<1> QED
  BY <1>5, <1>7 DEF LInv

LEMMA UpdateLInv ==
  ASSUME LInv, NEW k \in Kinds, Update(k)
  PROVE  LInv'
<1>1. PICK v \in Readings :
        /\ reading' = [reading EXCEPT ![k] = v]
        /\ readingTemp' = [readingTemp EXCEPT ![k] = v]
        /\ dataToSendi2cFlag' = IF readingTemp[k] # v
                                THEN dataToSendi2cFlag \cup {k}
                                ELSE dataToSendi2cFlag
  BY DEF Update
<1>2. /\ ~copying
      /\ UNCHANGED <<dataToSendi2c, i2cresetCounter, tempchar,
                     dataToSendi2cBuff, DueInt, copying, next, piView, missed>>
  BY DEF Update
<1>3. TypeOK'
  BY <1>1, <1>2 DEF LInv, TypeOK
<1>4. LoopShape'
  BY <1>1, <1>2 DEF LInv, LoopShape
<1>5. CopySoFar'
  BY <1>2 DEF CopySoFar
<1>6. ASSUME NEW j \in Settled'
      PROVE  j \in Settled /\ reading'[j] = reading[j]
  <2>1. j \in Kinds /\ j \notin dataToSendi2cFlag' /\ j \notin missed
    BY <1>2 DEF Settled
  <2>2. dataToSendi2cFlag \subseteq dataToSendi2cFlag'
    BY <1>1
  <2>3. reading \in [Kinds -> Readings] /\ readingTemp = reading
    BY DEF LInv, TypeOK, LoopShape
  <2>4. CASE j = k
    <3>1. readingTemp[k] = v
      BY <1>1, <2>1, <2>4
    <3> QED
      BY <1>1, <2>1, <2>2, <2>3, <2>4, <3>1 DEF Settled
  <2>5. CASE j # k
    BY <1>1, <2>1, <2>2, <2>3, <2>5 DEF Settled
  <2> QED
    BY <2>4, <2>5
<1>7. InBuffer' = InBuffer
  BY <1>2 DEF InBuffer
<1>8. BufferKept'
  BY <1>2, <1>6, <1>7 DEF LInv, BufferKept, Text
<1>9. ViewKept'
  BY <1>2, <1>6, <1>7 DEF LInv, ViewKept
<1> QED
  BY <1>3, <1>4, <1>5, <1>8, <1>9 DEF LInv

LEMMA AddDataToRasPiLInv == LInv /\ AddDataToRasPi => LInv'
<1> SUFFICES ASSUME LInv, AddDataToRasPi PROVE LInv'
  OBVIOUS
<1>1. /\ Sending \in dataToSendi2cFlag /\ Sending \in Kinds
      /\ FormattedLast(dataToSendi2cFlag) = Sending
      /\ Sending' = Sending
  BY LowestBitIsSet DEF LInv, TypeOK, AddDataToRasPi, Sending
<1>2. /\ tempchar' = Text(Sending, reading[Sending])
      /\ dataToSendi2c' = [j \in Kinds |-> IF j \in dataToSendi2cFlag
                                THEN "tempchar" ELSE dataToSendi2c[j]]
      /\ missed' = (missed \ {Sending}) \cup
                     (IF DueInt THEN InBuffer \ {Sending} ELSE {})
      /\ ~copying /\ copying' = TRUE
      /\ UNCHANGED <<reading, readingTemp, dataToSendi2cFlag, i2cresetCounter,
                     dataToSendi2cBuff, DueInt, next, piView>>
  BY <1>1 DEF AddDataToRasPi, Sending
<1>3. Sending \notin missed' /\ next = 0
  BY <1>2 DEF LInv, LoopShape
<1>4. TypeOK'
  <2>1. tempchar' \in [Cell -> Content]
    BY <1>1, <1>2, TextTyped DEF LInv, TypeOK
  <2>2. missed' \subseteq Kinds
    BY <1>2 DEF LInv, TypeOK, InBuffer
  <2>3. dataToSendi2c' \in [Kinds -> {"otherCharArray", "tempchar"}]
    BY <1>2 DEF LInv, TypeOK
  <2>4. copying' \in BOOLEAN
    BY <1>2
  <2> QED
    BY <1>2, <2>1, <2>2, <2>3, <2>4 DEF LInv, TypeOK
<1>5. LoopShape'
  BY <1>1, <1>2 DEF LInv, LoopShape
<1>6. CopySoFar'
  <2>1. dataToSendi2c'[Sending'] = "tempchar"
    BY <1>1, <1>2
  <2>2. tempchar' = Text(Sending', reading'[Sending'])
    BY <1>1, <1>2
  <2>3. \A c \in Cell : ~(c < next')
    BY <1>2, <1>3, LinkAssumption DEF Cell
  <2> QED
    BY <1>1, <1>3, <2>1, <2>2, <2>3 DEF CopySoFar
<1>7. InBuffer' = InBuffer /\ Settled' \subseteq Settled
  BY <1>1, <1>2 DEF InBuffer, Settled
<1>8. BufferKept'
  BY <1>2, <1>7 DEF LInv, BufferKept
<1>9. ViewKept'
  <2> SUFFICES ASSUME NEW k \in Settled' PROVE piView[k] = reading[k]
    BY <1>2 DEF ViewKept
  <2>1. ~(DueInt /\ k \in InBuffer)
    BY <1>1, <1>2 DEF Settled
  <2> QED
    BY <1>7, <2>1 DEF LInv, ViewKept
<1> QED
  BY <1>4, <1>5, <1>6, <1>8, <1>9 DEF LInv

LEMMA CopyCellLInv == LInv /\ CopyCell => LInv'
<1> SUFFICES ASSUME LInv, CopyCell PROVE LInv'
  OBVIOUS
<1>1. /\ Sending \in dataToSendi2cFlag /\ Sending \in Kinds
  BY LowestBitIsSet DEF LInv, TypeOK, LoopShape, CopyCell, Sending
<1>2. /\ copying /\ next \in Nat /\ next < Cells /\ next \in Cell
      /\ dataToSendi2cBuff'
           = [dataToSendi2cBuff EXCEPT ![next] = SourceCell(next)]
      /\ next' = next + 1
      /\ UNCHANGED <<reading, readingTemp, dataToSendi2cFlag, dataToSendi2c,
                     i2cresetCounter, tempchar, DueInt, copying, piView,
                     missed>>
  BY LinkAssumption DEF LInv, TypeOK, CopyCell, mainVars, Cell
<1>3. Sending' = Sending
  BY <1>2 DEF Sending
<1>4. SourceCell(next) \in Content
  BY <1>2 DEF LInv, TypeOK, SourceCell, Content
<1>5. TypeOK'
  <2>1. dataToSendi2cBuff' \in [Cell -> Content]
    BY <1>2, <1>4 DEF LInv, TypeOK
  <2>2. next' \in 0 .. Cells
    BY <1>2, LinkAssumption
  <2> QED
    BY <1>2, <2>1, <2>2 DEF LInv, TypeOK
<1>6. LoopShape'
  BY <1>2 DEF LInv, LoopShape
<1>7. CopySoFar'
  <2>1. CASE Sending \in missed
    BY <1>2, <1>3, <2>1 DEF LInv, CopySoFar
  <2>2. CASE Sending \notin missed
    <3>1. SourceCell(next) = Text(Sending, reading[Sending])[next]
      BY <1>2, <2>2 DEF LInv, CopySoFar, SourceCell, Sending
    <3>2. ASSUME NEW c \in Cell, c < next'
          PROVE  dataToSendi2cBuff'[c] = Text(Sending, reading[Sending])[c]
      <4>1. CASE c = next
        BY <1>2, <3>1, <4>1 DEF LInv, TypeOK
      <4>2. CASE c # next
        <5>1. c < next
          BY <1>2, <3>2, <4>2 DEF Cell
        <5> QED
          BY <1>2, <2>2, <4>2, <5>1 DEF LInv, TypeOK, CopySoFar
      <4> QED
        BY <4>1, <4>2
    <3> QED
      BY <1>2, <1>3, <2>2, <3>2 DEF LInv, CopySoFar
  <2> QED
    BY <2>1, <2>2
<1>8. BufferKept'
  BY <1>2 DEF BufferKept
<1>9. ViewKept'
  BY <1>2 DEF LInv, ViewKept, Settled
<1> QED
  BY <1>5, <1>6, <1>7, <1>8, <1>9 DEF LInv

LEMMA RaiseDueIntLInv == LInv /\ RaiseDueInt => LInv'
<1> SUFFICES ASSUME LInv, RaiseDueInt PROVE LInv'
  OBVIOUS
<1>1. /\ Sending \in dataToSendi2cFlag /\ Sending \in Kinds
  BY LowestBitIsSet DEF LInv, TypeOK, LoopShape, RaiseDueInt, Sending
<1>2. /\ copying /\ next = Cells
      /\ dataToSendi2cFlag' = dataToSendi2cFlag \ {Sending}
      /\ DueInt' = TRUE /\ copying' = FALSE /\ next' = 0
      /\ UNCHANGED <<reading, readingTemp, dataToSendi2c, i2cresetCounter,
                     tempchar, dataToSendi2cBuff, piView, missed>>
  BY DEF RaiseDueInt, Sending
<1>3. TypeOK'
  <2>1. /\ DueInt' \in BOOLEAN /\ copying' \in BOOLEAN
    BY <1>2
  <2>2. next' \in 0 .. Cells /\ dataToSendi2cFlag' \subseteq Kinds
    BY <1>2, LinkAssumption DEF LInv, TypeOK
  <2> QED
    BY <1>2, <2>1, <2>2 DEF LInv, TypeOK
<1>4. LoopShape' /\ CopySoFar'
  BY <1>2 DEF LInv, LoopShape, CopySoFar
<1>5. InBuffer' = InBuffer /\ Settled' \subseteq Settled \cup {Sending}
  BY <1>2 DEF InBuffer, Settled
<1>6. ASSUME Sending \notin missed
      PROVE  /\ dataToSendi2cBuff = Text(Sending, reading[Sending])
             /\ InBuffer = {Sending}
  <2>1. \A c \in Cell :
          dataToSendi2cBuff[c] = Text(Sending, reading[Sending])[c]
    BY <1>2, <1>6, LinkAssumption DEF LInv, CopySoFar, Cell
  <2>2. Text(Sending, reading[Sending]) \in [Cell -> Content]
    BY <1>1, TextTyped DEF LInv, TypeOK
  <2>3. dataToSendi2cBuff = Text(Sending, reading[Sending])
    BY <2>1, <2>2 DEF LInv, TypeOK
  <2>4. dataToSendi2cBuff[0] = Tag(Sending)
    BY <1>1, <2>3, TextTyped DEF LInv, TypeOK
  <2> QED
    BY <1>1, <2>3, <2>4, TagInjective DEF InBuffer
<1>7. Settled' # {} => Sending \notin missed
  BY <1>2 DEF LInv, CopySoFar, Settled
<1>8. BufferKept'
  BY <1>2, <1>5, <1>6, <1>7 DEF BufferKept
<1>9. ViewKept'
  <2> SUFFICES ASSUME NEW k \in Settled'
               PROVE  piView[k] = reading[k] \/ k \in InBuffer
    BY <1>2, <1>5 DEF ViewKept
  <2>1. CASE k = Sending
    BY <1>6, <1>7, <2>1
  <2>2. CASE k # Sending
    BY <1>2, <1>5, <2>2 DEF LInv, ViewKept
  <2> QED
    BY <2>1, <2>2
<1> QED
  BY <1>3, <1>4, <1>8, <1>9 DEF LInv

LEMMA TierFiveLInv == LInv /\ TierFive => LInv'
<1> SUFFICES ASSUME LInv, TierFive PROVE LInv'
  OBVIOUS
<1> DEFINE seen == i2cresetCounter + (IF DueInt THEN 1 ELSE 0)
<1>1. /\ ~copying
      /\ i2cresetCounter' = IF seen > ResetLimit THEN ResetLimit + 1 ELSE seen
      /\ UNCHANGED <<reading, readingTemp, dataToSendi2cFlag, dataToSendi2c,
                     tempchar, dataToSendi2cBuff, copying, next, piView>>
  BY DEF TierFive
<1>2. \/ UNCHANGED <<DueInt, missed>>
      \/ DueInt' = FALSE /\ missed' = missed \cup (IF DueInt THEN InBuffer
                                                   ELSE {})
  BY DEF TierFive
<1>3. TypeOK'
  <2>1. seen \in Nat
    BY LinkAssumption DEF LInv, TypeOK
  <2>2. i2cresetCounter' \in 0 .. ResetLimit + 1
    BY <1>1, <2>1, LinkAssumption
  <2>3. DueInt' \in BOOLEAN
    BY <1>2 DEF LInv, TypeOK
  <2>4. missed' \subseteq Kinds
    BY <1>2 DEF LInv, TypeOK, InBuffer
  <2> QED
    BY <1>1, <2>2, <2>3, <2>4 DEF LInv, TypeOK
<1>4. LoopShape' /\ CopySoFar'
  BY <1>1 DEF LInv, LoopShape, CopySoFar
<1>5. InBuffer' = InBuffer /\ Settled' \subseteq Settled
  BY <1>1, <1>2 DEF InBuffer, Settled
<1>6. BufferKept'
  BY <1>1, <1>5 DEF LInv, BufferKept
<1>7. ViewKept'
  BY <1>1, <1>2, <1>5 DEF LInv, ViewKept, Settled
<1> QED
  BY <1>3, <1>4, <1>6, <1>7 DEF LInv

LEMMA RequestEventLInv == LInv /\ RequestEvent => LInv'
<1> SUFFICES ASSUME LInv, RequestEvent PROVE LInv'
  OBVIOUS
<1>1. /\ DueInt' = FALSE
      /\ piView' = [k \in Kinds |-> IF k \in InBuffer
                                    THEN ReadBack(dataToSendi2cBuff)
                                    ELSE piView[k]]
      /\ UNCHANGED <<reading, readingTemp, dataToSendi2cFlag, dataToSendi2c,
                     i2cresetCounter, tempchar, dataToSendi2cBuff, copying,
                     next, missed>>
  BY DEF RequestEvent, mainVars
<1>2. TypeOK'
  <2>1. piView' \in [Kinds -> Readings \cup {Mixed}]
    BY <1>1, ReadBackTyped DEF LInv, TypeOK
  <2>2. DueInt' \in BOOLEAN
    BY <1>1
  <2> QED
    BY <1>1, <2>1, <2>2 DEF LInv, TypeOK
<1>3. LoopShape'
  BY <1>1 DEF LInv, LoopShape
<1>4. Sending' = Sending /\ InBuffer' = InBuffer /\ Settled' = Settled
  BY <1>1 DEF Sending, InBuffer, Settled
<1>5. CopySoFar'
  BY <1>1, <1>4 DEF LInv, CopySoFar
<1>6. BufferKept'
  BY <1>1, <1>4 DEF LInv, BufferKept
<1>7. ViewKept'
  <2> SUFFICES ASSUME NEW k \in Settled PROVE piView'[k] = reading[k]
    BY <1>1, <1>4 DEF ViewKept
  <2>1. k \in Kinds /\ reading[k] \in Readings
    BY DEF Settled, LInv, TypeOK
  <2>2. CASE k \notin InBuffer
    BY <1>1, <2>1, <2>2 DEF LInv, ViewKept
  <2>3. CASE k \in InBuffer /\ next = 0
    <3>1. dataToSendi2cBuff = Text(k, reading[k])
      BY <2>3 DEF LInv, BufferKept
    <3> QED
      BY <1>1, <2>1, <2>3, <3>1, ReadBackText
  <2>4. CASE k \in InBuffer /\ next # 0
    <3>1. copying /\ 0 < next /\ 0 \in Cell
      BY <2>4, LinkAssumption DEF LInv, TypeOK, LoopShape, Cell
    <3>2. Sending \in dataToSendi2cFlag /\ Sending \in Kinds
      BY <3>1, LowestBitIsSet DEF LInv, TypeOK, LoopShape, Sending
    <3>3. Sending \notin missed
      BY <3>1 DEF LInv, CopySoFar, Settled
    <3>4. dataToSendi2cBuff[0] = Tag(Sending)
      BY <3>1, <3>2, <3>3, TextTyped DEF LInv, TypeOK, CopySoFar
    <3>5. k = Sending
      BY <2>1, <2>4, <3>2, <3>4, TagInjective DEF InBuffer
    <3> QED
      BY <3>2, <3>5 DEF Settled
  <2> QED
    BY <2>2, <2>3, <2>4
<1> QED
  BY <1>2, <1>3, <1>5, <1>6, <1>7 DEF LInv

LEMMA FrameOverwrittenLInv == LInv /\ FrameOverwritten => LInv'
<1> SUFFICES ASSUME LInv, FrameOverwritten PROVE LInv'
  OBVIOUS
<1>1. /\ copying /\ missed' = Kinds
      /\ UNCHANGED <<reading, readingTemp, dataToSendi2cFlag, dataToSendi2c,
                     i2cresetCounter, dataToSendi2cBuff, DueInt, copying,
                     next, piView>>
  BY DEF FrameOverwritten, mainVars
<1>2. tempchar' \in [Cell -> Content]
  BY DEF LInv, TypeOK, FrameOverwritten, Content
<1>3. TypeOK'
  BY <1>1, <1>2 DEF LInv, TypeOK
<1>4. LoopShape'
  BY <1>1 DEF LInv, LoopShape
<1>5. Settled' = {}
  BY <1>1 DEF Settled
<1>6. Sending' \in missed'
  <2>1. Sending \in Kinds
    BY <1>1, LowestBitIsSet DEF LInv, TypeOK, LoopShape, Sending
  <2> QED
    BY <1>1, <2>1 DEF Sending
<1>7. CopySoFar'
  BY <1>1, <1>6 DEF CopySoFar
<1>8. BufferKept' /\ ViewKept'
  BY <1>5 DEF BufferKept, ViewKept
<1> QED
  BY <1>3, <1>4, <1>7, <1>8 DEF LInv

(* LInv is inductive.                                                      *)
LEMMA NextLInv == LInv /\ [Next]_linkVars => LInv'
<1> SUFFICES ASSUME LInv, [Next]_linkVars PROVE LInv'
  OBVIOUS
<1>1. CASE \E k \in Kinds : Update(k)
  BY <1>1, UpdateLInv
<1>2. CASE AddDataToRasPi
  BY <1>2, AddDataToRasPiLInv
<1>3. CASE CopyCell
  BY <1>3, CopyCellLInv
<1>4. CASE RaiseDueInt
  BY <1>4, RaiseDueIntLInv
<1>5. CASE TierFive
  BY <1>5, TierFiveLInv
<1>6. CASE RequestEvent
  BY <1>6, RequestEventLInv
<1>7. CASE FrameOverwritten
  BY <1>7, FrameOverwrittenLInv
<1>8. CASE UNCHANGED linkVars
  <2>1. UNCHANGED <<reading, readingTemp, dataToSendi2cFlag, dataToSendi2c,
                    i2cresetCounter, tempchar, dataToSendi2cBuff, DueInt,
                    copying, next, piView, missed>>
    BY <1>8 DEF linkVars, mainVars
  <2>2. TypeOK' /\ LoopShape'
    BY <2>1 DEF LInv, TypeOK, LoopShape
  <2>3. Sending' = Sending /\ InBuffer' = InBuffer /\ Settled' = Settled
    BY <2>1 DEF Sending, InBuffer, Settled
  <2>4. CopySoFar' /\ BufferKept' /\ ViewKept'
    BY <2>1, <2>3 DEF LInv, CopySoFar, BufferKept, ViewKept
  <2> QED
    BY <2>2, <2>4 DEF LInv
<1> QED
  BY <1>1, <1>2, <1>3, <1>4, <1>5, <1>6, <1>7, <1>8 DEF Next, MainLoop

LEMMA SpecLInv == Spec => []LInv
  BY InitLInv, NextLInv, PTL DEF Spec

-----------------------------------------------------------------------------
(* Every reachable state of the link is well typed: the copy loop of tier  *)
(* one stays inside the transmit buffer.                                   *)
THEOREM LinkTypeCorrect == Spec => []TypeOK
  BY SpecLInv, PTL DEF LInv

(* With any readings, any length of the buffer and any limit of tier five, *)
(* a quiet link has delivered every reading the Pi had the chance to read. *)
THEOREM QuietDelivers == Spec => []QuietMeansDelivered
<1>1. LInv => QuietMeansDelivered
  BY DEF LInv, ViewKept, Settled, QuietMeansDelivered
<1> QED
  BY <1>1, SpecLInv, PTL

(* Between two copies the buffer never holds an old reading that is not    *)
(* flagged to be sent again.                                               *)
THEOREM BufferCurrent == Spec => []BufferIsCurrent
<1>1. LInv => BufferIsCurrent
  BY DEF LInv, LoopShape, BufferKept, Settled, InBuffer, BufferIsCurrent
<1> QED
  BY <1>1, SpecLInv, PTL
=============================================================================
