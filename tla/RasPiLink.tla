----------------------------- MODULE RasPiLink -----------------------------
(***************************************************************************)
(* How the Due hands the vehicle speed and the engine speed to the         *)
(* Raspberry Pi over I2C (Arduino_Due/functions.ino, sections "I2C         *)
(* Functions" and "OBDII"; the tier-one and tier-five tasks of loop() in   *)
(* Arduino_Due.ino).                                                       *)
(*                                                                         *)
(* The parsers set a flag when a reading changes.  The tier-one task takes *)
(* the lowest flag, formats the reading, copies it cell by cell into the   *)
(* one transmit buffer, clears the flag and raises the line DueInt.  The   *)
(* Pi may read at any time: the interrupt requestEvent then sends the      *)
(* buffer as it is at that moment and lowers DueInt.  The tier-five task   *)
(* lowers a line that it has seen raised too often.                        *)
(*                                                                         *)
(* The text of a reading is a tag in cell 0 and, in each other cell, the   *)
(* reading itself: two readings differ in every cell but the tag.          *)
(***************************************************************************)
EXTENDS Integers

CONSTANTS
  Readings,     (* what a parser may come up with; 0 is the value at boot    *)
  Cells,        (* length of dataToSendi2cBuff; 9 in the code                *)
  ResetLimit,   (* i2cresetCounter above which tier five lowers the line; 5  *)
  FrameReused   (* whether an interrupt may overwrite a dead stack frame     *)

ASSUME LinkAssumption ==
  /\ 0 \in Readings /\ Readings \subseteq Nat
  /\ Cells \in Nat /\ Cells >= 2
  /\ ResetLimit \in Nat
  /\ FrameReused \in BOOLEAN

VARIABLES
  reading,            (* MilesPerHour and engineRPM                          *)
  readingTemp,        (* MilesPerHourTemp and engineRPMtemp                  *)
  dataToSendi2cFlag,  (* the set of bits that are one                        *)
  dataToSendi2c,      (* which text each pointer leads to                    *)
  tempchar,           (* the array in the stack frame of addDataToRasPi      *)
  dataToSendi2cBuff,
  DueInt,
  i2cresetCounter,    (* exact up to ResetLimit + 1, where it stays          *)
  copying,            (* tier one is in the copy loop ...                    *)
  next,               (* ... and this is the cell it copies next             *)
  piView,             (* the Pi: what it has been told last of each kind     *)
  missed              (* history: the kinds whose newest text was overwritten,
                         spoilt or withdrawn before the Pi had read it       *)

mainVars == <<reading, readingTemp, dataToSendi2cFlag, dataToSendi2c,
              i2cresetCounter>>
linkVars == <<mainVars, tempchar, dataToSendi2cBuff, DueInt, copying, next,
              piView, missed>>

-----------------------------------------------------------------------------
MPHflagMask == 0
RPMflagMask == 1
Kinds       == {MPHflagMask, RPMflagMask}
Cell        == 0 .. Cells - 1

Tag(k)   == <<"tag", k>>
Digit(v) == <<"digit", v>>
Junk     == <<"junk", 0>>    (* a cell of otherCharArray or of no text      *)
Mixed    == -1               (* what the Pi makes of a mixture of cells      *)
Content  == {Tag(k) : k \in Kinds} \cup {Digit(v) : v \in Readings}
              \cup {Junk}

Text(k, v) == [c \in Cell |-> IF c = 0 THEN Tag(k) ELSE Digit(v)]
NoText     == [c \in Cell |-> Junk]

(* The kinds whose text the buffer holds: none before the first one.       *)
InBuffer == {k \in Kinds : dataToSendi2cBuff[0] = Tag(k)}

(* The first bit the for loop of tier one finds.                           *)
LowestBit(flags) == IF MPHflagMask \in flags THEN MPHflagMask ELSE RPMflagMask

(* PinsSetup leaves DueInt high, over a buffer of "x"; what the display of *)
(* the Pi shows before it is told anything is the zero of the Due.         *)
Init ==
  /\ reading = [k \in Kinds |-> 0]
  /\ readingTemp = [k \in Kinds |-> 0]
  /\ dataToSendi2cFlag = {}
  /\ dataToSendi2c = [k \in Kinds |-> "otherCharArray"]
  /\ tempchar = NoText
  /\ dataToSendi2cBuff = NoText
  /\ DueInt = TRUE
  /\ i2cresetCounter = 0
  /\ copying = FALSE
  /\ next = 0
  /\ piView = [k \in Kinds |-> 0]
  /\ missed = {}

-----------------------------------------------------------------------------
(* The main loop.  The definitions with a suffix are faulty variants of    *)
(* the operation they precede.                                             *)

(* Takes a zero for no answer.                                             *)
Update_ZeroUnflagged(k) ==
  /\ ~copying
  /\ \E v \in Readings :
       /\ reading' = [reading EXCEPT ![k] = v]
       /\ readingTemp' = [readingTemp EXCEPT ![k] = v]
       /\ dataToSendi2cFlag' = IF readingTemp[k] # v /\ v # 0
                               THEN dataToSendi2cFlag \cup {k}
                               ELSE dataToSendi2cFlag
  /\ UNCHANGED <<dataToSendi2c, i2cresetCounter, tempchar, dataToSendi2cBuff,
                 DueInt, copying, next, piView, missed>>

(* UpdateVehicleSpeed and UpdateTach; the answer is not looked at, the     *)
(* reading is a random number.                                             *)
Update(k) ==
  /\ ~copying
  /\ \E v \in Readings :
       /\ reading' = [reading EXCEPT ![k] = v]
       /\ readingTemp' = [readingTemp EXCEPT ![k] = v]
       /\ dataToSendi2cFlag' = IF readingTemp[k] # v
                               THEN dataToSendi2cFlag \cup {k}
                               ELSE dataToSendi2cFlag
  /\ UNCHANGED <<dataToSendi2c, i2cresetCounter, tempchar, dataToSendi2cBuff,
                 DueInt, copying, next, piView, missed>>

(* Formats the speed first, so that the engine speed stays in the array.   *)
FormattedLast_SpeedFirst(flags) ==
  IF RPMflagMask \in flags THEN RPMflagMask ELSE MPHflagMask

(* addDataToRasPi formats both flagged readings into the same array on its *)
(* stack: what stays there is the speed, if that is flagged.               *)
FormattedLast(flags) ==
  IF MPHflagMask \in flags THEN MPHflagMask ELSE RPMflagMask

(* The tier-one task up to the copy loop.  The text in the buffer is about *)
(* to be overwritten: if DueInt is still high, nobody has asked for it.    *)
AddDataToRasPi ==
  LET k == FormattedLast(dataToSendi2cFlag)
      b == LowestBit(dataToSendi2cFlag)
  IN
  /\ ~copying
  /\ dataToSendi2cFlag # {}
  /\ tempchar' = Text(k, reading[k])
  /\ dataToSendi2c' = [j \in Kinds |-> IF j \in dataToSendi2cFlag
                                        THEN "tempchar" ELSE dataToSendi2c[j]]
  /\ copying' = TRUE
  /\ missed' = (missed \ {b}) \cup (IF DueInt THEN InBuffer \ {b} ELSE {})
  /\ UNCHANGED <<reading, readingTemp, dataToSendi2cFlag, i2cresetCounter,
                 dataToSendi2cBuff, DueInt, next, piView>>

(* The character the pointer of the bit being sent leads to.               *)
SourceCell(c) ==
  IF dataToSendi2c[LowestBit(dataToSendi2cFlag)] = "tempchar"
  THEN tempchar[c] ELSE Junk

(* Copies from the last cell down to the tag.                              *)
CopyCell_TagLast ==
  /\ copying
  /\ next < Cells
  /\ dataToSendi2cBuff' = [dataToSendi2cBuff EXCEPT
                              ![Cells - 1 - next] = SourceCell(Cells - 1 - next)]
  /\ next' = next + 1
  /\ UNCHANGED <<mainVars, tempchar, DueInt, copying, piView, missed>>

(* One turn of the loop that copies the text into the transmit buffer.     *)
CopyCell ==
  /\ copying
  /\ next < Cells
  /\ dataToSendi2cBuff' = [dataToSendi2cBuff EXCEPT ![next] = SourceCell(next)]
  /\ next' = next + 1
  /\ UNCHANGED <<mainVars, tempchar, DueInt, copying, piView, missed>>

(* The copy is done: the bit is cleared, DueInt raised, the loop left.     *)
RaiseDueInt ==
  /\ copying
  /\ next = Cells
  /\ dataToSendi2cFlag'
       = dataToSendi2cFlag \ {LowestBit(dataToSendi2cFlag)}
  /\ DueInt' = TRUE
  /\ copying' = FALSE
  /\ next' = 0
  /\ UNCHANGED <<reading, readingTemp, dataToSendi2c, i2cresetCounter,
                 tempchar, dataToSendi2cBuff, piView, missed>>

(* The tier-five task.  The counter is never set back.                     *)
TierFive ==
  LET seen == i2cresetCounter + (IF DueInt THEN 1 ELSE 0) IN
  /\ ~copying
  /\ i2cresetCounter' = IF seen > ResetLimit THEN ResetLimit + 1 ELSE seen
  /\ IF seen > ResetLimit
     THEN /\ DueInt' = FALSE
          /\ missed' = missed \cup (IF DueInt THEN InBuffer ELSE {})
     ELSE UNCHANGED <<DueInt, missed>>
  /\ UNCHANGED <<reading, readingTemp, dataToSendi2cFlag, dataToSendi2c,
                 tempchar, dataToSendi2cBuff, copying, next, piView>>

-----------------------------------------------------------------------------
(* The interrupts.                                                         *)

(* What the Pi takes the buffer for.                                       *)
ReadBack(buff) ==
  IF \E v \in Readings : \A c \in Cell \ {0} : buff[c] = Digit(v)
  THEN buff[1][2] ELSE Mixed

(* requestEvent, at any time the Pi likes: it need not look at DueInt.     *)
RequestEvent ==
  /\ DueInt' = FALSE
  /\ piView' = [k \in Kinds |-> IF k \in InBuffer
                               THEN ReadBack(dataToSendi2cBuff)
                               ELSE piView[k]]
  /\ UNCHANGED <<mainVars, tempchar, dataToSendi2cBuff, copying, next, missed>>

(* An interrupt while the loop reads through a dangling pointer: its stack *)
(* frame may lie on the dead one, and what it leaves there may look like   *)
(* the text of either kind.                                                *)
FrameOverwritten ==
  /\ FrameReused
  /\ copying
  /\ next < Cells
  /\ \E S \in SUBSET Cell :
       tempchar' = [c \in Cell |-> IF c \in S THEN Junk ELSE tempchar[c]]
  /\ missed' = Kinds
  /\ UNCHANGED <<mainVars, dataToSendi2cBuff, DueInt, copying, next, piView>>

MainLoop ==
  \/ \E k \in Kinds : Update(k)
  \/ AddDataToRasPi
  \/ CopyCell
  \/ RaiseDueInt
  \/ TierFive

Next == MainLoop \/ RequestEvent \/ FrameOverwritten

Spec == Init /\ [][Next]_linkVars

(* The copy loop runs to its end.  A Pi that finds DueInt high again and   *)
(* again asks some time when nothing is being copied: a copy takes a few   *)
(* microseconds of the four milliseconds between two of them.  Nothing     *)
(* makes a reading change and nothing makes tier one come round.           *)
Fairness ==
  /\ WF_linkVars(CopyCell)
  /\ WF_linkVars(RaiseDueInt)
  /\ SF_linkVars(DueInt /\ ~copying /\ RequestEvent)

FairSpec == Spec /\ Fairness

-----------------------------------------------------------------------------
(* Properties.                                                             *)

(* Every variable has its type.                                            *)
TypeOK ==
  /\ reading \in [Kinds -> Readings]
  /\ readingTemp \in [Kinds -> Readings]
  /\ dataToSendi2cFlag \subseteq Kinds
  /\ dataToSendi2c \in [Kinds -> {"otherCharArray", "tempchar"}]
  /\ tempchar \in [Cell -> Content]
  /\ dataToSendi2cBuff \in [Cell -> Content]
  /\ DueInt \in BOOLEAN
  /\ i2cresetCounter \in 0 .. ResetLimit + 1
  /\ copying \in BOOLEAN
  /\ next \in 0 .. Cells
  /\ piView \in [Kinds -> Readings \cup {Mixed}]
  /\ missed \subseteq Kinds

(* Whenever the link is quiet (nothing flagged, nothing being copied, the  *)
(* line low) the Pi shows the current reading of every kind whose newest   *)
(* text it had the chance to read.  So the speed is not lost although both *)
(* kinds are formatted into one array, no change is lost between the flag, *)
(* the buffer and the line, and no mixture of two texts is left standing.  *)
QuietMeansDelivered ==
  ~copying /\ ~DueInt =>
    \A k \in Kinds \ (dataToSendi2cFlag \cup missed) : piView[k] = reading[k]

(* A request that comes between two copies is never answered with an old   *)
(* reading: whatever text the buffer holds is the reading of its kind, or  *)
(* that kind is flagged to be sent again.                                  *)
BufferIsCurrent ==
  ~copying =>
    \A k \in InBuffer \ (dataToSendi2cFlag \cup missed) :
      dataToSendi2cBuff = Text(k, reading[k])

(* A request in the middle of a copy gets a mixture of two texts, and may  *)
(* take it for a reading of the kind being sent; it is followed by another *)
(* one, so the Pi does not keep showing it.                                *)
MixtureHeals ==
  \A k \in Kinds : piView[k] = Mixed ~> piView[k] # Mixed \/ k \in missed
=============================================================================
