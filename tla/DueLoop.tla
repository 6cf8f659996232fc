------------------------------- MODULE DueLoop -------------------------------
(***************************************************************************)
(* loop() of Arduino_Due.ino: the OBD poller (ObdQueue) and the link to    *)
(* the Pi (RasPiLink) as the one thread of the Due drives them, in the     *)
(* order of the code, with the tiers that pace them.                       *)
(*                                                                         *)
(* The poller and the link meet in one place: the parser of an answer is   *)
(* what changes a reading.  They also share the time: tier one sends at    *)
(* most one reading to the Pi each time it comes round, and only because   *)
(* tier three asks for new ones more slowly does each reading get its turn *)
(* behind the lower bit of the other.                                      *)
(***************************************************************************)
EXTENDS Integers

CONSTANTS
  Slots, RefillBelow, MaxResponse, RxCap, TxCap, LineCap, (* of ObdQueue     *)
  Readings, Cells, ResetLimit,                            (* of RasPiLink    *)
  TierOneTicks,    (* 4000 microseconds in the code                          *)
  TierThreeTicks,  (* 100000                                                 *)
  TierFiveTicks,   (* 2500000                                                *)
  MaxPass          (* the most ticks one pass of loop() takes                *)

ASSUME LoopAssumption ==
  /\ Slots \in Nat \ {0}
  /\ TierOneTicks \in Nat /\ TierThreeTicks \in Nat /\ TierFiveTicks \in Nat
  /\ TierOneTicks < TierThreeTicks
  /\ MaxPass \in Nat \ {0}

VARIABLES
  OBDMessagesToSend, OBDResponseCallbackIndex, OBDMessagesToSendCount,
  waitingForOBDResponse, available, lines, wire, lastSent,
  reading, readingTemp, dataToSendi2cFlag, dataToSendi2c, tempchar,
  dataToSendi2cBuff, DueInt, i2cresetCounter, copying, next, piView, missed,
  stage,           (* where loop() is; "print": SendMessage, before println *)
  tierOneCounter, tierThreeCounter, tierFiveCounter

Obd  == INSTANCE ObdQueue WITH LossyLine <- FALSE, sending <- (stage = "print")
Link == INSTANCE RasPiLink WITH FrameReused <- FALSE

(* The constants are such as the two parts need.                           *)
ASSUME PartsAssumption == Obd!ConstantsAssumption /\ Link!LinkAssumption

obdVars  == <<OBDMessagesToSend, OBDResponseCallbackIndex,
              OBDMessagesToSendCount, waitingForOBDResponse, available, lines,
              wire, lastSent>>
linkVars == <<reading, readingTemp, dataToSendi2cFlag, dataToSendi2c, tempchar,
              dataToSendi2cBuff, DueInt, i2cresetCounter, copying, next,
              piView, missed>>
tiers    == <<tierOneCounter, tierThreeCounter, tierFiveCounter>>
loopVars == <<obdVars, linkVars, stage, tiers>>

Init ==
  /\ stage = "send"
  /\ Obd!Init
  /\ Link!Init
  /\ tierOneCounter = 0
  /\ tierThreeCounter = 0
  /\ tierFiveCounter = 0

-----------------------------------------------------------------------------
(* One pass of loop().  The definitions with a suffix are faulty variants  *)
(* of the step they precede.                                               *)

Send ==
  /\ stage = "send"
  /\ IF OBDMessagesToSendCount # 0 /\ ~waitingForOBDResponse
     THEN stage' = "print" /\ Obd!SendMessage
     ELSE stage' = "receive" /\ UNCHANGED obdVars
  /\ UNCHANGED <<linkVars, tiers>>

WriteRequest ==
  /\ stage = "print" /\ stage' = "receive"
  /\ Obd!Println
  /\ UNCHANGED <<linkVars, tiers>>

(* Hands the answer to the parser of the request that is now in front.     *)
Receive_ParserAfterShift ==
  /\ stage = "receive" /\ stage' = "timing"
  /\ IF waitingForOBDResponse /\ available > 0
     THEN /\ Obd!MessageRecieved
          /\ Link!Update(OBDResponseCallbackIndex[1])
     ELSE UNCHANGED <<obdVars, linkVars>>
  /\ UNCHANGED tiers

(* Takes the answer off the queue and goes on waiting for it.              *)
Receive_StillWaiting ==
  /\ stage = "receive"
  /\ IF waitingForOBDResponse /\ available > 0
     THEN /\ OBDMessagesToSendCount' = (OBDMessagesToSendCount - 1) % 256
          /\ UNCHANGED <<OBDMessagesToSend, OBDResponseCallbackIndex,
                         waitingForOBDResponse, available, lines, wire,
                         lastSent>>
          /\ Link!Update(OBDResponseCallbackIndex[0])
     ELSE UNCHANGED <<obdVars, linkVars>>
  /\ stage' = "timing"
  /\ UNCHANGED tiers

(* The parser index is the bit its reading is flagged with.                *)
Receive ==
  /\ stage = "receive" /\ stage' = "timing"
  /\ IF waitingForOBDResponse /\ available > 0
     THEN /\ Obd!MessageRecieved
          /\ Link!Update(OBDResponseCallbackIndex[0])
     ELSE UNCHANGED <<obdVars, linkVars>>
  /\ UNCHANGED tiers

(* micros() has advanced since the pass before.                            *)
Timing ==
  /\ stage = "timing"
  /\ \E timeDiff \in 1 .. MaxPass :
       /\ tierOneCounter' = tierOneCounter + timeDiff
       /\ tierThreeCounter' = tierThreeCounter + timeDiff
       /\ tierFiveCounter' = tierFiveCounter + timeDiff
  /\ stage' = "tierOne"
  /\ UNCHANGED <<obdVars, linkVars>>

(* Never starts the count of tier one again.                               *)
TierOne_NoReset ==
  /\ stage = "tierOne"
  /\ IF tierOneCounter > TierOneTicks /\ dataToSendi2cFlag # {}
     THEN Link!AddDataToRasPi /\ stage' = "copy"
     ELSE UNCHANGED linkVars /\ stage' = "tierThree"
  /\ UNCHANGED <<obdVars, tiers>>

TierOne ==
  /\ stage = "tierOne"
  /\ IF tierOneCounter > TierOneTicks
     THEN /\ tierOneCounter' = 0
          /\ IF dataToSendi2cFlag # {}
             THEN Link!AddDataToRasPi /\ stage' = "copy"
             ELSE UNCHANGED linkVars /\ stage' = "tierThree"
     ELSE UNCHANGED <<tierOneCounter, linkVars>> /\ stage' = "tierThree"
  /\ UNCHANGED <<obdVars, tierThreeCounter, tierFiveCounter>>

(* Takes an answer that comes between the formatting and the copy at once. *)
Copy_AnswerBetween ==
  /\ stage = "copy"
  /\ \/ Link!CopyCell /\ stage' = stage /\ UNCHANGED obdVars
     \/ Link!RaiseDueInt /\ stage' = "tierThree" /\ UNCHANGED obdVars
     \/ /\ next = 0 /\ waitingForOBDResponse /\ available > 0
        /\ stage' = stage /\ Obd!MessageRecieved
        /\ \E v \in Readings :
             /\ reading' = [reading EXCEPT ![OBDResponseCallbackIndex[0]] = v]
             /\ readingTemp' = reading'
             /\ dataToSendi2cFlag' =
                  IF reading' = reading THEN dataToSendi2cFlag
                  ELSE dataToSendi2cFlag \cup {OBDResponseCallbackIndex[0]}
        /\ UNCHANGED <<dataToSendi2c, tempchar, dataToSendi2cBuff, DueInt,
                       i2cresetCounter, copying, next, piView, missed>>
  /\ UNCHANGED tiers

Copy ==
  /\ stage = "copy"
  /\ \/ Link!CopyCell /\ stage' = stage
     \/ Link!RaiseDueInt /\ stage' = "tierThree"
  /\ UNCHANGED <<obdVars, tiers>>

TierThree ==
  /\ stage = "tierThree" /\ stage' = "tierFive"
  /\ IF tierThreeCounter > TierThreeTicks
     THEN /\ tierThreeCounter' = 0
          /\ IF OBDMessagesToSendCount < RefillBelow
             THEN Obd!AddMessagesToSend ELSE UNCHANGED obdVars
     ELSE UNCHANGED <<tierThreeCounter, obdVars>>
  /\ UNCHANGED <<linkVars, tierOneCounter, tierFiveCounter>>

TierFive ==
  /\ stage = "tierFive"
  /\ IF tierFiveCounter > TierFiveTicks
     THEN tierFiveCounter' = 0 /\ Link!TierFive
     ELSE UNCHANGED <<tierFiveCounter, linkVars>>
  /\ stage' = "send"
  /\ UNCHANGED <<obdVars, tierOneCounter, tierThreeCounter>>

LoopStep ==
  Send \/ WriteRequest \/ Receive \/ Timing \/ TierOne \/ Copy \/ TierThree \/ TierFive

(* What happens beside the loop: the serial line, the simulator, the Pi.   *)
ByteArrives ==
  UNCHANGED <<linkVars, stage, tiers>> /\ Obd!ByteArrives

FakeAnswers ==
  UNCHANGED <<linkVars, stage, tiers>> /\ Obd!FakeAnswers

RequestEvent ==
  Link!RequestEvent /\ UNCHANGED <<obdVars, stage, tiers>>

Next == LoopStep \/ ByteArrives \/ FakeAnswers \/ RequestEvent

Spec == Init /\ [][Next]_loopVars

(* loop() never returns for good; the line and the simulator go on; the Pi *)
(* is the one of RasPiLink.                                                *)
Fairness ==
  /\ WF_loopVars(LoopStep)
  /\ WF_loopVars(ByteArrives)
  /\ WF_loopVars(FakeAnswers)
  /\ SF_loopVars(DueInt /\ ~copying /\ RequestEvent)

FairSpec == Spec /\ Fairness

-----------------------------------------------------------------------------
(* Properties.                                                             *)

(* Every variable of the loop itself has its type, and the copy loop runs  *)
(* in tier one only.                                                       *)
TypeOK ==
  /\ stage \in {"send", "print", "receive", "timing", "tierOne", "copy", "tierThree",
                "tierFive"}
  /\ tierOneCounter \in 0 .. TierOneTicks + MaxPass
  /\ tierThreeCounter \in 0 .. TierThreeTicks + MaxPass
  /\ tierFiveCounter \in 0 .. TierFiveTicks + MaxPass
  /\ copying = (stage = "copy")

(* The queue, its parsers and the link, driven in the order of loop(), do  *)
(* together what Polling promises: one request at a time is open, speed    *)
(* and tach in turn, and nothing but the answer to the open one changes a  *)
(* reading.                                                                *)
Poll == INSTANCE Polling WITH
  asked <- IF lastSent = Obd!Speed THEN 0 ELSE 1,
  open  <- waitingForOBDResponse /\ stage # "print"

ImplementsPolling == Poll!Spec

(* A reading only changes when it is the one that was asked for last: the  *)
(* speed on the answer to 010d, the engine speed on the answer to 010c.    *)
AnswerChangesItsReading ==
  [][\A k \in Link!Kinds :
       reading'[k] # reading[k] => lastSent = Obd!OBDResponseParser[k]]_loopVars

(* A flagged reading is sent although tier one takes the lowest bit only:  *)
(* the speed does not starve the engine speed.                             *)
FlagIsServed ==
  \A k \in Link!Kinds : k \in dataToSendi2cFlag ~> k \notin dataToSendi2cFlag

(* A reading reaches the Pi unless it changes again or its text was        *)
(* overwritten or withdrawn before the Pi asked for it.                    *)
ReadingReachesPi ==
  \A k \in Link!Kinds : \A v \in Readings :
    reading[k] = v
      ~> (piView[k] = v \/ reading[k] # v \/ k \in missed)
=============================================================================
