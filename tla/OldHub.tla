------------------------------- MODULE OldHub -------------------------------
(***************************************************************************)
(* loop() of the version of the hub before (ECU_Interface_Arduino_Due2):   *)
(* the same request queue and the same link to the Pi, driven from one     *)
(* tier. Tier one first gives a reading to the Pi and then serves the      *)
(* queue, so that an answer waits for the next time round before it is     *)
(* sent; and no tier withdraws a text the Pi does not ask for: DueInt      *)
(* stays high until it does.                                               *)
(***************************************************************************)
EXTENDS Integers

CONSTANTS
  Slots, RefillBelow, MaxResponse, RxCap, TxCap, LineCap, (* of ObdQueue     *)
  Readings, Cells,                                        (* of RasPiLink    *)
  TierOneTicks,    (* 5000 microseconds in the code                          *)
  TierThreeTicks,  (* 100000                                                 *)
  MaxPass          (* the most ticks one pass of loop() takes                *)

(* What the constants have to be; MCDueLoop assumes it of its values.    *)
HubAssumption ==
  /\ TierOneTicks \in Nat /\ TierThreeTicks \in Nat /\ MaxPass \in Nat \ {0}

VARIABLES
  OBDMessagesToSend, OBDResponseCallbackIndex, OBDMessagesToSendCount,
  waitingForOBDResponse, available, lines, wire, lastSent,
  reading, readingTemp, dataToSendi2cFlag, dataToSendi2c, tempchar,
  dataToSendi2cBuff, DueInt, copying, next, piView, missed,
  stage,           (* where loop() is; "print": SendMessage, before println *)
  tierOneCounter, tierThreeCounter

Obd  == INSTANCE ObdQueue WITH LossyLine <- FALSE, sending <- (stage = "print")
Link == INSTANCE RasPiLink WITH FrameReused <- FALSE, ResetLimit <- 0, i2cresetCounter <- 0

obdVars  == <<OBDMessagesToSend, OBDResponseCallbackIndex,
              OBDMessagesToSendCount, waitingForOBDResponse, available, lines,
              wire, lastSent>>
linkVars == <<reading, readingTemp, dataToSendi2cFlag, dataToSendi2c, tempchar,
              dataToSendi2cBuff, DueInt, copying, next, piView, missed>>
tiers    == <<tierOneCounter, tierThreeCounter>>
hubVars  == <<obdVars, linkVars, stage, tiers>>

Init ==
  /\ stage = "timing" /\ Obd!Init /\ Link!Init
  /\ tierOneCounter = 0 /\ tierThreeCounter = 0

-----------------------------------------------------------------------------
(* The definitions with a suffix are faulty variants of the step they      *)
(* precede.                                                                *)

Timing ==
  /\ stage = "timing"
  /\ \E timeDiff \in 1 .. MaxPass :
       /\ tierOneCounter' = tierOneCounter + timeDiff
       /\ tierThreeCounter' = tierThreeCounter + timeDiff
  /\ stage' = "tierOne"
  /\ UNCHANGED <<obdVars, linkVars>>

(* Overwrites no text that the Pi has not read yet.                        *)
HasReading_WhenRead == dataToSendi2cFlag # {} /\ ~DueInt

HasReading == dataToSendi2cFlag # {}

TierOne ==
  /\ stage = "tierOne"
  /\ IF tierOneCounter > TierOneTicks
     THEN /\ tierOneCounter' = 0
          /\ IF HasReading
             THEN Link!AddDataToRasPi /\ stage' = "copy"
             ELSE UNCHANGED linkVars /\ stage' = "send"
     ELSE UNCHANGED <<tierOneCounter, linkVars>> /\ stage' = "tierThree"
  /\ UNCHANGED <<obdVars, tierThreeCounter>>

Copy ==
  /\ stage = "copy"
  /\ \/ Link!CopyCell /\ stage' = stage
     \/ Link!RaiseDueInt /\ stage' = "send"
  /\ UNCHANGED <<obdVars, tiers>>

Send ==
  /\ stage = "send"
  /\ IF OBDMessagesToSendCount # 0 /\ ~waitingForOBDResponse
     THEN stage' = "print" /\ Obd!SendMessage
     ELSE stage' = "receive" /\ UNCHANGED obdVars
  /\ UNCHANGED <<linkVars, tiers>>

WriteRequest ==
  /\ stage = "print" /\ stage' = "receive"
  /\ Obd!Println
  /\ UNCHANGED <<linkVars, tiers>>

Receive ==
  /\ stage = "receive" /\ stage' = "tierThree"
  /\ IF waitingForOBDResponse /\ available > 0
     THEN Obd!MessageRecieved /\ Link!Update(OBDResponseCallbackIndex[0])
     ELSE UNCHANGED <<obdVars, linkVars>>
  /\ UNCHANGED tiers

TierThree ==
  /\ stage = "tierThree" /\ stage' = "timing"
  /\ IF tierThreeCounter > TierThreeTicks
     THEN /\ tierThreeCounter' = 0
          /\ IF OBDMessagesToSendCount < RefillBelow
             THEN Obd!AddMessagesToSend ELSE UNCHANGED obdVars
     ELSE UNCHANGED <<tierThreeCounter, obdVars>>
  /\ UNCHANGED <<linkVars, tierOneCounter>>

LoopStep == Timing \/ TierOne \/ Copy \/ Send \/ WriteRequest \/ Receive \/ TierThree

ByteArrives == UNCHANGED <<linkVars, stage, tiers>> /\ Obd!ByteArrives

Answers == UNCHANGED <<linkVars, stage, tiers>> /\ Obd!FakeAnswers

RequestEvent == Link!RequestEvent /\ UNCHANGED <<obdVars, stage, tiers>>

Next == LoopStep \/ ByteArrives \/ Answers \/ RequestEvent

Spec == Init /\ [][Next]_hubVars

(* As in DueLoop, but for the Pi, which need not ask.                      *)
FairSpec ==
  Spec /\ WF_hubVars(LoopStep) /\ WF_hubVars(ByteArrives) /\ WF_hubVars(Answers)

=============================================================================
