------------------------------ MODULE MCDueLoop ------------------------------
(***************************************************************************)
(* loop() of the Due for TLC, as it is now and as it was in the version    *)
(* before: part says which of the two a behaviour is.  The old one has no  *)
(* tier five.                                                              *)
(*                                                                         *)
(* Tier one comes round every second tick and tier three every fourth, so  *)
(* that just two readings can be sent for every pair that is asked for     *)
(* (twenty-five in the code, twenty in the old one): the margin is as      *)
(* small as it can be.  The arrays are one shorter than in the code, where *)
(* MCObdQueue has the full length.                                         *)
(***************************************************************************)
EXTENDS DueLoop

VARIABLE part

Old == INSTANCE OldHub

ASSUME Old!HubAssumption

oldVars == <<obdVars, reading, readingTemp, dataToSendi2cFlag, dataToSendi2c,
             tempchar, dataToSendi2cBuff, DueInt, copying, next, piView,
             missed, stage, tierOneCounter, tierThreeCounter>>

MCInit ==
  \/ part = "due" /\ Init
  \/ part = "old" /\ Old!Init /\ tierFiveCounter = 0 /\ i2cresetCounter = 0

MCNext ==
  /\ UNCHANGED part
  /\ \/ part = "due" /\ Next
     \/ part = "old" /\ Old!Next /\ UNCHANGED <<tierFiveCounter, i2cresetCounter>>

(* The fairness of DueLoop and of OldHub, each for its part: the Pi of the *)
(* old hub need not ask.                                                   *)
MCSpec ==
  /\ MCInit /\ [][MCNext]_<<part, loopVars>>
  /\ WF_loopVars(part = "due" /\ LoopStep)
  /\ WF_loopVars(part = "due" /\ ByteArrives)
  /\ WF_loopVars(part = "due" /\ FakeAnswers)
  /\ SF_loopVars(part = "due" /\ DueInt /\ ~copying /\ RequestEvent)
  /\ WF_oldVars(part = "old" /\ Old!LoopStep)
  /\ WF_oldVars(part = "old" /\ Old!ByteArrives)
  /\ WF_oldVars(part = "old" /\ Old!Answers)

-----------------------------------------------------------------------------
(* TypeOK, ImplementsPolling, AnswerChangesItsReading and FlagIsServed are *)
(* those of DueLoop, and are checked of both versions.                     *)

(* What a reading is comes to be known to a Pi that asks the Due.          *)
DueReadingReachesPi == [](part = "due") => ReadingReachesPi

=============================================================================
