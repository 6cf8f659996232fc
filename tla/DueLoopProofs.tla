---------------------------- MODULE DueLoopProofs ----------------------------
(***************************************************************************)
(* loop() of the Due, whatever the ticks of the tiers and the length of a  *)
(* pass: it keeps what is proved of the poller and of the link, as every   *)
(* step of a pass is a step of each or leaves it alone, and both together  *)
(* do what Polling promises.  Behind it the same of loop() of the version  *)
(* before, and the calls the first hub made instead: each waits for an     *)
(* answer, and its reading is behind by no more than the answers setup()   *)
(* has left.                                                               *)
(***************************************************************************)
EXTENDS DueLoop, OldObd, SequenceTheorems, TLAPS

LEMMA ObdStep == [Next]_loopVars => [Obd!Next]_(Obd!vars)
<1> SUFFICES ASSUME [Next]_loopVars PROVE [Obd!Next]_(Obd!vars)
  OBVIOUS
<1>1. Obd!vars' = Obd!vars
        <=> UNCHANGED obdVars /\ (stage = "print")' = (stage = "print")
  BY DEF Obd!vars, Obd!queueVars, Obd!lineVars, obdVars
<1>2. CASE Send
  BY <1>1, <1>2 DEF Send, Obd!Next
<1>3. CASE WriteRequest
  BY <1>3 DEF WriteRequest, Obd!Next
<1>4. CASE Receive
  BY <1>1, <1>4 DEF Receive, Obd!Next
<1>5. CASE Timing \/ TierOne \/ Copy \/ TierFive \/ RequestEvent
  BY <1>1, <1>5 DEF Timing, TierOne, Copy, TierFive, RequestEvent
<1>6. CASE TierThree
  BY <1>1, <1>6 DEF TierThree, Obd!Next
<1>7. CASE ByteArrives \/ FakeAnswers
  BY <1>7 DEF ByteArrives, FakeAnswers, Obd!Next
<1>8. CASE UNCHANGED loopVars
  BY <1>1, <1>8 DEF loopVars
<1> QED
  BY <1>2, <1>3, <1>4, <1>5, <1>6, <1>7, <1>8 DEF Next, LoopStep

(* Everything the loop does with the OBD queue is what ObdQueue allows.    *)
LEMMA KeepsToObdQueue == Spec => Obd!Spec
<1>1. Init => Obd!Init
  BY DEF Init
<1> QED
  BY <1>1, ObdStep, PTL DEF Spec, Obd!Spec

(* The index of a parser is a bit of the flag byte, which an answer needs  *)
(* to be a step of the link; the rest is a matter of the guards.           *)
LEMMA LinkStep ==
  ASSUME OBDResponseCallbackIndex[0] \in {0, 1}
  PROVE  [Next]_loopVars => [Link!Next]_(Link!linkVars)
<1> SUFFICES ASSUME [Next]_loopVars PROVE [Link!Next]_(Link!linkVars)
  OBVIOUS
<1>1. Link!linkVars' = Link!linkVars <=> UNCHANGED linkVars
  BY DEF Link!linkVars, Link!mainVars, linkVars
<1>2. CASE Send \/ WriteRequest \/ Timing \/ TierThree \/ ByteArrives \/ FakeAnswers
  BY <1>1, <1>2 DEF Send, WriteRequest, Timing, TierThree, ByteArrives, FakeAnswers
<1>3. CASE Receive
  <2>1. OBDResponseCallbackIndex[0] \in Link!Kinds
    BY DEF Link!Kinds, Link!MPHflagMask, Link!RPMflagMask
  <2> QED
    BY <1>1, <1>3, <2>1 DEF Receive, Link!Next, Link!MainLoop
<1>4. CASE TierOne
  BY <1>1, <1>4 DEF TierOne, Link!Next, Link!MainLoop
<1>5. CASE Copy
  BY <1>1, <1>5 DEF Copy, Link!Next, Link!MainLoop
<1>6. CASE TierFive
  BY <1>1, <1>6 DEF TierFive, Link!Next, Link!MainLoop
<1>7. CASE RequestEvent
  BY <1>7 DEF RequestEvent, Link!Next
<1>8. CASE UNCHANGED loopVars
  BY <1>1, <1>8 DEF loopVars
<1> QED
  BY <1>2, <1>3, <1>4, <1>5, <1>6, <1>7, <1>8 DEF Next, LoopStep

ParsersInRange == OBDResponseCallbackIndex \in [Obd!Index -> {0, 1}]

LEMMA ParsersStayInRange == Obd!Spec => []ParsersInRange
<1>1. Obd!Init => ParsersInRange
  BY DEF Obd!Init, ParsersInRange
<1>2. ParsersInRange /\ [Obd!Next]_(Obd!vars) => ParsersInRange'
  <2> SUFFICES ASSUME ParsersInRange, [Obd!Next]_(Obd!vars) PROVE ParsersInRange'
    OBVIOUS
  <2> USE DEF ParsersInRange
  <2>1. CASE Obd!MessageRecieved
    BY <2>1 DEF Obd!MessageRecieved, Obd!Shifted
  <2>2. CASE Obd!AddMessagesToSend
    BY <2>2 DEF Obd!AddMessagesToSend
  <2>3. CASE OBDResponseCallbackIndex' = OBDResponseCallbackIndex
    BY <2>3
  <2>4. \/ Obd!MessageRecieved
        \/ Obd!AddMessagesToSend
        \/ OBDResponseCallbackIndex' = OBDResponseCallbackIndex
    BY DEF Obd!Next, Obd!SendMessage, Obd!Println, Obd!ByteArrives,
       Obd!FakeAnswers, Obd!Lose, Obd!vars, Obd!queueVars
  <2> QED
    BY <2>1, <2>2, <2>3, <2>4
<1> QED
  BY <1>1, <1>2, PTL DEF Obd!Spec

LEMMA FirstInRange == ParsersInRange => OBDResponseCallbackIndex[0] \in {0, 1}
BY LoopAssumption DEF ParsersInRange, Obd!Index

(* Everything the loop does with the readings, the flags, the transmit     *)
(* buffer and DueInt is what RasPiLink allows.                             *)
LEMMA KeepsToRasPiLink == Spec => Link!Spec
<1>1. Init => Link!Init
  BY DEF Init
<1>2. ParsersInRange /\ [Next]_loopVars => [Link!Next]_(Link!linkVars)
  BY FirstInRange, LinkStep
<1> QED
  BY <1>1, <1>2, KeepsToObdQueue, ParsersStayInRange, PTL
  DEF Spec, Link!Spec

-----------------------------------------------------------------------------
(* The types of the loop.  A counter is over its tier only between Timing, *)
(* which adds the time of the pass, and the tier that starts it again: it  *)
(* never gathers the time of two passes over the limit.                    *)
Stages == {"send", "print", "receive", "timing", "tierOne", "copy", "tierThree",
           "tierFive"}

LoopInv ==
  /\ stage \in Stages
  /\ tierOneCounter \in Nat /\ tierThreeCounter \in Nat /\ tierFiveCounter \in Nat
  /\ tierOneCounter <= TierOneTicks + (IF stage = "tierOne" THEN MaxPass ELSE 0)
  /\ tierThreeCounter <= TierThreeTicks
       + (IF stage \in {"tierOne", "copy", "tierThree"} THEN MaxPass ELSE 0)
  /\ tierFiveCounter <= TierFiveTicks
       + (IF stage \in {"tierOne", "copy", "tierThree", "tierFive"} THEN MaxPass ELSE 0)

(* The copy loop of the link runs in the stage of that name only.          *)
CopyInv == stage \in Stages /\ copying \in BOOLEAN /\ (copying <=> stage = "copy")

LEMMA LoopStays == LoopInv /\ [Next]_loopVars => LoopInv'
<1> SUFFICES ASSUME LoopInv, [Next]_loopVars PROVE LoopInv'
  OBVIOUS
<1> USE LoopAssumption DEF LoopInv, Stages
<1>1. CASE Send
  BY <1>1 DEF Send, tiers
<1>2. CASE Receive
  BY <1>2 DEF Receive, tiers
<1>3. CASE Timing
  BY <1>3 DEF Timing
<1>4. CASE TierOne
  BY <1>4 DEF TierOne
<1>5. CASE Copy
  BY <1>5 DEF Copy, tiers
<1>6. CASE TierThree
  BY <1>6 DEF TierThree
<1>7. CASE TierFive
  BY <1>7 DEF TierFive
<1>8. CASE ByteArrives \/ FakeAnswers \/ RequestEvent
  BY <1>8 DEF ByteArrives, FakeAnswers, RequestEvent, tiers
<1>9. CASE UNCHANGED loopVars
  BY <1>9 DEF loopVars, tiers
<1>10. CASE WriteRequest
  BY <1>10 DEF WriteRequest, tiers
<1> QED
  BY <1>1, <1>2, <1>3, <1>4, <1>5, <1>6, <1>7, <1>8, <1>9, <1>10 DEF Next, LoopStep

LEMMA CopyStays == CopyInv /\ [Next]_loopVars => CopyInv'
<1> SUFFICES ASSUME CopyInv, [Next]_loopVars PROVE CopyInv'
  OBVIOUS
<1> USE DEF CopyInv, Stages
<1>1. CASE Send
  BY <1>1 DEF Send, linkVars
<1>2. CASE Receive
  BY <1>2 DEF Receive, linkVars, Link!Update
<1>3. CASE Timing
  BY <1>3 DEF Timing, linkVars
<1>4. CASE TierOne
  BY <1>4 DEF TierOne, linkVars, Link!AddDataToRasPi
<1>5. CASE Copy
  BY <1>5 DEF Copy, Link!CopyCell, Link!RaiseDueInt
<1>6. CASE TierThree
  BY <1>6 DEF TierThree, linkVars
<1>7. CASE TierFive
  BY <1>7 DEF TierFive, linkVars, Link!TierFive
<1>8. CASE ByteArrives \/ FakeAnswers
  BY <1>8 DEF ByteArrives, FakeAnswers, linkVars
<1>9. CASE RequestEvent
  BY <1>9 DEF RequestEvent, Link!RequestEvent, Link!mainVars
<1>10. CASE UNCHANGED loopVars
  BY <1>10 DEF loopVars, linkVars
<1>11. CASE WriteRequest
  BY <1>11 DEF WriteRequest, linkVars
<1> QED
  BY <1>1, <1>2, <1>3, <1>4, <1>5, <1>6, <1>7, <1>8, <1>9, <1>10, <1>11
     DEF Next, LoopStep

(* No counter is ever further over its tier than by one pass, and the copy *)
(* loop runs in tier one only.                                             *)
THEOREM LoopTypeCorrect == Spec => []TypeOK
<1>1. Init => LoopInv
  BY LoopAssumption DEF Init, LoopInv, Stages
<1>2. Init => CopyInv
  BY DEF Init, CopyInv, Stages, Link!Init
<1>3. LoopInv /\ CopyInv => TypeOK
  <2> SUFFICES ASSUME LoopInv, CopyInv PROVE TypeOK
    OBVIOUS
  <2>1. /\ tierOneCounter \in 0 .. TierOneTicks + MaxPass
        /\ tierThreeCounter \in 0 .. TierThreeTicks + MaxPass
        /\ tierFiveCounter \in 0 .. TierFiveTicks + MaxPass
    BY LoopAssumption DEF LoopInv
  <2>2. copying = (stage = "copy")
    BY Zenon DEF CopyInv
  <2> QED
    BY <2>1, <2>2 DEF TypeOK, LoopInv, Stages
<1> QED
  BY <1>1, <1>2, <1>3, LoopStays, CopyStays, PTL DEF Spec

-----------------------------------------------------------------------------
(* What is proved of the two parts, for the loop.  ObdP and LinkP are the  *)
(* parts again, with their theorems: definition by definition the same.    *)
ObdP  == INSTANCE ObdQueueProofs WITH
           LossyLine <- FALSE, sending <- (stage = "print"),
           mark <- 0, inBuffer <- FALSE, age <- 0
LinkP == INSTANCE RasPiLinkProofs WITH FrameReused <- FALSE

(* The poller with its theorems is the poller the loop implements.         *)
LEMMA SamePoller == Obd!Spec => ObdP!Spec
<1>1. Obd!Init => ObdP!Init
  BY DEF
    Obd!Init, ObdP!Init, Obd!Index, ObdP!Index, Obd!Blank, ObdP!Blank,
    Obd!Speed, ObdP!Speed, Obd!Tach, ObdP!Tach, Obd!Requests,
    ObdP!Requests, Obd!OBDResponseParser, ObdP!OBDResponseParser,
    Obd!Shifted, ObdP!Shifted, Obd!queueVars, ObdP!queueVars,
    Obd!lineVars, ObdP!lineVars, Obd!vars, ObdP!vars
<1>2. [Obd!Next]_(Obd!vars) => [ObdP!Next]_(ObdP!vars)
  BY Zenon DEF
    Obd!Index, ObdP!Index, Obd!Blank, ObdP!Blank, Obd!Speed, ObdP!Speed,
    Obd!Tach, ObdP!Tach, Obd!Requests, ObdP!Requests,
    Obd!OBDResponseParser, ObdP!OBDResponseParser, Obd!Shifted,
    ObdP!Shifted, Obd!queueVars, ObdP!queueVars, Obd!lineVars,
    ObdP!lineVars, Obd!vars, ObdP!vars, Obd!SendMessage,
    ObdP!SendMessage, Obd!Println, ObdP!Println, Obd!MessageRecieved,
    ObdP!MessageRecieved,
    Obd!AddMessagesToSend, ObdP!AddMessagesToSend, Obd!ByteArrives,
    ObdP!ByteArrives, Obd!FakeAnswers, ObdP!FakeAnswers, Obd!Lose,
    ObdP!Lose, Obd!Next, ObdP!Next
<1> QED
  BY <1>1, <1>2, PTL DEF Obd!Spec, ObdP!Spec

(* The link with its theorems is the link the loop implements.             *)
LEMMA SameLink == Link!Spec => LinkP!Spec
<1>1. Link!Init => LinkP!Init
  BY Zenon DEF
    Link!Init, LinkP!Init, Link!MPHflagMask, LinkP!MPHflagMask,
    Link!RPMflagMask, LinkP!RPMflagMask, Link!Kinds, LinkP!Kinds,
    Link!Cell, LinkP!Cell, Link!Tag, LinkP!Tag, Link!Digit, LinkP!Digit,
    Link!Junk, LinkP!Junk, Link!Mixed, LinkP!Mixed, Link!Text,
    LinkP!Text, Link!NoText, LinkP!NoText, Link!InBuffer,
    LinkP!InBuffer, Link!LowestBit, LinkP!LowestBit, Link!FormattedLast,
    LinkP!FormattedLast, Link!SourceCell, LinkP!SourceCell,
    Link!ReadBack, LinkP!ReadBack, Link!mainVars, LinkP!mainVars,
    Link!linkVars, LinkP!linkVars
<1>2. [Link!Next]_(Link!linkVars) => [LinkP!Next]_(LinkP!linkVars)
  BY Zenon DEF
    Link!MPHflagMask, LinkP!MPHflagMask, Link!RPMflagMask,
    LinkP!RPMflagMask, Link!Kinds, LinkP!Kinds, Link!Cell, LinkP!Cell,
    Link!Tag, LinkP!Tag, Link!Digit, LinkP!Digit, Link!Junk, LinkP!Junk,
    Link!Mixed, LinkP!Mixed, Link!Text, LinkP!Text, Link!NoText,
    LinkP!NoText, Link!InBuffer, LinkP!InBuffer, Link!LowestBit,
    LinkP!LowestBit, Link!FormattedLast, LinkP!FormattedLast,
    Link!SourceCell, LinkP!SourceCell, Link!ReadBack, LinkP!ReadBack,
    Link!mainVars, LinkP!mainVars, Link!linkVars, LinkP!linkVars,
    Link!Update, LinkP!Update, Link!AddDataToRasPi,
    LinkP!AddDataToRasPi, Link!CopyCell, LinkP!CopyCell,
    Link!RaiseDueInt, LinkP!RaiseDueInt, Link!TierFive, LinkP!TierFive,
    Link!RequestEvent, LinkP!RequestEvent, Link!FrameOverwritten,
    LinkP!FrameOverwritten, Link!MainLoop, LinkP!MainLoop, Link!Next,
    LinkP!Next
<1> QED
  BY <1>1, <1>2, PTL DEF Link!Spec, LinkP!Spec

(* What the parts' theorems assume of the constants.                       *)
LEMMA PartsAssumed == ObdP!ConstantsAssumption /\ LinkP!LinkAssumption
  BY PartsAssumption DEF Obd!ConstantsAssumption, ObdP!ConstantsAssumption,
     Link!LinkAssumption, LinkP!LinkAssumption

(* Whatever implements the poller keeps what is proved of the poller.      *)
LEMMA QueueKept ==
  Obd!Spec => [](Obd!QueueBounds /\ Obd!CallbackMatchesRequest)
<1>1. ObdP!Spec => [](ObdP!QueueBounds /\ ObdP!CallbackMatchesRequest)
  BY PartsAssumed, ObdP!BoundsHold, ObdP!CallbacksMatch, PTL
<1>2. ObdP!QueueBounds /\ ObdP!CallbackMatchesRequest
        => Obd!QueueBounds /\ Obd!CallbackMatchesRequest
  BY DEF
    Obd!QueueBounds, ObdP!QueueBounds, Obd!CallbackMatchesRequest,
    ObdP!CallbackMatchesRequest, Obd!Index, ObdP!Index, Obd!Blank,
    ObdP!Blank, Obd!Speed, ObdP!Speed, Obd!Tach, ObdP!Tach,
    Obd!Requests, ObdP!Requests, Obd!OBDResponseParser,
    ObdP!OBDResponseParser, Obd!Shifted, ObdP!Shifted, Obd!queueVars,
    ObdP!queueVars, Obd!lineVars, ObdP!lineVars, Obd!vars, ObdP!vars
<1> QED
  BY <1>1, <1>2, SamePoller, PTL

(* In the loop, too, every answer goes to the parser of its request, and   *)
(* nothing is written behind the two arrays.                               *)
THEOREM LoopKeepsQueue == Spec => [](Obd!QueueBounds /\ Obd!CallbackMatchesRequest)
BY KeepsToObdQueue, QueueKept, PTL

LEMMA LinkDelivers == Link!Spec => []Link!QuietMeansDelivered
<1>1. LinkP!Spec => []LinkP!QuietMeansDelivered
  BY PartsAssumed, LinkP!QuietDelivers
<1>2. LinkP!QuietMeansDelivered => Link!QuietMeansDelivered
  BY Zenon DEF
    Link!QuietMeansDelivered, LinkP!QuietMeansDelivered,
    Link!MPHflagMask, LinkP!MPHflagMask, Link!RPMflagMask,
    LinkP!RPMflagMask, Link!Kinds, LinkP!Kinds, Link!Cell, LinkP!Cell,
    Link!Tag, LinkP!Tag, Link!Digit, LinkP!Digit, Link!Junk, LinkP!Junk,
    Link!Mixed, LinkP!Mixed, Link!Text, LinkP!Text, Link!NoText,
    LinkP!NoText, Link!InBuffer, LinkP!InBuffer, Link!LowestBit,
    LinkP!LowestBit, Link!FormattedLast, LinkP!FormattedLast,
    Link!SourceCell, LinkP!SourceCell, Link!ReadBack, LinkP!ReadBack,
    Link!mainVars, LinkP!mainVars, Link!linkVars, LinkP!linkVars
<1> QED
  BY <1>1, <1>2, SameLink, PTL

(* In the loop, too, a quiet link has delivered every reading the Pi had   *)
(* the chance to read.                                                     *)
THEOREM LoopDelivers == Spec => []Link!QuietMeansDelivered
BY KeepsToRasPiLink, LinkDelivers, PTL

(* What ties the two parts together needs both: an answer changes one      *)
(* reading, and that is the one whose request was written last.            *)
LoopTypes ==
  /\ OBDMessagesToSendCount \in 0 .. 255
  /\ reading \in [Link!Kinds -> Readings]

(* The types of the queue's length and of the readings, from the parts.    *)
LEMMA PartsTyped == Obd!Spec /\ Link!Spec => []LoopTypes
<1>1. ObdP!Spec => []ObdP!TypeOK
  BY PartsAssumed, ObdP!TypeCorrect
<1>2. LinkP!Spec => []LinkP!TypeOK
  BY PartsAssumed, LinkP!LinkTypeCorrect
<1>3. ObdP!TypeOK /\ LinkP!TypeOK => LoopTypes
  BY DEF LoopTypes, ObdP!TypeOK, LinkP!TypeOK, LinkP!Kinds, LinkP!MPHflagMask,
     LinkP!RPMflagMask, Link!Kinds, Link!MPHflagMask, Link!RPMflagMask
<1> QED
  BY <1>1, <1>2, <1>3, SamePoller, SameLink, PTL

(* Among the steps of loop() only the receiving one changes a reading.     *)
LEMMA OnlyReceiveChangesReadings ==
  ASSUME [Next]_loopVars, reading' # reading
  PROVE  /\ stage = "receive" /\ waitingForOBDResponse
         /\ Link!Update(OBDResponseCallbackIndex[0])
<1>1. CASE Send \/ WriteRequest \/ Timing \/ TierThree \/ ByteArrives \/ FakeAnswers
  BY <1>1 DEF Send, WriteRequest, Timing, TierThree, ByteArrives, FakeAnswers, linkVars
<1>2. CASE Receive
  BY <1>2 DEF Receive, linkVars, Obd!MessageRecieved
<1>3. CASE TierOne
  BY <1>3 DEF TierOne, linkVars, Link!AddDataToRasPi
<1>4. CASE Copy
  BY <1>4 DEF Copy, Link!CopyCell, Link!RaiseDueInt, Link!mainVars
<1>5. CASE TierFive
  BY <1>5 DEF TierFive, linkVars, Link!TierFive
<1>6. CASE RequestEvent
  BY <1>6 DEF RequestEvent, Link!RequestEvent, Link!mainVars
<1>7. CASE UNCHANGED loopVars
  BY <1>7 DEF loopVars, linkVars
<1> QED
  BY <1>1, <1>2, <1>3, <1>4, <1>5, <1>6, <1>7 DEF Next, LoopStep

(* An answer changes the reading of the request written last.              *)
LEMMA UpdateIsOfLastSent ==
  ASSUME Obd!QueueBounds, Obd!CallbackMatchesRequest, LoopTypes,
         waitingForOBDResponse, stage # "print", Link!Update(OBDResponseCallbackIndex[0]),
         NEW k \in Link!Kinds, reading'[k] # reading[k]
  PROVE  lastSent = Obd!OBDResponseParser[k]
<1>1. k = OBDResponseCallbackIndex[0]
  BY DEF Link!Update, LoopTypes
<1>2. 0 \in 0 .. OBDMessagesToSendCount - 1
  BY DEF Obd!QueueBounds, LoopTypes
<1> QED
  BY <1>1, <1>2 DEF Obd!CallbackMatchesRequest

(* What AnswerChangesItsReading says of a step.                            *)
Agrees ==
  \A k \in Link!Kinds :
    reading'[k] # reading[k] => lastSent = Obd!OBDResponseParser[k]

(* A reading only changes when it is the one that was asked for last.      *)
THEOREM AnswersChangeTheirReading == Spec => AnswerChangesItsReading
<1>1. Obd!QueueBounds /\ Obd!CallbackMatchesRequest /\ LoopTypes /\ [Next]_loopVars
        => [Agrees]_loopVars
  <2> SUFFICES ASSUME Obd!QueueBounds, Obd!CallbackMatchesRequest, LoopTypes,
                      [Next]_loopVars
               PROVE  Agrees
    OBVIOUS
  <2> SUFFICES ASSUME NEW k \in Link!Kinds, reading'[k] # reading[k]
               PROVE  lastSent = Obd!OBDResponseParser[k]
    BY DEF Agrees
  <2>1. /\ waitingForOBDResponse /\ stage # "print"
        /\ Link!Update(OBDResponseCallbackIndex[0])
    BY OnlyReceiveChangesReadings
  <2> QED
    BY <2>1, UpdateIsOfLastSent
<1>2. [][Agrees]_loopVars => AnswerChangesItsReading
  BY DEF AnswerChangesItsReading, Agrees
<1> QED
  BY <1>1, <1>2, LoopKeepsQueue, PartsTyped, KeepsToObdQueue, KeepsToRasPiLink, PTL
  DEF Spec

-----------------------------------------------------------------------------
(* What the two parts do together.  A println asks, an answer changes the  *)
(* reading that was asked for, and every other step leaves alone what was  *)
(* asked last, whether it is open, and the readings.                       *)
OpenNow == waitingForOBDResponse /\ stage # "print"

PollInv ==
  /\ ObdP!IInv /\ Obd!QueueBounds /\ Obd!CallbackMatchesRequest
  /\ LoopTypes /\ ParsersInRange

LEMMA PollInvKept == Obd!Spec /\ Link!Spec => []PollInv
<1>1. ObdP!Spec => []ObdP!IInv
  BY PartsAssumed, ObdP!SpecIInv
<1> QED
  BY <1>1, SamePoller, QueueKept, PartsTyped, ParsersStayInRange, PTL DEF PollInv

LEMMA AskStep ==
  ASSUME PollInv, stage = "print", Obd!Println, reading' = reading
  PROVE  Poll!Ask
<1>1. ObdP!Println
  BY DEF Obd!Println, ObdP!Println, Obd!queueVars, ObdP!queueVars
<1>2. ObdP!AskedLast' # ObdP!AskedLast /\ lastSent' \in ObdP!Requests
  BY <1>1, PartsAssumed, ObdP!AsksTheOther DEF PollInv
<1>3. waitingForOBDResponse /\ waitingForOBDResponse' /\ stage' # "print"
  BY <1>1 DEF PollInv, ObdP!IInv, ObdP!OnTheLine, ObdP!Println
<1>4. (IF lastSent' = Obd!Speed THEN 0 ELSE 1)
        = 1 - (IF lastSent = Obd!Speed THEN 0 ELSE 1)
  BY <1>2 DEF ObdP!AskedLast, ObdP!Requests, ObdP!Speed, ObdP!Tach, Obd!Speed
<1> QED
  BY <1>3, <1>4 DEF Poll!Ask

LEMMA AnswerStep ==
  ASSUME PollInv, stage = "receive", waitingForOBDResponse,
         Obd!MessageRecieved, Link!Update(OBDResponseCallbackIndex[0])
  PROVE  Poll!Answer
<1> DEFINE k == OBDResponseCallbackIndex[0]
           a == IF lastSent = Obd!Speed THEN 0 ELSE 1
<1>1. k \in {0, 1}
  BY FirstInRange DEF PollInv
<1>2. lastSent = Obd!OBDResponseParser[k]
  <2>1. 0 \in 0 .. OBDMessagesToSendCount - 1
    BY DEF PollInv, Obd!QueueBounds, LoopTypes
  <2> QED
    BY <2>1 DEF PollInv, Obd!CallbackMatchesRequest
<1>3. k = a
  <2>1. Obd!Speed # Obd!Tach
    BY DEF Obd!Speed, Obd!Tach
  <2> QED
    BY <1>1, <1>2, <2>1 DEF Obd!OBDResponseParser
<1>4. PICK v \in Readings : reading' = [reading EXCEPT ![k] = v]
  BY DEF Link!Update
<1>5. reading' = [reading EXCEPT ![a] = v]
  BY <1>3, <1>4
<1>6. lastSent' = lastSent /\ waitingForOBDResponse' = FALSE
  BY DEF Obd!MessageRecieved
<1> HIDE DEF k, a
<1>7. \E w \in Readings : reading' = [reading EXCEPT ![a] = w]
  BY <1>5
<1>8. a' = a
  BY <1>6 DEF a
<1>9. ~OpenNow' /\ OpenNow
  BY <1>6 DEF OpenNow
<1> QED
  BY <1>7, <1>8, <1>9 DEF Poll!Answer, OpenNow, a

LEMMA NoPollStep ==
  ASSUME lastSent' = lastSent, reading' = reading, OpenNow' = OpenNow
  PROVE  UNCHANGED Poll!pollVars
BY DEF Poll!pollVars, OpenNow

LEMMA PollStep ==
  ASSUME PollInv, [Next]_loopVars
  PROVE  [Poll!Next]_(Poll!pollVars)
<1>1. CASE WriteRequest
  BY <1>1, AskStep DEF WriteRequest, linkVars, Poll!Next
<1>2. CASE Receive /\ waitingForOBDResponse /\ available > 0
  BY <1>2, AnswerStep DEF Receive, Poll!Next
<1>3. CASE Send
  BY <1>3, NoPollStep DEF Send, Obd!SendMessage, obdVars, linkVars, OpenNow
<1>4. CASE Receive /\ ~(waitingForOBDResponse /\ available > 0)
  BY <1>4, NoPollStep DEF Receive, obdVars, linkVars, OpenNow
<1>5. CASE Timing
  BY <1>5, NoPollStep DEF Timing, obdVars, linkVars, OpenNow
<1>6. CASE TierOne
  BY <1>6, NoPollStep DEF TierOne, obdVars, linkVars, Link!AddDataToRasPi, OpenNow
<1>7. CASE Copy
  BY <1>7, NoPollStep DEF Copy, obdVars, Link!CopyCell, Link!RaiseDueInt,
     Link!mainVars, OpenNow
<1>8. CASE TierThree
  BY <1>8, NoPollStep DEF TierThree, obdVars, linkVars, Obd!AddMessagesToSend, OpenNow
<1>9. CASE TierFive
  BY <1>9, NoPollStep DEF TierFive, obdVars, linkVars, Link!TierFive, OpenNow
<1>10. CASE ByteArrives \/ FakeAnswers
  BY <1>10, NoPollStep DEF ByteArrives, FakeAnswers, linkVars, Obd!ByteArrives,
     Obd!FakeAnswers, OpenNow
<1>11. CASE RequestEvent
  BY <1>11, NoPollStep DEF RequestEvent, obdVars, Link!RequestEvent, Link!mainVars,
     OpenNow
<1>12. CASE UNCHANGED loopVars
  BY <1>12, NoPollStep DEF loopVars, obdVars, linkVars, OpenNow
<1> QED
  BY <1>1, <1>2, <1>3, <1>4, <1>5, <1>6, <1>7, <1>8, <1>9, <1>10, <1>11, <1>12
     DEF Next, LoopStep

(* Nothing has been asked, and every reading is zero.                      *)
LEMMA PollInit == Obd!Init /\ Link!Init => Poll!Init
BY DEF Obd!Init, Link!Init, Poll!Init, Obd!Blank, Obd!Speed, Link!Kinds,
   Link!MPHflagMask, Link!RPMflagMask

(* The queue with its two arrays, the parsers, the flags and the buffer,   *)
(* driven by the passes of loop(), do what Polling promises: the two       *)
(* readings are asked for in turn, one at a time, and change on the answer *)
(* to their own request only.                                              *)
THEOREM LoopImplementsPolling == Spec => ImplementsPolling
<1>1. Init => Poll!Init
  BY PollInit DEF Init
<1>2. PollInv /\ [Next]_loopVars => [Poll!Next]_(Poll!pollVars)
  BY PollStep
<1> QED
  BY <1>1, <1>2, KeepsToObdQueue, KeepsToRasPiLink, PollInvKept, PTL
  DEF Spec, ImplementsPolling, Poll!Spec

-----------------------------------------------------------------------------
(* loop() of the version before, over the same queue and the same link.    *)
(* It lacks two variables of DueLoop, which stay as they were.             *)
Hub == INSTANCE OldHub

Lacking == i2cresetCounter = 0 /\ tierFiveCounter = 0

HubBefore == Hub!Spec /\ []Lacking

(* Its steps of the queue are the steps of the queue here ...              *)
LEMMA HubQueue ==
  /\ Hub!Obd!Init => Obd!Init
  /\ Hub!Obd!SendMessage => Obd!SendMessage
  /\ Hub!Obd!Println => Obd!Println
  /\ Hub!Obd!MessageRecieved => Obd!MessageRecieved
  /\ Hub!Obd!AddMessagesToSend => Obd!AddMessagesToSend
  /\ Hub!Obd!ByteArrives => Obd!ByteArrives
  /\ Hub!Obd!FakeAnswers => Obd!FakeAnswers
BY Zenon DEF
  Hub!Obd!Index, Obd!Index, Hub!Obd!Blank, Obd!Blank, Hub!Obd!Speed, Obd!Speed,
  Hub!Obd!Tach, Obd!Tach, Hub!Obd!Requests, Obd!Requests,
  Hub!Obd!OBDResponseParser, Obd!OBDResponseParser, Hub!Obd!Shifted,
  Obd!Shifted, Hub!Obd!queueVars, Obd!queueVars, Hub!Obd!lineVars,
  Obd!lineVars, Hub!Obd!vars, Obd!vars, Hub!Obd!Init, Obd!Init,
  Hub!Obd!SendMessage, Obd!SendMessage, Hub!Obd!Println, Obd!Println,
  Hub!Obd!MessageRecieved, Obd!MessageRecieved, Hub!Obd!AddMessagesToSend, Obd!AddMessagesToSend,
  Hub!Obd!ByteArrives, Obd!ByteArrives, Hub!Obd!FakeAnswers, Obd!FakeAnswers

(* ... and its steps of the link those of the link.                        *)
LEMMA HubLink ==
  ASSUME i2cresetCounter = 0, i2cresetCounter' = 0
  PROVE  /\ Hub!Link!Update(OBDResponseCallbackIndex[0])
              => Link!Update(OBDResponseCallbackIndex[0])
         /\ Hub!Link!AddDataToRasPi => Link!AddDataToRasPi
         /\ Hub!Link!CopyCell => Link!CopyCell
         /\ Hub!Link!RaiseDueInt => Link!RaiseDueInt
         /\ Hub!Link!RequestEvent => Link!RequestEvent
BY Zenon DEF
  Link!MPHflagMask, Hub!Link!MPHflagMask, Link!RPMflagMask,
  Hub!Link!RPMflagMask, Link!Kinds, Hub!Link!Kinds, Link!Cell, Hub!Link!Cell,
  Link!Tag, Hub!Link!Tag, Link!Digit, Hub!Link!Digit, Link!Junk,
  Hub!Link!Junk, Link!Mixed, Hub!Link!Mixed, Link!Text, Hub!Link!Text,
  Link!InBuffer, Hub!Link!InBuffer, Link!LowestBit, Hub!Link!LowestBit,
  Link!FormattedLast, Hub!Link!FormattedLast, Link!SourceCell,
  Hub!Link!SourceCell, Link!ReadBack, Hub!Link!ReadBack, Link!mainVars,
  Hub!Link!mainVars, Link!Update, Hub!Link!Update, Link!AddDataToRasPi,
  Hub!Link!AddDataToRasPi, Link!CopyCell, Hub!Link!CopyCell,
  Link!RaiseDueInt, Hub!Link!RaiseDueInt, Link!RequestEvent,
  Hub!Link!RequestEvent

LEMMA HubObdStep == [Hub!Next]_(Hub!hubVars) => [Obd!Next]_(Obd!vars)
<1> SUFFICES ASSUME [Hub!Next]_(Hub!hubVars) PROVE [Obd!Next]_(Obd!vars)
  OBVIOUS
<1>1. Obd!vars' = Obd!vars
        <=> UNCHANGED Hub!obdVars /\ (stage = "print")' = (stage = "print")
  BY DEF Obd!vars, Obd!queueVars, Obd!lineVars, Hub!obdVars
<1>2. CASE Hub!Send
  BY <1>1, <1>2, HubQueue DEF Hub!Send, Obd!Next
<1>3. CASE Hub!Receive
  BY <1>1, <1>3, HubQueue DEF Hub!Receive, Obd!Next
<1>4. CASE Hub!Timing \/ Hub!TierOne \/ Hub!Copy \/ Hub!RequestEvent
  BY <1>1, <1>4 DEF Hub!Timing, Hub!TierOne, Hub!Copy, Hub!RequestEvent
<1>5. CASE Hub!TierThree
  BY <1>1, <1>5, HubQueue DEF Hub!TierThree, Obd!Next
<1>6. CASE Hub!ByteArrives \/ Hub!Answers
  BY <1>6, HubQueue DEF Hub!ByteArrives, Hub!Answers, Obd!Next
<1>7. CASE UNCHANGED Hub!hubVars
  BY <1>1, <1>7 DEF Hub!hubVars
<1>8. CASE Hub!WriteRequest
  BY <1>8, HubQueue DEF Hub!WriteRequest, Obd!Next
<1> QED
  BY <1>2, <1>3, <1>4, <1>5, <1>6, <1>7, <1>8 DEF Hub!Next, Hub!LoopStep

LEMMA HubLinkStep ==
  ASSUME OBDResponseCallbackIndex[0] \in {0, 1}, Lacking, Lacking'
  PROVE  [Hub!Next]_(Hub!hubVars) => [Link!Next]_(Link!linkVars)
<1> SUFFICES ASSUME [Hub!Next]_(Hub!hubVars) PROVE [Link!Next]_(Link!linkVars)
  OBVIOUS
<1>1. i2cresetCounter = 0 /\ i2cresetCounter' = 0
  BY DEF Lacking
<1>2. Link!linkVars' = Link!linkVars <=> UNCHANGED Hub!linkVars
  BY <1>1 DEF Link!linkVars, Link!mainVars, Hub!linkVars
<1>3. CASE \/ Hub!Send \/ Hub!WriteRequest \/ Hub!TierThree \/ Hub!ByteArrives
           \/ Hub!Answers
  BY <1>2, <1>3 DEF Hub!Send, Hub!WriteRequest, Hub!TierThree, Hub!ByteArrives, Hub!Answers
<1>4. CASE Hub!Timing
  BY <1>2, <1>4 DEF Hub!Timing
<1>5. CASE Hub!Receive
  <2>1. OBDResponseCallbackIndex[0] \in Link!Kinds
    BY DEF Link!Kinds, Link!MPHflagMask, Link!RPMflagMask
  <2> QED
    BY <1>1, <1>2, <1>5, <2>1, HubLink DEF Hub!Receive, Link!Next, Link!MainLoop
<1>6. CASE Hub!TierOne
  BY <1>1, <1>2, <1>6, HubLink DEF Hub!TierOne, Link!Next, Link!MainLoop
<1>7. CASE Hub!Copy
  BY <1>1, <1>7, HubLink DEF Hub!Copy, Link!Next, Link!MainLoop
<1>8. CASE Hub!RequestEvent
  BY <1>1, <1>8, HubLink DEF Hub!RequestEvent, Link!Next
<1>9. CASE UNCHANGED Hub!hubVars
  BY <1>2, <1>9 DEF Hub!hubVars
<1> QED
  BY <1>3, <1>4, <1>5, <1>6, <1>7, <1>8, <1>9 DEF Hub!Next, Hub!LoopStep

(* Served from one tier, in the other order, and with a line that nobody   *)
(* lowers but the Pi, the poller and the link still keep to what their     *)
(* specifications allow.                                                   *)
LEMMA HubKeepsToParts == HubBefore => Obd!Spec /\ Link!Spec
<1>1. Hub!Init => Obd!Init
  BY HubQueue DEF Hub!Init
<1>2. Hub!Init /\ Lacking => Link!Init
  BY DEF Hub!Init, Lacking, Hub!Link!Init, Link!Init, Hub!Link!Kinds, Link!Kinds,
     Hub!Link!MPHflagMask, Link!MPHflagMask, Hub!Link!RPMflagMask,
     Link!RPMflagMask, Hub!Link!NoText, Link!NoText, Hub!Link!Cell, Link!Cell,
     Hub!Link!Junk, Link!Junk
<1>3. Hub!Spec => Obd!Spec
  BY <1>1, HubObdStep, PTL DEF Hub!Spec, Obd!Spec
<1>4. ParsersInRange /\ Lacking /\ Lacking' /\ [Hub!Next]_(Hub!hubVars)
        => [Link!Next]_(Link!linkVars)
  BY FirstInRange, HubLinkStep
<1> QED
  BY <1>2, <1>3, <1>4, ParsersStayInRange, PTL
  DEF HubBefore, Hub!Spec, Link!Spec

(* Its counter of tier three is over its tier for longer, as the queue is  *)
(* served in between.                                                      *)
HubStages == {"timing", "tierOne", "copy", "send", "print", "receive", "tierThree"}

HubInv ==
  /\ stage \in HubStages
  /\ tierOneCounter \in Nat /\ tierThreeCounter \in Nat
  /\ tierOneCounter <= TierOneTicks + (IF stage = "tierOne" THEN MaxPass ELSE 0)
  /\ tierThreeCounter <= TierThreeTicks + (IF stage = "timing" THEN 0 ELSE MaxPass)

HubCopyInv == stage \in HubStages /\ copying \in BOOLEAN /\ (copying <=> stage = "copy")

LEMMA HubStays == HubInv /\ [Hub!Next]_(Hub!hubVars) => HubInv'
<1> SUFFICES ASSUME HubInv, [Hub!Next]_(Hub!hubVars) PROVE HubInv'
  OBVIOUS
<1> USE LoopAssumption DEF HubInv, HubStages
<1>1. CASE Hub!Send
  BY <1>1 DEF Hub!Send, Hub!tiers
<1>2. CASE Hub!Receive
  BY <1>2 DEF Hub!Receive, Hub!tiers
<1>3. CASE Hub!Timing
  BY <1>3 DEF Hub!Timing
<1>4. CASE Hub!TierOne
  BY <1>4 DEF Hub!TierOne
<1>5. CASE Hub!Copy
  BY <1>5 DEF Hub!Copy, Hub!tiers
<1>6. CASE Hub!TierThree
  BY <1>6 DEF Hub!TierThree
<1>7. CASE Hub!ByteArrives \/ Hub!Answers \/ Hub!RequestEvent
  BY <1>7 DEF Hub!ByteArrives, Hub!Answers, Hub!RequestEvent, Hub!tiers
<1>8. CASE UNCHANGED Hub!hubVars
  BY <1>8 DEF Hub!hubVars, Hub!tiers
<1>9. CASE Hub!WriteRequest
  BY <1>9 DEF Hub!WriteRequest, Hub!tiers
<1> QED
  BY <1>1, <1>2, <1>3, <1>4, <1>5, <1>6, <1>7, <1>8, <1>9 DEF Hub!Next, Hub!LoopStep

LEMMA HubCopyStays == HubCopyInv /\ [Hub!Next]_(Hub!hubVars) => HubCopyInv'
<1> SUFFICES ASSUME HubCopyInv, [Hub!Next]_(Hub!hubVars) PROVE HubCopyInv'
  OBVIOUS
<1> USE DEF HubCopyInv, HubStages
<1>1. CASE Hub!Send
  BY <1>1 DEF Hub!Send, Hub!linkVars
<1>2. CASE Hub!Receive
  BY <1>2 DEF Hub!Receive, Hub!linkVars, Hub!Link!Update
<1>3. CASE Hub!Timing
  BY <1>3 DEF Hub!Timing, Hub!linkVars
<1>4. CASE Hub!TierOne
  BY <1>4 DEF Hub!TierOne, Hub!linkVars, Hub!Link!AddDataToRasPi
<1>5. CASE Hub!Copy
  BY <1>5 DEF Hub!Copy, Hub!Link!CopyCell, Hub!Link!RaiseDueInt
<1>6. CASE Hub!TierThree
  BY <1>6 DEF Hub!TierThree, Hub!linkVars
<1>7. CASE Hub!ByteArrives \/ Hub!Answers
  BY <1>7 DEF Hub!ByteArrives, Hub!Answers, Hub!linkVars
<1>8. CASE Hub!RequestEvent
  BY <1>8 DEF Hub!RequestEvent, Hub!Link!RequestEvent, Hub!Link!mainVars
<1>9. CASE UNCHANGED Hub!hubVars
  BY <1>9 DEF Hub!hubVars, Hub!linkVars
<1>10. CASE Hub!WriteRequest
  BY <1>10 DEF Hub!WriteRequest, Hub!linkVars
<1> QED
  BY <1>1, <1>2, <1>3, <1>4, <1>5, <1>6, <1>7, <1>8, <1>9, <1>10
     DEF Hub!Next, Hub!LoopStep

(* There, too, no counter is further over its tier than by one pass, and   *)
(* the copy loop runs in tier one only.                                    *)
THEOREM HubBeforeTypeCorrect == HubBefore => []TypeOK
<1>1. Hub!Init => HubInv
  BY LoopAssumption DEF Hub!Init, HubInv, HubStages
<1>2. Hub!Init => HubCopyInv
  BY DEF Hub!Init, HubCopyInv, HubStages, Hub!Link!Init
<1>3. HubInv /\ HubCopyInv /\ Lacking => TypeOK
  <2> SUFFICES ASSUME HubInv, HubCopyInv, Lacking PROVE TypeOK
    OBVIOUS
  <2>1. /\ tierOneCounter \in 0 .. TierOneTicks + MaxPass
        /\ tierThreeCounter \in 0 .. TierThreeTicks + MaxPass
        /\ tierFiveCounter \in 0 .. TierFiveTicks + MaxPass
    BY LoopAssumption DEF HubInv, Lacking
  <2>2. copying = (stage = "copy")
    BY Zenon DEF HubCopyInv
  <2> QED
    BY <2>1, <2>2 DEF TypeOK, HubInv, HubStages
<1> QED
  BY <1>1, <1>2, <1>3, HubStays, HubCopyStays, PTL DEF HubBefore, Hub!Spec

LEMMA OnlyHubReceiveChangesReadings ==
  ASSUME [Hub!Next]_(Hub!hubVars), Lacking, Lacking', reading' # reading
  PROVE  /\ stage = "receive" /\ waitingForOBDResponse
         /\ Link!Update(OBDResponseCallbackIndex[0])
<1>1. CASE \/ Hub!Send \/ Hub!WriteRequest \/ Hub!Timing \/ Hub!TierThree
           \/ Hub!ByteArrives \/ Hub!Answers
  BY <1>1 DEF Hub!Send, Hub!WriteRequest, Hub!Timing, Hub!TierThree, Hub!ByteArrives, Hub!Answers,
     Hub!linkVars
<1>2. CASE Hub!Receive
  BY <1>2, HubLink DEF Hub!Receive, Hub!linkVars, Lacking
<1>3. CASE Hub!TierOne
  BY <1>3 DEF Hub!TierOne, Hub!linkVars, Hub!Link!AddDataToRasPi
<1>4. CASE Hub!Copy
  BY <1>4 DEF Hub!Copy, Hub!Link!CopyCell, Hub!Link!RaiseDueInt, Hub!Link!mainVars
<1>5. CASE Hub!RequestEvent
  BY <1>5 DEF Hub!RequestEvent, Hub!Link!RequestEvent, Hub!Link!mainVars
<1>6. CASE UNCHANGED Hub!hubVars
  BY <1>6 DEF Hub!hubVars, Hub!linkVars
<1> QED
  BY <1>1, <1>2, <1>3, <1>4, <1>5, <1>6 DEF Hub!Next, Hub!LoopStep

(* There, too, a reading only changes when it is the one that was asked    *)
(* for last.                                                               *)
THEOREM HubBeforeAnswersChangeTheirReading == HubBefore => AnswerChangesItsReading
<1>1. Obd!QueueBounds /\ Obd!CallbackMatchesRequest /\ LoopTypes
        /\ Lacking /\ Lacking' /\ [Hub!Next]_(Hub!hubVars)
        => [Agrees]_loopVars
  <2> SUFFICES ASSUME Obd!QueueBounds, Obd!CallbackMatchesRequest, LoopTypes,
                      Lacking, Lacking', [Hub!Next]_(Hub!hubVars)
               PROVE  Agrees
    OBVIOUS
  <2> SUFFICES ASSUME NEW k \in Link!Kinds, reading'[k] # reading[k]
               PROVE  lastSent = Obd!OBDResponseParser[k]
    BY DEF Agrees
  <2>1. /\ waitingForOBDResponse /\ stage # "print"
        /\ Link!Update(OBDResponseCallbackIndex[0])
    BY OnlyHubReceiveChangesReadings
  <2> QED
    BY <2>1, UpdateIsOfLastSent
<1>2. [][Agrees]_loopVars => AnswerChangesItsReading
  BY DEF AnswerChangesItsReading, Agrees
<1> QED
  BY <1>1, <1>2, HubKeepsToParts, QueueKept, PartsTyped, PTL
  DEF HubBefore, Hub!Spec

LEMMA HubPollStep ==
  ASSUME PollInv, Lacking, Lacking', [Hub!Next]_(Hub!hubVars)
  PROVE  [Poll!Next]_(Poll!pollVars)
<1>0. i2cresetCounter = 0 /\ i2cresetCounter' = 0
  BY DEF Lacking
<1>1. CASE Hub!WriteRequest
  BY <1>1, AskStep, HubQueue DEF Hub!WriteRequest, Hub!linkVars, Poll!Next
<1>2. CASE Hub!Receive /\ waitingForOBDResponse /\ available > 0
  BY <1>0, <1>2, AnswerStep, HubQueue, HubLink DEF Hub!Receive, Poll!Next
<1>3. CASE Hub!Send
  BY <1>3, NoPollStep DEF Hub!Send, Hub!Obd!SendMessage, Hub!obdVars,
     Hub!linkVars, OpenNow
<1>4. CASE Hub!Receive /\ ~(waitingForOBDResponse /\ available > 0)
  BY <1>4, NoPollStep DEF Hub!Receive, Hub!obdVars, Hub!linkVars, OpenNow
<1>5. CASE Hub!Timing
  BY <1>5, NoPollStep DEF Hub!Timing, Hub!obdVars, Hub!linkVars, OpenNow
<1>6. CASE Hub!TierOne
  BY <1>6, NoPollStep DEF Hub!TierOne, Hub!obdVars, Hub!linkVars,
     Hub!Link!AddDataToRasPi, OpenNow
<1>7. CASE Hub!Copy
  BY <1>7, NoPollStep DEF Hub!Copy, Hub!obdVars, Hub!Link!CopyCell,
     Hub!Link!RaiseDueInt, Hub!Link!mainVars, OpenNow
<1>8. CASE Hub!TierThree
  BY <1>8, NoPollStep DEF Hub!TierThree, Hub!obdVars, Hub!linkVars,
     Hub!Obd!AddMessagesToSend, OpenNow
<1>9. CASE Hub!ByteArrives \/ Hub!Answers
  BY <1>9, NoPollStep DEF Hub!ByteArrives, Hub!Answers, Hub!linkVars,
     Hub!Obd!ByteArrives, Hub!Obd!FakeAnswers, OpenNow
<1>10. CASE Hub!RequestEvent
  BY <1>10, NoPollStep DEF Hub!RequestEvent, Hub!obdVars, Hub!Link!RequestEvent,
     Hub!Link!mainVars, OpenNow
<1>11. CASE UNCHANGED Hub!hubVars
  BY <1>11, NoPollStep DEF Hub!hubVars, Hub!obdVars, Hub!linkVars, OpenNow
<1> QED
  BY <1>1, <1>2, <1>3, <1>4, <1>5, <1>6, <1>7, <1>8, <1>9, <1>10, <1>11
     DEF Hub!Next, Hub!LoopStep

(* The version before, which serves the queue from tier one and withdraws  *)
(* nothing, promises the same.                                             *)
THEOREM HubBeforeImplementsPolling == HubBefore => ImplementsPolling
<1>1. Obd!Init /\ Link!Init => Poll!Init
  BY PollInit
<1>2. PollInv /\ Lacking /\ Lacking' /\ [Hub!Next]_(Hub!hubVars)
        => [Poll!Next]_(Poll!pollVars)
  BY HubPollStep
<1> QED
  BY <1>1, <1>2, HubKeepsToParts, PollInvKept, PTL
  DEF HubBefore, Hub!Spec, ImplementsPolling, Poll!Spec, Obd!Spec, Link!Spec

-----------------------------------------------------------------------------
(* A piece has the number of the call it answers.                          *)
Pieces == [of : Int, what : {"head", "value", "prompt", "text"}]

(* What has come of the answers and is still to be used, in its order.     *)
Stream == incoming \o (rx \o oldWire)

(* What the variables range over.                                          *)
OldTypes ==
  /\ left \in Nat /\ calls \in Nat /\ pc \in {"idle", "reading"}
  /\ asked \in Seq(Nat) /\ answers \in Seq(CarValues)
  /\ incoming \in Seq(Pieces) /\ rx \in Seq(Pieces) /\ oldWire \in Seq(Pieces)

(* Answers come in the order of the requests, and what follows a prompt is *)
(* from a later request.                                                   *)
InOrder(s) == \A i, j \in 1 .. Len(s) : i < j =>
  /\ s[i].of <= s[j].of
  /\ s[i].what = "prompt" => s[i].of < s[j].of

(* The requests have the numbers of their calls, above those of what has   *)
(* come.                                                                   *)
StillToCome ==
  /\ \A k \in 1 .. Len(asked) : asked[k] <= calls
  /\ \A k, l \in 1 .. Len(asked) : k < l => asked[k] < asked[l]
  /\ \A i \in 1 .. Len(Stream) :
       /\ Stream[i].of <= calls
       /\ \A k \in 1 .. Len(asked) : Stream[i].of < asked[k]

(* While a call runs nothing is further behind it than setup() has left    *)
(* answers, and when it has returned all that is left is from a later      *)
(* request than what it took.                                              *)
LastOrOwn ==
  /\ pc = "reading" =>
       /\ \A i \in 1 .. Len(Stream) : Stream[i].of >= calls - left
       /\ \A k \in 1 .. Len(asked) : asked[k] >= calls - left
  /\ pc = "idle" =>
       /\ \A i \in 1 .. Len(Stream) :
            i > Len(incoming) => Stream[i].of >= calls + 1 - left
       /\ \A k \in 1 .. Len(asked) : asked[k] >= calls + 1 - left
       /\ calls > 0 => incoming # <<>> /\ incoming[Len(incoming)].of >= calls - left

(* Without an answer of setup() there is one answer at a time.             *)
OneAtATime ==
  left = 0 =>
    /\ pc = "idle" =>
         /\ asked = <<>> /\ oldWire = <<>> /\ rx = <<>> /\ Len(answers) = calls
         /\ calls > 0 =>
              /\ incoming = Answer(calls)
              /\ result = Reading(kind, answers[calls])
    /\ pc = "reading" =>
         \/ asked = <<calls>> /\ Stream = <<>> /\ Len(answers) = calls - 1
         \/ asked = <<>> /\ Stream = Answer(calls) /\ Len(answers) = calls

(* The invariant: the answers come in order, none is overtaken, and a call *)
(* that returns has read up to a prompt no further behind than that.        *)
CallsInv == OldTypes /\ InOrder(Stream) /\ StillToCome /\ LastOrOwn /\ OneAtATime

(* The first of a sequence, moved to the end of the one before it.         *)
LEMMA MovesOn ==
  ASSUME NEW S, NEW s \in Seq(S), NEW t \in Seq(S), t # <<>>
  PROVE  /\ Append(s, Head(t)) \in Seq(S) /\ Tail(t) \in Seq(S)
         /\ Append(s, Head(t)) \o Tail(t) = s \o t
<1> DEFINE a == Append(s, Head(t))
           u == Tail(t)
<1>1. /\ Head(t) \in S /\ u \in Seq(S) /\ Len(u) = Len(t) - 1
      /\ \A i \in 1 .. Len(u) : u[i] = t[i + 1]
  BY HeadTailProperties
<1>2. Head(t) = t[1]
  OBVIOUS
<1>3. /\ a \in Seq(S) /\ Len(a) = Len(s) + 1 /\ a[Len(s) + 1] = Head(t)
      /\ \A i \in 1 .. Len(s) : a[i] = s[i]
  BY <1>1, AppendProperties
<1> HIDE DEF a, u
<1>4. Len(s) \in Nat /\ Len(t) \in Nat /\ Len(t) # 0
  BY EmptySeq
<1>5. /\ a \o u \in Seq(S) /\ Len(a \o u) = Len(s) + Len(t)
      /\ \A i \in 1 .. Len(s) + Len(t) :
           (a \o u)[i] = IF i <= Len(s) + 1 THEN a[i] ELSE u[i - (Len(s) + 1)]
  <2>1. /\ a \o u \in Seq(S) /\ Len(a \o u) = Len(a) + Len(u)
        /\ \A i \in 1 .. Len(a) + Len(u) :
             (a \o u)[i] = IF i <= Len(a) THEN a[i] ELSE u[i - Len(a)]
    BY <1>1, <1>3, ConcatProperties
  <2>2. Len(a) = Len(s) + 1 /\ Len(a) + Len(u) = Len(s) + Len(t)
    BY <1>1, <1>3, <1>4
  <2> QED BY <2>1, <2>2
<1>6. /\ s \o t \in Seq(S) /\ Len(s \o t) = Len(s) + Len(t)
      /\ \A i \in 1 .. Len(s) + Len(t) :
           (s \o t)[i] = IF i <= Len(s) THEN s[i] ELSE t[i - Len(s)]
  BY ConcatProperties
<1>7. ASSUME NEW i \in 1 .. Len(s) + Len(t)
      PROVE  (a \o u)[i] = (s \o t)[i]
  <2>1. CASE i <= Len(s)
    BY <1>3, <1>4, <1>5, <1>6, <2>1
  <2>2. CASE i = Len(s) + 1
    BY <1>2, <1>3, <1>4, <1>5, <1>6, <2>2
  <2>3. CASE i > Len(s) + 1
    <3>1. (a \o u)[i] = u[i - (Len(s) + 1)]
      BY <1>4, <1>5, <2>3
    <3>2. i - (Len(s) + 1) \in 1 .. Len(u)
      BY <1>1, <1>4, <2>3
    <3>3. u[i - (Len(s) + 1)] = t[i - (Len(s) + 1) + 1]
      BY <1>1, <3>2
    <3>4. (s \o t)[i] = t[i - Len(s)]
      BY <1>4, <1>6, <2>3
    <3>5. i - (Len(s) + 1) + 1 = i - Len(s)
      BY <1>4
    <3> QED BY <3>1, <3>3, <3>4, <3>5
  <2>4. i <= Len(s) \/ i = Len(s) + 1 \/ i > Len(s) + 1
    BY <1>4
  <2> QED BY <2>1, <2>2, <2>3, <2>4
<1>8. a \o u = s \o t
  BY <1>5, <1>6, <1>7, SeqEqual
<1> QED BY <1>1, <1>3, <1>8 DEF a, u

(* ... and what follows the two stays behind them.                         *)
LEMMA MovesOnBefore ==
  ASSUME NEW S, NEW s \in Seq(S), NEW t \in Seq(S), t # <<>>, NEW u \in Seq(S)
  PROVE  Append(s, Head(t)) \o (Tail(t) \o u) = s \o (t \o u)
<1> DEFINE a == Append(s, Head(t))
           v == Tail(t)
<1>1. a \in Seq(S) /\ v \in Seq(S)
  BY MovesOn, Zenon
<1>2. a \o v = s \o t
  BY MovesOn, Zenon
<1> HIDE DEF a, v
<1>3. (a \o v) \o u = a \o (v \o u)
  BY <1>1, ConcatAssociative, SMTT(30)
<1>4. (s \o t) \o u = s \o (t \o u)
  BY ConcatAssociative
<1> QED BY <1>2, <1>3, <1>4 DEF a, v

(* The parts of the stream.                                                *)
LEMMA Parts ==
  ASSUME OldTypes
  PROVE  /\ Stream \in Seq(Pieces) /\ Len(Stream) \in Nat
         /\ Len(incoming) \in Nat /\ Len(rx) \in Nat /\ Len(oldWire) \in Nat
         /\ Len(Stream) = Len(incoming) + Len(rx) + Len(oldWire)
         /\ \A i \in 1 .. Len(incoming) : Stream[i] = incoming[i]
         /\ \A i \in 1 .. Len(oldWire) :
              Stream[Len(incoming) + Len(rx) + i] = oldWire[i]
<1> DEFINE m == rx \o oldWire
<1>1. /\ m \in Seq(Pieces) /\ Len(m) = Len(rx) + Len(oldWire)
      /\ \A i \in 1 .. Len(rx) + Len(oldWire) :
           m[i] = IF i <= Len(rx) THEN rx[i] ELSE oldWire[i - Len(rx)]
  BY ConcatProperties DEF OldTypes
<1>2. Stream = incoming \o m
  BY DEF Stream
<1>3. incoming \in Seq(Pieces) /\ rx \in Seq(Pieces) /\ oldWire \in Seq(Pieces)
  BY DEF OldTypes
<1> HIDE DEF m
<1>4. /\ Stream \in Seq(Pieces) /\ Len(Stream) = Len(incoming) + Len(m)
      /\ \A i \in 1 .. Len(incoming) + Len(m) :
           Stream[i] = IF i <= Len(incoming) THEN incoming[i]
                       ELSE m[i - Len(incoming)]
  <2>1. m \in Seq(Pieces)
    BY <1>1
  <2> QED BY <1>2, <1>3, <2>1, ConcatProperties
<1>5. Len(incoming) \in Nat /\ Len(rx) \in Nat /\ Len(oldWire) \in Nat
  BY <1>3
<1>6. ASSUME NEW i \in 1 .. Len(oldWire)
      PROVE  Stream[Len(incoming) + Len(rx) + i] = oldWire[i]
  <2> DEFINE k == Len(incoming) + Len(rx) + i
  <2>1. k \in 1 .. Len(incoming) + Len(m) /\ k > Len(incoming)
    BY <1>1, <1>5
  <2>2. k - Len(incoming) = Len(rx) + i
    BY <1>5
  <2> HIDE DEF k
  <2>3. Stream[k] = m[Len(rx) + i]
    BY <1>4, <1>5, <2>1, <2>2
  <2>4. m[Len(rx) + i] = oldWire[Len(rx) + i - Len(rx)]
    BY <1>1, <1>5
  <2>5. Len(rx) + i - Len(rx) = i
    BY <1>5
  <2> QED BY <2>3, <2>4, <2>5 DEF k
<1> QED BY <1>1, <1>4, <1>5, <1>6

(* An answer has the number of its request throughout, and its prompt last.*)
LEMMA AnswerIs ==
  ASSUME NEW n \in Int
  PROVE  /\ Answer(n) \in Seq(Pieces) /\ Len(Answer(n)) = 3
         /\ \A i \in 1 .. 3 : Answer(n)[i].of = n
         /\ \A i \in 1 .. 3 : Answer(n)[i].what = "prompt" => i = 3
         /\ Answer(n)[1].what = "head" /\ Answer(n) # <<>>
<1> DEFINE a == Answer(n)
<1>1. a = <<[of |-> n, what |-> "head"], [of |-> n, what |-> "value"],
            [of |-> n, what |-> "prompt"]>>
  BY DEF Answer, Piece
<1>2. /\ [of |-> n, what |-> "head"] \in Pieces
      /\ [of |-> n, what |-> "value"] \in Pieces
      /\ [of |-> n, what |-> "prompt"] \in Pieces
  BY DEF Pieces
<1> HIDE DEF a
<1>3. a \in Seq(Pieces) /\ Len(a) = 3 /\ a # <<>>
  BY <1>1, <1>2
<1>4. \A i \in 1 .. 3 : i = 1 \/ i = 2 \/ i = 3
  OBVIOUS
<1>5. /\ a[1].of = n /\ a[2].of = n /\ a[3].of = n
      /\ a[1].what = "head" /\ a[2].what = "value" /\ a[3].what = "prompt"
  BY <1>1
<1> QED BY <1>3, <1>4, <1>5 DEF a

(* What setup() leaves of n commands: the pieces of their texts, in order. *)
LEMMA Halves ==
  ASSUME NEW i \in Nat
  PROVE  /\ (i + 1) \div 2 \in Int
         /\ 2 * ((i + 1) \div 2) <= i + 1 /\ i + 1 < 2 * ((i + 1) \div 2) + 2
         /\ i % 2 # 1 => i = 2 * ((i + 1) \div 2)
OBVIOUS

LEMMA TextsAre ==
  ASSUME NEW n \in Nat
  PROVE  LET t == Texts(n)
         IN  /\ t \in Seq(Pieces) /\ Len(t) = 2 * n
             /\ \A i \in 1 .. 2 * n : t[i].of >= 1 - n /\ t[i].of <= 0
             /\ InOrder(t)
<1> DEFINE t == Texts(n)
           h(i) == (i + 1) \div 2
<1>1. /\ t = [i \in 1 .. 2 * n |->
                [of |-> h(i) - n, what |-> IF i % 2 = 1 THEN "text" ELSE "prompt"]]
      /\ 2 * n \in Nat
  BY DEF Texts, Piece
<1>2. ASSUME NEW i \in 1 .. 2 * n
      PROVE  /\ h(i) \in Int /\ 2 * h(i) <= i + 1 /\ i + 1 < 2 * h(i) + 2
             /\ t[i].of = h(i) - n
             /\ t[i].what = "prompt" => i = 2 * h(i)
             /\ t[i] \in Pieces
  <2>1. /\ h(i) \in Int /\ 2 * h(i) <= i + 1 /\ i + 1 < 2 * h(i) + 2
        /\ i % 2 # 1 => i = 2 * h(i)
    BY Halves
  <2> HIDE DEF h
  <2>2. t[i] = [of |-> h(i) - n, what |-> IF i % 2 = 1 THEN "text" ELSE "prompt"]
    BY <1>1
  <2> QED BY <2>1, <2>2 DEF Pieces
<1> HIDE DEF t, h
<1>3. t \in Seq(Pieces) /\ Len(t) = 2 * n
  <2> DEFINE m == 2 * n
  <2>1. m \in Nat /\ t \in [1 .. m -> Pieces]
    BY <1>1, <1>2
  <2> HIDE DEF m
  <2>2. t \in Seq(Pieces)
    BY <2>1, SeqDef
  <2>3. DOMAIN t = 1 .. m /\ DOMAIN t = 1 .. Len(t) /\ Len(t) \in Nat
    BY <2>1, <2>2, LenProperties
  <2> QED BY <2>1, <2>2, <2>3 DEF m
<1>4. \A i \in 1 .. 2 * n : t[i].of >= 1 - n /\ t[i].of <= 0
  BY <1>2
<1>5. InOrder(t)
  <2> SUFFICES ASSUME NEW i \in 1 .. 2 * n, NEW j \in 1 .. 2 * n, i < j
               PROVE  /\ t[i].of <= t[j].of
                      /\ t[i].what = "prompt" => t[i].of < t[j].of
    BY <1>3 DEF InOrder
  <2>1. h(i) \in Int /\ h(j) \in Int /\ h(i) <= h(j) /\ (i = 2 * h(i) => h(i) < h(j))
    BY <1>2
  <2> QED BY <1>2, <2>1
<1> QED BY <1>3, <1>4, <1>5 DEF t

LEMMA TailInOrder ==
  ASSUME NEW s \in Seq(Pieces), s # <<>>, InOrder(s)
  PROVE  InOrder(Tail(s))
<1>1. /\ Len(s) \in Nat /\ Len(Tail(s)) = Len(s) - 1
      /\ \A i \in 1 .. Len(Tail(s)) : Tail(s)[i] = s[i + 1]
  BY HeadTailProperties
<1> SUFFICES ASSUME NEW i \in 1 .. Len(Tail(s)), NEW j \in 1 .. Len(Tail(s)), i < j
             PROVE  /\ Tail(s)[i].of <= Tail(s)[j].of
                    /\ Tail(s)[i].what = "prompt" => Tail(s)[i].of < Tail(s)[j].of
  BY DEF InOrder
<1>2. i + 1 \in 1 .. Len(s) /\ j + 1 \in 1 .. Len(s) /\ i + 1 < j + 1
  BY <1>1
<1> QED BY <1>1, <1>2 DEF InOrder

(* At the start no call has been made; what setup() left has numbers up to *)
(* 0.                                                                      *)
LEMMA CallsInit == OldInit => CallsInv
<1> SUFFICES ASSUME OldInit PROVE CallsInv
  OBVIOUS
<1>0. /\ left \in Nat /\ calls = 0 /\ pc = "idle" /\ asked = <<>>
      /\ incoming = <<>> /\ rx = <<>> /\ answers = <<>>
      /\ \/ oldWire = Texts(left)
         \/ left > 0 /\ oldWire = Tail(Texts(left))
  BY DEF OldInit
<1>1. /\ oldWire \in Seq(Pieces) /\ InOrder(oldWire)
      /\ \A i \in 1 .. Len(oldWire) :
           oldWire[i].of >= 1 - left /\ oldWire[i].of <= 0
      /\ left = 0 => oldWire = <<>>
  <2> DEFINE t == Texts(left)
  <2>1. /\ t \in Seq(Pieces) /\ Len(t) = 2 * left /\ InOrder(t)
        /\ \A i \in 1 .. 2 * left : t[i].of >= 1 - left /\ t[i].of <= 0
    BY <1>0, TextsAre
  <2> HIDE DEF t
  <2>2. CASE oldWire = t
    <3>1. left = 0 => t = <<>>
      BY <2>1, EmptySeq
    <3> QED BY <2>1, <2>2, <3>1
  <2>3. CASE left > 0 /\ oldWire = Tail(t)
    <3>1. t # <<>>
      BY <1>0, <2>1, <2>3, EmptySeq
    <3>2. /\ Tail(t) \in Seq(Pieces) /\ Len(Tail(t)) = 2 * left - 1
          /\ \A i \in 1 .. 2 * left - 1 : Tail(t)[i] = t[i + 1]
      BY <2>1, <3>1, HeadTailProperties
    <3>3. InOrder(Tail(t))
      BY <2>1, <3>1, TailInOrder
    <3>4. \A i \in 1 .. 2 * left - 1 : i + 1 \in 1 .. 2 * left
      BY <1>0
    <3> QED BY <1>0, <2>1, <2>3, <3>2, <3>3, <3>4
  <2> QED BY <1>0, <2>2, <2>3 DEF t
<1>2. OldTypes
  BY <1>0, <1>1 DEF OldTypes
<1>3. Stream = oldWire
  <2>1. rx \o oldWire = oldWire
    BY <1>0, <1>1, ConcatEmptySeq
  <2>2. incoming \o oldWire = oldWire
    BY <1>0, <1>1, ConcatEmptySeq
  <2> QED BY <2>1, <2>2 DEF Stream
<1>4. Len(asked) = 0 /\ Len(incoming) = 0
  BY <1>0
<1>5. StillToCome
  BY <1>0, <1>1, <1>3, <1>4 DEF StillToCome
<1>6. LastOrOwn
  BY <1>0, <1>1, <1>3, <1>4 DEF LastOrOwn
<1>7. OneAtATime
  BY <1>0, <1>1 DEF OneAtATime
<1> QED BY <1>1, <1>2, <1>3, <1>5, <1>6, <1>7 DEF CallsInv

(* A call throws away what has come; what is still on its way is as far    *)
(* behind it as before.                                                    *)
LEMMA CallKeeps == CallsInv /\ Call => CallsInv'
<1> SUFFICES ASSUME CallsInv, Call PROVE CallsInv'
  OBVIOUS
<1>1. /\ pc = "idle" /\ pc' = "reading" /\ rx' = <<>> /\ incoming' = <<>>
      /\ calls' = calls + 1 /\ asked' = Append(asked, calls + 1)
      /\ left' = left /\ oldWire' = oldWire /\ answers' = answers
  BY DEF Call
<1>2. /\ calls \in Nat /\ left \in Nat /\ asked \in Seq(Nat)
      /\ oldWire \in Seq(Pieces)
  BY DEF CallsInv, OldTypes
<1>3. OldTypes'
  BY <1>1 DEF CallsInv, OldTypes
<1>4. Stream' = oldWire
  <2>1. rx' \o oldWire' = oldWire
    BY <1>1, <1>2, ConcatEmptySeq
  <2>2. incoming' \o oldWire = oldWire
    BY <1>1, <1>2, ConcatEmptySeq
  <2> QED BY <2>1, <2>2 DEF Stream
<1>5. /\ Len(asked') = Len(asked) + 1 /\ asked'[Len(asked) + 1] = calls + 1
      /\ Len(asked) \in Nat
      /\ \A k \in 1 .. Len(asked) : asked'[k] = asked[k] /\ asked[k] \in Nat
  BY <1>1, <1>2, AppendProperties
<1> DEFINE n == Len(incoming) + Len(rx)
<1>6. /\ n \in Nat /\ Len(oldWire) \in Nat /\ Len(Stream) = n + Len(oldWire)
      /\ n >= Len(incoming) /\ Len(incoming) \in Nat
      /\ \A i \in 1 .. Len(oldWire) : oldWire[i] = Stream[n + i]
      /\ \A i \in 1 .. Len(oldWire) : oldWire[i].of \in Int
  <2>1. \A i \in 1 .. Len(oldWire) : oldWire[i] \in Pieces
    BY <1>2, ElementOfSeq
  <2> QED BY Parts, <2>1 DEF CallsInv, Pieces
<1> HIDE DEF n
<1>7. InOrder(Stream)'
  <2> SUFFICES ASSUME NEW i \in 1 .. Len(oldWire), NEW j \in 1 .. Len(oldWire), i < j
               PROVE  /\ oldWire[i].of <= oldWire[j].of
                      /\ oldWire[i].what = "prompt" => oldWire[i].of < oldWire[j].of
    BY <1>4 DEF InOrder
  <2>1. n + i \in 1 .. Len(Stream) /\ n + j \in 1 .. Len(Stream) /\ n + i < n + j
    BY <1>6
  <2>2. /\ Stream[n + i].of <= Stream[n + j].of
        /\ Stream[n + i].what = "prompt" => Stream[n + i].of < Stream[n + j].of
    BY <2>1 DEF CallsInv, InOrder
  <2> QED BY <1>6, <2>2
<1>8. \A i \in 1 .. Len(oldWire) :
        /\ oldWire[i].of <= calls /\ oldWire[i].of >= calls + 1 - left
        /\ \A k \in 1 .. Len(asked) : oldWire[i].of < asked[k]
  <2> TAKE i \in 1 .. Len(oldWire)
  <2>1. n + i \in 1 .. Len(Stream) /\ n + i > Len(incoming)
    BY <1>6
  <2> QED BY <1>1, <1>6, <2>1 DEF CallsInv, StillToCome, LastOrOwn
<1>9. StillToCome'
  <2>1. \A k \in 1 .. Len(asked') : asked'[k] <= calls'
    BY <1>1, <1>2, <1>5 DEF CallsInv, StillToCome
  <2>2. \A k, l \in 1 .. Len(asked') : k < l => asked'[k] < asked'[l]
    BY <1>1, <1>2, <1>5 DEF CallsInv, StillToCome
  <2>3. \A i \in 1 .. Len(oldWire) :
          /\ oldWire[i].of <= calls'
          /\ \A k \in 1 .. Len(asked') : oldWire[i].of < asked'[k]
    <3> TAKE i \in 1 .. Len(oldWire)
    <3>1. oldWire[i].of \in Int /\ oldWire[i].of <= calls
      BY <1>6, <1>8
    <3>2. ASSUME NEW k \in 1 .. Len(asked') PROVE oldWire[i].of < asked'[k]
      <4>1. CASE k = Len(asked) + 1
        BY <1>2, <1>5, <3>1, <4>1
      <4>2. CASE k \in 1 .. Len(asked)
        BY <1>5, <1>8, <4>2
      <4> QED BY <1>5, <4>1, <4>2
    <3> QED BY <1>1, <1>2, <3>1, <3>2
  <2> QED BY <1>4, <2>1, <2>2, <2>3 DEF StillToCome
<1>10. LastOrOwn'
  <2>1. \A k \in 1 .. Len(asked') : asked'[k] >= calls' - left'
    BY <1>1, <1>2, <1>5 DEF CallsInv, LastOrOwn
  <2>2. \A i \in 1 .. Len(oldWire) : oldWire[i].of >= calls' - left'
    BY <1>1, <1>2, <1>6, <1>8
  <2> QED BY <1>1, <1>4, <2>1, <2>2 DEF LastOrOwn
<1>11. OneAtATime'
  <2> SUFFICES ASSUME left = 0
               PROVE  asked' = <<calls'>> /\ Stream' = <<>> /\ Len(answers') = calls' - 1
    BY <1>1 DEF OneAtATime
  <2>1. asked = <<>> /\ oldWire = <<>> /\ Len(answers) = calls
    BY <1>1 DEF CallsInv, OneAtATime
  <2> QED BY <1>1, <1>2, <1>4, <2>1
<1> QED BY <1>3, <1>7, <1>9, <1>10, <1>11 DEF CallsInv

(* A piece that moves on changes nothing in the stream.                    *)
LEMMA MoveKeeps == CallsInv /\ (Take \/ Arrive) => CallsInv'
<1> SUFFICES ASSUME CallsInv, Take \/ Arrive PROVE CallsInv'
  OBVIOUS
<1> USE DEF CallsInv
<1>1. incoming \in Seq(Pieces) /\ rx \in Seq(Pieces) /\ oldWire \in Seq(Pieces)
  BY DEF OldTypes
<1>2. UNCHANGED <<left, calls, kind, pc, asked, answers, result>>
  BY DEF Take, Arrive
<1>3. OldTypes' /\ Stream' = Stream
  <2>1. CASE Take
    <3>1. /\ rx # <<>> /\ incoming' = Append(incoming, Head(rx))
          /\ rx' = Tail(rx) /\ oldWire' = oldWire
      BY <2>1 DEF Take
    <3>2. /\ incoming' \in Seq(Pieces) /\ rx' \in Seq(Pieces)
          /\ incoming' \o (rx' \o oldWire) = incoming \o (rx \o oldWire)
      <4>1. rx # <<>>
        BY <3>1
      <4>2. /\ Append(incoming, Head(rx)) \in Seq(Pieces) /\ Tail(rx) \in Seq(Pieces)
            /\ Append(incoming, Head(rx)) \o (Tail(rx) \o oldWire)
                 = incoming \o (rx \o oldWire)
        BY <1>1, <4>1, MovesOn, MovesOnBefore
      <4> QED BY <3>1, <4>2
    <3>3. Stream' = Stream
      BY <3>1, <3>2 DEF Stream
    <3> QED BY <1>2, <3>1, <3>2, <3>3 DEF OldTypes
  <2>2. CASE Arrive
    <3>1. /\ oldWire # <<>> /\ rx' = Append(rx, Head(oldWire))
          /\ oldWire' = Tail(oldWire) /\ incoming' = incoming
      BY <2>2 DEF Arrive
    <3>2. /\ rx' \in Seq(Pieces) /\ oldWire' \in Seq(Pieces)
          /\ rx' \o oldWire' = rx \o oldWire
      <4>1. oldWire # <<>>
        BY <3>1
      <4>2. /\ Append(rx, Head(oldWire)) \in Seq(Pieces) /\ Tail(oldWire) \in Seq(Pieces)
            /\ Append(rx, Head(oldWire)) \o Tail(oldWire) = rx \o oldWire
        BY <1>1, <4>1, MovesOn
      <4> QED BY <3>1, <4>2
    <3> QED BY <1>2, <3>1, <3>2 DEF OldTypes, Stream
  <2> QED BY <2>1, <2>2
<1>4. InOrder(Stream)' /\ StillToCome'
  BY <1>2, <1>3 DEF InOrder, StillToCome
<1>5. LastOrOwn'
  <2>1. pc = "idle" => incoming' = incoming
    BY DEF Take, Arrive
  <2> QED BY <1>2, <1>3, <2>1 DEF LastOrOwn
<1>6. OneAtATime'
  <2>1. left = 0 /\ pc = "idle" => oldWire = <<>> /\ rx = <<>>
    BY DEF OneAtATime
  <2>2. ~(left = 0 /\ pc = "idle")
    BY <2>1 DEF Take, Arrive, OldTypes
  <2> QED BY <1>2, <1>3, <2>2 DEF OneAtATime
<1> QED BY <1>3, <1>4, <1>5, <1>6

(* An answer comes behind all that has come, with the number of the first  *)
(* request that is still to be answered.                                   *)
LEMMA AnswersKeep == CallsInv /\ Answers => CallsInv'
<1> SUFFICES ASSUME CallsInv, Answers PROVE CallsInv'
  OBVIOUS
<1> DEFINE h == Head(asked)
           a == Answer(h)
<1>1. /\ asked # <<>> /\ oldWire' = oldWire \o a /\ asked' = Tail(asked)
      /\ \E v \in CarValues : answers' = Append(answers, v)
      /\ UNCHANGED <<left, calls, kind, pc, rx, incoming, result>>
  BY DEF Answers
<1>2. /\ calls \in Nat /\ left \in Nat /\ asked \in Seq(Nat) /\ answers \in Seq(CarValues)
      /\ incoming \in Seq(Pieces) /\ rx \in Seq(Pieces) /\ oldWire \in Seq(Pieces)
  BY DEF CallsInv, OldTypes
<1>3. /\ h \in Nat /\ h = asked[1] /\ 1 \in 1 .. Len(asked)
      /\ asked' \in Seq(Nat) /\ Len(asked') = Len(asked) - 1 /\ Len(asked) \in Nat
      /\ \A k \in 1 .. Len(asked') : asked'[k] = asked[k + 1] /\ k + 1 \in 1 .. Len(asked)
      /\ \A k \in 1 .. Len(asked) : asked[k] \in Nat
  BY <1>1, <1>2, HeadTailProperties, EmptySeq
<1>4. /\ a \in Seq(Pieces) /\ Len(a) = 3
      /\ \A i \in 1 .. 3 : a[i].of = h
      /\ \A i \in 1 .. 3 : a[i].what = "prompt" => i = 3
  BY <1>3, AnswerIs
<1>5. answers' \in Seq(CarValues) /\ Len(answers') = Len(answers) + 1
  BY <1>1, <1>2, AppendProperties
<1> HIDE DEF a, h
<1>6. OldTypes'
  <2>1. oldWire' \in Seq(Pieces)
    BY <1>1, <1>2, <1>4, ConcatProperties
  <2> QED BY <1>1, <1>3, <1>5, <2>1 DEF CallsInv, OldTypes
<1>7. Stream' = Stream \o a
  <2> DEFINE m == rx \o oldWire
  <2>0. a \in Seq(Pieces)
    BY <1>4
  <2>1. m \in Seq(Pieces)
    BY <1>2, ConcatProperties
  <2>2. m \o a = rx \o (oldWire \o a)
    <3>1. rx \in Seq(Pieces) /\ oldWire \in Seq(Pieces)
      BY <1>2
    <3> QED BY <2>0, <3>1, ConcatAssociative
  <2> HIDE DEF m
  <2>3. (incoming \o m) \o a = incoming \o (m \o a)
    <3>1. incoming \in Seq(Pieces)
      BY <1>2
    <3> QED BY <2>0, <2>1, <3>1, ConcatAssociative
  <2> QED BY <1>1, <2>2, <2>3 DEF Stream, m
<1> DEFINE n == Len(Stream)
<1>8. /\ n \in Nat /\ Stream \in Seq(Pieces) /\ n >= Len(incoming)
      /\ Len(incoming) \in Nat
  BY Parts DEF CallsInv
<1>9. /\ Len(Stream') = n + 3
      /\ \A i \in 1 .. n : Stream'[i] = Stream[i]
      /\ \A i \in n + 1 .. n + 3 : Stream'[i] = a[i - n] /\ i - n \in 1 .. 3
  <2>1. /\ Len(Stream \o a) = n + 3
        /\ \A i \in 1 .. n + 3 :
             (Stream \o a)[i] = IF i <= n THEN Stream[i] ELSE a[i - n]
    <3>1. a \in Seq(Pieces) /\ Stream \in Seq(Pieces)
      BY <1>4, <1>8
    <3>2. /\ Len(Stream \o a) = n + Len(a)
          /\ \A i \in 1 .. n + Len(a) :
               (Stream \o a)[i] = IF i <= n THEN Stream[i] ELSE a[i - n]
      BY <3>1, ConcatProperties
    <3>3. Len(a) = 3
      BY <1>4
    <3> QED BY <3>2, <3>3
  <2> QED BY <1>7, <1>8, <2>1
<1>10. \A i \in n + 1 .. n + 3 :
         /\ Stream'[i].of = h
         /\ Stream'[i].what = "prompt" => i = n + 3
  BY <1>4, <1>8, <1>9
<1>11. \A i \in 1 .. n : Stream[i].of \in Int /\ Stream[i].of < h /\ Stream[i].of <= calls
  <2> TAKE i \in 1 .. n
  <2>1. Stream[i] \in Pieces
    BY <1>8, ElementOfSeq
  <2> QED BY <1>3, <2>1 DEF CallsInv, StillToCome, Pieces
<1>12. h <= calls /\ \A k \in 1 .. Len(asked') : h < asked'[k]
  BY <1>3 DEF CallsInv, StillToCome
<1> HIDE DEF n
<1>13. \A i \in 1 .. n + 3 : i \in 1 .. n \/ i \in n + 1 .. n + 3
  BY <1>8
<1>14. InOrder(Stream)'
  <2> SUFFICES ASSUME NEW i \in 1 .. n + 3, NEW j \in 1 .. n + 3, i < j
               PROVE  /\ Stream'[i].of <= Stream'[j].of
                      /\ Stream'[i].what = "prompt" => Stream'[i].of < Stream'[j].of
    BY <1>9 DEF InOrder
  <2>1. CASE i \in 1 .. n /\ j \in 1 .. n
    <3>1. /\ Stream[i].of <= Stream[j].of
          /\ Stream[i].what = "prompt" => Stream[i].of < Stream[j].of
      BY <2>1 DEF CallsInv, InOrder, n
    <3> QED BY <1>9, <2>1, <3>1
  <2>2. CASE i \in 1 .. n /\ j \in n + 1 .. n + 3
    BY <1>3, <1>9, <1>10, <1>11, <2>2
  <2>3. CASE i \in n + 1 .. n + 3 /\ j \in n + 1 .. n + 3
    <3>1. i # n + 3
      BY <1>8, <2>3
    <3> QED BY <1>3, <1>10, <2>3, <3>1
  <2>4. ~(i \in n + 1 .. n + 3 /\ j \in 1 .. n)
    BY <1>8
  <2> QED BY <1>13, <2>1, <2>2, <2>3, <2>4
<1>15. StillToCome'
  <2>1. \A k \in 1 .. Len(asked') : asked'[k] <= calls'
    BY <1>1, <1>3 DEF CallsInv, StillToCome
  <2>2. \A k, l \in 1 .. Len(asked') : k < l => asked'[k] < asked'[l]
    <3> SUFFICES ASSUME NEW k \in 1 .. Len(asked'), NEW l \in 1 .. Len(asked'), k < l
                 PROVE  asked'[k] < asked'[l]
      OBVIOUS
    <3>1. k + 1 < l + 1
      BY <1>3
    <3> QED BY <1>3, <3>1 DEF CallsInv, StillToCome
  <2>3. ASSUME NEW i \in 1 .. n + 3
        PROVE  /\ Stream'[i].of <= calls'
               /\ \A k \in 1 .. Len(asked') : Stream'[i].of < asked'[k]
    <3>1. CASE i \in 1 .. n
      <4>1. \A k \in 1 .. Len(asked') : Stream[i].of < asked'[k]
        BY <1>3, <3>1 DEF CallsInv, StillToCome, n
      <4> QED BY <1>1, <1>9, <1>11, <3>1, <4>1
    <3>2. CASE i \in n + 1 .. n + 3
      BY <1>1, <1>10, <1>12, <3>2
    <3> QED BY <1>13, <3>1, <3>2
  <2> QED BY <1>9, <2>1, <2>2, <2>3 DEF StillToCome
<1>16. LastOrOwn'
  <2>1. ASSUME NEW low \in Int, \A k \in 1 .. Len(asked) : asked[k] >= low
        PROVE  /\ \A k \in 1 .. Len(asked') : asked'[k] >= low
               /\ \A i \in n + 1 .. n + 3 : Stream'[i].of >= low
    BY <1>3, <1>10, <2>1
  <2>2. calls - left \in Int /\ calls + 1 - left \in Int
    BY <1>2
  <2>3. pc = "reading" =>
          /\ \A i \in 1 .. n + 3 : Stream'[i].of >= calls - left
          /\ \A k \in 1 .. Len(asked') : asked'[k] >= calls - left
    BY <1>9, <1>13, <2>1, <2>2 DEF CallsInv, LastOrOwn, n
  <2>4. pc = "idle" =>
          /\ \A i \in 1 .. n + 3 :
               i > Len(incoming) => Stream'[i].of >= calls + 1 - left
          /\ \A k \in 1 .. Len(asked') : asked'[k] >= calls + 1 - left
    BY <1>9, <1>13, <2>1, <2>2 DEF CallsInv, LastOrOwn, n
  <2> QED BY <1>1, <1>9, <2>3, <2>4 DEF CallsInv, LastOrOwn
<1>17. OneAtATime'
  <2> SUFFICES ASSUME left = 0
               PROVE  pc = "reading" /\ asked' = <<>> /\ Stream' = Answer(calls)
                      /\ Len(answers') = calls
    BY <1>1 DEF OneAtATime
  <2>1. pc = "reading" /\ asked = <<calls>> /\ Stream = <<>> /\ Len(answers) = calls - 1
    BY <1>1 DEF CallsInv, OneAtATime, OldTypes
  <2>2. h = calls /\ asked' = <<>>
    BY <1>1, <2>1 DEF h
  <2>3. Stream' = a
    BY <1>4, <1>7, <2>1, ConcatEmptySeq
  <2> QED BY <1>2, <1>5, <2>1, <2>2, <2>3 DEF a
<1> QED BY <1>6, <1>14, <1>15, <1>16, <1>17 DEF CallsInv

(* What is left when a call returns comes after the prompt it ends with.   *)
LEMMA ReturnKeeps == CallsInv /\ Return => CallsInv'
<1> SUFFICES ASSUME CallsInv, Return PROVE CallsInv'
  OBVIOUS
<1> DEFINE n == Len(incoming)
<1>1. /\ pc = "reading" /\ pc' = "idle" /\ rx = <<>> /\ incoming # <<>>
      /\ incoming[n].what = "prompt" /\ result' \in Results
      /\ UNCHANGED <<left, calls, kind, asked, oldWire, rx, incoming, answers>>
  BY DEF Return, Over, Last
<1>2. /\ calls \in Nat /\ left \in Nat /\ incoming \in Seq(Pieces)
      /\ n \in 1 .. n
  BY <1>1, EmptySeq DEF CallsInv, OldTypes
<1>3. /\ n \in Nat /\ n \in 1 .. Len(Stream) /\ Len(Stream) \in Nat
      /\ Len(Stream) = n + Len(oldWire) /\ Len(oldWire) \in Nat
      /\ Stream[n] = incoming[n] /\ Stream \in Seq(Pieces)
      /\ \A i \in 1 .. n : Stream[i] = incoming[i]
  BY <1>1, <1>2, Parts DEF CallsInv
<1>4. OldTypes' /\ Stream' = Stream
  BY <1>1 DEF CallsInv, OldTypes, Stream
<1> HIDE DEF n
<1>5. InOrder(Stream)' /\ StillToCome'
  BY <1>1, <1>4 DEF CallsInv, InOrder, StillToCome
<1>6. \A i \in 1 .. Len(Stream) : Stream[i].of \in Int
  <2> TAKE i \in 1 .. Len(Stream)
  <2>1. Stream[i] \in Pieces
    BY <1>3, ElementOfSeq
  <2> QED BY <2>1 DEF Pieces
<1>7. LastOrOwn'
  <2>1. Stream[n].of >= calls - left /\ Stream[n].of \in Int
    BY <1>1, <1>3, <1>6 DEF CallsInv, LastOrOwn
  <2>2. ASSUME NEW i \in 1 .. Len(Stream), i > n
        PROVE  Stream[i].of >= calls + 1 - left
    <3>1. Stream[n].of < Stream[i].of
      BY <1>1, <1>3, <2>2 DEF CallsInv, InOrder
    <3> QED BY <1>2, <1>6, <2>1, <3>1
  <2>3. ASSUME NEW k \in 1 .. Len(asked) PROVE asked[k] >= calls + 1 - left
    <3>1. Stream[n].of < asked[k] /\ asked[k] \in Nat
      BY <1>3 DEF CallsInv, StillToCome, OldTypes
    <3> QED BY <1>2, <2>1, <3>1
  <2> QED BY <1>1, <1>3, <1>4, <2>1, <2>2, <2>3 DEF LastOrOwn, n
<1>8. OneAtATime'
  <2> SUFFICES ASSUME left = 0
               PROVE  /\ asked = <<>> /\ oldWire = <<>> /\ rx = <<>>
                      /\ Len(answers) = calls
                      /\ incoming = Answer(calls)
                      /\ result' = Reading(kind, answers[calls])
    BY <1>1 DEF OneAtATime
  <2>1. asked = <<>> /\ Stream = Answer(calls) /\ Len(answers) = calls
    <3>1. Stream # <<>>
      BY <1>3
    <3> QED BY <1>1, <3>1 DEF CallsInv, OneAtATime
  <2>2. /\ Len(Stream) = 3 /\ Stream[1].what = "head" /\ Stream[1].of = calls
        /\ \A i \in 1 .. 3 : Stream[i].what = "prompt" => i = 3
    BY <1>2, <2>1, AnswerIs
  <2>3. n = 3 /\ oldWire = <<>>
    <3>1. n = 3
      <4>1. n \in 1 .. 3 /\ Stream[n].what = "prompt"
        BY <1>1, <1>3, <2>2
      <4> QED BY <2>2, <4>1
    <3>2. Len(Stream) = n + Len(oldWire)
      BY <1>3
    <3>3. Len(Stream) = 3
      BY <2>2
    <3>4. oldWire # <<>> => Len(oldWire) \in Nat \ {0}
      BY EmptySeq DEF CallsInv, OldTypes
    <3>5. ASSUME oldWire # <<>> PROVE FALSE
      <4> DEFINE l == Len(oldWire)
      <4>1. l \in Nat /\ l # 0 /\ 3 = 3 + l
        BY <3>1, <3>2, <3>3, <3>4, <3>5
      <4> HIDE DEF l
      <4> QED BY <4>1
    <3> QED BY <3>1, <3>5
  <2>4. incoming = Stream
    <3>1. <<>> \o <<>> = <<>> /\ incoming \o <<>> = incoming
      BY <1>2, EmptySeq, ConcatEmptySeq
    <3>2. rx = <<>> /\ oldWire = <<>>
      BY <1>1, <2>3
    <3> QED BY <3>1, <3>2, Zenon DEF Stream
  <2>5. incoming[1].what = "head" /\ incoming[1].of = calls /\ Len(incoming) >= 2
    <3>1. incoming[1] = Stream[1] /\ Len(incoming) = 3
      BY <2>3, <2>4 DEF n
    <3> QED BY <2>2, <3>1
  <2>6. result' = Reading(kind, answers[calls])
    BY <1>1, <2>5 DEF Results
  <2> QED BY <1>1, <2>1, <2>3, <2>4, <2>6
<1> QED BY <1>4, <1>5, <1>7, <1>8 DEF CallsInv

(* Whatever the car answers, however often it is asked and however many    *)
(* commands setup() has left unanswered: when it has left none a reading   *)
(* is made from the whole answer to its own request, and otherwise no call *)
(* falls further behind than by the answers left.                          *)
THEOREM OldReadingsInStep == OldSpec => []ReadingsInStep
<1>1. CallsInv /\ [OldNext]_oldVars => CallsInv'
  <2> SUFFICES ASSUME CallsInv, [OldNext]_oldVars PROVE CallsInv'
    OBVIOUS
  <2>1. CASE UNCHANGED oldVars
    <3>1. UNCHANGED <<left, calls, kind, pc, asked, oldWire, rx, incoming,
                      answers, result>>
      BY <2>1 DEF oldVars
    <3>2. Stream' = Stream
      BY <3>1 DEF Stream
    <3>3. OldTypes' /\ InOrder(Stream)' /\ StillToCome'
      BY <3>1, <3>2 DEF CallsInv, OldTypes, InOrder, StillToCome
    <3>4. LastOrOwn' /\ OneAtATime'
      BY <3>1, <3>2 DEF CallsInv, LastOrOwn, OneAtATime
    <3> QED BY <3>3, <3>4 DEF CallsInv
  <2> QED BY <2>1, CallKeeps, MoveKeeps, AnswersKeep, ReturnKeeps DEF OldNext
<1>2. CallsInv => ReadingsInStep
  <2> SUFFICES ASSUME CallsInv PROVE ReadingsInStep
    OBVIOUS
  <2>1. left = 0 => OwnAnswer
    BY DEF CallsInv, OneAtATime, OldTypes, OwnAnswer, Returned
  <2>2. NoFurtherBehind
    BY DEF CallsInv, LastOrOwn, NoFurtherBehind, Returned, Last
  <2> QED BY <2>1, <2>2 DEF ReadingsInStep, ReadingsInStep
<1> QED BY <1>1, <1>2, CallsInit, PTL DEF OldSpec

=============================================================================
