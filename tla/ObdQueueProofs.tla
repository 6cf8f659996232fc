--------------------------- MODULE ObdQueueProofs ---------------------------
(***************************************************************************)
(* Proofs about ObdQueue and ObdAnswers, for every value of the constants. *)
(*                                                                         *)
(* None of the properties is inductive.  What makes them true is that a    *)
(* refill always appends the pair speed, tach and an answer always removes *)
(* slot 0: counted from the END of the queue the kinds of the requests are *)
(* fixed, the last is a tach, the one before it a speed and so on.  IInv   *)
(* says this of both arrays, ties the request on the line to slot 0 and    *)
(* the one before it to the parity of the count.  How old a byte may be    *)
(* that completes a request is a matter of counting: each request that is  *)
(* written and completed takes the marked byte a place nearer (AgeInv).    *)
(***************************************************************************)
EXTENDS ObdAnswers, TLAPS

(* What the queue holds n places before its end, n = 1 being the last.     *)
KindFromEnd(n) == IF n % 2 = 1 THEN Tach ELSE Speed
ParserFromEnd(n) == IF n % 2 = 1 THEN 1 ELSE 0

QueueInPairs ==
  /\ OBDMessagesToSendCount <= RefillBelow + 1
  /\ \A i \in 0 .. OBDMessagesToSendCount - 1 :
       /\ OBDMessagesToSend[i] = KindFromEnd(OBDMessagesToSendCount - i)
       /\ OBDResponseCallbackIndex[i]
            = ParserFromEnd(OBDMessagesToSendCount - i)

(* A blank says that nothing was written yet: as if it had been a tach.    *)
AskedLast == IF lastSent = Speed THEN Speed ELSE Tach

OnTheLine ==
  /\ waitingForOBDResponse => OBDMessagesToSendCount >= 1
  /\ sending => waitingForOBDResponse
  /\ IF waitingForOBDResponse /\ ~sending
     THEN lastSent = OBDMessagesToSend[0]
     ELSE AskedLast = KindFromEnd(OBDMessagesToSendCount + 1)

IInv == TypeOK /\ QueueInPairs /\ OnTheLine

-----------------------------------------------------------------------------
LEMMA ParserFits ==
  ASSUME NEW n \in Int
  PROVE  /\ ParserFromEnd(n) \in {0, 1}
         /\ OBDResponseParser[ParserFromEnd(n)] = KindFromEnd(n)
         /\ KindFromEnd(n) \in Requests
         /\ KindFromEnd(n) # KindFromEnd(n + 1)
         /\ KindFromEnd(n + 2) = KindFromEnd(n)
         /\ ParserFromEnd(n + 2) = ParserFromEnd(n)
  BY DEF ParserFromEnd, KindFromEnd, OBDResponseParser, Requests, Speed, Tach

LEMMA InitIInv == Init => IInv
<1> SUFFICES ASSUME Init PROVE IInv
  OBVIOUS
<1>1. /\ OBDMessagesToSend \in [Index -> Requests \cup {Blank}]
      /\ OBDResponseCallbackIndex \in [Index -> {0, 1}]
      /\ lastSent \in Requests \cup {Blank}
  BY DEF Init
<1>2. /\ OBDMessagesToSendCount \in 0 .. 255
      /\ available \in 0 .. RxCap
      /\ lines \in 0 .. LineCap
      /\ wire \in 0 .. TxCap
  BY ConstantsAssumption DEF Init
<1>3. waitingForOBDResponse \in BOOLEAN /\ sending \in BOOLEAN
  BY DEF Init
<1>4. QueueInPairs /\ OnTheLine
  <2>1. /\ OBDMessagesToSendCount = 0 /\ lastSent = Blank
        /\ waitingForOBDResponse = FALSE /\ sending = FALSE
    BY DEF Init
  <2>2. AskedLast = Tach
    BY <2>1 DEF AskedLast, Blank, Speed
  <2>3. KindFromEnd(0 + 1) = Tach
    BY DEF KindFromEnd
  <2> QED
    BY <2>1, <2>2, <2>3, ConstantsAssumption DEF QueueInPairs, OnTheLine
<1> QED
  BY <1>1, <1>2, <1>3, <1>4 DEF IInv, TypeOK

LEMMA SendMessageIInv == IInv /\ SendMessage => IInv'
<1> SUFFICES ASSUME IInv, SendMessage PROVE IInv'
  OBVIOUS
<1> USE ConstantsAssumption
<1>1. OBDMessagesToSendCount \in Nat /\ OBDMessagesToSendCount # 0
  BY DEF IInv, TypeOK, SendMessage
<1>2. TypeOK'
  <2>1. lines' \in 0 .. LineCap /\ available' \in 0 .. RxCap
    BY DEF IInv, TypeOK, SendMessage
  <2>2. waitingForOBDResponse' \in BOOLEAN /\ sending' \in BOOLEAN
    BY DEF SendMessage
  <2> QED
    BY <2>1, <2>2 DEF IInv, TypeOK, SendMessage, queueVars
<1>3. QueueInPairs'
  BY DEF IInv, QueueInPairs, SendMessage, queueVars, KindFromEnd, ParserFromEnd
<1>4. OnTheLine'
  BY <1>1 DEF IInv, OnTheLine, SendMessage, queueVars, AskedLast, KindFromEnd
<1> QED
  BY <1>2, <1>3, <1>4 DEF IInv

LEMMA PrintlnIInv == IInv /\ Println => IInv'
<1> SUFFICES ASSUME IInv, Println PROVE IInv'
  OBVIOUS
<1> USE ConstantsAssumption
<1>1. TypeOK'
  <2>1. OBDMessagesToSend[0] \in Requests \cup {Blank}
    BY DEF IInv, TypeOK, Index
  <2>2. lines' \in 0 .. LineCap
    BY DEF IInv, TypeOK, Println
  <2>3. sending' \in BOOLEAN
    BY DEF Println
  <2> QED
    BY <2>1, <2>2, <2>3 DEF IInv, TypeOK, Println, queueVars
<1>2. QueueInPairs'
  BY DEF IInv, QueueInPairs, Println, queueVars, KindFromEnd, ParserFromEnd
<1>3. OnTheLine'
  BY DEF IInv, OnTheLine, Println, queueVars
<1> QED
  BY <1>1, <1>2, <1>3 DEF IInv

LEMMA MessageRecievedIInv == IInv /\ MessageRecieved => IInv'
<1> SUFFICES ASSUME IInv, MessageRecieved PROVE IInv'
  OBVIOUS
<1> USE ConstantsAssumption
<1> DEFINE n == OBDMessagesToSendCount
<1>1. n \in 1 .. Slots /\ n' = n - 1
  BY DEF IInv, TypeOK, QueueInPairs, OnTheLine, MessageRecieved
<1>2. /\ OBDMessagesToSend' = Shifted(OBDMessagesToSend)
      /\ OBDResponseCallbackIndex' = Shifted(OBDResponseCallbackIndex)
      /\ waitingForOBDResponse' = FALSE
      /\ UNCHANGED <<sending, available, lines, wire, lastSent>>
      /\ waitingForOBDResponse /\ ~sending
  BY DEF MessageRecieved, lineVars
<1>3. TypeOK'
  <2>1. /\ OBDMessagesToSend' \in [Index -> Requests \cup {Blank}]
        /\ OBDResponseCallbackIndex' \in [Index -> {0, 1}]
    BY <1>2 DEF IInv, TypeOK, Shifted
  <2>2. OBDMessagesToSendCount' \in 0 .. 255
    BY <1>1
  <2>3. waitingForOBDResponse' \in BOOLEAN
    BY <1>2
  <2> QED
    BY <1>2, <2>1, <2>2, <2>3 DEF IInv, TypeOK
<1>4. QueueInPairs'
  <2> SUFFICES ASSUME NEW i \in 0 .. n' - 1
               PROVE  /\ OBDMessagesToSend'[i] = KindFromEnd(n' - i)
                      /\ OBDResponseCallbackIndex'[i] = ParserFromEnd(n' - i)
    BY <1>1 DEF IInv, QueueInPairs
  <2>1. i + 1 \in 0 .. n - 1 /\ i \in Index /\ i + 1 \in Index
    BY <1>1 DEF Index
  <2>2. n' - i = n - (i + 1)
    BY <1>1
  <2>3. /\ OBDMessagesToSend'[i] = OBDMessagesToSend[i + 1]
        /\ OBDResponseCallbackIndex'[i] = OBDResponseCallbackIndex[i + 1]
    BY <1>2, <2>1 DEF Shifted
  <2> QED
    BY <2>1, <2>2, <2>3 DEF IInv, QueueInPairs
<1>5. OnTheLine'
  <2>1. lastSent' = OBDMessagesToSend[0]
    BY <1>2 DEF IInv, OnTheLine
  <2>2. OBDMessagesToSend[0] = KindFromEnd(n - 0)
    BY <1>1 DEF IInv, QueueInPairs
  <2>3. n' + 1 = n - 0
    BY <1>1
  <2>4. AskedLast' = KindFromEnd(n - 0)
    BY <2>1, <2>2 DEF AskedLast, KindFromEnd, Speed, Tach
  <2> QED
    BY <1>2, <2>3, <2>4 DEF OnTheLine
<1> QED
  BY <1>3, <1>4, <1>5 DEF IInv

LEMMA AddMessagesToSendIInv == IInv /\ AddMessagesToSend => IInv'
<1> SUFFICES ASSUME IInv, AddMessagesToSend PROVE IInv'
  OBVIOUS
<1> USE ConstantsAssumption
<1> DEFINE n == OBDMessagesToSendCount
<1>1. /\ n \in Nat /\ n < RefillBelow /\ n' = n + 2
      /\ n \in Index /\ n + 1 \in Index
  BY DEF IInv, TypeOK, AddMessagesToSend, Index
<1>2. /\ OBDMessagesToSend'
           = [OBDMessagesToSend EXCEPT ![n] = Speed, ![n + 1] = Tach]
      /\ OBDResponseCallbackIndex'
           = [OBDResponseCallbackIndex EXCEPT ![n] = 0, ![n + 1] = 1]
      /\ UNCHANGED <<waitingForOBDResponse, sending, available, lines, wire,
                     lastSent>>
      /\ ~sending
  BY DEF AddMessagesToSend, lineVars
<1>3. TypeOK'
  BY <1>1, <1>2 DEF IInv, TypeOK, Requests
<1>4. QueueInPairs'
  <2> SUFFICES ASSUME NEW i \in 0 .. n' - 1
               PROVE  /\ OBDMessagesToSend'[i] = KindFromEnd(n' - i)
                      /\ OBDResponseCallbackIndex'[i] = ParserFromEnd(n' - i)
    BY <1>1 DEF IInv, QueueInPairs
  <2>1. CASE i \in 0 .. n - 1
    <3>1. i \in Index /\ i # n /\ i # n + 1
      BY <1>1, <2>1 DEF Index
    <3>2. /\ OBDMessagesToSend'[i] = OBDMessagesToSend[i]
          /\ OBDResponseCallbackIndex'[i] = OBDResponseCallbackIndex[i]
      BY <1>1, <1>2, <3>1 DEF IInv, TypeOK
    <3>3. n - i \in Int /\ n' - i = (n - i) + 2
      BY <1>1
    <3>4. /\ KindFromEnd(n' - i) = KindFromEnd(n - i)
          /\ ParserFromEnd(n' - i) = ParserFromEnd(n - i)
      BY <3>3, ParserFits
    <3> QED
      BY <2>1, <3>2, <3>4 DEF IInv, QueueInPairs
  <2>2. CASE i = n
    BY <1>1, <1>2, <2>2 DEF IInv, TypeOK, KindFromEnd, ParserFromEnd
  <2>3. CASE i = n + 1
    BY <1>1, <1>2, <2>3 DEF IInv, TypeOK, KindFromEnd, ParserFromEnd
  <2> QED
    BY <1>1, <2>1, <2>2, <2>3
<1>5. OnTheLine'
  <2>1. CASE waitingForOBDResponse
    <3>1. OBDMessagesToSend'[0] = OBDMessagesToSend[0]
      BY <1>1, <1>2, <2>1 DEF IInv, TypeOK, OnTheLine, Index
    <3> QED
      BY <1>1, <1>2, <2>1, <3>1 DEF IInv, OnTheLine
  <2>2. CASE ~waitingForOBDResponse
    <3>1. n + 1 \in Int /\ n' + 1 = (n + 1) + 2
      BY <1>1
    <3>2. KindFromEnd(n' + 1) = KindFromEnd(n + 1)
      BY <3>1, ParserFits
    <3>3. AskedLast' = AskedLast
      BY <1>2 DEF AskedLast
    <3> QED
      BY <1>2, <2>2, <3>2, <3>3 DEF IInv, OnTheLine
  <2> QED
    BY <2>1, <2>2
<1> QED
  BY <1>3, <1>4, <1>5 DEF IInv

LEMMA LineStepIInv ==
  IInv /\ (ByteArrives \/ FakeAnswers \/ Lose) => IInv'
<1> SUFFICES ASSUME IInv, ByteArrives \/ FakeAnswers \/ Lose PROVE IInv'
  OBVIOUS
<1> USE ConstantsAssumption
<1>1. UNCHANGED <<OBDMessagesToSend, OBDResponseCallbackIndex,
                  OBDMessagesToSendCount, waitingForOBDResponse, sending, lastSent>>
  BY DEF ByteArrives, FakeAnswers, Lose, queueVars
<1>2. TypeOK'
  <2>1. CASE ByteArrives
    BY <1>1, <2>1 DEF IInv, TypeOK, ByteArrives
  <2>2. CASE FakeAnswers
    BY <1>1, <2>2 DEF IInv, TypeOK, FakeAnswers
  <2>3. CASE Lose
    BY <1>1, <2>3 DEF IInv, TypeOK, Lose
  <2> QED
    BY <2>1, <2>2, <2>3
<1>3. QueueInPairs'
  BY <1>1 DEF IInv, QueueInPairs, KindFromEnd, ParserFromEnd
<1>4. OnTheLine'
  BY <1>1 DEF IInv, OnTheLine, KindFromEnd, AskedLast
<1> QED
  BY <1>2, <1>3, <1>4 DEF IInv

(* IInv is inductive.                                                      *)
LEMMA NextIInv == IInv /\ [Next]_vars => IInv'
<1> SUFFICES ASSUME IInv, [Next]_vars PROVE IInv'
  OBVIOUS
<1>1. CASE SendMessage
  BY <1>1, SendMessageIInv
<1>2. CASE MessageRecieved
  BY <1>2, MessageRecievedIInv
<1>3. CASE AddMessagesToSend
  BY <1>3, AddMessagesToSendIInv
<1>4. CASE ByteArrives \/ FakeAnswers \/ Lose
  BY <1>4, LineStepIInv
<1>5. CASE UNCHANGED vars
  BY <1>5 DEF IInv, TypeOK, QueueInPairs, OnTheLine, AskedLast, vars,
     queueVars, lineVars, KindFromEnd, ParserFromEnd
<1>6. CASE Println
  BY <1>6, PrintlnIInv
<1> QED
  BY <1>1, <1>2, <1>3, <1>4, <1>5, <1>6 DEF Next

LEMMA SpecIInv == Spec => []IInv
  BY InitIInv, NextIInv, PTL DEF Spec

-----------------------------------------------------------------------------
(* Every reachable state of the poller is well typed: no step writes an    *)
(* index past the parser table, takes the count byte out of its range or   *)
(* counts more bytes than a buffer holds.                                  *)
THEOREM TypeCorrect == Spec => []TypeOK
  BY SpecIInv, PTL DEF IInv

(* AsyncOBDCANmessageAddMessageToSend never writes past the two arrays and *)
(* AsyncOBDCANmessageRecieved never decrements a count of zero, whatever   *)
(* the length of the arrays and the refill threshold that fits it.         *)
THEOREM BoundsHold == Spec => []QueueBounds
<1>1. IInv => QueueBounds
  BY ConstantsAssumption DEF IInv, TypeOK, QueueInPairs, OnTheLine, QueueBounds
<1> QED
  BY <1>1, SpecIInv, PTL

(* Every answer is handed to the parser of the request it answers, however *)
(* sends, answers, refills and losses interleave.                          *)
THEOREM CallbacksMatch == Spec => []CallbackMatchesRequest
<1>1. IInv => CallbackMatchesRequest
  <2> SUFFICES ASSUME IInv, NEW i \in 0 .. OBDMessagesToSendCount - 1
               PROVE  OBDResponseParser[OBDResponseCallbackIndex[i]]
                        = OBDMessagesToSend[i]
    BY DEF IInv, OnTheLine, CallbackMatchesRequest
  <2>1. OBDMessagesToSendCount - i \in Int
    BY DEF IInv, TypeOK
  <2> QED
    BY <2>1, ParserFits DEF IInv, QueueInPairs
<1> QED
  BY <1>1, SpecIInv, PTL

(* What a println asks for is not what was asked for before it.            *)
LEMMA AsksTheOther ==
  IInv /\ Println => AskedLast' # AskedLast /\ lastSent' \in Requests
<1> SUFFICES ASSUME IInv, Println
             PROVE  AskedLast' # AskedLast /\ lastSent' \in Requests
  OBVIOUS
<1>1. OBDMessagesToSendCount \in Nat /\ OBDMessagesToSendCount >= 1
  BY DEF IInv, TypeOK, OnTheLine, Println
<1>2. lastSent' = KindFromEnd(OBDMessagesToSendCount)
  BY <1>1 DEF IInv, QueueInPairs, Println, KindFromEnd
<1>3. /\ lastSent' \in Requests
      /\ lastSent' # KindFromEnd(OBDMessagesToSendCount + 1)
  BY <1>1, <1>2, ParserFits
<1>4. AskedLast = KindFromEnd(OBDMessagesToSendCount + 1)
  BY DEF IInv, OnTheLine, Println
<1>5. AskedLast' = lastSent'
  BY <1>3 DEF AskedLast, Requests
<1> QED
  BY <1>3, <1>4, <1>5

(* No request follows itself on the serial line.                           *)
THEOREM Alternation == Spec => RequestsAlternate
<1>1. IInv /\ [Next]_vars => [sending /\ ~sending' => lastSent' # lastSent]_vars
  <2> SUFFICES ASSUME IInv, Next, sending, ~sending' PROVE lastSent' # lastSent
    OBVIOUS
  <2>1. Println
    BY DEF Next, SendMessage, MessageRecieved, AddMessagesToSend, ByteArrives,
       FakeAnswers, Lose
  <2> QED
    BY <2>1, AsksTheOther DEF AskedLast
<1> QED
  BY <1>1, SpecIInv, PTL DEF Spec, RequestsAlternate

-----------------------------------------------------------------------------
(* The marked byte is further on its way by a place for every request that *)
(* was completed since it was printed: a request is completed only when a  *)
(* byte before it has come, and the buffer is empty again before the next  *)
(* is written.  One request may be open, and one byte may be in the buffer *)
(* before its request is written.                                          *)
Ahead ==
  IF sending /\ available > 0 THEN 0
  ELSE IF waitingForOBDResponse /\ ~sending /\ available = 0 THEN 2 ELSE 1

AgeInv ==
  /\ mark \in 0 .. wire /\ age \in Nat
  /\ Marked \/ age = 0
  /\ mark # 0 => age + mark <= TxCap + Ahead
  /\ inBuffer => age <= TxCap + 1 - (IF sending THEN 1 ELSE 0)

LEMMA AgedStep == [AgedNext]_agedVars => [Next]_vars
BY DEF AgedNext, agedVars, AgedSend, AgedPrintln, AgedLoop, AgedArrival,
   AgedAnswers, AgedLoss, Next

LEMMA AgeStays == IInv /\ AgeInv /\ [AgedNext]_agedVars => AgeInv'
<1> SUFFICES ASSUME IInv, AgeInv, [AgedNext]_agedVars PROVE AgeInv'
  OBVIOUS
<1> USE ConstantsAssumption DEF AgeInv, Marked
<1>0. /\ wire \in Nat /\ available \in Nat /\ wire <= TxCap
      /\ sending \in BOOLEAN /\ waitingForOBDResponse \in BOOLEAN
      /\ RxCap \in Nat \ {0} /\ TxCap \in Nat
  BY DEF IInv, TypeOK
<1>1. CASE AgedSend
  <2>1. /\ mark' = mark /\ wire' = wire /\ sending' = TRUE /\ available' = 0
        /\ inBuffer' = FALSE /\ ~waitingForOBDResponse /\ ~sending
        /\ age' = IF mark' # 0 \/ inBuffer' THEN age ELSE 0
    BY <1>0, <1>1 DEF AgedSend, SendMessage, AgeKept, IInv, OnTheLine
  <2>2. Ahead = 1 /\ Ahead' = 1
    BY <2>1 DEF Ahead
  <2> QED BY <1>0, <2>1, <2>2
<1>2. CASE AgedPrintln
  <2>1. /\ UNCHANGED <<mark, inBuffer, wire, available, waitingForOBDResponse>>
        /\ sending = TRUE /\ sending' = FALSE /\ waitingForOBDResponse
        /\ age' = IF mark # 0 \/ inBuffer THEN age + 1 ELSE 0
    BY <1>0, <1>2 DEF AgedPrintln, Println, IInv, OnTheLine
  <2>2. Ahead' = Ahead + 1 /\ Ahead \in Nat
    BY <1>0, <2>1 DEF Ahead
  <2> QED BY <1>0, <2>1, <2>2
<1>3. CASE AgedLoop
  <2>1. /\ UNCHANGED <<mark, inBuffer, age, wire, available, sending>> /\ ~sending
        /\ \/ available > 0
           \/ UNCHANGED waitingForOBDResponse
    BY <1>0, <1>3 DEF AgedLoop, ageVars, MessageRecieved, AddMessagesToSend, lineVars
  <2>2. Ahead' = Ahead
    BY <1>0, <2>1 DEF Ahead
  <2> QED BY <2>1, <2>2
<1>4. CASE AgedArrival
  <2>1. /\ wire > 0 /\ wire' = wire - 1
        /\ available' = IF available < RxCap THEN available + 1 ELSE available
        /\ UNCHANGED <<waitingForOBDResponse, sending>>
        /\ mark' = IF mark = 0 THEN 0 ELSE mark - 1
        /\ inBuffer' = (inBuffer \/ (mark = 1 /\ available' > available))
        /\ age' = IF mark' # 0 \/ inBuffer' THEN age ELSE 0
    BY <1>4 DEF AgedArrival, ByteArrives, AgeKept
  <2>2. PICK g \in Nat, h \in Nat :
          /\ Ahead = g /\ Ahead' = h /\ g <= h + 1
          /\ g <= 2 - (IF sending THEN 1 ELSE 0)
    BY <1>0, <2>1 DEF Ahead
  <2>3. mark' \in 0 .. wire' /\ age' \in Nat
    BY <1>0, <2>1
  <2>4. ASSUME mark' # 0 PROVE age' + mark' <= TxCap + Ahead'
    <3>1. mark # 0 /\ mark' = mark - 1 /\ age' = age /\ mark \in Nat
      BY <1>0, <2>1, <2>4
    <3>2. age + mark <= TxCap + Ahead
      BY <3>1
    <3> QED BY <1>0, <2>2, <3>1, <3>2
  <2>5. ASSUME inBuffer' PROVE age' <= TxCap + 1 - (IF sending' THEN 1 ELSE 0)
    <3>1. CASE inBuffer
      BY <1>0, <2>1, <3>1
    <3>2. CASE mark = 1
      <4>1. age + 1 <= TxCap + Ahead /\ age' = age
        BY <2>1, <2>5, <3>2
      <4> QED BY <1>0, <2>1, <2>2, <4>1
    <3> QED BY <2>1, <2>5, <3>1, <3>2
  <2> QED BY <2>1, <2>3, <2>4, <2>5
<1>5. CASE AgedAnswers
  <2>1. /\ UNCHANGED <<inBuffer, age, available, waitingForOBDResponse, sending>>
        /\ wire' \in Nat /\ wire' >= wire /\ wire' <= TxCap
        /\ \/ Marked /\ mark' = mark
           \/ ~Marked /\ mark' \in {0} \cup wire + 1 .. wire'
    BY <1>0, <1>5 DEF AgedAnswers, FakeAnswers
  <2>2. Ahead' = Ahead /\ Ahead \in Nat
    BY <2>1 DEF Ahead
  <2>3. CASE Marked /\ mark' = mark
    BY <1>0, <2>1, <2>2, <2>3
  <2>4. CASE ~Marked /\ mark' \in {0} \cup wire + 1 .. wire'
    <3>1. age = 0 /\ inBuffer = FALSE /\ mark' \in 0 .. wire'
      BY <1>0, <2>1, <2>4
    <3>2. PICK m \in Nat : mark' = m /\ m <= TxCap
      BY <1>0, <2>1, <3>1
    <3>3. PICK g \in Nat : Ahead' = g
      BY <2>2
    <3>4. 0 + m <= TxCap + g
      BY <1>0, <3>2
    <3> QED BY <2>1, <3>1, <3>2, <3>3, <3>4
  <2> QED BY <2>1, <2>3, <2>4
<1>6. CASE AgedLoss
  <2>1. /\ UNCHANGED <<inBuffer, available, waitingForOBDResponse, sending>>
        /\ age' = IF mark' # 0 \/ inBuffer' THEN age ELSE 0
        /\ wire' \in Nat /\ mark' \in 0 .. wire' /\ mark' <= mark
    <3>1. /\ UNCHANGED <<inBuffer, available, waitingForOBDResponse, sending>>
          /\ age' = IF mark' # 0 \/ inBuffer' THEN age ELSE 0
          /\ wire' = wire \/ (wire > 0 /\ wire' = wire - 1)
      BY <1>6 DEF AgedLoss, Lose, AgeKept
    <3>2. CASE wire' = wire
      BY <1>0, <1>6, <3>1, <3>2 DEF AgedLoss
    <3>3. CASE wire > 0 /\ wire' = wire - 1
      <4>1. PICK lost \in 1 .. wire :
              mark' = IF lost < mark THEN mark - 1
                      ELSE IF lost = mark THEN 0 ELSE mark
        BY <1>0, <1>6, <3>3 DEF AgedLoss
      <4> QED BY <1>0, <3>1, <3>3, <4>1
    <3> QED BY <3>1, <3>2, <3>3
  <2>2. Ahead' = Ahead /\ Ahead \in Nat
    BY <2>1 DEF Ahead
  <2>3. ASSUME mark' # 0 PROVE age' + mark' <= TxCap + Ahead'
    <3>1. mark # 0 /\ age' = age /\ mark \in Nat
      BY <1>0, <2>1, <2>3
    <3>2. age + mark <= TxCap + Ahead
      BY <3>1
    <3>3. PICK m \in Nat : mark' = m /\ m <= mark
      BY <1>0, <2>1
    <3>4. age + m <= TxCap + Ahead
      BY <1>0, <2>2, <3>1, <3>2, <3>3
    <3> QED BY <2>2, <3>1, <3>3, <3>4
  <2> QED BY <1>0, <2>1, <2>3
<1>7. CASE UNCHANGED agedVars
  BY <1>7 DEF agedVars, ageVars, vars, lineVars, Ahead
<1> QED
  BY <1>1, <1>2, <1>3, <1>4, <1>5, <1>6, <1>7 DEF AgedNext

(* A request is never completed by a byte that was printed more than       *)
(* TxCap + 1 requests before, on a line that loses bytes, too, and with a  *)
(* byte that comes between the throwing away and the println.              *)
THEOREM AnswersRecent == AgedSpec => []AnswersAreRecent
<1>1. AgedInit => IInv /\ AgeInv
  <2> SUFFICES ASSUME AgedInit PROVE AgeInv
    BY InitIInv DEF AgedInit
  <2>1. /\ wire \in 0 .. TxCap /\ sending = FALSE /\ waitingForOBDResponse = FALSE
        /\ mark \in 0 .. wire /\ inBuffer = FALSE /\ age = 0
    BY DEF AgedInit, Init
  <2>2. Ahead = 1
    BY <2>1 DEF Ahead
  <2> QED
    BY <2>1, <2>2, ConstantsAssumption DEF AgeInv, Marked
<1>2. IInv /\ AgeInv /\ [AgedNext]_agedVars => (IInv /\ AgeInv)'
  BY AgedStep, NextIInv, AgeStays
<1>3. IInv /\ AgeInv => AnswersAreRecent
  BY ConstantsAssumption DEF AgeInv, AnswersAreRecent
<1> QED
  BY <1>1, <1>2, <1>3, PTL DEF AgedSpec
=============================================================================
