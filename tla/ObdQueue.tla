------------------------------ MODULE ObdQueue ------------------------------
(***************************************************************************)
(* The asynchronous OBD-II poller of the Due (Arduino_Due/functions.ino,   *)
(* section "OBDII and STN1110 Functions", driven from loop() in            *)
(* Arduino_Due.ino) and the bus simulator CanBusFake that answers it.      *)
(*                                                                         *)
(* The Due keeps two parallel arrays, the requests still to be sent and    *)
(* the index of the parser that takes each answer, and one count for both. *)
(* The request in slot 0 is written to the serial line once; any byte that *)
(* is then available on the line counts as its answer.  The bytes of an    *)
(* answer are never read, only thrown away before the next request is      *)
(* written, so the module keeps how many bytes there are and not which.    *)
(***************************************************************************)
EXTENDS Integers

CONSTANTS
  Slots,        (* length of OBDMessagesToSend and of its twin; 5 in the code *)
  RefillBelow,  (* the tier-three task adds requests below this count; 3      *)
  MaxResponse,  (* most bytes the simulator puts in one answer; 9             *)
  RxCap,        (* bytes the serial receive buffer of the Due holds; 128      *)
  TxCap,        (* bytes the simulator has on the line before print() blocks  *)
  LineCap,      (* request lines the simulator's receive buffer holds         *)
  LossyLine     (* whether the line between the two may lose bytes            *)

ASSUME ConstantsAssumption ==
  /\ Slots \in Nat /\ RefillBelow \in Nat
  /\ RefillBelow + 1 <= Slots /\ Slots <= 255
  /\ MaxResponse \in Nat /\ MaxResponse >= 2
  /\ RxCap \in Nat \ {0}
  /\ TxCap \in Nat /\ MaxResponse <= TxCap
  /\ LineCap \in Nat \ {0}
  /\ LossyLine \in BOOLEAN

VARIABLES
  OBDMessagesToSend,
  OBDResponseCallbackIndex,
  OBDMessagesToSendCount,    (* a byte: arithmetic on it is modulo 256 *)
  waitingForOBDResponse,
  sending,     (* loop() is in SendMessage, the buffer thrown away and the    *)
               (* request not yet written                                     *)
  available,   (* bytes in the Due's receive buffer: serialOBDCAN.available() *)
  lines,       (* request lines written and not yet read by the simulator     *)
  wire,        (* bytes of answers that have not reached the Due yet          *)
  lastSent     (* history: the request written last                           *)

queueVars == <<OBDMessagesToSend, OBDResponseCallbackIndex,
               OBDMessagesToSendCount>>
lineVars  == <<available, lines, wire>>
vars      == <<queueVars, waitingForOBDResponse, sending, lineVars, lastSent>>

-----------------------------------------------------------------------------
Index     == 0 .. Slots - 1
Blank     == "    "
Speed     == "010d"
Tach      == "010c"
Requests  == {Speed, Tach}

(* OBDResponseParser: entry 0 is UpdateVehicleSpeed, entry 1 UpdateTach.   *)
OBDResponseParser == [i \in {0, 1} |-> IF i = 0 THEN Speed ELSE Tach]

(* The for loop that moves every entry but the last one slot forward; the  *)
(* last slot keeps its old entry.                                          *)
Shifted(a) == [i \in Index |-> IF i + 1 \in Index THEN a[i + 1] ELSE a[i]]

(* setup() leaves an empty queue.  STN1110Setup sends its commands a       *)
(* millisecond apart and may return with any number of them unanswered,    *)
(* and with bytes of the answers unread or still on their way.             *)
Init ==
  /\ OBDMessagesToSend = [i \in Index |-> Blank]
  /\ OBDResponseCallbackIndex = [i \in Index |-> 0]
  /\ OBDMessagesToSendCount = 0
  /\ waitingForOBDResponse = FALSE
  /\ sending = FALSE
  /\ available \in 0 .. RxCap
  /\ lines \in 0 .. LineCap
  /\ wire \in 0 .. TxCap
  /\ lastSent = Blank

-----------------------------------------------------------------------------
(* The steps of loop().  The definitions with a suffix are faulty variants *)
(* of the operation they precede: each breaks one of the properties below  *)
(* or of ObdAnswers.                                                       *)

(* Does not throw away the unread bytes of the answer before.              *)
SendMessage_NoDrain ==
  /\ OBDMessagesToSendCount # 0
  /\ ~waitingForOBDResponse
  /\ waitingForOBDResponse' = TRUE
  /\ sending' = TRUE
  /\ UNCHANGED <<queueVars, lineVars, lastSent>>

(* AsyncOBDCANmessageSendMessage up to the end of the loop that throws away *)
(* what is in the buffer ...                                               *)
SendMessage ==
  /\ OBDMessagesToSendCount # 0
  /\ ~waitingForOBDResponse
  /\ waitingForOBDResponse' = TRUE
  /\ sending' = TRUE
  /\ available' = 0
  /\ UNCHANGED <<queueVars, lines, wire, lastSent>>

(* ... and its println: a byte of an older answer may have come in between. *)
Println ==
  /\ sending
  /\ sending' = FALSE
  /\ lines' = IF lines < LineCap THEN lines + 1 ELSE lines
  /\ lastSent' = OBDMessagesToSend[0]
  /\ UNCHANGED <<queueVars, waitingForOBDResponse, available, wire>>

(* Moves the requests forward and forgets the parser indices.              *)
MessageRecieved_OneShift ==
  /\ waitingForOBDResponse /\ ~sending
  /\ available > 0
  /\ OBDMessagesToSendCount' = (OBDMessagesToSendCount - 1) % 256
  /\ OBDMessagesToSend' = Shifted(OBDMessagesToSend)
  /\ waitingForOBDResponse' = FALSE
  /\ UNCHANGED <<OBDResponseCallbackIndex, sending, lineVars, lastSent>>

(* Moves the parser indices forward and forgets the requests.              *)
MessageRecieved_SameRequest ==
  /\ waitingForOBDResponse /\ ~sending
  /\ available > 0
  /\ OBDResponseCallbackIndex' = Shifted(OBDResponseCallbackIndex)
  /\ OBDMessagesToSendCount' = (OBDMessagesToSendCount - 1) % 256
  /\ waitingForOBDResponse' = FALSE
  /\ UNCHANGED <<OBDMessagesToSend, sending, lineVars, lastSent>>

(* AsyncOBDCANmessageRecieved; what the parser does with the value is in   *)
(* RasPiLink, which parser runs is OBDResponseCallbackIndex[0].            *)
MessageRecieved ==
  /\ waitingForOBDResponse /\ ~sending
  /\ available > 0
  /\ OBDResponseCallbackIndex' = Shifted(OBDResponseCallbackIndex)
  /\ OBDMessagesToSendCount' = (OBDMessagesToSendCount - 1) % 256
  /\ OBDMessagesToSend' = Shifted(OBDMessagesToSend)
  /\ waitingForOBDResponse' = FALSE
  /\ UNCHANGED <<sending, lineVars, lastSent>>

(* Adds while there is any free slot.                                      *)
AddMessagesToSend_AnyRoom ==
  LET n == OBDMessagesToSendCount IN
  /\ ~sending
  /\ n < Slots
  /\ OBDMessagesToSend' =
       [OBDMessagesToSend EXCEPT ![n] = Speed, ![n + 1] = Tach]
  /\ OBDResponseCallbackIndex' =
       [OBDResponseCallbackIndex EXCEPT ![n] = 0, ![n + 1] = 1]
  /\ OBDMessagesToSendCount' = (n + 2) % 256
  /\ UNCHANGED <<waitingForOBDResponse, sending, lineVars, lastSent>>

(* Forgets the second request of a refill.                                 *)
AddMessagesToSend_SpeedOnly ==
  LET n == OBDMessagesToSendCount IN
  /\ ~sending
  /\ n < RefillBelow
  /\ OBDMessagesToSend' = [OBDMessagesToSend EXCEPT ![n] = Speed]
  /\ OBDResponseCallbackIndex' = [OBDResponseCallbackIndex EXCEPT ![n] = 0]
  /\ OBDMessagesToSendCount' = (n + 1) % 256
  /\ UNCHANGED <<waitingForOBDResponse, sending, lineVars, lastSent>>

(* The tier-three task: two calls of AsyncOBDCANmessageAddMessageToSend.   *)
AddMessagesToSend ==
  LET n == OBDMessagesToSendCount IN
  /\ ~sending
  /\ n < RefillBelow
  /\ OBDMessagesToSend' =
       [OBDMessagesToSend EXCEPT ![n] = Speed, ![n + 1] = Tach]
  /\ OBDResponseCallbackIndex' =
       [OBDResponseCallbackIndex EXCEPT ![n] = 0, ![n + 1] = 1]
  /\ OBDMessagesToSendCount' = (n + 2) % 256
  /\ UNCHANGED <<waitingForOBDResponse, sending, lineVars, lastSent>>

-----------------------------------------------------------------------------
(* The serial line and the simulator.                                      *)

(* The receive interrupt of the Due; a full buffer drops the byte.         *)
ByteArrives ==
  /\ wire > 0
  /\ wire' = wire - 1
  /\ available' = IF available < RxCap THEN available + 1 ELSE available
  /\ UNCHANGED <<queueVars, waitingForOBDResponse, sending, lines, lastSent>>

(* loop() of CanBusFake reads every line there is as one string and prints *)
(* one answer; a line it has not received in full is left for later.       *)
FakeAnswers ==
  /\ \E k \in 1 .. lines : lines' = lines - k
  /\ \E n \in 2 .. MaxResponse :
       /\ wire + n <= TxCap
       /\ wire' = wire + n
  /\ UNCHANGED <<queueVars, waitingForOBDResponse, sending, available, lastSent>>

(* A request or a byte of an answer that does not survive the line.        *)
Lose ==
  /\ LossyLine
  /\ \/ lines > 0 /\ lines' = lines - 1 /\ wire' = wire
     \/ wire > 0 /\ wire' = wire - 1 /\ lines' = lines
  /\ UNCHANGED <<queueVars, waitingForOBDResponse, sending, available, lastSent>>

Next ==
  \/ SendMessage
  \/ Println
  \/ MessageRecieved
  \/ AddMessagesToSend
  \/ ByteArrives
  \/ FakeAnswers
  \/ Lose

Spec == Init /\ [][Next]_vars

(* loop() runs for ever and tests each of its conditions on every pass;    *)
(* the simulator and the UART do the same.                                 *)
Fairness ==
  /\ WF_vars(SendMessage)
  /\ WF_vars(Println)
  /\ WF_vars(MessageRecieved)
  /\ WF_vars(AddMessagesToSend)
  /\ WF_vars(ByteArrives)
  /\ WF_vars(FakeAnswers)

FairSpec == Spec /\ Fairness

-----------------------------------------------------------------------------
(* Properties.                                                             *)

(* Every variable has its type; a parser index is one of the table's two.  *)
TypeOK ==
  /\ OBDMessagesToSend \in [Index -> Requests \cup {Blank}]
  /\ OBDResponseCallbackIndex \in [Index -> {0, 1}]
  /\ OBDMessagesToSendCount \in 0 .. 255
  /\ waitingForOBDResponse \in BOOLEAN
  /\ sending \in BOOLEAN
  /\ available \in 0 .. RxCap
  /\ lines \in 0 .. LineCap
  /\ wire \in 0 .. TxCap
  /\ lastSent \in Requests \cup {Blank}

(* The count never passes the end of the arrays that                       *)
(* AsyncOBDCANmessageAddMessageToSend writes without a test of its own,    *)
(* and an answer is only awaited while its request is still queued, so     *)
(* that the decrement in AsyncOBDCANmessageRecieved never takes the byte   *)
(* below zero.                                                             *)
QueueBounds ==
  /\ OBDMessagesToSendCount <= Slots
  /\ waitingForOBDResponse => OBDMessagesToSendCount # 0

(* The two arrays are shifted by two loops and never fall out of step:     *)
(* the parser in a slot is the one for the request in that slot, and the   *)
(* request being awaited is the one in slot 0.                             *)
CallbackMatchesRequest ==
  /\ \A i \in 0 .. OBDMessagesToSendCount - 1 :
       OBDResponseParser[OBDResponseCallbackIndex[i]] = OBDMessagesToSend[i]
  /\ waitingForOBDResponse /\ ~sending => lastSent = OBDMessagesToSend[0]

(* Speed and tach are asked for in turn, however the refills, the sends    *)
(* and the answers interleave: no request follows itself on the line.      *)
RequestsAlternate == [][sending /\ ~sending' => lastSent' # lastSent]_vars

(* On a line that loses nothing every request that is written completes.   *)
RequestCompletes == waitingForOBDResponse ~> ~waitingForOBDResponse

(* On such a line both values are asked for again and again.               *)
BothPolled == \A r \in Requests : []<>(lastSent = r)
=============================================================================
