----------------------------- MODULE ObdAnswers -----------------------------
(***************************************************************************)
(* How old the byte may be that the poller of ObdQueue takes for the       *)
(* answer to its request.  Nothing compares an answer with the request:    *)
(* any byte that comes after the buffer was thrown away will do, and the   *)
(* bytes of earlier answers may still be on the line.                      *)
(*                                                                         *)
(* The module adds a history to ObdQueue: one byte of an answer, any one,  *)
(* is marked when it is printed, and followed to the buffer of the Due,    *)
(* with the number of requests that were written since.                    *)
(***************************************************************************)
EXTENDS ObdQueue

VARIABLES
  mark,       (* the place of the marked byte on the wire, 0 when not there  *)
  inBuffer,   (* the marked byte is in the receive buffer of the Due         *)
  age         (* how many requests were written since it was printed         *)

ageVars  == <<mark, inBuffer, age>>
agedVars == <<vars, ageVars>>

Marked == mark # 0 \/ inBuffer

(* A byte that is neither on the wire nor in the buffer has no age.        *)
AgeKept == age' = IF mark' # 0 \/ inBuffer' THEN age ELSE 0

-----------------------------------------------------------------------------
(* A byte of an answer to setup() may be the marked one, too.              *)
AgedInit == Init /\ mark \in 0 .. wire /\ inBuffer = FALSE /\ age = 0

AgedSend ==
  /\ SendMessage
  /\ mark' = mark /\ inBuffer' = (inBuffer /\ available' > 0) /\ AgeKept

AgedPrintln ==
  /\ Println
  /\ UNCHANGED <<mark, inBuffer>> /\ age' = IF Marked THEN age + 1 ELSE 0

AgedLoop == (MessageRecieved \/ AddMessagesToSend) /\ UNCHANGED ageVars

AgedArrival ==
  /\ ByteArrives
  /\ mark' = IF mark = 0 THEN 0 ELSE mark - 1
  /\ inBuffer' = (inBuffer \/ (mark = 1 /\ available' > available))
  /\ AgeKept

AgedAnswers ==
  /\ FakeAnswers
  /\ IF Marked THEN mark' = mark ELSE mark' \in {0} \cup wire + 1 .. wire'
  /\ UNCHANGED <<inBuffer, age>>

AgedLoss ==
  /\ Lose
  /\ IF wire' = wire THEN mark' = mark
     ELSE \E lost \in 1 .. wire :
            mark' = IF lost < mark THEN mark - 1
                    ELSE IF lost = mark THEN 0 ELSE mark
  /\ inBuffer' = inBuffer /\ AgeKept

AgedNext ==
  AgedSend \/ AgedPrintln \/ AgedLoop \/ AgedArrival \/ AgedAnswers \/ AgedLoss

AgedSpec == AgedInit /\ [][AgedNext]_agedVars

-----------------------------------------------------------------------------
(* A request is never completed by a byte that was printed more than       *)
(* TxCap + 1 requests ago, although none is compared with its request and  *)
(* a late byte may even come between the throwing away and the println:    *)
(* every request takes a byte off the line, so that the answers cannot     *)
(* fall further and further behind.                                        *)
AnswersAreRecent ==
  waitingForOBDResponse /\ ~sending /\ inBuffer => age <= TxCap + 1

=============================================================================
