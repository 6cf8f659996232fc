------------------------------- MODULE OldObd -------------------------------
(***************************************************************************)
(* How the first hub (ECU_Interface_Arduino_Due) asks the STN1110: a       *)
(* reading is a call that sends its request and waits, with its timeouts   *)
(* commented out, until the prompt of an answer has come.  Nothing in an   *)
(* answer is compared with the request.                                    *)
(***************************************************************************)
EXTENDS Integers, Sequences, SequencesExt

CONSTANTS
  CarValues,  (* what the car answers                                        *)
  MaxLeft,    (* the most answers setup() leaves: one for each of its eight  *)
              (* commands                                                    *)
  MaxCalls    (* bounds the number of calls                                  *)

(* What the constants have to be; MCObdQueue assumes it of its values.     *)
OldObdAssumption ==
  CarValues \subseteq 0 .. 255 /\ MaxLeft \in Nat /\ MaxCalls \in Nat

VARIABLES
  left,       (* history: how many answers to setup() are still to come      *)
  calls,      (* history: how many readings were asked for                   *)
  kind,       (* what is asked for                                           *)
  pc,         (* "idle", or "reading" inside OBDCANmessage                   *)
  asked,      (* requests the STN1110 has not answered                       *)
  oldWire,    (* the pieces of answers on their way                          *)
  rx,         (* ... and those in the receive buffer of Serial2              *)
  incoming,   (* what the call has read                                      *)
  answers,    (* history: the value each answer carries                      *)
  result      (* what the call returned                                      *)

oldVars == <<left, calls, kind, pc, asked, oldWire, rx, incoming, answers,
             result>>

-----------------------------------------------------------------------------
(* An answer is a head (the four digits that name the request), a value    *)
(* and the prompt; that to a command of setup() is a text and the prompt.  *)
(* Each piece has the number of the call it answers; the commands of       *)
(* setup() are numbered up to 0.                                           *)
Piece(n, w) == [of |-> n, what |-> w]
Answer(n)   == <<Piece(n, "head"), Piece(n, "value"), Piece(n, "prompt")>>

Texts(n) ==
  [i \in 1 .. 2 * n |->
     Piece(((i + 1) \div 2) - n, IF i % 2 = 1 THEN "text" ELSE "prompt")]

Kinds == {"EngineTemp", "TransTemp", "VehicleSpeed"}

(* 9/5 is a division of whole numbers.                                     *)
Reading(k, v) ==
  IF k = "VehicleSpeed" THEN (v * 621371) \div 1000000
  ELSE (v - 40) * (9 \div 5) + 32

(* sscanf skips four digits, whatever they are, and takes the next two; a  *)
(* text that does not begin so leaves the variable as it was on the stack. *)
Results ==
  IF Len(incoming) >= 2 /\ incoming[1].what = "head"
  THEN {Reading(kind, answers[incoming[1].of])}
  ELSE {Reading(kind, v) : v \in CarValues}

(* setup() sends its commands a millisecond apart and looks at none of the *)
(* answers but for their last character: it returns as soon as nothing is  *)
(* there to be read, also in the middle of an answer.                      *)
OldInit ==
  /\ left \in 0 .. MaxLeft
  /\ calls = 0 /\ kind = "VehicleSpeed" /\ pc = "idle" /\ asked = <<>>
  /\ \/ oldWire = Texts(left)
     \/ left > 0 /\ oldWire = Tail(Texts(left))
  /\ rx = <<>> /\ incoming = <<>> /\ answers = <<>> /\ result = 0

-----------------------------------------------------------------------------
(* Throws away what is in the buffer, then sends.                          *)
Call ==
  /\ pc = "idle" /\ calls < MaxCalls
  /\ kind' \in Kinds
  /\ rx' = <<>> /\ incoming' = <<>>
  /\ calls' = calls + 1 /\ asked' = Append(asked, calls')
  /\ pc' = "reading"
  /\ UNCHANGED <<left, oldWire, answers, result>>

Take ==
  /\ pc = "reading" /\ rx # <<>>
  /\ incoming' = Append(incoming, Head(rx)) /\ rx' = Tail(rx)
  /\ UNCHANGED <<left, calls, kind, pc, asked, oldWire, answers, result>>

(* The definitions with a suffix are faulty variants of the operation they *)
(* precede.                                                                *)

(* Leaves the inner loop as soon as nothing is there to be read.           *)
Over_Early == rx = <<>> /\ incoming # <<>>

(* Neither loop goes on: the last byte was a prompt and no other is there. *)
Over == rx = <<>> /\ incoming # <<>> /\ Last(incoming).what = "prompt"

Return ==
  /\ pc = "reading" /\ Over
  /\ result' \in Results
  /\ pc' = "idle"
  /\ UNCHANGED <<left, calls, kind, asked, oldWire, rx, incoming, answers>>

(* The STN1110 answers the requests in their order.                        *)
Answers ==
  /\ asked # <<>>
  /\ \E v \in CarValues : answers' = Append(answers, v)
  /\ oldWire' = oldWire \o Answer(Head(asked)) /\ asked' = Tail(asked)
  /\ UNCHANGED <<left, calls, kind, pc, rx, incoming, result>>

Arrive ==
  /\ oldWire # <<>>
  /\ rx' = Append(rx, Head(oldWire)) /\ oldWire' = Tail(oldWire)
  /\ UNCHANGED <<left, calls, kind, pc, asked, incoming, answers, result>>

OldNext == Call \/ Take \/ Return \/ Answers \/ Arrive

OldSpec == OldInit /\ [][OldNext]_oldVars

(* The call runs on, the STN1110 answers and its bytes arrive.             *)
OldFairSpec ==
  /\ OldSpec /\ WF_oldVars(Take) /\ WF_oldVars(Return)
  /\ WF_oldVars(Answers) /\ WF_oldVars(Arrive)

-----------------------------------------------------------------------------
Returned == pc = "idle" /\ calls > 0

(* When setup() has left nothing behind, a call returns the whole answer   *)
(* to its own request.                                                     *)
OwnAnswer ==
  Returned =>
    incoming = Answer(calls) /\ result = Reading(kind, answers[calls])

(* What setup() left behind puts the readings behind, by as many requests  *)
(* as it left answers and never by more: throwing away a part of an answer *)
(* does not put them further back.                                         *)
NoFurtherBehind == Returned => Last(incoming).of >= calls - left

(* A reading is made from the whole answer to its own request when        *)
(* setup() has left nothing; each answer setup() leaves puts the readings  *)
(* behind by one request at most, and they never fall further behind.      *)
ReadingsInStep == (left = 0 => OwnAnswer) /\ NoFurtherBehind

(* A call comes back although it has no timeout, when no byte is lost.     *)
ComesBack == pc = "reading" ~> pc = "idle"

=============================================================================
