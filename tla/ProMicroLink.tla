---------------------------- MODULE ProMicroLink ----------------------------
(***************************************************************************)
(* The serial link on which the ProMicro hands messages to the Teensy, to  *)
(* be passed on to the Due or to the Bluetooth module (SendMessageToTeensy *)
(* of ProMicro.ino; the two digitalRead blocks of loop() in Teensy.ino).   *)
(*                                                                         *)
(* One serial line carries the messages for both.  Which of them is meant  *)
(* is only told by the trigger pin the ProMicro raises after it has        *)
(* printed a message; the Teensy answers on one acknowledge pin.  Neither  *)
(* board is slowed down for the other: each runs its own loop().  A byte   *)
(* is represented by the module it is meant for.                           *)
(***************************************************************************)
EXTENDS Integers, Sequences

CONSTANTS
  Length,  (* bytes in the message for each module: 1 ("D") and 4 ("abcd")   *)
  TxCap,   (* bytes the ProMicro has on the line before print() blocks       *)
  RxCap    (* bytes the receive buffer of the Teensy holds                   *)

Due == "Due"
BT  == "BT"
Modules == {Due, BT}

LinkAssumption ==
  /\ Length \in [Modules -> Nat \ {0}]
  /\ TxCap \in Nat /\ \A m \in Modules : Length[m] <= TxCap
  /\ RxCap \in Nat \ {0}

VARIABLES
  trigger,     (* the trigger pins: for the Due and for the BT module        *)
  ack,         (* pin 23 of the Teensy, pin 4 of the ProMicro                *)
  mStep, mFor, (* where SendMessageToTeensy is, and its argument DueOrBT     *)
  tStep, tFor, (* where the Teensy is, and in which of its two blocks        *)
  line,        (* bytes printed and not yet received                         *)
  buffer,      (* bytes received: ProMicroSerial.available()                 *)
  forwarded,   (* history: the pairs <<module meant, module it went to>>     *)
  underAck     (* history: messages printed since ack was raised last, up to
                  two                                                        *)

proMicro == <<mStep, mFor>>
teensy   == <<tStep, tFor>>
pmVars   == <<trigger, ack, proMicro, teensy, line, buffer, forwarded,
              underAck>>

Other(m) == IF m = Due THEN BT ELSE Due
Message(m) == [i \in 1 .. Length[m] |-> m]

(* loop() of the ProMicro sends to the BT module first.                    *)
Init ==
  /\ trigger = [m \in Modules |-> FALSE]
  /\ ack = FALSE
  /\ mStep = "print" /\ mFor = BT
  /\ tStep = "test" /\ tFor = Due
  /\ line = << >>
  /\ buffer = << >>
  /\ forwarded = {}
  /\ underAck = 0

-----------------------------------------------------------------------------
(* The ProMicro: SendMessageToTeensy(message, mFor), over and over.        *)

PrintMessage ==
  /\ mStep = "print"
  /\ Len(line) + Length[mFor] <= TxCap
  /\ line' = line \o Message(mFor)
  /\ mStep' = "raise"
  /\ underAck' = IF ack /\ underAck < 2 THEN underAck + 1 ELSE underAck
  /\ UNCHANGED <<trigger, ack, mFor, teensy, buffer, forwarded>>

RaiseTrigger ==
  /\ mStep = "raise"
  /\ trigger' = [trigger EXCEPT ![mFor] = TRUE]
  /\ mStep' = "wait"
  /\ UNCHANGED <<ack, mFor, teensy, line, buffer, forwarded, underAck>>

(* Does not look at the pin.                                               *)
LeaveWait_NoTest ==
  /\ mStep = "wait"
  /\ mStep' = "lower"
  /\ UNCHANGED <<trigger, ack, mFor, teensy, line, buffer, forwarded,
                 underAck>>

(* while(digitalRead(4)){} is left when the pin is found low.              *)
LeaveWait ==
  /\ mStep = "wait"
  /\ ~ack
  /\ mStep' = "lower"
  /\ UNCHANGED <<trigger, ack, mFor, teensy, line, buffer, forwarded,
                 underAck>>

(* Lowers the pin and reads what the Teensy has sent, which is nothing.    *)
LowerTrigger ==
  /\ mStep = "lower"
  /\ trigger' = [trigger EXCEPT ![mFor] = FALSE]
  /\ mStep' = "print"
  /\ mFor' = Other(mFor)
  /\ UNCHANGED <<ack, teensy, line, buffer, forwarded, underAck>>

ProMicroStep == PrintMessage \/ RaiseTrigger \/ LeaveWait \/ LowerTrigger

-----------------------------------------------------------------------------
(* The Teensy: the block for the Due, then the block for the BT module.    *)

TestTrigger ==
  /\ tStep = "test"
  /\ IF trigger[tFor]
     THEN tStep' = "ack" /\ tFor' = tFor
     ELSE tStep' = "test" /\ tFor' = Other(tFor)
  /\ UNCHANGED <<trigger, ack, proMicro, line, buffer, forwarded,
                 underAck>>

RaiseAck ==
  /\ tStep = "ack"
  /\ ack' = TRUE
  /\ underAck' = 0
  /\ tStep' = "wait"
  /\ UNCHANGED <<trigger, proMicro, tFor, line, buffer, forwarded>>

TriggerIsLow ==
  /\ tStep = "wait"
  /\ ~trigger[tFor]
  /\ tStep' = "drain"
  /\ UNCHANGED <<trigger, ack, proMicro, tFor, line, buffer, forwarded,
                 underAck>>

ForwardByte ==
  /\ tStep = "drain"
  /\ buffer # << >>
  /\ forwarded' = forwarded \cup {<<Head(buffer), tFor>>}
  /\ buffer' = Tail(buffer)
  /\ UNCHANGED <<trigger, ack, proMicro, teensy, line, underAck>>

(* Forgets the acknowledge pin.                                            *)
LowerAck_StaysHigh ==
  /\ tStep = "drain"
  /\ buffer = << >>
  /\ IF tFor = Due THEN tStep' = "test" /\ tFor' = BT
                   ELSE tStep' = "again" /\ tFor' = tFor
  /\ UNCHANGED <<trigger, ack, proMicro, line, buffer, forwarded,
                 underAck>>

(* Nothing is available any more; the second block then waits once more.   *)
LowerAck ==
  /\ tStep = "drain"
  /\ buffer = << >>
  /\ ack' = FALSE
  /\ IF tFor = Due THEN tStep' = "test" /\ tFor' = BT
                   ELSE tStep' = "again" /\ tFor' = tFor
  /\ UNCHANGED <<trigger, proMicro, line, buffer, forwarded,
                 underAck>>

TriggerIsLowAgain ==
  /\ tStep = "again"
  /\ ~trigger[tFor]
  /\ tStep' = "test"
  /\ tFor' = Due
  /\ UNCHANGED <<trigger, ack, proMicro, line, buffer, forwarded,
                 underAck>>

TeensyStep ==
  \/ TestTrigger \/ RaiseAck \/ TriggerIsLow \/ ForwardByte \/ LowerAck
  \/ TriggerIsLowAgain

-----------------------------------------------------------------------------
(* The receive interrupt of the Teensy; a full buffer drops the byte.      *)
Arrive ==
  /\ line # << >>
  /\ line' = Tail(line)
  /\ buffer' = IF Len(buffer) < RxCap THEN Append(buffer, Head(line))
                                      ELSE buffer
  /\ UNCHANGED <<trigger, ack, proMicro, teensy, forwarded, underAck>>

Next == ProMicroStep \/ TeensyStep \/ Arrive

Spec == Init /\ [][Next]_pmVars

(* Both boards run and the line moves.                                     *)
FairSpec ==
  Spec /\ WF_pmVars(ProMicroStep) /\ WF_pmVars(TeensyStep) /\ WF_pmVars(Arrive)

-----------------------------------------------------------------------------
(* Properties.                                                             *)

(* Every variable has its type, and a trigger is high only while           *)
(* SendMessageToTeensy waits for it or is about to lower it.               *)
TypeOK ==
  /\ trigger \in [Modules -> BOOLEAN]
  /\ ack \in BOOLEAN
  /\ mStep \in {"print", "raise", "wait", "lower"} /\ mFor \in Modules
  /\ tStep \in {"test", "ack", "wait", "drain", "again"} /\ tFor \in Modules
  /\ line \in Seq(Modules) /\ Len(line) <= TxCap
  /\ buffer \in Seq(Modules) /\ Len(buffer) <= RxCap
  /\ forwarded \subseteq Modules \X Modules
  /\ underAck \in 0 .. 2
  /\ \A m \in Modules : trigger[m] <=> mFor = m /\ mStep \in {"wait", "lower"}

(* The acknowledge pin is what keeps the ProMicro from printing on: from   *)
(* when it rises to when it falls at most one message is added.            *)
AckHoldsProMicro == ack => underAck <= 1

(* A board is held up: the ProMicro by print() on a line that has no room  *)
(* for the message, or by the acknowledge pin; the Teensy by the trigger.  *)
ProMicroIsHeld ==
  \/ mStep = "print" /\ Len(line) + Length[mFor] > TxCap
  \/ mStep = "wait" /\ ack
TeensyIsHeld == tStep \in {"wait", "again"} /\ trigger[tFor]

(* A board that has no step to take is held up.                            *)
StoppedIsHeld ==
  /\ ~ENABLED ProMicroStep => ProMicroIsHeld
  /\ ~ENABLED TeensyStep => TeensyIsHeld

(* The boards only ever stop for good in a circular wait: the ProMicro for *)
(* the acknowledge pin to fall, the Teensy for the trigger to fall.        *)
CircularWait ==
  /\ mStep = "wait" /\ ack
  /\ tStep = "wait" /\ tFor = mFor
StopsOnlyInCircularWait ==
  ProMicroIsHeld /\ TeensyIsHeld /\ line = << >> => CircularWait

(* The Teensy gets out of forwarding: the ProMicro cannot keep its buffer  *)
(* filled for ever.                                                        *)
ForwardingEnds == tStep = "drain" ~> tStep # "drain"

(* What ProMicro.ino says of its two calls: "D" is sent to the BT module,  *)
(* "abcd" to the Due.                                                      *)
SentWhereMeant == \A p \in forwarded : p[1] = p[2]
=============================================================================
