-------------------------- MODULE GrillController ---------------------------
(***************************************************************************)
(* The turn signals in the grill (OldStuff/grill_controller_v3): a pass of *)
(* loop() samples the two inputs, decides what the light shows, and how    *)
(* far its scroll has come, and puts it out.                               *)
(*                                                                         *)
(* Times are kept as differences to the present time.  They are unsigned   *)
(* long, of ULong values; the difference to startTimeTwo is also cut to an *)
(* int of Int values, half of them negative.                               *)
(***************************************************************************)
EXTENDS Integers

CONSTANTS
  PassTimes,     (* milliseconds a pass may take                             *)
  ULong, IntRange, (* 2^32 and 2^16 in the code                              *)
  BlinkTimeOut,  (* 1500 in the code                                         *)
  DelayStep      (* de_lay, milliseconds to a cell: 100 in the code          *)

(* What the constants have to be; MCTierTimers assumes it of its values. *)
GrillAssumption ==
  /\ PassTimes \subseteq Nat \ {0}
  /\ {ULong, IntRange, BlinkTimeOut, DelayStep} \subseteq Nat \ {0}
  /\ 2 * BlinkTimeOut < IntRange /\ ULong % IntRange = 0 /\ DelayStep < ULong
  /\ \A d \in PassTimes : d <= DelayStep

VARIABLES
  blinkerState,     (* the signal of this pass: hazard, left, right, none    *)
  blinkerMode,      (* the signal shown                                      *)
  sinceTwo,         (* startTimeOne - startTimeTwo                           *)
  sinceStart,       (* startTimeOne - startTime                              *)
  tempOne,          (* the cell the scroll has come to                       *)
  doinIt, doinItFirstTime,
  rightTurn, leftTurn   (* the cell is lit on that side                      *)

grillVars == <<blinkerState, blinkerMode, sinceTwo, sinceStart, tempOne, doinIt,
               doinItFirstTime, rightTurn, leftTurn>>

-----------------------------------------------------------------------------
Hazard == 1  Left == 2  Right == 3  Off == 4
Signals == {Hazard, Left, Right, Off}

(* An unsigned long difference as the int temp.                            *)
AsInt(n) == ((n + IntRange \div 2) % IntRange) - IntRange \div 2

Init ==
  /\ blinkerState = 0 /\ blinkerMode = Hazard
  /\ sinceTwo = 0 /\ sinceStart = 0 /\ tempOne = 8
  /\ doinIt = TRUE /\ doinItFirstTime = TRUE
  /\ rightTurn = FALSE /\ leftTurn = FALSE

(* The definitions with a suffix are faulty variants of the step they      *)
(* precede.                                                                *)

(* The timer starts anew whenever it is over, also in the pass that should *)
(* have seen it over.                                                      *)
RestartTimeOut(signal, since) ==
  IF signal # blinkerMode /\ signal = Off /\ since > BlinkTimeOut THEN 0 ELSE since

(* Starts the scroll anew at every change of the signal.                   *)
RestartsScroll_EachTime(signal) == signal # blinkerMode

RestartsScroll(signal) == signal # blinkerMode /\ doinItFirstTime

GoesOff(signal, since) ==
  /\ doinIt \/ signal # blinkerMode
  /\ AsInt(since) >= BlinkTimeOut
  /\ signal = Off

NextFirstTime(off, changed) == off \/ (~changed /\ doinItFirstTime)

CellAt(since) == (since % (8 * DelayStep)) \div DelayStep

Pass(signal, d) ==
  LET changed == signal # blinkerMode
      two     == RestartTimeOut(signal, (sinceTwo + d) % ULong)
      off     == GoesOff(signal, two)
      start   == IF RestartsScroll(signal) THEN 0 ELSE (sinceStart + d) % ULong
  IN /\ blinkerState' = signal
     /\ sinceTwo' = two
     /\ sinceStart' = start
     /\ blinkerMode' = IF signal # Off \/ off THEN signal ELSE blinkerMode
     /\ doinIt' = (~off /\ (changed \/ doinIt))
     /\ doinItFirstTime' = NextFirstTime(off, changed)
     /\ tempOne' = CellAt(start)
     /\ rightTurn' = (blinkerMode' \in {Hazard, Right})
     /\ leftTurn' = (blinkerMode' \in {Hazard, Left})

Next == \E signal \in Signals, d \in PassTimes : Pass(signal, d)

Spec == Init /\ [][Next]_grillVars

-----------------------------------------------------------------------------
TypeOK ==
  /\ blinkerState \in Signals \cup {0} /\ blinkerMode \in Signals
  /\ sinceTwo \in 0 .. ULong - 1 /\ sinceStart \in 0 .. ULong - 1
  /\ tempOne \in 0 .. 7 \/ blinkerState = 0
  /\ {doinIt, doinItFirstTime, rightTurn, leftTurn} \subseteq BOOLEAN

(* The light goes off only in the pass that falls on the one millisecond   *)
(* at which the timer equals the time limit: one millisecond later the     *)
(* timer starts anew.  The cut to an int never makes it go off at another  *)
(* time, however long a signal has been on.                                *)
OffInOneMillisecond ==
  [][blinkerMode # Off /\ blinkerMode' = Off => sinceTwo' = BlinkTimeOut]_grillVars

(* A signal after darkness starts at the first cell.                       *)
ScrollStartsAtFirstCell ==
  [][blinkerMode = Off /\ blinkerMode' # Off => tempOne' = 0]_grillVars

(* While the light is on the scroll goes on from cell to cell, also when   *)
(* the signal changes from one side to the other or is dark for a moment;  *)
(* it jumps only when the clock wraps around.                              *)
ScrollIsSteady ==
  [][\/ blinkerMode = Off \/ blinkerState = 0
     \/ tempOne' \in {tempOne, (tempOne + 1) % 8}
     \/ sinceStart' < sinceStart /\ sinceStart > ULong - 1 - DelayStep
     \/ doinItFirstTime]_grillVars

(* All of that.                                                            *)
GrillScrolls ==
  /\ []TypeOK /\ OffInOneMillisecond /\ ScrollStartsAtFirstCell /\ ScrollIsSteady

=============================================================================
