---------------------------- MODULE BoardClocks -----------------------------
(***************************************************************************)
(* What the boards do by the clock: the tiers of the Due and the Teensy,   *)
(* the light of the grill and the light of the tag.  The three have        *)
(* nothing in common but that; they stand side by side to be checked in    *)
(* one run (MCTierTimers) and proved in one module (TierTimersProofs).     *)
(***************************************************************************)
EXTENDS TierTimers

CONSTANTS
  PassTimes, ULong, IntRange, BlinkTimeOut, DelayStep,   (* GrillController *)
  Presses, NPresses, TimeLimit, CodeWait, ShortFade, ShowFade, ShowPause,
  SlowFade, ShowFades                                    (* TagController   *)

VARIABLES
  blinkerState, blinkerMode, sinceTwo, sinceStart, tempOne, doinIt,
  doinItFirstTime, rightTurn, leftTurn,                  (* GrillController *)
  stage, left, fade, mode, tagA, pressCount, buttonPress, age, transBrake,
  overrun, typed, braked, after                          (* TagController   *)

Grill == INSTANCE GrillController
Tag   == INSTANCE TagController WITH a <- tagA

-----------------------------------------------------------------------------
(* The grill: the light goes off in one millisecond only, a signal after   *)
(* darkness starts at the first cell, and the scroll does not jump.        *)
GrillScrolls == Grill!GrillScrolls

(* The tag: the brake cuts a show short, wherever from line 40 to the last *)
(* wait of a pass the press comes.                                         *)
TagShowsEnd == Tag!TagShowsEnd

(* The tag: a mode is chosen by the code typed for it and no other.        *)
ModeFromTypedCode == Tag!ModeFromTypedCode

=============================================================================
