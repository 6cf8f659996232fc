----------------------------- MODULE BoardLines -----------------------------
(***************************************************************************)
(* The lines between the boards: the Teensy and what it is sent, frames by *)
(* the Due and messages by the ProMicro, and the custom CAN bus, with the  *)
(* pattern the Due puts there and the listeners.  Each line is a system of *)
(* its own; they stand side by side to be checked with one module          *)
(* (MCBoardLines) and proved in one (TeensyFramesProofs).                  *)
(***************************************************************************)
EXTENDS TeensyFrames

CONSTANTS
  Length, TxCap, MicroRxCap,                             (* ProMicroLink    *)
  ByteSettings, SwitchSettings, Numbers, ByteRange, FirstId, LastId,
  MaxThrees,                                             (* PatternRelay    *)
  Rate, MasterIds, DataOf, BlinkStates, TimingFrames     (* CanBus          *)

VARIABLES
  trigger, ack, mStep, mFor, tStep, tFor, line, buffer, forwarded, underAck,
                                                         (* ProMicroLink    *)
  settings, pattern, newPattern, rxBuf0, rxID, tier, threes, handed,
  busPattern,                                            (* PatternRelay    *)
  buf0, buf1, timingFrameNum, rxBuf, rxId, lightState, turnTiming, pots
                                                         (* CanBus          *)

Micro == INSTANCE ProMicroLink WITH RxCap <- MicroRxCap
Relay == INSTANCE PatternRelay WITH stage <- tier
Bus   == INSTANCE CanBus

-----------------------------------------------------------------------------
(* ProMicroLink: while the acknowledge pin is high the ProMicro prints at  *)
(* most one message.                                                       *)
AckHoldsProMicro == Micro!AckHoldsProMicro

(* ProMicroLink: the boards only ever stop for good in a circular wait.    *)
StopsOnlyInCircularWait == Micro!StopsOnlyInCircularWait

(* PatternRelay: a frame with the identifier of the frame before it has    *)
(* the same pattern.                                                       *)
SameIdSamePattern == Relay!SameIdSamePattern

(* CanBus: the lights show two bytes of one frame that was meant for them, *)
(* and the potentiometers stand as one volume frame set them, although     *)
(* both have buffers that other frames come into and fill.                 *)
ListenersShowOneFrame == Bus!ListenersShowOneFrame

=============================================================================
