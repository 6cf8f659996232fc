---------------------------- MODULE MCBoardLines ----------------------------
(***************************************************************************)
(* The lines between the boards, for TLC.  part says which of them a       *)
(* behaviour is about; nothing of the others moves.  Parts are the ones a  *)
(* run looks at.                                                           *)
(*                                                                         *)
(* Frames: frames of four bytes, two of which may be a NUL, a '>' or an    *)
(* ordinary byte.  The ordinary byte is the id as well, so that the rest   *)
(* of a frame that was cut may look like a beginning.                      *)
(* ProMicro: the message for the Due has two bytes instead of four: enough *)
(* for a message to be split between the line and the buffer.              *)
(* Relay: a byte has two values, so that the numbers 2 and 3 do not fit;   *)
(* there are four identifiers, one more than the tier threes between two   *)
(* tier fours.                                                             *)
(* CAN bus: one identifier of each kind, lights (2), volume (15), and a    *)
(* colour of the first (16) and of the second buffer (32), each with bytes *)
(* of its own; every station has the same bit rate, as stations on one bus *)
(* need it.  The lights and the volume controller are looked at each by    *)
(* itself, with the identifiers that its filters tell apart.               *)
(***************************************************************************)
EXTENDS BoardLines, TLC

CONSTANTS Parts, fanSpeed, fogLights

VARIABLE part

MCValues    == {Nul, End, TeensyMessageID_BlinkerState}
ShortLength == "BT" :> 1 @@ "Due" :> 2
OneRate     == [s \in {"teensy", "master", "halo", "volume"} |-> 500]
Steady(v)   == [i \in 1 .. 4 |-> v]
Payloads    == 2 :> {Steady(20), Steady(21)} @@ 15 :> {Steady(50), Steady(51)}
               @@ 16 :> {Steady(60)} @@ 32 :> {Steady(70)}
PayloadsOf(ids) == [id \in ids |-> Payloads[id]]

Lights == INSTANCE CanBus WITH
  MasterIds <- {2, 16, 32}, DataOf <- PayloadsOf({2, 16, 32})
Volume == INSTANCE CanBus WITH
  MasterIds <- {15, 16}, DataOf <- PayloadsOf({15, 16}),
  BlinkStates <- {0}, TimingFrames <- 2

ASSUME Micro!LinkAssumption /\ Relay!RelayAssumption /\ Bus!BusAssumption

-----------------------------------------------------------------------------
frameVars == <<sent, rx, lastByte, gap, stage, incoming, inChar,
               blinkerState, switchState>>
microVars == <<trigger, ack, mStep, mFor, tStep, tFor, line, buffer,
               forwarded, underAck>>
relayVars == <<settings, pattern, newPattern, rxBuf0, rxID, tier, threes,
               handed, busPattern>>
canVars   == <<buf0, buf1, timingFrameNum, rxBuf, rxId, lightState,
               turnTiming, pots>>
lineVars  == <<part, frameVars, microVars, relayVars, canVars>>

MCInit ==
  /\ part \in Parts
  /\ Init /\ Micro!Init /\ Relay!Init /\ Bus!Init

MCNext ==
  /\ UNCHANGED part
  /\ \/ /\ part = "frames" /\ Next
        /\ UNCHANGED <<microVars, relayVars, canVars>>
     \/ /\ part = "promicro" /\ Micro!Next
        /\ UNCHANGED <<frameVars, relayVars, canVars>>
     \/ /\ part = "relay" /\ Relay!Next
        /\ UNCHANGED <<frameVars, microVars, canVars>>
     \/ /\ part = "lights" /\ Lights!Next
        /\ UNCHANGED <<frameVars, microVars, relayVars>>
     \/ /\ part = "volume" /\ Volume!Next
        /\ UNCHANGED <<frameVars, microVars, relayVars>>

MCSpec == MCInit /\ [][MCNext]_lineVars

(* Each line with the fairness its module states.                          *)
FramesSpec == MCSpec /\ Fairness
MicroSpec ==
  /\ MCSpec
  /\ WF_microVars(Micro!ProMicroStep)
  /\ WF_microVars(Micro!TeensyStep)
  /\ WF_microVars(Micro!Arrive)
RelaySpec ==
  /\ MCSpec
  /\ WF_relayVars(part = "relay" /\ Relay!TierThree)
  /\ SF_relayVars(part = "relay" /\ Relay!TierFour /\ busPattern' = rxBuf0)

-----------------------------------------------------------------------------
(* ProMicroLink: the Teensy gets out of forwarding.  The first conjunct    *)
(* checks what StopsOnlyInCircularWait takes for a board that is stopped.  *)
ForwardingEnds == []Micro!StoppedIsHeld /\ Micro!ForwardingEnds

(* ProMicroLink: what ProMicro.ino says of its two calls.                  *)
SentWhereMeant == Micro!SentWhereMeant

(* PatternRelay: the pattern the Pi settles on is the one the bus settles  *)
(* on.                                                                     *)
RelaySettles == [](part = "relay") => Relay!PatternSettles

=============================================================================
