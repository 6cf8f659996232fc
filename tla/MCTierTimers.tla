---------------------------- MODULE MCTierTimers ----------------------------
(***************************************************************************)
(* What the boards do by the clock, for TLC: the tiers of the Due and the  *)
(* Teensy, the light of the tag and that of the grill.  part says which of *)
(* the three a behaviour is; nothing of the others moves.                  *)
(*                                                                         *)
(* Tiers: a clock of 64 ticks and differences of 16, so that both wrap     *)
(* often; passes that fit in 16 and passes that overflow it once or twice. *)
(* One whose difference is 0 in 16 bits is left out: of such passes a tier *)
(* never comes to its limit, and the history is unbounded.                 *)
(* Tag: the receiver reads the key (1, 4), the codes 5, 10 and 12 of the   *)
(* modes with more than one fade, or the brake; 1 and 4 choose short       *)
(* shows.  A unit of time stands for half a second.  buttonPress has four  *)
(* entries: a whole code, and one more press than a code has.              *)
(* Grill: a pass takes one to three milliseconds, so it can miss one; the  *)
(* clock wraps round within a scroll, and the int within the clock.        *)
(***************************************************************************)
EXTENDS BoardClocks

VARIABLE part

OneLimit == [one |-> 20]

ASSUME TimerAssumption /\ Tag!TagAssumption /\ Grill!GrillAssumption

tagVars   == <<stage, left, fade, mode, tagA, pressCount, buttonPress, age,
               transBrake, overrun, typed, braked, after>>
grillVars == <<blinkerState, blinkerMode, sinceTwo, sinceStart, tempOne,
               doinIt, doinItFirstTime, rightTurn, leftTurn>>
partVars  == <<part, timerVars, tagVars, grillVars>>

MCInit ==
  /\ part \in {"tiers", "tag", "grill"}
  /\ Init /\ Tag!Init /\ Grill!Init

MCNext ==
  /\ UNCHANGED part
  /\ \/ part = "tiers" /\ Next       /\ UNCHANGED <<tagVars, grillVars>>
     \/ part = "tag"   /\ Tag!Next   /\ UNCHANGED <<timerVars, grillVars>>
     \/ part = "grill" /\ Grill!Next /\ UNCHANGED <<timerVars, tagVars>>

(* The fairness of TagController for its part.                             *)
MCSpec ==
  /\ MCInit /\ [][MCNext]_partVars
  /\ WF_tagVars(part = "tag" /\ Tag!Loop)
  /\ WF_tagVars(part = "tag" /\ Tag!Tick)

-----------------------------------------------------------------------------
(* The tag: a mode is chosen by the code typed for it and no other, and a  *)
(* begun code never stays.                                                 *)
TagObeysCodes ==
  /\ ModeFromTypedCode
  /\ [](part = "tag") => Tag!TypingEnds

=============================================================================
