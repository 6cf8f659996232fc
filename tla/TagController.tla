--------------------------- MODULE TagController ----------------------------
(***************************************************************************)
(* The light of the tag (OldStuff/tag_controller_v1): the loop plays the   *)
(* show of the present mode, and a key fob, whose receiver interrupts it,  *)
(* chooses another with the presses 1, 4 and a code.  The press 15 cuts a  *)
(* show short.                                                             *)
(*                                                                         *)
(* The interrupt may fall between any two steps of the loop.  Time passes  *)
(* where the loop waits, in units of half a second; a fade of one          *)
(* millisecond counts as one unit too, so that a short show also gets      *)
(* older than the time limit.  millis() and delay() stand still in the     *)
(* interrupt, which waits for the key to be let go: any number of presses  *)
(* may fall into a unit, and between two steps of the loop.                *)
(***************************************************************************)
EXTENDS Integers, Sequences

CONSTANTS
  Presses,     (* what the four lines of the receiver can read, as a number  *)
  NPresses,    (* length of buttonPress: 10 in the code                      *)
  TimeLimit,   (* age of a begun code at which it is dropped: 2000 ms        *)
  CodeWait,    (* wait for the third press: 1000 ms                          *)
  ShortFade,   (* 1 ms                                                       *)
  ShowFade,    (* b: 1000 ms                                                 *)
  ShowPause,   (* a: 3000 ms                                                 *)
  SlowFade,    (* 1500 ms                                                    *)
  ShowFades    (* fades of mode 6: 8 in the code                             *)

(* What the constants have to be; MCTierTimers assumes it of its values. *)
TagAssumption ==
  /\ Presses \subseteq 0 .. 15
  /\ NPresses \in Nat /\ NPresses > 3
  /\ {TimeLimit, CodeWait, ShortFade, ShowFade, ShowPause, SlowFade} \subseteq Nat
  /\ ShowFades \in Nat \ {0}

VARIABLES
  stage,        (* where the loop is                                         *)
  left,         (* what is left of the present wait                          *)
  fade,         (* number of the present fade of the show                    *)
  mode,
  a,            (* the pause of mode 6                                       *)
  pressCount,
  buttonPress,  (* its first three entries: the others are never read        *)
  age,          (* millis() - buttonTimer, counted to just past the limit    *)
  transBrake,
  overrun,      (* a press was written past the end of buttonPress           *)
  typed,        (* history: the presses since pressCount was zero, up to 3   *)
  braked,       (* history: how far the loop was when 15 came in this pass   *)
  after         (* history: units of time since then                         *)

tagVars == <<stage, left, fade, mode, a, pressCount, buttonPress, age,
             transBrake, overrun, typed, braked, after>>

-----------------------------------------------------------------------------
Modes  == 0 .. 7
Stages == {"top", "timer", "limit", "reset", "brake", "look", "wait",
           "decode", "drop", "show", "fade", "pause"}
Waits  == {"wait", "fade", "pause"}
InShow == {"look", "wait", "decode", "drop", "show", "fade", "pause"}

(* The codes that choose a mode; another third press chooses none.         *)
Chooses == [c \in {1, 2, 3, 4, 5, 8, 10, 12} |->
              CASE c = 1 -> 0 [] c = 2 -> 1 [] c = 3 -> 4 [] c = 4  -> 2
                [] c = 5 -> 5 [] c = 8 -> 3 [] c = 10 -> 6 [] c = 12 -> 7]

ModeAfter(code) == IF code \in DOMAIN Chooses THEN Chooses[code] ELSE mode

Fades == CASE mode = 6 -> ShowFades [] mode \in {5, 7} -> 2 [] OTHER -> 1

FadeTime == CASE mode = 6 -> ShowFade [] mode = 7 -> SlowFade [] OTHER -> ShortFade

(* The pause after a fade: delay(a) in mode 6, at most 250 ms in others.   *)
PauseTime == IF mode = 6 THEN a ELSE IF mode = 5 THEN 1 ELSE 0

Init ==
  /\ stage = "top" /\ left = 0 /\ fade = 1 /\ mode = 3 /\ a = 0
  /\ pressCount = 0 /\ buttonPress = [i \in 0 .. 2 |-> 0] /\ age = 0
  /\ transBrake = FALSE /\ overrun = FALSE
  /\ typed = <<>> /\ braked = "not" /\ after = 0

history  == <<typed, braked, after>>
loopOnly == <<overrun, history>>

-----------------------------------------------------------------------------
(* The interrupt of the key fob: the next press is read when the key of    *)
(* the last is let go.  Nothing asks whether buttonPress has room for it.  *)
(* A press 15 at "top", after the last wait of a pass, does nothing that   *)
(* line 40 and line 51 do not undo.                                        *)
KeyFobInterrupt(press) ==
  /\ ~overrun
  /\ overrun' = (pressCount >= NPresses)
  /\ buttonPress' = IF pressCount \in 0 .. 2
                    THEN [buttonPress EXCEPT ![pressCount] = press] ELSE buttonPress
  /\ pressCount' = IF press # 0 /\ ~overrun' THEN pressCount + 1 ELSE pressCount
  /\ typed' = IF press # 0 /\ Len(typed) < 3 THEN Append(typed, press) ELSE typed
  /\ IF press = 15
     THEN /\ transBrake' = TRUE /\ a' = 0
          /\ braked' = IF stage \in InShow THEN "show"
                       ELSE IF stage # "top" THEN "begin" ELSE braked
          /\ after' = IF braked' = braked THEN after ELSE 0
     ELSE UNCHANGED <<transBrake, a, braked, after>>
  /\ UNCHANGED <<stage, left, fade, mode, age>>

-----------------------------------------------------------------------------
(* The loop.  The definitions with a suffix are faulty variants of the     *)
(* step they precede.                                                      *)

Go(s) == stage' = s

Forget == pressCount' = 0 /\ typed' = <<>>

Top ==
  /\ ~overrun /\ stage = "top"
  /\ a' = ShowPause
  /\ braked' = "not" /\ after' = 0
  /\ Go("timer")
  /\ UNCHANGED <<left, fade, mode, pressCount, buttonPress, age, transBrake,
                 overrun, typed>>

Timer ==
  /\ ~overrun /\ stage = "timer"
  /\ age' = IF pressCount = 0 THEN 0 ELSE age
  /\ Go("limit")
  /\ UNCHANGED <<left, fade, mode, a, pressCount, buttonPress, transBrake, loopOnly>>

CheckAge ==
  /\ ~overrun /\ stage = "limit"
  /\ Go(IF age > TimeLimit /\ pressCount # 3 /\ ~transBrake THEN "reset" ELSE "brake")
  /\ UNCHANGED <<left, fade, mode, a, pressCount, buttonPress, age, transBrake, loopOnly>>

(* A press that came since the test goes with the others.                  *)
Reset ==
  /\ ~overrun /\ stage = "reset"
  /\ Forget
  /\ Go("brake")
  /\ UNCHANGED <<left, fade, mode, a, buttonPress, age, transBrake, overrun,
                 braked, after>>

(* Gives the pause its length when the brake is released, not before.      *)
ReleaseBrake_PauseToo ==
  /\ ~overrun /\ stage = "brake"
  /\ transBrake' = FALSE
  /\ a' = ShowPause
  /\ Go("look")
  /\ UNCHANGED <<left, fade, mode, pressCount, buttonPress, age, loopOnly>>

ReleaseBrake ==
  /\ ~overrun /\ stage = "brake"
  /\ transBrake' = FALSE
  /\ Go("look")
  /\ UNCHANGED <<left, fade, mode, a, pressCount, buttonPress, age, loopOnly>>

Look ==
  /\ ~overrun /\ stage = "look"
  /\ IF pressCount >= 2
     THEN IF buttonPress[0] = 1 /\ buttonPress[1] = 4
          THEN Go("wait") /\ left' = CodeWait
          ELSE Go("drop") /\ UNCHANGED left
     ELSE Go("show") /\ UNCHANGED left
  /\ fade' = 1
  /\ UNCHANGED <<mode, a, pressCount, buttonPress, age, transBrake, loopOnly>>

(* Looks at the third press without asking whether there is one.           *)
Decode_TwoEnough ==
  /\ ~overrun /\ stage = "decode"
  /\ mode' = ModeAfter(buttonPress[2])
  /\ Go("drop")
  /\ UNCHANGED <<left, fade, a, pressCount, buttonPress, age, transBrake, loopOnly>>

Decode ==
  /\ ~overrun /\ stage = "decode"
  /\ mode' = IF pressCount >= 3 THEN ModeAfter(buttonPress[2]) ELSE mode
  /\ Go("drop")
  /\ UNCHANGED <<left, fade, a, pressCount, buttonPress, age, transBrake, loopOnly>>

Drop ==
  /\ ~overrun /\ stage = "drop"
  /\ Forget
  /\ Go("show")
  /\ UNCHANGED <<left, fade, mode, a, buttonPress, age, transBrake, overrun,
                 braked, after>>

StartFade ==
  /\ ~overrun /\ stage = "show"
  /\ left' = FadeTime
  /\ Go("fade")
  /\ UNCHANGED <<fade, mode, a, pressCount, buttonPress, age, transBrake, loopOnly>>

(* fadeColors comes back when its time is over, or at once when braked.    *)
FadeReturns == left = 0 \/ transBrake

EndFade ==
  /\ ~overrun /\ stage = "fade" /\ FadeReturns
  /\ left' = PauseTime
  /\ Go("pause")
  /\ UNCHANGED <<fade, mode, a, pressCount, buttonPress, age, transBrake, loopOnly>>

EndPause ==
  /\ ~overrun /\ stage = "pause" /\ left = 0
  /\ fade' = IF fade < Fades THEN fade + 1 ELSE 1
  /\ Go(IF fade < Fades THEN "show" ELSE "top")
  /\ UNCHANGED <<left, mode, a, pressCount, buttonPress, age, transBrake, loopOnly>>

EndWait ==
  /\ ~overrun /\ stage = "wait" /\ left = 0
  /\ Go("decode")
  /\ UNCHANGED <<left, fade, mode, a, pressCount, buttonPress, age, transBrake, loopOnly>>

(* Time passes where the loop waits.                                       *)
Tick ==
  /\ ~overrun /\ stage \in Waits /\ left > 0 /\ (stage = "fade" => ~FadeReturns)
  /\ left' = left - 1
  /\ age' = IF age > TimeLimit THEN age ELSE age + 1
  /\ after' = IF braked = "not" THEN 0 ELSE after + 1
  /\ UNCHANGED <<stage, fade, mode, a, pressCount, buttonPress, transBrake,
                 overrun, typed, braked>>

(* What the program does once it has written past the end of an array is   *)
(* not said by its text: the model ends there.                             *)
Undefined == overrun /\ UNCHANGED tagVars

Loop ==
  \/ Top \/ Timer \/ CheckAge \/ Reset \/ ReleaseBrake \/ Look \/ EndWait
  \/ Decode \/ Drop \/ StartFade \/ EndFade \/ EndPause

Next == Loop \/ Tick \/ Undefined \/ \E press \in Presses : KeyFobInterrupt(press)

Spec == Init /\ [][Next]_tagVars

(* The processor goes on and time passes; nobody has to press a key.       *)
FairSpec == Spec /\ WF_tagVars(Loop) /\ WF_tagVars(Tick)

-----------------------------------------------------------------------------
TypeOK ==
  /\ stage \in Stages /\ left \in Nat /\ mode \in Modes /\ fade \in 1 .. Fades
  /\ a \in {0, ShowPause}
  /\ pressCount \in 0 .. NPresses
  /\ buttonPress \in [0 .. 2 -> Presses \cup {0}]
  /\ age \in 0 .. TimeLimit + 1
  /\ {transBrake, overrun} \subseteq BOOLEAN
  /\ typed \in Seq(Presses \ {0}) /\ Len(typed) <= 3
  /\ braked \in {"not", "begin", "show"} /\ after \in Nat

(* The mode changes to what the code chooses that was typed since the      *)
(* presses were last forgotten, never for what an older code left in       *)
(* buttonPress: whatever the interrupt writes between the steps of the     *)
(* loop, and however long the array is read after it was counted.          *)
ModeFromTypedCode ==
  [][mode' # mode => /\ Len(typed) = 3 /\ typed[1] = 1 /\ typed[2] = 4
                     /\ typed[3] \in DOMAIN Chooses
                     /\ mode' = Chooses[typed[3]]]_tagVars

(* The press 15 cuts a show short.  One that comes in the show, from line  *)
(* 53 on, leaves only the wait that was running.  One that comes between   *)
(* line 40 and line 51 is forgotten by transBrake, which the loop releases *)
(* without having seen it; that pass still plays without the pauses, which *)
(* a = 0 takes out.  One that comes after the last wait of a pass and      *)
(* before line 40 cuts nothing and is not spoken of.                       *)
BrakeCutsShow ==
  /\ braked = "show"  => after <= CodeWait + 2 \/ after <= ShowPause
  /\ braked = "begin" => after <= CodeWait + Fades * FadeTime + 2

(* The brake cuts a show short, wherever from line 40 to the last wait of  *)
(* a pass the press comes and whatever else is pressed: up to the press    *)
(* for which buttonPress has no room.                                      *)
TagShowsEnd == TypeOK /\ BrakeCutsShow

(* A begun code never stays: it is decoded, dropped or given up, however   *)
(* many presses follow.                                                    *)
TypingEnds == pressCount # 0 ~> pressCount = 0 \/ overrun

=============================================================================
