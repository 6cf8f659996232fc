---------------------------- MODULE PatternRelay ----------------------------
(***************************************************************************)
(* What the Raspberry Pi tells the Due, and how the light pattern among it *)
(* gets on the custom CAN bus (Arduino_Due/functions.ino receiveEvent;     *)
(* the tier-three and tier-four tasks of loop() in Arduino_Due.ino).       *)
(*                                                                         *)
(* receiveEvent is the I2C interrupt: it may fall between any two steps of *)
(* the loop, and it writes both variables that tier three tests, sends and *)
(* clears.  An announcement can so be cleared together with the one before *)
(* it, or be taken back by a repetition of the same pattern; tier four,    *)
(* which sends whatever tier three has loaded, makes up for it.            *)
(***************************************************************************)
EXTENDS Integers

CONSTANTS
  ByteSettings,    (* the commands that store a number: 3 4 5 c d e n o p    *)
  SwitchSettings,  (* the commands that store a truth value: 6 7 8 g ... m   *)
  Numbers,         (* what toInt() makes of a text                           *)
  ByteRange,       (* 256 in the code                                        *)
  FirstId, LastId, (* 0x500 and 0x5ff in the code                            *)
  MaxThrees        (* most tier threes between two tier fours: 6 in the code *)

(* What the constants have to be; MCBoardLines assumes it of its values.    *)
RelayAssumption ==
  /\ ByteSettings \cap SwitchSettings = {}
  /\ 0 \in Numbers /\ Numbers \subseteq Nat
  /\ ByteRange \in Nat \ {0}
  /\ FirstId \in Nat \ {0} /\ LastId \in Nat
  /\ MaxThrees \in Nat \ {0}
  /\ FirstId + MaxThrees <= LastId

VARIABLES
  settings,     (* the variables the commands store their values in          *)
  pattern,
  newPattern,
  rxBuf0,       (* rxBuf[0], the only byte that is sent                      *)
  rxID,
  stage,        (* where loop() is: between two tiers, or in tier three      *)
  threes,       (* tier threes since the last tier four                      *)
  handed,       (* history: the frame handed to sendMsgBuf last              *)
  busPattern    (* the pattern of the last frame that got on the bus         *)

relayVars == <<settings, pattern, newPattern, rxBuf0, rxID, stage, threes,
               handed, busPattern>>

-----------------------------------------------------------------------------
Byte     == 0 .. ByteRange - 1
Ids      == FirstId .. LastId
NoFrame  == [id |-> 0, data |-> 0]
Frame    == [id : Ids, data : Byte]

(* A text as String sees it: its toInt(), which is zero for the word true, *)
(* and whether it is that word.                                            *)
Texts == [toInt : Numbers, isTrue : {FALSE}] \cup [toInt : {0}, isTrue : {TRUE}]

Init ==
  /\ settings = [c \in ByteSettings \cup SwitchSettings |->
                   IF c \in ByteSettings THEN 0 ELSE FALSE]
  /\ pattern = 0
  /\ newPattern = FALSE
  /\ rxBuf0 = 0
  /\ rxID = FirstId
  /\ stage = "loop"
  /\ threes = 0
  /\ handed = NoFrame
  /\ busPattern = 0

-----------------------------------------------------------------------------
(* The interrupt.  A text without the prefix UUU, and a command the switch *)
(* does not list, change nothing.                                          *)

ReceiveSetting(c, text) ==
  /\ settings' = [settings EXCEPT ![c] = IF c \in ByteSettings
                                         THEN text.toInt % ByteRange
                                         ELSE text.isTrue]
  /\ UNCHANGED <<pattern, newPattern, rxBuf0, rxID, stage, threes, handed,
                 busPattern>>

(* The number is compared before it is cut to a byte.                      *)
ReceivePattern(text) ==
  /\ newPattern' = (pattern # text.toInt)
  /\ pattern' = text.toInt % ByteRange
  /\ UNCHANGED <<settings, rxBuf0, rxID, stage, threes, handed, busPattern>>

ReceiveEvent ==
  \E text \in Texts :
    \/ \E c \in ByteSettings \cup SwitchSettings : ReceiveSetting(c, text)
    \/ ReceivePattern(text)

-----------------------------------------------------------------------------
(* The loop.  The definitions with a suffix are faulty variants of the     *)
(* step they precede.                                                      *)

(* The controller takes the frame or, all its buffers being full, does     *)
(* not: sendMsgBuf says which and nobody listens.                          *)
SendMsgBuf ==
  /\ handed' = [id |-> rxID, data |-> rxBuf0]
  /\ busPattern' \in {rxBuf0, busPattern}

NextId(id) == IF id = LastId THEN FirstId ELSE id + 1

(* Takes a new identifier for an announced pattern only.                   *)
TierThreeLoad_IdWhenNew ==
  /\ stage = "loop"
  /\ threes < MaxThrees
  /\ rxBuf0' = pattern
  /\ rxID' = IF newPattern THEN NextId(rxID) ELSE rxID
  /\ threes' = threes + 1
  /\ stage' = "test"
  /\ UNCHANGED <<settings, pattern, newPattern, handed, busPattern>>

TierThreeLoad ==
  /\ stage = "loop"
  /\ threes < MaxThrees
  /\ rxBuf0' = pattern
  /\ rxID' = NextId(rxID)
  /\ threes' = threes + 1
  /\ stage' = "test"
  /\ UNCHANGED <<settings, pattern, newPattern, handed, busPattern>>

TierThreeTest ==
  /\ stage = "test"
  /\ stage' = IF newPattern THEN "send" ELSE "loop"
  /\ UNCHANGED <<settings, pattern, newPattern, rxBuf0, rxID, threes, handed,
                 busPattern>>

TierThreeSend ==
  /\ stage = "send"
  /\ SendMsgBuf
  /\ stage' = "clear"
  /\ UNCHANGED <<settings, pattern, newPattern, rxBuf0, rxID, threes>>

TierThreeClear ==
  /\ stage = "clear"
  /\ newPattern' = FALSE
  /\ stage' = "loop"
  /\ UNCHANGED <<settings, pattern, rxBuf0, rxID, threes, handed, busPattern>>

(* Sends an announced pattern only, like tier three.                       *)
TierFour_WhenNew ==
  /\ stage = "loop"
  /\ threes > 0
  /\ IF newPattern THEN SendMsgBuf ELSE UNCHANGED <<handed, busPattern>>
  /\ threes' = 0
  /\ UNCHANGED <<settings, pattern, newPattern, rxBuf0, rxID, stage>>

(* Five times less often than tier three, and after it in the same pass.   *)
TierFour ==
  /\ stage = "loop"
  /\ threes > 0
  /\ SendMsgBuf
  /\ threes' = 0
  /\ UNCHANGED <<settings, pattern, newPattern, rxBuf0, rxID, stage>>

TierThree == TierThreeLoad \/ TierThreeTest \/ TierThreeSend \/ TierThreeClear

Next == ReceiveEvent \/ TierThree \/ TierFour

Spec == Init /\ [][Next]_relayVars

(* loop() goes on and both tiers come round; the controller does not       *)
(* refuse every frame of tier four.                                        *)
Fairness ==
  /\ WF_relayVars(TierThree)
  /\ SF_relayVars(TierFour /\ busPattern' = rxBuf0)

FairSpec == Spec /\ Fairness

-----------------------------------------------------------------------------
(* Properties.                                                             *)

(* Every variable has its type; a byte holds no more than a byte, and the  *)
(* identifiers stay in their ring.                                         *)
TypeOK ==
  /\ DOMAIN settings = ByteSettings \cup SwitchSettings
  /\ \A c \in ByteSettings : settings[c] \in Byte
  /\ \A c \in SwitchSettings : settings[c] \in BOOLEAN
  /\ pattern \in Byte
  /\ newPattern \in BOOLEAN
  /\ rxBuf0 \in Byte
  /\ rxID \in Ids
  /\ stage \in {"loop", "test", "send", "clear"}
  /\ threes \in 0 .. MaxThrees
  /\ handed \in Frame \cup {NoFrame}
  /\ busPattern \in Byte

(* Of two frames in a row with the same identifier the second repeats the  *)
(* first, whatever the interrupt does between loading, testing, sending    *)
(* and the next tier four, and although the identifiers are used again.    *)
SameIdSamePattern ==
  [][handed'.id = handed.id => handed'.data = handed.data]_relayVars

(* The pattern the Pi settles on is the one the bus settles on, although   *)
(* an announcement may be cleared or taken back before it is sent.         *)
PatternSettles ==
  \A p \in Byte : <>[](pattern = p) => <>[](busPattern = p)

=============================================================================
