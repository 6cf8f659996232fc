---------------------------- MODULE TeensyFrames ----------------------------
(***************************************************************************)
(* The frames the Due sends the Teensy over a serial line                  *)
(* (SendMessageToTeensy of Arduino_Due/functions.ino) and the tier-zero    *)
(* task of Teensy.ino, which reads them.                                   *)
(*                                                                         *)
(* A frame is an id, six bytes, the exclusive or of these seven, and '>'.  *)
(* There is no escape: any of the six bytes and the check may be a '>' or  *)
(* a NUL as well.  The reader starts when more than eight bytes are there  *)
(* and takes what it reads up to the first '>', or until nothing is left,  *)
(* for a frame.  It may be away for long (ProMicroLink); what arrives at a *)
(* full receive buffer is dropped.                                         *)
(*                                                                         *)
(* Here a frame has FrameLen bytes: the id, at least one more, the check   *)
(* and the '>'.  The check is not computed: the bytes before it are random *)
(* in the code, so it may be any byte.                                     *)
(***************************************************************************)
EXTENDS Integers, Sequences

CONSTANTS
  FrameLen,   (* 9 in the code                                               *)
  RxCap,      (* bytes the receive buffer of the Teensy holds; 64            *)
  Values      (* the bytes a frame may contain                               *)

Nul == 0
End == 62     (* '>'                                                         *)
TeensyMessageID_BlinkerState   == 97
TeensyMessageID_USBswitchState == 98
TeensyMessageID_AudioSwitchState == 99

ASSUME FramesAssumption ==
  /\ FrameLen \in Nat /\ FrameLen >= 4
  /\ RxCap \in Nat /\ RxCap >= FrameLen
  /\ Values \subseteq 0 .. 255 /\ {Nul, End} \subseteq Values

VARIABLES
  sent,       (* bytes of the current frame the Due has put on the line      *)
  rx,         (* the receive buffer of the Teensy: bytes with their places   *)
  lastByte,   (* history: the last byte that was received                    *)
  gap,        (* history: a byte has been dropped since                      *)
  stage,      (* tier zero: "poll" or "read"                                 *)
  incoming,   (* what is looked at of the String incoming, see Text          *)
  inChar,
  blinkerState,
  switchState (* USBswitchState and AudioSwitchState, by their ids            *)

framesVars == <<sent, rx, lastByte, gap, stage, incoming, inChar,
                blinkerState, switchState>>

-----------------------------------------------------------------------------
Id        == TeensyMessageID_BlinkerState
SwitchIds == {TeensyMessageID_USBswitchState, TeensyMessageID_AudioSwitchState}
Bytes     == Values \cup {Id}

(* A run of bytes up to and including a '>' is a segment.  A byte has its  *)
(* place in its segment, or is Spoilt from where the segment has lost a    *)
(* byte or is longer than a frame.                                         *)
Spoilt   == FrameLen + 1
Received == [value : Bytes, place : 1 .. Spoilt]
Start    == [value |-> End, place |-> FrameLen]

(* Of the text read so far: its length, no longer counted than a frame,    *)
(* the place of its first byte, its first two characters and whether a NUL *)
(* is in it.                                                               *)
Text  == [length : 0 .. FrameLen, start : 1 .. Spoilt,
          s : [0 .. 1 -> Bytes], nul : BOOLEAN]
Empty == [length |-> 0, start |-> Spoilt, s |-> [i \in 0 .. 1 |-> Nul],
          nul |-> FALSE]

Extended(text, byte) ==
  [length |-> IF text.length < FrameLen THEN text.length + 1 ELSE FrameLen,
   start  |-> IF text.length = 0 THEN byte.place ELSE text.start,
   s      |-> [i \in 0 .. 1 |-> IF i = text.length THEN byte.value
                                ELSE text.s[i]],
   nul    |-> text.nul \/ byte.value = Nul]

PlaceAfter(byte) ==
  IF byte.value = End THEN 1
  ELSE IF byte.place < FrameLen THEN byte.place + 1 ELSE Spoilt

(* What SendMessageToTeensy writes at each place: it is only called with   *)
(* the blinker state, a counter that takes every value, and the bytes it   *)
(* is not given are random.                                                *)
FrameByte(i) ==
  IF i = 1 THEN {Id} ELSE IF i = FrameLen THEN {End} ELSE Values

Init ==
  /\ sent = 0
  /\ rx = <<>>
  /\ lastByte = Start
  /\ gap = FALSE
  /\ stage = "poll"
  /\ incoming = Empty
  /\ inChar = Start
  /\ blinkerState = 0
  /\ switchState = [id \in SwitchIds |-> 0]

-----------------------------------------------------------------------------
(* The Due and the line.  The definitions with a suffix are faulty         *)
(* variants of the operation they precede.                                 *)

(* One print() or write() of SendMessageToTeensy, and what becomes of it   *)
(* at the other end of the line.                                           *)
SendByte ==
  \E value \in FrameByte(sent + 1) :
    /\ sent' = IF sent + 1 = FrameLen THEN 0 ELSE sent + 1
    /\ IF Len(rx) < RxCap
       THEN /\ lastByte' = [value |-> value,
                            place |-> IF gap THEN Spoilt
                                      ELSE PlaceAfter(lastByte)]
            /\ rx' = Append(rx, lastByte')
            /\ gap' = FALSE
       ELSE gap' = TRUE /\ UNCHANGED <<rx, lastByte>>
    /\ UNCHANGED <<stage, incoming, inChar, blinkerState, switchState>>

-----------------------------------------------------------------------------
(* Tier zero of the Teensy.                                                *)

(* Starts one byte early.                                                  *)
Poll_Early ==
  /\ stage = "poll"
  /\ Len(rx) >= FrameLen - 1
  /\ stage' = "read"
  /\ UNCHANGED <<sent, rx, lastByte, gap, incoming, inChar, blinkerState,
                 switchState>>

(* Starts one byte late.                                                   *)
Poll_Late ==
  /\ stage = "poll"
  /\ Len(rx) > FrameLen
  /\ stage' = "read"
  /\ UNCHANGED <<sent, rx, lastByte, gap, incoming, inChar, blinkerState,
                 switchState>>

Poll ==
  /\ stage = "poll"
  /\ Len(rx) > FrameLen - 1
  /\ stage' = "read"
  /\ UNCHANGED <<sent, rx, lastByte, gap, incoming, inChar, blinkerState,
                 switchState>>

AtEnd == incoming.length # 0 /\ inChar.value = End

(* One turn of the loop over what is available.                            *)
ReadByte ==
  /\ stage = "read"
  /\ ~AtEnd
  /\ rx # <<>>
  /\ inChar' = Head(rx)
  /\ rx' = Tail(rx)
  /\ incoming' = Extended(incoming, Head(rx))
  /\ UNCHANGED <<sent, lastByte, gap, stage, blinkerState, switchState>>

(* incoming is a frame as it was sent: its check is right.  substring()    *)
(* stops at a NUL; behind it s[] is not written, as it is not behind a     *)
(* text that is too short, so what a check of any other text compares is   *)
(* whatever the stack holds.                                               *)
Intact ==
  /\ incoming.length = FrameLen /\ incoming.start = 1 /\ ~incoming.nul
  /\ inChar.place = FrameLen

(* The check is right, or happens to be.  s[1] is the NUL behind s[0] if   *)
(* that is all there is.  The message for the ProMicro, id 'd', is neither *)
(* sent by the Due nor used by the Teensy; it is left out.                 *)
Accept ==
  LET id == incoming.s[0] IN
  /\ blinkerState' = IF id = TeensyMessageID_BlinkerState
                     THEN incoming.s[1] ELSE blinkerState
  /\ switchState' = IF id \in SwitchIds
                    THEN [switchState EXCEPT ![id] = incoming.s[1]]
                    ELSE switchState

Reject == ~Intact /\ UNCHANGED <<blinkerState, switchState>>

(* Behind the loop: it was left at a '>' or because nothing was available. *)
(* incoming and inChar are local to the task.                              *)
Check ==
  /\ stage = "read"
  /\ AtEnd \/ rx = <<>>
  /\ Accept \/ Reject
  /\ stage' = "poll"
  /\ incoming' = Empty
  /\ inChar' = Start
  /\ UNCHANGED <<sent, rx, lastByte, gap>>

TierZero == Poll \/ ReadByte \/ Check

Next == SendByte \/ TierZero

Spec == Init /\ [][Next]_framesVars

(* The loop of the Teensy goes on, however slowly.                         *)
Fairness == WF_framesVars(TierZero)

FairSpec == Spec /\ Fairness

-----------------------------------------------------------------------------
(* Properties.                                                             *)

(* Every variable has its type; nothing is written past the buffer.        *)
TypeOK ==
  /\ sent \in 0 .. FrameLen - 1
  /\ rx \in Seq(Received) /\ Len(rx) <= RxCap
  /\ lastByte \in Received
  /\ gap \in BOOLEAN
  /\ stage \in {"poll", "read"}
  /\ incoming \in Text
  /\ inChar \in Received
  /\ blinkerState \in Bytes
  /\ switchState \in [SwitchIds -> Bytes]

(* What the reader takes for a frame is a whole segment, from its first    *)
(* byte to its '>', unless that segment was damaged on the line.  So bytes *)
(* that were dropped, and '>' inside a frame, never make it cut or join a  *)
(* frame that arrived whole behind one that ended, although it may have    *)
(* run out of bytes in the middle of what it was reading.                  *)
SegmentReadWhole ==
  stage = "read" /\ (AtEnd \/ rx = <<>>) /\ inChar.place # Spoilt =>
    AtEnd /\ incoming.start = 1

(* A frame with the blinker state v that has arrived whole, and has no     *)
(* '>' and no NUL inside.                                                  *)
Waiting(v) ==
  \E i \in 0 .. Len(rx) - FrameLen :
    /\ \A j \in 1 .. FrameLen : /\ rx[i + j].place = j
                               /\ rx[i + j].value # Nul
    /\ rx[i + 2].value = v

(* Such a frame is taken over whatever came before it, be it a frame that  *)
(* was cut in two or one that lost bytes, and even if no other follows it. *)
CleanFrameArrives ==
  \A v \in Values \ {Nul, End} : Waiting(v) ~> blinkerState = v
=============================================================================
