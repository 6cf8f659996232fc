------------------------------- MODULE CanBus -------------------------------
(***************************************************************************)
(* The custom CAN bus and who listens to it: the halo lights               *)
(* (HaloUno/HaloUno.ino) and the volume controller                         *)
(* (Volume_Controller_Uno.ino), with the timing frames of the Teensy       *)
(* (Teensy.ino, tier one) and the frames of the master controller, which   *)
(* the table at the end of Arduino_Due.ino describes.                      *)
(*                                                                         *)
(* A listener has an MCP2515 with two receive buffers and reads one frame  *)
(* per pass of its loop, the halo lights one in a second: frames are lost  *)
(* when both are full, and one in the second buffer is overtaken by later  *)
(* ones in the first.                                                      *)
(***************************************************************************)
EXTENDS Integers, Sequences

CONSTANTS
  Rate,        (* the bit rate of each station                               *)
  MasterIds,   (* identifiers the master controller sends                    *)
  DataOf,      (* the payloads it sends with each of them                    *)
  BlinkStates, (* the second byte of a timing frame                          *)
  TimingFrames (* 10: the frame numbers 0 to 9                               *)

MaxId == 2047   (* identifiers have eleven bits                              *)
Stations == {"teensy", "master", "halo", "volume"}

(* What the constants have to be; MCBoardLines assumes it of its values.  *)
BusAssumption ==
  /\ Rate \in [Stations -> Nat] /\ MasterIds \subseteq 2 .. MaxId
  /\ DataOf \in [MasterIds -> SUBSET [1 .. 4 -> Nat]]
  /\ BlinkStates \subseteq Nat /\ TimingFrames \in Nat \ {0}

VARIABLES
  buf0, buf1,       (* the receive buffers of each listener                  *)
  timingFrameNum,
  rxBuf, rxId,      (* what the halo lights read last                        *)
  lightState, turnTiming,
  pots              (* the four potentiometers                               *)

busVars == <<buf0, buf1, timingFrameNum, rxBuf, rxId, lightState, turnTiming, pots>>

-----------------------------------------------------------------------------
TimingId == 1
VolumeId == 15
Listeners == {"halo", "volume"}
Empty == [id |-> 0, data |-> <<>>]
FogEnabled == 4
AllZero == <<0, 0, 0, 0>>

Init ==
  /\ buf0 = [l \in Listeners |-> Empty] /\ buf1 = [l \in Listeners |-> Empty]
  /\ timingFrameNum = 0
  /\ rxBuf = AllZero /\ rxId = 0
  /\ lightState = FogEnabled /\ turnTiming = 0
  /\ pots = AllZero

-----------------------------------------------------------------------------
(* The definitions with a suffix are faulty variants of the operation they *)
(* precede.                                                                *)

VolumeFilter(id) == id = VolumeId

(* The first buffer takes groups 0 and 1, and passes them on to the second *)
(* when it is full; four more groups go to the second only.                *)
FirstBuffer(l, id) ==
  IF l = "halo" THEN id \div 16 \in {0, 1} ELSE VolumeFilter(id)

SecondBuffer(l, id) ==
  FirstBuffer(l, id) \/ (l = "halo" /\ id \div 16 \in {2, 3, 31, 47})

Into0(l, f) == FirstBuffer(l, f.id) /\ buf0[l] = Empty
Into1(l, f) == SecondBuffer(l, f.id) /\ ~Into0(l, f) /\ buf1[l] = Empty

(* A frame on the bus: the stations on the sender's bit rate hear it.      *)
Broadcast(sender, f) ==
  LET hears(l) == Rate[l] = Rate[sender]
  IN /\ buf0' = [l \in Listeners |-> IF hears(l) /\ Into0(l, f) THEN f ELSE buf0[l]]
     /\ buf1' = [l \in Listeners |-> IF hears(l) /\ Into1(l, f) THEN f ELSE buf1[l]]

NextFrameNum == IF timingFrameNum = TimingFrames - 1 THEN 0 ELSE timingFrameNum + 1

(* Tier one of the Teensy.                                                 *)
SendTiming ==
  /\ \E blinker \in BlinkStates :
       Broadcast("teensy", [id |-> TimingId, data |-> <<timingFrameNum, blinker>>])
  /\ timingFrameNum' = NextFrameNum
  /\ UNCHANGED <<rxBuf, rxId, lightState, turnTiming, pots>>

(* The master sends the state of the lights, the volume, or colours.       *)
MasterSends ==
  /\ \E id \in MasterIds : \E data \in DataOf[id] :
       Broadcast("master", [id |-> id, data |-> data])
  /\ UNCHANGED <<timingFrameNum, rxBuf, rxId, lightState, turnTiming, pots>>

(* readMsgBuf: the first buffer before the second.                         *)
Waiting(l) == IF buf0[l] # Empty THEN buf0[l] ELSE buf1[l]

TakeFrame(l) ==
  /\ Waiting(l) # Empty
  /\ IF buf0[l] # Empty THEN buf0' = [buf0 EXCEPT ![l] = Empty] /\ UNCHANGED buf1
                        ELSE buf1' = [buf1 EXCEPT ![l] = Empty] /\ UNCHANGED buf0

Stored(old, data) == [i \in 1 .. 4 |-> IF i <= Len(data) THEN data[i] ELSE old[i]]

(* Asks for the identifier before it reads the message.                    *)
IdRead_Before == rxId

IdRead == Waiting("halo").id

(* One pass of the halo lights.                                            *)
HaloLoop ==
  LET f == Waiting("halo")
  IN /\ TakeFrame("halo")
     /\ rxId' = f.id /\ rxBuf' = Stored(rxBuf, f.data)
     /\ IF IdRead \in 2 .. 15 THEN lightState' = rxBuf'[1] /\ turnTiming' = rxBuf'[2]
                              ELSE UNCHANGED <<lightState, turnTiming>>
     /\ UNCHANGED <<timingFrameNum, pots>>

(* The volume controller looks at no identifier: its filters let only      *)
(* volume frames through.                                                  *)
VolumeLoop ==
  /\ TakeFrame("volume")
  /\ pots' = Stored(pots, Waiting("volume").data)
  /\ UNCHANGED <<timingFrameNum, rxBuf, rxId, lightState, turnTiming>>

Next == SendTiming \/ MasterSends \/ HaloLoop \/ VolumeLoop

Spec == Init /\ [][Next]_busVars

-----------------------------------------------------------------------------
TypeOK ==
  /\ timingFrameNum \in 0 .. TimingFrames - 1
  /\ \A l \in Listeners : buf0[l].id \in 0 .. MaxId /\ buf1[l].id \in 0 .. MaxId
  /\ rxBuf \in [1 .. 4 -> Nat] /\ rxId \in 0 .. MaxId
  /\ lightState \in Nat /\ turnTiming \in Nat /\ pots \in [1 .. 4 -> Nat]

(* The lights show two bytes of one frame of the group they look for: not  *)
(* those of a timing frame or a colour, which share the buffers with it,   *)
(* and not one byte of each.  A volume frame is of that group.             *)
LightsOfOneFrame ==
  \/ lightState = FogEnabled /\ turnTiming = 0
  \/ \E id \in MasterIds \cap 2 .. VolumeId : \E data \in DataOf[id] :
       lightState = data[1] /\ turnTiming = data[2]

(* The four potentiometers stand as one volume frame set them.             *)
PotsOfOneFrame ==
  pots = AllZero \/ (VolumeId \in MasterIds /\ pots \in DataOf[VolumeId])

(* So each listener shows one frame.                                       *)
ListenersShowOneFrame == TypeOK /\ LightsOfOneFrame /\ PotsOfOneFrame

=============================================================================
