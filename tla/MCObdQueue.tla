----------------------------- MODULE MCObdQueue -----------------------------
(***************************************************************************)
(* The asking of the STN1110 for TLC: the queue on a line that loses bytes *)
(* and on one that does not, and the blocking calls of the first hub.      *)
(* A behaviour is one of the three: part says which, and nothing of the    *)
(* others moves.                                                           *)
(*                                                                         *)
(* The two arrays of the queue have the length of the code and the refill  *)
(* threshold is the code's; the line is scaled down to a few bytes, which  *)
(* is enough for an answer to be longer than one byte, for bytes of an old *)
(* answer to arrive after the next request, and for every buffer to be     *)
(* full.  The marked byte is followed on the line that loses bytes.  The   *)
(* old hub makes three calls and setup() leaves up to two answers: calls   *)
(* that meet what it left, one that meets the answer to another call, and  *)
(* one to fall further behind; the car answers the freezing point or a hot *)
(* engine.                                                                 *)
(***************************************************************************)
EXTENDS ObdAnswers, OldObd

VARIABLE part

CodeSlots  == 5
CodeRefill == 3

Reliable == INSTANCE ObdQueue WITH LossyLine <- FALSE

ASSUME OldObdAssumption

partVars == <<part, agedVars, oldVars>>

MCInit ==
  /\ part \in {"lossy", "reliable", "old"}
  /\ AgedInit /\ OldInit
  /\ part = "reliable" => mark = 0
  /\ IF part = "old" THEN <<available, lines, wire>> = <<0, 0, 0>> ELSE left = 0

MCNext ==
  /\ UNCHANGED part
  /\ \/ part = "lossy"    /\ AgedNext      /\ UNCHANGED oldVars
     \/ part = "reliable" /\ Reliable!Next /\ UNCHANGED <<ageVars, oldVars>>
     \/ part = "old"      /\ OldNext       /\ UNCHANGED agedVars

(* The fairness of ObdQueue and of OldObd, each for its part.              *)
MCSpec ==
  /\ MCInit /\ [][MCNext]_partVars
  /\ WF_vars(part = "reliable" /\ SendMessage)
  /\ WF_vars(part = "reliable" /\ Println)
  /\ WF_vars(part = "reliable" /\ MessageRecieved)
  /\ WF_vars(part = "reliable" /\ AddMessagesToSend)
  /\ WF_vars(part = "reliable" /\ ByteArrives)
  /\ WF_vars(part = "reliable" /\ FakeAnswers)
  /\ WF_oldVars(part = "old" /\ Take)
  /\ WF_oldVars(part = "old" /\ Return)
  /\ WF_oldVars(part = "old" /\ Answers)
  /\ WF_oldVars(part = "old" /\ Arrive)

-----------------------------------------------------------------------------
(* On a line that loses nothing every request completes and both values    *)
(* are asked for again and again; and a call of the first hub comes back,  *)
(* which waits without a timeout.                                          *)
AskingGoesOn ==
  /\ [](part = "reliable") => RequestCompletes /\ BothPolled
  /\ [](part = "old") => ComesBack

=============================================================================
