------------------------------- MODULE Polling -------------------------------
(***************************************************************************)
(* What the hub promises of its polling, without queues, flags, buffers or *)
(* tiers: the speed and the engine speed are asked for in turn, one at a   *)
(* time; a reading changes only while its request is open, and the answer  *)
(* closes it.  DueLoop and OldHub implement it.                            *)
(***************************************************************************)
EXTENDS Integers

CONSTANT Readings     (* what a reading may be                               *)

VARIABLES
  asked,              (* what was asked for last: 0 the speed, 1 the engine's *)
  open,               (* whether its answer is still to come                 *)
  reading

pollVars == <<asked, open, reading>>

Init == asked = 1 /\ open = FALSE /\ reading = [k \in {0, 1} |-> 0]

Ask == ~open /\ open' = TRUE /\ asked' = 1 - asked /\ UNCHANGED reading

Answer ==
  /\ open /\ open' = FALSE
  /\ \E v \in Readings : reading' = [reading EXCEPT ![asked] = v]
  /\ UNCHANGED asked

Next == Ask \/ Answer

Spec == Init /\ [][Next]_pollVars

=============================================================================
