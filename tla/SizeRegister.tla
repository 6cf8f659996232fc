---------------------------- MODULE SizeRegister ----------------------------
(***************************************************************************)
(* How the library reads a size from the chip: a register of sixteen bits  *)
(* comes byte by byte, the upper one first, while the chip counts it up    *)
(* (Ethernet/arch/sam/utility/w5100.cpp getTXFreeSize, getRXReceivedSize;  *)
(* w5100.h __SOCKET_REGISTER16).  Both sizes only grow while they are      *)
(* read: only the library takes bytes out of the one buffer or puts them   *)
(* into the other.                                                         *)
(***************************************************************************)
EXTENDS Integers

CONSTANT Base   (* 2^8 *)

BaseAssumption == Base \in Nat \ {0, 1}

VARIABLES
  reg,      (* the register, as its upper and lower byte                     *)
  pc,       (* the byte read next, "compare", or "returned"                  *)
  first,    (* val1                                                          *)
  second,   (* val                                                           *)
  been      (* history: what the register has been since the call            *)

sizeVars == <<reg, pc, first, second, been>>

-----------------------------------------------------------------------------
Byte  == 0 .. Base - 1
Words == [hi : Byte, lo : Byte]
Zero  == [hi |-> 0, lo |-> 0]

Below(v, w) == v.hi < w.hi \/ (v.hi = w.hi /\ v.lo < w.lo)

Init ==
  /\ reg \in Words /\ pc = "hi1"
  /\ first = Zero /\ second = Zero /\ been = {reg}

(* Bytes arrive, or the other side acknowledges some.                      *)
Grow ==
  /\ pc # "returned"
  /\ \E w \in Words : Below(reg, w) /\ reg' = w
  /\ been' = been \cup {reg'}
  /\ UNCHANGED <<pc, first, second>>

ReadHi1 ==
  /\ pc = "hi1" /\ pc' = "lo1"
  /\ first' = [first EXCEPT !.hi = reg.hi]
  /\ UNCHANGED <<reg, second, been>>

(* A size of nothing is not read again.                                    *)
ReadLo1 ==
  /\ pc = "lo1"
  /\ first' = [first EXCEPT !.lo = reg.lo]
  /\ pc' = IF first' = Zero THEN "compare" ELSE "hi2"
  /\ UNCHANGED <<reg, second, been>>

ReadHi2 ==
  /\ pc = "hi2" /\ pc' = "lo2"
  /\ second' = [second EXCEPT !.hi = reg.hi]
  /\ UNCHANGED <<reg, first, been>>

ReadLo2 ==
  /\ pc = "lo2" /\ pc' = "compare"
  /\ second' = [second EXCEPT !.lo = reg.lo]
  /\ UNCHANGED <<reg, first, been>>

(* The definition with a suffix is a faulty variant of the one it precedes *)
(* and takes the second reading as it is.                                  *)
Same_Any == TRUE

Same == first = second

Compare ==
  /\ pc = "compare"
  /\ pc' = IF Same THEN "returned" ELSE "hi1"
  /\ UNCHANGED <<reg, first, second, been>>

(* The next call.                                                          *)
Call ==
  /\ pc = "returned" /\ pc' = "hi1"
  /\ reg' \in Words
  /\ first' = Zero /\ second' = Zero /\ been' = {reg'}

Next == Grow \/ ReadHi1 \/ ReadLo1 \/ ReadHi2 \/ ReadLo2 \/ Compare \/ Call

Spec == Init /\ [][Next]_sizeVars

-----------------------------------------------------------------------------
TypeOK ==
  /\ reg \in Words /\ first \in Words /\ second \in Words
  /\ pc \in {"hi1", "lo1", "hi2", "lo2", "compare", "returned"}
  /\ been \subseteq Words /\ reg \in been

(* A size the call returns was the size at some moment of the call: two    *)
(* equal readings, each torn at will, are never a value made of an old     *)
(* upper and a new lower byte.  Only nothing may be returned for           *)
(* something, as it is not read twice.                                     *)
SizeWasTrue == pc = "returned" /\ second # Zero => second \in been

=============================================================================
