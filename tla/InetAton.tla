------------------------------ MODULE InetAton ------------------------------
(***************************************************************************)
(* The conversion of a dotted address, which getHostByName tries on every  *)
(* name before it asks a server (Ethernet/src/Dns.cpp inet_aton).          *)
(*                                                                         *)
(* A character stands for its distance to '0', as the code takes it: 0 to  *)
(* 9 are the digits, -2 is the dot, 49 to 74 are the letters.              *)
(***************************************************************************)
EXTENDS Integers, Sequences

CONSTANTS
  Alphabet,   (* the characters the strings are made of                      *)
  MaxLength,  (* bound: longest string; no value leaves an int               *)
  MaxSegment  (* 255                                                         *)

Dot == -2

(* What the constants have to be; MCDhcpLease assumes it of its values.    *)
AtonAssumption ==
  Alphabet \subseteq Int /\ MaxLength \in Nat /\ MaxSegment \in Nat

VARIABLES
  str,      (* aIPAddrString                                                 *)
  p,        (* how many characters were read                                 *)
  segment,
  value,    (* segmentValue                                                  *)
  addr,     (* aResult; -1 where nothing was written                         *)
  result    (* "reading", "accepted", "refused"                              *)

atonVars == <<str, p, segment, value, addr, result>>

-----------------------------------------------------------------------------
Strings == UNION { [1 .. n -> Alphabet] : n \in 0 .. MaxLength }

Init ==
  /\ str \in Strings
  /\ p = 0 /\ segment = 0 /\ value = 0
  /\ addr = [s \in 0 .. 3 |-> -1] /\ result = "reading"

(* The look through the string beforehand: not below '0' or not above '9'  *)
(* is true of every character, so none is refused here.                    *)
Reading == result = "reading" /\ p < Len(str) /\ segment < 4

(* (byte)segmentValue                                                      *)
Cut(n) == n % (MaxSegment + 1)

Restart == value' = 0

EndSegment ==
  /\ Reading /\ str[p + 1] = Dot
  /\ IF value > MaxSegment
     THEN result' = "refused" /\ UNCHANGED <<p, segment, value, addr>>
     ELSE /\ addr' = [addr EXCEPT ![segment] = Cut(value)]
          /\ segment' = segment + 1 /\ Restart /\ p' = p + 1
          /\ UNCHANGED result
  /\ UNCHANGED str

NextDigit ==
  /\ Reading /\ str[p + 1] # Dot
  /\ value' = value * 10 + str[p + 1] /\ p' = p + 1
  /\ UNCHANGED <<str, segment, addr, result>>

TooMuch == value > MaxSegment \/ segment > 3

(* The last segment has no dot behind it.                                  *)
Finish ==
  /\ result = "reading" /\ ~Reading
  /\ IF TooMuch THEN result' = "refused" /\ UNCHANGED addr
     ELSE result' = "accepted" /\ addr' = [addr EXCEPT ![segment] = Cut(value)]
  /\ UNCHANGED <<str, p, segment, value>>

Done == result # "reading" /\ UNCHANGED atonVars

Next == EndSegment \/ NextDigit \/ Finish \/ Done

Spec == Init /\ [][Next]_atonVars

-----------------------------------------------------------------------------
(* The reference: the number a sequence of digits writes, and a string cut *)
(* at its dots, the k-th of which is at cut[k].                            *)
Number(ds) ==
  LET upTo[n \in 0 .. Len(ds)] ==
        IF n = 0 THEN 0 ELSE 10 * upTo[n - 1] + ds[n]
  IN upTo[Len(ds)]

Segment(cut, k) == SubSeq(str, cut[k] + 1, cut[k + 1] - 1)

IsNumber(ds) ==
  Len(ds) > 0 /\ (\A n \in 1 .. Len(ds) : ds[n] \in 0 .. 9) /\ Number(ds) <= MaxSegment

Dots == { n \in 1 .. Len(str) : str[n] = Dot }

TypeOK ==
  /\ str \in Seq(Alphabet) /\ p \in 0 .. Len(str) /\ segment \in 0 .. 4 /\ value \in Int
  /\ addr \in [0 .. 3 -> -1 .. MaxSegment]
  /\ result \in {"reading", "accepted", "refused"}

(* Every dotted address is accepted and means what it says.                *)
AddressIsRead ==
  result # "reading" =>
    \A a, b, c \in Dots :
      LET cut == <<0, a, b, c, Len(str) + 1>>
      IN (\A k \in 1 .. 4 : IsNumber(Segment(cut, k))) =>
           /\ result = "accepted"
           /\ \A k \in 1 .. 4 : addr[k - 1] = Number(Segment(cut, k))

=============================================================================
