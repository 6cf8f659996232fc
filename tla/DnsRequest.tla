----------------------------- MODULE DnsRequest -----------------------------
(***************************************************************************)
(* The question the resolver sends: the name is cut at its dots and every  *)
(* part is written behind its length (Ethernet/src/Dns.cpp BuildRequest,   *)
(* the part behind the header).                                            *)
(***************************************************************************)
EXTENDS Integers, Sequences

CONSTANTS
  Names,   (* the names asked for, as sequences of codes                     *)
  Dot      (* the code of "."                                                *)

(* What the constants have to be; MCDhcpLease assumes it of its values:    *)
(* among 256 codes there is a dot, so that a length fits the byte.         *)
DnsRequestAssumption ==
  /\ Dot \in 1 .. 255
  /\ \A n \in Names :
       /\ n \in Seq(1 .. 255)
       /\ \A k \in 256 .. Len(n) : \E j \in k - 255 .. k : n[j] = Dot

VARIABLES
  aName,   (* the parameter; a zero stands behind its last code              *)
  start,   (* where the part looked at begins, 1 for the first code          *)
  end,     (* where it ends: at a dot or at the zero                         *)
  bytes,   (* what has been written behind the header                        *)
  pc,      (* "parts", or "done"                                             *)
  reads    (* history: the places of the name that were looked at            *)

requestVars == <<aName, start, end, bytes, pc, reads>>

-----------------------------------------------------------------------------
TypeA   == <<0, 1>>
ClassIn == <<0, 1>>

At(k) == IF k > Len(aName) THEN 0 ELSE aName[k]

(* The inner loop: on to the first dot or to the zero.                     *)
EndOf(k) ==
  CHOOSE e \in k .. Len(aName) + 1 :
    /\ At(e) \in {Dot, 0}
    /\ \A j \in k .. e - 1 : At(j) \notin {Dot, 0}

Init ==
  /\ aName \in Names /\ start = 1 /\ end = 1
  /\ bytes = <<>> /\ pc = "parts" /\ reads = {}

(* The definitions with a suffix are faulty variants of the operation they *)
(* precede.                                                                *)

(* Writes the empty parts as well.                                         *)
Written_Empty(e) == <<e - start>> \o SubSeq(aName, start, e - 1)

(* uint8_t len = end - start, then the part itself.                        *)
Written(e) ==
  IF e > start THEN <<(e - start) % 256>> \o SubSeq(aName, start, e - 1) ELSE <<>>

(* The place the outer loop tests: where the part before ended.            *)
Tested == end

Behind(e) == e + 1

Part ==
  /\ pc = "parts" /\ At(Tested) # 0
  /\ LET e == EndOf(start) IN
       /\ end' = e
       /\ start' = Behind(e)
       /\ bytes' = bytes \o Written(e)
       /\ reads' = reads \cup {Tested} \cup start .. e
  /\ UNCHANGED <<aName, pc>>

Terminate ==
  /\ pc = "parts" /\ At(Tested) = 0
  /\ bytes' = bytes \o <<0>> \o TypeA \o ClassIn
  /\ reads' = reads \cup {Tested}
  /\ pc' = "done"
  /\ UNCHANGED <<aName, start, end>>

Next == Part \/ Terminate

Spec == Init /\ [][Next]_requestVars

(* BuildRequest is a piece of straight code: it runs on by itself.         *)
FairSpec == Spec /\ WF_requestVars(Next)

-----------------------------------------------------------------------------
(* What a server finds in the question: labels up to an empty one, and     *)
(* what follows it.  A byte that is no length leads nowhere.               *)
Read ==
  LET from[p \in 1 .. Len(bytes) + 1] ==
        IF p > Len(bytes) \/ bytes[p] > Len(bytes) - p
        THEN [labels |-> <<>>, rest |-> <<"nowhere">>]
        ELSE IF bytes[p] = 0
        THEN [labels |-> <<>>, rest |-> SubSeq(bytes, p + 1, Len(bytes))]
        ELSE [from[p + 1 + bytes[p]] EXCEPT
                !.labels = <<SubSeq(bytes, p + 1, p + bytes[p])>> \o @]
  IN from[1]

(* The parts of a name: its stretches without a dot, in order.             *)
NameParts ==
  LET Later(before, k) ==   (* with the k-th code, those of the codes before *)
        IF aName[k] = Dot THEN before
        ELSE IF k = 1 \/ aName[k - 1] = Dot THEN Append(before, <<aName[k]>>)
        ELSE [before EXCEPT ![Len(before)] = Append(@, aName[k])]
      upTo[k \in 0 .. Len(aName)] ==
        IF k = 0 THEN <<>> ELSE Later(upTo[k - 1], k)
  IN upTo[Len(aName)]

(* The server reads the parts of the name, whether dots stand at its ends  *)
(* or next to each other, and an address of the internet is asked for.     *)
ServerReadsTheName ==
  pc = "done" => Read = [labels |-> NameParts, rest |-> TypeA \o ClassIn]

(* No place behind the zero of the name is looked at, although start goes  *)
(* past it when the last part has been written.                            *)
ReadsInside == reads \subseteq 1 .. Len(aName) + 1

(* Every name is over some time.                                           *)
IsBuilt == <>(pc = "done")

=============================================================================
