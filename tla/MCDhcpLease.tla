---------------------------- MODULE MCDhcpLease -----------------------------
(***************************************************************************)
(* How a board comes by addresses, for TLC: its own by DHCP, with servers  *)
(* that answer as they like and with servers that answer at once, and      *)
(* those of others from dotted addresses and from names.  Parts is the set *)
(* of those that are looked at; a behaviour is one of them, part says      *)
(* which, and nothing of the others moves.                                 *)
(*                                                                         *)
(* DHCP: two servers with one address each.  The transactions of two       *)
(* rounds overlap, as numbers drawn from 1 to 2000 may; a round has time   *)
(* for a question, an answer and the wait for another.  Of sixteen seconds *)
(* the lease of 15 is the one without end.  In "dhcp" the answers come one *)
(* at a time, with any lease; in "offers" two are under way, so that the   *)
(* offer of one server comes when the other has been asked already, and    *)
(* they leave the lease to the board.                                      *)
(* Addresses: strings of up to eight characters, so that there are         *)
(* addresses with one segment of two digits; 25 stands for 255.            *)
(* Questions: all names of up to five codes, of one letter, another and    *)
(* the dot: dots at both ends and in pairs, and no name at all.            *)
(* Answers: no to two questions and one or two answers, with names that are*)
(* empty, of one and of two labels, ended by nothing or by a pointer, and  *)
(* with labels and data whose bytes look like lengths and pointers; among  *)
(* the answers aliases, another class and an address of the wrong length.  *)
(* Lookups: two names and three numbers, so that an answer is late for     *)
(* another name; two ports.                                                *)
(***************************************************************************)
EXTENDS NetworkNames, Conversions, FiniteSets, SequencesExt

CONSTANTS s1, s2, Parts

VARIABLE part

-----------------------------------------------------------------------------
Single == INSTANCE DhcpLease WITH MaxNet <- 1, waited <- sinceAsked
Offers == INSTANCE DhcpLease WITH
  Leases <- {0}, SendsTimers <- {FALSE}, waited <- sinceAsked
Prompt == INSTANCE DhcpLease WITH
  Leases <- {4, 15}, MaxNet <- 1, Reliable <- TRUE,
  waited <- sinceAsked

(* The characters of an address, and the names asked for.                  *)
AddressCharacters == {2, 6, -2}
ShortNames == BoundedSeq({1, 2, 46}, 5)

(* The names in a message, its questions and its answers.                  *)
Labels  == {<<>>, <<192>>, <<0, 4>>}
Written == { [labels |-> SelectSeq(ls, LAMBDA l : l # <<>>), pointer |-> pt]
             : ls \in Labels \X Labels, pt \in BOOLEAN }
Data    == { [type |-> 1, class |-> 1, data |-> <<192, 168, 0, 1>>],
             [type |-> 1, class |-> 1, data |-> <<0, 4, 1>>],
             [type |-> 1, class |-> 3, data |-> <<1, 1, 1, 1>>],
             [type |-> 5, class |-> 1, data |-> <<192, 12>>] }
Records == { [name |-> n, type |-> d.type, class |-> d.class, data |-> d.data]
             : n \in Written, d \in Data }
Asked   == { n \in Written : ~n.pointer }

DnsMessages ==
  [questions : UNION { [1 .. n -> Asked] : n \in 0 .. 1 },
   answers   : UNION { [1 .. n -> Records] : n \in 1 .. 2 }]
  \cup
  [questions : [1 .. 2 -> Asked], answers : { <<r>> : r \in Records }]

ASSUME
  /\ Dhcp!DhcpAssumption /\ Single!DhcpAssumption
  /\ Offers!DhcpAssumption /\ Prompt!DhcpAssumption
  /\ Aton!AtonAssumption /\ Question!DnsRequestAssumption
  /\ Response!DnsResponseAssumption /\ Lookup!DnsAssumption

-----------------------------------------------------------------------------
leaseVars   == <<state, phase, why, xid, xid0, localIp, serverIp, leaseTime,
                 t1, t2, renewIn, rebindIn, elapsed, sinceAsked, chipIp, net, granted>>
atonVars    == <<str, p, segment, value, addr, atonResult>>
requestVars == <<aName, start, end, written, reqPc, reads>>
dnsVars     == <<msg, bytes, pos, i, len, respPc, found>>
lookupVars  == <<lookupPc, name, port, id, ret, waits, inbox, replies, answered>>
partVars    == <<part, leaseVars, atonVars, requestVars, dnsVars, lookupVars>>

(* A part that is not looked at is in one of its initial states.           *)
NoMessage == [questions |-> <<>>, answers |-> <<>>]

MCInit ==
  /\ part \in Parts
  /\ Dhcp!Init /\ (part \in {"dhcp", "offers", "prompt"} \/ xid = 1)
  /\ \/ part = "aton" /\ Aton!Init
     \/ /\ part # "aton" /\ str = <<>> /\ p = 0 /\ segment = 0 /\ value = 0
        /\ addr = [s \in 0 .. 3 |-> -1] /\ atonResult = "reading"
  /\ \/ part = "question" /\ Question!Init
     \/ /\ part # "question" /\ aName = <<>> /\ start = 1 /\ end = 1
        /\ written = <<>> /\ reqPc = "parts" /\ reads = {}
  /\ \/ part = "response" /\ Response!Init
     \/ /\ part # "response" /\ msg = NoMessage /\ bytes = <<>> /\ pos = 1
        /\ i = 0 /\ len = 0 /\ respPc = "question" /\ found = <<>>
  /\ Lookup!Init
  /\ \/ part = "lookup"
     \/ name = "ecu" /\ port = 0 /\ id = 0 /\ answered = "ecu"

MCNext ==
  /\ UNCHANGED part
  /\ \/ part = "dhcp" /\ Single!Next
        /\ UNCHANGED <<atonVars, requestVars, dnsVars, lookupVars>>
     \/ part = "offers" /\ Offers!Next
        /\ UNCHANGED <<atonVars, requestVars, dnsVars, lookupVars>>
     \/ part = "prompt" /\ Prompt!Next
        /\ UNCHANGED <<atonVars, requestVars, dnsVars, lookupVars>>
     \/ part = "aton" /\ Aton!Next
        /\ UNCHANGED <<leaseVars, requestVars, dnsVars, lookupVars>>
     \/ part = "question" /\ Question!Next
        /\ UNCHANGED <<leaseVars, atonVars, dnsVars, lookupVars>>
     \/ part = "response" /\ Response!Next
        /\ UNCHANGED <<leaseVars, atonVars, requestVars, lookupVars>>
     \/ part = "lookup" /\ Lookup!Next
        /\ UNCHANGED <<leaseVars, atonVars, requestVars, dnsVars>>

(* The fairness of each module for its part.                               *)
MCSpec ==
  /\ MCInit /\ [][MCNext]_partVars
  /\ WF_leaseVars(part = "dhcp" /\ Single!Client)
  /\ WF_leaseVars(part = "offers" /\ Offers!Client)
  /\ WF_leaseVars(part = "prompt" /\ Prompt!Client)
  /\ WF_requestVars(part = "question" /\ Question!Next)
  /\ WF_dnsVars(part = "response" /\ Response!Next)
  /\ WF_lookupVars(part = "lookup" /\ Lookup!Library)

-----------------------------------------------------------------------------
(* A call of maintain comes back and a lookup does, whatever answers       *)
(* arrive, late, lost or of another question; the loops over a name and    *)
(* over a complete answer end; and where servers answer at once the client *)
(* gets a lease again and again.  The library's loops over an answer that  *)
(* is cut off are not spoken of: an answer of a lookup is read at once.    *)
CallsComeBack ==
  /\ [](part \in {"dhcp", "offers"}) => Dhcp!CallComesBack
  /\ [](part = "prompt")   => Prompt!LeaseObtained
  /\ [](part = "question") => Question!IsBuilt
  /\ [](part = "response") => Response!ResponseIsRead
  /\ [](part = "lookup")   => Lookup!LookupComesBack

(* DhcpLease: a renewal or a rebinding that failed is tried again.         *)
FailureIsRetried == Dhcp!FailureIsRetried

=============================================================================
