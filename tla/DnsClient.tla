------------------------------ MODULE DnsClient -----------------------------
(***************************************************************************)
(* The lookup of a name: one request, then up to three waits for an answer *)
(* (Ethernet/src/Dns.cpp getHostByName, BuildRequest, ProcessResponse up   *)
(* to the end of the header).  Answers come late, twice or never, also to  *)
(* the socket of a later lookup, and other hosts send to it.               *)
(***************************************************************************)
EXTENDS Integers, Sequences, FiniteSets

CONSTANTS
  Names,
  Ids,        (* millis() cut to sixteen bits                                *)
  Ports,      (* sixteen in the code                                         *)
  MaxWaits,   (* 3 in the code                                               *)
  WordRange,  (* 2^16: ProcessResponse returns an unsigned word              *)
  MaxNet,     (* bound: answers on their way                                 *)
  MaxInbox    (* bound: datagrams in the socket                              *)

(* What the constants have to be; MCDhcpLease assumes it of its values.  *)
DnsAssumption ==
  /\ MaxWaits \in Nat \ {0} /\ WordRange \in Nat /\ WordRange > 16
  /\ MaxNet \in Nat /\ MaxInbox \in Nat \ {0}

VARIABLES
  pc,        (* "idle", or where in getHostByName                            *)
  name,      (* aHostname                                                    *)
  port,      (* our port, while the socket is open                           *)
  id,        (* iRequestId                                                   *)
  ret,       (* what the call returns                                        *)
  waits,     (* wait_retries                                                 *)
  inbox,     (* datagrams in the socket                                      *)
  net,       (* answers of the server that are on their way                  *)
  answered   (* history: the name the accepted answer is for                 *)

lookupVars == <<pc, name, port, id, ret, waits, inbox, net, answered>>

-----------------------------------------------------------------------------
SUCCESS          == 1
TIMED_OUT        == -1
INVALID_SERVER   == -2
TRUNCATED        == -3
INVALID_RESPONSE == -4
ServerError      == -5
NoAnswer         == -10

Kinds   == {"answer", "error", "noAnswer", "short"}
Replies == [from : {"server", "other"}, port : Ports, id : Ids, name : Names, kind : Kinds]

Open == pc \in {"send", "wait", "again", "end"}

Init ==
  /\ pc = "idle" /\ name \in Names /\ port \in Ports /\ id \in Ids
  /\ ret = 0 /\ waits = 0 /\ inbox = <<>> /\ net = {} /\ answered \in Names

-----------------------------------------------------------------------------
(* The network: a datagram for our port gets into the socket or is lost,   *)
(* an answer may come twice.                                               *)

Deliver ==
  /\ Open /\ Len(inbox) < MaxInbox
  /\ \E r \in net : /\ r.port = port /\ inbox' = Append(inbox, r)
                    /\ net' \in {net, net \ {r}}
  /\ UNCHANGED <<pc, name, port, id, ret, waits, answered>>

Lose ==
  /\ \E r \in net : net' = net \ {r}
  /\ UNCHANGED <<pc, name, port, id, ret, waits, inbox, answered>>

(* Another host sends to our port.                                         *)
Stranger ==
  /\ Open /\ Len(inbox) < MaxInbox
  /\ inbox' = Append(inbox, [from |-> "other", port |-> port, id |-> id,
                             name |-> name, kind |-> "answer"])
  /\ UNCHANGED <<pc, name, port, id, ret, waits, net, answered>>

-----------------------------------------------------------------------------
(* The definitions with a suffix are faulty variants of the operation they *)
(* precede.                                                                *)

(* No address of a server is known, or no socket is free.                  *)
Fail ==
  /\ pc = "idle" /\ name' \in Names
  /\ ret' \in {INVALID_SERVER, 0} /\ waits' = 0
  /\ UNCHANGED <<pc, port, id, inbox, net, answered>>

Begin ==
  /\ pc = "idle" /\ name' \in Names /\ port' \in Ports
  /\ pc' = "send" /\ ret' = 0 /\ waits' = 0 /\ inbox' = <<>>
  /\ UNCHANGED <<id, net, answered>>

(* The number of the request is the time: it is not that of a request      *)
(* whose answer is still about, which would be a minute old.               *)
FreshIds == Ids \ ({r.id : r \in net} \cup {inbox[k].id : k \in 1 .. Len(inbox)})

(* The request is sent, and may be answered; or its address is not         *)
(* answered for.                                                           *)
Send ==
  /\ pc = "send"
  /\ \/ /\ id' \in FreshIds
        /\ \/ UNCHANGED net
           \/ /\ Cardinality(net) < MaxNet
              /\ \E k \in Kinds :
                   net' = net \cup {[from |-> "server", port |-> port, id |-> id',
                                     name |-> name, kind |-> k]}
        /\ ret' = TIMED_OUT /\ pc' = "wait"
     \/ ret' = 0 /\ pc' = "end" /\ UNCHANGED <<id, net>>
  /\ UNCHANGED <<name, port, waits, inbox, answered>>

(* Takes any answer of the server.                                         *)
ForThisRequest_Any(r) == TRUE

ForThisRequest(r) == r.id = id

(* The checks of a datagram, in their order.                               *)
Judged(r) ==
  CASE r.from # "server"     -> INVALID_SERVER
    [] r.kind = "short"      -> TRUNCATED
    [] ~ForThisRequest(r)    -> INVALID_RESPONSE
    [] r.kind = "error"      -> ServerError
    [] r.kind = "noAnswer"   -> NoAnswer
    [] OTHER                 -> SUCCESS

(* The int is returned as a uint16_t, and stored in an int of 32 bits.     *)
Returned(r) == r % WordRange

(* Five seconds pass at any time.                                          *)
TimeIsUp == TRUE

(* ProcessResponse: a datagram is there, or five seconds have passed.      *)
Got ==
  /\ pc = "wait" /\ inbox # <<>>
  /\ ret' = Returned(Judged(Head(inbox)))
  /\ answered' = IF ret' = SUCCESS THEN Head(inbox).name ELSE answered
  /\ inbox' = Tail(inbox) /\ waits' = waits + 1 /\ pc' = "again"
  /\ UNCHANGED <<name, port, id, net>>

Silence ==
  /\ pc = "wait" /\ inbox = <<>> /\ TimeIsUp
  /\ ret' = Returned(TIMED_OUT) /\ waits' = waits + 1 /\ pc' = "again"
  /\ UNCHANGED <<name, port, id, inbox, net, answered>>

WaitsAgain == waits < MaxWaits /\ ret = TIMED_OUT

Again ==
  /\ pc = "again" /\ pc' = IF WaitsAgain THEN "wait" ELSE "end"
  /\ UNCHANGED <<name, port, id, ret, waits, inbox, net, answered>>

Stop ==
  /\ pc = "end" /\ pc' = "idle" /\ inbox' = <<>>
  /\ UNCHANGED <<name, port, id, ret, waits, net, answered>>

Library == Send \/ Got \/ Silence \/ Again \/ Stop

Next == Deliver \/ Lose \/ Stranger \/ Fail \/ Begin \/ Library

Spec == Init /\ [][Next]_lookupVars

(* The call goes on until it returns, and time passes.                     *)
FairSpec == Spec /\ WF_lookupVars(Library)

-----------------------------------------------------------------------------
TypeOK ==
  /\ pc \in {"idle", "send", "wait", "again", "end"}
  /\ name \in Names /\ port \in Ports /\ id \in Ids /\ answered \in Names
  /\ ret \in -2 .. WordRange - 1 /\ waits \in 0 .. MaxWaits
  /\ inbox \in Seq(Replies) /\ net \subseteq Replies

(* An address the lookup returns is the one of the name it was asked for:  *)
(* the answer to an earlier lookup that comes late, into a socket on the   *)
(* same port, is not taken for it.                                         *)
AnswerIsForThisName == pc = "idle" /\ ret = SUCCESS => answered = name

(* The call comes back, whatever does or does not arrive.                  *)
LookupComesBack == (pc # "idle") ~> (pc = "idle")

=============================================================================
