----------------------------- MODULE DhcpLease ------------------------------
(***************************************************************************)
(* The DHCP client of the Ethernet library kept in the repository          *)
(* (Ethernet/src/Dhcp.cpp, with begin and maintain of Ethernet.cpp): how   *)
(* the board gets an address, renews it and gives it to the network chip.  *)
(*                                                                         *)
(* A call of request_DHCP_lease is a round: sends, receptions and waits,   *)
(* with the test of the time-out after each.  Between rounds the sketch    *)
(* calls maintain again and again.  A server keeps one address for this    *)
(* client, so a server stands for its address too.  Answers may be lost,   *)
(* late, from an earlier round, or in any order.                           *)
(***************************************************************************)
EXTENDS Integers, FiniteSets

CONSTANTS
  Servers,
  None,             (* the address of zeros                                  *)
  Leases,           (* lease times a server grants, 0: the option is missing *)
  SendsTimers,      (* whether T1 and T2 come with the lease time            *)
  DefaultLease,     (* DEFAULT_LEASE                                         *)
  LongRange,        (* 2^32: of the times in an answer and of a signed long  *)
  Timeout,          (* _timeout and _responseTimeout, in units of the time   *)
  ResponseTimeout,  (*   that a send or a look for a packet takes            *)
  FirstIds,         (* what random(1, 2000) returns                          *)
  MaxFactor,        (* most seconds between two calls of maintain            *)
  MaxNet,           (* most answers under way                                *)
  Reliable          (* every server answers at once and grants               *)

(* What the constants have to be; MCDhcpLease assumes it of its values.     *)
DhcpAssumption ==
  /\ None \notin Servers
  /\ LongRange \in Nat /\ Leases \subseteq 0 .. LongRange - 1
  /\ SendsTimers \subseteq BOOLEAN /\ FALSE \in SendsTimers
  /\ DefaultLease \in 2 .. LongRange - 1
  /\ {Timeout, ResponseTimeout, MaxFactor, MaxNet} \subseteq Nat
  /\ FirstIds \subseteq Nat \ {0} /\ FirstIds # {}
  /\ Reliable \in BOOLEAN

VARIABLES
  state,       (* _dhcp_state                                                *)
  phase,       (* idle, or in a round: before an iteration or at its end     *)
  why,         (* who asked for the round: begin, renew or rebind            *)
  xid, xid0,   (* _dhcpTransactionId, _dhcpInitialTransactionId              *)
  localIp,     (* _dhcpLocalIp                                               *)
  serverIp,    (* _dhcpDhcpServerIp                                          *)
  leaseTime, t1, t2, renewIn, rebindIn,
  elapsed,     (* time since the round began                                 *)
  waited,      (* time since parseDHCPResponse was called                    *)
  chipIp,      (* the address in the registers of the W5100                  *)
  net,         (* answers under way                                          *)
  granted      (* history: the address in the last acknowledgement taken     *)

dhcpVars == <<state, phase, why, xid, xid0, localIp, serverIp, leaseTime, t1, t2,
              renewIn, rebindIn, elapsed, waited, chipIp, net, granted>>

timers == <<leaseTime, t1, t2, renewIn, rebindIn>>

-----------------------------------------------------------------------------
States  == {"START", "DISCOVER", "REQUEST", "LEASED", "REREQUEST"}
Address == Servers \cup {None}
Types   == {"OFFER", "ACK", "NAK"}
Message == [type : Types, server : Servers, xid : Nat, ip : Address,
            lease : Leases, timers : SendsTimers]

(* The T1 and T2 a server sends, when it sends them.                       *)
HalfOf(l)  == l \div 2
MostOf(l)  == (7 * l) \div 8

(* begin has just been called.                                             *)
Init ==
  /\ state = "START" /\ phase = "iterate" /\ why = "begin"
  /\ xid \in FirstIds /\ xid0 = xid
  /\ localIp = None /\ serverIp = None /\ chipIp = None
  /\ leaseTime = 0 /\ t1 = 0 /\ t2 = 0 /\ renewIn = 0 /\ rebindIn = 0
  /\ elapsed = 0 /\ waited = 0 /\ net = {} /\ granted = None

-----------------------------------------------------------------------------
(* The servers, as the client uses them: an answer bears the transaction   *)
(* of its question, and only the server a request names answers it.        *)
Answers(question, x, named) ==
  { m \in [type : Types, server : Servers, xid : {x}, ip : Address,
           lease : Leases, timers : SendsTimers] :
      /\ m.ip = IF m.type = "NAK" THEN None ELSE m.server
      /\ m.type = "NAK" => m.lease = 0 /\ ~Reliable
      /\ m.lease = 0 => ~m.timers
      /\ IF question = "DISCOVER" THEN m.type = "OFFER"
         ELSE m.type # "OFFER" /\ m.server = named }

(* An answer, or none; the network loses what does not fit in it.          *)
Send(question, x, named, others) ==
  \/ ~Reliable /\ net' = others
  \/ /\ Cardinality(others) < MaxNet
     /\ \E m \in Answers(question, x, named) : net' = others \cup {m}

Lose == \E m \in net :
  /\ ~Reliable
  /\ net' = net \ {m}
  /\ UNCHANGED <<state, phase, why, xid, xid0, localIp, serverIp, timers,
                 elapsed, waited, chipIp, granted>>

-----------------------------------------------------------------------------
(* One round.  The definitions with a suffix are faulty variants of the    *)
(* operation they precede.                                                 *)

(* Counts the time-out from the last question.                             *)
SendDiscover_NewClock ==
  /\ phase = "iterate" /\ state = "START"
  /\ xid' = IF xid = xid0 THEN xid + 1 ELSE xid
  /\ Send("DISCOVER", xid', serverIp, net)
  /\ state' = "DISCOVER"
  /\ elapsed' = 1
  /\ phase' = "test"
  /\ UNCHANGED <<why, xid0, localIp, serverIp, timers, waited, chipIp, granted>>

SendDiscover ==
  /\ phase = "iterate" /\ state = "START"
  /\ xid' = xid + 1
  /\ Send("DISCOVER", xid', serverIp, net)
  /\ state' = "DISCOVER"
  /\ elapsed' = elapsed + 1
  /\ phase' = "test"
  /\ UNCHANGED <<why, xid0, localIp, serverIp, timers, waited, chipIp, granted>>

SendRerequest ==
  /\ phase = "iterate" /\ state = "REREQUEST"
  /\ xid' = xid + 1
  /\ Send("REQUEST", xid', serverIp, net)
  /\ state' = "REQUEST"
  /\ elapsed' = elapsed + 1
  /\ phase' = "test"
  /\ UNCHANGED <<why, xid0, localIp, serverIp, timers, waited, chipIp, granted>>

Listens == phase = "iterate" /\ state \in {"DISCOVER", "REQUEST"}

(* Answers of this round, by their transaction.                            *)
ForUs(m) == xid0 <= m.xid /\ m.xid <= xid

(* Takes the address from an offer only.                                   *)
TakeAddress_Offered(m) == IF m.type = "OFFER" THEN m.ip ELSE localIp

(* Any answer of the round is taken in, whatever its type.                 *)
TakeAddress(m) == m.ip

(* The lease of an acknowledgement; what the answer does not say stays as  *)
(* the answer before it left it.                                           *)
LeaseOf(m) == IF m.lease # 0 THEN m.lease ELSE leaseTime

FirstOf(m)  == IF m.timers THEN HalfOf(m.lease) ELSE t1
SecondOf(m) == IF m.timers THEN MostOf(m.lease) ELSE t2

Or(n, default) == IF n = 0 THEN default ELSE n

(* An unsigned time where a signed long is to hold it: from 2^31 on, which *)
(* 0xffffffff of a lease without end is, it comes out negative.            *)
Signed(n) == IF 2 * n < LongRange THEN n ELSE n - LongRange

Counters(first, second) == renewIn' = Signed(first) /\ rebindIn' = Signed(second)

(* The last answer of a round.                                             *)
Lease(m) ==
  LET lease  == Or(LeaseOf(m), DefaultLease)
      first  == Or(FirstOf(m), lease \div 2)
      second == Or(SecondOf(m), (2 * first) % LongRange)
  IN /\ state' = "LEASED"
     /\ leaseTime' = lease /\ t1' = first /\ t2' = second
     /\ Counters(first, second)
     /\ granted' = m.ip
     /\ xid' = xid /\ net' = net \ {m}

(* Any other answer of this round.                                         *)
Parse(m) ==
  /\ leaseTime' = LeaseOf(m) /\ t1' = FirstOf(m) /\ t2' = SecondOf(m)
  /\ renewIn' = IF m.lease # 0 THEN Signed(m.lease) ELSE renewIn
  /\ UNCHANGED <<rebindIn, granted>>
  /\ IF state = "DISCOVER" /\ m.type = "OFFER"
     THEN /\ state' = "REQUEST"
          /\ xid' = m.xid
          /\ Send("REQUEST", m.xid, serverIp', net \ {m})
     ELSE /\ state' = IF state = "REQUEST" /\ m.type = "NAK" THEN "START" ELSE state
          /\ xid' = xid /\ net' = net \ {m}

Receive(m) ==
  /\ Listens /\ m \in net
  /\ waited' = 0 /\ phase' = "test"
  /\ UNCHANGED <<why, xid0, chipIp, elapsed>>
  /\ IF ForUs(m)
     THEN /\ localIp' = TakeAddress(m)
          /\ serverIp' = IF serverIp = None THEN m.server ELSE serverIp
          /\ IF state = "REQUEST" /\ m.type = "ACK" THEN Lease(m) ELSE Parse(m)
     ELSE /\ net' = net \ {m}
          /\ UNCHANGED <<state, xid, localIp, serverIp, timers, granted>>

(* No packet yet: look again, or report 255, which starts from the front.  *)
Wait ==
  /\ Listens
  /\ Reliable => net = {}
  /\ elapsed' = elapsed + 1
  /\ IF waited < ResponseTimeout
     THEN waited' = waited + 1 /\ UNCHANGED <<state, phase>>
     ELSE waited' = 0 /\ state' = "START" /\ phase' = "test"
  /\ UNCHANGED <<why, xid, xid0, localIp, serverIp, timers, chipIp, net, granted>>

Iterate == SendDiscover \/ SendRerequest \/ (\E m \in net : Receive(m)) \/ Wait

GoOn ==
  /\ phase = "test" /\ state # "LEASED" /\ elapsed <= Timeout
  /\ phase' = "iterate"
  /\ UNCHANGED <<state, why, xid, xid0, localIp, serverIp, timers, elapsed, waited,
                 chipIp, net, granted>>

-----------------------------------------------------------------------------
(* The beginning and the end of a round.                                   *)

BeginRound(reason) ==
  /\ why' = reason /\ phase' = "iterate"
  /\ xid' \in FirstIds /\ xid0' = xid'
  /\ elapsed' = 0 /\ waited' = 0

(* reset_DHCP_lease, and the rebinding that follows it.                    *)
Rebind ==
  /\ state' = "START"
  /\ localIp' = None /\ serverIp' = None
  /\ BeginRound("rebind")

ShouldRebind(st) == st \in {"LEASED", "START"} /\ rebindIn <= 0

TellChip(ok) == chipIp' = IF ok THEN localIp ELSE chipIp

(* After a renewal, won or lost, the same checkLease asks whether to bind  *)
(* anew.                                                                   *)
EndRound ==
  /\ phase = "test" /\ (state = "LEASED" \/ elapsed > Timeout)
  /\ IF why = "renew" /\ ShouldRebind(state)
     THEN Rebind /\ UNCHANGED chipIp
     ELSE /\ phase' = "idle"
          /\ TellChip(state = "LEASED")
          /\ elapsed' = 0 /\ waited' = 0 /\ xid' = 0 /\ xid0' = 0
          /\ UNCHANGED <<state, why, localIp, serverIp>>
  /\ UNCHANGED <<timers, net, granted>>

-----------------------------------------------------------------------------
(* Between the rounds: maintain, which calls checkLease.                   *)

(* The counters stop at zero, and stop early rather than late.             *)
Less(n, factor) == IF n < 2 * factor THEN 0 ELSE n - factor

ShouldRenew == state = "LEASED" /\ renewIn <= 0

(* A call in the second of the last counts nothing down; it is told apart  *)
(* from no call where there is something to do at once.                    *)
CountDown ==
  /\ phase = "idle"
  /\ \/ \E factor \in 1 .. MaxFactor :
          renewIn' = Less(renewIn, factor) /\ rebindIn' = Less(rebindIn, factor)
     \/ (ShouldRenew \/ ShouldRebind(state)) /\ UNCHANGED <<renewIn, rebindIn>>
  /\ phase' = "check"
  /\ UNCHANGED <<state, why, xid, xid0, localIp, serverIp, leaseTime, t1, t2,
                 elapsed, waited, chipIp, net, granted>>

CheckLease ==
  /\ phase = "check"
  /\ CASE ShouldRenew ->
            /\ state' = "REREQUEST" /\ BeginRound("renew")
            /\ UNCHANGED <<localIp, serverIp>>
       [] ~ShouldRenew /\ ShouldRebind(state) -> Rebind
       [] OTHER -> /\ phase' = "idle"
                   /\ UNCHANGED <<state, why, xid, xid0, localIp, serverIp, elapsed, waited>>
  /\ UNCHANGED <<timers, chipIp, net, granted>>

(* All four sockets of the chip are taken: the round ends before it began, *)
(* and for a renewal the question of binding anew is not asked, as the     *)
(* state is neither LEASED nor START.                                      *)
NoSocket ==
  /\ ~Reliable
  /\ phase = "iterate" /\ elapsed = 0 /\ waited = 0 /\ state \in {"START", "REREQUEST"}
  /\ phase' = "idle" /\ xid' = 0 /\ xid0' = 0
  /\ UNCHANGED <<state, why, localIp, serverIp, timers, elapsed, waited, chipIp, net, granted>>

Client == Iterate \/ GoOn \/ EndRound \/ CountDown \/ CheckLease \/ NoSocket

Next == Client \/ Lose

Spec == Init /\ [][Next]_dhcpVars

(* The sketch calls maintain again and again, and a call comes back.       *)
FairSpec == Spec /\ WF_dhcpVars(Client)

-----------------------------------------------------------------------------
TypeOK ==
  /\ state \in States /\ phase \in {"idle", "check", "iterate", "test"}
  /\ why \in {"begin", "renew", "rebind"}
  /\ {xid, xid0, leaseTime, t1, t2} \subseteq Nat /\ {renewIn, rebindIn} \subseteq Int
  /\ {localIp, serverIp, chipIp, granted} \subseteq Address
  /\ elapsed \in 0 .. Timeout + ResponseTimeout + 2 /\ waited \in 0 .. ResponseTimeout
  /\ net \subseteq Message /\ Cardinality(net) <= MaxNet

(* Between calls, a client with a lease uses the address the server last   *)
(* acknowledged, and the chip has it too: although every answer, offers    *)
(* and refusals among them, writes the address where maintain takes it     *)
(* from, and although answers of earlier rounds still come in.             *)
ChipHasLease ==
  phase = "idle" /\ state = "LEASED" => chipIp = granted /\ localIp = granted

(* A client with a lease whose T2 is below 2^31 tries to renew it before   *)
(* it binds anew: answers that carry the two timers, only a lease time, or *)
(* neither never leave the counters in the wrong order.  With a longer T2  *)
(* it binds anew at the next check, as if the lease were over.             *)
RenewBeforeRebind ==
  phase \in {"idle", "check"} /\ state = "LEASED" =>
    IF 2 * t2 < LongRange THEN renewIn <= rebindIn ELSE rebindIn <= 0

(* Both: what a client with a lease can rely on.                           *)
LeaseIsKept == TypeOK /\ ChipHasLease /\ RenewBeforeRebind

(* A call of maintain comes back, whichever answers arrive meanwhile.      *)
CallComesBack == phase # "idle" ~> phase = "idle"

(* Where a server answers at once the client gets its lease, and gets it   *)
(* again each time it is over.                                             *)
LeaseObtained == state # "LEASED" ~> state = "LEASED" /\ phase = "idle"

(* Ethernet.cpp:89, of a renewal or a rebinding that failed: "this is      *)
(* actually a error, it will retry though".                                *)
FailureIsRetried ==
  phase = "idle" /\ state # "LEASED" /\ why # "begin" ~> phase = "iterate"

=============================================================================
