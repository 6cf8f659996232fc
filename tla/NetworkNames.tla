---------------------------- MODULE NetworkNames ----------------------------
(***************************************************************************)
(* How a board comes by addresses: its own by DHCP, those of others by     *)
(* asking for their names.  The two share nothing; they stand side by side *)
(* to be checked in one run (MCDhcpLease) and proved in one module         *)
(* (EthernetProofs).                                                       *)
(***************************************************************************)
EXTENDS Integers

CONSTANTS
  Servers, None, Leases, SendsTimers, DefaultLease, LongRange, Timeout, ResponseTimeout,
  FirstIds, MaxFactor, MaxNet, Reliable,                (* DhcpLease        *)
  Names, Ids, Ports, MaxWaits, WordRange, MaxReplies, MaxInbox
                                                        (* DnsClient        *)

VARIABLES
  state, phase, why, xid, xid0, localIp, serverIp, leaseTime, t1, t2, renewIn,
  rebindIn, elapsed, sinceAsked, chipIp, net, granted,      (* DhcpLease        *)
  lookupPc, name, port, id, ret, waits, inbox, replies, answered
                                                        (* DnsClient        *)

Dhcp == INSTANCE DhcpLease WITH waited <- sinceAsked
Lookup == INSTANCE DnsClient WITH
  MaxNet <- MaxReplies, pc <- lookupPc, net <- replies

-----------------------------------------------------------------------------
(* DhcpLease: between calls of maintain a client with a lease uses the     *)
(* address that was acknowledged last, the chip has it too, and the lease  *)
(* is renewed before it is bound anew.                                     *)
LeaseIsKept == Dhcp!LeaseIsKept

(* DnsClient: the address a lookup returns is the one of the name it was   *)
(* asked for.                                                              *)
AnswerIsForThisName == Lookup!TypeOK /\ Lookup!AnswerIsForThisName

=============================================================================
