---------------------------- MODULE Conversions -----------------------------
(***************************************************************************)
(* What the resolver converts: a dotted address, the question it writes    *)
(* and the answer it reads.  The three share nothing; they stand side by   *)
(* side to be checked in one run (MCDhcpLease) and proved in one module    *)
(* (ConversionsProofs).                                                    *)
(***************************************************************************)
EXTENDS Integers, Sequences

CONSTANTS
  Alphabet, MaxLength, MaxSegment,                      (* InetAton         *)
  AskedNames, DotCode,                                  (* DnsRequest       *)
  Messages                                              (* DnsResponse      *)

VARIABLES
  str, p, segment, value, addr, atonResult,             (* InetAton         *)
  aName, start, end, written, reqPc, reads,             (* DnsRequest       *)
  msg, bytes, pos, i, len, respPc, found                (* DnsResponse      *)

Aton == INSTANCE InetAton WITH result <- atonResult
Question == INSTANCE DnsRequest WITH
  Names <- AskedNames, Dot <- DotCode, bytes <- written, pc <- reqPc
Response == INSTANCE DnsResponse WITH pc <- respPc, result <- found

-----------------------------------------------------------------------------
(* What is read is what was written: a dotted address by who typed it, a   *)
(* question by the server, the address in an answer by the client.         *)
ReadAsWritten ==
  /\ Aton!TypeOK /\ Aton!AddressIsRead
  /\ Question!ServerReadsTheName /\ Question!ReadsInside
  /\ Response!TypeOK /\ Response!FirstAddressFound

=============================================================================
