--------------------------- MODULE ClientReceive ----------------------------
(***************************************************************************)
(* What a connection tells the sketch while the other side sends, closes   *)
(* and resets (Ethernet/src/EthernetClient.cpp available, read, peek,      *)
(* connected, stop; arch/sam/utility/socket.cpp recv, disconnect).         *)
(*                                                                         *)
(* The chip is asked for the status of the connection and for the number   *)
(* of bytes it holds in two separate reads, and goes on in between.        *)
(***************************************************************************)
EXTENDS Integers

CONSTANTS
  RSize,    (* bytes the chip holds                                          *)
  MaxSent,  (* bound: bytes the other side sends in one connection           *)
  MaxWait   (* 1000 ms in stop()                                             *)

(* What the constants have to be; MCSizeRegister assumes it of its values.*)
ClientAssumption ==
  RSize \in Nat \ {0} /\ MaxSent \in Nat /\ MaxWait \in Nat \ {0}

VARIABLES
  status,  (* SnSR                                                           *)
  sent,    (* bytes that have arrived in this connection                     *)
  read,    (* bytes the sketch has read                                      *)
  handle,  (* _sock names the socket                                         *)
  pc,      (* "sketch", or where in recv(), connected() or stop()            *)
  waited,  (* milliseconds stop() has waited                                 *)
  answer   (* what the last call returned                                    *)

clientVars == <<status, sent, read, handle, pc, waited, answer>>

-----------------------------------------------------------------------------
Statuses == {"closed", "established", "finWait", "closeWait", "lastAck"}

Unread == sent - read

Init ==
  /\ status = "established" /\ sent = 0 /\ read = 0 /\ handle = TRUE
  /\ pc = "sketch" /\ waited = 0 /\ answer = "none"

-----------------------------------------------------------------------------
(* The chip.                                                               *)

BytesCome ==
  /\ status \in {"established", "finWait"} /\ sent < MaxSent
  /\ \E n \in 1 .. RSize - Unread : sent + n <= MaxSent /\ sent' = sent + n
  /\ UNCHANGED <<status, read, handle, pc, waited, answer>>

(* The other side closes, answers our closing, or resets the connection.   *)
Chip ==
  /\ \/ status = "established" /\ status' = "closeWait"
     \/ status \in {"finWait", "lastAck"} /\ status' = "closed"
     \/ status \in {"established", "closeWait"} /\ status' = "closed"
  /\ UNCHANGED <<sent, read, handle, pc, waited, answer>>

(* The sketch gets a handle of the next connection.                        *)
Connect ==
  /\ ~handle /\ status = "closed"
  /\ handle' = TRUE /\ status' = "established" /\ sent' = 0 /\ read' = 0
  /\ answer' = "none"
  /\ UNCHANGED <<pc, waited>>

-----------------------------------------------------------------------------
Taken(len) == IF Unread > len THEN len ELSE Unread

(* recv with room for len bytes.                                           *)
Recv(len) ==
  /\ pc = "sketch" /\ handle
  /\ \/ /\ Unread > 0
        /\ read' = read + Taken(len)
        /\ answer' = "bytes" /\ UNCHANGED pc
     \/ /\ Unread = 0
        /\ pc' = "recv" /\ answer' = "none" /\ UNCHANGED read
  /\ UNCHANGED <<status, sent, handle, waited>>

(* There were none: end of file, or nothing for now.                       *)
RecvNothing ==
  /\ pc = "recv" /\ pc' = "sketch"
  /\ answer' = IF status \in {"closed", "closeWait"} THEN "eof" ELSE "later"
  /\ UNCHANGED <<status, sent, read, handle, waited>>

(* connected().                                                            *)
Connected ==
  /\ pc = "sketch" /\ handle
  /\ pc' = IF status = "closeWait" THEN "connected" ELSE "sketch"
  /\ answer' = CASE status = "closeWait" -> "none"
                 [] status \in {"closed", "finWait"} -> "over"
                 [] OTHER -> "up"
  /\ UNCHANGED <<status, sent, read, handle, waited>>

Left == IF Unread = 0 THEN "over" ELSE "up"

(* The other side has closed; available() is asked.                        *)
ConnectedLeft ==
  /\ pc = "connected" /\ pc' = "sketch"
  /\ answer' = Left
  /\ UNCHANGED <<status, sent, read, handle, waited>>

(* stop() asks for the connection to be closed and waits.                  *)
Stop ==
  /\ pc = "sketch" /\ handle
  /\ pc' = "stop" /\ waited' = 0 /\ answer' = "none"
  /\ status' = CASE status = "established" -> "finWait"
                 [] status = "closeWait" -> "lastAck"
                 [] OTHER -> status
  /\ UNCHANGED <<sent, read, handle>>

Patient == waited < MaxWait

StopWait ==
  /\ pc = "stop" /\ status # "closed" /\ Patient
  /\ waited' = IF waited < MaxWait THEN waited + 1 ELSE waited
  /\ UNCHANGED <<status, sent, read, handle, pc, answer>>

StopEnd ==
  /\ pc = "stop" /\ (status = "closed" \/ ~Patient)
  /\ status' = "closed" /\ handle' = FALSE /\ pc' = "sketch"
  /\ UNCHANGED <<sent, read, waited, answer>>

Library == RecvNothing \/ ConnectedLeft \/ StopWait \/ StopEnd

Next ==
  \/ BytesCome \/ Chip \/ Connect
  \/ \E len \in 1 .. RSize : Recv(len)
  \/ Connected \/ Stop \/ Library

Spec == Init /\ [][Next]_clientVars

(* A call goes on until it returns; the other side need never answer.      *)
FairSpec == Spec /\ WF_clientVars(Library)

-----------------------------------------------------------------------------
TypeOK ==
  /\ status \in Statuses /\ handle \in BOOLEAN
  /\ sent \in 0 .. MaxSent /\ read \in 0 .. sent /\ Unread <= RSize
  /\ pc \in {"sketch", "recv", "connected", "stop"} /\ waited \in 0 .. MaxWait
  /\ answer \in {"none", "bytes", "later", "eof", "up", "over"}

(* When connected() says that a connection the other side has closed is    *)
(* over, every byte that came was read: the status is read before the      *)
(* size, and no byte comes after the closing.                              *)
OverMeansAllRead == answer = "over" /\ status = "closeWait" => Unread = 0

(* After stop() the socket is closed, whether or not the other side        *)
(* answered: the next connect() finds it free.                             *)
StoppedIsClosed == ~handle => status = "closed"

(* All of it.                                                              *)
AnswersAreTrue == TypeOK /\ OverMeansAllRead /\ StoppedIsClosed

(* stop() comes back within its second, also when the other side is gone.  *)
StopComesBack == (pc = "stop") ~> ~handle

(* recv: "The remote end has closed its side of the connection, so this is *)
(* the eof state" (socket.cpp, line 156): nothing is left to read.  It     *)
(* asks for the size first, so the last bytes may come in between.         *)
EofMeansAllRead == answer = "eof" /\ status = "closeWait" => Unread = 0

=============================================================================
