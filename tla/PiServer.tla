------------------------------ MODULE PiServer ------------------------------
(***************************************************************************)
(* The web server on the Raspberry Pi (server.js) and the page it serves   *)
(* (index.html): datagrams that come to two UDP ports are kept and passed  *)
(* on to the pages that are connected, each port in a namespace of its     *)
(* own. The senders are sketches such as Tag_and_Aux_lights_Arduino_Uno,   *)
(* which sends ten datagrams in a second.                                  *)
(*                                                                         *)
(* The handlers of node and of a page run to their end one at a time. What *)
(* is between them is not in step: datagrams are lost and overtake each    *)
(* other, and pages connect, lose the connection, and come back. socket.io *)
(* says connect each time, and the page adds its handlers each time.       *)
(***************************************************************************)
EXTENDS Integers, Sequences, FiniteSets

CONSTANTS
  Channels,    (* the ports, each with its namespace                         *)
  Pages,
  Numbers,     (* numbers that can be in a datagram                          *)
  MaxInFlight, (* bound: datagrams of a channel on their way                 *)
  MaxMessages, (* bound: messages on their way to a page                     *)
  MaxHandlers, (* bound: connections of a page without a reload              *)
  Nothing      (* no data yet                                                *)

(* What the constants have to be; MCRasPiLink assumes it of its values.    *)
ServerAssumption ==
  /\ Numbers \subseteq Nat /\ Nothing \notin Numbers
  /\ {MaxInFlight, MaxMessages, MaxHandlers} \subseteq Nat \ {0}

VARIABLES
  inFlight,   (* the datagrams under way to each port                        *)
  kept,       (* the last datagram of each port                              *)
  connected,  (* the pages that are                                          *)
  messages,   (* what is under way to a page in a namespace                  *)
  handlers,   (* how many handlers a page has for a namespace                *)
  field,      (* what an element of the page says: digits put together       *)
  relayed     (* history: channels with a datagram since a page connected    *)

serverVars == <<inFlight, kept, connected, messages, handlers, field, relayed>>

-----------------------------------------------------------------------------
ServerInit ==
  /\ inFlight = [c \in Channels |-> {}]
  /\ kept = [c \in Channels |-> Nothing]
  /\ connected = {}
  /\ messages = [p \in Pages |-> [c \in Channels |-> <<>>]]
  /\ handlers = [p \in Pages |-> 0]
  /\ field = [p \in Pages |-> [c \in Channels |-> <<>>]]
  /\ relayed = [p \in Pages |-> {}]

-----------------------------------------------------------------------------
(* The definitions with a suffix are faulty variants of the operation they *)
(* precede.                                                                *)

(* One pass of the loop of a sender.                                       *)
SendDatagram(c) ==
  /\ Cardinality(inFlight[c]) < MaxInFlight
  /\ \E v \in Numbers : inFlight' = [inFlight EXCEPT ![c] = @ \cup {v}]
  /\ UNCHANGED <<kept, connected, messages, handlers, field, relayed>>

Lose(c) ==
  /\ \E v \in inFlight[c] : inFlight' = [inFlight EXCEPT ![c] = @ \ {v}]
  /\ UNCHANGED <<kept, connected, messages, handlers, field, relayed>>

(* The datagram before this one.                                           *)
Emitted_Before(c) == kept[c]

(* Nothing when the datagram says what the one before said.                *)
Emitted_Changed(c) == IF kept'[c] = kept[c] THEN Nothing ELSE kept'[c]

Emitted(c) == kept'[c]

(* A datagram is kept, and emitted to the pages that are connected now.    *)
Relay(c) ==
  /\ \A p \in connected : Len(messages[p][c]) < MaxMessages
  /\ \E v \in inFlight[c] :
       /\ inFlight' = [inFlight EXCEPT ![c] = @ \ {v}]
       /\ kept' = [kept EXCEPT ![c] = v]
  /\ messages' = [p \in Pages |->
                IF p \in connected /\ Emitted(c) # Nothing
                  THEN [messages[p] EXCEPT ![c] = Append(@, Emitted(c))]
                  ELSE messages[p]]
  /\ relayed' = [p \in Pages |->
                  IF p \in connected THEN relayed[p] \cup {c} ELSE relayed[p]]
  /\ UNCHANGED <<connected, handlers, field>>

(* The page: on connect it adds one more handler to the namespace.         *)
Connect(p) ==
  /\ p \notin connected /\ handlers[p] < MaxHandlers
  /\ connected' = connected \cup {p}
  /\ handlers' = [handlers EXCEPT ![p] = @ + 1]
  /\ relayed' = [relayed EXCEPT ![p] = {}]
  /\ UNCHANGED <<inFlight, kept, messages, field>>

Disconnect(p) ==
  /\ p \in connected
  /\ connected' = connected \ {p}
  /\ messages' = [messages EXCEPT ![p] = [c \in Channels |-> <<>>]]
  /\ UNCHANGED <<inFlight, kept, handlers, field, relayed>>

Reload(p) ==
  /\ connected' = connected \ {p}
  /\ messages' = [messages EXCEPT ![p] = [c \in Channels |-> <<>>]]
  /\ field' = [field EXCEPT ![p] = [c \in Channels |-> <<>>]]
  /\ handlers' = [handlers EXCEPT ![p] = 0]
  /\ UNCHANGED <<inFlight, kept, relayed>>

(* Numbers above 9 have two digits already.                                *)
Digits(v) == IF v < 10 THEN <<0, v>> ELSE <<v>>

Shown(old, v) == Digits(v)

(* All the handlers of the page see the message, one after the other.      *)
AfterHandlers(p, old, v) ==
  LET after[n \in 0 .. MaxHandlers] == IF n = 0 THEN old ELSE Shown(after[n - 1], v)
  IN after[handlers[p]]

Handle(p, c) ==
  /\ p \in connected /\ messages[p][c] # <<>>
  /\ field' = [field EXCEPT ![p][c] = AfterHandlers(p, @, Head(messages[p][c]))]
  /\ messages' = [messages EXCEPT ![p][c] = Tail(@)]
  /\ UNCHANGED <<inFlight, kept, connected, handlers, relayed>>

ServerNext ==
  \/ \E c \in Channels : SendDatagram(c) \/ Lose(c) \/ Relay(c)
  \/ \E p \in Pages : Connect(p) \/ Disconnect(p) \/ Reload(p)
  \/ \E p \in Pages, c \in Channels : Handle(p, c)

ServerSpec == ServerInit /\ [][ServerNext]_serverVars

(* The senders go on, the network does not lose every datagram, and the    *)
(* connection of a page delivers while it lasts.                           *)
ServerFairSpec ==
  /\ ServerSpec
  /\ \A c \in Channels : WF_serverVars(SendDatagram(c)) /\ SF_serverVars(Relay(c))
  /\ \A p \in Pages, c \in Channels : WF_serverVars(Handle(p, c))

-----------------------------------------------------------------------------
ServerTypeOK ==
  /\ inFlight \in [Channels -> SUBSET Numbers]
  /\ kept \in [Channels -> Numbers \cup {Nothing}]
  /\ connected \subseteq Pages /\ handlers \in [Pages -> 0 .. MaxHandlers]
  /\ relayed \in [Pages -> SUBSET Channels]
  /\ messages \in [Pages -> [Channels -> Seq(Numbers)]]
  /\ field \in [Pages -> [Channels -> {<<>>} \cup {Digits(v) : v \in Numbers}]]

(* A page that has taken all there is for it shows the datagram the server *)
(* keeps, if one has come since it connected, however often it lost the    *)
(* connection before and however many handlers it has by now.              *)
ShowsWhatIsKept ==
  \A p \in connected : \A c \in relayed[p] :
    messages[p][c] = <<>> => field[p][c] = Digits(kept[c])

(* What a page shows is of the type of a field, and what the server keeps. *)
PageShowsCurrent == ServerTypeOK /\ ShowsWhatIsKept

(* A page that shows nothing yet in a namespace comes to show something,   *)
(* unless it leaves: what came before it connected is never replayed, so   *)
(* it waits for the next datagram.                                         *)
PageComesAliveIn(p, c) ==
  (p \in connected /\ field[p][c] = <<>>) ~> (p \notin connected \/ field[p][c] # <<>>)

=============================================================================
