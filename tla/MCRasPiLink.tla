----------------------------- MODULE MCRasPiLink ----------------------------
(***************************************************************************)
(* What the Raspberry Pi is told, for TLC: by the Due over I2C, with stack *)
(* frames that are overwritten and with frames that are not, and by the    *)
(* sketches over UDP, with two ports and one page or one port and two      *)
(* pages.  A behaviour is one of the four: part says which, and nothing of *)
(* the others moves.                                                       *)
(*                                                                         *)
(* Two readings besides the one at boot let the Pi lag behind by more than *)
(* one change; three cells are the least for which a mixture can differ    *)
(* from both of its texts.  The counter of tier five only matters by being *)
(* over its limit or not, so the limit is small.  Pages can be exchanged;  *)
(* a datagram holds a number of one digit or one of two.                   *)
(***************************************************************************)
EXTENDS RasPiLink, PiServer, FiniteSets

CONSTANTS heatAC, DUEdata, page1, page2

VARIABLE part

ThreeReadings == 0 .. 2

Heals == INSTANCE RasPiLink WITH FrameReused <- FALSE

ASSUME ServerAssumption

partVars == <<part, linkVars, serverVars>>

MCInit ==
  /\ part \in {"frames reused", "frames kept", "ports", "pages"}
  /\ Init /\ ServerInit

(* With two ports there is one page; with two pages, one port, one datagram *)
(* under way, and two connections of each page.                            *)
MCNext ==
  /\ UNCHANGED part
  /\ \/ part = "frames reused" /\ Next       /\ UNCHANGED serverVars
     \/ part = "frames kept"   /\ Heals!Next /\ UNCHANGED serverVars
     \/ /\ part = "ports" /\ ServerNext /\ page2 \notin connected'
        /\ UNCHANGED linkVars
     \/ /\ part = "pages" /\ ServerNext
        /\ inFlight'[DUEdata] = {} /\ Cardinality(inFlight'[heatAC]) <= 1
        /\ \A p \in Pages : handlers'[p] <= 2
        /\ UNCHANGED linkVars

(* The fairness of RasPiLink and of PiServer, each for its part.           *)
MCSpec ==
  /\ MCInit /\ [][MCNext]_partVars
  /\ WF_linkVars(part = "frames kept" /\ CopyCell)
  /\ WF_linkVars(part = "frames kept" /\ RaiseDueInt)
  /\ SF_linkVars(part = "frames kept" /\ DueInt /\ ~copying /\ RequestEvent)
  /\ WF_serverVars(part = "pages" /\ inFlight[heatAC] = {} /\ SendDatagram(heatAC))
  /\ SF_serverVars(part = "pages" /\ Relay(heatAC))
  /\ \A p \in Pages : WF_serverVars(part = "pages" /\ Handle(p, heatAC))

-----------------------------------------------------------------------------
(* A mixture of two texts is not shown for ever, as long as no frame is    *)
(* overwritten.                                                            *)
KeptMixtureHeals == [](part = "frames kept") => MixtureHeals

(* PiServer: a page that shows nothing comes to show something, also when  *)
(* it has connected after the last datagram came.                          *)
PageComesAlive ==
  [](part = "pages") => \A p \in Pages : PageComesAliveIn(p, heatAC)

=============================================================================
