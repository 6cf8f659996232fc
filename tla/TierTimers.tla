----------------------------- MODULE TierTimers -----------------------------
(***************************************************************************)
(* The clock of the tiers, the same in loop() of Arduino_Due.ino and of    *)
(* Teensy.ino: each pass adds the microseconds since the last to a counter *)
(* for every tier, and a tier whose counter is over its limit runs and     *)
(* sets it back. micros() wraps round at 2^32; the Due keeps a difference  *)
(* in 16 bits.                                                             *)
(***************************************************************************)
EXTENDS Integers

CONSTANTS
  Clock,   (* 2^32                                                           *)
  Width,   (* 2^16 on the Due, 2^32 on the Teensy                            *)
  Extra,   (* 5: added to a difference, for the time between the readings    *)
  Between, (* the most that passes between the two readings of micros()      *)
  Passes,  (* how long a pass may take, from reading to reading              *)
  Tiers,
  Limit    (* the limit of each tier                                         *)

TimerAssumption ==
  /\ Clock \in Nat /\ Width \in 1 .. Clock /\ Extra \in Nat /\ Between \in Nat
  /\ Between < Clock
  /\ Passes \subseteq 1 .. Clock - 1
  /\ Limit \in [Tiers -> Nat]

VARIABLES
  timer,    (* micros() when it was read last                                *)
  counter,  (* of each tier                                                  *)
  since,    (* history: the real time since a tier ran                       *)
  passes,   (* history: the passes since a tier ran                          *)
  wraps,    (* history: those of them in which micros() wrapped round        *)
  cut       (* history: what of their differences did not fit the width      *)

timerVars == <<timer, counter, since, passes, wraps, cut>>

-----------------------------------------------------------------------------
Init ==
  /\ timer = 0
  /\ counter = [t \in Tiers |-> 0] /\ since = [t \in Tiers |-> 0]
  /\ passes = [t \in Tiers |-> 0] /\ wraps = [t \in Tiers |-> 0]
  /\ cut = [t \in Tiers |-> 0]

(* The definitions with a suffix are faulty variants of the operation they *)
(* precede.                                                                *)

(* Adds nothing for the time between the two readings.                     *)
Elapsed_NoExtra(now) ==
  (IF now < timer THEN Clock - 1 - timer + now ELSE now - timer) % Width

Elapsed(now) ==
  (IF now < timer THEN Clock - 1 - timer + now ELSE now - timer + Extra) % Width

Due(t, c) == c > Limit[t]

(* What the width leaves out of a difference of n.                         *)
Over(n) == Width * (n \div Width)

(* One pass: p ticks after the last reading micros() is read, and q ticks  *)
(* later again.                                                            *)
Pass(p, q) ==
  LET now     == (timer + p) % Clock
      c       == [t \in Tiers |-> counter[t] + Elapsed(now)]
      real    == [t \in Tiers |-> since[t] + p]
      runs(t) == Due(t, c[t])
  IN /\ timer' = (now + q) % Clock
     /\ counter' = [t \in Tiers |-> IF runs(t) THEN 0 ELSE c[t]]
     /\ since'   = [t \in Tiers |-> IF runs(t) THEN q ELSE real[t] + q]
     /\ passes'  = [t \in Tiers |-> IF runs(t) THEN 0 ELSE passes[t] + 1]
     /\ wraps'   = [t \in Tiers |-> IF runs(t) THEN 0
                                    ELSE wraps[t] + (IF now < timer THEN 1 ELSE 0)]
     /\ cut'     = [t \in Tiers |-> IF runs(t) THEN 0 ELSE cut[t] + Over(p + Extra)]

Next == \E p \in Passes, q \in 0 .. Between : Pass(p, q)

Spec == Init /\ [][Next]_timerVars

-----------------------------------------------------------------------------
TypeOK ==
  /\ timer \in 0 .. Clock - 1
  /\ counter \in [Tiers -> Nat] /\ since \in [Tiers -> Nat]
  /\ passes \in [Tiers -> Nat] /\ wraps \in [Tiers -> Nat]
  /\ cut \in [Tiers -> Nat]

(* No counter runs ahead of the real time by more than Extra for each      *)
(* pass: not when micros() wraps round, and not when a difference loses    *)
(* its high bits.                                                          *)
NeverFarAhead == \A t \in Tiers : counter[t] <= since[t] + Extra * passes[t]

(* What is added for the time between the readings makes up for it: a      *)
(* counter stays behind the real time only by what is lost since the last  *)
(* reading before the tier ran, in the passes in which the clock wraps,    *)
(* and in those that are too long for the width.                           *)
NeverBehind ==
  \A t \in Tiers :
    since[t] <= counter[t] + Between + (Between + 1) * wraps[t] + cut[t]

(* What a pass of p ticks finds: whether micros() wraps round in it, and   *)
(* what the counter of t comes to.                                         *)
Wraps(p)         == (timer + p) % Clock < timer
CountAfter(t, p) == counter[t] + Elapsed((timer + p) % Clock)

(* A tier may run before its limit has passed in real time, but by less    *)
(* than Extra for each pass since it ran last.                             *)
EarlyByExtra ==
  \A t \in Tiers, p \in Passes :
    Due(t, CountAfter(t, p)) => since[t] + p + Extra * (passes[t] + 1) > Limit[t]

(* A pass that begins when the limit has passed in real time runs the tier *)
(* unless the readings, a wrap of the clock or the width has lost as much. *)
LateByLosses ==
  \A t \in Tiers, p \in Passes :
    since[t] + p > Limit[t] + Between
                     + (Between + 1) * (wraps[t] + (IF Wraps(p) THEN 1 ELSE 0))
                     + cut[t] + Over(p + Extra)
      => Due(t, CountAfter(t, p))

(* When a tier runs, against the real time: early by less than Extra for   *)
(* each pass, and late only for these losses as long as Extra covers the   *)
(* time between the two readings, as the code counts on.                   *)
TiersKeepTime == EarlyByExtra /\ (Between <= Extra => LateByLosses)

=============================================================================
