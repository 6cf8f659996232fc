-------------------------- MODULE TierTimersProofs --------------------------
(***************************************************************************)
(* What the boards do by the clock, for all constants: the counters of the *)
(* tiers against the real time, whatever the width of the difference and   *)
(* however the clock wraps; the light of the grill; the light of the tag.  *)
(* Each part has an inductive invariant, a lemma for each step that keeps  *)
(* it, and the theorems last.                                              *)
(***************************************************************************)
EXTENDS BoardClocks, SequenceTheorems, TLAPS

-----------------------------------------------------------------------------
(* Remainders and quotients where the divisor is a parameter.              *)

(* A number is a multiple of n and its remainder.                          *)
LEMMA DivMod ==
  ASSUME NEW a \in Int, NEW n \in Nat \ {0}
  PROVE  a % n \in 0 .. n - 1 /\ \E q \in Int : a = n * q + (a % n)
<1>1. a % n \in 0 .. n - 1
  BY Z3
<1>2. a = n * (a \div n) + (a % n) /\ (a \div n) \in Int
  BY SMT
<1> QED BY <1>1, <1>2

(* and there is only one.                                                  *)
LEMMA ModIs ==
  ASSUME NEW n \in Nat \ {0}, NEW q \in Int, NEW r \in 0 .. n - 1
  PROVE  (n * q + r) % n = r
<1> DEFINE a == n * q + r
           m == a % n
<1>1. a \in Int
  BY SMT
<1> HIDE DEF a
<1>2. PICK p \in Int : a = n * p + m
  BY <1>1, DivMod
<1>3. m \in 0 .. n - 1
  BY <1>1, DivMod
<1> HIDE DEF m
<1>4. n * (q - p) = m - r
  <2>1. n * (q - p) = n * q - n * p
    BY SMT
  <2>2. n * q \in Int /\ n * p \in Int
    BY SMT
  <2> QED BY <1>2, <1>3, <2>1, <2>2, SMT DEF a
<1>5. q - p = 0
  <2> DEFINE d == q - p
             e == m - r
  <2>1. d \in Int /\ e \in Int /\ e < n /\ -n < e /\ n * d = e
    BY <1>3, <1>4
  <2> HIDE DEF d, e
  <2>2. ~(d >= 1)
    BY <2>1, SMT
  <2>3. ~(d <= -1)
    BY <2>1, SMT
  <2> QED BY <2>1, <2>2, <2>3 DEF d
<1> QED BY <1>3, <1>4, <1>5 DEF a, m

(* A quotient is unique too.                                               *)
LEMMA DivIs ==
  ASSUME NEW n \in Nat \ {0}, NEW q \in Int, NEW r \in 0 .. n - 1
  PROVE  (n * q + r) \div n = q
<1> DEFINE a == n * q + r
           p == a \div n
<1>1. a \in Int
  BY SMT
<1>2. a = n * p + (a % n) /\ p \in Int
  <2> HIDE DEF a
  <2> QED BY <1>1, SMT
<1>3. a % n = r
  BY ModIs
<1> HIDE DEF p
<1>4. n * p = n * q
  <2>1. n * p \in Int /\ n * q \in Int
    BY <1>2, SMT
  <2> QED BY <1>2, <1>3, <2>1, SMT DEF a
<1>5. n * (p - q) = 0
  BY <1>2, <1>4, SMT
<1>6. p - q = 0
  <2> DEFINE d == p - q
  <2>1. d \in Int /\ n * d = 0
    BY <1>2, <1>5
  <2> HIDE DEF d
  <2>2. ~(d >= 1)
    BY <2>1, SMT
  <2>3. ~(d <= -1)
    BY <2>1, SMT
  <2> QED BY <2>1, <2>2, <2>3 DEF d
<1> QED BY <1>2, <1>6 DEF p

(* What is in range is its own remainder.                                  *)
LEMMA ModOfSmall ==
  ASSUME NEW n \in Nat \ {0}, NEW a \in 0 .. n - 1
  PROVE  a % n = a
BY Z3

(* Around a ring of n cells.                                               *)
LEMMA Around ==
  ASSUME NEW n \in Nat \ {0}, NEW a \in 0 .. n - 1, NEW b \in 0 .. n - 1
  PROVE  (a + b) % n = IF a + b < n THEN a + b ELSE a + b - n
<1>1. CASE a + b < n
  BY <1>1, ModOfSmall
<1>2. CASE ~(a + b < n)
  <2> DEFINE c == a + b - n
  <2>1. c \in 0 .. n - 1 /\ n + c = a + b
    BY <1>2
  <2> HIDE DEF c
  <2>2. PICK q \in Int : q = 1
    OBVIOUS
  <2>3. n * q = n
    BY <2>2
  <2>4. (n * q + c) % n = c
    BY <2>1, ModIs
  <2>5. (a + b) % n = c
    BY <2>1, <2>3, <2>4
  <2> QED BY <1>2, <2>5 DEF c
<1> QED BY <1>1, <1>2

-----------------------------------------------------------------------------
(* A remainder is no more than the number itself.                          *)
LEMMA RemainderIsLess ==
  ASSUME NEW a \in Nat, NEW n \in Nat \ {0}
  PROVE  a % n \in 0 .. n - 1 /\ a % n <= a
<1>1. a % n \in 0 .. n - 1
  BY Z3
<1>2. CASE a < n
  <2>1. a % n = a
    BY <1>2, Z3
  <2> QED BY <1>1, <2>1
<1>3. CASE a >= n
  BY <1>1, <1>3, Z3
<1> QED BY <1>2, <1>3

(* Below twice the size, the clock reads what it should or that less its   *)
(* size.                                                                   *)
LEMMA ClockReads ==
  ASSUME NEW a \in Nat, NEW n \in Nat \ {0}, a < 2 * n
  PROVE  a % n = IF a < n THEN a ELSE a - n
<1>1. CASE a < n
  BY <1>1, Z3
<1>2. CASE a >= n
  BY <1>2, Z3
<1> QED BY <1>1, <1>2

(* The difference of two readings: the time between them and Extra, or     *)
(* that time less one when the clock has wrapped, in Width.                *)
LEMMA DifferenceOfReadings ==
  ASSUME TimerAssumption, NEW p \in Passes, timer \in 0 .. Clock - 1
  PROVE  LET now  == (timer + p) % Clock
             full == IF now < timer THEN p - 1 ELSE p + Extra
         IN /\ now \in 0 .. Clock - 1
            /\ full \in Nat
            /\ Elapsed(now) = full % Width
<1> DEFINE now == (timer + p) % Clock
           full == IF now < timer THEN p - 1 ELSE p + Extra
<1>1. p \in 1 .. Clock - 1 /\ Clock \in Nat \ {0} /\ Extra \in Nat
  BY DEF TimerAssumption
<1>2. timer + p \in Nat /\ timer + p < 2 * Clock
  BY <1>1
<1>3. now = IF timer + p < Clock THEN timer + p ELSE timer + p - Clock
  <2> DEFINE a == timer + p
  <2>1. a \in Nat /\ a < 2 * Clock
    BY <1>2
  <2> HIDE DEF a
  <2>2. a % Clock = IF a < Clock THEN a ELSE a - Clock
    BY <1>1, <2>1, ClockReads
  <2> QED BY <1>1, <1>2, <2>1, <2>2 DEF a, now
<1> HIDE DEF now
<1>4. now \in 0 .. Clock - 1
  BY <1>1, <1>3
<1>5. full \in Nat
  BY <1>1
<1>6. (IF now < timer THEN Clock - 1 - timer + now ELSE now - timer + Extra) = full
  BY <1>1, <1>3
<1>7. Elapsed(now) = full % Width
  BY <1>6 DEF Elapsed
<1> QED
  BY <1>4, <1>5, <1>7 DEF now

(* Multiplication keeps the order.                                         *)
LEMMA MonotoneTimes ==
  ASSUME NEW n \in Nat, NEW a \in Int, NEW b \in Int, a <= b
  PROVE  n * a <= n * b
<1> DEFINE d == b - a
<1>1. d \in Nat /\ b = a + d
  OBVIOUS
<1> HIDE DEF d
<1>2. n * (a + d) = n * a + n * d
  BY <1>1, SMT
<1>3. n * d \in Nat /\ n * a \in Int
  BY <1>1, SMT
<1> QED BY <1>1, <1>2, <1>3

(* What the width leaves out of a difference, and that a longer one does   *)
(* not lose less.                                                          *)
LEMMA OverOf ==
  ASSUME TimerAssumption, NEW m \in Nat, NEW n \in Nat, n <= m
  PROVE  Over(m) \in Nat /\ n % Width \in Nat /\ n <= (n % Width) + Over(m)
<1>1. Width \in Nat \ {0}
  BY DEF TimerAssumption
<1> DEFINE i == m \div Width
           j == n \div Width
<1>2. /\ n = Width * j + (n % Width) /\ m = Width * i + (m % Width)
      /\ i \in Int /\ j \in Int
  BY <1>1, SMT
<1>3. n % Width \in 0 .. Width - 1 /\ m % Width \in 0 .. Width - 1
  BY <1>1, DivMod
<1> HIDE DEF i, j
<1> DEFINE y == n % Width
           z == m % Width
<1>4. y \in 0 .. Width - 1 /\ z \in 0 .. Width - 1
  BY <1>3
<1>5. n = Width * j + y /\ m = Width * i + z
  BY <1>2
<1> HIDE DEF y, z
<1>6. Width * j <= Width * i
  <2>1. CASE j <= i
    BY <1>1, <1>2, <2>1, MonotoneTimes
  <2>2. CASE i + 1 <= j
    <3>1. Width * (i + 1) <= Width * j
      BY <1>1, <1>2, <2>2, MonotoneTimes
    <3>2. Width * (i + 1) = Width * i + Width
      BY <1>1, <1>2, SMT
    <3>3. Width * i \in Int /\ Width * j \in Int
      BY <1>1, <1>2, SMT
    <3> QED BY <1>1, <1>4, <1>5, <3>1, <3>2, <3>3
  <2> QED BY <1>2, <2>1, <2>2
<1>7. 0 <= Width * i
  <2>1. CASE 0 <= i
    <3>1. Width * 0 <= Width * i
      BY <1>1, <1>2, <2>1, MonotoneTimes
    <3> QED BY <1>1, <3>1
  <2>2. CASE i + 1 <= 0
    <3>1. Width * (i + 1) <= Width * 0 /\ Width * (i + 1) = Width * i + Width
      BY <1>1, <1>2, <2>2, MonotoneTimes, SMT
    <3>2. Width * i \in Int
      BY <1>1, <1>2, SMT
    <3> QED BY <1>1, <1>4, <1>5, <3>1, <3>2
  <2> QED BY <1>2, <2>1, <2>2
<1>8. Over(m) = Width * i
  BY DEF Over, i
<1>9. Width * i \in Int /\ Width * j \in Int
  BY <1>1, <1>2, SMT
<1> QED BY <1>4, <1>5, <1>6, <1>7, <1>8, <1>9 DEF y

(* The types, and the counters that do not run ahead.                      *)
TimerInv == TypeOK /\ NeverFarAhead

(* At the start all counters are zero.                                     *)
LEMMA TimerInit ==
  ASSUME TimerAssumption, Init PROVE TimerInv
  BY DEF TimerAssumption, Init, TimerInv, TypeOK,
     NeverFarAhead

(* A pass adds no more to a counter than the real time and Extra.          *)
LEMMA TimerStep ==
  ASSUME TimerAssumption, TimerInv, [Next]_timerVars
  PROVE  TimerInv'
<1>t. TypeOK
  BY DEF TimerInv
<1>1. CASE Next
  <2>1. PICK p \in Passes, q \in 0 .. Between : Pass(p, q)
    BY <1>1 DEF Next
  <2> DEFINE now  == (timer + p) % Clock
             full == IF now < timer THEN p - 1 ELSE p + Extra
             e    == Elapsed(now)
             c    == [t \in Tiers |-> counter[t] + e]
             real == [t \in Tiers |-> since[t] + p]
             runs(t) == Due(t, c[t])
  <2>2. now \in 0 .. Clock - 1 /\ full \in Nat /\ e = full % Width
    BY <1>t, DifferenceOfReadings DEF TypeOK
  <2>3. e \in Nat /\ e <= p + Extra
    <3> HIDE DEF now, e
    <3>1. Width \in Nat \ {0} /\ p \in Nat /\ Extra \in Nat
      BY DEF TimerAssumption
    <3>2. full <= p + Extra
      BY <3>1
    <3> HIDE DEF full
    <3>3. full % Width \in 0 .. Width - 1 /\ full % Width <= full
      BY <2>2, <3>1, RemainderIsLess
    <3> QED BY <2>2, <3>1, <3>2, <3>3
  <2>4. /\ timer' = (now + q) % Clock
        /\ counter' = [t \in Tiers |-> IF runs(t) THEN 0 ELSE c[t]]
        /\ since'   = [t \in Tiers |-> IF runs(t) THEN q ELSE real[t] + q]
        /\ passes'  = [t \in Tiers |-> IF runs(t) THEN 0 ELSE passes[t] + 1]
        /\ wraps'   = [t \in Tiers |-> IF runs(t) THEN 0
                                       ELSE wraps[t] + (IF now < timer THEN 1 ELSE 0)]
        /\ cut'     = [t \in Tiers |-> IF runs(t) THEN 0 ELSE cut[t] + Over(p + Extra)]
    BY <2>1 DEF Pass
  <2>5. q \in Nat /\ p \in Nat /\ Clock \in Nat \ {0} /\ Extra \in Nat
    BY DEF TimerAssumption
  <2> HIDE DEF now, e, full
  <2>6. TypeOK'
    <3>1. timer' \in 0 .. Clock - 1
      <4>1. now + q \in Nat
        BY <2>2, <2>5
      <4> QED BY <2>4, <2>5, <4>1, RemainderIsLess
    <3>2. c \in [Tiers -> Nat] /\ real \in [Tiers -> Nat]
      BY <1>t, <2>3, <2>5 DEF TypeOK
    <3> HIDE DEF c, real
    <3>3. counter' \in [Tiers -> Nat] /\ since' \in [Tiers -> Nat]
      BY <2>4, <2>5, <3>2
    <3>4. passes' \in [Tiers -> Nat] /\ wraps' \in [Tiers -> Nat]
      BY <1>t, <2>4 DEF TypeOK
    <3>5. cut' \in [Tiers -> Nat]
      <4>1. Over(p + Extra) \in Nat
        BY <2>5, OverOf
      <4> QED BY <1>t, <2>4, <4>1 DEF TypeOK
    <3> QED BY <3>1, <3>3, <3>4, <3>5 DEF TypeOK
  <2>7. NeverFarAhead'
    <3> SUFFICES ASSUME NEW t \in Tiers
        PROVE counter'[t] <= since'[t] + Extra * passes'[t]
      BY DEF NeverFarAhead
    <3>1. CASE Due(t, c[t])
      BY <2>4, <2>5, <3>1
    <3>2. CASE ~Due(t, c[t])
      <4>1. /\ counter'[t] = counter[t] + e
            /\ since'[t] = since[t] + p + q
            /\ passes'[t] = passes[t] + 1
        BY <2>4, <3>2
      <4>2. /\ counter[t] \in Nat /\ since[t] \in Nat /\ passes[t] \in Nat
            /\ counter[t] <= since[t] + Extra * passes[t]
        BY <1>t DEF TimerInv, NeverFarAhead, TypeOK
      <4>3. Extra * (passes[t] + 1) = Extra * passes[t] + Extra
        BY <2>5, <4>2
      <4>4. Extra * passes[t] \in Nat
        BY <2>5, <4>2
      <4> QED BY <2>3, <2>5, <4>1, <4>2, <4>3, <4>4
    <3> QED BY <3>1, <3>2
  <2> QED BY <2>6, <2>7 DEF TimerInv
<1>2. CASE UNCHANGED timerVars
  BY <1>2 DEF timerVars, TimerInv, TypeOK, NeverFarAhead
<1> QED BY <1>1, <1>2

-----------------------------------------------------------------------------
(* A pass adds all of the time but what the readings lose and what the     *)
(* width leaves out.                                                       *)
LEMMA BehindStep ==
  ASSUME TimerAssumption, Between <= Extra, TimerInv, NeverBehind,
         [Next]_timerVars
  PROVE  NeverBehind'
<1>t. TypeOK
  BY DEF TimerInv
<1>1. CASE Next
  <2>1. PICK p \in Passes, q \in 0 .. Between : Pass(p, q)
    BY <1>1 DEF Next
  <2> DEFINE now  == (timer + p) % Clock
             full == IF now < timer THEN p - 1 ELSE p + Extra
             c    == [t \in Tiers |-> counter[t] + Elapsed(now)]
  <2>2. full \in Nat /\ Elapsed(now) = full % Width
    BY <1>t, DifferenceOfReadings DEF TypeOK
  <2>3. /\ p \in Nat \ {0} /\ q \in Nat /\ q <= Between /\ q <= Extra
        /\ Extra \in Nat /\ Between \in Nat
    BY DEF TimerAssumption
  <2>4. /\ Over(p + Extra) \in Nat /\ Elapsed(now) \in Nat
        /\ full <= Elapsed(now) + Over(p + Extra)
    <3> HIDE DEF now
    <3>1. full <= p + Extra /\ p + Extra \in Nat
      BY <2>3
    <3> HIDE DEF full
    <3> QED BY <2>2, <3>1, OverOf
  <2> SUFFICES ASSUME NEW t \in Tiers
               PROVE  since'[t] <= counter'[t] + Between + (Between + 1) * wraps'[t]
                                     + cut'[t]
    BY DEF NeverBehind
  <2>5. CASE Due(t, c[t])
    <3>1. counter'[t] = 0 /\ since'[t] = q /\ wraps'[t] = 0 /\ cut'[t] = 0
      BY <2>1, <2>5 DEF Pass
    <3> QED BY <2>3, <3>1
  <2>6. CASE ~Due(t, c[t])
    <3>1. /\ counter'[t] = counter[t] + Elapsed(now)
          /\ since'[t] = since[t] + p + q
          /\ wraps'[t] = wraps[t] + (IF now < timer THEN 1 ELSE 0)
          /\ cut'[t] = cut[t] + Over(p + Extra)
      BY <2>1, <2>6 DEF Pass
    <3>2. /\ counter[t] \in Nat /\ since[t] \in Nat /\ wraps[t] \in Nat
          /\ cut[t] \in Nat
          /\ since[t] <= counter[t] + Between + (Between + 1) * wraps[t] + cut[t]
      BY <1>t DEF NeverBehind, TypeOK
    <3>3. (Between + 1) * wraps[t] \in Nat
      BY <2>3, <3>2
    <3>4. CASE now < timer
      <4>1. wraps'[t] = wraps[t] + 1 /\ p - 1 <= Elapsed(now) + Over(p + Extra)
        BY <2>3, <2>4, <3>1, <3>2, <3>4
      <4>2. (Between + 1) * (wraps[t] + 1) = (Between + 1) * wraps[t] + Between + 1
        <5>1. \A b, w \in Nat : b * (w + 1) = b * w + b
          BY Z3
        <5> DEFINE b == Between + 1
        <5>2. b \in Nat
          BY <2>3
        <5> HIDE DEF b
        <5>3. b * (wraps[t] + 1) = b * wraps[t] + b
          BY <3>2, <5>1, <5>2
        <5> QED BY <2>3, <3>2, <3>3, <5>3 DEF b
      <4> HIDE DEF now
      <4> QED BY <2>3, <2>4, <3>1, <3>2, <3>3, <4>1, <4>2
    <3>5. CASE ~(now < timer)
      <4>1. /\ wraps'[t] = wraps[t]
            /\ p + Extra <= Elapsed(now) + Over(p + Extra)
        BY <2>3, <2>4, <3>1, <3>2, <3>5
      <4> HIDE DEF now
      <4> QED BY <2>3, <2>4, <3>1, <3>2, <3>3, <4>1
    <3> QED BY <3>4, <3>5
  <2> QED BY <2>5, <2>6
<1>2. CASE UNCHANGED timerVars
  BY <1>2 DEF timerVars, NeverBehind
<1> QED BY <1>1, <1>2

(* A tier that is due has counted no more than the real time and Extra for *)
(* each pass.                                                              *)
LEMMA DueIsNotEarly == ASSUME TimerAssumption, TimerInv PROVE EarlyByExtra
<1> SUFFICES ASSUME NEW t \in Tiers, NEW p \in Passes, Due(t, CountAfter(t, p))
             PROVE  since[t] + p + Extra * (passes[t] + 1) > Limit[t]
  BY DEF EarlyByExtra
<1> DEFINE now  == (timer + p) % Clock
           full == IF now < timer THEN p - 1 ELSE p + Extra
           e    == Elapsed(now)
<1>1. full \in Nat /\ e = full % Width
  BY DifferenceOfReadings DEF TimerInv, TypeOK
<1>2. /\ Width \in Nat \ {0} /\ p \in Nat /\ Extra \in Nat /\ Limit[t] \in Nat
      /\ counter[t] \in Nat /\ since[t] \in Nat /\ passes[t] \in Nat
      /\ counter[t] <= since[t] + Extra * passes[t]
  BY DEF TimerAssumption, TimerInv, NeverFarAhead, TypeOK
<1>3. full <= p + Extra
  BY <1>2
<1>4. counter[t] + e > Limit[t]
  BY DEF Due, CountAfter
<1> HIDE DEF e, full
<1>5. e \in Nat /\ e <= p + Extra
  <2>1. full % Width \in 0 .. Width - 1 /\ full % Width <= full
    BY <1>1, <1>2, RemainderIsLess
  <2> QED BY <1>1, <1>2, <1>3, <2>1
<1>6. /\ Extra * (passes[t] + 1) = Extra * passes[t] + Extra
      /\ Extra * passes[t] \in Nat
  BY <1>2, SMT
<1> QED BY <1>2, <1>4, <1>5, <1>6

(* and one that is not due has not lost more than the losses.              *)
LEMMA NotDueIsNotLate ==
  ASSUME TimerAssumption, Between <= Extra, TimerInv, NeverBehind
  PROVE  LateByLosses
<1> SUFFICES ASSUME NEW t \in Tiers, NEW p \in Passes,
                    since[t] + p >
                      Limit[t] + Between
                        + (Between + 1) * (wraps[t] + (IF Wraps(p) THEN 1 ELSE 0))
                        + cut[t] + Over(p + Extra),
                    ~Due(t, CountAfter(t, p))
             PROVE  FALSE
  BY DEF LateByLosses
<1> DEFINE now  == (timer + p) % Clock
           full == IF now < timer THEN p - 1 ELSE p + Extra
           e    == Elapsed(now)
<1>1. full \in Nat /\ e = full % Width
  BY DifferenceOfReadings DEF TimerInv, TypeOK
<1>2. /\ p \in Nat /\ Extra \in Nat /\ Between \in Nat /\ Limit[t] \in Nat
      /\ Width \in Nat \ {0}
      /\ counter[t] \in Nat /\ since[t] \in Nat /\ wraps[t] \in Nat
      /\ cut[t] \in Nat
      /\ since[t] <= counter[t] + Between + (Between + 1) * wraps[t] + cut[t]
  BY DEF TimerAssumption, TimerInv, NeverBehind, TypeOK
<1>3. full <= p + Extra /\ p <= full + (IF Wraps(p) THEN 1 ELSE 0)
  BY <1>2 DEF Wraps
<1>4. ~(counter[t] + e > Limit[t])
  BY DEF Due, CountAfter
<1> HIDE DEF e, full
<1>5. e \in Nat /\ Over(p + Extra) \in Nat /\ full <= e + Over(p + Extra)
  <2>1. p + Extra \in Nat
    BY <1>2
  <2> QED BY <1>1, <1>2, <1>3, <2>1, OverOf
<1>6. PICK k \in {0, 1} : k = (IF Wraps(p) THEN 1 ELSE 0)
  OBVIOUS
<1>7. /\ (Between + 1) * (wraps[t] + k) \in Nat /\ (Between + 1) * wraps[t] \in Nat
      /\ (Between + 1) * wraps[t] + k <= (Between + 1) * (wraps[t] + k)
  <2>1. \A b, w \in Nat : b * w \in Nat /\ b * (w + 1) = b * w + b
    BY Z3
  <2> DEFINE b == Between + 1
  <2>2. b \in Nat /\ b >= 1
    BY <1>2
  <2> HIDE DEF b
  <2>3. /\ b * wraps[t] \in Nat /\ b * (wraps[t] + 1) = b * wraps[t] + b
        /\ b * (wraps[t] + 1) \in Nat /\ wraps[t] + 1 \in Nat
    BY <1>2, <2>1, <2>2
  <2>4. b * (wraps[t] + k) \in Nat /\ b * wraps[t] + k <= b * (wraps[t] + k)
    <3>1. CASE k = 0
      <4>1. wraps[t] + k = wraps[t] /\ b * wraps[t] + k = b * wraps[t]
        BY <1>2, <2>3, <3>1
      <4> QED BY <2>3, <4>1
    <3>2. CASE k = 1
      BY <2>2, <2>3, <3>2
    <3> QED BY <1>6, <3>1, <3>2
  <2> QED BY <2>3, <2>4 DEF b
<1>8. since[t] + p > Limit[t] + Between + (Between + 1) * (wraps[t] + k)
                       + cut[t] + Over(p + Extra)
  BY <1>6
<1>9. p <= full + k
  BY <1>3, <1>6
<1>10. full <= p + Extra /\ full \in Nat
  BY <1>1, <1>3
<1> DEFINE x == (Between + 1) * (wraps[t] + k)
           y == (Between + 1) * wraps[t]
           z == Over(p + Extra)
<1>11. /\ x \in Nat /\ y \in Nat /\ z \in Nat /\ y + k <= x
       /\ since[t] <= counter[t] + Between + y + cut[t]
       /\ since[t] + p > Limit[t] + Between + x + cut[t] + z
       /\ full <= e + z
  BY <1>2, <1>5, <1>7, <1>8
<1> HIDE DEF x, y, z
<1> QED BY <1>2, <1>4, <1>5, <1>6, <1>9, <1>10, <1>11

(* A tier of the Due or of the Teensy runs early by less than Extra for    *)
(* each pass, and as long as Extra covers the time between the two         *)
(* readings late only for a wrap of the clock or a pass that is too long   *)
(* for the width: for any clock, width, limits and passes.                 *)
THEOREM TiersKeepTheirTime == TimerAssumption => (Spec => []TiersKeepTime)
<1> SUFFICES ASSUME TimerAssumption PROVE Spec => []TiersKeepTime
  OBVIOUS
<1> DEFINE Inv == TimerInv /\ (Between <= Extra => NeverBehind)
<1>1. Init => Inv
  BY TimerInit DEF TimerAssumption, Init, NeverBehind
<1>2. Inv /\ [Next]_timerVars => Inv'
  BY TimerStep, BehindStep
<1>3. Inv => TiersKeepTime
  BY DueIsNotEarly, NotDueIsNotLate DEF TiersKeepTime
<1> QED BY <1>1, <1>2, <1>3, PTL DEF Spec

-----------------------------------------------------------------------------
(* The scroll is where the clock says, and dark it is ready to start.      *)
ScrollKept ==
  /\ blinkerState # 0 => tempOne = Grill!CellAt(sinceStart)
  /\ blinkerMode = Grill!Off => doinItFirstTime

GrillInv == Grill!TypeOK /\ ScrollKept

(* A time below half the range of an int is not changed by the cut.        *)
LEMMA SmallIsKept ==
  ASSUME Grill!GrillAssumption, NEW n \in 0 .. BlinkTimeOut
  PROVE  Grill!AsInt(n) = n
<1>1. IntRange \in Nat \ {0} /\ BlinkTimeOut \in Nat /\ 2 * BlinkTimeOut < IntRange
  BY DEF Grill!GrillAssumption
<1>2. PICK h \in Int : h = IntRange \div 2
  BY <1>1
<1>3. n + h \in 0 .. IntRange - 1
  BY <1>1, <1>2
<1>4. (n + h) % IntRange = n + h
  BY <1>1, <1>3, ModOfSmall
<1> QED BY <1>2, <1>4 DEF Grill!AsInt

(* A cell is one of eight.                                                 *)
LEMMA CellType ==
  ASSUME Grill!GrillAssumption, NEW s \in Nat
  PROVE  /\ Grill!CellAt(s) \in 0 .. 7
         /\ \E q \in Int : \E e \in 0 .. DelayStep - 1 :
              s = 8 * DelayStep * q + (DelayStep * Grill!CellAt(s) + e)
<1> DEFINE D == DelayStep
           K == 8 * D
           r == s % K
           c == r \div D
           e == r % D
<1>1. D \in Nat \ {0} /\ K \in Nat \ {0}
  BY DEF Grill!GrillAssumption
<1> HIDE DEF D, K
<1>2. r \in 0 .. K - 1 /\ \E q \in Int : s = K * q + r
  <2>1. s \in Int
    OBVIOUS
  <2> QED BY <1>1, <2>1, DivMod, Zenon
<1>3. PICK q \in Int : s = K * q + r
  BY <1>2
<1> HIDE DEF r
<1>4. e \in 0 .. D - 1 /\ c \in Int /\ r = D * c + e
  <2>1. e \in 0 .. D - 1
    BY <1>1, <1>2, DivMod
  <2>2. r \in Int
    BY <1>1, <1>2
  <2>3. r = D * c + e /\ c \in Int
    BY <1>1, <2>2, SMT
  <2> QED BY <2>1, <2>3
<1>5. Grill!CellAt(s) = c
  BY DEF Grill!CellAt, c, r, K, D
<1> HIDE DEF c, e
<1>6. c \in 0 .. 7
  <2>1. ~(c >= 8)
    BY <1>1, <1>2, <1>4, SMT DEF K
  <2>2. ~(c <= -1)
    BY <1>1, <1>2, <1>4, SMT DEF K
  <2> QED BY <1>4, <2>1, <2>2
<1>7. s = K * q + (D * c + e)
  BY <1>3, <1>4
<1> QED BY <1>4, <1>5, <1>6, <1>7 DEF K, D

(* The cell of a time given by its parts.                                  *)
LEMMA CellIs ==
  ASSUME Grill!GrillAssumption, NEW q \in Int, NEW c \in 0 .. 7,
         NEW e \in 0 .. DelayStep - 1
  PROVE  Grill!CellAt(8 * DelayStep * q + (DelayStep * c + e)) = c
<1> DEFINE D == DelayStep
           K == 8 * D
           r == D * c + e
<1>1. D \in Nat \ {0} /\ K \in Nat \ {0}
  BY DEF Grill!GrillAssumption
<1>2. r \in 0 .. K - 1
  <2>1. D * c >= 0 /\ D * c <= 7 * D /\ D * c \in Int
    BY <1>1, SMT
  <2> QED BY <1>1, <2>1
<1> HIDE DEF D, K
<1>3. (K * q + r) % K = r
  BY <1>1, <1>2, ModIs
<1>4. r \div D = c
  BY <1>1, DivIs DEF D
<1> QED BY <1>3, <1>4 DEF Grill!CellAt, K, D

(* In a pass the scroll stays in its cell or goes on to the next.          *)
LEMMA NextCell ==
  ASSUME Grill!GrillAssumption, NEW s \in Nat, NEW d \in PassTimes
  PROVE  Grill!CellAt(s + d) \in {Grill!CellAt(s), (Grill!CellAt(s) + 1) % 8}
<1> DEFINE D == DelayStep
           c == Grill!CellAt(s)
<1>1. D \in Nat \ {0} /\ d \in 1 .. D
  BY DEF Grill!GrillAssumption
<1>2. c \in 0 .. 7
  BY CellType
<1>3. PICK q \in Int : \E e \in 0 .. D - 1 : s = 8 * D * q + (D * c + e)
  BY CellType
<1>4. PICK e \in 0 .. D - 1 : s = 8 * D * q + (D * c + e)
  BY <1>3
<1> HIDE DEF D, c
<1>5. D * c \in Int /\ 8 * D * q \in Int
  BY <1>1, <1>2, SMT
<1>6. CASE e + d < D
  <2>1. e + d \in 0 .. D - 1
    BY <1>1, <1>6
  <2>2. s + d = 8 * D * q + (D * c + (e + d))
    BY <1>1, <1>4, <1>5
  <2>3. Grill!CellAt(8 * D * q + (D * c + (e + d))) = c
    BY <1>2, <2>1, CellIs DEF D
  <2> QED BY <2>2, <2>3 DEF c
<1>7. CASE e + d >= D /\ c < 7
  <2>1. e + d - D \in 0 .. D - 1 /\ c + 1 \in 0 .. 7
    BY <1>1, <1>2, <1>7
  <2>2. s + d = 8 * D * q + (D * (c + 1) + (e + d - D))
    <3>1. D * (c + 1) = D * c + D
      BY <1>1, <1>2, SMT
    <3> QED BY <1>1, <1>4, <1>5, <3>1
  <2>3. Grill!CellAt(8 * D * q + (D * (c + 1) + (e + d - D))) = c + 1
    BY <2>1, CellIs DEF D
  <2>4. (c + 1) % 8 = c + 1
    BY <1>2, <1>7
  <2> QED BY <2>2, <2>3, <2>4 DEF c
<1>8. CASE e + d >= D /\ c = 7
  <2>1. e + d - D \in 0 .. D - 1 /\ q + 1 \in Int
    BY <1>1, <1>8
  <2>2. s + d = 8 * D * (q + 1) + (D * 0 + (e + d - D))
    <3>1. 8 * D * (q + 1) = 8 * D * q + 8 * D /\ D * 0 = 0 /\ D * c = 7 * D
      BY <1>1, <1>8, SMT
    <3> QED BY <1>1, <1>4, <1>5, <3>1
  <2>3. Grill!CellAt(8 * D * (q + 1) + (D * 0 + (e + d - D))) = 0
    BY <2>1, CellIs DEF D
  <2>4. (c + 1) % 8 = 0
    BY <1>8
  <2> QED BY <2>2, <2>3, <2>4 DEF c
<1> QED BY <1>1, <1>2, <1>6, <1>7, <1>8

(* The scroll starts at the first cell.                                    *)
LEMMA FirstCell == ASSUME Grill!GrillAssumption PROVE Grill!CellAt(0) = 0
<1> DEFINE K == 8 * DelayStep
<1>1. DelayStep \in Nat \ {0} /\ K \in Nat \ {0} /\ 0 \in 0 .. K - 1
  BY DEF Grill!GrillAssumption
<1> HIDE DEF K
<1>2. 0 % K = 0
  BY <1>1, ModOfSmall
<1>3. 0 \div DelayStep = 0
  BY <1>1, SMT
<1> QED BY <1>2, <1>3 DEF Grill!CellAt, K

(* At the start nothing has scrolled.                                      *)
LEMMA GrillInit == ASSUME Grill!GrillAssumption, Grill!Init PROVE GrillInv
<1>1. ULong \in Nat \ {0}
  BY DEF Grill!GrillAssumption
<1>2. sinceTwo \in 0 .. ULong - 1 /\ sinceStart \in 0 .. ULong - 1
  BY <1>1 DEF Grill!Init
<1>3. {doinIt, doinItFirstTime, rightTurn, leftTurn} \subseteq BOOLEAN
  BY DEF Grill!Init
<1>4. /\ blinkerState = 0 /\ blinkerMode = Grill!Hazard
      /\ Grill!Hazard \in Grill!Signals /\ Grill!Hazard # Grill!Off
  BY DEF Grill!Init, Grill!Signals, Grill!Hazard, Grill!Off
<1> QED BY <1>2, <1>3, <1>4 DEF GrillInv, Grill!TypeOK, ScrollKept

(* What a pass does with its two times.                                    *)
LEMMA PassTime ==
  ASSUME Grill!GrillAssumption, GrillInv, NEW signal \in Grill!Signals,
         NEW d \in PassTimes,
         Grill!Pass(signal, d)
  PROVE  /\ sinceTwo' \in 0 .. ULong - 1 /\ sinceStart' \in 0 .. ULong - 1
         /\ tempOne' \in 0 .. 7 /\ tempOne' = Grill!CellAt(sinceStart')
         /\ signal # blinkerMode /\ signal = Grill!Off => sinceTwo' <= BlinkTimeOut
         /\ Grill!RestartsScroll(signal) => sinceStart' = 0
         /\ ~Grill!RestartsScroll(signal) =>
              sinceStart' = (sinceStart + d) % ULong
<1>1. ULong \in Nat \ {0} /\ d \in Nat \ {0} /\ BlinkTimeOut \in Nat
  BY DEF Grill!GrillAssumption
<1>2. sinceTwo \in Nat /\ sinceStart \in Nat
  BY DEF GrillInv, Grill!TypeOK
<1>3. /\ (sinceTwo + d) % ULong \in 0 .. ULong - 1
      /\ (sinceStart + d) % ULong \in 0 .. ULong - 1
  <2>1. sinceTwo + d \in Int /\ sinceStart + d \in Int
    BY <1>1, <1>2
  <2> QED BY <1>1, <2>1, DivMod
<1>4. /\ sinceTwo' = Grill!RestartTimeOut(signal, (sinceTwo + d) % ULong)
      /\ sinceStart' = IF Grill!RestartsScroll(signal) THEN 0 ELSE (sinceStart + d) % ULong
      /\ tempOne' = Grill!CellAt(sinceStart')
  BY DEF Grill!Pass
<1>5. sinceTwo' \in 0 .. ULong - 1 /\ sinceStart' \in 0 .. ULong - 1
  BY <1>1, <1>3, <1>4 DEF Grill!RestartTimeOut
<1>6. tempOne' \in 0 .. 7
  <2>1. sinceStart' \in Nat
    BY <1>5
  <2> QED BY <1>4, <2>1, CellType
<1>7. signal # blinkerMode /\ signal = Grill!Off => sinceTwo' <= BlinkTimeOut
  BY <1>1, <1>3, <1>4 DEF Grill!RestartTimeOut
<1> QED BY <1>4, <1>5, <1>6, <1>7

(* What it does with the signal.                                           *)
LEMMA PassSignal ==
  ASSUME GrillInv, NEW signal \in Grill!Signals, NEW d \in PassTimes,
         Grill!Pass(signal, d)
  PROVE  /\ blinkerState' = signal
         /\ blinkerMode' = IF signal # Grill!Off \/ Grill!GoesOff(signal, sinceTwo')
                           THEN signal ELSE blinkerMode
         /\ doinItFirstTime' = Grill!NextFirstTime(Grill!GoesOff(signal, sinceTwo'),
                                             signal # blinkerMode)
BY DEF Grill!Pass

(* A pass keeps the types and the scroll.                                  *)
LEMMA PassKeeps ==
  ASSUME Grill!GrillAssumption, GrillInv, NEW signal \in Grill!Signals,
         NEW d \in PassTimes,
         Grill!Pass(signal, d)
  PROVE  GrillInv'
<1>1. Grill!TypeOK /\ ScrollKept /\ Grill!Off \in Grill!Signals
  BY DEF GrillInv, Grill!Signals
<1>2. blinkerState' \in Grill!Signals /\ blinkerMode' \in Grill!Signals
  BY <1>1, PassSignal DEF Grill!TypeOK
<1>3. {doinIt', doinItFirstTime', rightTurn', leftTurn'} \subseteq BOOLEAN
  BY <1>1 DEF Grill!Pass, Grill!NextFirstTime, Grill!TypeOK, Grill!GoesOff
<1>4. Grill!TypeOK'
  BY <1>2, <1>3, PassTime DEF Grill!TypeOK
<1>5. blinkerMode' = Grill!Off => doinItFirstTime'
  BY <1>1, PassSignal DEF ScrollKept, Grill!NextFirstTime, Grill!GoesOff
<1> QED BY <1>4, <1>5, PassTime DEF GrillInv, ScrollKept

(* What a pass may do to the light and to the scroll.                      *)
LEMMA PassObeys ==
  ASSUME Grill!GrillAssumption, GrillInv, NEW signal \in Grill!Signals,
         NEW d \in PassTimes,
         Grill!Pass(signal, d)
  PROVE  /\ blinkerMode # Grill!Off /\ blinkerMode' = Grill!Off => sinceTwo' = BlinkTimeOut
         /\ blinkerMode = Grill!Off /\ blinkerMode' # Grill!Off => tempOne' = 0
         /\ \/ blinkerMode = Grill!Off \/ blinkerState = 0
            \/ tempOne' \in {tempOne, (tempOne + 1) % 8}
            \/ sinceStart' < sinceStart /\ sinceStart > ULong - 1 - DelayStep
            \/ doinItFirstTime
<1>1. Grill!TypeOK /\ ScrollKept
  BY DEF GrillInv
<1>2. ASSUME blinkerMode # Grill!Off, blinkerMode' = Grill!Off PROVE sinceTwo' = BlinkTimeOut
  <2>1. signal = Grill!Off /\ Grill!GoesOff(signal, sinceTwo')
    BY <1>2, PassSignal
  <2>2. sinceTwo' \in 0 .. BlinkTimeOut
    BY <1>2, <2>1, PassTime DEF Grill!GrillAssumption
  <2>3. Grill!AsInt(sinceTwo') = sinceTwo'
    BY <2>2, SmallIsKept
  <2> QED BY <2>1, <2>2, <2>3 DEF Grill!GoesOff, Grill!GrillAssumption
<1>3. ASSUME blinkerMode = Grill!Off, blinkerMode' # Grill!Off PROVE tempOne' = 0
  <2>1. signal # blinkerMode /\ Grill!RestartsScroll(signal)
    BY <1>1, <1>3, PassSignal DEF ScrollKept, Grill!RestartsScroll
  <2> QED BY <2>1, PassTime, FirstCell
<1>4. ASSUME blinkerMode # Grill!Off, blinkerState # 0, ~doinItFirstTime
      PROVE  \/ tempOne' \in {tempOne, (tempOne + 1) % 8}
             \/ sinceStart' < sinceStart /\ sinceStart > ULong - 1 - DelayStep
  <2>1. sinceStart' = (sinceStart + d) % ULong
    BY <1>4, PassTime DEF Grill!RestartsScroll
  <2>2. /\ sinceStart \in 0 .. ULong - 1 /\ ULong \in Nat \ {0}
        /\ d \in 1 .. DelayStep /\ DelayStep \in Nat
    BY <1>1 DEF Grill!TypeOK, Grill!GrillAssumption
  <2>3. CASE sinceStart + d < ULong
    <3>1. sinceStart' = sinceStart + d
      BY <2>1, <2>2, <2>3, ModOfSmall
    <3>2. tempOne = Grill!CellAt(sinceStart) /\ tempOne' = Grill!CellAt(sinceStart + d)
      BY <1>1, <1>4, <3>1, PassTime DEF ScrollKept
    <3>3. sinceStart \in Nat
      BY <2>2
    <3> QED BY <3>2, <3>3, NextCell
  <2>4. CASE ~(sinceStart + d < ULong)
    <3>1. sinceStart' \in 0 .. ULong - 1
      BY PassTime
    <3>2. d \in 0 .. ULong - 1
      BY <2>2 DEF Grill!GrillAssumption
    <3>3. sinceStart' = sinceStart + d - ULong
      BY <2>1, <2>2, <2>4, <3>2, Around
    <3> QED BY <2>2, <2>4, <3>2, <3>3
  <2> QED BY <2>3, <2>4
<1> QED BY <1>2, <1>3, <1>4

(* Every pass keeps the invariant and does to the light and the scroll     *)
(* what it may.                                                            *)
LEMMA GrillStep ==
  ASSUME Grill!GrillAssumption, GrillInv, [Grill!Next]_(Grill!grillVars)
  PROVE  GrillInv'
<1>1. CASE Grill!Next
  BY <1>1, PassKeeps DEF Grill!Next
<1>2. CASE UNCHANGED Grill!grillVars
  BY <1>2 DEF Grill!grillVars, GrillInv, Grill!TypeOK, ScrollKept
<1> QED BY <1>1, <1>2

(* The light of the grill goes off in one millisecond only, starts at the  *)
(* first cell after darkness, and scrolls from cell to cell: for any       *)
(* widths of the clock and the int, and passes no longer than a cell.      *)
THEOREM GrillIsSteady == Grill!GrillAssumption => (Grill!Spec => GrillScrolls)
<1> SUFFICES ASSUME Grill!GrillAssumption PROVE Grill!Spec => GrillScrolls
  OBVIOUS
<1>1. Grill!Init => GrillInv
  BY GrillInit
<1>2. GrillInv /\ [Grill!Next]_(Grill!grillVars) => GrillInv'
  BY GrillStep
<1>3. GrillInv /\ [Grill!Next]_(Grill!grillVars) =>
        /\ [blinkerMode # Grill!Off /\ blinkerMode' = Grill!Off
              => sinceTwo' = BlinkTimeOut]_(Grill!grillVars)
        /\ [blinkerMode = Grill!Off /\ blinkerMode' # Grill!Off
              => tempOne' = 0]_(Grill!grillVars)
        /\ [\/ blinkerMode = Grill!Off \/ blinkerState = 0
            \/ tempOne' \in {tempOne, (tempOne + 1) % 8}
            \/ sinceStart' < sinceStart /\ sinceStart > ULong - 1 - DelayStep
            \/ doinItFirstTime]_(Grill!grillVars)
  BY PassObeys DEF Grill!Next
<1>4. GrillInv => Grill!TypeOK
  BY DEF GrillInv
<1> QED BY <1>1, <1>2, <1>3, <1>4, PTL
        DEF GrillScrolls, Grill!Spec, Grill!GrillScrolls, Grill!OffInOneMillisecond,
            Grill!ScrollStartsAtFirstCell, Grill!ScrollIsSteady

-----------------------------------------------------------------------------
(* What was typed is counted, and stands in buttonPress; the loop waits    *)
(* for the third press of a begun code only, at the first fade.            *)
Counted == Len(typed) = IF pressCount < 3 THEN pressCount ELSE 3
Held    == \A i \in 1 .. 3 : i <= Len(typed) => buttonPress[i - 1] = typed[i]
KeyHeld ==
  /\ stage \in {"wait", "decode"} =>
       pressCount >= 2 /\ buttonPress[0] = 1 /\ buttonPress[1] = 4
  /\ stage \in {"wait", "decode", "drop"} => fade = 1

(* No wait is longer than the step that began it made it.                  *)
Pause == IF mode = 6 THEN ShowPause ELSE IF mode = 5 THEN 1 ELSE 0
WaitsFit ==
  /\ stage = "wait"  => left <= CodeWait
  /\ stage = "fade"  => left <= Tag!FadeTime
  /\ stage = "pause" => left <= Pause

(* How long f fades and g pauses take after the brake has taken the pauses *)
(* out, which leaves those of mode 5.                                      *)
Pauses(g)        == IF mode = 5 THEN g ELSE 0
ShowLength(f, g) == f * Tag!FadeTime + Pauses(g)

BeforeShow == {"top", "timer", "limit", "reset", "brake", "look"}

(* A brake in the show leaves the wait that was running.                   *)
BrakedInShow ==
  braked = "show" =>
    /\ transBrake /\ tagA = 0 /\ stage \in Tag!InShow \cup {"top"}
    /\ stage = "look" => after = 0
    /\ stage = "wait" => after + left <= CodeWait
    /\ stage \in {"decode", "drop"} => after <= CodeWait
    /\ stage \in {"show", "fade"} =>
         after <= CodeWait + Pauses(fade - 1) \/ (mode # 5 /\ after <= ShowPause)
    /\ stage = "pause" =>
         \/ after + left <= CodeWait + Pauses(fade)
         \/ mode # 5 /\ after + left <= ShowPause
    /\ stage = "top" => after <= CodeWait + 2 \/ after <= ShowPause

(* One before it leaves a show without its pauses.                         *)
BrakedBefore ==
  braked = "begin" =>
    /\ tagA = 0
    /\ stage \in BeforeShow \ {"top"} => after = 0
    /\ stage = "wait" => after + left <= CodeWait
    /\ stage \in {"decode", "drop"} => after <= CodeWait
    /\ stage = "show"  => after <= CodeWait + ShowLength(fade - 1, fade - 1)
    /\ stage = "fade"  => after + left <= CodeWait + ShowLength(fade, fade - 1)
    /\ stage = "pause" => after + left <= CodeWait + ShowLength(fade, fade)
    /\ stage = "top"   => after <= CodeWait + Tag!Fades * Tag!FadeTime + 2

(* The invariant.                                                          *)
TypedKept == Counted /\ Held /\ KeyHeld
TagInv ==
  /\ Tag!TypeOK /\ TypedKept /\ WaitsFit /\ BrakedInShow /\ BrakedBefore

-----------------------------------------------------------------------------
(* The constants.                                                          *)
LEMMA Sizes ==
  ASSUME Tag!TagAssumption
  PROVE  /\ NPresses \in Nat /\ NPresses > 3 /\ TimeLimit \in Nat /\ CodeWait \in Nat
         /\ ShortFade \in Nat /\ ShowFade \in Nat /\ ShowPause \in Nat
         /\ SlowFade \in Nat /\ ShowFades \in Nat \ {0}
         /\ Presses \subseteq 0 .. 15
BY DEF Tag!TagAssumption

(* What a show of the present mode is made of.                             *)
LEMMA ShowShape ==
  ASSUME Tag!TagAssumption, mode \in Tag!Modes
  PROVE  /\ Tag!Fades \in Nat \ {0} /\ Tag!FadeTime \in Nat
         /\ mode = 5 => Tag!Fades = 2
BY Sizes DEF Tag!Modes, Tag!Fades, Tag!FadeTime

(* How its length grows.                                                   *)
LEMMA LengthGrows ==
  ASSUME Tag!TagAssumption, mode \in Tag!Modes, NEW f \in 1 .. Tag!Fades
  PROVE  /\ ShowLength(f, f) \in Nat /\ ShowLength(f, f - 1) \in Nat
         /\ ShowLength(f - 1, f - 1) \in Nat
         /\ ShowLength(0, 0) = 0
         /\ ShowLength(f, f - 1) = ShowLength(f - 1, f - 1) + Tag!FadeTime
         /\ ShowLength(f, f) = ShowLength(f, f - 1) + (IF mode = 5 THEN 1 ELSE 0)
         /\ ShowLength(f, f) <= Tag!Fades * Tag!FadeTime + 2
         /\ Tag!Fades * Tag!FadeTime \in Nat
<1>1. /\ Tag!Fades \in Nat \ {0} /\ Tag!FadeTime \in Nat /\ f \in Nat
      /\ 1 <= f /\ f <= Tag!Fades
      /\ mode = 5 => Tag!Fades = 2
  BY ShowShape
<1> DEFINE T == Tag!FadeTime
           N == Tag!Fades
<1>3. /\ f * T \in Nat /\ (f - 1) * T \in Nat /\ N * T \in Nat
      /\ f * T = (f - 1) * T + T /\ f * T <= N * T /\ 0 * T = 0
  <2> HIDE DEF T, N
  <2>1. T \in Nat /\ N \in Nat /\ f \in Nat /\ 1 <= f /\ f <= N
    BY <1>1 DEF T, N
  <2>2. f * T \in Nat /\ N * T \in Nat /\ 0 * T = 0
    BY <2>1, SMT
  <2>3. PICK g \in Nat : g = f - 1
    BY <2>1
  <2>4. g * T \in Nat /\ f = g + 1
    BY <2>1, <2>3, SMT
  <2>5. (g + 1) * T = g * T + T
    BY <2>1, <2>3, SMT
  <2>6. f * T <= N * T
    <3>1. PICK k \in Nat : N = f + k
      <4>1. N - f \in Nat /\ N = f + (N - f)
        BY <2>1
      <4> QED BY <4>1
    <3>2. (f + k) * T = f * T + k * T /\ k * T >= 0 /\ k * T \in Int
      BY <2>1, <3>1, SMT
    <3> QED BY <2>2, <3>1, <3>2
  <2> QED BY <2>2, <2>3, <2>4, <2>5, <2>6
<1> HIDE DEF T, N
<1>5. /\ ShowLength(f, f) = f * T + (IF mode = 5 THEN f ELSE 0)
      /\ ShowLength(f, f - 1) = f * T + (IF mode = 5 THEN f - 1 ELSE 0)
      /\ ShowLength(f - 1, f - 1) = (f - 1) * T + (IF mode = 5 THEN f - 1 ELSE 0)
      /\ ShowLength(0, 0) = 0 * T + 0
  BY DEF ShowLength, Pauses, T
<1>6. T = Tag!FadeTime /\ N = Tag!Fades
  BY DEF T, N
<1>7. CASE mode = 5
  <2>1. f <= 2
    BY <1>1, <1>7
  <2> QED BY <1>1, <1>3, <1>5, <1>6, <1>7, <2>1
<1>8. CASE mode # 5
  BY <1>1, <1>3, <1>5, <1>6, <1>8
<1> QED BY <1>7, <1>8

(* At the start nothing was pressed.                                       *)
LEMMA TagInit == ASSUME Tag!TagAssumption, Tag!Init PROVE TagInv
<1>1. Tag!Fades = 1 /\ mode = 3 /\ fade = 1
  BY DEF Tag!Init, Tag!Fades
<1>2. Tag!TypeOK
  <2>1. /\ stage \in Tag!Stages /\ left \in Nat /\ mode \in Tag!Modes
        /\ fade \in 1 .. Tag!Fades
        /\ tagA \in {0, ShowPause} /\ pressCount \in 0 .. NPresses
        /\ buttonPress \in [0 .. 2 -> Presses \cup {0}] /\ age \in 0 .. TimeLimit + 1
    BY <1>1, Sizes DEF Tag!Init, Tag!Stages, Tag!Modes
  <2>2. {transBrake, overrun} \subseteq BOOLEAN
    BY DEF Tag!Init
  <2>3. typed = <<>> /\ braked = "not" /\ after = 0
    BY DEF Tag!Init
  <2>4. typed \in Seq(Presses \ {0}) /\ Len(typed) <= 3
    BY <2>3, EmptySeq
  <2> QED BY <2>1, <2>2, <2>3, <2>4 DEF Tag!TypeOK
<1>3. TypedKept
  BY DEF Tag!Init, TypedKept, Counted, Held, KeyHeld
<1>4. WaitsFit /\ BrakedInShow /\ BrakedBefore
  BY DEF Tag!Init, WaitsFit, BrakedInShow, BrakedBefore
<1> QED BY <1>2, <1>3, <1>4 DEF TagInv

(* A press is counted unless it is none, or there is no room for it.       *)
LEMMA PressCounted ==
  ASSUME Tag!TagAssumption, TagInv, NEW press \in Presses,
         Tag!KeyFobInterrupt(press)
  PROVE  /\ pressCount \in 0 .. NPresses /\ NPresses \in Nat /\ NPresses > 3
         /\ overrun' <=> pressCount >= NPresses
         /\ press = 0 => pressCount' = pressCount
         /\ pressCount >= NPresses => pressCount' = pressCount
         /\ press # 0 /\ pressCount < NPresses => pressCount' = pressCount + 1
         /\ pressCount' \in 0 .. NPresses
<1>1. pressCount \in 0 .. NPresses /\ NPresses \in Nat /\ NPresses > 3
  BY Sizes DEF TagInv, Tag!TypeOK
<1>2. overrun' <=> pressCount >= NPresses
  BY <1>1 DEF Tag!KeyFobInterrupt
<1>3. pressCount' = IF press # 0 /\ ~overrun' THEN pressCount + 1 ELSE pressCount
  BY DEF Tag!KeyFobInterrupt
<1>4. CASE pressCount >= NPresses
  BY <1>1, <1>2, <1>3, <1>4
<1>5. CASE ~(pressCount >= NPresses)
  BY <1>1, <1>2, <1>3, <1>5
<1> QED BY <1>1, <1>2, <1>4, <1>5

(* The presses are typed as they are counted.                              *)
LEMMA PressTyped ==
  ASSUME Tag!TagAssumption, TagInv, NEW press \in Presses,
         Tag!KeyFobInterrupt(press)
  PROVE  TypedKept' /\ typed' \in Seq(Presses \ {0}) /\ Len(typed') <= 3
<1>1. /\ pressCount \in Nat /\ Counted /\ Held /\ KeyHeld
      /\ NPresses \in Nat /\ NPresses > 3
      /\ buttonPress \in [0 .. 2 -> Presses \cup {0}]
      /\ typed \in Seq(Presses \ {0}) /\ overrun = FALSE
  BY Sizes DEF TagInv, Tag!TypeOK, TypedKept, Tag!KeyFobInterrupt
<1>2. /\ buttonPress' = IF pressCount \in 0 .. 2
                        THEN [buttonPress EXCEPT ![pressCount] = press] ELSE buttonPress
      /\ typed' = IF press # 0 /\ Len(typed) < 3 THEN Append(typed, press) ELSE typed
      /\ UNCHANGED <<stage, fade>>
  BY DEF Tag!KeyFobInterrupt
<1>3. Len(typed) \in Nat
  BY <1>1, LenProperties
<1>4. CASE press # 0 /\ Len(typed) < 3
  <2>1. pressCount < 3 /\ Len(typed) = pressCount /\ ~(pressCount >= NPresses)
    BY <1>1, <1>3, <1>4 DEF Counted
  <2>2. pressCount' = pressCount + 1 /\ pressCount \in 0 .. 2
    BY <1>1, <1>4, <2>1, PressCounted
  <2>3. typed' = Append(typed, press) /\ press \in Presses \ {0}
    BY <1>2, <1>4
  <2>4. /\ typed' \in Seq(Presses \ {0}) /\ Len(typed') = Len(typed) + 1
        /\ \A i \in 1 .. Len(typed) : typed'[i] = typed[i]
        /\ typed'[Len(typed) + 1] = press
    BY <1>1, <2>3, AppendProperties
  <2>5. /\ \A i \in 0 .. 2 : i # pressCount => buttonPress'[i] = buttonPress[i]
        /\ buttonPress'[pressCount] = press
    BY <1>1, <1>2, <2>2
  <2>6. Counted'
    BY <2>1, <2>2, <2>4 DEF Counted
  <2>7. Held'
    <3> SUFFICES ASSUME NEW i \in 1 .. 3, i <= Len(typed')
                 PROVE  buttonPress'[i - 1] = typed'[i]
      BY DEF Held
    <3>1. CASE i = pressCount + 1
      BY <1>1, <2>1, <2>4, <2>5, <3>1
    <3>2. CASE i # pressCount + 1
      <4>1. i \in 1 .. Len(typed) /\ i - 1 \in 0 .. 2 /\ i - 1 # pressCount
        BY <1>1, <2>1, <2>4, <3>2
      <4> QED BY <1>1, <2>4, <2>5, <4>1 DEF Held
    <3> QED BY <3>1, <3>2
  <2>8. KeyHeld'
    BY <1>1, <1>2, <2>1, <2>2, <2>5 DEF KeyHeld
  <2> QED BY <2>1, <2>4, <2>6, <2>7, <2>8 DEF TypedKept
<1>5. CASE ~(press # 0 /\ Len(typed) < 3)
  <2>1. typed' = typed
    BY <1>2, <1>5
  <2>2. Len(typed) <= 3
    BY <1>1 DEF Counted
  <2>3. /\ \A i \in 0 .. 2 : i < pressCount => buttonPress'[i] = buttonPress[i]
        /\ pressCount' = pressCount \/ (Len(typed) = 3 /\ pressCount' = pressCount + 1)
    <3>1. \A i \in 0 .. 2 : i < pressCount => buttonPress'[i] = buttonPress[i]
      BY <1>1, <1>2
    <3>2. press = 0 \/ Len(typed) = 3
      <4>1. ~(Len(typed) < 3) => Len(typed) = 3
        BY <1>1 DEF Counted
      <4> QED BY <1>5, <4>1, Zenon
    <3>3. CASE press = 0
      BY <3>1, <3>3, PressCounted
    <3>4. CASE press # 0
      <4>1. pressCount' = pressCount \/ pressCount' = pressCount + 1
        BY <3>4, PressCounted
      <4> QED BY <3>1, <3>2, <3>4, <4>1
    <3> QED BY <3>3, <3>4
  <2>4. pressCount' = pressCount \/ (pressCount >= 3 /\ pressCount' = pressCount + 1)
    BY <1>1, <2>3 DEF Counted
  <2>5. Counted'
    BY <1>1, <2>1, <2>4 DEF Counted
  <2>6. Held'
    BY <1>1, <1>3, <2>1, <2>3 DEF Held, Counted
  <2>7. KeyHeld'
    BY <1>1, <1>2, <2>3, <2>4 DEF KeyHeld
  <2> QED BY <1>1, <2>1, <2>2, <2>5, <2>6, <2>7 DEF TypedKept
<1> QED BY <1>4, <1>5

(* What a press does to the rest.                                          *)
LEMMA PressKeeps ==
  ASSUME Tag!TagAssumption, TagInv, NEW press \in Presses,
         Tag!KeyFobInterrupt(press)
  PROVE  TagInv'
<1>1. /\ Tag!TypeOK /\ WaitsFit /\ BrakedInShow /\ BrakedBefore
      /\ overrun = FALSE
  BY DEF TagInv, Tag!TypeOK, Tag!KeyFobInterrupt
<1>2. TypedKept' /\ typed' \in Seq(Presses \ {0}) /\ Len(typed') <= 3
  BY PressTyped
<1>3. UNCHANGED <<stage, left, fade, mode, age>>
  BY DEF Tag!KeyFobInterrupt
<1>4. /\ press # 15 => UNCHANGED <<transBrake, tagA, braked, after>>
      /\ press = 15 => /\ transBrake' = TRUE /\ tagA' = 0
                       /\ braked' = IF stage \in Tag!InShow THEN "show"
                                    ELSE IF stage # "top" THEN "begin" ELSE braked
                       /\ after' = IF braked' = braked THEN after ELSE 0
  BY DEF Tag!KeyFobInterrupt
<1>5. UNCHANGED <<Tag!Fades, Tag!FadeTime, Pause, Pauses(fade), Pauses(fade - 1)>>
  BY <1>3 DEF Tag!Fades, Tag!FadeTime, Pause, Pauses
<1>6. pressCount' \in 0 .. NPresses
  BY PressCounted
<1>7. buttonPress' \in [0 .. 2 -> Presses \cup {0}]
  BY <1>1 DEF Tag!KeyFobInterrupt, Tag!TypeOK
<1>8. Tag!TypeOK'
  <2>1. /\ tagA' \in {0, ShowPause} /\ after' \in Nat
        /\ braked' \in {"not", "begin", "show"}
    BY <1>1, <1>4 DEF Tag!TypeOK
  <2>2. transBrake' \in BOOLEAN
    BY <1>1, <1>3, <1>4, Zenon DEF Tag!TypeOK
  <2>3. overrun' \in BOOLEAN
    BY DEF Tag!KeyFobInterrupt
  <2> QED BY <1>1, <1>2, <1>3, <1>5, <1>6, <1>7, <2>1, <2>2, <2>3 DEF Tag!TypeOK
<1>9. WaitsFit'
  BY <1>1, <1>3, <1>5 DEF WaitsFit
<1>11. BrakedInShow'
  <2>1. CASE press = 15
    <3>1. CASE stage \in Tag!InShow
      <4>1. transBrake' = TRUE /\ tagA' = 0 /\ braked' = "show"
        BY <1>4, <2>1, <3>1
      <4>2. (braked = "show" /\ after' = after) \/ after' = 0
        BY <1>4, <2>1, <4>1
      <4>3. CASE braked = "show" /\ after' = after
        BY <1>1, <1>3, <1>5, <4>1, <4>3 DEF BrakedInShow
      <4>4. CASE after' = 0
        <5>1. /\ left \in Nat /\ fade \in Nat /\ fade >= 1 /\ CodeWait \in Nat
              /\ ShowPause \in Nat
          BY <1>1, Sizes, ShowShape DEF Tag!TypeOK
        <5> QED BY <1>1, <1>3, <1>5, <3>1, <4>1, <4>4, <5>1
                DEF BrakedInShow, Tag!InShow, WaitsFit, Pause, Pauses
      <4> QED BY <4>2, <4>3, <4>4
    <3>2. CASE stage \notin Tag!InShow
      BY <1>1, <1>3, <1>4, <1>5, <2>1, <3>2 DEF BrakedInShow, Tag!InShow
    <3> QED BY <3>1, <3>2
  <2>2. CASE press # 15
    BY <1>1, <1>3, <1>4, <1>5, <2>2 DEF BrakedInShow
  <2> QED BY <2>1, <2>2
<1>12. BrakedBefore'
  BY <1>1, <1>3, <1>4, <1>5 DEF BrakedBefore, Tag!InShow, BeforeShow,
     Tag!TypeOK, ShowLength
<1> QED BY <1>2, <1>8, <1>9, <1>11, <1>12 DEF TagInv

(* A step that leaves the presses alone keeps what is known of them.       *)
LEMMA TypedStays ==
  ASSUME TypedKept, UNCHANGED <<pressCount, buttonPress, typed>>,
         stage' \in {"wait", "decode"} =>
           stage \in {"wait", "decode"}
             \/ (pressCount >= 2 /\ buttonPress[0] = 1 /\ buttonPress[1] = 4),
         stage' \in {"wait", "decode", "drop"} => fade' = 1
  PROVE  TypedKept'
BY DEF TypedKept, Counted, Held, KeyHeld

(* Forgetting them forgets what was typed.                                 *)
LEMMA TypedForgotten ==
  ASSUME Tag!Forget, stage' \notin {"wait", "decode", "drop"}
  PROVE  TypedKept' /\ typed' \in Seq(Presses \ {0}) /\ Len(typed') <= 3
<1>1. typed' = <<>> /\ pressCount' = 0
  BY DEF Tag!Forget
<1>2. typed' \in Seq(Presses \ {0}) /\ Len(typed') = 0
  BY <1>1, EmptySeq
<1> QED BY <1>1, <1>2 DEF TypedKept, Counted, Held, KeyHeld

(* What the invariant says that a step of the loop uses.                   *)
LEMMA Parts ==
  ASSUME Tag!TagAssumption, TagInv
  PROVE  /\ Tag!TypeOK /\ TypedKept /\ WaitsFit
         /\ BrakedInShow /\ BrakedBefore
         /\ Tag!Fades \in Nat \ {0} /\ Tag!FadeTime \in Nat
         /\ left \in Nat /\ after \in Nat /\ fade \in 1 .. Tag!Fades
         /\ mode \in Tag!Modes /\ pressCount \in Nat /\ CodeWait \in Nat
         /\ ShowPause \in Nat
<1>1. Tag!TypeOK
  BY DEF TagInv
<1>2. CodeWait \in Nat /\ ShowPause \in Nat /\ NPresses \in Nat
  BY Sizes
<1>3. /\ left \in Nat /\ after \in Nat /\ fade \in 1 .. Tag!Fades
      /\ mode \in Tag!Modes
      /\ pressCount \in Nat
  BY <1>1, <1>2 DEF Tag!TypeOK
<1>5. Tag!Fades \in Nat \ {0} /\ Tag!FadeTime \in Nat
  BY <1>3, ShowShape
<1> QED BY <1>1, <1>2, <1>3, <1>5 DEF TagInv

(* The steps before the show: no time passes.                              *)
LEMMA BeforeKeeps ==
  ASSUME Tag!TagAssumption, TagInv,
         Tag!Timer \/ Tag!CheckAge \/ Tag!Reset \/ Tag!ReleaseBrake
  PROVE  TagInv'
<1>1. /\ overrun = FALSE /\ stage \in BeforeShow \ {"top", "look"}
      /\ stage' \in BeforeShow \ {"top"}
      /\ UNCHANGED <<left, fade, mode, tagA, buttonPress, overrun, braked, after>>
  BY Parts DEF Tag!Timer, Tag!CheckAge, Tag!Reset, Tag!ReleaseBrake, Tag!Go,
     Tag!loopOnly, Tag!history, BeforeShow, Tag!TypeOK
<1>2. UNCHANGED <<Tag!Fades, Tag!FadeTime>>
  BY <1>1 DEF Tag!Fades, Tag!FadeTime
<1>3. (UNCHANGED <<pressCount, typed>>) \/ Tag!Forget
  BY DEF Tag!Timer, Tag!CheckAge, Tag!Reset, Tag!ReleaseBrake, Tag!loopOnly,
     Tag!history
<1>4. TypedKept' /\ typed' \in Seq(Presses \ {0}) /\ Len(typed') <= 3
  <2>1. stage' \notin {"wait", "decode", "drop"}
    BY <1>1 DEF BeforeShow
  <2>2. CASE Tag!Forget
    BY <2>1, <2>2, TypedForgotten
  <2>3. CASE UNCHANGED <<pressCount, typed>>
    BY <1>1, <2>1, <2>3, Parts, TypedStays DEF Tag!TypeOK
  <2> QED BY <1>3, <2>2, <2>3
<1>5. pressCount' \in 0 .. NPresses
  <2>1. pressCount \in 0 .. NPresses /\ NPresses \in Nat
    BY Parts, Sizes DEF Tag!TypeOK
  <2> QED BY <1>3, <2>1 DEF Tag!Forget
<1>6. age' \in 0 .. TimeLimit + 1
  <2>1. age' \in {0, age}
    BY DEF Tag!Timer, Tag!CheckAge, Tag!Reset, Tag!ReleaseBrake, Tag!Forget
  <2>2. age \in 0 .. TimeLimit + 1 /\ TimeLimit \in Nat
    BY Parts, Sizes DEF Tag!TypeOK
  <2> QED BY <2>1, <2>2
<1>7. transBrake' \in BOOLEAN
  <2>1. transBrake' \in {transBrake, FALSE}
    BY <1>1 DEF Tag!Timer, Tag!CheckAge, Tag!Reset, Tag!ReleaseBrake
  <2> QED BY <2>1, Parts, Zenon DEF Tag!TypeOK
<1>8. stage' \in Tag!Stages
  BY <1>1 DEF BeforeShow, Tag!Stages
<1>9. overrun' \in BOOLEAN
  BY <1>1
<1>10. Tag!TypeOK'
  BY <1>1, <1>2, <1>4, <1>5, <1>6, <1>7, <1>8, <1>9, Parts DEF Tag!TypeOK
<1>11. WaitsFit'
  BY <1>1 DEF WaitsFit, BeforeShow
<1>13. BrakedInShow'
  BY <1>1, Parts DEF BrakedInShow, Tag!InShow, BeforeShow
<1>14. BrakedBefore'
  BY <1>1, Parts DEF BrakedBefore, BeforeShow
<1> QED BY <1>4, <1>9, <1>10, <1>11, <1>13, <1>14 DEF TagInv

(* A new pass forgets that the brake was pressed.                          *)
LEMMA TopKeeps == ASSUME Tag!TagAssumption, TagInv, Tag!Top PROVE TagInv'
<1>1. /\ overrun = FALSE /\ stage = "top" /\ stage' = "timer" /\ tagA' = ShowPause
      /\ braked' = "not" /\ after' = 0
      /\ UNCHANGED <<left, fade, mode, pressCount, buttonPress, age, transBrake,
                     overrun, typed>>
  BY Parts DEF Tag!Top, Tag!Go, Tag!TypeOK
<1>2. UNCHANGED <<Tag!Fades, Tag!FadeTime>>
  BY <1>1 DEF Tag!Fades, Tag!FadeTime
<1>3. TypedKept'
  BY <1>1, Parts, TypedStays
<1>4. Tag!TypeOK'
  BY <1>1, <1>2, Parts DEF Tag!TypeOK, Tag!Stages
<1>5. WaitsFit' /\ BrakedInShow' /\ BrakedBefore'
  BY <1>1 DEF WaitsFit, BrakedInShow, BrakedBefore
<1> QED BY <1>3, <1>4, <1>5 DEF TagInv

(* With a begun code the loop waits; one or no press leaves room for the   *)
(* show.                                                                   *)
LEMMA LookKeeps == ASSUME Tag!TagAssumption, TagInv, Tag!Look PROVE TagInv'
<1>1. /\ overrun = FALSE /\ stage = "look" /\ fade' = 1
      /\ UNCHANGED <<mode, tagA, pressCount, buttonPress, age, transBrake,
                     overrun, typed, braked, after>>
  BY Parts DEF Tag!Look, Tag!TypeOK, Tag!loopOnly, Tag!history
<1>2. \/ /\ stage' = "wait" /\ left' = CodeWait
         /\ pressCount >= 2 /\ buttonPress[0] = 1 /\ buttonPress[1] = 4
      \/ stage' = "drop" /\ left' = left
      \/ stage' = "show" /\ left' = left /\ ~(pressCount >= 2)
  BY DEF Tag!Look, Tag!Go
<1>3. UNCHANGED <<Tag!Fades, Tag!FadeTime>> /\ 1 \in 1 .. Tag!Fades
  BY <1>1, Parts DEF Tag!Fades, Tag!FadeTime
<1>4. TypedKept'
  BY <1>1, <1>2, Parts, TypedStays
<1>5. Tag!TypeOK'
  BY <1>1, <1>2, <1>3, Parts DEF Tag!TypeOK, Tag!Stages
<1>6. WaitsFit'
  BY <1>2, Parts DEF WaitsFit
<1>7. ShowLength(fade - 1, fade - 1)' = 0
  <2>1. ShowLength(0, 0) = 0
    BY <1>3, Parts, LengthGrows
  <2>2. UNCHANGED <<Pauses(0), Tag!FadeTime>> /\ fade' - 1 = 0
    BY <1>1, <1>3 DEF Pauses
  <2> QED BY <2>1, <2>2 DEF ShowLength
<1>9. BrakedInShow'
  BY <1>1, <1>2, Parts DEF BrakedInShow, Tag!InShow, Pauses
<1>10. BrakedBefore'
  BY <1>1, <1>2, <1>7, Parts DEF BrakedBefore, BeforeShow
<1> QED BY <1>4, <1>5, <1>6, <1>9, <1>10 DEF TagInv

(* The end of the wait for the third press.                                *)
LEMMA EndWaitKeeps == ASSUME Tag!TagAssumption, TagInv, Tag!EndWait PROVE TagInv'
<1>1. /\ overrun = FALSE /\ stage = "wait" /\ left = 0 /\ stage' = "decode"
      /\ UNCHANGED <<left, fade, mode, tagA, pressCount, buttonPress, age, transBrake,
                     overrun, typed, braked, after>>
  BY Parts DEF Tag!EndWait, Tag!Go, Tag!TypeOK, Tag!loopOnly, Tag!history
<1>2. UNCHANGED <<Tag!Fades, Tag!FadeTime>>
  BY <1>1 DEF Tag!Fades, Tag!FadeTime
<1>3. TypedKept'
  <2>1. fade = 1
    BY <1>1, Parts DEF TypedKept, KeyHeld
  <2> QED BY <1>1, <2>1, Parts, TypedStays
<1>4. Tag!TypeOK'
  BY <1>1, <1>2, Parts DEF Tag!TypeOK, Tag!Stages
<1>5. /\ WaitsFit'
      /\ BrakedInShow'
      /\ BrakedBefore'
  <2>1. WaitsFit'
    BY <1>1 DEF WaitsFit
  <2>2. after + left <= CodeWait /\ left = 0 => after <= CodeWait
    BY Parts
  <2>3. BrakedInShow'
    BY <1>1, <2>2, Parts DEF BrakedInShow, Tag!InShow
  <2>4. BrakedBefore'
    BY <1>1, <2>2, Parts DEF BrakedBefore, BeforeShow
  <2> QED BY <2>1, <2>3, <2>4
<1> QED BY <1>3, <1>4, <1>5 DEF TagInv

(* The codes choose modes.                                                 *)
LEMMA ModeType == ASSUME mode \in Tag!Modes, NEW code
                  PROVE  Tag!ModeAfter(code) \in Tag!Modes
BY DEF Tag!ModeAfter, Tag!Chooses, Tag!Modes

(* Decoding may change the mode, at the first fade.                        *)
LEMMA DecodeKeeps == ASSUME Tag!TagAssumption, TagInv, Tag!Decode PROVE TagInv'
<1>1. /\ overrun = FALSE /\ stage = "decode" /\ stage' = "drop"
      /\ UNCHANGED <<left, fade, tagA, pressCount, buttonPress, age, transBrake,
                     overrun, typed, braked, after>>
  BY Parts DEF Tag!Decode, Tag!Go, Tag!TypeOK, Tag!loopOnly, Tag!history
<1>2. mode' \in Tag!Modes
  BY Parts, ModeType DEF Tag!Decode
<1>3. fade = 1
  BY <1>1, Parts DEF TypedKept, KeyHeld
<1>4. 1 \in 1 .. Tag!Fades'
  BY <1>2, Sizes DEF Tag!Fades, Tag!Modes
<1>5. TypedKept'
  BY <1>1, <1>3, Parts, TypedStays
<1>6. Tag!TypeOK'
  BY <1>1, <1>2, <1>3, <1>4, Parts DEF Tag!TypeOK, Tag!Stages
<1>7. WaitsFit' /\ BrakedInShow' /\ BrakedBefore'
  BY <1>1, Parts DEF WaitsFit, BeforeShow, BrakedInShow,
     BrakedBefore, Tag!InShow
<1> QED BY <1>5, <1>6, <1>7 DEF TagInv

(* Dropping the presses makes room for those of the show.                  *)
LEMMA DropKeeps == ASSUME Tag!TagAssumption, TagInv, Tag!Drop PROVE TagInv'
<1>1. /\ overrun = FALSE /\ stage = "drop" /\ stage' = "show" /\ Tag!Forget
      /\ UNCHANGED <<left, fade, mode, tagA, buttonPress, age, transBrake,
                     overrun, braked, after>>
  BY Parts DEF Tag!Drop, Tag!Go, Tag!TypeOK
<1>2. UNCHANGED <<Tag!Fades, Tag!FadeTime, Pauses(0)>>
  BY <1>1 DEF Tag!Fades, Tag!FadeTime, Pauses
<1>3. TypedKept' /\ typed' \in Seq(Presses \ {0}) /\ Len(typed') <= 3
  BY <1>1, TypedForgotten
<1>4. pressCount' \in 0 .. NPresses
  BY <1>1, Sizes DEF Tag!Forget
<1>5. Tag!TypeOK'
  BY <1>1, <1>2, <1>3, <1>4, Parts DEF Tag!TypeOK, Tag!Stages
<1>6. fade = 1
  BY <1>1, Parts DEF TypedKept, KeyHeld
<1>7. ShowLength(fade - 1, fade - 1)' = 0
  <2>1. ShowLength(0, 0) = 0
    BY Parts, LengthGrows
  <2>2. fade' - 1 = 0
    BY <1>1, <1>6
  <2> QED BY <1>2, <2>1, <2>2 DEF ShowLength
<1>8. WaitsFit'
  BY <1>1 DEF WaitsFit
<1>9. BrakedInShow' /\ BrakedBefore'
  BY <1>1, <1>6, <1>7, Parts DEF BrakedInShow, BrakedBefore, Tag!InShow,
     BeforeShow, Pauses
<1> QED BY <1>3, <1>5, <1>8, <1>9 DEF TagInv

(* What the length of the show is at the present fade.                     *)
LEMMA Lengths ==
  ASSUME Tag!TagAssumption, TagInv
  PROVE  /\ ShowLength(fade, fade) \in Nat /\ ShowLength(fade, fade - 1) \in Nat
         /\ ShowLength(fade - 1, fade - 1) \in Nat /\ Tag!Fades * Tag!FadeTime \in Nat
         /\ ShowLength(fade, fade - 1) = ShowLength(fade - 1, fade - 1) + Tag!FadeTime
         /\ ShowLength(fade, fade)
              = ShowLength(fade, fade - 1) + (IF mode = 5 THEN 1 ELSE 0)
         /\ ShowLength(fade, fade) <= Tag!Fades * Tag!FadeTime + 2
       BY Parts, LengthGrows

(* While the mode stays, so does what a show is made of.                   *)
LEMMA ShowStays ==
  ASSUME UNCHANGED <<mode, fade>>
  PROVE  UNCHANGED <<Tag!Fades, Tag!FadeTime, Pause, Pauses(fade), Pauses(fade - 1),
                     ShowLength(fade, fade), ShowLength(fade, fade - 1),
                     ShowLength(fade - 1, fade - 1)>>
<1>1. UNCHANGED <<Tag!Fades, Tag!FadeTime, Pause, Pauses(fade), Pauses(fade - 1)>>
  BY DEF Tag!Fades, Tag!FadeTime, Pause, Pauses
<1> QED BY <1>1 DEF ShowLength

(* A fade begins.                                                          *)
LEMMA StartFadeKeeps == ASSUME Tag!TagAssumption, TagInv, Tag!StartFade
                        PROVE  TagInv'
<1>1. /\ overrun = FALSE /\ stage = "show" /\ stage' = "fade" /\ left' = Tag!FadeTime
      /\ UNCHANGED <<fade, mode, tagA, pressCount, buttonPress, age, transBrake,
                     overrun, typed, braked, after>>
  BY Parts DEF Tag!StartFade, Tag!Go, Tag!TypeOK, Tag!loopOnly, Tag!history
<1>3. TypedKept'
  BY <1>1, Parts, TypedStays
<1>4. Tag!TypeOK'
  BY <1>1, ShowStays, Parts DEF Tag!TypeOK, Tag!Stages
<1>5. WaitsFit'
  BY <1>1, ShowStays, Parts DEF WaitsFit
<1>7. BrakedInShow'
  BY <1>1, ShowStays, Parts DEF BrakedInShow, Tag!InShow
<1>8. BrakedBefore'
  BY <1>1, ShowStays, Lengths, Parts DEF BrakedBefore, BeforeShow
<1> QED BY <1>3, <1>4, <1>5, <1>7, <1>8 DEF TagInv

(* A fade ends; with the brake pressed the pause after it has no length,   *)
(* except in mode 5.                                                       *)
LEMMA EndFadeKeeps == ASSUME Tag!TagAssumption, TagInv, Tag!EndFade PROVE TagInv'
<1>1. /\ overrun = FALSE /\ stage = "fade" /\ stage' = "pause"
      /\ left' = Tag!PauseTime
      /\ UNCHANGED <<fade, mode, tagA, pressCount, buttonPress, age, transBrake,
                     overrun, typed, braked, after>>
  BY Parts DEF Tag!EndFade, Tag!Go, Tag!TypeOK, Tag!loopOnly, Tag!history
<1>3. /\ Tag!PauseTime \in Nat /\ Tag!PauseTime <= Pause
      /\ tagA = 0 => Tag!PauseTime = IF mode = 5 THEN 1 ELSE 0
  <2>1. tagA \in {0, ShowPause} /\ ShowPause \in Nat
    BY Parts DEF Tag!TypeOK
  <2>2. CASE mode = 6
    BY <2>1, <2>2 DEF Tag!PauseTime, Pause
  <2>3. CASE mode # 6
    BY <2>3 DEF Tag!PauseTime, Pause
  <2> QED BY <2>2, <2>3
<1>4. TypedKept'
  BY <1>1, Parts, TypedStays
<1>5. Tag!TypeOK'
  BY <1>1, <1>3, ShowStays, Parts DEF Tag!TypeOK, Tag!Stages
<1>6. WaitsFit'
  BY <1>1, <1>3, ShowStays DEF WaitsFit
<1>8. BrakedInShow'
  <2> SUFFICES ASSUME braked = "show" PROVE BrakedInShow'
    BY <1>1 DEF BrakedInShow
  <2>1. /\ transBrake /\ tagA = 0
        /\ after <= CodeWait + Pauses(fade - 1) \/ (mode # 5 /\ after <= ShowPause)
    BY <1>1, Parts DEF BrakedInShow
  <2>2. left' = IF mode = 5 THEN 1 ELSE 0
    BY <1>1, <1>3, <2>1
  <2>3. /\ Pauses(fade) \in Nat /\ Pauses(fade - 1) \in Nat
        /\ Pauses(fade) = Pauses(fade - 1) + left'
    BY <2>2, Parts DEF Pauses
  <2>4. \/ after + left' <= CodeWait + Pauses(fade)
        \/ mode # 5 /\ after + left' <= ShowPause
    BY <2>1, <2>2, <2>3, Parts
  <2> QED BY <1>1, <2>1, <2>4, ShowStays DEF BrakedInShow, Tag!InShow
<1>9. BrakedBefore'
  BY <1>1, <1>3, ShowStays, Lengths, Parts DEF BrakedBefore, BeforeShow
<1> QED BY <1>4, <1>5, <1>6, <1>8, <1>9 DEF TagInv

(* After the pause comes the next fade, or the next pass.                  *)
LEMMA EndPauseKeeps == ASSUME Tag!TagAssumption, TagInv, Tag!EndPause
                       PROVE  TagInv'
<1>1. /\ overrun = FALSE /\ stage = "pause" /\ left = 0
      /\ UNCHANGED <<left, mode, tagA, pressCount, buttonPress, age, transBrake,
                     overrun, typed, braked, after>>
  BY Parts DEF Tag!EndPause, Tag!TypeOK, Tag!loopOnly, Tag!history
<1>2. \/ fade < Tag!Fades /\ fade' = fade + 1 /\ stage' = "show"
      \/ ~(fade < Tag!Fades) /\ fade' = 1 /\ stage' = "top"
  BY DEF Tag!EndPause, Tag!Go
<1>3. UNCHANGED <<Tag!Fades, Tag!FadeTime>>
  BY <1>1 DEF Tag!Fades, Tag!FadeTime
<1>4. TypedKept'
  BY <1>1, <1>2, Parts, TypedStays
<1>5. fade' \in 1 .. Tag!Fades /\ stage' \in {"show", "top"}
  BY <1>2, Parts
<1>6. Tag!TypeOK'
  BY <1>1, <1>3, <1>5, Parts DEF Tag!TypeOK, Tag!Stages
<1>7. WaitsFit'
  BY <1>5 DEF WaitsFit
<1>8. stage' = "show" => /\ ShowLength(fade - 1, fade - 1)' = ShowLength(fade, fade)
                         /\ Pauses(fade - 1)' = Pauses(fade)
  <2> SUFFICES ASSUME stage' = "show"
               PROVE  /\ ShowLength(fade - 1, fade - 1)' = ShowLength(fade, fade)
                      /\ Pauses(fade - 1)' = Pauses(fade)
    OBVIOUS
  <2>1. fade' - 1 = fade
    BY <1>2, Parts
  <2>2. Pauses(fade - 1)' = Pauses(fade)
    BY <1>1, <2>1 DEF Pauses
  <2> QED BY <1>3, <2>1, <2>2 DEF ShowLength
<1>10. BrakedInShow'
  <2>1. stage' = "top" => Pauses(fade) \in 0 .. 2
    BY <1>2, Parts, ShowShape DEF Pauses
  <2>2. after + left = after
    BY <1>1, Parts
  <2> QED BY <1>1, <1>5, <1>8, <2>1, <2>2, Parts DEF BrakedInShow, Tag!InShow
<1>11. BrakedBefore'
  <2>1. after + left = after
    BY <1>1, Parts
  <2> QED BY <1>1, <1>3, <1>5, <1>8, <2>1, Lengths, Parts DEF BrakedBefore,
          BeforeShow
<1> QED BY <1>4, <1>6, <1>7, <1>10, <1>11 DEF TagInv

(* A unit of time leaves less to wait, and room for one more press.        *)
LEMMA TickKeeps == ASSUME Tag!TagAssumption, TagInv, Tag!Tick PROVE TagInv'
<1>1. /\ overrun = FALSE /\ stage \in Tag!Waits /\ left > 0 /\ left' = left - 1
      /\ stage = "fade" => ~transBrake
      /\ after' = IF braked = "not" THEN 0 ELSE after + 1
      /\ UNCHANGED <<stage, fade, mode, tagA, pressCount, buttonPress, transBrake,
                     overrun, typed, braked>>
  BY Parts DEF Tag!Tick, Tag!TypeOK, Tag!FadeReturns
<1>2. left' \in Nat
  BY <1>1, Parts
<1>3. TypedKept'
  <2>1. stage' \in {"wait", "decode", "drop"} => fade' = 1
    BY <1>1, Parts DEF TypedKept, KeyHeld
  <2> QED BY <1>1, <2>1, Parts, TypedStays
<1>4. age' \in 0 .. TimeLimit + 1
  <2>1. age \in 0 .. TimeLimit + 1 /\ TimeLimit \in Nat
    BY Parts, Sizes DEF Tag!TypeOK
  <2>2. age' = IF age > TimeLimit THEN age ELSE age + 1
    BY DEF Tag!Tick
  <2> QED BY <2>1, <2>2
<1>5. after' \in Nat /\ (braked # "not" => after' = after + 1)
  BY <1>1, Parts
<1>6. Tag!TypeOK'
  BY <1>1, <1>2, <1>4, <1>5, ShowStays, Parts DEF Tag!TypeOK
<1>7. WaitsFit'
  <2>1. Pause \in Nat
    BY Parts DEF Pause
  <2> QED BY <1>1, <2>1, ShowStays, Parts DEF WaitsFit
<1>9. braked # "not" => after' + left' = after + left
  BY <1>1, <1>5, Parts
<1>10. BrakedInShow'
  BY <1>1, <1>9, ShowStays, Parts DEF BrakedInShow, Tag!Waits
<1>11. BrakedBefore'
  BY <1>1, <1>9, ShowStays, Lengths, Parts DEF BrakedBefore, BeforeShow,
     Tag!Waits
<1> QED BY <1>3, <1>6, <1>7, <1>10, <1>11 DEF TagInv

(* Every step keeps the invariant.                                         *)
LEMMA TagStep == ASSUME Tag!TagAssumption, TagInv, [Tag!Next]_(Tag!tagVars)
                 PROVE  TagInv'
<1>1. CASE UNCHANGED Tag!tagVars
  <2>1. UNCHANGED <<stage, left, fade, mode, tagA, pressCount, buttonPress, age,
                    transBrake, overrun, typed, braked, after>>
    BY <1>1 DEF Tag!tagVars
  <2>2. /\ UNCHANGED <<Tag!Fades, Tag!FadeTime, Pause, Pauses(fade), Pauses(fade - 1)>>
        /\ UNCHANGED <<ShowLength(fade, fade), ShowLength(fade, fade - 1),
                       ShowLength(fade - 1, fade - 1)>>
    BY <2>1, ShowStays
  <2>3. Tag!TypeOK' /\ TypedKept' /\ WaitsFit'
    BY <2>1, <2>2 DEF TagInv, Tag!TypeOK, TypedKept, Counted, Held, KeyHeld,
       WaitsFit
  <2>4. BrakedInShow' /\ BrakedBefore'
    BY <2>1, <2>2 DEF TagInv, BrakedInShow, BrakedBefore
  <2> QED BY <2>3, <2>4 DEF TagInv
<1>2. CASE Tag!Loop
  BY <1>2, TopKeeps, BeforeKeeps, LookKeeps, EndWaitKeeps, DecodeKeeps,
     DropKeeps,
     StartFadeKeeps, EndFadeKeeps, EndPauseKeeps DEF Tag!Loop
<1>3. CASE Tag!Tick
  BY <1>3, TickKeeps
<1>4. CASE \E press \in Presses : Tag!KeyFobInterrupt(press)
  BY <1>4, PressKeeps
<1> QED BY <1>1, <1>2, <1>3, <1>4 DEF Tag!Next, Tag!Undefined

(* The invariant is enough for what is said of a brake.                    *)
LEMMA BrakeIsEnough == ASSUME Tag!TagAssumption, TagInv PROVE Tag!TagShowsEnd
<1>1. ASSUME braked = "show" PROVE after <= CodeWait + 2 \/ after <= ShowPause
  <2>1. Pauses(fade) \in 0 .. 2 /\ Pauses(fade - 1) \in 0 .. 2
    BY Parts, ShowShape DEF Pauses
  <2> QED BY <1>1, <2>1, Parts DEF BrakedInShow, Tag!InShow
<1>2. ASSUME braked = "begin" PROVE after <= CodeWait + Tag!Fades * Tag!FadeTime + 2
  <2>1. stage \in Tag!Stages
    BY Parts DEF Tag!TypeOK
  <2> QED BY <1>2, <2>1, Lengths, Parts DEF BrakedBefore, BeforeShow, Tag!Stages
<1> QED BY <1>1, <1>2 DEF TagInv, Tag!TagShowsEnd, Tag!BrakeCutsShow

(* Only Decode changes the mode, and it finds the code that was typed.     *)
LEMMA ModeIsTyped ==
  ASSUME Tag!TagAssumption, TagInv, [Tag!Next]_(Tag!tagVars), mode' # mode
  PROVE  /\ Len(typed) = 3 /\ typed[1] = 1 /\ typed[2] = 4
         /\ typed[3] \in DOMAIN Tag!Chooses /\ mode' = Tag!Chooses[typed[3]]
<1>1. Tag!Decode
  BY DEF Tag!Next, Tag!Loop, Tag!Top, Tag!Timer, Tag!CheckAge, Tag!Reset,
     Tag!ReleaseBrake, Tag!Look, Tag!EndWait, Tag!Drop,
     Tag!StartFade, Tag!EndFade, Tag!EndPause, Tag!Tick, Tag!Undefined,
     Tag!KeyFobInterrupt, Tag!tagVars
<1>2. /\ stage = "decode" /\ pressCount >= 3 /\ mode' = Tag!ModeAfter(buttonPress[2])
  BY <1>1 DEF Tag!Decode
<1>3. buttonPress[2] \in DOMAIN Tag!Chooses /\ mode' = Tag!Chooses[buttonPress[2]]
  BY <1>2 DEF Tag!ModeAfter
<1>4. Len(typed) = 3 /\ buttonPress[0] = 1 /\ buttonPress[1] = 4
  BY <1>2, Parts DEF TypedKept, Counted, KeyHeld
<1>5. \A i \in 1 .. 3 : buttonPress[i - 1] = typed[i]
  BY <1>4, Parts DEF TypedKept, Held
<1>6. /\ buttonPress[0] = typed[1] /\ buttonPress[1] = typed[2]
      /\ buttonPress[2] = typed[3]
  <2>1. buttonPress[1 - 1] = typed[1]
    BY <1>5
  <2>2. buttonPress[2 - 1] = typed[2]
    BY <1>5
  <2>3. buttonPress[3 - 1] = typed[3]
    BY <1>5
  <2> QED BY <2>1, <2>2, <2>3
<1> QED BY <1>3, <1>4, <1>6

(* The brake cuts a show short, wherever from line 40 to the last wait of  *)
(* a pass the press comes, however many other presses come, and for shows  *)
(* of any length.                                                          *)
THEOREM ShowsEnd == Tag!TagAssumption => (Tag!Spec => []TagShowsEnd)
<1> SUFFICES ASSUME Tag!TagAssumption PROVE Tag!Spec => []TagShowsEnd
  OBVIOUS
<1>1. Tag!Init => TagInv
  BY TagInit
<1>2. TagInv /\ [Tag!Next]_(Tag!tagVars) => TagInv'
  BY TagStep
<1>3. TagInv => TagShowsEnd
  BY BrakeIsEnough DEF TagShowsEnd
<1> QED BY <1>1, <1>2, <1>3, PTL DEF Tag!Spec

(* A mode is chosen by the code typed for it and by no other.              *)
THEOREM ModesAreTyped == Tag!TagAssumption => (Tag!Spec => ModeFromTypedCode)
<1> SUFFICES ASSUME Tag!TagAssumption PROVE Tag!Spec => ModeFromTypedCode
  OBVIOUS
<1>1. Tag!Init => TagInv
  BY TagInit
<1>2. TagInv /\ [Tag!Next]_(Tag!tagVars) => TagInv'
  BY TagStep
<1>3. TagInv /\ [Tag!Next]_(Tag!tagVars) =>
        [mode' # mode => /\ Len(typed) = 3 /\ typed[1] = 1 /\ typed[2] = 4
                         /\ typed[3] \in DOMAIN Tag!Chooses
                         /\ mode' = Tag!Chooses[typed[3]]]_(Tag!tagVars)
  BY ModeIsTyped
<1> QED BY <1>1, <1>2, <1>3, PTL
        DEF ModeFromTypedCode, Tag!Spec, Tag!ModeFromTypedCode

=============================================================================
